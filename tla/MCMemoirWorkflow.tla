------------------------- MODULE MCMemoirWorkflow -------------------------
(* MemoirWorkflow on small instances, for TLC. *)
EXTENDS MemoirWorkflow

M(ref, type, form, size) == [ref |-> ref, type |-> type, form |-> form, size |-> size]

\* Three digests for two batches, of two types.
Batched == <<M("d1", "diary", "digest", 1), M("b1", "completed_bet", "digest", 2),
             M("d2", "diary", "digest", 1)>>
\* Only the first material has a text; the note is not to be shown to the model.
Hidden == <<M("d1", "diary", "digest", 1), M("b1", "completed_bet", "metadata", 1),
            M("h1", "handbook_note", "none", 1)>>

SmallCases == {[version |-> v, snapshot |-> Hidden] : v \in {"1.0.4", "1.0.5", "1.0.8"}}
              \cup {[version |-> v, snapshot |-> Batched] : v \in {"1.0.5", "1.0.8"}}

===========================================================================
