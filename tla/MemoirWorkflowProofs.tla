------------------------ MODULE MemoirWorkflowProofs ------------------------
(***************************************************************************)
(* What MemoirWorkflow says of the published document, of what leaves for  *)
(* the image provider and of a run that succeeded, for every snapshot,     *)
(* package version, budget and number of attempts, and whatever the model  *)
(* answers.                                                                *)
(*                                                                         *)
(* The argument: nothing a node computes outlives its attempt, so the      *)
(* invariant says for every position in the graph what the nodes before it *)
(* have established in the attempt's memory (Prepared, LoopFits,           *)
(* DraftFits), and of the published document what was true of the memory   *)
(* it was taken from (Sound).                                              *)
(***************************************************************************)
EXTENDS MemoirWorkflow, TLAPS, FiniteSetTheorems, SequenceTheorems, WellFoundedInduction

-----------------------------------------------------------------------------
(* Natural numbers and positions.  Induction is by the least               *)
(* counterexample.                                                         *)

(* Every nonempty set of naturals has a least element.                     *)
LEMMA LeastNatural ==
    ASSUME NEW T \in SUBSET Nat, T # {}
    PROVE  \E n \in T : \A m \in T : n <= m
<1>. DEFINE Less == {ss \in Nat \X Nat : ss[1] < ss[2]}
<1>1. IsWellFoundedOn(Less, Nat)
    BY NatLessThanWellFounded DEF OpToRel
<1>. HIDE DEF Less
<1>2. PICK n \in T : \A m \in T : ~ (<<m, n>> \in Less)
    BY <1>1, WFMin
<1>3. \A m \in T : ~ (m < n)
    BY <1>2 DEF Less
<1>. QED  BY <1>3

(* A nonempty set of naturals with a bound has a greatest element, which   *)
(* Max returns (NextId, ScanEnd).                                          *)
LEMMA MaxOfBounded ==
    ASSUME NEW S \in SUBSET Nat, S # {}, NEW b \in Nat, \A x \in S : x <= b
    PROVE  Max(S) \in S /\ \A x \in S : x <= Max(S)
<1>. DEFINE B == {c \in Nat : \A x \in S : x <= c}
<1>1. PICK c \in B : \A d \in B : c <= d
    <2>1. B \in SUBSET Nat /\ b \in B
        OBVIOUS
    <2>. QED  BY <2>1, LeastNatural
<1>2. c \in S
    <2>1. SUFFICES ASSUME c \notin S PROVE FALSE
        OBVIOUS
    <2>2. \A x \in S : x <= c - 1
        BY <2>1
    <2>3. PICK x \in S : x <= c - 1
        BY <2>2
    <2>4. c - 1 \in Nat
        BY <2>3
    <2>. QED  BY <1>1, <2>2, <2>4
<1>3. \E x \in S : \A y \in S : x >= y
    BY <1>2
<1>. QED  BY <1>3 DEF Max

(* Finitely many naturals have a bound.                                    *)
LEMMA SequenceIsBounded ==
    ASSUME NEW n \in Nat, NEW f \in [1 .. n -> Nat]
    PROVE  \E b \in Nat : \A i \in 1 .. n : f[i] <= b
<1>. DEFINE Bounded(k) == \E b \in Nat : \A i \in 1 .. k : f[i] <= b
           B == {k \in 0 .. n : ~Bounded(k)}
<1>1. SUFFICES ASSUME ~Bounded(n) PROVE FALSE
    OBVIOUS
<1>2. PICK k \in B : \A m \in B : k <= m
    <2>. HIDE DEF Bounded
    <2>1. B \in SUBSET Nat /\ n \in B
        BY <1>1
    <2>. QED  BY <2>1, LeastNatural
<1>3. k \in 0 .. n /\ ~Bounded(k)
    BY <1>2
<1>4. k # 0
    BY <1>3
<1>5. Bounded(k - 1)
    <2>. HIDE DEF Bounded
    <2>1. k - 1 \in 0 .. n /\ ~(k <= k - 1)
        BY <1>3, <1>4
    <2>. QED  BY <1>2, <2>1
<1>6. PICK b \in Nat : \A i \in 1 .. k - 1 : f[i] <= b
    BY <1>5
<1>7. f[k] \in Nat /\ b + f[k] \in Nat
    BY <1>3, <1>4
<1>8. \A i \in 1 .. k : f[i] <= b + f[k]
    <2>. TAKE i \in 1 .. k
    <2>1. i = k \/ i \in 1 .. k - 1
        BY <1>3, <1>4
    <2>2. i \in 1 .. n /\ f[i] \in Nat
        BY <1>3
    <2>. QED  BY <1>6, <1>7, <2>1, <2>2
<1>. QED  BY <1>3, <1>7, <1>8

(* Picks: every position it takes is one of those it is given, whatever    *)
(* their number.                                                           *)
LEMMA NthIsAPosition ==
    ASSUME NEW n \in Nat, NEW S \in SUBSET (1 .. n), NEW k \in 1 .. Cardinality(S)
    PROVE  Nth(S, k) \in S
<1>. DEFINE Count(i) == Cardinality(S \cap (1 .. i))
           B == {i \in 0 .. n : k <= Count(i)}
<1>1. IsFiniteSet(S) /\ \A i \in 0 .. n : IsFiniteSet(S \cap (1 .. i)) /\ Count(i) \in Nat
    <2>1. IsFiniteSet(1 .. n)
        <3>1. 1 \in Int /\ n \in Int
            OBVIOUS
        <3>. QED  BY ONLY <3>1, FS_Interval
    <2>2. IsFiniteSet(S)
        BY <2>1, FS_Subset
    <2>. QED  BY <2>2, FS_Intersection, FS_CardinalityType
<1>2. PICK i \in B : \A m \in B : i <= m
    <2>1. S \cap (1 .. n) = S
        OBVIOUS
    <2>2. B \in SUBSET Nat /\ n \in B
        BY <1>1, <2>1
    <2>. HIDE DEF B
    <2>. QED  BY <2>2, LeastNatural
<1>3. i # 0
    <2>1. ASSUME i = 0 PROVE FALSE
        <3>1. S \cap (1 .. i) = {}
            BY <2>1
        <3>. QED  BY <1>2, <3>1, FS_EmptySet
    <2>. QED  BY <2>1
<1>4. Count(i - 1) \in Nat /\ Count(i - 1) < k
    BY <1>1, <1>2, <1>3
<1>5. i \in S
    <2>1. ASSUME i \notin S PROVE FALSE
        <3>1. S \cap (1 .. i) = S \cap (1 .. i - 1)
            BY <2>1, <1>2
        <3>. QED  BY <1>2, <1>4, <3>1
    <2>. QED  BY <2>1
<1>6. Count(i) = Count(i - 1) + 1
    <2>1. S \cap (1 .. i) = (S \cap (1 .. i - 1)) \cup {i} /\ i \notin S \cap (1 .. i - 1)
        BY <1>5
    <2>2. IsFiniteSet(S \cap (1 .. i - 1))
        BY <1>1, <1>2, <1>3
    <2>. QED  BY <2>1, <2>2, FS_AddElement
<1>7. Count(i) = k
    BY <1>2, <1>4, <1>6
<1>. QED  BY <1>5, <1>7 DEF Nth

(* Picks returns elements of the list, no more than there are.             *)
LEMMA PicksFacts ==
    ASSUME NEW S, NEW list \in Seq(S), NEW P \in SUBSET (DOMAIN list)
    PROVE  /\ Picks(list, P) \in Seq(S)
           /\ Len(Picks(list, P)) <= Len(list)
           /\ \A k \in DOMAIN Picks(list, P) : \E i \in P : Picks(list, P)[k] = list[i]
<1>1. Len(list) \in Nat /\ DOMAIN list = 1 .. Len(list)
    OBVIOUS
<1>2. IsFiniteSet(1 .. Len(list)) /\ Cardinality(1 .. Len(list)) = Len(list)
    <2>1. 1 \in Int /\ Len(list) \in Int /\ Len(list) \in Nat
        BY <1>1
    <2>2. IsFiniteSet(1 .. Len(list)) /\ Cardinality(1 .. Len(list)) = IF 1 > Len(list) THEN 0 ELSE Len(list) - 1 + 1
        BY ONLY <2>1, FS_Interval
    <2>. QED  BY <2>1, <2>2
<1>3. Cardinality(P) \in Nat /\ Cardinality(P) <= Len(list)
    BY <1>1, <1>2, FS_Subset, FS_CardinalityType
<1>4. \A k \in 1 .. Cardinality(P) : Nth(P, k) \in P
    BY <1>1, NthIsAPosition
<1>5. \A k \in 1 .. Cardinality(P) : list[Nth(P, k)] \in S
    BY <1>1, <1>4
<1>6. Picks(list, P) \in [1 .. Cardinality(P) -> S]
    BY <1>5 DEF Picks
<1>7. Picks(list, P) \in Seq(S) /\ Len(Picks(list, P)) = Cardinality(P)
    BY <1>3, <1>6, IsASeq
<1>8. \A k \in DOMAIN Picks(list, P) : Picks(list, P)[k] = list[Nth(P, k)]
    BY DEF Picks
<1>9. DOMAIN Picks(list, P) = 1 .. Cardinality(P)
    BY DEF Picks
<1>. QED  BY <1>3, <1>4, <1>7, <1>8, <1>9

-----------------------------------------------------------------------------
(* The inductive invariant.  Its parts speak of given values of the        *)
(* variables, only of the bound case through the variable itself.          *)

Steps == {"node", "rounds", "body", "closing", "images"}
LoopSteps == {"rounds", "body", "closing"}

SeenSet == [ref : Refs, type : Types, size : Nat, text : BOOLEAN, sensitive : BOOLEAN]
Materials == [i \in DOMAIN case.snapshot |-> Sanitized(case.snapshot[i])]
SnapshotTypes == {case.snapshot[i].type : i \in DOMAIN case.snapshot}
TextsOf(m) == Picks(m, {i \in DOMAIN m : ~m[i].sensitive /\ m[i].text})
SafeOf(m) ==
    LET safe == Picks(m, {i \in DOMAIN m : ~m[i].sensitive})
        n == IF Looped THEN Len(safe) ELSE Min({Len(safe), OldRefMax})
    IN {safe[i].ref : i \in 1 .. n}
RefsAt(m, is) == {TextsOf(m)[i].ref : i \in is}

\* The references of the materials the model may see.
Shareable == {case.snapshot[i].ref :
                i \in {j \in DOMAIN case.snapshot : ~Sanitized(case.snapshot[j]).sensitive}}

RunSet == [status : {"queued", "running"} \cup Ended, attempt : 0 .. MaxAttempt]
UsageSet == [text : 0 .. MaxCalls, images : Nat, tokens : Nat]
PosSet == [at : 1 .. Len(Graph) + 1, step : Steps, shot : Nat]
WorkSet == [material : {<<>>, Materials}, types : SUBSET Types, picked : Seq(SUBSET Refs),
            scenes : Seq(SceneSet), actions : Seq(Nat), media : SUBSET Nat,
            doc : Seq(SceneSet), partial : BOOLEAN]
LoopSet == [cursor : 0 .. Len(case.snapshot), left : 0 .. MaxCalls,
            errors : BOOLEAN, exhausted : BOOLEAN, first : SUBSET Refs, final : SUBSET Refs,
            read : SUBSET Refs, dropped : SUBSET Refs, mends : Nat]

\* Where an attempt, and a run between attempts, can be.
Placed(r, p, w) ==
    /\ p.step \in LoopSteps => Looped /\ p.at = 4
    /\ p.step = "images" => p.at = 8 /\ p.shot >= 1
    /\ r.status = "queued" => r.attempt < MaxAttempt
    /\ r.status = "succeeded" => p.at > 4 /\ ~w.partial

\* What the first three nodes leave behind.
Prepared(p, w) ==
    /\ p.at > 2 => w.material = Materials
    /\ p.at > 3 => w.types = SnapshotTypes

\* The cursor counts materials that were read or left out, unless a round failed; the
\* rounds end when it is at the end, or are cut short and say so.
LoopFits(p, w, l) ==
    /\ p.step = "body" => l.left > 0
    /\ p.step \in LoopSteps =>
         /\ l.cursor <= Len(TextsOf(w.material))
         /\ ~l.errors => RefsAt(w.material, 1 .. l.cursor) \subseteq l.read \cup l.dropped
    /\ p.step = "closing" => l.exhausted \/ l.cursor = Len(TextsOf(w.material))
    /\ Looped /\ p.at > 4 /\ ~w.partial =>
         RefsAt(w.material, DOMAIN TextsOf(w.material)) \subseteq l.read \cup l.dropped

Framed(scenes) ==
    /\ Len(scenes) >= 3
    /\ scenes[1].kind = "cover" /\ scenes[Len(scenes)].kind = "summary"
Covering(scenes) == SnapshotTypes \subseteq TypesOf(RefsOf(scenes))
Harmless(scenes, refs) == \A i \in DOMAIN scenes : ~scenes[i].harm /\ scenes[i].refs \subseteq refs

\* A document that may be published.
Sound(scenes) ==
    /\ Cardinality(IdsOf(scenes)) = Len(scenes)
    /\ Harmless(scenes, Shareable)
    /\ Looped => scenes = Base \/ (Framed(scenes) /\ Covering(scenes))

\* The scenes in hand at each position.
DraftFits(p, w) ==
    /\ Looped => \A i \in DOMAIN w.scenes : w.scenes[i].kind \in Kinds
    /\ Looped /\ p.at > 4 => (p.at > 8 /\ w.scenes = Base) \/ Framed(w.scenes)
    /\ Looped /\ p.at > 6 => (p.at > 8 /\ w.scenes = Base) \/ Covering(w.scenes)
    /\ p.step = "images" => Harmless(w.scenes, SafeOf(w.material))
    /\ p.at > 9 => Sound(w.doc)

Good(r, u, p, w, l, d) ==
    /\ r \in RunSet /\ u \in UsageSet /\ p \in PosSet /\ w \in WorkSet /\ l \in LoopSet
    /\ d \in Seq(SceneSet)
    /\ Placed(r, p, w) /\ Prepared(p, w) /\ LoopFits(p, w, l) /\ DraftFits(p, w)
    /\ d = <<>> \/ Sound(d)

IInv ==
    /\ case \in Cases
    /\ Good(run, usage, pos, work, loop, published)
    /\ EgressIsSafe

-----------------------------------------------------------------------------
(* What the definitions of the model give, for every bound case.           *)

(* The bounds are positive, costs are naturals.                            *)
LEMMA Bounds ==
    /\ MaxCalls \in Nat \ {0} /\ MaxAttempt \in Nat \ {0} /\ OldRefMax \in Nat \ {0}
    /\ MaxTokens \in Nat /\ Costs \subseteq Nat
BY ConstantsAssumption

(* The bound case: its version and its materials, each with one reference. *)
LEMMA CaseFacts ==
    ASSUME case \in Cases
    PROVE  /\ case.version \in {"1.0.4", "1.0.5", "1.0.8"}
           /\ case.snapshot \in Seq(Material)
           /\ Len(case.snapshot) \in Nat /\ DOMAIN case.snapshot = 1 .. Len(case.snapshot)
           /\ \A i, j \in DOMAIN case.snapshot :
                 case.snapshot[i].ref = case.snapshot[j].ref => i = j
<1>1. /\ case.version \in {"1.0.4", "1.0.5", "1.0.8"}
      /\ case.snapshot \in Seq(Material)
      /\ \A i, j \in DOMAIN case.snapshot :
            case.snapshot[i].ref = case.snapshot[j].ref => i = j
    BY ConstantsAssumption
<1>. HIDE DEF Material
<1>. QED  BY <1>1

(* The graphs agree on the position of every node but publish_document.    *)
LEMMA GraphFacts ==
    ASSUME case \in Cases
    PROVE  /\ Len(Graph) \in {10, 11}
           /\ \A i \in 1 .. Len(Graph) :
                /\ Graph[i] = "load" => i = 1
                /\ Graph[i] = "sanitize" => i = 2
                /\ Graph[i] = "stats" => i = 3
                /\ Graph[i] \in {"batches", "highlights"} => i = 4
                /\ Graph[i] \in {"batch", "chapters"} => i = 5
                /\ Graph[i] \in {"coverage", "scenes"} => i = 6
                /\ Graph[i] = "actions" => i = 7
                /\ Graph[i] = "media" => i = 8
                /\ Graph[i] = "safety" => i = 9
                /\ Graph[i] \in {"audio", "publish"} => i > 9
                /\ Graph[i] \in {"batches", "batch", "coverage", "audio"} => Looped
                /\ Graph[i] \in {"highlights", "chapters", "scenes"} => ~Looped
<1>1. case.version \in {"1.0.4", "1.0.5", "1.0.8"}
    BY CaseFacts
<1>2. CASE case.version = "1.0.4"
    <2>1. Graph = Graph104 /\ ~Looped
        BY <1>2 DEF Graph, Looped
    <2>. QED  BY <2>1 DEF Graph104
<1>3. CASE case.version = "1.0.5"
    <2>1. Graph = Graph105 /\ Looped
        BY <1>3 DEF Graph, Looped
    <2>. QED  BY <2>1 DEF Graph105
<1>4. CASE case.version = "1.0.8"
    <2>1. Graph = Graph108 /\ Looped
        BY <1>4 DEF Graph, Looped
    <2>. QED  BY <2>1 DEF Graph108
<1>. QED  BY <1>1, <1>2, <1>3, <1>4

(* What sanitize_materials makes of the snapshot.                          *)
LEMMA MaterialFacts ==
    ASSUME case \in Cases, NEW m \in {<<>>, Materials}
    PROVE  /\ m \in Seq(SeenSet)
           /\ Len(m) <= Len(case.snapshot)
           /\ \A i \in DOMAIN m : /\ i \in DOMAIN case.snapshot
                                  /\ m[i] = Sanitized(case.snapshot[i])
                                  /\ m[i].ref = case.snapshot[i].ref
<1>1. case.snapshot \in Seq(Material) /\ Len(case.snapshot) \in Nat
      /\ DOMAIN case.snapshot = 1 .. Len(case.snapshot)
    BY CaseFacts
<1>2. \A i \in DOMAIN case.snapshot : Sanitized(case.snapshot[i]) \in SeenSet
    <2>. TAKE i \in DOMAIN case.snapshot
    <2>1. case.snapshot[i] \in Material /\ case.snapshot[i].ref \in Refs
        BY <1>1 DEF Refs
    <2>2. PICK x : x = case.snapshot[i]
        OBVIOUS
    <2>3. (x.form = "digest") \in BOOLEAN
          /\ (x.form = "none" \/ (x.form = "metadata" /\ x.type \notin SummaryTypes)) \in BOOLEAN
        OBVIOUS
    <2>4. x.type \in Types /\ x.size \in Nat /\ x.ref \in Refs
        BY <2>1, <2>2 DEF Material
    <2>5. Sanitized(x) \in SeenSet
        BY <2>3, <2>4 DEF Sanitized, SeenSet
    <2>. QED  BY <2>2, <2>5
<1>3. \A i \in DOMAIN case.snapshot : Sanitized(case.snapshot[i]).ref = case.snapshot[i].ref
    BY DEF Sanitized
<1>4. CASE m = <<>>
    BY <1>1, <1>4
<1>5. CASE m = Materials
    <2>1. Materials \in [1 .. Len(case.snapshot) -> SeenSet]
        BY <1>1, <1>2 DEF Materials
    <2>2. Materials \in Seq(SeenSet) /\ Len(Materials) = Len(case.snapshot)
        BY <1>1, <2>1, IsASeq
    <2>3. \A i \in DOMAIN Materials : Materials[i] = Sanitized(case.snapshot[i])
        BY DEF Materials
    <2>4. DOMAIN Materials = DOMAIN case.snapshot
        BY DEF Materials
    <2>. QED  BY <1>1, <1>3, <1>5, <2>2, <2>3, <2>4
<1>. QED  BY <1>4, <1>5

(* The materials the model is given, and those whose references it may     *)
(* use: never one that is sensitive.                                       *)
LEMMA TextFacts ==
    ASSUME case \in Cases, NEW m \in {<<>>, Materials}
    PROVE  /\ TextsOf(m) \in Seq(SeenSet)
           /\ Len(TextsOf(m)) \in Nat /\ Len(TextsOf(m)) <= Len(case.snapshot)
           /\ DOMAIN TextsOf(m) = 1 .. Len(TextsOf(m))
           /\ \A i \in DOMAIN TextsOf(m) : TextsOf(m)[i].ref \in Refs
<1>. DEFINE P == {i \in DOMAIN m : ~m[i].sensitive /\ m[i].text}
<1>1. m \in Seq(SeenSet) /\ Len(m) \in Nat /\ Len(m) <= Len(case.snapshot) /\ Len(case.snapshot) \in Nat
    <2>1. m \in Seq(SeenSet) /\ Len(m) <= Len(case.snapshot)
        BY MaterialFacts
    <2>2. Len(case.snapshot) \in Nat
        BY CaseFacts
    <2>. QED  BY <2>1, <2>2
<1>2. P \in SUBSET (DOMAIN m)
    OBVIOUS
<1>3. TextsOf(m) = Picks(m, P)
    BY DEF TextsOf
<1>. HIDE DEF P
<1>4. TextsOf(m) \in Seq(SeenSet) /\ Len(TextsOf(m)) <= Len(m)
    BY <1>1, <1>2, <1>3, PicksFacts
<1>5. \A i \in DOMAIN TextsOf(m) : TextsOf(m)[i] \in SeenSet
    BY <1>4
<1>6. \A x \in SeenSet : x.ref \in Refs
    BY DEF SeenSet
<1>. QED  BY <1>1, <1>4, <1>5, <1>6

LEMMA SafeFacts ==
    ASSUME case \in Cases, NEW m \in {<<>>, Materials}
    PROVE  SafeOf(m) \subseteq Shareable
<1>. DEFINE P == {i \in DOMAIN m : ~m[i].sensitive}
            safe == Picks(m, P)
            n == IF Looped THEN Len(safe) ELSE Min({Len(safe), OldRefMax})
<1>1. m \in Seq(SeenSet) /\ \A i \in DOMAIN m : /\ i \in DOMAIN case.snapshot
                                                /\ m[i] = Sanitized(case.snapshot[i])
                                                /\ m[i].ref = case.snapshot[i].ref
    BY MaterialFacts
<1>2. P \in SUBSET (DOMAIN m)
    OBVIOUS
<1>3. safe \in Seq(SeenSet) /\ \A k \in DOMAIN safe : \E i \in P : safe[k] = m[i]
    <2>. HIDE DEF P
    <2>. QED  BY <1>1, <1>2, PicksFacts
<1>4. SafeOf(m) = {safe[i].ref : i \in 1 .. n}
    BY DEF SafeOf
<1>. HIDE DEF safe
<1>5. Len(safe) \in Nat /\ DOMAIN safe = 1 .. Len(safe)
    BY <1>3
<1>6. n \in Nat /\ n <= Len(safe)
    <2>1. ASSUME NEW a \in Nat, NEW b \in Nat PROVE Min({a, b}) \in Nat /\ Min({a, b}) <= a
        <3>1. \E x \in {a, b} : \A y \in {a, b} : x =< y
            OBVIOUS
        <3>2. Min({a, b}) \in {a, b} /\ \A y \in {a, b} : Min({a, b}) =< y
            BY <3>1 DEF Min
        <3>. QED  BY <3>2
    <2>. QED  BY <1>5, <2>1, Bounds
<1>. HIDE DEF n
<1>7. ASSUME NEW i \in 1 .. n PROVE safe[i].ref \in Shareable
    <2>1. i \in DOMAIN safe
        BY <1>5, <1>6
    <2>2. PICK j \in P : safe[i] = m[j]
        BY <1>3, <2>1
    <2>3. j \in DOMAIN case.snapshot /\ ~Sanitized(case.snapshot[j]).sensitive
          /\ safe[i].ref = case.snapshot[j].ref
        BY <1>1, <2>2
    <2>. QED  BY <2>3 DEF Shareable
<1>. QED  BY <1>4, <1>7

LEMMA ShareableFacts ==
    ASSUME case \in Cases
    PROVE  /\ Shareable \subseteq Refs
           /\ \A j \in DOMAIN case.snapshot :
                case.snapshot[j].ref \in Shareable => ~Sanitized(case.snapshot[j]).sensitive
<1>1. \A i, j \in DOMAIN case.snapshot : case.snapshot[i].ref = case.snapshot[j].ref => i = j
    BY CaseFacts
<1>. QED  BY <1>1 DEF Shareable, Refs

(* A scan does not go back and does not pass the last material.            *)
LEMMA ScanFacts ==
    ASSUME case \in Cases, work.material \in {<<>>, Materials},
           NEW c \in Nat, c <= Len(Texts)
    PROVE  ScanEnd(c) \in Nat /\ c <= ScanEnd(c) /\ ScanEnd(c) <= Len(Texts)
<1>. DEFINE S == {e \in c .. Len(Texts) : \A j \in c + 1 .. e : Takes(c, j)}
<1>1. Texts = TextsOf(work.material)
    BY DEF Texts, TextsOf
<1>2. Len(Texts) \in Nat
    BY <1>1, TextFacts
<1>3. c \in S /\ S \in SUBSET Nat /\ \A x \in S : x <= Len(Texts) /\ c <= x
    BY <1>2
<1>4. ScanEnd(c) = Max(S)
    BY DEF ScanEnd
<1>. HIDE DEF S
<1>5. Max(S) \in S
    BY <1>2, <1>3, MaxOfBounded
<1>. QED  BY <1>3, <1>4, <1>5

(* Taking the first scene of every identifier adds nothing.                *)
LEMMA MergeFacts ==
    ASSUME NEW S, NEW scenes \in Seq(S)
    PROVE  MergeUnique(scenes) \in Seq(S)
<1>. DEFINE P == {i \in DOMAIN scenes : \A j \in 1 .. i - 1 : scenes[j].id # scenes[i].id}
<1>1. P \in SUBSET (DOMAIN scenes) /\ MergeUnique(scenes) = Picks(scenes, P)
    BY DEF MergeUnique
<1>. HIDE DEF P
<1>. QED  BY <1>1, PicksFacts

(* A new identifier is a natural.                                          *)
LEMMA NextIdFacts ==
    ASSUME NEW scenes \in Seq(SceneSet)
    PROVE  NextId(scenes) \in Nat
<1>. DEFINE f == [i \in 1 .. Len(scenes) |-> scenes[i].id]
            S == {0} \cup IdsOf(scenes)
<1>1. Len(scenes) \in Nat /\ DOMAIN scenes = 1 .. Len(scenes)
    OBVIOUS
<1>2. \A i \in DOMAIN scenes : scenes[i] \in SceneSet /\ scenes[i].id \in Nat
    <2>1. \A x \in SceneSet : x.id \in Nat
        BY DEF SceneSet
    <2>. QED  BY <2>1
<1>3. f \in [1 .. Len(scenes) -> Nat]
    BY <1>1, <1>2
<1>4. PICK b \in Nat : \A i \in 1 .. Len(scenes) : f[i] <= b
    <2>. HIDE DEF f
    <2>. QED  BY <1>1, <1>3, SequenceIsBounded
<1>5. S \in SUBSET Nat /\ 0 \in S /\ \A x \in S : x <= b
    BY <1>1, <1>2, <1>4 DEF IdsOf
<1>6. NextId(scenes) = 1 + Max(S)
    BY DEF NextId
<1>. HIDE DEF S
<1>7. Max(S) \in Nat
    BY <1>5, MaxOfBounded
<1>. QED  BY <1>6, <1>7

(* The scenes made of a draft: one for each, of its kind, with its         *)
(* references.                                                             *)
LEMMA NamedFacts ==
    ASSUME work.scenes \in Seq(SceneSet), NEW n \in Nat, NEW d, DOMAIN d = 1 .. n, NEW quirk,
           \A i \in 1 .. n : d[i].kind \in Kinds \cup {"image"} /\ d[i].refs \in SUBSET Refs
    PROVE  /\ Named(d, quirk) \in Seq(SceneSet)
           /\ DOMAIN Named(d, quirk) = 1 .. n /\ Len(Named(d, quirk)) = n
           /\ \A i \in 1 .. n : /\ Named(d, quirk)[i].kind = d[i].kind
                                /\ Named(d, quirk)[i].refs = d[i].refs
<1>. DEFINE Id(i) == IF quirk = "clash" /\ i = Len(d) /\ work.scenes # <<>>
                     THEN work.scenes[1].id ELSE NextId(work.scenes) + i - 1
            Harm(i) == quirk = "harm" /\ i = Len(d)
<1>1. NextId(work.scenes) \in Nat
    BY NextIdFacts
<1>2. work.scenes # <<>> => work.scenes[1].id \in Nat
    <2>1. work.scenes # <<>> => work.scenes[1] \in SceneSet
        OBVIOUS
    <2>. QED  BY <2>1 DEF SceneSet
<1>3. \A i \in 1 .. n : Id(i) \in Nat /\ Harm(i) \in BOOLEAN
    <2>1. \A i \in 1 .. n : NextId(work.scenes) + i - 1 \in Nat
        BY <1>1
    <2>. QED  BY <1>2, <2>1
<1>4. Named(d, quirk) = [i \in 1 .. n |-> Scene(Id(i), d[i].kind, d[i].refs, Harm(i))]
    BY DEF Named
<1>. HIDE DEF Id, Harm
<1>5. \A i \in 1 .. n : Scene(Id(i), d[i].kind, d[i].refs, Harm(i)) \in SceneSet
    BY <1>3 DEF Scene, SceneSet
<1>6. Named(d, quirk) \in [1 .. n -> SceneSet]
    BY <1>4, <1>5
<1>7. Named(d, quirk) \in Seq(SceneSet) /\ Len(Named(d, quirk)) = n
    BY <1>6, IsASeq
<1>. QED  BY <1>4, <1>6, <1>7 DEF Scene

(* A model call: nothing was asked, or rows the policy has left.           *)
LEMMA CallShape ==
    ASSUME NEW A, NEW c \in Calls(A)
    PROVE  /\ c \in [rows : 0 .. 2, cost : Nat, answered : BOOLEAN, out : {<<>>} \cup A]
           /\ c.answered => c.out \in A
           /\ c.rows > 0 => Permitted /\ c.rows <= MaxCalls - Rows
<1>. DEFINE None == [rows |-> 0, cost |-> 0, answered |-> FALSE, out |-> <<>>]
            Lost == [rows : 1 .. 2, cost : {0}, answered : {FALSE}, out : {<<>>}]
            Won == [rows : 1 .. 2, cost : Costs, answered : {TRUE}, out : A]
<1>1. c = None \/ (c \in Lost \cup Won /\ Permitted /\ c.rows <= MaxCalls - Rows)
    BY DEF Calls
<1>2. CASE c = None
    BY <1>2
<1>3. CASE c \in Lost /\ Permitted /\ c.rows <= MaxCalls - Rows
    <2>1. c \in [rows : 0 .. 2, cost : Nat, answered : BOOLEAN, out : {<<>>} \cup A]
        <3>1. 1 .. 2 \subseteq 0 .. 2 /\ {0} \subseteq Nat
            OBVIOUS
        <3>. QED  BY <1>3, <3>1, Zenon
    <2>2. ~c.answered
        BY <1>3
    <2>. QED  BY <1>3, <2>1, <2>2
<1>4. CASE c \in Won /\ Permitted /\ c.rows <= MaxCalls - Rows
    <2>1. c \in [rows : 0 .. 2, cost : Nat, answered : BOOLEAN, out : {<<>>} \cup A]
        <3>1. 1 .. 2 \subseteq 0 .. 2
            OBVIOUS
        <3>. QED  BY <1>4, <3>1, Bounds, Zenon
    <2>2. c.out \in A
        BY <1>4
    <2>. QED  BY <1>4, <2>1, <2>2
<1>. HIDE DEF None, Lost, Won
<1>. QED  BY <1>1, <1>2, <1>3, <1>4

(* A model call leaves no more rows than the policy has left, and only an  *)
(* answered one has an output.                                             *)
LEMMA CallFacts ==
    ASSUME usage \in UsageSet, NEW A, NEW c \in Calls(A)
    PROVE  /\ Charged(usage, c) \in UsageSet
           /\ c.answered \in BOOLEAN /\ (c.answered => c.out \in A)
           /\ c.rows \in 0 .. 2 /\ c.cost \in Nat
           /\ c.rows > 0 => Permitted
<1>1. /\ c.rows \in 0 .. 2 /\ c.cost \in Nat /\ c.answered \in BOOLEAN
      /\ c.answered => c.out \in A
      /\ c.rows > 0 => Permitted /\ c.rows <= MaxCalls - Rows
    BY CallShape
<1>2. usage.text \in 0 .. MaxCalls /\ usage.images \in Nat /\ usage.tokens \in Nat
    BY DEF UsageSet
<1>3. usage.text + c.rows \in 0 .. MaxCalls /\ usage.tokens + c.cost \in Nat
    BY <1>1, <1>2, Bounds DEF Rows
<1>4. Charged(usage, c) \in UsageSet
    BY <1>2, <1>3 DEF Charged, UsageSet
<1>. QED  BY <1>1, <1>4

(* The same with the one repair of the older nodes.                        *)
LEMMA AskedFacts ==
    ASSUME usage \in UsageSet, NEW A, NEW c \in Asked(A)
    PROVE  /\ Charged(usage, c) \in UsageSet
           /\ c.answered \in BOOLEAN /\ (c.answered => c.out \in A)
<1>1. CASE c \in Calls(A)
    BY <1>1, CallFacts
<1>2. CASE c \notin Calls(A)
    <2>. DEFINE Q == {q \in Calls(A) \X Costs :
                        /\ Permitted /\ q[1].rows + 1 <= MaxCalls - Rows
                        /\ q[1].rows > 0 => usage.tokens + q[2] <= MaxTokens}
    <2>1. PICK p \in Q : c = [p[1] EXCEPT !.rows = @ + 1, !.cost = @ + p[2]]
        BY <1>2 DEF Asked
    <2>2. p[1] \in Calls(A) /\ p[2] \in Nat /\ Permitted /\ p[1].rows + 1 <= MaxCalls - Rows
        BY <2>1, Bounds
    <2>3. PICK a, k : a = p[1] /\ k = p[2]
        OBVIOUS
    <2>. HIDE DEF Q
    <2>4. /\ a \in Calls(A) /\ k \in Nat /\ a.rows + 1 <= MaxCalls - Rows
          /\ c = [a EXCEPT !.rows = @ + 1, !.cost = @ + k]
        BY <2>1, <2>2, <2>3
    <2>5. a \in [rows : 0 .. 2, cost : Nat, answered : BOOLEAN, out : {<<>>} \cup A]
        BY <2>4, CallShape
    <2>6. a.answered => a.out \in A
        BY <2>4, CallFacts
    <2>7. c.rows = a.rows + 1 /\ c.cost = a.cost + k /\ c.answered = a.answered /\ c.out = a.out
        BY <2>4, <2>5
    <2>8. usage.text \in 0 .. MaxCalls /\ usage.images \in Nat /\ usage.tokens \in Nat
        BY DEF UsageSet
    <2>9. usage.text + c.rows \in 0 .. MaxCalls /\ usage.tokens + c.cost \in Nat
        <3>1. a.rows \in Nat /\ a.cost \in Nat
            BY <2>5
        <3>. QED  BY <2>4, <2>7, <2>8, <3>1, Bounds DEF Rows
    <2>10. Charged(usage, c) \in UsageSet
        BY <2>8, <2>9 DEF Charged, UsageSet
    <2>. QED  BY <2>5, <2>6, <2>7, <2>10
<1>. QED  BY <1>1, <1>2

(* The drafts of the model are sequences of scenes of three kinds.         *)
LEMMA DraftFacts ==
    ASSUME NEW refs, NEW d \in Drafts(refs)
    PROVE  /\ Len(d) \in Nat /\ DOMAIN d = 1 .. Len(d)
           /\ \A i \in 1 .. Len(d) : d[i].kind \in Kinds
<1>. DEFINE D == [kind : Kinds, refs : {refs, {}, {Foreign}} \cup {{r} : r \in refs}]
<1>1. PICK n \in 0 .. MaxScenes : d \in [1 .. n -> D]
    BY DEF Drafts
<1>2. n \in Nat
    BY ConstantsAssumption
<1>3. \A x \in D : x.kind \in Kinds
    OBVIOUS
<1>. HIDE DEF D
<1>4. d \in Seq(D) /\ Len(d) = n
    BY <1>1, <1>2, IsASeq
<1>. QED  BY <1>1, <1>2, <1>3, <1>4

-----------------------------------------------------------------------------
(* Steps.                                                                  *)

(* The bound case does not change, so the invariant of the next state      *)
(* follows from its parts for the next values of the other variables.      *)
LEMMA Carry ==
    ASSUME IInv, UNCHANGED <<case, leaked>>,
           Good(run', usage', pos', work', loop', published')
    PROVE  IInv'
<1>1. /\ Graph' = Graph /\ Looped' = Looped /\ Refs' = Refs
      /\ Shareable' = Shareable /\ SnapshotTypes' = SnapshotTypes
    BY DEF Graph, Looped, Refs, Shareable, SnapshotTypes
<1>2. SceneSet' = SceneSet /\ Materials' = Materials
    BY <1>1 DEF SceneSet, Materials
<1>3. \A S : TypesOf(S)' = TypesOf(S)
    BY DEF TypesOf
<1>4. /\ run' \in RunSet' /\ usage' \in UsageSet' /\ pos' \in PosSet' /\ work' \in WorkSet'
      /\ loop' \in LoopSet' /\ published' \in Seq(SceneSet')
    BY <1>1, <1>2 DEF Good, RunSet, UsageSet, PosSet, WorkSet, LoopSet
<1>5. Placed(run, pos, work)' /\ Prepared(pos, work)' /\ LoopFits(pos, work, loop)'
    BY <1>1, <1>2 DEF Good, Placed, Prepared, LoopFits
<1>6. \A x : Sound(x) => /\ Cardinality(IdsOf(x)) = Len(x) /\ Harmless(x, Shareable')
                         /\ Looped' => x = Base \/ (Framed(x) /\ SnapshotTypes' \subseteq TypesOf(RefsOf(x))')
    BY <1>1, <1>3 DEF Sound, Covering
<1>7. (published = <<>> \/ Sound(published))'
    BY <1>6 DEF Good, Sound, Covering
<1>8. SafeOf(work.material)' = SafeOf(work'.material)
    BY <1>1 DEF SafeOf
<1>9. DraftFits(pos, work)'
    <2>1. DraftFits(pos', work')
        BY DEF Good
    <2>2. /\ Looped' => \A i \in DOMAIN work'.scenes : work'.scenes[i].kind \in Kinds
          /\ Looped' /\ pos'.at > 4 => (pos'.at > 8 /\ work'.scenes = Base) \/ Framed(work'.scenes)
          /\ pos'.step = "images" => Harmless(work'.scenes, SafeOf(work.material)')
        BY <1>1, <1>8, <2>1 DEF DraftFits
    <2>3. Looped' /\ pos'.at > 6 => (pos'.at > 8 /\ work'.scenes = Base) \/ Covering(work.scenes)'
        BY <1>1, <1>3, <2>1 DEF DraftFits, Covering
    <2>4. pos'.at > 9 => Sound(work.doc)'
        BY <1>6, <2>1 DEF DraftFits, Sound, Covering
    <2>. QED  BY <2>2, <2>3, <2>4 DEF DraftFits
<1>10. Good(run, usage, pos, work, loop, published)'
    BY <1>4, <1>5, <1>7, <1>9 DEF Good
<1>. QED  BY <1>10 DEF IInv, EgressIsSafe

(* The variables' sets, field by field.                                    *)
LEMMA Fields ==
    ASSUME IInv
    PROVE  /\ case \in Cases
           /\ run \in RunSet /\ usage \in UsageSet /\ pos \in PosSet /\ work \in WorkSet
           /\ loop \in LoopSet /\ published \in Seq(SceneSet)
           /\ run.attempt \in 0 .. MaxAttempt
           /\ pos.at \in Nat /\ pos.at >= 1 /\ pos.at <= Len(Graph) + 1
           /\ pos.step \in Steps /\ pos.shot \in Nat
           /\ work.material \in {<<>>, Materials} /\ work.scenes \in Seq(SceneSet)
           /\ work.picked \in Seq(SUBSET Refs) /\ work.actions \in Seq(Nat)
           /\ work.media \in SUBSET Nat
           /\ work.doc \in Seq(SceneSet) /\ work.types \in SUBSET Types
           /\ loop.cursor \in Nat /\ loop.left \in 0 .. MaxCalls /\ loop.mends \in Nat
           /\ loop.first \in SUBSET Refs /\ loop.final \in SUBSET Refs
           /\ loop.read \in SUBSET Refs /\ loop.dropped \in SUBSET Refs
<1>1. /\ case \in Cases
      /\ run \in RunSet /\ usage \in UsageSet /\ pos \in PosSet /\ work \in WorkSet
      /\ loop \in LoopSet /\ published \in Seq(SceneSet)
    BY DEF IInv, Good
<1>2. run.attempt \in 0 .. MaxAttempt
    BY <1>1 DEF RunSet
<1>3. pos.at \in 1 .. Len(Graph) + 1 /\ pos.step \in Steps /\ pos.shot \in Nat
    BY <1>1 DEF PosSet
<1>4. /\ work.material \in {<<>>, Materials} /\ work.scenes \in Seq(SceneSet)
      /\ work.picked \in Seq(SUBSET Refs) /\ work.actions \in Seq(Nat)
      /\ work.media \in SUBSET Nat
      /\ work.doc \in Seq(SceneSet) /\ work.types \in SUBSET Types
    BY <1>1 DEF WorkSet
<1>5. /\ loop.cursor \in 0 .. Len(case.snapshot) /\ loop.left \in 0 .. MaxCalls /\ loop.mends \in Nat
      /\ loop.first \in SUBSET Refs /\ loop.final \in SUBSET Refs
      /\ loop.read \in SUBSET Refs /\ loop.dropped \in SUBSET Refs
    BY <1>1 DEF LoopSet
<1>6. Len(Graph) \in Nat /\ Len(case.snapshot) \in Nat
    <2>1. Len(Graph) \in {10, 11}
        BY <1>1, GraphFacts
    <2>2. Len(case.snapshot) \in Nat
        BY <1>1, CaseFacts
    <2>. QED  BY <2>1, <2>2
<1>. QED  BY <1>1, <1>2, <1>3, <1>4, <1>5, <1>6

(* An attempt's memory at its beginning, and between attempts.             *)
LEMMA FreshIsGood ==
    ASSUME case \in Cases, NEW r \in RunSet, NEW u \in UsageSet, NEW d \in Seq(SceneSet),
           r.status = "queued" => r.attempt < MaxAttempt, r.status # "succeeded",
           d = <<>> \/ Sound(d)
    PROVE  Good(r, u, Fresh, NoWork, NoLoop, d)
<1>1. Len(Graph) \in Nat /\ Len(case.snapshot) \in Nat /\ MaxCalls \in Nat
    <2>1. Len(Graph) \in {10, 11}
        BY GraphFacts
    <2>2. Len(case.snapshot) \in Nat
        BY CaseFacts
    <2>. QED  BY <2>1, <2>2, Bounds
<1>2. Fresh \in PosSet /\ Fresh.at = 1 /\ Fresh.step = "node"
    BY <1>1 DEF Fresh, PosSet, Steps
<1>3. NoWork \in WorkSet /\ NoWork.scenes = <<>>
    BY DEF NoWork, WorkSet
<1>4. NoLoop \in LoopSet
    BY <1>1 DEF NoLoop, LoopSet
<1>5. Placed(r, Fresh, NoWork) /\ Prepared(Fresh, NoWork)
    BY <1>2 DEF Placed, Prepared, LoopSteps
<1>6. LoopFits(Fresh, NoWork, NoLoop)
    BY <1>2 DEF LoopFits, LoopSteps
<1>7. DraftFits(Fresh, NoWork)
    BY <1>2, <1>3 DEF DraftFits
<1>. QED  BY <1>2, <1>3, <1>4, <1>5, <1>6, <1>7 DEF Good

LEMMA EndedIsGood ==
    ASSUME IInv, NEW status \in {"queued", "failed", "cancelled"}, EndedAs(status),
           status = "queued" => run.attempt < MaxAttempt,
           UNCHANGED <<case, published, leaked>>, usage' \in UsageSet
    PROVE  IInv'
<1>1. run \in RunSet /\ published \in Seq(SceneSet) /\ case \in Cases
    BY Fields
<1>2. run' \in RunSet /\ run'.status = status /\ run'.attempt = run.attempt
    BY <1>1 DEF EndedAs, RunSet, Ended
<1>3. published = <<>> \/ Sound(published)
    BY DEF IInv, Good
<1>4. Good(run', usage', Fresh, NoWork, NoLoop, published)
    BY <1>1, <1>2, <1>3, FreshIsGood
<1>. QED  BY <1>4, Carry DEF EndedAs

(* A node that ends with Advance: what is left to show is about the memory *)
(* it leaves and the position behind it.                                   *)
LEMMA AdvanceIsGood ==
    ASSUME IInv, NEW s, At(s), pos.at <= Len(Graph), Advance,
           UNCHANGED <<case, run, loop, leaked>>,
           usage' \in UsageSet, work' \in WorkSet, published' \in Seq(SceneSet),
           published' = <<>> \/ Sound(published'),
           ASSUME NEW q, q.at = pos.at + 1, q.step = "node"
           PROVE  Prepared(q, work') /\ LoopFits(q, work', loop) /\ DraftFits(q, work')
    PROVE  IInv'
<1>1. pos' \in PosSet /\ pos'.at = pos.at + 1 /\ pos'.step = "node"
    <2>1. pos' = [at |-> pos.at + 1, step |-> "node", shot |-> 0]
        BY DEF Advance, Fresh
    <2>2. pos.at + 1 \in 1 .. Len(Graph) + 1
        <3>1. Len(Graph) \in {10, 11}
            BY Fields, GraphFacts
        <3>. QED  BY <3>1, Fields
    <2>. QED  BY <2>1, <2>2 DEF PosSet, Steps
<1>2. Prepared(pos', work') /\ LoopFits(pos', work', loop) /\ DraftFits(pos', work')
    BY <1>1
<1>3. Placed(run', pos', work')
    BY <1>1 DEF Placed, LoopSteps, At
<1>4. Good(run', usage', pos', work', loop', published')
    BY <1>1, <1>2, <1>3, Fields DEF Good
<1>. QED  BY <1>4, Carry

LEMMA ClaimStep == IInv /\ Claim => IInv'
<1>. SUFFICES ASSUME IInv, Claim PROVE IInv'
    OBVIOUS
<1>1. run \in RunSet /\ usage \in UsageSet /\ published \in Seq(SceneSet) /\ case \in Cases
    BY Fields
<1>2. run.attempt \in 0 .. MaxAttempt /\ run.attempt < MaxAttempt
    BY Fields DEF IInv, Good, Placed, Claim
<1>3. run' \in RunSet /\ run'.status = "running"
    BY <1>2, Bounds DEF Claim, RunSet
<1>4. published = <<>> \/ Sound(published)
    BY DEF IInv, Good
<1>5. Good(run', usage, Fresh, NoWork, NoLoop, published)
    BY <1>1, <1>3, <1>4, FreshIsGood
<1>. QED  BY <1>5, Carry DEF Claim

LEMMA EndSteps == IInv /\ (Requeue \/ Stop \/ ToolRefused) => IInv'
<1>. SUFFICES ASSUME IInv, Requeue \/ Stop \/ ToolRefused PROVE IInv'
    OBVIOUS
<1>1. usage \in UsageSet
    BY Fields
<1>2. CASE Requeue
    BY <1>1, <1>2, EndedIsGood DEF Requeue
<1>3. CASE Stop
    <2>1. EndedAs("cancelled") \/ EndedAs("failed")
        BY <1>3 DEF Stop, Failed
    <2>2. UNCHANGED <<case, usage, published, leaked>>
        BY <1>3 DEF Stop
    <2>. QED  BY <1>1, <2>1, <2>2, EndedIsGood
<1>4. CASE ToolRefused
    BY <1>1, <1>4, EndedIsGood DEF ToolRefused, Failed
<1>. QED  BY <1>2, <1>3, <1>4

(* A node is at its position in the graph.                                 *)
LEMMA GoFacts ==
    ASSUME IInv, NEW node, Go(node)
    PROVE  /\ At("node") /\ pos.at <= Len(Graph) /\ pos.step = "node" /\ run.status = "running"
           /\ node = "load" => pos.at = 1
           /\ node = "sanitize" => pos.at = 2
           /\ node = "stats" => pos.at = 3
           /\ node \in {"batches", "highlights"} => pos.at = 4
           /\ node \in {"batch", "chapters"} => pos.at = 5
           /\ node \in {"coverage", "scenes"} => pos.at = 6
           /\ node = "actions" => pos.at = 7
           /\ node = "media" => pos.at = 8
           /\ node = "safety" => pos.at = 9
           /\ node \in {"audio", "publish"} => pos.at > 9
           /\ node \in {"batches", "batch", "coverage", "audio"} => Looped
           /\ node \in {"highlights", "chapters", "scenes"} => ~Looped
<1>1. At("node") /\ pos.at <= Len(Graph) /\ Graph[pos.at] = node
    BY DEF Go
<1>2. pos.at \in 1 .. Len(Graph)
    <2>1. Len(Graph) \in {10, 11}
        BY Fields, GraphFacts
    <2>. QED  BY <1>1, <2>1, Fields
<1>3. pos.step = "node" /\ run.status = "running"
    BY <1>1 DEF At
<1>4. case \in Cases
    BY Fields
<1>. QED  BY <1>1, <1>2, <1>3, <1>4, GraphFacts

(* The parts of the invariant, of the variables.                           *)
LEMMA Parts ==
    ASSUME IInv
    PROVE  /\ Placed(run, pos, work) /\ Prepared(pos, work) /\ LoopFits(pos, work, loop)
           /\ DraftFits(pos, work)
           /\ published = <<>> \/ Sound(published)
BY DEF IInv, Good

LEMMA PassThroughStep == IInv /\ PassThrough => IInv'
<1>. SUFFICES ASSUME IInv, PassThrough PROVE IInv'
    OBVIOUS
<1>1. /\ At("node") /\ pos.at <= Len(Graph) /\ pos.step = "node"
      /\ pos.at = 1 \/ pos.at = 5 \/ pos.at > 9
    BY GoFacts DEF PassThrough
<1>2. Advance /\ UNCHANGED <<case, run, usage, work, loop, published, leaked>>
    BY DEF PassThrough
<1>3. ASSUME NEW q, q.at = pos.at + 1, q.step = "node"
      PROVE  Prepared(q, work') /\ LoopFits(q, work', loop) /\ DraftFits(q, work')
    <2>1. pos.at \in Nat
        BY Fields
    <2>2. work' = work
        BY <1>2
    <2>3. Prepared(q, work)
        BY <1>1, <1>3, <2>1, Parts DEF Prepared
    <2>4. LoopFits(q, work, loop)
        BY <1>1, <1>3, <2>1, Parts DEF LoopFits, LoopSteps
    <2>5. DraftFits(q, work)
        BY <1>1, <1>3, <2>1, Parts DEF DraftFits
    <2>. QED  BY <2>2, <2>3, <2>4, <2>5
<1>. QED  BY <1>1, <1>2, <1>3, Fields, Parts, AdvanceIsGood

LEMMA SanitizeStep == IInv /\ SanitizeMaterials => IInv'
<1>. SUFFICES ASSUME IInv, SanitizeMaterials PROVE IInv'
    OBVIOUS
<1>1. /\ At("node") /\ pos.at <= Len(Graph) /\ pos.step = "node" /\ pos.at = 2
    BY GoFacts DEF SanitizeMaterials
<1>2. Advance /\ UNCHANGED <<case, run, usage, loop, published, leaked>>
    BY DEF SanitizeMaterials
<1>3. work' = [work EXCEPT !.material = Materials]
    BY DEF SanitizeMaterials, Materials
<1>4. work' \in WorkSet /\ work'.material = Materials /\ work'.scenes = work.scenes
    BY <1>3, Fields DEF WorkSet
<1>5. ASSUME NEW q, q.at = pos.at + 1, q.step = "node"
      PROVE  Prepared(q, work') /\ LoopFits(q, work', loop) /\ DraftFits(q, work')
    <2>1. q.at = 3
        BY <1>1, <1>5
    <2>2. Prepared(q, work')
        BY <1>4, <2>1 DEF Prepared
    <2>3. LoopFits(q, work', loop)
        BY <1>5, <2>1 DEF LoopFits, LoopSteps
    <2>4. DraftFits(q, work')
        BY <1>4, <1>5, <2>1, Parts DEF DraftFits
    <2>. QED  BY <2>2, <2>3, <2>4
<1>. QED  BY <1>1, <1>2, <1>4, <1>5, Fields, Parts, AdvanceIsGood

LEMMA StatsStep == IInv /\ ComputeStats => IInv'
<1>. SUFFICES ASSUME IInv, ComputeStats PROVE IInv'
    OBVIOUS
<1>1. /\ At("node") /\ pos.at <= Len(Graph) /\ pos.step = "node" /\ pos.at = 3
    BY GoFacts DEF ComputeStats
<1>2. Advance /\ UNCHANGED <<case, run, usage, loop, published, leaked>>
    BY DEF ComputeStats
<1>3. work' = [work EXCEPT !.types = SnapshotTypes]
    BY DEF ComputeStats, SnapshotTypes
<1>4. SnapshotTypes \in SUBSET Types
    <2>1. case.snapshot \in Seq(Material) /\ \A i \in DOMAIN case.snapshot : case.snapshot[i] \in Material
        BY Fields, CaseFacts
    <2>2. \A x \in Material : x.type \in Types
        BY DEF Material
    <2>. QED  BY <2>1, <2>2 DEF SnapshotTypes
<1>5. /\ work' \in WorkSet /\ work'.types = SnapshotTypes /\ work'.scenes = work.scenes
      /\ work'.material = work.material
    BY <1>3, <1>4, Fields DEF WorkSet
<1>6. ASSUME NEW q, q.at = pos.at + 1, q.step = "node"
      PROVE  Prepared(q, work') /\ LoopFits(q, work', loop) /\ DraftFits(q, work')
    <2>1. q.at = 4
        BY <1>1, <1>6
    <2>2. Prepared(q, work')
        BY <1>1, <1>5, <2>1, Parts DEF Prepared
    <2>3. LoopFits(q, work', loop)
        BY <1>6, <2>1 DEF LoopFits, LoopSteps
    <2>4. DraftFits(q, work')
        BY <1>5, <1>6, <2>1, Parts DEF DraftFits
    <2>. QED  BY <2>2, <2>3, <2>4
<1>. QED  BY <1>1, <1>2, <1>5, <1>6, Fields, Parts, AdvanceIsGood

(* A step inside the loop, from where the loop is or from the node that    *)
(* begins it: what is left to show is about the scenes and the loop.       *)
LEMMA LoopIsGood ==
    ASSUME IInv, run.status = "running", Looped, pos.at = 4, NEW s \in LoopSteps,
           pos' = [pos EXCEPT !.step = s],
           UNCHANGED <<case, run, published, leaked>>,
           usage' \in UsageSet, loop' \in LoopSet,
           work' \in WorkSet, work'.material = work.material, work'.types = work.types,
           \A i \in DOMAIN work'.scenes : work'.scenes[i].kind \in Kinds,
           s = "body" => loop'.left > 0,
           loop'.cursor <= Len(TextsOf(work.material)),
           ~loop'.errors => RefsAt(work.material, 1 .. loop'.cursor) \subseteq loop'.read \cup loop'.dropped,
           s = "closing" => loop'.exhausted \/ loop'.cursor = Len(TextsOf(work.material))
    PROVE  IInv'
<1>1. pos' \in PosSet /\ pos'.at = 4 /\ pos'.step = s
    BY Fields DEF PosSet, LoopSteps, Steps
<1>2. Placed(run', pos', work')
    BY <1>1 DEF Placed, LoopSteps
<1>3. Prepared(pos', work')
    BY <1>1, Parts DEF Prepared
<1>4. LoopFits(pos', work', loop')
    BY <1>1 DEF LoopFits
<1>5. DraftFits(pos', work')
    BY <1>1 DEF DraftFits, LoopSteps
<1>6. Good(run', usage', pos', work', loop', published')
    BY <1>1, <1>2, <1>3, <1>4, <1>5, Fields, Parts DEF Good
<1>. QED  BY <1>6, Carry

(* Before the rounds and between them.                                     *)
LEMMA AtLoop ==
    ASSUME IInv, NEW s \in LoopSteps, At(s)
    PROVE  /\ run.status = "running" /\ Looped /\ pos.at = 4 /\ pos.step = s
           /\ loop.cursor <= Len(TextsOf(work.material))
           /\ ~loop.errors => RefsAt(work.material, 1 .. loop.cursor) \subseteq loop.read \cup loop.dropped
           /\ s = "body" => loop.left > 0
           /\ s = "closing" => loop.exhausted \/ loop.cursor = Len(TextsOf(work.material))
           /\ \A i \in DOMAIN work.scenes : work.scenes[i].kind \in Kinds
<1>1. run.status = "running" /\ pos.step = s
    BY DEF At
<1>2. Looped /\ pos.at = 4
    BY <1>1, Parts DEF Placed
<1>. QED  BY <1>1, <1>2, Parts DEF LoopFits, DraftFits

LEMMA BeginLoopStep == IInv /\ BeginLoop => IInv'
<1>. SUFFICES ASSUME IInv, BeginLoop PROVE IInv'
    OBVIOUS
<1>1. pos.step = "node" /\ pos.at = 4 /\ Looped /\ run.status = "running"
    BY GoFacts DEF BeginLoop
<1>2. UNCHANGED <<case, usage, published, leaked>> /\ usage \in UsageSet
    BY Fields DEF BeginLoop
<1>3. CASE Spent \/ Texts = <<>>
    BY <1>2, <1>3, EndedIsGood DEF BeginLoop, Failed
<1>4. CASE ~(Spent \/ Texts = <<>>)
    <2>1. /\ pos' = [pos EXCEPT !.step = "rounds"]
          /\ loop' = [NoLoop EXCEPT !.left = MaxCalls - Rows]
          /\ UNCHANGED <<run, work>>
        BY <1>4 DEF BeginLoop
    <2>2. MaxCalls - Rows \in 0 .. MaxCalls
        <3>1. usage.text \in 0 .. MaxCalls /\ usage.images \in Nat
            BY <1>2 DEF UsageSet
        <3>2. ~(Rows >= MaxCalls)
            BY <1>4 DEF Spent
        <3>. QED  BY <3>1, <3>2, Bounds DEF Rows
    <2>3. Len(case.snapshot) \in Nat
        BY Fields, CaseFacts
    <2>4. loop' \in LoopSet /\ loop'.cursor = 0 /\ loop'.read = {} /\ loop'.dropped = {}
        <3>1. PICK n : n = MaxCalls - Rows
            OBVIOUS
        <3>2. loop' = [cursor |-> 0, left |-> n, errors |-> FALSE, exhausted |-> FALSE, first |-> {},
                       final |-> {}, read |-> {}, dropped |-> {}, mends |-> 0]
            BY <2>1, <3>1 DEF NoLoop
        <3>3. n \in 0 .. MaxCalls /\ 0 \in 0 .. Len(case.snapshot)
            BY <2>2, <2>3, <3>1
        <3>. QED  BY <3>2, <3>3 DEF LoopSet
    <2>5. RefsAt(work.material, 1 .. loop'.cursor) = {}
        BY <2>4 DEF RefsAt
    <2>6. loop'.cursor <= Len(TextsOf(work.material))
        <3>1. Len(TextsOf(work.material)) \in Nat
            BY Fields, TextFacts
        <3>. QED  BY <2>4, <3>1
    <2>7. \A i \in DOMAIN work.scenes : work.scenes[i].kind \in Kinds
        BY <1>1, Parts DEF DraftFits
    <2>8. "rounds" \in LoopSteps
        BY DEF LoopSteps
    <2>. QED  BY <1>1, <1>2, <2>1, <2>4, <2>5, <2>6, <2>7, <2>8, Fields, LoopIsGood
<1>. QED  BY <1>3, <1>4

LEMMA NextRoundStep == IInv /\ NextRound => IInv'
<1>. SUFFICES ASSUME IInv, NextRound PROVE IInv'
    OBVIOUS
<1>1. "rounds" \in LoopSteps /\ "body" \in LoopSteps
    BY DEF LoopSteps
<1>2. At("rounds") /\ loop.left > 0 /\ pos' = [pos EXCEPT !.step = "body"]
      /\ UNCHANGED <<case, run, usage, work, loop, published, leaked>>
    BY DEF NextRound, Within
<1>. QED  BY <1>1, <1>2, Fields, AtLoop, LoopIsGood

LEMMA ExhaustStep == IInv /\ Exhaust => IInv'
<1>. SUFFICES ASSUME IInv, Exhaust PROVE IInv'
    OBVIOUS
<1>1. "rounds" \in LoopSteps /\ "closing" \in LoopSteps
    BY DEF LoopSteps
<1>2. At("rounds") /\ loop' = [loop EXCEPT !.exhausted = TRUE] /\ pos' = [pos EXCEPT !.step = "closing"]
      /\ UNCHANGED <<case, run, usage, work, published, leaked>>
    BY DEF Exhaust
<1>3. loop \in LoopSet
    BY Fields
<1>4. /\ loop' \in LoopSet /\ loop'.exhausted /\ loop'.cursor = loop.cursor /\ loop'.read = loop.read
      /\ loop'.dropped = loop.dropped /\ loop'.errors = loop.errors
    BY <1>2, <1>3 DEF LoopSet
<1>. QED  BY <1>1, <1>2, <1>4, Fields, AtLoop, LoopIsGood

(* What a scan passes is in the batch or over the cap.                     *)
LEMMA ScanCovers ==
    ASSUME case \in Cases, work.material \in {<<>>, Materials},
           NEW c \in Nat, c <= Len(Texts)
    PROVE  /\ TextRefs(Fitting(c, ScanEnd(c))) \in SUBSET Refs /\ OverCap(c) \in SUBSET Refs
           /\ RefsAt(work.material, 1 .. ScanEnd(c)) \subseteq
                RefsAt(work.material, 1 .. c) \cup TextRefs(Fitting(c, ScanEnd(c))) \cup OverCap(c)
<1>1. Texts = TextsOf(work.material)
    BY DEF Texts, TextsOf
<1>2. ScanEnd(c) \in Nat /\ c <= ScanEnd(c) /\ ScanEnd(c) <= Len(Texts)
    BY ScanFacts
<1>3. PICK e : e = ScanEnd(c)
    OBVIOUS
<1>4. Fitting(c, e) \subseteq c + 1 .. e
    BY DEF Fitting
<1>5. Len(Texts) \in Nat /\ DOMAIN Texts = 1 .. Len(Texts) /\ \A i \in DOMAIN Texts : Texts[i].ref \in Refs
    BY <1>1, TextFacts
<1>6. PICK F : F = Fitting(c, e)
    OBVIOUS
<1>7. OverCap(c) = {Texts[i].ref : i \in (c + 1 .. e) \ F}
    BY <1>3, <1>6 DEF OverCap, TextRefs
<1>8. TextRefs(Fitting(c, ScanEnd(c))) = {Texts[i].ref : i \in F}
    BY <1>3, <1>6 DEF TextRefs
<1>9. 1 .. e \subseteq (1 .. c) \cup (c + 1 .. e) /\ c + 1 .. e \subseteq 1 .. Len(Texts)
    BY <1>2, <1>3, <1>5
<1>10. F \subseteq c + 1 .. e
    BY <1>4, <1>6
<1>11. \A i \in 1 .. e : i \in 1 .. c \/ i \in F \/ i \in (c + 1 .. e) \ F
    BY <1>9
<1>. QED  BY <1>1, <1>3, <1>5, <1>7, <1>8, <1>9, <1>10, <1>11 DEF RefsAt

LEMMA RoundWithoutCallStep == IInv /\ RoundWithoutCall => IInv'
<1>. SUFFICES ASSUME IInv, RoundWithoutCall PROVE IInv'
    OBVIOUS
<1>1. "rounds" \in LoopSteps /\ "closing" \in LoopSteps /\ "body" \in LoopSteps
    BY DEF LoopSteps
<1>2. At("body") /\ UNCHANGED <<case, run, usage, work, published, leaked>>
    BY DEF RoundWithoutCall
<1>3. loop \in LoopSet /\ loop.left - 1 \in 0 .. MaxCalls
    <2>1. loop.left > 0
        BY <1>1, <1>2, AtLoop
    <2>2. loop \in LoopSet /\ loop.left \in 0 .. MaxCalls
        BY Fields
    <2>. QED  BY <2>1, <2>2, Bounds
<1>4. Texts = TextsOf(work.material) /\ Len(Texts) \in Nat /\ Len(Texts) <= Len(case.snapshot)
      /\ Len(case.snapshot) \in Nat
    <2>1. Texts = TextsOf(work.material)
        BY DEF Texts, TextsOf
    <2>2. Len(case.snapshot) \in Nat
        BY Fields, CaseFacts
    <2>. QED  BY <2>1, <2>2, Fields, TextFacts
<1>5. CASE /\ loop.cursor = Len(Texts)
           /\ loop' = Counted(loop)
           /\ pos' = [pos EXCEPT !.step = "closing"]
    <2>1. /\ loop' \in LoopSet /\ loop'.cursor = loop.cursor /\ loop'.read = loop.read
          /\ loop'.dropped = loop.dropped /\ loop'.errors = loop.errors
        BY <1>3, <1>5 DEF LoopSet, Counted
    <2>. QED  BY <1>1, <1>2, <1>4, <1>5, <2>1, Fields, AtLoop, LoopIsGood
<1>6. CASE /\ loop.cursor < Len(Texts) /\ Fitting(loop.cursor, ScanEnd(loop.cursor)) = {}
           /\ loop' = [Counted(loop) EXCEPT !.cursor = ScanEnd(@),
                                            !.dropped = @ \cup OverCap(loop.cursor)]
           /\ pos' = [pos EXCEPT !.step = "rounds"]
    <2>1. PICK c : c = loop.cursor
        OBVIOUS
    <2>2. c \in Nat /\ c <= Len(Texts)
        BY <1>4, <1>6, <2>1, Fields
    <2>3. ScanEnd(c) \in Nat /\ ScanEnd(c) <= Len(Texts)
        BY <2>2, Fields, ScanFacts
    <2>4. /\ OverCap(c) \in SUBSET Refs
          /\ RefsAt(work.material, 1 .. ScanEnd(c)) \subseteq
                RefsAt(work.material, 1 .. c) \cup TextRefs(Fitting(c, ScanEnd(c))) \cup OverCap(c)
        BY <2>2, Fields, ScanCovers
    <2>5. TextRefs(Fitting(c, ScanEnd(c))) = {}
        BY <1>6, <2>1 DEF TextRefs
    <2>6. ScanEnd(c) \in 0 .. Len(case.snapshot)
        BY <1>4, <2>3
    <2>7. PICK e, o : e = ScanEnd(c) /\ o = OverCap(c)
        OBVIOUS
    <2>8. loop' = [loop EXCEPT !.left = loop.left - 1, !.cursor = e, !.dropped = loop.dropped \cup o]
        BY <1>3, <1>6, <2>1, <2>7 DEF Counted, LoopSet
    <2>9. /\ loop' \in LoopSet /\ loop'.cursor = e /\ loop'.read = loop.read
          /\ loop'.dropped = loop.dropped \cup o /\ loop'.errors = loop.errors
        BY <1>3, <2>4, <2>6, <2>7, <2>8 DEF LoopSet
    <2>10. ~loop.errors => RefsAt(work.material, 1 .. c) \subseteq loop.read \cup loop.dropped
        BY <1>1, <1>2, <2>1, AtLoop
    <2>11. ~loop'.errors => RefsAt(work.material, 1 .. loop'.cursor) \subseteq loop'.read \cup loop'.dropped
        BY <2>4, <2>5, <2>7, <2>9, <2>10
    <2>12. loop'.cursor <= Len(TextsOf(work.material))
        BY <1>4, <2>3, <2>7, <2>9
    <2>. QED  BY <1>1, <1>2, <1>6, <2>9, <2>11, <2>12, Fields, AtLoop, LoopIsGood
<1>. QED  BY <1>5, <1>6 DEF RoundWithoutCall

(* The scenes of an answer that was accepted refer to what it was given.   *)
LEMMA AnswerFacts ==
    ASSUME IInv, NEW refs \in SUBSET Refs, NEW d \in Drafts(refs), NEW quirk,
           \A i \in DOMAIN d : d[i].refs \subseteq refs
    PROVE  /\ Named(d, quirk) \in Seq(SceneSet)
           /\ \A i \in DOMAIN Named(d, quirk) : Named(d, quirk)[i].kind \in Kinds
           /\ DOMAIN Named(d, quirk) = DOMAIN d
           /\ \A i \in DOMAIN d : /\ Named(d, quirk)[i].kind = d[i].kind
                                  /\ Named(d, quirk)[i].refs = d[i].refs
<1>1. /\ Len(d) \in Nat /\ DOMAIN d = 1 .. Len(d)
      /\ \A i \in 1 .. Len(d) : d[i].kind \in Kinds
    BY DraftFacts
<1>2. \A i \in 1 .. Len(d) : d[i].kind \in Kinds \cup {"image"} /\ d[i].refs \in SUBSET Refs
    BY <1>1
<1>3. work.scenes \in Seq(SceneSet)
    BY Fields
<1>4. /\ Named(d, quirk) \in Seq(SceneSet)
      /\ DOMAIN Named(d, quirk) = 1 .. Len(d)
      /\ \A i \in 1 .. Len(d) : /\ Named(d, quirk)[i].kind = d[i].kind
                                /\ Named(d, quirk)[i].refs = d[i].refs
    BY <1>1, <1>2, <1>3, NamedFacts
<1>. QED  BY <1>1, <1>4

(* A property of the scenes' kinds survives a merge.                       *)
LEMMA MergedKinds ==
    ASSUME NEW a \in Seq(SceneSet), NEW b \in Seq(SceneSet),
           \A i \in DOMAIN a : a[i].kind \in Kinds, \A i \in DOMAIN b : b[i].kind \in Kinds
    PROVE  /\ MergeUnique(a \o b) \in Seq(SceneSet)
           /\ \A i \in DOMAIN MergeUnique(a \o b) : MergeUnique(a \o b)[i].kind \in Kinds
<1>. DEFINE K == {x \in SceneSet : x.kind \in Kinds}
<1>1. a \in Seq(K) /\ b \in Seq(K)
    <2>1. \A s \in Seq(SceneSet) : (\A i \in DOMAIN s : s[i].kind \in Kinds) => s \in Seq(K)
        <3>. TAKE s \in Seq(SceneSet)
        <3>. HAVE \A i \in DOMAIN s : s[i].kind \in Kinds
        <3>1. Len(s) \in Nat /\ DOMAIN s = 1 .. Len(s) /\ \A i \in 1 .. Len(s) : s[i] \in SceneSet
            OBVIOUS
        <3>2. s \in [1 .. Len(s) -> K]
            <4>1. s = [i \in 1 .. Len(s) |-> s[i]]
                BY <3>1
            <4>. QED  BY <3>1, <4>1
        <3>. HIDE DEF K
        <3>. QED  BY <3>1, <3>2, IsASeq
    <2>. HIDE DEF K
    <2>. QED  BY <2>1
<1>2. MergeUnique(a \o b) \in Seq(K)
    <2>. HIDE DEF K
    <2>1. a \o b \in Seq(K)
        BY <1>1, ConcatProperties
    <2>. QED  BY <2>1, MergeFacts
<1>3. K \subseteq SceneSet /\ \A x \in K : x.kind \in Kinds
    OBVIOUS
<1>4. MergeUnique(a \o b) \in Seq(SceneSet)
    <2>. HIDE DEF K
    <2>. QED  BY <1>2, <1>3, SeqMonotonic
<1>5. \A i \in DOMAIN MergeUnique(a \o b) : MergeUnique(a \o b)[i] \in K
    <2>. HIDE DEF K
    <2>. QED  BY <1>2
<1>. QED  BY <1>3, <1>4, <1>5

(* The loop's variables once the batch has been put together.              *)
LEMMA StashedFacts ==
    ASSUME IInv, loop.left > 0, NEW refs \in SUBSET Refs, NEW first, NEW final
    PROVE  LET Begun == Stashed(Counted(loop), refs, first, final)
           IN /\ Begun \in LoopSet /\ Begun.cursor = loop.cursor /\ Begun.read = loop.read
              /\ Begun.dropped = loop.dropped /\ Begun.errors = loop.errors
<1>1. loop \in LoopSet /\ loop.left - 1 \in 0 .. MaxCalls
    <2>1. loop \in LoopSet /\ loop.left \in 0 .. MaxCalls
        BY Fields
    <2>. QED  BY <2>1, Bounds
<1>2. PICK k, a, b : /\ k = loop.left - 1
                     /\ a = (IF first THEN refs ELSE loop.first)
                     /\ b = (IF final THEN refs ELSE loop.final)
    OBVIOUS
<1>3. a \in SUBSET Refs /\ b \in SUBSET Refs /\ k \in 0 .. MaxCalls
    BY <1>1, <1>2, Fields
<1>4. Stashed(Counted(loop), refs, first, final) = [loop EXCEPT !.left = k, !.first = a, !.final = b]
    BY <1>1, <1>2 DEF Stashed, Counted, LoopSet
<1>. HIDE DEF Stashed
<1>. QED  BY <1>1, <1>3, <1>4 DEF LoopSet

LEMMA RoundStep == IInv /\ Round => IInv'
<1>. SUFFICES ASSUME IInv, Round PROVE IInv'
    OBVIOUS
<1>1. "rounds" \in LoopSteps /\ "closing" \in LoopSteps /\ "body" \in LoopSteps
    BY DEF LoopSteps
<1>2. At("body") /\ loop.cursor < Len(Texts) /\ UNCHANGED <<case, published, leaked>>
    BY DEF Round
<1>3. Texts = TextsOf(work.material) /\ Len(Texts) \in Nat /\ Len(Texts) <= Len(case.snapshot)
      /\ Len(case.snapshot) \in Nat
    <2>1. Texts = TextsOf(work.material)
        BY DEF Texts, TextsOf
    <2>2. Len(case.snapshot) \in Nat
        BY Fields, CaseFacts
    <2>. QED  BY <2>1, <2>2, Fields, TextFacts
<1>4. PICK c : c = loop.cursor
    OBVIOUS
<1>5. c \in Nat /\ c <= Len(Texts)
    BY <1>2, <1>3, <1>4, Fields
<1>6. PICK e, refs, over, first, final :
          /\ e = ScanEnd(c) /\ refs = TextRefs(Fitting(c, e)) /\ over = OverCap(c)
          /\ first = (work.scenes = <<>>) /\ final = (e = Len(Texts))
    OBVIOUS
<1>7. e \in Nat /\ e <= Len(Texts) /\ e \in 0 .. Len(case.snapshot)
    <2>1. e \in Nat /\ e <= Len(Texts)
        BY <1>5, <1>6, Fields, ScanFacts
    <2>. QED  BY <1>3, <2>1
<1>8. /\ refs \in SUBSET Refs /\ over \in SUBSET Refs
      /\ RefsAt(work.material, 1 .. e) \subseteq RefsAt(work.material, 1 .. c) \cup refs \cup over
    BY <1>5, <1>6, Fields, ScanCovers
<1>9. PICK Begun : Begun = Stashed(Counted(loop), refs, first, final)
    OBVIOUS
<1>10. /\ Begun \in LoopSet /\ Begun.cursor = c /\ Begun.read = loop.read
       /\ Begun.dropped = loop.dropped /\ Begun.errors = loop.errors
    BY <1>1, <1>2, <1>4, <1>8, <1>9, AtLoop, StashedFacts
<1>11. PICK call \in Calls(Drafts(refs)) :
         /\ usage' = Charged(usage, call)
         /\ IF ~(call.answered /\ Accepted(call.out, refs, first, final))
            THEN /\ loop' = Skipped(Begun)
                 /\ pos' = [pos EXCEPT !.step = "rounds"]
                 /\ UNCHANGED <<run, work>>
            ELSE IF call.rows > 1
            THEN Failed
            ELSE /\ loop' = Consumed(Begun, refs)
                 /\ \E quirk \in Quirks :
                      work' = [work EXCEPT !.scenes = MergeUnique(@ \o Named(call.out, quirk))]
                 /\ pos' = [pos EXCEPT !.step = IF final THEN "closing" ELSE "rounds"]
                 /\ UNCHANGED run
    BY <1>4, <1>6, <1>9, Zenon DEF Round
<1>12. usage' \in UsageSet /\ (call.answered => call.out \in Drafts(refs))
    BY <1>11, Fields, CallFacts
<1>13. CASE ~(call.answered /\ Accepted(call.out, refs, first, final))
    <2>1. loop' = Skipped(Begun) /\ pos' = [pos EXCEPT !.step = "rounds"] /\ UNCHANGED <<run, work>>
        BY <1>11, <1>13
    <2>2. loop' = [Begun EXCEPT !.errors = TRUE, !.cursor = IF Strict THEN c ELSE e]
        BY <1>4, <1>6, <1>10, <2>1 DEF Skipped
    <2>3. PICK k : k = (IF Strict THEN c ELSE e)
        OBVIOUS
    <2>4. k \in 0 .. Len(case.snapshot) /\ k <= Len(Texts)
        BY <1>3, <1>5, <1>7, <2>3
    <2>5. loop' \in LoopSet /\ loop'.errors /\ loop'.cursor = k
        BY <1>10, <2>2, <2>3, <2>4 DEF LoopSet
    <2>. QED  BY <1>1, <1>2, <1>3, <1>12, <2>1, <2>4, <2>5, Fields, AtLoop, LoopIsGood
<1>14. CASE (call.answered /\ Accepted(call.out, refs, first, final)) /\ call.rows > 1
    <2>1. Failed
        BY <1>11, <1>14
    <2>. QED  BY <1>2, <1>12, <2>1, EndedIsGood DEF Failed
<1>15. CASE (call.answered /\ Accepted(call.out, refs, first, final)) /\ ~(call.rows > 1)
    <2>1. PICK quirk \in Quirks :
             /\ loop' = Consumed(Begun, refs)
             /\ work' = [work EXCEPT !.scenes = MergeUnique(@ \o Named(call.out, quirk))]
             /\ pos' = [pos EXCEPT !.step = IF final THEN "closing" ELSE "rounds"]
             /\ UNCHANGED run
        BY <1>11, <1>15
    <2>2. PICK s \in {"rounds", "closing"} : s = IF final THEN "closing" ELSE "rounds"
        OBVIOUS
    <2>3. loop' = [Begun EXCEPT !.cursor = e, !.read = loop.read \cup refs, !.dropped = loop.dropped \cup over]
        BY <1>4, <1>6, <1>10, <2>1 DEF Consumed
    <2>4. /\ loop' \in LoopSet /\ loop'.cursor = e /\ loop'.read = loop.read \cup refs
          /\ loop'.dropped = loop.dropped \cup over /\ loop'.errors = loop.errors
        BY <1>7, <1>8, <1>10, <2>3, Fields DEF LoopSet
    <2>5. ~loop.errors => RefsAt(work.material, 1 .. c) \subseteq loop.read \cup loop.dropped
        BY <1>1, <1>2, <1>4, AtLoop
    <2>6. ~loop'.errors => RefsAt(work.material, 1 .. loop'.cursor) \subseteq loop'.read \cup loop'.dropped
        BY <1>8, <2>4, <2>5
    <2>7. s = "closing" => loop'.cursor = Len(TextsOf(work.material))
        BY <1>3, <1>6, <2>2, <2>4
    <2>8. PICK scenes : scenes = MergeUnique(work.scenes \o Named(call.out, quirk))
        OBVIOUS
    <2>9. scenes \in Seq(SceneSet) /\ \A i \in DOMAIN scenes : scenes[i].kind \in Kinds
        <3>1. \A i \in DOMAIN call.out : call.out[i].refs \subseteq refs
            BY <1>15 DEF Accepted
        <3>2. /\ Named(call.out, quirk) \in Seq(SceneSet)
              /\ \A i \in DOMAIN Named(call.out, quirk) : Named(call.out, quirk)[i].kind \in Kinds
            BY <1>8, <1>12, <1>15, <3>1, AnswerFacts
        <3>3. \A i \in DOMAIN work.scenes : work.scenes[i].kind \in Kinds
            BY <1>1, <1>2, AtLoop
        <3>. QED  BY <2>8, <3>2, <3>3, Fields, MergedKinds
    <2>10. work' \in WorkSet /\ work'.material = work.material /\ work'.types = work.types
           /\ work'.scenes = scenes
        BY <2>1, <2>8, <2>9, Fields DEF WorkSet
    <2>11. run.status = "running" /\ Looped /\ pos.at = 4
        BY <1>1, <1>2, AtLoop
    <2>12. pos' = [pos EXCEPT !.step = s] /\ s \in LoopSteps /\ s # "body"
        BY <1>1, <2>1, <2>2
    <2>13. loop'.cursor <= Len(TextsOf(work.material))
        BY <1>3, <1>7, <2>4
    <2>. QED  BY <1>2, <1>12, <2>1, <2>4, <2>6, <2>7, <2>9, <2>10, <2>11, <2>12, <2>13, LoopIsGood
<1>. QED  BY <1>13, <1>14, <1>15

(* The gap the repair of the structure is asked to close.                  *)
LEMMA StructureFacts ==
    ASSUME NEW scenes \in Seq(SceneSet)
    PROVE  /\ Structure(scenes) \in {"few", "cover", "summary", "complete"}
           /\ Structure(scenes) = "complete" <=> Framed(scenes)
<1>1. Len(scenes) \in Nat
    OBVIOUS
<1>. QED  BY <1>1 DEF Structure, Framed

LEMMA MendStep == IInv /\ Mend => IInv'
<1>. SUFFICES ASSUME IInv, Mend PROVE IInv'
    OBVIOUS
<1>1. "closing" \in LoopSteps
    BY DEF LoopSteps
<1>2. At("closing") /\ Mendable /\ UNCHANGED <<case, published, leaked>>
    BY DEF Mend
<1>3. PICK refs : refs = Stash
    OBVIOUS
<1>4. refs \in SUBSET Refs
    BY <1>3, Fields DEF Stash
<1>5. PICK c \in Calls(Drafts(refs)) :
        /\ usage' = Charged(usage, c)
        /\ LET cards == {i \in DOMAIN c.out : c.out[i].kind = Gap}
           IN IF /\ c.answered /\ cards # {}
                 /\ Accepted(c.out, refs, Gap = "cover", Gap = "summary")
              THEN /\ \E quirk \in Quirks :
                        LET card == Named(<<c.out[CHOOSE i \in cards : TRUE]>>, quirk)
                        IN work' = [work EXCEPT !.scenes = IF Gap = "cover" THEN card \o @
                                                           ELSE @ \o card]
                   /\ loop' = [loop EXCEPT !.mends = @ + 1]
                   /\ UNCHANGED <<run, pos>>
              ELSE Failed
    BY <1>3, Zenon DEF Mend
<1>6. usage' \in UsageSet /\ (c.answered => c.out \in Drafts(refs))
    BY <1>5, Fields, CallFacts
<1>. DEFINE cards == {i \in DOMAIN c.out : c.out[i].kind = Gap}
            Taken == c.answered /\ cards # {} /\ Accepted(c.out, refs, Gap = "cover", Gap = "summary")
<1>7. CASE ~Taken
    <2>1. Failed
        BY <1>5, <1>7
    <2>. QED  BY <1>2, <1>6, <2>1, EndedIsGood DEF Failed
<1>8. CASE Taken
    <2>1. PICK n : n = CHOOSE i \in cards : TRUE
        OBVIOUS
    <2>2. n \in DOMAIN c.out
        BY <1>8, <2>1
    <2>3. PICK quirk \in Quirks :
            /\ work' = [work EXCEPT !.scenes = IF Gap = "cover" THEN Named(<<c.out[n]>>, quirk) \o @
                                               ELSE @ \o Named(<<c.out[n]>>, quirk)]
            /\ loop' = [loop EXCEPT !.mends = @ + 1]
            /\ UNCHANGED <<run, pos>>
        BY <1>5, <1>8, <2>1
    <2>4. c.out[n].kind \in Kinds /\ c.out[n].refs \in SUBSET Refs
        <3>1. c.out[n].refs \subseteq refs
            BY <1>8, <2>2 DEF Accepted
        <3>2. DOMAIN c.out = 1 .. Len(c.out) /\ \A i \in 1 .. Len(c.out) : c.out[i].kind \in Kinds
            BY <1>6, <1>8, DraftFacts
        <3>. QED  BY <1>4, <2>2, <3>1, <3>2
    <2>5. PICK d, card : d = <<c.out[n]>> /\ card = Named(d, quirk)
        OBVIOUS
    <2>6. DOMAIN d = 1 .. 1 /\ \A i \in 1 .. 1 : d[i].kind \in Kinds /\ d[i].refs \in SUBSET Refs
        BY <2>4, <2>5
    <2>7. work.scenes \in Seq(SceneSet)
        BY Fields
    <2>8. /\ card \in Seq(SceneSet) /\ DOMAIN card = 1 .. 1
          /\ \A i \in 1 .. 1 : card[i].kind = d[i].kind
        <3>1. 1 \in Nat /\ \A i \in 1 .. 1 : d[i].kind \in Kinds \cup {"image"} /\ d[i].refs \in SUBSET Refs
            BY <2>6
        <3>2. /\ Named(d, quirk) \in Seq(SceneSet) /\ DOMAIN Named(d, quirk) = 1 .. 1
              /\ \A i \in 1 .. 1 : Named(d, quirk)[i].kind = d[i].kind
            BY <2>6, <2>7, <3>1, NamedFacts
        <3>. QED  BY <2>5, <3>2
    <2>9. \A i \in DOMAIN card : card[i].kind \in Kinds
        BY <2>6, <2>8
    <2>10. \A i \in DOMAIN work.scenes : work.scenes[i].kind \in Kinds
        BY <1>1, <1>2, AtLoop
    <2>11. PICK scenes : scenes = IF Gap = "cover" THEN card \o work.scenes ELSE work.scenes \o card
        OBVIOUS
    <2>12. ASSUME NEW a \in Seq(SceneSet), NEW b \in Seq(SceneSet),
                  \A i \in DOMAIN a : a[i].kind \in Kinds, \A i \in DOMAIN b : b[i].kind \in Kinds
           PROVE  a \o b \in Seq(SceneSet) /\ \A i \in DOMAIN (a \o b) : (a \o b)[i].kind \in Kinds
        BY <2>12
    <2>13. scenes \in Seq(SceneSet) /\ \A i \in DOMAIN scenes : scenes[i].kind \in Kinds
        BY <2>7, <2>8, <2>9, <2>10, <2>11, <2>12
    <2>14. work' \in WorkSet /\ work'.material = work.material /\ work'.types = work.types
           /\ work'.scenes = scenes
        BY <2>3, <2>5, <2>11, <2>13, Fields DEF WorkSet
    <2>15. /\ loop' \in LoopSet /\ loop'.cursor = loop.cursor /\ loop'.read = loop.read
           /\ loop'.dropped = loop.dropped /\ loop'.errors = loop.errors
           /\ loop'.exhausted = loop.exhausted
        <3>1. PICK k : k = loop.mends + 1
            OBVIOUS
        <3>2. loop \in LoopSet /\ loop.mends \in Nat
            BY Fields
        <3>3. k \in Nat
            BY <3>1, <3>2
        <3>4. loop' = [loop EXCEPT !.mends = k]
            BY <2>3, <3>1
        <3>. QED  BY <3>2, <3>3, <3>4 DEF LoopSet
    <2>16. pos' = [pos EXCEPT !.step = "closing"]
        <3>1. pos \in PosSet /\ pos.step = "closing" /\ pos' = pos
            BY <1>2, <2>3, Fields DEF At
        <3>. QED  BY <3>1 DEF PosSet
    <2>. QED  BY <1>1, <1>2, <1>6, <2>3, <2>13, <2>14, <2>15, <2>16, AtLoop, LoopIsGood
<1>. QED  BY <1>7, <1>8

LEMMA CloseLoopStep == IInv /\ CloseLoop => IInv'
<1>. SUFFICES ASSUME IInv, CloseLoop PROVE IInv'
    OBVIOUS
<1>1. "closing" \in LoopSteps
    BY DEF LoopSteps
<1>2. At("closing") /\ UNCHANGED <<case, usage, published, leaked>> /\ usage \in UsageSet
    BY Fields DEF CloseLoop
<1>3. CASE Gap # "complete"
    BY <1>2, <1>3, EndedIsGood DEF CloseLoop, Failed
<1>4. CASE Gap = "complete"
    <2>1. /\ work' = [work EXCEPT !.partial = loop.exhausted \/ loop.errors]
          /\ pos' = [Fresh EXCEPT !.at = pos.at + 1] /\ UNCHANGED <<run, loop>>
        BY <1>4 DEF CloseLoop, Advance
    <2>2. /\ run.status = "running" /\ Looped /\ pos.at = 4
          /\ ~loop.errors => RefsAt(work.material, 1 .. loop.cursor) \subseteq loop.read \cup loop.dropped
          /\ loop.exhausted \/ loop.cursor = Len(TextsOf(work.material))
          /\ \A i \in DOMAIN work.scenes : work.scenes[i].kind \in Kinds
        BY <1>1, <1>2, AtLoop
    <2>3. pos' = [at |-> 5, step |-> "node", shot |-> 0]
        BY <2>1, <2>2 DEF Fresh
    <2>4. pos' \in PosSet /\ pos'.at = 5 /\ pos'.step = "node"
        <3>1. PICK n : n = Len(Graph)
            OBVIOUS
        <3>2. n \in {10, 11}
            BY <3>1, Fields, GraphFacts
        <3>3. 5 \in 1 .. n + 1
            BY <3>2
        <3>. QED  BY <2>3, <3>1, <3>3 DEF PosSet, Steps
    <2>5. (loop.exhausted \/ loop.errors) \in BOOLEAN
        OBVIOUS
    <2>6. /\ work' \in WorkSet /\ work'.material = work.material /\ work'.types = work.types
          /\ work'.scenes = work.scenes /\ work'.partial = (loop.exhausted \/ loop.errors)
        BY <2>1, <2>5, Fields DEF WorkSet
    <2>7. Placed(run', pos', work') /\ Prepared(pos', work')
        BY <2>1, <2>2, <2>4, <2>6, Parts DEF Placed, Prepared, LoopSteps
    <2>8. DOMAIN TextsOf(work.material) = 1 .. Len(TextsOf(work.material))
        BY Fields, TextFacts
    <2>9. LoopFits(pos', work', loop')
        BY <2>1, <2>2, <2>4, <2>6, <2>8 DEF LoopFits, LoopSteps
    <2>10. Framed(work.scenes)
        BY <1>4, Fields, StructureFacts DEF Gap
    <2>11. DraftFits(pos', work')
        BY <2>2, <2>4, <2>6, <2>10 DEF DraftFits
    <2>12. Good(run', usage', pos', work', loop', published')
        BY <1>2, <2>1, <2>4, <2>6, <2>7, <2>9, <2>11, Fields, Parts DEF Good
    <2>. QED  BY <1>2, <2>12, Carry
<1>. QED  BY <1>3, <1>4

(* The elements of a sequence are found in another; a sequence has only    *)
(* elements of two others.                                                 *)
Included(a, ab) == \A i \in DOMAIN a : \E j \in DOMAIN ab : ab[j] = a[i]
DrawnFrom(ab, a, b) ==
    \A j \in DOMAIN ab : (\E i \in DOMAIN a : ab[j] = a[i]) \/ (\E i \in DOMAIN b : ab[j] = b[i])

Spliced(ab, a, b, n, m) == \A i \in 1 .. n + m : ab[i] = IF i <= n THEN a[i] ELSE b[i - n]

Halves(ab, a, b, n, m) ==
    /\ \A i \in 1 .. n : i \in 1 .. n + m /\ ab[i] = a[i]
    /\ \A i \in 1 .. m : n + i \in 1 .. n + m /\ ab[n + i] = b[i]
    /\ \A j \in 1 .. n + m : (\E i \in 1 .. n : ab[j] = a[i]) \/ (\E i \in 1 .. m : ab[j] = b[i])

Joined(S, ab, a, b) ==
    /\ ab \in Seq(S) /\ Len(ab) = Len(a) + Len(b)
    /\ \A i \in 1 .. Len(a) : ab[i] = a[i]
    /\ \A i \in 1 .. Len(b) : ab[Len(a) + i] = b[i]
    /\ Included(a, ab) /\ Included(b, ab) /\ DrawnFrom(ab, a, b)

(* Two sequences put together hold the elements of both, and no others.    *)
LEMMA JoinIndices ==
    ASSUME NEW n \in Nat, NEW m \in Nat, NEW a, NEW b, NEW ab, Spliced(ab, a, b, n, m)
    PROVE  Halves(ab, a, b, n, m)
<1>1. ASSUME NEW i \in 1 .. n PROVE i \in 1 .. n + m /\ ab[i] = a[i]
    <2>1. i \in 1 .. n + m /\ i <= n
        OBVIOUS
    <2>. QED  BY <2>1 DEF Spliced
<1>2. ASSUME NEW i \in 1 .. m PROVE n + i \in 1 .. n + m /\ ab[n + i] = b[i]
    <2>1. n + i \in 1 .. n + m /\ ~(n + i <= n) /\ (n + i) - n = i
        OBVIOUS
    <2>. QED  BY <2>1 DEF Spliced
<1>3. ASSUME NEW j \in 1 .. n + m
      PROVE  (\E i \in 1 .. n : ab[j] = a[i]) \/ (\E i \in 1 .. m : ab[j] = b[i])
    <2>1. CASE j <= n
        <3>1. j \in 1 .. n
            BY <2>1
        <3>. QED  BY <1>1, <3>1
    <2>2. CASE ~(j <= n)
        <3>1. j - n \in 1 .. m
            BY <2>2
        <3>2. ab[j] = b[j - n]
            BY <2>2 DEF Spliced
        <3>. QED  BY <3>1, <3>2
    <2>. QED  BY <2>1, <2>2
<1>. QED  BY <1>1, <1>2, <1>3 DEF Halves

LEMMA JoinFacts ==
    ASSUME NEW S, NEW a \in Seq(S), NEW b \in Seq(S), NEW ab, ab = a \o b
    PROVE  Joined(S, ab, a, b)
<1>1. Len(a) \in Nat /\ Len(b) \in Nat /\ DOMAIN a = 1 .. Len(a) /\ DOMAIN b = 1 .. Len(b)
    OBVIOUS
<1>2. /\ ab \in Seq(S) /\ Len(ab) = Len(a) + Len(b)
      /\ \A i \in 1 .. Len(a) + Len(b) : ab[i] = IF i <= Len(a) THEN a[i] ELSE b[i - Len(a)]
    BY ConcatProperties
<1>3. DOMAIN ab = 1 .. Len(a) + Len(b)
    BY <1>2
<1>4. /\ \A i \in 1 .. Len(a) : i \in 1 .. Len(a) + Len(b) /\ ab[i] = a[i]
      /\ \A i \in 1 .. Len(b) : Len(a) + i \in 1 .. Len(a) + Len(b) /\ ab[Len(a) + i] = b[i]
      /\ \A j \in 1 .. Len(a) + Len(b) : \/ \E i \in 1 .. Len(a) : ab[j] = a[i]
                                         \/ \E i \in 1 .. Len(b) : ab[j] = b[i]
    <2>1. Spliced(ab, a, b, Len(a), Len(b))
        BY ONLY <1>2, Zenon DEF Spliced
    <2>2. Halves(ab, a, b, Len(a), Len(b))
        BY ONLY <1>1, <2>1, JoinIndices, Zenon
    <2>. QED  BY ONLY <2>2, Zenon DEF Halves
<1>5. Included(a, ab) /\ Included(b, ab) /\ DrawnFrom(ab, a, b)
    BY ONLY <1>1, <1>3, <1>4, Zenon DEF Included, DrawnFrom
<1>. QED  BY ONLY <1>2, <1>4, <1>5, Zenon DEF Joined

(* Where the added scenes go: between what was there, of which the last    *)
(* stays last.                                                             *)
LEMMA BeforeSummaryFacts ==
    ASSUME NEW S, NEW scenes \in Seq(S), NEW added \in Seq(S),
           Len(scenes) >= 3, scenes[Len(scenes)].kind = "summary",
           NEW all, all = BeforeSummary(scenes, added)
    PROVE  /\ all \in Seq(S) /\ Len(all) >= 3
           /\ all[1] = scenes[1] /\ all[Len(all)] = scenes[Len(scenes)]
           /\ Included(scenes, all) /\ Included(added, all) /\ DrawnFrom(all, scenes, added)
<1>1. PICK n, m : n = Len(scenes) /\ m = Len(added)
    OBVIOUS
<1>2. n \in Nat /\ m \in Nat /\ n >= 3 /\ DOMAIN scenes = 1 .. n /\ DOMAIN added = 1 .. m
    BY <1>1
<1>3. PICK front, final, head : /\ front = SubSeq(scenes, 1, Len(scenes) - 1)
                                /\ final = <<scenes[Len(scenes)]>> /\ head = front \o added
    OBVIOUS
<1>4. /\ front \in Seq(S) /\ Len(front) = n - 1
      /\ \A i \in 1 .. n - 1 : front[i] = scenes[i]
    BY <1>1, <1>2, <1>3
<1>5. final \in Seq(S) /\ Len(final) = 1 /\ final[1] = scenes[n]
    <2>1. scenes[n] \in S
        BY <1>1, <1>2
    <2>. QED  BY <1>1, <1>3, <2>1
<1>6. all = head \o final
    BY <1>3 DEF BeforeSummary, Front, Last
<1>7. /\ head \in Seq(S) /\ Len(head) = n - 1 + m
      /\ \A i \in 1 .. n - 1 : head[i] = front[i]
      /\ Included(front, head) /\ Included(added, head) /\ DrawnFrom(head, front, added)
    <2>1. added \in Seq(S) /\ front \in Seq(S) /\ head = front \o added
        BY <1>3, <1>4
    <2>2. Joined(S, head, front, added)
        BY ONLY <2>1, JoinFacts
    <2>. QED  BY ONLY <1>1, <1>4, <2>2, Zenon DEF Joined
<1>8. /\ all \in Seq(S) /\ Len(all) = Len(head) + 1
      /\ \A i \in 1 .. Len(head) : all[i] = head[i]
      /\ all[Len(head) + 1] = scenes[n]
      /\ Included(head, all) /\ Included(final, all) /\ DrawnFrom(all, head, final)
    <2>1. /\ all \in Seq(S) /\ Len(all) = Len(head) + Len(final)
          /\ \A i \in 1 .. Len(head) : all[i] = head[i]
          /\ \A i \in 1 .. Len(final) : all[Len(head) + i] = final[i]
          /\ Included(head, all) /\ Included(final, all) /\ DrawnFrom(all, head, final)
        <3>1. Joined(S, all, head, final)
            BY ONLY <1>5, <1>6, <1>7, JoinFacts
        <3>. QED  BY ONLY <3>1, Zenon DEF Joined
    <2>2. 1 \in 1 .. Len(final)
        BY <1>5
    <2>. QED  BY ONLY <1>5, <2>1, <2>2, Zenon
<1>9. all[1] = scenes[1] /\ Len(all) >= 3 /\ all[Len(all)] = scenes[Len(scenes)]
    <2>1. 1 \in 1 .. n - 1 /\ 1 \in 1 .. n - 1 + m /\ n - 1 + m + 1 >= 3
        BY ONLY <1>2
    <2>2. all[1] = head[1]
        BY ONLY <1>7, <1>8, <2>1, Zenon
    <2>3. head[1] = front[1] /\ front[1] = scenes[1]
        BY ONLY <1>4, <1>7, <2>1, Zenon
    <2>4. Len(all) >= 3
        BY ONLY <1>7, <1>8, <2>1, Zenon
    <2>. QED  BY ONLY <1>1, <1>8, <2>2, <2>3, <2>4, Zenon
<1>10. DOMAIN final = {1} /\ DOMAIN front = 1 .. n - 1
    BY <1>4, <1>5
<1>11. Included(scenes, all)
    <2>. SUFFICES ASSUME NEW i \in DOMAIN scenes PROVE \E j \in DOMAIN all : all[j] = scenes[i]
        BY Zenon DEF Included
    <2>1. CASE i = n
        <3>1. 1 \in DOMAIN final
            BY ONLY <1>10
        <3>2. PICK j \in DOMAIN all : all[j] = final[1]
            BY ONLY <1>8, <3>1, Zenon DEF Included
        <3>. QED  BY ONLY <1>5, <2>1, <3>2, j \in DOMAIN all, Zenon
    <2>2. CASE i # n
        <3>1. i \in 1 .. n - 1
            BY ONLY i \in DOMAIN scenes, <1>2, <2>2
        <3>2. i \in DOMAIN front /\ front[i] = scenes[i]
            BY ONLY <1>4, <1>10, <3>1, Zenon
        <3>3. PICK k \in DOMAIN head : head[k] = front[i]
            BY ONLY <1>7, <3>2, Zenon DEF Included
        <3>. QED  BY ONLY <1>8, <3>2, <3>3, Zenon DEF Included
    <2>. QED  BY <2>1, <2>2
<1>12. Included(added, all)
    <2>. SUFFICES ASSUME NEW i \in DOMAIN added PROVE \E j \in DOMAIN all : all[j] = added[i]
        BY Zenon DEF Included
    <2>1. PICK k \in DOMAIN head : head[k] = added[i]
        BY ONLY <1>7, i \in DOMAIN added, Zenon DEF Included
    <2>. QED  BY ONLY <1>8, <2>1, k \in DOMAIN head, Zenon DEF Included
<1>13. DrawnFrom(all, scenes, added)
    <2>1. n \in DOMAIN scenes /\ 1 .. n - 1 \subseteq DOMAIN scenes
        BY ONLY <1>2
    <2>. SUFFICES ASSUME NEW j \in DOMAIN all
                  PROVE  \/ \E i \in DOMAIN scenes : all[j] = scenes[i]
                         \/ \E i \in DOMAIN added : all[j] = added[i]
        BY Zenon DEF DrawnFrom
    <2>2. CASE \E i \in DOMAIN final : all[j] = final[i]
        BY ONLY <1>5, <1>10, <2>1, <2>2, Zenon
    <2>3. CASE \E k \in DOMAIN head : all[j] = head[k]
        <3>1. PICK k \in DOMAIN head : all[j] = head[k]
            BY <2>3
        <3>2. (\E i \in DOMAIN front : head[k] = front[i]) \/ (\E i \in DOMAIN added : head[k] = added[i])
            BY ONLY <1>7, k \in DOMAIN head, Zenon DEF DrawnFrom
        <3>. QED  BY ONLY <1>4, <1>10, <2>1, <3>1, <3>2, Zenon
    <2>. QED  BY ONLY <1>8, j \in DOMAIN all, <2>2, <2>3, Zenon DEF DrawnFrom
<1>. QED  BY ONLY <1>8, <1>9, <1>11, <1>12, <1>13, Zenon

LEMMA RepairCoverageStep == IInv /\ RepairCoverage => IInv'
<1>. SUFFICES ASSUME IInv, RepairCoverage PROVE IInv'
    OBVIOUS
<1>1. At("node") /\ pos.at <= Len(Graph) /\ pos.at = 6 /\ Looped
    BY GoFacts DEF RepairCoverage
<1>2. UNCHANGED <<case, published, leaked>>
    BY DEF RepairCoverage
<1>3. work.types = SnapshotTypes /\ Framed(work.scenes)
      /\ \A i \in DOMAIN work.scenes : work.scenes[i].kind \in Kinds
    BY <1>1, Parts DEF Prepared, DraftFits
<1>4. ASSUME Advance, UNCHANGED <<run, loop>>, usage' \in UsageSet, work' \in WorkSet,
             work'.material = work.material, work'.types = work.types, work'.partial = work.partial,
             Framed(work'.scenes), Covering(work'.scenes),
             \A i \in DOMAIN work'.scenes : work'.scenes[i].kind \in Kinds
      PROVE  IInv'
    <2>1. ASSUME NEW q, q.at = pos.at + 1, q.step = "node"
          PROVE  Prepared(q, work') /\ LoopFits(q, work', loop) /\ DraftFits(q, work')
        <3>1. q.at = 7
            BY <1>1, <2>1
        <3>2. Prepared(q, work')
            BY <1>1, <1>4, <3>1, Parts DEF Prepared
        <3>3. LoopFits(q, work', loop)
            BY <1>1, <1>4, <2>1, <3>1, Parts DEF LoopFits, LoopSteps
        <3>4. DraftFits(q, work')
            BY <1>4, <2>1, <3>1 DEF DraftFits
        <3>. QED  BY <3>2, <3>3, <3>4
    <2>. QED  BY <1>1, <1>2, <1>4, <2>1, Fields, Parts, AdvanceIsGood
<1>5. CASE Missing(work.scenes) = {} /\ Advance /\ UNCHANGED <<run, usage, work, loop>>
    <2>1. Covering(work.scenes)
        BY <1>3, <1>5 DEF Missing, Covering
    <2>. QED  BY <1>3, <1>4, <1>5, <2>1, Fields
<1>6. CASE Failed /\ UNCHANGED usage
    BY <1>2, <1>6, Fields, EndedIsGood DEF Failed
<1>7. CASE \E c \in Calls(Drafts(RepairRefs)) :
             /\ usage' = Charged(usage, c)
             /\ IF c.answered /\ RepairAccepted(c.out)
                THEN /\ \E quirk \in Quirks \ {"clash"} :
                          work' = [work EXCEPT !.scenes = BeforeSummary(@, Named(c.out, quirk))]
                     /\ Advance /\ UNCHANGED <<run, loop>>
                ELSE Failed
    <2>1. PICK c \in Calls(Drafts(RepairRefs)) :
             /\ usage' = Charged(usage, c)
             /\ IF c.answered /\ RepairAccepted(c.out)
                THEN /\ \E quirk \in Quirks \ {"clash"} :
                          work' = [work EXCEPT !.scenes = BeforeSummary(@, Named(c.out, quirk))]
                     /\ Advance /\ UNCHANGED <<run, loop>>
                ELSE Failed
        BY <1>7
    <2>2. usage' \in UsageSet /\ (c.answered => c.out \in Drafts(RepairRefs))
        BY <2>1, Fields, CallFacts
    <2>3. CASE ~(c.answered /\ RepairAccepted(c.out))
        <3>1. Failed
            BY <2>1, <2>3
        <3>. QED  BY <1>2, <2>2, <3>1, EndedIsGood DEF Failed
    <2>4. CASE c.answered /\ RepairAccepted(c.out)
        <3>1. PICK quirk \in Quirks \ {"clash"} :
                work' = [work EXCEPT !.scenes = BeforeSummary(@, Named(c.out, quirk))]
            BY <2>1, <2>4
        <3>2. Advance /\ UNCHANGED <<run, loop>>
            BY <2>1, <2>4
        <3>3. PICK added, all : added = Named(c.out, quirk) /\ all = BeforeSummary(work.scenes, added)
            OBVIOUS
        <3>4. RepairRefs \in SUBSET Refs
            <4>1. Texts = TextsOf(work.material)
                BY DEF Texts, TextsOf
            <4>2. \A i \in DOMAIN Texts : Texts[i].ref \in Refs
                BY <4>1, Fields, TextFacts
            <4>. QED  BY <4>2 DEF RepairRefs
        <3>5. /\ added \in Seq(SceneSet) /\ DOMAIN added = DOMAIN c.out
              /\ \A i \in DOMAIN added : added[i].kind \in Kinds /\ added[i].refs = c.out[i].refs
            <4>1. \A i \in DOMAIN c.out : c.out[i].refs \subseteq RepairRefs
                BY <2>4 DEF RepairAccepted
            <4>. QED  BY <2>2, <2>4, <3>3, <3>4, <4>1, AnswerFacts
        <3>6. /\ work.scenes \in Seq(SceneSet)
              /\ Len(work.scenes) >= 3 /\ work.scenes[Len(work.scenes)].kind = "summary"
              /\ work.scenes[1].kind = "cover"
            BY <1>3, Fields DEF Framed
        <3>7. /\ all \in Seq(SceneSet) /\ Len(all) >= 3
              /\ all[1] = work.scenes[1] /\ all[Len(all)] = work.scenes[Len(work.scenes)]
              /\ Included(work.scenes, all) /\ Included(added, all)
              /\ DrawnFrom(all, work.scenes, added)
            BY ONLY <3>3, <3>5, <3>6, BeforeSummaryFacts
        <3>8. Framed(all)
            BY <3>6, <3>7 DEF Framed
        <3>9. \A j \in DOMAIN all : all[j].kind \in Kinds
            BY <1>3, <3>5, <3>7 DEF DrawnFrom
        <3>10. RefsOf(c.out) \subseteq RefsOf(all) /\ RefsOf(work.scenes) \subseteq RefsOf(all)
            <4>1. ASSUME NEW i \in DOMAIN c.out PROVE c.out[i].refs \subseteq RefsOf(all)
                <5>1. i \in DOMAIN added /\ added[i].refs = c.out[i].refs
                    BY <3>5
                <5>2. PICK j \in DOMAIN all : all[j] = added[i]
                    BY <3>7, <5>1 DEF Included
                <5>. QED  BY <5>1, <5>2 DEF RefsOf
            <4>2. ASSUME NEW i \in DOMAIN work.scenes PROVE work.scenes[i].refs \subseteq RefsOf(all)
                <5>1. PICK j \in DOMAIN all : all[j] = work.scenes[i]
                    BY <3>7 DEF Included
                <5>. QED  BY <5>1 DEF RefsOf
            <4>3. ASSUME NEW a, NEW R, \A i \in DOMAIN a : a[i].refs \subseteq R
                  PROVE  RefsOf(a) \subseteq R
                BY <4>3 DEF RefsOf
            <4>. QED  BY <4>1, <4>2, <4>3
        <3>11. \A A, B : A \subseteq B => TypesOf(A) \subseteq TypesOf(B)
            BY DEF TypesOf
        <3>12. SnapshotTypes \ TypesOf(RefsOf(work.scenes)) \subseteq TypesOf(RefsOf(c.out))
            BY <1>3, <2>4 DEF RepairAccepted, Missing
        <3>13. Covering(all)
            BY <3>10, <3>11, <3>12 DEF Covering
        <3>14. /\ work' \in WorkSet /\ work'.material = work.material /\ work'.types = work.types
               /\ work'.partial = work.partial /\ work'.scenes = all
            BY <3>1, <3>3, <3>7, Fields DEF WorkSet
        <3>. QED  BY <1>4, <2>2, <3>2, <3>8, <3>9, <3>13, <3>14
    <2>. QED  BY <2>3, <2>4
<1>. QED  BY <1>5, <1>6, <1>7 DEF RepairCoverage

(* A node behind the loop, or of the graph without one, that ends with     *)
(* Advance and leaves the materials, the types and the partial flag: what  *)
(* is left to show is about the scenes and the document.                   *)
LEMMA NodeIsGood ==
    ASSUME IInv, NEW s, At(s), pos.at <= Len(Graph), Advance, pos.at > 4 \/ (pos.at = 4 /\ ~Looped),
           UNCHANGED <<case, run, loop, published, leaked>>, usage' \in UsageSet, work' \in WorkSet,
           work'.material = work.material, work'.types = work.types, work'.partial = work.partial,
           ASSUME NEW q, q.at = pos.at + 1, q.step = "node" PROVE DraftFits(q, work')
    PROVE  IInv'
<1>1. ASSUME NEW q, q.at = pos.at + 1, q.step = "node"
      PROVE  Prepared(q, work') /\ LoopFits(q, work', loop) /\ DraftFits(q, work')
    <2>1. pos.at \in Nat
        BY Fields
    <2>2. Prepared(q, work')
        BY <1>1, <2>1, Parts DEF Prepared
    <2>3. LoopFits(q, work', loop)
        BY <1>1, <2>1, Parts DEF LoopFits, LoopSteps
    <2>. QED  BY <1>1, <2>2, <2>3
<1>. QED  BY <1>1, Fields, Parts, AdvanceIsGood

(* The references a node without the loop may give.                        *)
LEMMA PickedFacts ==
    ASSUME IInv
    PROVE  /\ SafeRefs = SafeOf(work.material) /\ SafeRefs \in SUBSET Shareable
           /\ SafeRefs \in SUBSET Refs /\ Picked \in SUBSET Refs
<1>1. SafeRefs = SafeOf(work.material)
    BY DEF SafeRefs, SafeOf
<1>2. SafeOf(work.material) \subseteq Shareable
    BY Fields, SafeFacts
<1>3. Shareable \subseteq Refs
    BY Fields, ShareableFacts
<1>4. Picked \in SUBSET Refs
    <2>1. work.picked \in Seq(SUBSET Refs)
        BY Fields
    <2>2. \A i \in DOMAIN work.picked : work.picked[i] \in SUBSET Refs
        BY <2>1
    <2>. QED  BY <2>2 DEF Picked
<1>. QED  BY <1>1, <1>2, <1>3, <1>4

(* The nodes that pick references for the scenes.                          *)
LEMMA PickIsGood ==
    ASSUME IInv, At("node"), pos.at <= Len(Graph), Advance, ~Looped, pos.at \in {4, 5},
           UNCHANGED <<case, run, loop, published, leaked>>, usage' \in UsageSet,
           NEW picked \in Seq(SUBSET Refs), work' = [work EXCEPT !.picked = picked]
    PROVE  IInv'
<1>1. work \in WorkSet
    BY Fields
<1>2. /\ work' \in WorkSet /\ work'.material = work.material /\ work'.types = work.types
      /\ work'.partial = work.partial
    BY <1>1 DEF WorkSet
<1>3. pos.at > 4 \/ (pos.at = 4 /\ ~Looped)
    OBVIOUS
<1>4. ASSUME NEW q, q.at = pos.at + 1, q.step = "node" PROVE DraftFits(q, work')
    BY <1>4 DEF DraftFits
<1>. QED  BY <1>2, <1>3, <1>4, NodeIsGood

LEMMA HighlightsStep == IInv /\ ExtractHighlights => IInv'
<1>. SUFFICES ASSUME IInv, ExtractHighlights PROVE IInv'
    OBVIOUS
<1>1. At("node") /\ pos.at <= Len(Graph) /\ pos.at = 4 /\ ~Looped
    BY GoFacts DEF ExtractHighlights
<1>2. Advance /\ UNCHANGED <<case, run, loop, published, leaked>>
    BY DEF ExtractHighlights
<1>3. PICK c \in Asked(HighlightAnswers) :
        /\ usage' = Charged(usage, c)
        /\ work' = [work EXCEPT !.picked = IF c.answered THEN c.out ELSE <<SafeRefs>>]
    BY DEF ExtractHighlights
<1>4. usage' \in UsageSet /\ (c.answered => c.out \in HighlightAnswers)
    BY <1>3, Fields, AskedFacts
<1>5. PICK picked : picked = IF c.answered THEN c.out ELSE <<SafeRefs>>
    OBVIOUS
<1>6. picked \in Seq(SUBSET Refs)
    <2>1. SafeRefs \in SUBSET Refs
        BY PickedFacts
    <2>2. \E refs \in SUBSET SafeRefs : picked = <<refs>>
        BY <1>4, <1>5 DEF HighlightAnswers
    <2>3. PICK refs \in SUBSET Refs : picked = <<refs>>
        BY <2>1, <2>2
    <2>. QED  BY ONLY refs \in SUBSET Refs, <2>3
<1>. QED  BY <1>1, <1>2, <1>3, <1>4, <1>5, <1>6, PickIsGood

LEMMA ChaptersStep == IInv /\ PlanChapters => IInv'
<1>. SUFFICES ASSUME IInv, PlanChapters PROVE IInv'
    OBVIOUS
<1>1. At("node") /\ pos.at <= Len(Graph) /\ pos.at = 5 /\ ~Looped
    BY GoFacts DEF PlanChapters
<1>2. Advance /\ UNCHANGED <<case, run, loop, published, leaked>>
    BY DEF PlanChapters
<1>3. PICK c \in Asked(ChapterAnswers) :
        /\ usage' = Charged(usage, c)
        /\ work' = [work EXCEPT !.picked = IF c.answered THEN c.out ELSE <<Picked>>]
    BY DEF PlanChapters
<1>4. usage' \in UsageSet /\ (c.answered => c.out \in ChapterAnswers)
    BY <1>3, Fields, AskedFacts
<1>5. PICK picked : picked = IF c.answered THEN c.out ELSE <<Picked>>
    OBVIOUS
<1>6. Picked \in SUBSET Refs
    BY PickedFacts
<1>7. CASE ~c.answered
    <2>1. PICK refs \in SUBSET Refs : refs = Picked
        BY <1>6
    <2>2. picked = <<refs>>
        BY <1>5, <1>7, <2>1
    <2>3. picked \in Seq(SUBSET Refs)
        BY ONLY refs \in SUBSET Refs, <2>2
    <2>. QED  BY <1>1, <1>2, <1>3, <1>4, <1>5, <2>3, PickIsGood
<1>8. CASE c.answered
    <2>1. PICK n \in 1 .. 2 : picked \in [1 .. n -> SUBSET Picked]
        BY <1>4, <1>5, <1>8 DEF ChapterAnswers
    <2>2. n \in Nat /\ picked \in [1 .. n -> SUBSET Refs]
        BY <1>6, <2>1
    <2>3. picked \in Seq(SUBSET Refs)
        BY ONLY <2>2, IsASeq
    <2>. QED  BY <1>1, <1>2, <1>3, <1>4, <1>5, <2>3, PickIsGood
<1>. QED  BY <1>7, <1>8

(* Three base cards, and the template scenes.                              *)
LEMMA BaseFacts ==
    /\ Base \in Seq(SceneSet) /\ Len(Base) = 3 /\ DOMAIN Base = 1 .. 3
    /\ \A i \in 1 .. 3 : Base[i].kind = "summary" /\ Base[i].refs = {} /\ ~Base[i].harm
    /\ Cardinality(IdsOf(Base)) = 3
<1>1. 3 \in Nat /\ \A i \in 1 .. 3 : Scene(i, "summary", {}, FALSE) \in SceneSet
    BY DEF Scene, SceneSet, Kinds
<1>2. Base \in [1 .. 3 -> SceneSet]
    BY <1>1 DEF Base
<1>3. Base \in Seq(SceneSet) /\ Len(Base) = 3
    <2>1. PICK n : n = 3
        OBVIOUS
    <2>2. n \in Nat /\ Base \in [1 .. n -> SceneSet]
        BY <1>2, <2>1
    <2>3. Base \in Seq(SceneSet) /\ Len(Base) = n
        BY ONLY <2>2, IsASeq
    <2>. QED  BY <2>1, <2>3
<1>4. DOMAIN Base = 1 .. 3 /\ \A i \in 1 .. 3 : /\ Base[i].id = i /\ Base[i].kind = "summary"
                                                /\ Base[i].refs = {} /\ ~Base[i].harm
    BY DEF Base, Scene
<1>5. IdsOf(Base) = 1 .. 3
    BY <1>4 DEF IdsOf
<1>6. Cardinality(1 .. 3) = 3
    <2>1. 1 \in Int /\ 3 \in Int
        OBVIOUS
    <2>2. Cardinality(1 .. 3) = IF 1 > 3 THEN 0 ELSE 3 - 1 + 1
        BY ONLY <2>1, FS_Interval
    <2>. QED  BY <2>2
<1>. QED  BY <1>3, <1>4, <1>5, <1>6

LEMMA ScenesStep == IInv /\ GenerateScenes => IInv'
<1>. SUFFICES ASSUME IInv, GenerateScenes PROVE IInv'
    OBVIOUS
<1>1. At("node") /\ pos.at <= Len(Graph) /\ pos.at = 6 /\ ~Looped
    BY GoFacts DEF GenerateScenes
<1>2. Advance /\ UNCHANGED <<case, run, loop, published, leaked>>
    BY DEF GenerateScenes
<1>3. PICK c \in Asked(SceneAnswers) :
        /\ usage' = Charged(usage, c)
        /\ \E quirk \in Quirks \ {"clash"} :
             work' = [work EXCEPT !.scenes = IF c.answered THEN Named(c.out, quirk)
                                             ELSE TemplateScenes]
    BY DEF GenerateScenes
<1>4. usage' \in UsageSet /\ (c.answered => c.out \in SceneAnswers)
    BY <1>3, Fields, AskedFacts
<1>5. PICK quirk : work' = [work EXCEPT !.scenes = IF c.answered THEN Named(c.out, quirk)
                                                   ELSE TemplateScenes]
    BY <1>3
<1>6. PICK scenes : scenes = IF c.answered THEN Named(c.out, quirk) ELSE TemplateScenes
    OBVIOUS
<1>7. Picked \in SUBSET Refs
    BY PickedFacts
<1>8. scenes \in Seq(SceneSet)
    <2>1. CASE c.answered
        <3>1. PICK s \in [kind : {"card", "image"}, refs : SUBSET Picked] : c.out = [i \in 1 .. 3 |-> s]
            BY <1>4, <2>1 DEF SceneAnswers
        <3>2. PICK d : d = c.out
            OBVIOUS
        <3>3. s.kind \in Kinds \cup {"image"} /\ s.refs \in SUBSET Refs
            BY <1>7 DEF Kinds
        <3>4. DOMAIN d = 1 .. 3 /\ \A i \in 1 .. 3 : d[i].kind \in Kinds \cup {"image"} /\ d[i].refs \in SUBSET Refs
            BY <3>1, <3>2, <3>3
        <3>5. 3 \in Nat /\ work.scenes \in Seq(SceneSet)
            BY Fields
        <3>6. Named(d, quirk) \in Seq(SceneSet)
            BY ONLY <3>4, <3>5, NamedFacts
        <3>. QED  BY <1>6, <2>1, <3>2, <3>6
    <2>2. CASE ~c.answered
        <3>1. Len(work.picked) \in Nat /\ \A i \in 1 .. Len(work.picked) : work.picked[i] \in SUBSET Refs
            <4>1. work.picked \in Seq(SUBSET Refs)
                BY Fields
            <4>. QED  BY <4>1
        <3>2. ASSUME NEW i \in 1 .. 3
              PROVE  Scene(i, "summary", IF i <= Len(work.picked) THEN work.picked[i] ELSE {}, FALSE) \in SceneSet
            <4>1. PICK r : r = IF i <= Len(work.picked) THEN work.picked[i] ELSE {}
                OBVIOUS
            <4>2. r \in SUBSET Refs
                BY <3>1, <4>1
            <4>3. i \in Nat
                OBVIOUS
            <4>4. Scene(i, "summary", r, FALSE) \in SceneSet
                BY <4>2, <4>3 DEF Scene, SceneSet, Kinds
            <4>. QED  BY <4>1, <4>4
        <3>3. 3 \in Nat /\ TemplateScenes \in [1 .. 3 -> SceneSet]
            BY <3>2 DEF TemplateScenes
        <3>4. TemplateScenes \in Seq(SceneSet)
            <4>1. PICK n : n = 3
                OBVIOUS
            <4>2. n \in Nat /\ TemplateScenes \in [1 .. n -> SceneSet]
                BY <3>3, <4>1
            <4>. QED  BY ONLY <4>2, IsASeq
        <3>. QED  BY <1>6, <2>2, <3>4
    <2>. QED  BY <2>1, <2>2
<1>9. /\ work' \in WorkSet /\ work'.material = work.material /\ work'.types = work.types
      /\ work'.partial = work.partial
    <2>1. work \in WorkSet
        BY Fields
    <2>. QED  BY <1>5, <1>6, <1>8, <2>1 DEF WorkSet
<1>10. ASSUME NEW q, q.at = pos.at + 1, q.step = "node" PROVE DraftFits(q, work')
    BY <1>1, <1>10 DEF DraftFits
<1>11. pos.at > 4
    BY <1>1
<1>. QED  BY <1>1, <1>2, <1>4, <1>9, <1>10, <1>11, NodeIsGood

(* One action for every scene.                                             *)
LEMMA ActionsFacts ==
    ASSUME NEW scenes \in Seq(SceneSet)
    PROVE  RuleActions(scenes) \in Seq(Nat)
<1>1. Len(scenes) \in Nat /\ DOMAIN scenes = 1 .. Len(scenes) /\ \A i \in DOMAIN scenes : scenes[i] \in SceneSet
    OBVIOUS
<1>2. \A x \in SceneSet : x.id \in Nat
    BY DEF SceneSet
<1>3. RuleActions(scenes) \in [1 .. Len(scenes) -> Nat]
    BY <1>1, <1>2 DEF RuleActions
<1>. QED  BY ONLY <1>1, <1>3, IsASeq

LEMMA ActionsStep == IInv /\ GenerateActions => IInv'
<1>. SUFFICES ASSUME IInv, GenerateActions PROVE IInv'
    OBVIOUS
<1>1. At("node") /\ pos.at <= Len(Graph) /\ pos.at = 7
    BY GoFacts DEF GenerateActions
<1>2. Advance /\ UNCHANGED <<case, run, usage, loop, published, leaked>>
    BY DEF GenerateActions
<1>3. PICK actions : actions = RuleActions(work.scenes)
    OBVIOUS
<1>4. work' = [work EXCEPT !.actions = actions] /\ actions \in Seq(Nat)
    BY <1>3, Fields, ActionsFacts DEF GenerateActions
<1>5. /\ work' \in WorkSet /\ work'.material = work.material /\ work'.types = work.types
      /\ work'.partial = work.partial /\ work'.scenes = work.scenes
    <2>1. work \in WorkSet
        BY Fields
    <2>. QED  BY <1>4, <2>1 DEF WorkSet
<1>6. ASSUME NEW q, q.at = pos.at + 1, q.step = "node" PROVE DraftFits(q, work')
    BY <1>1, <1>5, <1>6, Parts DEF DraftFits
<1>7. pos.at > 4 /\ usage' \in UsageSet
    BY <1>1, <1>2, Fields
<1>. QED  BY <1>1, <1>2, <1>5, <1>6, <1>7, NodeIsGood

(* The document in hand is shown with other scenes; image scenes become    *)
(* text cards, which in the graphs with the loop there are none of.        *)
LEMMA ShownFacts ==
    ASSUME IInv, NEW scenes \in Seq(SceneSet), NEW media \in SUBSET Nat,
           NEW w, w = Shown(work, scenes, media)
    PROVE  /\ w \in WorkSet /\ w.material = work.material /\ w.types = work.types
           /\ w.partial = work.partial /\ w.scenes = scenes /\ w.doc = work.doc
<1>1. PICK actions : actions = RuleActions(scenes)
    OBVIOUS
<1>2. actions \in Seq(Nat) /\ work \in WorkSet
    BY <1>1, Fields, ActionsFacts
<1>3. w = [work EXCEPT !.scenes = scenes, !.actions = actions, !.media = media]
    BY <1>1 DEF Shown
<1>. QED  BY <1>2, <1>3 DEF WorkSet

LEMMA DegradedFacts ==
    ASSUME NEW scenes \in Seq(SceneSet), NEW media
    PROVE  /\ Degraded(scenes, media) \in Seq(SceneSet)
           /\ (\A i \in DOMAIN scenes : scenes[i].kind \in Kinds) => Degraded(scenes, media) = scenes
<1>1. Len(scenes) \in Nat /\ DOMAIN scenes = 1 .. Len(scenes)
      /\ \A i \in 1 .. Len(scenes) : scenes[i] \in SceneSet
    OBVIOUS
<1>2. \A x \in SceneSet : [x EXCEPT !.kind = "summary"] \in SceneSet
    BY DEF SceneSet, Kinds
<1>3. Degraded(scenes, media) \in [1 .. Len(scenes) -> SceneSet]
    BY <1>1, <1>2 DEF Degraded
<1>4. Degraded(scenes, media) \in Seq(SceneSet)
    BY ONLY <1>1, <1>3, IsASeq
<1>5. ASSUME \A i \in DOMAIN scenes : scenes[i].kind \in Kinds
      PROVE  Degraded(scenes, media) = scenes
    <2>1. \A i \in DOMAIN scenes : scenes[i].kind # "image"
        BY <1>5 DEF Kinds
    <2>2. Degraded(scenes, media) = [i \in DOMAIN scenes |-> scenes[i]]
        BY <2>1, Zenon DEF Degraded
    <2>. QED  BY <2>2
<1>. QED  BY <1>4, <1>5

(* The media node is left with the scenes in hand, image scenes turned     *)
(* into cards, or with the base cards.                                     *)
LEMMA MediaIsLeft ==
    ASSUME IInv, NEW s, At(s), pos.at = 8, pos.at <= Len(Graph), Advance,
           UNCHANGED <<case, run, usage, loop, published, leaked>>,
           NEW media \in SUBSET Nat, NEW scenes, scenes \in {Degraded(work.scenes, media), Base},
           work' = Shown(work, scenes, media)
    PROVE  IInv'
<1>1. scenes \in Seq(SceneSet)
    BY Fields, DegradedFacts, BaseFacts
<1>2. /\ work' \in WorkSet /\ work'.material = work.material /\ work'.types = work.types
      /\ work'.partial = work.partial /\ work'.scenes = scenes
    BY <1>1, ShownFacts
<1>3. ASSUME NEW q, q.at = pos.at + 1, q.step = "node" PROVE DraftFits(q, work')
    <2>1. q.at = 9
        BY <1>3
    <2>2. CASE ~Looped
        BY <1>3, <2>1, <2>2 DEF DraftFits
    <2>3. CASE Looped /\ scenes = Base
        <3>1. \A i \in DOMAIN Base : Base[i].kind \in Kinds
            BY BaseFacts DEF Kinds
        <3>. QED  BY <1>2, <1>3, <2>1, <2>3, <3>1 DEF DraftFits
    <2>4. CASE Looped /\ scenes = Degraded(work.scenes, media)
        <3>1. /\ \A i \in DOMAIN work.scenes : work.scenes[i].kind \in Kinds
              /\ Framed(work.scenes) /\ Covering(work.scenes)
            BY <2>4, Parts DEF DraftFits
        <3>2. scenes = work.scenes
            BY <2>4, <3>1, Fields, DegradedFacts
        <3>. QED  BY <1>2, <1>3, <2>1, <3>1, <3>2 DEF DraftFits
    <2>. QED  BY <2>2, <2>3, <2>4
<1>4. pos.at > 4 /\ usage' \in UsageSet
    BY Fields
<1>. QED  BY <1>2, <1>3, <1>4, NodeIsGood

LEMMA EnqueueMediaStep == IInv /\ EnqueueMedia => IInv'
<1>. SUFFICES ASSUME IInv, EnqueueMedia PROVE IInv'
    OBVIOUS
<1>1. At("node") /\ pos.at <= Len(Graph) /\ pos.at = 8 /\ pos.step = "node" /\ run.status = "running"
    BY GoFacts DEF EnqueueMedia
<1>2. UNCHANGED <<case, run, usage, loop, published, leaked>>
    BY DEF EnqueueMedia
<1>3. CASE work' = Shown(work, Degraded(work.scenes, {}), {}) /\ Advance
    BY <1>1, <1>2, <1>3, MediaIsLeft
<1>4. CASE work' = Shown(work, Base, {}) /\ Advance
    BY <1>1, <1>2, <1>4, MediaIsLeft
<1>5. CASE Sendable /\ pos' = [pos EXCEPT !.step = "images", !.shot = 1] /\ UNCHANGED work
    <2>1. pos' \in PosSet /\ pos'.at = 8 /\ pos'.step = "images" /\ pos'.shot >= 1
        <3>1. pos \in PosSet
            BY Fields
        <3>2. PICK n : n = 1
            OBVIOUS
        <3>3. n \in Nat /\ n >= 1 /\ pos' = [pos EXCEPT !.step = "images", !.shot = n]
            BY <1>5, <3>2
        <3>. QED  BY <1>1, <3>1, <3>3 DEF PosSet, Steps
    <2>2. Harmless(work.scenes, SafeOf(work.material))
        BY <1>5, PickedFacts DEF Sendable, Reviewed, Harmless
    <2>3. Placed(run', pos', work') /\ Prepared(pos', work')
        BY <1>1, <1>2, <1>5, <2>1, Parts DEF Placed, Prepared, LoopSteps
    <2>4. LoopFits(pos', work', loop')
        BY <1>1, <1>2, <1>5, <2>1, Parts DEF LoopFits, LoopSteps
    <2>5. DraftFits(pos', work')
        BY <1>1, <1>5, <2>1, <2>2, Parts DEF DraftFits
    <2>6. Good(run', usage', pos', work', loop', published')
        BY <1>2, <1>5, <2>1, <2>3, <2>4, <2>5, Fields, Parts DEF Good
    <2>. QED  BY <1>2, <2>6, Carry
<1>. QED  BY <1>3, <1>4, <1>5 DEF EnqueueMedia

LEMMA AtImages ==
    ASSUME IInv, At("images")
    PROVE  /\ run.status = "running" /\ pos.step = "images" /\ pos.at = 8
           /\ pos.shot >= 1 /\ Harmless(work.scenes, SafeOf(work.material))
BY Parts DEF At, Placed, DraftFits

(* What goes to the provider has passed the review.                        *)
LEMMA IllustrateStep == IInv /\ Illustrate => IInv'
<1>. SUFFICES ASSUME IInv, Illustrate PROVE IInv'
    OBVIOUS
<1>1. /\ run.status = "running" /\ pos.step = "images" /\ pos.at = 8 /\ pos.shot >= 1
      /\ Harmless(work.scenes, SafeOf(work.material))
    BY AtImages DEF Illustrate
<1>2. PICK k : k = pos.shot
    OBVIOUS
<1>3. k \in DOMAIN work.scenes /\ k \in Nat
    <2>1. pos.shot \in Nat /\ work.scenes \in Seq(SceneSet) /\ pos.shot <= Len(work.scenes)
        BY Fields DEF Illustrate
    <2>2. k \in Nat /\ k >= 1 /\ k <= Len(work.scenes)
        BY <1>1, <1>2, <2>1
    <2>. QED  BY <2>1, <2>2
<1>4. PICK scene : scene = work.scenes[k]
    OBVIOUS
<1>5. /\ (scene.kind = "image" /\ work' = [work EXCEPT !.media = @ \cup {scene.id}]) \/ UNCHANGED work
      /\ leaked' = (leaked \/ scene.harm \/ ~(scene.refs \subseteq SafeRefs))
      /\ usage' = [usage EXCEPT !.images = @ + 1]
      /\ pos' = [pos EXCEPT !.shot = k + 1]
      /\ UNCHANGED <<case, run, loop, published>>
    BY <1>2, <1>4 DEF Illustrate
<1>6. ~scene.harm /\ scene.refs \subseteq SafeRefs
    BY <1>1, <1>3, <1>4, PickedFacts DEF Harmless
<1>7. UNCHANGED leaked
    <2>1. leaked = FALSE \/ leaked = TRUE
        BY <1>5, <1>6 DEF IInv, EgressIsSafe
    <2>. QED  BY <1>5, <1>6, <2>1
<1>8. usage' \in UsageSet
    <2>1. usage \in UsageSet
        BY Fields
    <2>2. PICK n : n = usage.images + 1
        OBVIOUS
    <2>3. n \in Nat /\ usage' = [usage EXCEPT !.images = n]
        BY <1>5, <2>1, <2>2 DEF UsageSet
    <2>. QED  BY <2>1, <2>3 DEF UsageSet
<1>9. pos' \in PosSet /\ pos'.at = 8 /\ pos'.step = "images" /\ pos'.shot >= 1
    <2>1. pos \in PosSet
        BY Fields
    <2>2. PICK n : n = k + 1
        OBVIOUS
    <2>3. n \in Nat /\ n >= 1 /\ pos' = [pos EXCEPT !.shot = n]
        BY <1>3, <1>5, <2>2
    <2>. QED  BY <1>1, <2>1, <2>3 DEF PosSet
<1>10. /\ work' \in WorkSet /\ work'.material = work.material /\ work'.types = work.types
       /\ work'.partial = work.partial /\ work'.scenes = work.scenes /\ work'.doc = work.doc
    <2>1. work \in WorkSet /\ work.media \in SUBSET Nat /\ work.scenes \in Seq(SceneSet)
        BY Fields
    <2>2. scene.id \in Nat
        <3>1. \A x \in SceneSet : x.id \in Nat
            BY DEF SceneSet
        <3>2. scene \in SceneSet
            BY <1>3, <1>4, <2>1
        <3>. QED  BY <3>1, <3>2
    <2>3. PICK m : m = work.media \cup {scene.id}
        OBVIOUS
    <2>4. m \in SUBSET Nat /\ (work' = [work EXCEPT !.media = m] \/ work' = work)
        BY <1>5, <2>1, <2>2, <2>3
    <2>. QED  BY <2>1, <2>4 DEF WorkSet
<1>11. Placed(run', pos', work') /\ Prepared(pos', work')
    BY <1>1, <1>5, <1>9, <1>10, Parts DEF Placed, Prepared, LoopSteps
<1>12. LoopFits(pos', work', loop')
    BY <1>1, <1>5, <1>9, <1>10, Parts DEF LoopFits, LoopSteps
<1>13. DraftFits(pos', work')
    BY <1>1, <1>9, <1>10, Parts DEF DraftFits
<1>14. Good(run', usage', pos', work', loop', published')
    BY <1>5, <1>8, <1>9, <1>10, <1>11, <1>12, <1>13, Fields, Parts DEF Good
<1>. QED  BY <1>5, <1>7, <1>14, Carry

LEMMA MediaDoneStep == IInv /\ MediaDone => IInv'
<1>. SUFFICES ASSUME IInv, MediaDone PROVE IInv'
    OBVIOUS
<1>1. At("images") /\ pos.at = 8
    BY AtImages DEF MediaDone
<1>2. Advance /\ UNCHANGED <<case, run, usage, loop, published, leaked>>
      /\ work' = Shown(work, Degraded(work.scenes, work.media), work.media)
    BY DEF MediaDone
<1>3. pos.at <= Len(Graph)
    <2>1. PICK n : n = Len(Graph)
        OBVIOUS
    <2>2. n \in {10, 11}
        BY <2>1, Fields, GraphFacts
    <2>3. 8 <= n
        BY ONLY <2>2
    <2>. QED  BY ONLY <1>1, <2>1, <2>3, Zenon
<1>4. work.media \in SUBSET Nat
    BY Fields
<1>. QED  BY <1>1, <1>2, <1>3, <1>4, MediaIsLeft

(* The review lets only a sound document pass, and so are the base cards.  *)
LEMMA BaseIsSound == Sound(Base)
<1>1. Harmless(Base, Shareable)
    BY BaseFacts DEF Harmless
<1>. QED  BY <1>1, BaseFacts DEF Sound

LEMMA SafetyReviewStep == IInv /\ SafetyReview => IInv'
<1>. SUFFICES ASSUME IInv, SafetyReview PROVE IInv'
    OBVIOUS
<1>1. At("node") /\ pos.at <= Len(Graph) /\ pos.at = 9
    BY GoFacts DEF SafetyReview
<1>2. Advance /\ UNCHANGED <<case, run, usage, loop, published, leaked>>
    BY DEF SafetyReview
<1>3. PICK w : /\ w = IF Reviewed(work.scenes, work.actions, work.media, FALSE)
                      THEN work ELSE Shown(work, Base, {})
               /\ work' = [w EXCEPT !.doc = w.scenes]
    BY DEF SafetyReview
<1>4. /\ \A i \in DOMAIN work.scenes : Looped => work.scenes[i].kind \in Kinds
      /\ Looped => work.scenes = Base \/ (Framed(work.scenes) /\ Covering(work.scenes))
    BY <1>1, Parts DEF DraftFits
<1>5. /\ w \in WorkSet /\ w.material = work.material /\ w.types = work.types
      /\ w.partial = work.partial /\ Sound(w.scenes)
      /\ \A i \in DOMAIN w.scenes : Looped => w.scenes[i].kind \in Kinds
    <2>1. CASE Reviewed(work.scenes, work.actions, work.media, FALSE)
        <3>1. w = work /\ work \in WorkSet
            BY <1>3, <2>1, Fields
        <3>2. Harmless(work.scenes, Shareable) /\ Cardinality(IdsOf(work.scenes)) = Len(work.scenes)
            BY <2>1, PickedFacts DEF Reviewed, Harmless
        <3>3. Sound(work.scenes)
            BY <1>4, <3>2 DEF Sound
        <3>. QED  BY <1>4, <3>1, <3>3
    <2>2. CASE ~Reviewed(work.scenes, work.actions, work.media, FALSE)
        <3>1. w = Shown(work, Base, {}) /\ Base \in Seq(SceneSet) /\ {} \in SUBSET Nat
            BY <1>3, <2>2, BaseFacts
        <3>2. /\ w \in WorkSet /\ w.material = work.material /\ w.types = work.types
              /\ w.partial = work.partial /\ w.scenes = Base
            BY <3>1, ShownFacts
        <3>3. \A i \in DOMAIN Base : Base[i].kind \in Kinds
            BY BaseFacts DEF Kinds
        <3>. QED  BY <3>2, <3>3, BaseIsSound
    <2>. QED  BY <2>1, <2>2
<1>6. /\ work' \in WorkSet /\ work'.material = work.material /\ work'.types = work.types
      /\ work'.partial = work.partial /\ work'.scenes = w.scenes /\ work'.doc = w.scenes
    BY <1>3, <1>5 DEF WorkSet
<1>7. ASSUME NEW q, q.at = pos.at + 1, q.step = "node" PROVE DraftFits(q, work')
    BY <1>1, <1>5, <1>6, <1>7 DEF DraftFits, Sound
<1>8. pos.at > 4 /\ usage' \in UsageSet
    BY <1>1, <1>2, Fields
<1>. QED  BY <1>1, <1>2, <1>6, <1>7, <1>8, NodeIsGood

LEMMA PublishStep == IInv /\ PublishDocument => IInv'
<1>. SUFFICES ASSUME IInv, PublishDocument PROVE IInv'
    OBVIOUS
<1>1. At("node") /\ pos.at <= Len(Graph) /\ pos.at > 9
    BY GoFacts DEF PublishDocument
<1>2. Advance /\ UNCHANGED <<case, run, usage, work, loop, leaked>>
      /\ published' = IF published = <<>> THEN work.doc ELSE published
    BY DEF PublishDocument
<1>3. Sound(work.doc)
    BY <1>1, Parts DEF DraftFits
<1>4. published' \in Seq(SceneSet) /\ (published' = <<>> \/ Sound(published'))
    <2>1. published \in Seq(SceneSet) /\ work.doc \in Seq(SceneSet) /\ (published = <<>> \/ Sound(published))
        BY Fields, Parts
    <2>. QED  BY <1>2, <1>3, <2>1
<1>5. ASSUME NEW q, q.at = pos.at + 1, q.step = "node"
      PROVE  Prepared(q, work') /\ LoopFits(q, work', loop) /\ DraftFits(q, work')
    <2>1. pos.at \in Nat /\ work' = work
        BY <1>2, Fields
    <2>2. Prepared(q, work)
        BY <1>1, <1>5, <2>1, Parts DEF Prepared
    <2>3. LoopFits(q, work, loop)
        BY <1>1, <1>5, <2>1, Parts DEF LoopFits, LoopSteps
    <2>4. DraftFits(q, work)
        BY <1>1, <1>5, <2>1, Parts DEF DraftFits
    <2>. QED  BY <2>1, <2>2, <2>3, <2>4
<1>6. usage' \in UsageSet /\ work' \in WorkSet
    BY <1>2, Fields
<1>. QED  BY <1>1, <1>2, <1>4, <1>5, <1>6, AdvanceIsGood

LEMMA FinishStep == IInv /\ Finish => IInv'
<1>. SUFFICES ASSUME IInv, Finish PROVE IInv'
    OBVIOUS
<1>1. PICK status : status = IF work.partial THEN "partial" ELSE "succeeded"
    OBVIOUS
<1>2. /\ run' = [run EXCEPT !.status = status] /\ pos.at > Len(Graph)
      /\ UNCHANGED <<case, usage, pos, work, loop, published, leaked>>
    BY <1>1 DEF Finish
<1>3. run \in RunSet
    BY Fields
<1>4. run' \in RunSet /\ run'.status = status
    BY <1>1, <1>2, <1>3 DEF RunSet, Ended
<1>5. pos.at > 4
    <2>1. PICK n : n = Len(Graph)
        OBVIOUS
    <2>2. n \in {10, 11}
        BY <2>1, Fields, GraphFacts
    <2>3. pos.at \in Nat /\ pos.at > n
        BY <1>2, <2>1, Fields
    <2>. QED  BY ONLY <2>2, <2>3
<1>6. Placed(run', pos', work')
    BY <1>1, <1>2, <1>4, <1>5, Parts DEF Placed
<1>7. Good(run', usage', pos', work', loop', published')
    BY <1>2, <1>4, <1>6, Fields, Parts DEF Good
<1>. QED  BY <1>2, <1>7, Carry

-----------------------------------------------------------------------------
(* The theorems.                                                           *)

LEMMA InitIsGood == Init => IInv
<1>. SUFFICES ASSUME Init PROVE IInv
    OBVIOUS
<1>1. case \in Cases /\ published = <<>> /\ leaked = FALSE
      /\ pos = Fresh /\ work = NoWork /\ loop = NoLoop
    BY DEF Init
<1>2. run \in RunSet /\ run.status = "queued" /\ run.attempt < MaxAttempt
    BY Bounds DEF Init, RunSet
<1>3. usage \in UsageSet
    BY Bounds DEF Init, UsageSet
<1>4. <<>> \in Seq(SceneSet)
    OBVIOUS
<1>5. Good(run, usage, Fresh, NoWork, NoLoop, <<>>)
    BY <1>1, <1>2, <1>3, <1>4, FreshIsGood
<1>. QED  BY <1>1, <1>5 DEF IInv, EgressIsSafe

LEMMA StutterIsGood == IInv /\ UNCHANGED vars => IInv'
<1>. SUFFICES ASSUME IInv, UNCHANGED vars PROVE IInv'
    OBVIOUS
<1>1. UNCHANGED <<case, run, usage, pos, work, loop, published, leaked>>
    BY DEF vars
<1>2. Good(run', usage', pos', work', loop', published')
    BY <1>1 DEF IInv
<1>. QED  BY <1>1, <1>2, Carry

(* The inductive invariant: what the nodes before a position have          *)
(* established in the memory of the attempt, and of the published          *)
(* document what was true of the memory it was taken from.                 *)
THEOREM Invariance == Spec => []IInv
<1>1. IInv /\ [Next]_vars => IInv'
    <2>. SUFFICES ASSUME IInv, [Next]_vars PROVE IInv'
        OBVIOUS
    <2>1. CASE Worker
        BY <2>1, ClaimStep, PassThroughStep, SanitizeStep, StatsStep, BeginLoopStep, NextRoundStep,
           ExhaustStep, RoundWithoutCallStep, RoundStep, MendStep, CloseLoopStep, RepairCoverageStep,
           HighlightsStep, ChaptersStep, ScenesStep, ActionsStep, EnqueueMediaStep, IllustrateStep,
           MediaDoneStep, SafetyReviewStep, PublishStep, FinishStep
           DEF Worker
    <2>2. CASE Requeue \/ Stop \/ ToolRefused
        BY <2>2, EndSteps
    <2>3. CASE UNCHANGED vars
        BY <2>3, StutterIsGood
    <2>. QED  BY <2>1, <2>2, <2>3 DEF Next
<1>. QED  BY <1>1, InitIsGood, PTL DEF Spec

(* Whatever the model answers, drops or repeats: a published scene is not  *)
(* repeated, is harmless and refers only to materials the model was        *)
(* allowed to see, and nothing else goes to the image provider; the model  *)
(* calls and the rounds stay within the frozen policy (evaluate,           *)
(* _is_safe_playback, enqueue_media_tasks).                                *)
THEOREM PlaybackIsSafeAlways == Spec => []PlaybackIsSafe
<1>1. ASSUME IInv PROVE TypeOK
    <2>1. /\ run.status \in {"queued", "running"} \cup Ended /\ run.attempt \in 0 .. MaxAttempt
        BY <1>1, Fields DEF RunSet
    <2>2. usage.text \in 0 .. MaxCalls /\ usage.images \in Nat /\ usage.tokens \in Nat
        BY <1>1, Fields DEF UsageSet
    <2>3. pos.at \in 1 .. Len(Graph) + 1
        BY <1>1, Fields DEF PosSet
    <2>4. loop.cursor \in 0 .. Len(case.snapshot) /\ loop.left \in 0 .. MaxCalls
        BY <1>1, Fields DEF LoopSet
    <2>5. \A s \in Seq(SceneSet) : \A i \in DOMAIN s : s[i] \in SceneSet
        OBVIOUS
    <2>. QED  BY <1>1, <2>1, <2>2, <2>3, <2>4, <2>5, Fields DEF TypeOK
<1>2. ASSUME IInv PROVE PublishedIsGrounded
    <2>1. published = <<>> \/ Sound(published)
        BY <1>2, Parts
    <2>2. CASE published = <<>>
        <3>1. IdsOf(<<>>) = {} /\ DOMAIN <<>> = {} /\ Len(<<>>) = 0
            BY DEF IdsOf
        <3>2. Cardinality({}) = 0
            BY FS_EmptySet
        <3>. QED  BY <2>2, <3>1, <3>2 DEF PublishedIsGrounded
    <2>3. CASE Sound(published)
        BY <1>2, <2>3, Fields, ShareableFacts DEF Sound, Harmless, PublishedIsGrounded
    <2>. QED  BY <2>1, <2>2, <2>3
<1>3. IInv => PlaybackIsSafe
    BY <1>1, <1>2 DEF IInv, PlaybackIsSafe
<1>. QED  BY <1>3, Invariance, PTL

(* From 1.0.5 on a published document is the three base cards or has a     *)
(* scene for every material type of the snapshot between a cover and a     *)
(* summary (finalize_loop, _repair_coverage_gaps, safety_review).          *)
THEOREM PublishedCoversAlways == Spec => []PublishedCovers
<1>1. IInv => PublishedCovers
    <2>. SUFFICES ASSUME IInv, Looped, published # <<>>, published # Base
                  PROVE  /\ SnapshotTypes = TypesOf(RefsOf(published))
                         /\ published[1].kind = "cover" /\ published[Len(published)].kind = "summary"
        BY DEF PublishedCovers, SnapshotTypes
    <2>1. Framed(published) /\ Covering(published)
        BY Parts DEF Sound
    <2>2. TypesOf(RefsOf(published)) \subseteq SnapshotTypes
        BY DEF TypesOf, SnapshotTypes
    <2>. QED  BY <2>1, <2>2 DEF Framed, Covering
<1>. QED  BY <1>1, Invariance, PTL

(* A run that ends as succeeded has put every material with a text before  *)
(* the model in a batch whose answer it took over, unless the material was *)
(* over the token cap; what was skipped or never reached shows as partial  *)
(* (_bounded_loop_outcome, the candidate cursor of 1.0.6).                 *)
THEOREM SucceededReadEverythingAlways == Spec => []SucceededReadEverything
<1>1. IInv => SucceededReadEverything
    <2>. SUFFICES ASSUME IInv, run.status = "succeeded", Looped
                  PROVE  {Texts[i].ref : i \in DOMAIN Texts} \subseteq loop.read \cup loop.dropped
        BY DEF SucceededReadEverything
    <2>1. Texts = TextsOf(work.material)
        BY DEF Texts, TextsOf
    <2>2. RefsAt(work.material, DOMAIN TextsOf(work.material)) \subseteq loop.read \cup loop.dropped
        BY Parts DEF Placed, LoopFits
    <2>. QED  BY <2>1, <2>2 DEF RefsAt
<1>. QED  BY <1>1, Invariance, PTL

=============================================================================
