----------------------------- MODULE PublishNode -----------------------------
(***************************************************************************)
(* The publish_document node of one run: the only step of a memoir run     *)
(* with an effect outside the Runtime.  Every execution attempt of the run *)
(* that reaches the node is a process: it looks for an earlier physical    *)
(* call in the audit table (ToolCallAuditService), asks the business side  *)
(* for its result or records a new call, sends it through ToolGateway and  *)
(* settles the record.  The business side answers from its idempotency     *)
(* record or publishes a revision of the archive.                          *)
(*                                                                         *)
(* A worker's session loads the AgentRun row when a transaction begins and *)
(* does not read it again before the next commit.  `seen' is what it found *)
(* then, and only the clock (`lapsed') is consulted anew: a cancel that    *)
(* arrives while a request is under way is not noticed when its result is  *)
(* settled.  All calls of the node share one logical key and one           *)
(* idempotency key; a document is represented by its digest.               *)
(***************************************************************************)
EXTENDS Integers, Sequences, FiniteSets

CONSTANTS
    MaxAttempt, \* bound on execution attempts
    Docs,       \* digests of the documents an attempt may have computed
    MaxCalls,   \* max_tool_calls of the frozen execution policy
    Faults      \* what the environment may do

AllFaults == {"lapse", "crash", "gate", "drain", "timeout", "disconnect", "lose",
              "unavailable", "supersede", "stale"}

ASSUME PublishAssumption ==
    /\ MaxAttempt \in Nat \ {0}
    /\ Docs # {} /\ "none" \notin Docs   \* a sha256 digest is not the empty mark
    /\ MaxCalls \in Nat \ {0}
    /\ Faults \subseteq AllFaults

None == "none"

\* Execution attempts in the order of their leases.
Attempts == 1..MaxAttempt

Open == {"running", "outcome_unknown", "succeeded"}

CallStatuses == Open \cup {"failed"}

Ended == {"published", "raised", "conflict", "gone"}

Pcs == {"idle", "query", "adopt", "begin", "send", "wait"} \cup Ended

Replies == {"ok", "conflict", "superseded", "refused", "unavailable", "malformed"}

Attempt == [pc : Pcs,
            doc : Docs \cup {None},        \* digest of playback_document
            row : Nat,                     \* the AgentToolCall it works on
            seen : BOOLEAN,                \* the run row as its session loaded it
            known : SUBSET Docs,           \* digests of the calls it read
            count : Nat,                   \* how many calls it read
            got : Replies \cup {None},     \* the answer on the wire
            told : Docs \cup {None}]       \* digest of state.publish_result

Call == [by : Attempts, doc : Docs, status : CallStatuses]

Request == [row : Nat, by : Attempts, doc : Docs, stage : {"sent", "checked"}]

VARIABLES
    token,     \* execution attempt that holds the run
    gate,      \* no cancel, privacy, authorization or package objection
    lapsed,    \* attempts whose lease has run out of time
    draining,  \* the worker has been told to drain
    at,        \* the attempts
    calls,     \* committed AgentToolCalls of the logical key, in id order
    net,       \* requests the business side has not finished
    current,   \* the archive's generation and active run are still this run's
    record,    \* the business side's idempotency record: None or a digest
    revisions  \* digests of the revisions this run has published

vars == <<token, gate, lapsed, draining, at, calls, net, current, record, revisions>>

business == <<net, current, record, revisions>>

context == <<token, gate, lapsed, draining>>

-----------------------------------------------------------------------------

NewAttempt == [pc |-> "idle", doc |-> None, row |-> 0, seen |-> FALSE, known |-> {},
               count |-> 0, got |-> None, told |-> None]

Init ==
    /\ token = 1
    /\ gate = TRUE
    /\ lapsed = {}
    /\ draining = FALSE
    /\ at = [p \in Attempts |-> NewAttempt]
    /\ calls = <<>>
    /\ net = {}
    /\ current = TRUE
    /\ record = None
    /\ revisions = <<>>

\* What a session that loads the run row now finds.
Holds(p) == gate /\ token = p

\* LeaseService.can_write on the loaded row: the clock is the only fresh input.
CanWrite(p) == at[p].seen /\ p \notin lapsed

\* ToolGateway._call before each physical send: authorization, execution
\* boundary, deadline and lease.  Draining is checked by the sender.
Permitted(p) == CanWrite(p)

Move(p, pc) == at' = [at EXCEPT ![p].pc = pc]

\* _persist_result: a late settlement is dropped and the row stays as it is.
Settle(p, status) ==
    calls' = IF CanWrite(p) THEN [calls EXCEPT ![at[p].row].status = status] ELSE calls

-----------------------------------------------------------------------------
(* The node *)

\* (mutant) A call that is still running is not looked for.
CommittedSettled == {i \in DOMAIN calls : calls[i].status \in {"outcome_unknown", "succeeded"}}

\* find_publish_attempt: calls that may have had their effect, by logical key only.
Committed == {i \in DOMAIN calls : calls[i].status \in Open}

\* Entry of the node: one snapshot of the run row and the audit table.
Look(p) ==
    /\ at[p].pc = "idle" /\ p <= token
    /\ \E d \in Docs :
        at' = [at EXCEPT ![p] =
            [@ EXCEPT !.pc = IF Committed # {} THEN "query" ELSE "begin",
                      !.doc = d,
                      !.row = IF Committed # {}
                              THEN CHOOSE i \in Committed : \A j \in Committed : j <= i
                              ELSE 0,
                      !.seen = Holds(p),
                      !.known = {calls[i].doc : i \in DOMAIN calls},
                      !.count = Len(calls)]]
    /\ UNCHANGED <<context, calls, business>>

\* (mutant) An unobserved publication is taken for a published one.
QueryOptimistic(p) ==
    /\ at[p].pc = "query"
    /\ at' = [at EXCEPT ![p].pc = "adopt", ![p].told = at[p].doc]
    /\ UNCHANGED <<context, calls, business>>

\* get_publish_result for a call that may be committed.  Draining does not stop it.
\* Without a record, with a refused or failed request the node raises.
Query(p) ==
    /\ at[p].pc = "query"
    /\ \/ /\ Permitted(p) /\ record # None
          /\ at' = [at EXCEPT ![p].pc = "adopt", ![p].told = record]
       \/ /\ ~Permitted(p) \/ record = None \/ Faults \cap {"timeout", "disconnect"} # {}
          /\ Move(p, "raised")
    /\ UNCHANGED <<context, calls, business>>

\* The query's result is written to the earlier call and becomes the node's result.
Adopt(p) ==
    /\ at[p].pc = "adopt"
    /\ Settle(p, "succeeded")
    /\ Move(p, IF CanWrite(p) THEN "published" ELSE "raised")
    /\ UNCHANGED <<context, business>>

\* begin_publish: write gate, tool budget, digest conflict, running row; committed
\* before the request is sent.
Begin(p) ==
    /\ at[p].pc = "begin"
    /\ \/ /\ ~CanWrite(p) \/ at[p].count + 1 > MaxCalls
          /\ Move(p, "raised")
          /\ UNCHANGED calls
       \/ /\ CanWrite(p) /\ at[p].count + 1 <= MaxCalls
          /\ ~(at[p].known \subseteq {at[p].doc})
          /\ Move(p, "conflict")
          /\ UNCHANGED calls
       \/ /\ CanWrite(p) /\ at[p].count + 1 <= MaxCalls
          /\ at[p].known \subseteq {at[p].doc}
          /\ calls' = Append(calls, [by |-> p, doc |-> at[p].doc, status |-> "running"])
          /\ at' = [at EXCEPT ![p].pc = "send", ![p].row = Len(calls) + 1]
    /\ UNCHANGED <<context, business>>

\* ToolGateway._call, first half: begin_publish has committed, so the run row is
\* loaded again.  A refusal is settled as a failed call.
Send(p) ==
    /\ at[p].pc = "send"
    /\ \/ /\ Holds(p) /\ p \notin lapsed /\ ~draining
          /\ at' = [at EXCEPT ![p].pc = "wait", ![p].seen = TRUE]
          /\ net' = net \cup {[row |-> at[p].row, by |-> p, doc |-> at[p].doc, stage |-> "sent"]}
          /\ UNCHANGED calls
       \/ /\ ~(Holds(p) /\ p \notin lapsed /\ ~draining)
          /\ at' = [at EXCEPT ![p].pc = "raised", ![p].seen = Holds(p)]
          /\ calls' = IF Holds(p) /\ p \notin lapsed
                      THEN [calls EXCEPT ![at[p].row].status = "failed"] ELSE calls
          /\ UNCHANGED net
    /\ UNCHANGED <<context, current, record, revisions>>

\* The answer arrives: success, a contract ToolError, or anything else (ValueError).
\* The branch for IDEMPOTENCY_CONFLICT, which compares the recorded digest, is left out:
\* KeyIsNotReused says that no attempt gets there.
Receive(p) ==
    /\ at[p].pc = "wait" /\ at[p].got # None
    /\ \/ /\ at[p].got = "ok"
          /\ Settle(p, "succeeded")
          /\ at' = [at EXCEPT ![p].pc = IF CanWrite(p) THEN "published" ELSE "raised",
                              ![p].told = IF CanWrite(p) THEN record ELSE None]
       \/ /\ at[p].got \notin {"ok", "conflict"}
          /\ Settle(p, "failed")
          /\ Move(p, "raised")
    /\ UNCHANGED <<context, business>>

\* httpx.TimeoutException: nobody knows, the request may still be processed.
TimesOut(p) ==
    /\ "timeout" \in Faults
    /\ at[p].pc = "wait"
    /\ Settle(p, "outcome_unknown")
    /\ Move(p, "raised")
    /\ UNCHANGED <<context, business>>

\* Any other transport error falls into `except Exception' and is settled as failed,
\* although the request may still be processed.
Disconnects(p) ==
    /\ "disconnect" \in Faults
    /\ at[p].pc = "wait"
    /\ Settle(p, "failed")
    /\ Move(p, "raised")
    /\ UNCHANGED <<context, business>>

-----------------------------------------------------------------------------
(* The business side *)

Answer(q, kind) ==
    at' = IF at[q.by].pc = "wait" /\ at[q.by].row = q.row
          THEN [at EXCEPT ![q.by].got = kind] ELSE at

\* IdempotencyService.replay by key; a different request body is a conflict.
Replay(q) ==
    /\ q \in net /\ q.stage = "sent"
    /\ \/ /\ record # None
          /\ net' = net \ {q}
          /\ Answer(q, IF record = q.doc THEN "ok" ELSE "conflict")
       \/ /\ record = None
          /\ net' = (net \ {q}) \cup {[q EXCEPT !.stage = "checked"]}
          /\ UNCHANGED at
    /\ UNCHANGED <<context, calls, current, record, revisions>>

\* (mutant) No unique idempotency record ends the transaction of the second request.
PublishRevisionTwice(q) ==
    /\ q \in net /\ q.stage = "checked" /\ current
    /\ net' = net \ {q}
    /\ record' = q.doc
    /\ revisions' = Append(revisions, q.doc)
    /\ Answer(q, "ok")
    /\ UNCHANGED <<context, calls, current>>

\* authorize_runtime, publish_playback_document under the archive's lock, store of the
\* idempotency record; one transaction, which its unique key rolls back as a whole.
PublishRevision(q) ==
    /\ q \in net /\ q.stage = "checked"
    /\ net' = net \ {q}
    /\ \/ /\ current /\ record = None
          /\ record' = q.doc
          /\ revisions' = Append(revisions, q.doc)
          /\ Answer(q, "ok")
       \/ /\ current /\ record # None
          /\ Answer(q, "malformed")
          /\ UNCHANGED <<record, revisions>>
       \/ /\ ~current
          /\ \E kind \in {"superseded", "refused", "malformed"} : Answer(q, kind)
          /\ UNCHANGED <<record, revisions>>
    /\ UNCHANGED <<context, calls, current>>

\* RUNTIME_SERVICE_UNAVAILABLE or an invalid document: nothing has happened.
Refuse(q) ==
    /\ "unavailable" \in Faults
    /\ q \in net
    /\ net' = net \ {q}
    /\ \E kind \in {"unavailable", "refused"} : Answer(q, kind)
    /\ UNCHANGED <<context, calls, current, record, revisions>>

\* The request never arrives.
RequestLost(q) ==
    /\ "lose" \in Faults
    /\ q \in net /\ q.stage = "sent"
    /\ net' = net \ {q}
    /\ UNCHANGED <<context, at, calls, current, record, revisions>>

\* A new generation or a deletion: generation_epoch and active_run_id move on.
Supersede ==
    /\ "supersede" \in Faults
    /\ current
    /\ current' = FALSE
    /\ UNCHANGED <<context, at, calls, net, record, revisions>>

-----------------------------------------------------------------------------
(* Reconciler, leases and crashes *)

\* _mark_stale_tool_calls_unknown: running for more than five minutes.
MarkStale(i) ==
    /\ "stale" \in Faults
    /\ i \in DOMAIN calls /\ calls[i].status = "running"
    /\ calls' = [calls EXCEPT ![i].status = "outcome_unknown"]
    /\ UNCHANGED <<context, at, business>>

LeaseLapses(p) ==
    /\ "lapse" \in Faults
    /\ p <= token /\ p \notin lapsed
    /\ lapsed' = lapsed \cup {p}
    /\ UNCHANGED <<token, gate, draining, at, calls, business>>

\* The run is claimed again: after the reaper or after a retry of the failed run.
TakeOver ==
    /\ token + 1 \in Attempts
    /\ gate
    /\ token \in lapsed \/ at[token].pc \in {"raised", "conflict"}
    /\ token' = token + 1
    /\ UNCHANGED <<gate, lapsed, draining, at, calls, business>>

CloseGate ==
    /\ "gate" \in Faults /\ gate
    /\ gate' = FALSE
    /\ UNCHANGED <<token, lapsed, draining, at, calls, business>>

Drain ==
    /\ "drain" \in Faults /\ ~draining
    /\ draining' = TRUE
    /\ UNCHANGED <<token, gate, lapsed, at, calls, business>>

Crash(p) ==
    /\ "crash" \in Faults
    /\ at[p].pc \notin Ended \cup {"idle"}
    /\ Move(p, "gone")
    /\ UNCHANGED <<context, calls, business>>

-----------------------------------------------------------------------------

Node(p) ==
    \/ Look(p) \/ Query(p) \/ Adopt(p) \/ Begin(p) \/ Send(p) \/ Receive(p)
    \/ TimesOut(p) \/ Disconnects(p)

Business(q) == Replay(q) \/ PublishRevision(q) \/ Refuse(q) \/ RequestLost(q)

Environment ==
    \/ Supersede \/ TakeOver \/ CloseGate \/ Drain
    \/ \E p \in Attempts : LeaseLapses(p) \/ Crash(p)
    \/ \E i \in DOMAIN calls : MarkStale(i)

Next ==
    \/ \E p \in Attempts : Node(p)
    \/ \E q \in net : Business(q)
    \/ Environment

Spec == Init /\ [][Next]_vars

-----------------------------------------------------------------------------

\* The shape of the state.
TypeOK ==
    /\ token \in Attempts
    /\ gate \in BOOLEAN /\ draining \in BOOLEAN /\ current \in BOOLEAN
    /\ lapsed \subseteq Attempts
    /\ at \in [Attempts -> Attempt]
    /\ calls \in Seq(Call)
    /\ net \subseteq Request
    /\ record \in Docs \cup {None}
    /\ revisions \in Seq(Docs)

\* However often attempts are taken over, answers are lost and calls are wrongly
\* settled as failed, the run publishes at most one revision of the archive
\* (runner.publish_document with memory_tools_api.publish_playback_document).
PublishedOnce == Len(revisions) <= 1

\* The audit's promise of query-after-commit: of all physical calls of the logical key
\* at most one is not known to have failed, so no call is ever sent while the outcome of
\* another one is open (find_publish_attempt, _begin, can_write on an outdated row).
OneOpenCall ==
    \A i, j \in DOMAIN calls : i # j => "failed" \in {calls[i].status, calls[j].status}

\* No request under the logical key, however late it arrives, carries another document
\* than the one that was published under it: the digest check of _begin keeps the
\* business side's IDEMPOTENCY_CONFLICT from ever being answered (_begin, replay).
KeyIsNotReused == \A q \in net : record \in {None, q.doc}

\* The audit's rows are well formed, leave at most one call open and keep the key to
\* one document (ToolCallAuditService).
AuditIsSound == TypeOK /\ OneOpenCall /\ KeyIsNotReused

\* What an attempt reports as its publish_result, and what the audit records as
\* succeeded, is the revision the archive has: never one that was not observed, and
\* never another document's (runner.py, adoption branch).
ReportedIsPublished ==
    /\ \A p \in Attempts : at[p].pc = "published" => revisions = <<at[p].told>>
    /\ \A i \in DOMAIN calls : calls[i].status = "succeeded" => revisions # <<>>

=============================================================================
