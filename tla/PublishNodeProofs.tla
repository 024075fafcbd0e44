-------------------------- MODULE PublishNodeProofs --------------------------
(***************************************************************************)
(* Theorems about PublishNode, for every number of execution attempts,     *)
(* every set of documents, every tool budget and every choice of faults.   *)
(*                                                                         *)
(* The argument: only one attempt can write the audit table at a time,     *)
(* because the run row a session loaded is current as long as the lease it *)
(* shows has not run out (WriterHolds).  What this attempt has read of the *)
(* table is therefore still true when it writes (HolderIsCurrent), so a    *)
(* call is recorded only after all earlier ones have failed and only for   *)
(* the document they carried (OneOpenCall, OneDocument).  The business     *)
(* side's unique record does the rest.                                     *)
(***************************************************************************)
EXTENDS PublishNode, TLAPS, SequenceTheorems

-----------------------------------------------------------------------------
(* The inductive invariant. *)

\* The attempts that may still write.
Working == {"query", "adopt", "begin", "send", "wait"}

\* The attempts that work on a row of the audit table.
OnRow == {"query", "adopt", "send", "wait"}

\* The idempotency record and the archive's revisions are one transaction.
RecordedOnce == revisions = IF record = None THEN <<>> ELSE <<record>>

\* Who reports a publication has seen the record.
ReportsAreSeen ==
    /\ \A p \in Attempts :
         /\ at[p].pc \in {"adopt", "published"} => record # None /\ at[p].told = record
         /\ at[p].got = "ok" => record # None
    /\ \A i \in DOMAIN calls : calls[i].status = "succeeded" => record # None

\* An attempt at work has its document; one that has a row has one of the table, and
\* sends what the row says.
RowsExist ==
    \A p \in Attempts :
        /\ at[p].pc \in Working => at[p].doc \in Docs
        /\ at[p].pc \in OnRow => at[p].row \in DOMAIN calls
        /\ at[p].pc \in {"send", "wait"} => calls[at[p].row].doc = at[p].doc

\* A session whose loaded row and clock let it write belongs to the holder.
WriterHolds ==
    \A p \in Attempts :
        /\ at[p].pc \in Working /\ at[p].seen /\ p \notin lapsed => p = token
        /\ p > token => at[p].pc = "idle"

\* What the holder has read of the table is what the table says.
HolderIsCurrent ==
    /\ at[token].pc = "begin" =>
         \A i \in DOMAIN calls : calls[i].status = "failed" /\ calls[i].doc \in at[token].known
    /\ at[token].pc \in OnRow => calls[at[token].row].status \in Open

\* Calls, requests and record of the logical key are about one document.
OneDocument ==
    /\ \A i, j \in DOMAIN calls : calls[i].doc = calls[j].doc
    /\ \A q \in net : q.row \in DOMAIN calls /\ calls[q.row].doc = q.doc
    /\ record # None => calls # <<>> /\ \A i \in DOMAIN calls : calls[i].doc = record

IInv ==
    /\ TypeOK /\ RecordedOnce /\ ReportsAreSeen /\ RowsExist
    /\ WriterHolds /\ HolderIsCurrent /\ OneDocument /\ OneOpenCall

-----------------------------------------------------------------------------
(* What the operators on the table and on the attempts return. *)

\* Changing the status of a row keeps its document, and the other rows.
LEMMA SetStatus ==
    ASSUME calls \in Seq(Call), NEW i \in DOMAIN calls, NEW s \in CallStatuses,
           NEW c, c = [calls EXCEPT ![i].status = s]
    PROVE  /\ c \in Seq(Call) /\ DOMAIN c = DOMAIN calls /\ c # <<>>
           /\ \A j \in DOMAIN calls : c[j].doc = calls[j].doc
           /\ \A j \in DOMAIN calls : c[j].status = IF j = i THEN s ELSE calls[j].status
<1>0. calls[i] \in Call
  OBVIOUS
<1>1. calls[i] \in Call /\ [calls[i] EXCEPT !.status = s] \in Call
  BY <1>0 DEF Call
<1>2. c = [calls EXCEPT ![i] = [calls[i] EXCEPT !.status = s]]
  OBVIOUS
<1>3. c \in Seq(Call) /\ Len(c) = Len(calls)
  BY <1>1, <1>2, ExceptSeq
<1>4. DOMAIN c = DOMAIN calls
  BY <1>2
<1>5. c # <<>>
  BY <1>4
<1>6. \A j \in DOMAIN calls : c[j] = IF j = i THEN [calls[i] EXCEPT !.status = s] ELSE calls[j]
  BY <1>2
<1>7. \A j \in DOMAIN calls : calls[j] \in Call
  OBVIOUS
<1>8. /\ \A j \in DOMAIN calls : c[j].doc = calls[j].doc
      /\ \A j \in DOMAIN calls : c[j].status = IF j = i THEN s ELSE calls[j].status
  BY <1>1, <1>6, <1>7 DEF Call
<1> QED
  BY <1>3, <1>4, <1>5, <1>8

\* A new row comes after the others.
LEMMA AppendCall ==
    ASSUME calls \in Seq(Call), NEW r \in Call, NEW c, c = Append(calls, r)
    PROVE  /\ c \in Seq(Call) /\ c # <<>>
           /\ DOMAIN c = DOMAIN calls \cup {Len(calls) + 1}
           /\ Len(calls) + 1 \in Nat /\ Len(calls) + 1 \notin DOMAIN calls
           /\ \A j \in DOMAIN calls : c[j] = calls[j]
           /\ c[Len(calls) + 1] = r
<1>1. /\ c \in Seq(Call) /\ Len(c) = Len(calls) + 1 /\ Len(calls) \in Nat
      /\ \A j \in 1..Len(calls) : c[j] = calls[j]
      /\ c[Len(calls) + 1] = r
  BY AppendProperties
<1>2. DOMAIN c = 1..Len(c) /\ DOMAIN calls = 1..Len(calls)
  BY <1>1, LenProperties
<1> QED
  BY <1>1, <1>2

\* Only the program counter of one attempt moves.
LEMMA MoveEffect ==
    ASSUME TypeOK, NEW p \in Attempts, NEW x \in Pcs, Move(p, x)
    PROVE  /\ at' \in [Attempts -> Attempt]
           /\ at'[p] = [at[p] EXCEPT !.pc = x]
           /\ \A q \in Attempts : q # p => at'[q] = at[q]
           /\ \A q \in Attempts : /\ at'[q].pc = IF q = p THEN x ELSE at[q].pc
                                  /\ at'[q].doc = at[q].doc /\ at'[q].row = at[q].row
                                  /\ at'[q].seen = at[q].seen /\ at'[q].known = at[q].known
                                  /\ at'[q].got = at[q].got /\ at'[q].told = at[q].told
<1>1. at[p] \in Attempt /\ [at[p] EXCEPT !.pc = x] \in Attempt
  BY DEF TypeOK, Attempt
<1>2. at' = [at EXCEPT ![p] = [at[p] EXCEPT !.pc = x]]
  BY DEF Move
<1>3. \A q \in Attempts : at[q] \in Attempt
  BY DEF TypeOK
<1>4. /\ at' \in [Attempts -> Attempt]
      /\ at'[p] = [at[p] EXCEPT !.pc = x]
      /\ \A q \in Attempts : q # p => at'[q] = at[q]
  BY <1>1, <1>2 DEF TypeOK
<1> QED
  BY <1>1, <1>3, <1>4 DEF Attempt

\* The session's settlement: only the holder's is written.
LEMMA SettleEffect ==
    ASSUME IInv, NEW p \in Attempts, at[p].pc \in OnRow, NEW s \in CallStatuses, Settle(p, s)
    PROVE  /\ calls' \in Seq(Call) /\ DOMAIN calls' = DOMAIN calls /\ calls' # <<>>
           /\ \A j \in DOMAIN calls : calls'[j].doc = calls[j].doc
           /\ \A j \in DOMAIN calls :
                calls'[j].status = IF CanWrite(p) /\ j = at[p].row THEN s ELSE calls[j].status
           /\ CanWrite(p) => p = token /\ calls[at[p].row].status \in Open
<1>1. at[p].row \in DOMAIN calls /\ calls \in Seq(Call) /\ calls # <<>>
  BY DEF IInv, RowsExist, TypeOK
<1>2. CanWrite(p) => p = token /\ calls[at[p].row].status \in Open
  BY DEF IInv, WriterHolds, HolderIsCurrent, CanWrite, OnRow, Working
<1>3. CASE CanWrite(p)
  <2>1. calls' = [calls EXCEPT ![at[p].row].status = s]
    BY <1>3 DEF Settle
  <2> QED
    BY <1>1, <1>2, <1>3, <2>1, SetStatus
<1>4. CASE ~CanWrite(p)
  <2>1. calls' = calls
    BY <1>4 DEF Settle
  <2> QED
    BY <1>1, <1>4, <2>1
<1> QED
  BY <1>3, <1>4

-----------------------------------------------------------------------------
(* The steps of the node. *)

\* A settlement ends the attempt; a reported success is the record's.
LEMMA EndsWithSettle ==
    ASSUME IInv, NEW p \in Attempts, at[p].pc \in OnRow,
           NEW s \in CallStatuses, Settle(p, s), s = "succeeded" => record # None,
           at' \in [Attempts -> Attempt],
           \A q \in Attempts : q # p => at'[q] = at[q],
           at'[p].pc \in Ended, at'[p].got = at[p].got,
           at'[p].pc = "published" => record # None /\ at'[p].told = record,
           UNCHANGED <<context, business>>
    PROVE  IInv'
<1> USE DEF IInv
<1>0. UNCHANGED <<token, gate, lapsed, draining, net, current, record, revisions>>
  BY DEF context, business
<1>1. /\ calls' \in Seq(Call) /\ DOMAIN calls' = DOMAIN calls /\ calls' # <<>>
      /\ \A j \in DOMAIN calls : calls'[j].doc = calls[j].doc
      /\ \A j \in DOMAIN calls :
           calls'[j].status = IF CanWrite(p) /\ j = at[p].row THEN s ELSE calls[j].status
      /\ CanWrite(p) => p = token /\ calls[at[p].row].status \in Open
  BY SettleEffect
<1>2. at[p].row \in DOMAIN calls
  BY DEF RowsExist
<1>3. at'[p].pc \notin Working /\ at'[p].pc \notin OnRow /\ at'[p].pc \notin {"adopt", "send", "wait", "begin"}
  BY DEF Ended, Working, OnRow
<1>4. TypeOK'
  BY <1>0, <1>1 DEF TypeOK
<1>5. RecordedOnce'
  BY <1>0 DEF RecordedOnce
<1>6. ReportsAreSeen'
  BY <1>0, <1>1, <1>3 DEF ReportsAreSeen
<1>7. RowsExist'
  BY <1>1, <1>3 DEF RowsExist, OnRow
<1>8. WriterHolds'
  <2>1. ~(p > token)
    BY DEF WriterHolds, OnRow
  <2> QED
    BY <1>0, <1>3, <2>1 DEF WriterHolds
<1>9. HolderIsCurrent'
  <2>1. token \in Attempts
    BY DEF TypeOK
  <2>2. CASE p = token
    BY <1>0, <1>3, <2>2 DEF HolderIsCurrent
  <2>3. CASE p # token
    <3>1. at'[token] = at[token]
      BY <2>1, <2>3
    <3>2. \A j \in DOMAIN calls : calls'[j].status = calls[j].status
      BY <1>1, <2>3
    <3>3. at[token].pc \in OnRow => at[token].row \in DOMAIN calls
      BY <2>1 DEF RowsExist
    <3> QED
      BY <1>0, <1>1, <3>1, <3>2, <3>3 DEF HolderIsCurrent
  <2> QED
    BY <2>2, <2>3
<1>10. OneDocument'
  BY <1>0, <1>1 DEF OneDocument
<1>11. OneOpenCall'
  <2> SUFFICES ASSUME NEW i \in DOMAIN calls, NEW j \in DOMAIN calls, i # j
                 PROVE  "failed" \in {calls'[i].status, calls'[j].status}
    BY <1>1 DEF OneOpenCall
  <2>2. "failed" \in {calls[i].status, calls[j].status}
    BY DEF OneOpenCall
  <2>3. calls[at[p].row].status \in Open => calls[at[p].row].status # "failed"
    BY DEF Open
  <2> QED
    BY <1>1, <2>2, <2>3
<1> QED
  BY <1>4, <1>5, <1>6, <1>7, <1>8, <1>9, <1>10, <1>11

\* The query's answer is adopted.
LEMMA AdoptStep == ASSUME IInv, NEW p \in Attempts, Adopt(p) PROVE IInv'
<1> DEFINE x == IF CanWrite(p) THEN "published" ELSE "raised"
<1>1. at[p].pc = "adopt" /\ Settle(p, "succeeded") /\ Move(p, x) /\ UNCHANGED <<context, business>>
  BY DEF Adopt
<1>2. record # None /\ at[p].told = record
  BY <1>1 DEF IInv, ReportsAreSeen
<1>3. x \in Ended /\ x \in Pcs
  BY DEF Ended, Pcs
<1> HIDE DEF x
<1>4. /\ at' \in [Attempts -> Attempt]
      /\ \A q \in Attempts : q # p => at'[q] = at[q]
      /\ at'[p].pc = x /\ at'[p].got = at[p].got /\ at'[p].told = at[p].told
  BY <1>1, <1>3, MoveEffect DEF IInv
<1>5. "succeeded" \in CallStatuses /\ at[p].pc \in OnRow
  BY <1>1 DEF CallStatuses, Open, OnRow
<1> QED
  BY <1>1, <1>2, <1>3, <1>4, <1>5, EndsWithSettle

\* The caller gives up; nothing is known or the request counts as failed.
LEMMA GivesUp ==
    ASSUME IInv, NEW p \in Attempts, at[p].pc = "wait", NEW s \in {"failed", "outcome_unknown"},
           Settle(p, s), Move(p, "raised"), UNCHANGED <<context, business>>
    PROVE  IInv'
<1>1. "raised" \in Ended /\ "raised" \in Pcs /\ s \in CallStatuses /\ at[p].pc \in OnRow
  BY DEF Ended, Pcs, CallStatuses, Open, OnRow
<1>2. /\ at' \in [Attempts -> Attempt]
      /\ \A q \in Attempts : q # p => at'[q] = at[q]
      /\ at'[p].pc = "raised" /\ at'[p].got = at[p].got
  BY <1>1, MoveEffect DEF IInv
<1> QED
  BY <1>1, <1>2, EndsWithSettle

\* The business side's answer is settled.
LEMMA ReceiveStep == ASSUME IInv, NEW p \in Attempts, Receive(p) PROVE IInv'
<1>1. at[p].pc = "wait" /\ UNCHANGED <<context, business>>
  BY DEF Receive
<1>2. CASE at[p].got \notin {"ok", "conflict"} /\ Settle(p, "failed") /\ Move(p, "raised")
  BY <1>1, <1>2, GivesUp
<1>3. CASE /\ at[p].got = "ok"
           /\ Settle(p, "succeeded")
           /\ at' = [at EXCEPT ![p].pc = IF CanWrite(p) THEN "published" ELSE "raised",
                               ![p].told = IF CanWrite(p) THEN record ELSE None]
  <2>1. record # None
    BY <1>3 DEF IInv, ReportsAreSeen
  <2>2. at[p] \in Attempt /\ record \in Docs \cup {None}
    BY DEF IInv, TypeOK
  <2> DEFINE x == IF CanWrite(p) THEN "published" ELSE "raised"
             d == IF CanWrite(p) THEN record ELSE None
             a == [at[p] EXCEPT !.pc = x, !.told = d]
  <2>3. x \in Ended /\ x \in Pcs /\ (x = "published" => d = record) /\ d \in Docs \cup {None}
    BY <2>2 DEF Ended, Pcs
  <2>4. at' = [at EXCEPT ![p] = a]
    BY <1>3
  <2> HIDE DEF x, d
  <2>5. a \in Attempt /\ a.pc = x /\ a.told = d /\ a.got = at[p].got
    BY <2>2, <2>3 DEF Attempt
  <2> HIDE DEF a
  <2>6. /\ at' \in [Attempts -> Attempt]
        /\ \A q \in Attempts : q # p => at'[q] = at[q]
        /\ at'[p] = a
    BY <2>4, <2>5 DEF IInv, TypeOK
  <2>7. "succeeded" \in CallStatuses /\ at[p].pc \in OnRow
    BY <1>1 DEF CallStatuses, Open, OnRow
  <2> QED
    BY <1>1, <1>3, <2>1, <2>3, <2>5, <2>6, <2>7, EndsWithSettle
<1> QED
  BY <1>2, <1>3 DEF Receive

\* The entry of the node: what the holder reads is what is there.
LEMMA LookStep == ASSUME IInv, NEW p \in Attempts, Look(p) PROVE IInv'
<1> USE DEF IInv
<1>0. UNCHANGED <<token, gate, lapsed, draining, calls, net, current, record, revisions>>
  BY DEF Look, context, business
<1>1. PICK d \in Docs :
        at' = [at EXCEPT ![p] =
            [@ EXCEPT !.pc = IF Committed # {} THEN "query" ELSE "begin",
                      !.doc = d,
                      !.row = IF Committed # {}
                              THEN CHOOSE i \in Committed : \A j \in Committed : j <= i
                              ELSE 0,
                      !.seen = Holds(p),
                      !.known = {calls[i].doc : i \in DOMAIN calls},
                      !.count = Len(calls)]]
  BY DEF Look
<1> DEFINE x == IF Committed # {} THEN "query" ELSE "begin"
           r == IF Committed # {} THEN CHOOSE i \in Committed : \A j \in Committed : j <= i ELSE 0
           k == {calls[i].doc : i \in DOMAIN calls}
           a == [at[p] EXCEPT !.pc = x, !.doc = d, !.row = r, !.seen = Holds(p), !.known = k,
                              !.count = Len(calls)]
<1>2. at[p].pc = "idle" /\ p <= token
  BY DEF Look
<1>3. calls \in Seq(Call) /\ Len(calls) \in Nat /\ DOMAIN calls = 1..Len(calls)
  BY DEF TypeOK
<1>4. k \subseteq Docs
  <2>1. \A i \in DOMAIN calls : calls[i] \in Call
    BY <1>3
  <2> QED
    BY <2>1 DEF Call
<1>5. Committed # {} => r \in Committed
  <2> SUFFICES ASSUME Committed # {} PROVE \E i \in Committed : \A j \in Committed : j <= i
    OBVIOUS
  <2>1. \A i, j \in Committed : i = j
    BY DEF Committed, OneOpenCall, Open
  <2>2. \A i \in Committed : i <= i
    BY <1>3 DEF Committed
  <2> QED
    BY <2>1, <2>2
<1>6. Committed # {} => r \in DOMAIN calls /\ calls[r].status \in Open
  BY <1>5 DEF Committed
<1>7. r \in Nat /\ x \in Pcs /\ Holds(p) \in BOOLEAN
  BY <1>3, <1>6 DEF Pcs, Holds, TypeOK
<1>8. at' = [at EXCEPT ![p] = a]
  BY <1>1
<1>9. (x = "query" /\ Committed # {}) \/ (x = "begin" /\ Committed = {})
  OBVIOUS
<1> HIDE DEF x, r, k
<1>10. at[p] \in Attempt
  BY DEF TypeOK
<1>11. /\ a \in Attempt
       /\ a.pc = x /\ a.doc = d /\ a.row = r /\ a.seen = Holds(p) /\ a.known = k
       /\ a.got = at[p].got
  BY <1>3, <1>4, <1>7, <1>10 DEF Attempt
<1> HIDE DEF a
<1>12. /\ at' \in [Attempts -> Attempt] /\ at'[p] = a
       /\ \A q \in Attempts : q # p => at'[q] = at[q]
  BY <1>8, <1>11 DEF TypeOK
<1>13. TypeOK'
  BY <1>0, <1>12 DEF TypeOK
<1>14. RecordedOnce' /\ OneDocument' /\ OneOpenCall'
  BY <1>0 DEF RecordedOnce, OneDocument, OneOpenCall
<1>15. ReportsAreSeen'
  BY <1>0, <1>9, <1>11, <1>12 DEF ReportsAreSeen
<1>16. RowsExist'
  BY <1>0, <1>6, <1>9, <1>11, <1>12 DEF RowsExist, OnRow
<1>17. WriterHolds'
  <2>1. a.seen => p = token
    BY <1>11 DEF Holds
  <2>2. p \in Int /\ token \in Int /\ ~(p > token)
    BY <1>2, PublishAssumption DEF Attempts, TypeOK
  <2> QED
    BY <1>0, <1>12, <2>1, <2>2 DEF WriterHolds
<1>18. HolderIsCurrent'
  <2>1. \A i \in DOMAIN calls : calls[i] \in Call
    BY <1>3
  <2>2. Committed = {} => \A i \in DOMAIN calls : calls[i].status = "failed"
    BY <2>1 DEF Committed, Call, CallStatuses
  <2>3. \A i \in DOMAIN calls : calls[i].doc \in k
    BY DEF k
  <2>4. token \in Attempts
    BY DEF TypeOK
  <2>5. CASE p = token
    BY <1>0, <1>6, <1>9, <1>11, <1>12, <2>2, <2>3, <2>5 DEF HolderIsCurrent, OnRow
  <2>6. CASE p # token
    BY <1>0, <1>12, <2>4, <2>6 DEF HolderIsCurrent
  <2> QED
    BY <2>5, <2>6
<1> QED
  BY <1>13, <1>14, <1>15, <1>16, <1>17, <1>18

\* get_publish_result: the recorded document, or the node raises.
LEMMA QueryStep == ASSUME IInv, NEW p \in Attempts, Query(p) PROVE IInv'
<1> USE DEF IInv
<1>0. UNCHANGED <<token, gate, lapsed, draining, calls, net, current, record, revisions>>
  BY DEF Query, context, business
<1>1. at[p].pc = "query" /\ at[p] \in Attempt
  BY DEF Query, TypeOK
<1>2. /\ at' \in [Attempts -> Attempt]
      /\ \A q \in Attempts : q # p => at'[q] = at[q]
      /\ at'[p].row = at[p].row /\ at'[p].doc = at[p].doc
      /\ at'[p].seen = at[p].seen /\ at'[p].got = at[p].got
      /\ \/ at'[p].pc = "adopt" /\ record # None /\ at'[p].told = record
         \/ at'[p].pc = "raised"
  <2>1. CASE record # None /\ at' = [at EXCEPT ![p].pc = "adopt", ![p].told = record]
    <3>1. at' = [at EXCEPT ![p] = [at[p] EXCEPT !.pc = "adopt", !.told = record]]
      BY <2>1
    <3>2. [at[p] EXCEPT !.pc = "adopt", !.told = record] \in Attempt
      BY <1>1 DEF TypeOK, Attempt, Pcs
    <3> QED
      BY <1>1, <2>1, <3>1, <3>2 DEF TypeOK, Attempt
  <2>2. CASE Move(p, "raised")
    <3>1. "raised" \in Pcs
      BY DEF Pcs, Ended
    <3> QED
      BY <2>2, <3>1, MoveEffect
  <2> QED
    BY <2>1, <2>2 DEF Query
<1>3. TypeOK'
  BY <1>0, <1>2 DEF TypeOK
<1>4. RecordedOnce' /\ OneDocument' /\ OneOpenCall'
  BY <1>0 DEF RecordedOnce, OneDocument, OneOpenCall
<1>5. ReportsAreSeen'
  BY <1>0, <1>2 DEF ReportsAreSeen
<1>6. RowsExist'
  BY <1>0, <1>1, <1>2 DEF RowsExist, OnRow, Working
<1>7. WriterHolds'
  BY <1>0, <1>1, <1>2 DEF WriterHolds, Working
<1>8. HolderIsCurrent'
  BY <1>0, <1>1, <1>2 DEF HolderIsCurrent, OnRow, TypeOK
<1> QED
  BY <1>3, <1>4, <1>5, <1>6, <1>7, <1>8

\* An attempt that gives up without touching the table.
LEMMA LeavesQuietly ==
    ASSUME IInv, NEW p \in Attempts, at[p].pc \in Working, NEW x \in {"raised", "conflict", "gone"},
           Move(p, x), UNCHANGED <<context, calls, business>>
    PROVE  IInv'
<1> USE DEF IInv
<1>0. UNCHANGED <<token, gate, lapsed, draining, calls, net, current, record, revisions>>
  BY DEF context, business
<1>1. x \in Pcs /\ x \notin Working /\ x \notin OnRow /\ x \notin {"adopt", "send", "wait", "begin", "published"}
  BY DEF Pcs, Ended, Working, OnRow
<1>2. /\ at' \in [Attempts -> Attempt]
      /\ \A q \in Attempts : q # p => at'[q] = at[q]
      /\ at'[p].pc = x /\ at'[p].got = at[p].got
  BY <1>1, MoveEffect
<1>3. TypeOK'
  BY <1>0, <1>2 DEF TypeOK
<1>4. RecordedOnce' /\ OneDocument' /\ OneOpenCall'
  BY <1>0 DEF RecordedOnce, OneDocument, OneOpenCall
<1>5. ReportsAreSeen'
  BY <1>0, <1>1, <1>2 DEF ReportsAreSeen
<1>6. RowsExist'
  BY <1>0, <1>1, <1>2 DEF RowsExist
<1>7. WriterHolds'
  <2>1. ~(p > token)
    BY DEF WriterHolds, Working
  <2> QED
    BY <1>0, <1>1, <1>2, <2>1 DEF WriterHolds
<1>8. HolderIsCurrent'
  BY <1>0, <1>1, <1>2 DEF HolderIsCurrent, TypeOK
<1> QED
  BY <1>3, <1>4, <1>5, <1>6, <1>7, <1>8

\* begin_publish: the holder appends a running row for the one document.
LEMMA BeginStep == ASSUME IInv, NEW p \in Attempts, Begin(p) PROVE IInv'
<1> USE DEF IInv
<1>1. at[p].pc = "begin" /\ at[p].pc \in Working /\ UNCHANGED <<context, business>>
  BY DEF Begin, Working
<1>2. CASE UNCHANGED calls /\ (Move(p, "raised") \/ Move(p, "conflict"))
  BY <1>1, <1>2, LeavesQuietly
<1>3. CASE /\ CanWrite(p) /\ at[p].known \subseteq {at[p].doc}
           /\ calls' = Append(calls, [by |-> p, doc |-> at[p].doc, status |-> "running"])
           /\ at' = [at EXCEPT ![p].pc = "send", ![p].row = Len(calls) + 1]
  <2>0. UNCHANGED <<token, gate, lapsed, draining, net, current, record, revisions>>
    BY <1>1 DEF context, business
  <2>1. p = token
    BY <1>1, <1>3 DEF WriterHolds, CanWrite
  <2>2. \A i \in DOMAIN calls : calls[i].status = "failed" /\ calls[i].doc = at[p].doc
    BY <1>1, <1>3, <2>1 DEF HolderIsCurrent
  <2>3. at[p] \in Attempt /\ calls \in Seq(Call)
    BY DEF TypeOK
  <2>4. at[p].doc \in Docs
    BY <1>1 DEF RowsExist
  <2> DEFINE c == [by |-> p, doc |-> at[p].doc, status |-> "running"]
             n == Len(calls) + 1
             a == [at[p] EXCEPT !.pc = "send", !.row = n]
  <2>5. c \in Call /\ c.doc = at[p].doc /\ c.status = "running"
    BY <2>4 DEF Call, CallStatuses, Open
  <2>6. calls' = Append(calls, c) /\ at' = [at EXCEPT ![p] = a]
    BY <1>3
  <2> HIDE DEF c
  <2>7. /\ calls' \in Seq(Call) /\ calls' # <<>> /\ DOMAIN calls' = DOMAIN calls \cup {n}
        /\ n \in Nat /\ n \notin DOMAIN calls
        /\ \A j \in DOMAIN calls : calls'[j] = calls[j]
        /\ calls'[n] = c
    BY <2>3, <2>5, <2>6, AppendCall
  <2> HIDE DEF n
  <2>8. a \in Attempt /\ a.pc = "send" /\ a.row = n /\ a.doc = at[p].doc /\ a.seen = at[p].seen /\ a.got = at[p].got
    BY <2>3, <2>7 DEF Attempt, Pcs
  <2> HIDE DEF a
  <2>9. /\ at' \in [Attempts -> Attempt] /\ at'[p] = a
        /\ \A q \in Attempts : q # p => at'[q] = at[q]
    BY <2>6, <2>8 DEF TypeOK
  <2>10. TypeOK'
    BY <2>0, <2>7, <2>9 DEF TypeOK
  <2>11. RecordedOnce'
    BY <2>0 DEF RecordedOnce
  <2>12. ReportsAreSeen'
    BY <2>0, <2>5, <2>7, <2>8, <2>9 DEF ReportsAreSeen
  <2>13. RowsExist'
    BY <2>4, <2>5, <2>7, <2>8, <2>9 DEF RowsExist, OnRow
  <2>14. WriterHolds'
    BY <1>1, <2>0, <2>8, <2>9 DEF WriterHolds
  <2>15. HolderIsCurrent'
    BY <2>0, <2>1, <2>5, <2>7, <2>8, <2>9 DEF HolderIsCurrent, Open
  <2>16. OneDocument'
    <3>1. \A i, j \in DOMAIN calls' : calls'[i].doc = calls'[j].doc
      BY <2>2, <2>5, <2>7
    <3>2. \A q \in net' : q.row \in DOMAIN calls' /\ calls'[q.row].doc = q.doc
      BY <2>0, <2>7 DEF OneDocument
    <3>3. record' # None => \A i \in DOMAIN calls' : calls'[i].doc = record'
      <4>1. record # None => \E i \in DOMAIN calls : calls[i].doc = record
        BY <2>3 DEF OneDocument
      <4> QED
        BY <2>0, <2>2, <2>5, <2>7, <4>1
    <3> QED
      BY <2>7, <3>1, <3>2, <3>3 DEF OneDocument
  <2>17. OneOpenCall'
    BY <2>2, <2>7 DEF OneOpenCall
  <2> QED
    BY <2>10, <2>11, <2>12, <2>13, <2>14, <2>15, <2>16, <2>17
<1> QED
  BY <1>1, <1>2, <1>3 DEF Begin

\* ToolGateway._call: the request leaves with the holder's authority, or its call
\* is settled as failed.
LEMMA SendStep == ASSUME IInv, NEW p \in Attempts, Send(p) PROVE IInv'
<1> USE DEF IInv
<1>0. UNCHANGED <<token, gate, lapsed, draining, current, record, revisions>>
  BY DEF Send, context
<1>1. /\ at[p].pc = "send" /\ at[p] \in Attempt
      /\ at[p].row \in DOMAIN calls /\ calls[at[p].row].doc = at[p].doc /\ at[p].doc \in Docs
  BY DEF Send, TypeOK, RowsExist, OnRow, Working
<1>2. calls \in Seq(Call) /\ token \in Attempts
  BY DEF TypeOK
<1>3. CASE /\ Holds(p)
           /\ at' = [at EXCEPT ![p].pc = "wait", ![p].seen = TRUE]
           /\ net' = net \cup {[row |-> at[p].row, by |-> p, doc |-> at[p].doc, stage |-> "sent"]}
           /\ UNCHANGED calls
  <2> DEFINE a == [at[p] EXCEPT !.pc = "wait", !.seen = TRUE]
             m == [row |-> at[p].row, by |-> p, doc |-> at[p].doc, stage |-> "sent"]
  <2>1. p = token
    BY <1>3 DEF Holds
  <2>2. /\ a \in Attempt /\ a.pc = "wait" /\ a.row = at[p].row /\ a.doc = at[p].doc
        /\ a.seen = TRUE /\ a.got = at[p].got
    BY <1>1 DEF Attempt, Pcs
  <2>3. m \in Request /\ m.row = at[p].row /\ m.doc = at[p].doc
    BY <1>1 DEF Request, Attempt
  <2>4. at' = [at EXCEPT ![p] = a] /\ net' = net \cup {m} /\ calls' = calls
    BY <1>3
  <2> HIDE DEF a, m
  <2>5. /\ at' \in [Attempts -> Attempt] /\ at'[p] = a
        /\ \A q \in Attempts : q # p => at'[q] = at[q]
    BY <2>2, <2>4 DEF TypeOK
  <2>6. TypeOK'
    BY <1>0, <2>3, <2>4, <2>5 DEF TypeOK
  <2>7. RecordedOnce' /\ OneOpenCall'
    BY <1>0, <2>4 DEF RecordedOnce, OneOpenCall
  <2>8. ReportsAreSeen'
    BY <1>0, <2>2, <2>4, <2>5 DEF ReportsAreSeen
  <2>9. RowsExist'
    BY <1>1, <2>2, <2>4, <2>5 DEF RowsExist
  <2>10. WriterHolds'
    BY <1>0, <1>1, <2>1, <2>2, <2>5 DEF WriterHolds
  <2>11. HolderIsCurrent'
    BY <1>0, <1>1, <2>1, <2>2, <2>4, <2>5 DEF HolderIsCurrent, OnRow
  <2>12. OneDocument'
    BY <1>0, <1>1, <2>3, <2>4 DEF OneDocument
  <2> QED
    BY <2>6, <2>7, <2>8, <2>9, <2>10, <2>11, <2>12
<1>4. CASE /\ at' = [at EXCEPT ![p].pc = "raised", ![p].seen = Holds(p)]
           /\ calls' = IF Holds(p) /\ p \notin lapsed
                       THEN [calls EXCEPT ![at[p].row].status = "failed"] ELSE calls
           /\ UNCHANGED net
  <2> DEFINE a == [at[p] EXCEPT !.pc = "raised", !.seen = Holds(p)]
  <2>0. Holds(p) \in BOOLEAN
    BY DEF TypeOK, Holds
  <2>1. a \in Attempt /\ a.pc = "raised" /\ a.got = at[p].got
    BY <1>1, <2>0 DEF Attempt, Pcs, Ended
  <2>2. at' = [at EXCEPT ![p] = a] /\ net' = net
    BY <1>4
  <2> HIDE DEF a
  <2>3. /\ at' \in [Attempts -> Attempt] /\ at'[p] = a
        /\ \A q \in Attempts : q # p => at'[q] = at[q]
    BY <2>1, <2>2 DEF TypeOK
  <2>4. /\ calls' \in Seq(Call) /\ DOMAIN calls' = DOMAIN calls /\ calls' # <<>>
        /\ \A j \in DOMAIN calls : calls'[j].doc = calls[j].doc
        /\ \A j \in DOMAIN calls :
             calls'[j].status = calls[j].status \/ (p = token /\ calls'[j].status = "failed")
    <3>1. CASE Holds(p) /\ p \notin lapsed
      <4>1. "failed" \in CallStatuses /\ p = token
        BY <3>1 DEF CallStatuses, Holds
      <4> QED
        BY <1>1, <1>2, <1>4, <3>1, <4>1, SetStatus
    <3>2. CASE ~(Holds(p) /\ p \notin lapsed)
      BY <1>1, <1>2, <1>4, <3>2
    <3> QED
      BY <3>1, <3>2
  <2>5. TypeOK'
    BY <1>0, <2>2, <2>3, <2>4 DEF TypeOK
  <2>6. RecordedOnce'
    BY <1>0 DEF RecordedOnce
  <2>7. ReportsAreSeen'
    BY <1>0, <2>1, <2>3, <2>4 DEF ReportsAreSeen
  <2>8. RowsExist'
    BY <2>1, <2>3, <2>4 DEF RowsExist, OnRow, Working
  <2>9. WriterHolds'
    <3>1. ~(p > token)
      BY <1>1 DEF WriterHolds
    <3> QED
      BY <1>0, <2>1, <2>3, <3>1 DEF WriterHolds, Working
  <2>10. HolderIsCurrent'
    <3>1. CASE p = token
      BY <1>0, <2>1, <2>3, <3>1 DEF HolderIsCurrent, OnRow
    <3>2. CASE p # token
      <4>1. at'[token] = at[token]
        BY <1>2, <2>3, <3>2
      <4>2. at[token].pc \in OnRow => at[token].row \in DOMAIN calls
        BY <1>2 DEF RowsExist
      <4> QED
        BY <1>0, <2>4, <3>2, <4>1, <4>2 DEF HolderIsCurrent
    <3> QED
      BY <3>1, <3>2
  <2>11. OneDocument'
    BY <1>0, <2>2, <2>4 DEF OneDocument
  <2>12. OneOpenCall'
    BY <2>4 DEF OneOpenCall
  <2> QED
    BY <2>5, <2>6, <2>7, <2>8, <2>9, <2>10, <2>11, <2>12
<1> QED
  BY <1>3, <1>4 DEF Send

-----------------------------------------------------------------------------
(* The steps of the business side. *)

\* The attempts differ at most in the answer that has reached them.
Untouched ==
    \A p \in Attempts :
        /\ at'[p].pc = at[p].pc /\ at'[p].doc = at[p].doc /\ at'[p].row = at[p].row
        /\ at'[p].seen = at[p].seen /\ at'[p].known = at[p].known /\ at'[p].told = at[p].told

\* An answer reaches the caller if it still waits for it.
LEMMA AnswerEffect ==
    ASSUME TypeOK, NEW q \in Request, NEW kind \in Replies, Answer(q, kind)
    PROVE  /\ at' \in [Attempts -> Attempt] /\ Untouched
           /\ \A p \in Attempts : at'[p].got \in {at[p].got, kind}
<1>0. q.by \in Attempts /\ at \in [Attempts -> Attempt]
  BY DEF Request, TypeOK
<1>1. CASE at' = at
  BY <1>0, <1>1 DEF Untouched
<1>2. CASE at' = [at EXCEPT ![q.by].got = kind]
  <2> DEFINE a == [at[q.by] EXCEPT !.got = kind]
  <2>1. at[q.by] \in Attempt
    BY <1>0
  <2>2. /\ a \in Attempt /\ a.got = kind
        /\ a.pc = at[q.by].pc /\ a.doc = at[q.by].doc /\ a.row = at[q.by].row
        /\ a.seen = at[q.by].seen /\ a.known = at[q.by].known /\ a.told = at[q.by].told
    BY <2>1 DEF Attempt
  <2>3. at' = [at EXCEPT ![q.by] = a]
    BY <1>2
  <2> HIDE DEF a
  <2>4. at' \in [Attempts -> Attempt] /\ \A p \in Attempts : at'[p] = IF p = q.by THEN a ELSE at[p]
    BY <1>0, <2>2, <2>3
  <2> QED
    BY <2>2, <2>4 DEF Untouched
<1> QED
  BY <1>1, <1>2 DEF Answer

\* A step of the business side: it answers, forgets or keeps requests, and publishes
\* at most where nothing was published.
LEMMA BusinessEffect ==
    ASSUME IInv, UNCHANGED <<context, calls>>, current' \in BOOLEAN,
           at' \in [Attempts -> Attempt], Untouched,
           \A p \in Attempts : at'[p].got = "ok" => at[p].got = "ok" \/ record' # None,
           net' \subseteq Request,
           \A m \in net' : \E q \in net : m.row = q.row /\ m.doc = q.doc,
           \/ UNCHANGED <<record, revisions>>
           \/ /\ record = None
              /\ \E q \in net : record' = q.doc /\ revisions' = Append(revisions, q.doc)
    PROVE  IInv'
<1> USE DEF IInv
<1>0. UNCHANGED <<token, gate, lapsed, draining, calls>>
  BY DEF context
<1>1. /\ record' \in Docs \cup {None} /\ revisions' \in Seq(Docs)
      /\ RecordedOnce' /\ (record # None => record' = record)
      /\ record' # None => calls # <<>> /\ \A i \in DOMAIN calls : calls[i].doc = record'
  <2>1. CASE UNCHANGED <<record, revisions>>
    BY <2>1 DEF TypeOK, RecordedOnce, OneDocument
  <2>2. CASE /\ record = None
             /\ \E q \in net : record' = q.doc /\ revisions' = Append(revisions, q.doc)
    <3>1. PICK q \in net : record' = q.doc /\ revisions' = Append(revisions, q.doc)
      BY <2>2
    <3>2. q.doc \in Docs
      BY DEF TypeOK, Request
    <3>3. q.row \in DOMAIN calls /\ \A i \in DOMAIN calls : calls[i].doc = q.doc
      BY DEF OneDocument
    <3>4. revisions = <<>> /\ record' # None
      BY <2>2, <3>1, <3>2, PublishAssumption DEF RecordedOnce, None
    <3>5. revisions' = <<record'>>
      BY <3>1, <3>4
    <3>6. calls # <<>>
      BY <3>3
    <3>7. revisions' \in Seq(Docs)
      BY <3>1, <3>2, <3>5
    <3> QED
      BY <2>2, <3>1, <3>2, <3>3, <3>4, <3>5, <3>6, <3>7 DEF RecordedOnce
  <2> QED
    BY <2>1, <2>2
<1>2. TypeOK'
  BY <1>0, <1>1 DEF TypeOK
<1>3. ReportsAreSeen'
  BY <1>0, <1>1 DEF ReportsAreSeen, Untouched
<1>4. RowsExist' /\ WriterHolds'
  BY <1>0 DEF RowsExist, WriterHolds, Untouched
<1>5. HolderIsCurrent'
  <2>1. token \in Attempts
    BY DEF TypeOK
  <2> QED
    BY <1>0, <2>1 DEF HolderIsCurrent, Untouched
<1>6. OneDocument'
  BY <1>0, <1>1 DEF OneDocument
<1>7. OneOpenCall'
  BY <1>0 DEF OneOpenCall
<1> QED
  BY <1>1, <1>2, <1>3, <1>4, <1>5, <1>6, <1>7

\* Removing a request leaves requests the business side had.
LEMMA RequestsStay ==
    ASSUME TypeOK, NEW q \in net, net' = net \ {q}
    PROVE  net' \subseteq Request /\ \A m \in net' : \E n \in net : m.row = n.row /\ m.doc = n.doc
BY DEF TypeOK

\* Answering an attempt without an effect on the archive.
LEMMA AnswersOnly ==
    ASSUME IInv, NEW q \in net, NEW kind \in Replies, kind = "ok" => record # None,
           Answer(q, kind), net' = net \ {q},
           UNCHANGED <<context, calls, current, record, revisions>>
    PROVE  IInv'
<1>1. TypeOK /\ q \in Request /\ current' \in BOOLEAN
  BY DEF IInv, TypeOK
<1>2. at' \in [Attempts -> Attempt] /\ Untouched /\ \A p \in Attempts : at'[p].got \in {at[p].got, kind}
  BY <1>1, AnswerEffect
<1>3. net' \subseteq Request /\ \A m \in net' : \E n \in net : m.row = n.row /\ m.doc = n.doc
  BY <1>1, RequestsStay
<1> QED
  BY <1>1, <1>2, <1>3, BusinessEffect

\* IdempotencyService.replay.
LEMMA ReplayStep == ASSUME IInv, NEW q \in net, Replay(q) PROVE IInv'
<1>0. UNCHANGED <<context, calls, current, record, revisions>>
  BY DEF Replay
<1>1. CASE record # None /\ net' = net \ {q} /\ Answer(q, IF record = q.doc THEN "ok" ELSE "conflict")
  <2>1. (IF record = q.doc THEN "ok" ELSE "conflict") \in Replies
    BY DEF Replies
  <2> QED
    BY <1>0, <1>1, <2>1, AnswersOnly
<1>2. CASE net' = (net \ {q}) \cup {[q EXCEPT !.stage = "checked"]} /\ UNCHANGED at
  <2> DEFINE c == [q EXCEPT !.stage = "checked"]
  <2>1. q \in Request /\ net \subseteq Request /\ at \in [Attempts -> Attempt] /\ current \in BOOLEAN
    BY DEF IInv, TypeOK
  <2>2. c \in Request /\ c.row = q.row /\ c.doc = q.doc
    BY <2>1 DEF Request
  <2>3. net' = (net \ {q}) \cup {c}
    BY <1>2
  <2> HIDE DEF c
  <2>4. net' \subseteq Request /\ \A m \in net' : \E n \in net : m.row = n.row /\ m.doc = n.doc
    BY <2>1, <2>2, <2>3
  <2>5. at' \in [Attempts -> Attempt] /\ Untouched /\ \A p \in Attempts : at'[p].got = at[p].got
    BY <1>2, <2>1 DEF Untouched
  <2> QED
    BY <1>0, <2>1, <2>4, <2>5, BusinessEffect
<1> QED
  BY <1>1, <1>2 DEF Replay

\* The publishing transaction.
LEMMA PublishRevisionStep == ASSUME IInv, NEW q \in net, PublishRevision(q) PROVE IInv'
<1>0. net' = net \ {q} /\ UNCHANGED <<context, calls, current>>
  BY DEF PublishRevision
<1>1. TypeOK /\ q \in Request /\ current' \in BOOLEAN
  BY <1>0 DEF IInv, TypeOK
<1>2. CASE record = None /\ record' = q.doc /\ revisions' = Append(revisions, q.doc) /\ Answer(q, "ok")
  <2>1. at' \in [Attempts -> Attempt] /\ Untouched
    BY <1>1, <1>2, AnswerEffect DEF Replies
  <2>2. net' \subseteq Request /\ \A m \in net' : \E n \in net : m.row = n.row /\ m.doc = n.doc
    BY <1>0, <1>1, RequestsStay
  <2>3. record' # None
    BY <1>1, <1>2, PublishAssumption DEF Request, None
  <2> QED
    BY <1>0, <1>1, <1>2, <2>1, <2>2, <2>3, BusinessEffect
<1>3. CASE /\ \E kind \in {"superseded", "refused", "malformed"} : Answer(q, kind)
           /\ UNCHANGED <<record, revisions>>
  <2>1. PICK kind \in {"superseded", "refused", "malformed"} : Answer(q, kind)
    BY <1>3
  <2>2. kind \in Replies /\ kind # "ok"
    BY DEF Replies
  <2> QED
    BY <1>0, <1>3, <2>1, <2>2, AnswersOnly
<1> QED
  BY <1>2, <1>3 DEF PublishRevision

\* A refusal or a lost request leaves everything as it was.
LEMMA RefuseStep == ASSUME IInv, NEW q \in net, Refuse(q) \/ RequestLost(q) PROVE IInv'
<1>1. net' = net \ {q} /\ UNCHANGED <<context, calls, current, record, revisions>>
  BY DEF Refuse, RequestLost
<1>2. CASE Refuse(q)
  <2>1. PICK kind \in {"unavailable", "refused"} : Answer(q, kind)
    BY <1>2 DEF Refuse
  <2>2. kind \in Replies /\ kind # "ok"
    BY DEF Replies
  <2> QED
    BY <1>1, <2>1, <2>2, AnswersOnly
<1>3. CASE RequestLost(q)
  <2>1. at' = at
    BY <1>3 DEF RequestLost
  <2>2. TypeOK /\ at' \in [Attempts -> Attempt] /\ Untouched /\ current' \in BOOLEAN
    BY <1>1, <2>1 DEF IInv, TypeOK, Untouched
  <2>3. net' \subseteq Request /\ \A m \in net' : \E n \in net : m.row = n.row /\ m.doc = n.doc
    BY <1>1, <2>2, RequestsStay
  <2> QED
    BY <1>1, <2>1, <2>2, <2>3, BusinessEffect
<1> QED
  BY <1>2, <1>3

-----------------------------------------------------------------------------
(* The environment. *)

\* The reconciler's verdict on a running call leaves it open.
LEMMA MarkStaleStep == ASSUME IInv, NEW i \in DOMAIN calls, MarkStale(i) PROVE IInv'
<1> USE DEF IInv
<1>0. UNCHANGED <<token, gate, lapsed, draining, at, net, current, record, revisions>>
  BY DEF MarkStale, context, business
<1>1. calls \in Seq(Call) /\ token \in Attempts /\ "outcome_unknown" \in CallStatuses
  BY DEF TypeOK, CallStatuses, Open
<1>2. calls[i].status = "running" /\ calls' = [calls EXCEPT ![i].status = "outcome_unknown"]
  BY DEF MarkStale
<1>3. /\ calls' \in Seq(Call) /\ DOMAIN calls' = DOMAIN calls /\ calls' # <<>>
      /\ \A j \in DOMAIN calls : calls'[j].doc = calls[j].doc
      /\ \A j \in DOMAIN calls : calls'[j].status = IF j = i THEN "outcome_unknown" ELSE calls[j].status
  BY <1>1, <1>2, SetStatus
<1>4. TypeOK' /\ RecordedOnce'
  BY <1>0, <1>3 DEF TypeOK, RecordedOnce
<1>5. ReportsAreSeen' /\ RowsExist' /\ WriterHolds'
  BY <1>0, <1>3 DEF ReportsAreSeen, RowsExist, WriterHolds, OnRow
<1>6. HolderIsCurrent'
  BY <1>0, <1>1, <1>2, <1>3 DEF HolderIsCurrent, Open, RowsExist
<1>7. OneDocument'
  BY <1>0, <1>3 DEF OneDocument
<1>8. OneOpenCall'
  BY <1>2, <1>3 DEF OneOpenCall
<1> QED
  BY <1>4, <1>5, <1>6, <1>7, <1>8

\* A lease that runs out, a takeover, a closed gate, a drain.
LEMMA ContextStep ==
    ASSUME IInv, TakeOver \/ CloseGate \/ Drain \/ \E p \in Attempts : LeaseLapses(p)
    PROVE  IInv'
<1> USE DEF IInv
<1>0. UNCHANGED <<at, calls, net, current, record, revisions>>
  BY DEF TakeOver, CloseGate, Drain, LeaseLapses, business
<1>1. RecordedOnce' /\ ReportsAreSeen' /\ RowsExist' /\ OneDocument' /\ OneOpenCall'
  BY <1>0 DEF RecordedOnce, ReportsAreSeen, RowsExist, OneDocument, OneOpenCall
<1>2. CASE token' = token
  <2>1. lapsed \subseteq lapsed' /\ TypeOK'
    BY <1>0, <1>2 DEF TypeOK, TakeOver, CloseGate, Drain, LeaseLapses
  <2> QED
    BY <1>0, <1>1, <1>2, <2>1 DEF WriterHolds, HolderIsCurrent
<1>3. CASE TakeOver
  <2>1. /\ token \in Attempts /\ token' = token + 1 /\ token' \in Attempts
        /\ UNCHANGED <<gate, lapsed, draining>>
        /\ token \in lapsed \/ at[token].pc \in {"raised", "conflict"}
    BY <1>3 DEF TakeOver, TypeOK
  <2>2. \A p \in Attempts : p \in Int
    BY PublishAssumption DEF Attempts
  <2>3. token' > token /\ at[token'].pc = "idle"
    BY <2>1, <2>2 DEF WriterHolds
  <2>4. TypeOK'
    BY <1>0, <2>1 DEF TypeOK
  <2>5. HolderIsCurrent'
    BY <1>0, <2>3 DEF HolderIsCurrent, OnRow
  <2>6. WriterHolds'
    BY <1>0, <2>1, <2>2, <2>3 DEF WriterHolds, Working
  <2> QED
    BY <1>1, <2>4, <2>5, <2>6
<1> QED
  BY <1>2, <1>3 DEF CloseGate, Drain, LeaseLapses

\* A new generation of the archive.
LEMMA SupersedeStep == ASSUME IInv, Supersede PROVE IInv'
<1> USE DEF IInv
<1>0. /\ UNCHANGED <<token, gate, lapsed, draining, at, calls, net, record, revisions>>
      /\ current' = FALSE
  BY DEF Supersede, context
<1>1. TypeOK'
  BY <1>0 DEF TypeOK
<1>2. RecordedOnce' /\ ReportsAreSeen' /\ RowsExist' /\ WriterHolds' /\ HolderIsCurrent'
  BY <1>0 DEF RecordedOnce, ReportsAreSeen, RowsExist, WriterHolds, HolderIsCurrent
<1>3. OneDocument' /\ OneOpenCall'
  BY <1>0 DEF OneDocument, OneOpenCall
<1> QED
  BY <1>1, <1>2, <1>3

\* A crash ends an attempt and nothing else.
LEMMA CrashStep == ASSUME IInv, NEW p \in Attempts, Crash(p) PROVE IInv'
<1>1. at[p] \in Attempt
  BY DEF IInv, TypeOK
<1>2. at[p].pc \in Working
  BY <1>1 DEF Crash, Attempt, Pcs, Working
<1> QED
  BY <1>2, LeavesQuietly DEF Crash

-----------------------------------------------------------------------------
(* The theorems. *)

\* The initial state satisfies the invariant.
LEMMA InitIInv == Init => IInv
<1> SUFFICES ASSUME Init PROVE IInv
  OBVIOUS
<1> USE DEF Init
<1>1. NewAttempt \in Attempt
  BY DEF NewAttempt, Attempt, Pcs
<1>2. TypeOK
  <2>1. token \in Attempts
    BY PublishAssumption DEF Attempts
  <2>2. at \in [Attempts -> Attempt]
    BY <1>1
  <2>3. calls \in Seq(Call) /\ revisions \in Seq(Docs)
    OBVIOUS
  <2> QED
    BY <2>1, <2>2, <2>3 DEF TypeOK
<1>3. \A p \in Attempts : at[p].pc = "idle" /\ at[p].got = None
  BY DEF NewAttempt
<1>4. RecordedOnce /\ ReportsAreSeen /\ RowsExist
  BY <1>3 DEF RecordedOnce, ReportsAreSeen, RowsExist, None, OnRow, Working
<1>5. WriterHolds /\ HolderIsCurrent
  BY <1>2, <1>3 DEF WriterHolds, HolderIsCurrent, Working, OnRow, TypeOK
<1>6. OneDocument /\ OneOpenCall
  BY DEF OneDocument, OneOpenCall
<1> QED
  BY <1>2, <1>4, <1>5, <1>6 DEF IInv

\* Every step keeps it.
LEMMA NextIInv == IInv /\ [Next]_vars => IInv'
<1> SUFFICES ASSUME IInv, [Next]_vars PROVE IInv'
  OBVIOUS
<1>1. CASE UNCHANGED vars
  BY <1>1 DEF vars, IInv, TypeOK, RecordedOnce, ReportsAreSeen, RowsExist, WriterHolds,
              HolderIsCurrent, OneDocument, OneOpenCall
<1>2. ASSUME NEW p \in Attempts, Node(p) PROVE IInv'
  <2>1. CASE TimesOut(p)
    BY <2>1, GivesUp DEF TimesOut
  <2>2. CASE Disconnects(p)
    BY <2>2, GivesUp DEF Disconnects
  <2> QED
    BY <1>2, <2>1, <2>2, LookStep, QueryStep, AdoptStep, BeginStep, SendStep, ReceiveStep DEF Node
<1>3. ASSUME NEW q \in net, Business(q) PROVE IInv'
  BY <1>3, ReplayStep, PublishRevisionStep, RefuseStep DEF Business
<1>4. CASE Environment
  BY <1>4, SupersedeStep, ContextStep, CrashStep, MarkStaleStep DEF Environment
<1> QED
  BY <1>1, <1>2, <1>3, <1>4 DEF Next

\* The inductive invariant holds in every reachable state.
THEOREM Invariance == Spec => []IInv
BY InitIInv, NextIInv, PTL DEF Spec

\* The audit table is well formed, never leaves two calls of the publication open, and
\* never lets the idempotency key out for a second document (ToolCallAuditService with
\* the outdated run row of LeaseService.can_write), for any number of attempts.
THEOREM AuditSound == Spec => []AuditIsSound
<1>1. IInv => AuditIsSound
  <2> SUFFICES ASSUME IInv PROVE AuditIsSound
    OBVIOUS
  <2>1. KeyIsNotReused
    BY DEF IInv, OneDocument, KeyIsNotReused
  <2> QED
    BY <2>1 DEF IInv, AuditIsSound
<1> QED
  BY <1>1, Invariance, PTL

\* A run publishes at most one revision of the archive, whatever is taken over, lost,
\* repeated or wrongly settled as failed (publish_document, publish_playback_document).
THEOREM PublishedAtMostOnce == Spec => []PublishedOnce
<1>1. IInv => PublishedOnce
  BY DEF IInv, RecordedOnce, PublishedOnce
<1> QED
  BY <1>1, Invariance, PTL

\* What an attempt reports, and what the audit calls succeeded, is the revision the
\* archive has (runner.publish_document, adoption and receipt).
THEOREM ReportsAreTrue == Spec => []ReportedIsPublished
<1>1. IInv => ReportedIsPublished
  <2> SUFFICES ASSUME IInv PROVE ReportedIsPublished
    OBVIOUS
  <2>1. record # None => revisions = <<record>> /\ revisions # <<>>
    BY DEF IInv, RecordedOnce
  <2> QED
    BY <2>1 DEF IInv, ReportsAreSeen, ReportedIsPublished
<1> QED
  BY <1>1, Invariance, PTL

=============================================================================
