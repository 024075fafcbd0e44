-------------------------- MODULE RunLedgerProofs --------------------------
(***************************************************************************)
(* Theorems about RunLedger, for every set of workers and clients, every   *)
(* plan length and every choice of API operations and faults.              *)
(***************************************************************************)
EXTENDS RunLedger, TLAPS, SequenceTheorems

-----------------------------------------------------------------------------
(* What the session operators return. *)

\* A freshly created row is a row.
LEMMA NewRowType == ASSUME NEW m PROVE NewRow(m) \in Row
BY DEF NewRow, Row, Statuses

\* The rows that agree with r on the numbers the proofs follow: the last event
\* number and the fencing token.
Kin(r) == {q \in Row : q.seq = r.seq /\ q.token = r.token}

\* Writing a column other than these two stays within the kin of a row; the
\* proofs write several columns by chaining.
LEMMA KinExcept ==
    ASSUME NEW r \in Row, NEW q \in Kin(r)
    PROVE  /\ q \in Row
           /\ q.sv + 1 \in Nat /\ q.retries + 1 \in Nat
           /\ \A x \in Statuses : [q EXCEPT !.status = x] \in Kin(r)
           /\ \A x \in {"held", "queued", "claimed", "finished"} : [q EXCEPT !.dispatch = x] \in Kin(r)
           /\ \A x \in Nat : [q EXCEPT !.sv = x] \in Kin(r)
           /\ \A x \in Nat : [q EXCEPT !.retries = x] \in Kin(r)
           /\ \A x \in Workers \cup {Nobody} : [q EXCEPT !.owner = x] \in Kin(r)
           /\ \A x \in {"none", "granted", "released"} : [q EXCEPT !.lease = x] \in Kin(r)
           /\ \A x \in BOOLEAN : [q EXCEPT !.cancel = x] \in Kin(r)
           /\ \A x \in BOOLEAN : [q EXCEPT !.fallback = x] \in Kin(r)
           /\ \A x \in {"active", "purge_requested", "purged"} : [q EXCEPT !.privacy = x] \in Kin(r)
<1>1. q \in Row /\ q.sv + 1 \in Nat /\ q.retries + 1 \in Nat
  BY DEF Kin, Row
<1>2. \A x \in Statuses : [q EXCEPT !.status = x] \in Kin(r)
  BY DEF Kin, Row
<1>3. \A x \in {"held", "queued", "claimed", "finished"} : [q EXCEPT !.dispatch = x] \in Kin(r)
  BY DEF Kin, Row
<1>4. \A x \in Nat : [q EXCEPT !.sv = x] \in Kin(r)
  BY DEF Kin, Row
<1>5. \A x \in Nat : [q EXCEPT !.retries = x] \in Kin(r)
  BY DEF Kin, Row
<1>6. \A x \in Workers \cup {Nobody} : [q EXCEPT !.owner = x] \in Kin(r)
  BY DEF Kin, Row
<1>7. \A x \in {"none", "granted", "released"} : [q EXCEPT !.lease = x] \in Kin(r)
  BY DEF Kin, Row
<1>8. \A x \in BOOLEAN : [q EXCEPT !.cancel = x] \in Kin(r)
  BY DEF Kin, Row
<1>9. \A x \in BOOLEAN : [q EXCEPT !.fallback = x] \in Kin(r)
  BY DEF Kin, Row
<1>10. \A x \in {"active", "purge_requested", "purged"} : [q EXCEPT !.privacy = x] \in Kin(r)
  BY DEF Kin, Row
<1> QED
  BY <1>1, <1>2, <1>3, <1>4, <1>5, <1>6, <1>7, <1>8, <1>9, <1>10, Zenon

\* A row is its own kin, and kin are rows with the same numbers.
LEMMA KinSelf ==
    ASSUME NEW r \in Row
    PROVE  /\ r \in Kin(r)
           /\ \A q \in Kin(r) : q \in Row /\ q.seq = r.seq /\ q.token = r.token
BY DEF Kin

\* Flush merges two rows into the committed one and keeps its token.
LEMMA FlushType ==
    ASSUME run \in Row, NEW s, s.view \in Row, s.mine \in Row
    PROVE  Flush(s) \in Row /\ Flush(s).token = run.token
BY DEF Flush, Net, Row

\* append_callback_event numbers one event after the row's last.
LEMMA Append1Type ==
    ASSUME NEW row \in Row, NEW events \in Seq(Event), NEW t \in EventTypes
    PROVE  /\ Append1(row, events, t).mine \in Row
           /\ Append1(row, events, t).events \in Seq(Event)
           /\ Append1(row, events, t).mine.seq = row.seq + 1
           /\ Append1(row, events, t).mine.token = row.token
           /\ Len(Append1(row, events, t).events) = Len(events) + 1
<1>1. Append1(row, events, t).mine = [row EXCEPT !.seq = @ + 1]
  BY DEF Append1
<1>2. Append1(row, events, t).events = Append(events, [type |-> t, sv |-> row.sv])
  BY DEF Append1
<1>3. [type |-> t, sv |-> row.sv] \in Event
  BY DEF Event, Row
<1>4. [row EXCEPT !.seq = @ + 1] \in Row /\ [row EXCEPT !.seq = @ + 1].seq = row.seq + 1
      /\ [row EXCEPT !.seq = @ + 1].token = row.token
  BY DEF Row
<1> QED
  BY <1>1, <1>2, <1>3, <1>4

\* Stamping the events of a session keeps their number.
LEMMA StampType ==
    ASSUME NEW events \in Seq(Event), NEW t \in Nat
    PROVE  Stamp(events, t) \in Seq(LogEvent) /\ Len(Stamp(events, t)) = Len(events)
<1>1. Len(events) \in Nat
  OBVIOUS
<1>2. \A i \in 1..Len(events) : events[i] \in Event
  OBVIOUS
<1>3. \A i \in 1..Len(events) :
        [type |-> events[i].type, sv |-> events[i].sv, token |-> t] \in LogEvent
  BY <1>2 DEF Event, LogEvent
<1>4. Stamp(events, t) \in [1..Len(events) -> LogEvent]
  BY <1>3 DEF Stamp
<1>5. Stamp(events, t) \in Seq(LogEvent)
  BY <1>1, <1>4, SeqDef, Zenon
<1>6. Len(Stamp(events, t)) \in Nat /\ DOMAIN Stamp(events, t) = 1..Len(Stamp(events, t))
  BY <1>5, LenProperties
<1>7. DOMAIN Stamp(events, t) = 1..Len(events)
  BY <1>4
<1>8. Len(Stamp(events, t)) = Len(events)
  BY <1>1, <1>6, <1>7
<1> QED
  BY <1>5, <1>8

\* Appending to the log adds the lengths.
LEMMA ConcatLen ==
    ASSUME NEW s \in Seq(LogEvent), NEW t \in Seq(LogEvent)
    PROVE  s \o t \in Seq(LogEvent) /\ Len(s \o t) = Len(s) + Len(t)
BY ConcatProperties

\* Numbering one more event after y others.
LEMMA PlusOne ==
    ASSUME NEW x \in Nat, NEW y \in Nat, NEW z \in Nat, z = x + y
    PROVE  z + 1 = x + (y + 1)
OBVIOUS

-----------------------------------------------------------------------------
(* The inductive invariant. *)

\* A session's object is numbered from the row it loaded: last_event_seq has
\* advanced by the callbacks the session holds and has not committed.
Numbered(s) == s.mine.seq = s.view.seq + Len(s.events)

\* The worker holds no uncommitted callback where it is about to reload the row.
Quiet == {"idle", "notified", "claiming", "begin", "work", "exec", "save"}

\* The states of a worker whose lease has token t; a session that settles has a
\* result.
Fit(t) ==
    {s \in WorkerState : /\ s.token = t
                         /\ Numbered(s)
                         /\ s.pc \in Quiet => s.events = <<>>
                         /\ s.pc = "settle" => s.outcome # "none"}

\* EventSeqIsGapless is inductive only with what the open sessions hold.
LedgerInv ==
    /\ TypeOK
    /\ EventSeqIsGapless
    /\ TokensAreUnique
    /\ \A w \in Workers : wk[w] \in Fit(wk[w].token)
    /\ \A c \in Sessions : Numbered(tx[c])

\* An idle worker and an idle session fit.
LEMMA IdleType ==
    /\ IdleWorker \in WorkerState /\ IdleTx \in TxState
    /\ IdleWorker \in Fit(0) /\ Numbered(IdleTx)
<1>1. IdleWorker \in WorkerState /\ IdleTx \in TxState
  BY NewRowType DEF IdleWorker, IdleTx, WorkerState, TxState
<1>2. NewRow("held").seq = 0
  BY DEF NewRow
<1>3. Numbered(IdleWorker) /\ Numbered(IdleTx)
  BY <1>2 DEF IdleWorker, IdleTx, Numbered
<1>4. IdleWorker.token = 0 /\ IdleWorker.events = <<>> /\ IdleWorker.pc = "idle"
  BY DEF IdleWorker
<1> QED
  BY <1>1, <1>3, <1>4 DEF Fit

\* The facts about one worker that the steps below start from.
LEMMA WorkerFacts ==
    ASSUME LedgerInv, NEW w \in Workers
    PROVE  /\ run \in Row /\ wk[w] \in WorkerState
           /\ wk[w].view \in Row /\ wk[w].mine \in Row
           /\ wk[w].events \in Seq(Event) /\ wk[w].token \in Nat /\ wk[w].node \in Nat
           /\ wk[w].save \in SUBSET (Nat \X Nat)
           /\ Numbered(wk[w])
           /\ wk[w].pc \in Quiet => wk[w].events = <<>>
           /\ wk[w].pc = "settle" => wk[w].outcome # "none"
<1>1. run \in Row /\ wk[w] \in WorkerState /\ wk[w] \in Fit(wk[w].token)
  BY DEF LedgerInv, TypeOK
<1> QED
  BY <1>1 DEF WorkerState, Fit

\* Begin opens a session on the committed row.
LEMMA BeginInv ==
    ASSUME LedgerInv, NEW c \in Sessions, NEW row \in Row, NEW events \in Seq(Event),
           NEW op \in {"start", "cancel", "purge", "retry", "complete_purge"},
           row.seq = run.seq + Len(events),
           Begin(c, op, row, events)
    PROVE  LedgerInv'
<1> DEFINE s == [op |-> op, view |-> run, mine |-> row, events |-> events,
                 drop |-> IF op = "complete_purge" THEN ckpt ELSE {}]
<1>1. s \in TxState
  BY DEF LedgerInv, TypeOK, TxState
<1>2. Numbered(s)
  BY DEF Numbered
<1>3. tx' = [tx EXCEPT ![c] = s] /\ tx \in [Sessions -> TxState]
  BY DEF Begin, LedgerInv, TypeOK
<1> HIDE DEF s
<1>4. tx' \in [Sessions -> TxState]
  BY <1>1, <1>3
<1>5. \A d \in Sessions : Numbered(tx'[d])
  BY <1>2, <1>3 DEF LedgerInv
<1>6. TypeOK'
  BY <1>4 DEF Begin, LedgerInv, TypeOK
<1>7. UNCHANGED <<run, log, wk>>
  BY DEF Begin
<1> QED
  BY <1>5, <1>6, <1>7 DEF LedgerInv, EventSeqIsGapless, TokensAreUnique, Numbered

\* A conditional UPDATE writes a row and appends the callbacks it has counted.
LEMMA UpdateInv ==
    ASSUME LedgerInv, NEW row \in Row, NEW events \in Seq(Event), NEW b \in BOOLEAN,
           row.seq = run.seq + Len(events), row.token = run.token,
           Update(row, events, b)
    PROVE  LedgerInv'
<1>1. run.token \in Nat /\ log \in Seq(LogEvent)
  BY DEF LedgerInv, TypeOK, Row
<1>2. /\ Stamp(events, run.token) \in Seq(LogEvent)
      /\ Len(Stamp(events, run.token)) = Len(events)
  BY <1>1, StampType
<1>3. /\ run' = row /\ log' = log \o Stamp(events, run.token)
      /\ notice' = (notice \/ b)
      /\ UNCHANGED <<ckpt, lapsed, env, draining, lock, wk, tx>>
  BY DEF Update
<1>4. log' \in Seq(LogEvent) /\ Len(log') = Len(log) + Len(events)
  BY <1>1, <1>2, <1>3, ConcatLen, Zenon
<1>5. TypeOK'
  BY <1>3, <1>4 DEF LedgerInv, TypeOK
<1>6. EventSeqIsGapless'
  BY <1>3, <1>4 DEF LedgerInv, EventSeqIsGapless
<1>7. TokensAreUnique'
  BY <1>3 DEF LedgerInv, TokensAreUnique
<1> QED
  BY <1>3, <1>5, <1>6, <1>7 DEF LedgerInv, Numbered

\* A worker step that changes nothing but the worker's own state.
LEMMA LocalInv ==
    ASSUME LedgerInv, NEW w \in Workers, NEW s \in Fit(wk[w].token) \cup Fit(0),
           wk' = [wk EXCEPT ![w] = s],
           UNCHANGED <<run, ckpt, log, notice, lapsed, env, draining, tx>>,
           lock' \in Workers \cup {Nobody}
    PROVE  LedgerInv'
<1>1. s \in WorkerState /\ s \in Fit(s.token) /\ s.token \in {wk[w].token, 0}
  BY DEF Fit
<1>2. wk' \in [Workers -> WorkerState]
  BY <1>1 DEF LedgerInv, TypeOK
<1>3. TypeOK'
  BY <1>2 DEF LedgerInv, TypeOK
<1>4. \A v \in Workers : wk'[v] \in Fit(wk'[v].token)
  BY <1>1 DEF LedgerInv, TypeOK
<1>5. TokensAreUnique'
  <2>1. \A v \in Workers : wk'[v].token \in {wk[v].token, 0}
    BY <1>1 DEF LedgerInv, TypeOK
  <2>2. run.token \in Nat
    BY DEF LedgerInv, TypeOK, Row
  <2>3. \A v \in Workers : wk[v].token \in Nat
    BY DEF LedgerInv, TypeOK, WorkerState
  <2> QED
    BY <2>1, <2>2, <2>3 DEF LedgerInv, TokensAreUnique
<1> QED
  BY <1>3, <1>4, <1>5 DEF LedgerInv, EventSeqIsGapless, Numbered

\* Rollback.
LEMMA AbandonInv ==
    ASSUME LedgerInv, NEW w \in Workers, Abandon(w), UNCHANGED <<lapsed, env, draining, tx>>
    PROVE  LedgerInv'
<1>1. /\ wk' = [wk EXCEPT ![w] = IdleWorker]
      /\ lock' \in Workers \cup {Nobody}
      /\ UNCHANGED <<run, ckpt, log, notice>>
  BY DEF Abandon, LedgerInv, TypeOK
<1> QED
  BY <1>1, IdleType, LocalInv

\* What a commit without a clash does to the event number: the callbacks of the
\* session get the next numbers, and a session without callbacks leaves it alone.
LEMMA FlushSeq ==
    ASSUME run \in Row, NEW s, s.view \in Row, s.mine \in Row, s.events \in Seq(Event),
           Numbered(s), ~Clash(s)
    PROVE  Flush(s).seq = run.seq + Len(s.events)
<1>1. Flush(s).seq = IF s.mine.seq # s.view.seq THEN s.mine.seq ELSE run.seq
  BY DEF Flush, Net
<1>2. run.seq \in Nat /\ s.mine.seq \in Nat /\ s.view.seq \in Nat /\ Len(s.events) \in Nat
  BY DEF Row
<1>3. CASE s.events = <<>>
  BY <1>1, <1>2, <1>3 DEF Numbered
<1>4. CASE s.events # <<>>
  <2>1. Len(s.events) # 0
    BY <1>4
  <2>2. s.view.seq = run.seq
    BY <1>4 DEF Clash
  <2> QED
    BY <1>1, <1>2, <2>1, <2>2 DEF Numbered
<1> QED
  BY <1>3, <1>4

\* Commit of a worker's session.
LEMMA CommitInv ==
    ASSUME LedgerInv, NEW w \in Workers, NEW next \in Fit(wk[w].token) \cup Fit(0),
           Commit(w, Flush(wk[w]), next), UNCHANGED <<lapsed, env, draining, tx>>
    PROVE  LedgerInv'
<1>1. CASE Clash(wk[w])
  BY <1>1, AbandonInv DEF Commit
<1>2. CASE ~Clash(wk[w])
  <2>1. /\ run' = Flush(wk[w])
        /\ log' = log \o Stamp(wk[w].events, wk[w].token)
        /\ ckpt' = ckpt \cup wk[w].save
        /\ lock' = Nobody
        /\ wk' = [wk EXCEPT ![w] = next]
        /\ UNCHANGED notice
    BY <1>2 DEF Commit
  <2>2. run' \in Row /\ run'.token = run.token
    BY <2>1, WorkerFacts, FlushType
  <2>3. /\ Stamp(wk[w].events, wk[w].token) \in Seq(LogEvent)
        /\ Len(Stamp(wk[w].events, wk[w].token)) = Len(wk[w].events)
    BY WorkerFacts, StampType
  <2>4. log \in Seq(LogEvent)
    BY DEF LedgerInv, TypeOK
  <2>5. log' \in Seq(LogEvent) /\ Len(log') = Len(log) + Len(wk[w].events)
    BY <2>1, <2>3, <2>4, ConcatLen, Zenon
  <2>6. EventSeqIsGapless'
    <3>1. Flush(wk[w]).seq = run.seq + Len(wk[w].events)
      BY <1>2, WorkerFacts, FlushSeq
    <3> QED
      BY <2>1, <2>5, <3>1 DEF LedgerInv, EventSeqIsGapless
  <2>7. next \in WorkerState /\ next \in Fit(next.token) /\ next.token \in {wk[w].token, 0}
    BY DEF Fit
  <2>8. TypeOK'
    <3>1. wk' \in [Workers -> WorkerState]
      BY <2>1, <2>7 DEF LedgerInv, TypeOK
    <3>2. ckpt' \in SUBSET (Nat \X Nat)
      BY <2>1, WorkerFacts DEF LedgerInv, TypeOK
    <3> QED
      BY <2>1, <2>2, <2>5, <3>1, <3>2 DEF LedgerInv, TypeOK
  <2>9. \A v \in Workers : wk'[v] \in Fit(wk'[v].token)
    BY <2>1, <2>7 DEF LedgerInv, TypeOK
  <2>10. TokensAreUnique'
    <3>1. \A v \in Workers : wk'[v].token \in {wk[v].token, 0}
      BY <2>1, <2>7 DEF LedgerInv, TypeOK
    <3>2. run.token \in Nat /\ \A v \in Workers : wk[v].token \in Nat
      BY WorkerFacts DEF LedgerInv, TypeOK, Row
    <3> QED
      BY <2>2, <3>1, <3>2 DEF LedgerInv, TokensAreUnique
  <2> QED
    BY <2>6, <2>8, <2>9, <2>10 DEF LedgerInv, Numbered
<1> QED
  BY <1>1, <1>2

-----------------------------------------------------------------------------
(* API and reconciler actions. *)

\* A session that counts one callback on a changed copy of the committed row.
LEMMA OneEvent ==
    ASSUME LedgerInv, NEW row \in Kin(run), NEW t \in EventTypes
    PROVE  /\ Append1(row, <<>>, t).mine \in Row
           /\ Append1(row, <<>>, t).events \in Seq(Event)
           /\ Append1(row, <<>>, t).mine.seq = run.seq + Len(Append1(row, <<>>, t).events)
           /\ Append1(row, <<>>, t).mine.token = run.token
<1>1. row \in Row /\ row.seq = run.seq /\ row.token = run.token /\ run.seq \in Nat
  BY DEF Kin, LedgerInv, TypeOK, Row
<1>2. <<>> \in Seq(Event) /\ Len(<<>>) = 0
  OBVIOUS
<1>3. ASSUME NEW e \in Seq(Event)
      PROVE  /\ Append1(row, e, t).mine \in Row
             /\ Append1(row, e, t).events \in Seq(Event)
             /\ Append1(row, e, t).mine.seq = row.seq + 1
             /\ Append1(row, e, t).mine.token = row.token
             /\ Len(Append1(row, e, t).events) = Len(e) + 1
  BY <1>1, Append1Type
<1>4. /\ Append1(row, <<>>, t).mine \in Row
      /\ Append1(row, <<>>, t).events \in Seq(Event)
      /\ Append1(row, <<>>, t).mine.seq = row.seq + 1
      /\ Append1(row, <<>>, t).mine.token = row.token
      /\ Len(Append1(row, <<>>, t).events) = Len(<<>>) + 1
  BY <1>2, <1>3
<1>5. Len(<<>>) + 1 = 1
  BY <1>2
<1> QED
  BY <1>1, <1>4, <1>5, Zenon

\* A session or an update that changes columns and appends nothing.
LEMMA NoEvent ==
    ASSUME LedgerInv, NEW row \in Kin(run)
    PROVE  /\ row \in Row /\ <<>> \in Seq(Event)
           /\ row.seq = run.seq + Len(<<>>) /\ row.token = run.token
BY DEF Kin, LedgerInv, TypeOK, Row

\* The committed row is a row, and its own kin.
LEMMA RunKin == LedgerInv => run \in Row /\ run \in Kin(run)
BY KinSelf DEF LedgerInv, TypeOK

\* API requests keep the invariant.
LEMMA ApiInv ==
    ASSUME LedgerInv, NEW c \in Sessions,
           StartBegin(c) \/ CancelBegin(c) \/ PurgeBegin(c) \/ RetryBegin(c)
    PROVE  LedgerInv'
<1>0. run \in Row /\ run \in Kin(run) /\ "cancelled" \in Statuses /\ "pending" \in Statuses
      /\ "cancelled" \in EventTypes
  BY RunKin DEF Statuses, EventTypes, Terminal
<1>1. CASE StartBegin(c)
  <2>1. [run EXCEPT !.dispatch = "queued"] \in Kin(run)
    BY <1>0, KinExcept, Zenon
  <2> QED
    BY <1>1, <2>1, NoEvent, BeginInv DEF StartBegin
<1>2. CASE CancelBegin(c)
  <2> DEFINE row == [run EXCEPT !.cancel = TRUE, !.status = "cancelled",
                                !.dispatch = "finished", !.sv = @ + 1]
             a == Append1(row, <<>>, "cancelled")
  <2>1. row \in Kin(run)
    BY <1>0, KinExcept, Zenon
  <2>2. [run EXCEPT !.cancel = TRUE] \in Kin(run)
    BY <1>0, KinExcept, Zenon
  <2>3. CASE Begin(c, "cancel", a.mine, a.events)
    <3> HIDE DEF row
    <3> QED
      BY <1>0, <2>1, <2>3, OneEvent, BeginInv
  <2>4. CASE Begin(c, "cancel", [run EXCEPT !.cancel = TRUE], <<>>)
    BY <2>2, <2>4, NoEvent, BeginInv
  <2> QED
    BY <1>2, <2>3, <2>4 DEF CancelBegin
<1>3. CASE PurgeBegin(c)
  <2>1. [run EXCEPT !.privacy = "purge_requested", !.cancel = TRUE] \in Kin(run)
    BY <1>0, KinExcept, Zenon
  <2> QED
    BY <1>3, <2>1, NoEvent, BeginInv DEF PurgeBegin
<1>4. CASE RetryBegin(c)
  <2>1. [run EXCEPT !.retries = @ + 1, !.status = "pending",
                    !.dispatch = "queued", !.sv = @ + 1] \in Kin(run)
    BY <1>0, KinExcept, Zenon
  <2> QED
    BY <1>4, <2>1, NoEvent, BeginInv DEF RetryBegin
<1> QED
  BY <1>1, <1>2, <1>3, <1>4

\* complete_purge opens its session like the requests.
LEMMA CompletePurgeInv == ASSUME LedgerInv, CompletePurgeBegin PROVE LedgerInv'
<1>1. run \in Row /\ run \in Kin(run) /\ Scanner \in Sessions
  BY RunKin DEF Sessions
<1>2. [run EXCEPT !.privacy = "purged"] \in Kin(run)
  BY <1>1, KinExcept, Zenon
<1> QED
  BY <1>1, <1>2, NoEvent, BeginInv DEF CompletePurgeBegin

\* The commit of a request, or of the scan.
LEMMA TxCommitInv == ASSUME LedgerInv, NEW c \in Sessions, TxCommit(c) PROVE LedgerInv'
<1>1. /\ run \in Row /\ run.token \in Nat /\ log \in Seq(LogEvent)
      /\ tx \in [Sessions -> TxState] /\ Numbered(tx[c])
      /\ tx[c].view \in Row /\ tx[c].mine \in Row /\ tx[c].events \in Seq(Event)
  BY DEF LedgerInv, TypeOK, TxState, Row
<1>2. tx' = [tx EXCEPT ![c] = IdleTx] /\ UNCHANGED <<lapsed, env, draining, lock, wk>>
  BY DEF TxCommit
<1>3. tx' \in [Sessions -> TxState] /\ \A d \in Sessions : Numbered(tx'[d])
  BY <1>1, <1>2, IdleType DEF LedgerInv
<1>4. CASE Clash(tx[c])
  <2>1. UNCHANGED <<run, ckpt, log, notice>>
    BY <1>4 DEF TxCommit
  <2>2. TypeOK'
    BY <1>2, <1>3, <2>1 DEF LedgerInv, TypeOK
  <2> QED
    BY <1>2, <1>3, <2>1, <2>2 DEF LedgerInv, EventSeqIsGapless, TokensAreUnique
<1>5. CASE ~Clash(tx[c])
  <2>1. /\ run' = Flush(tx[c])
        /\ log' = log \o Stamp(tx[c].events, run.token)
        /\ notice' = (notice \/ tx[c].op \in {"start", "retry"})
        /\ ckpt' = ckpt \ tx[c].drop
    BY <1>5 DEF TxCommit
  <2>2. run' \in Row /\ run'.token = run.token
    BY <1>1, <2>1, FlushType
  <2>3. run'.seq = run.seq + Len(tx[c].events)
    BY <1>1, <1>5, <2>1, FlushSeq
  <2>4. /\ Stamp(tx[c].events, run.token) \in Seq(LogEvent)
        /\ Len(Stamp(tx[c].events, run.token)) = Len(tx[c].events)
    BY <1>1, StampType
  <2>5. log' \in Seq(LogEvent) /\ Len(log') = Len(log) + Len(tx[c].events)
    BY <1>1, <2>1, <2>4, ConcatLen, Zenon
  <2>6. ckpt' \in SUBSET (Nat \X Nat) /\ notice' \in BOOLEAN
    BY <2>1 DEF LedgerInv, TypeOK
  <2>7. TypeOK'
    BY <1>2, <1>3, <2>2, <2>5, <2>6 DEF LedgerInv, TypeOK
  <2>8. EventSeqIsGapless' /\ TokensAreUnique'
    BY <1>2, <2>2, <2>3, <2>5 DEF LedgerInv, EventSeqIsGapless, TokensAreUnique
  <2> QED
    BY <1>2, <1>3, <2>7, <2>8 DEF LedgerInv
<1> QED
  BY <1>4, <1>5

\* An update that appends nothing.
LEMMA QuietUpdateInv ==
    ASSUME LedgerInv, NEW row \in Kin(run), NEW b \in BOOLEAN, Update(row, <<>>, b)
    PROVE  LedgerInv'
BY NoEvent, UpdateInv

\* Terminate ends the run with one callback.
LEMMA TerminateInv ==
    ASSUME LedgerInv, NEW status \in Terminal, Terminate(status)
    PROVE  LedgerInv'
<1> DEFINE row == [run EXCEPT !.status = status, !.dispatch = "finished", !.sv = @ + 1,
                              !.fallback = FALSE]
<1>0. status \in Statuses /\ status \in EventTypes /\ run \in Row /\ run \in Kin(run)
  BY RunKin DEF Statuses, EventTypes
<1>1. row \in Kin(run)
  BY <1>0, KinExcept, Zenon
<1>2. Terminated(status) = Append1(row, <<>>, status)
  BY DEF Terminated
<1> HIDE DEF row
<1> QED
  BY <1>0, <1>1, <1>2, OneEvent, UpdateInv DEF Terminate

\* Human decisions.
LEMMA DecisionInv == ASSUME LedgerInv, Approve \/ Reject PROVE LedgerInv'
<1>0. run \in Row /\ run \in Kin(run) /\ "failed" \in Statuses /\ "failed" \in EventTypes
  BY RunKin DEF Statuses, EventTypes, Terminal
<1>1. \A b \in BOOLEAN : [run EXCEPT !.dispatch = "queued", !.sv = @ + 1, !.fallback = b] \in Kin(run)
  BY <1>0, KinExcept, Zenon
<1>2. CASE Approve
  BY <1>1, <1>2, QuietUpdateInv DEF Approve
<1>3. CASE Reject
  <2> DEFINE row == [run EXCEPT !.status = "failed", !.sv = @ + 1]
             a == Append1(row, <<>>, "failed")
  <2>1. row \in Kin(run)
    BY <1>0, KinExcept, Zenon
  <2>2. CASE Update([run EXCEPT !.dispatch = "queued", !.sv = @ + 1, !.fallback = TRUE], <<>>, TRUE)
    BY <1>1, <2>2, QuietUpdateInv
  <2>3. CASE Update(a.mine, a.events, FALSE)
    <3> HIDE DEF row
    <3> QED
      BY <1>0, <2>1, <2>3, OneEvent, UpdateInv
  <2> QED
    BY <1>3, <2>2, <2>3 DEF Reject
<1> QED
  BY <1>2, <1>3

\* The reaper and the reconciler's repairs.
LEMMA ReconcileInv == ASSUME LedgerInv, Reconcile PROVE LedgerInv'
<1>0. /\ run \in Row /\ run \in Kin(run) /\ {"pending", "cancelled"} \subseteq Statuses
      /\ "cancelled" \in EventTypes /\ "cancelled" \in Terminal /\ "failed" \in Terminal
  BY RunKin DEF Statuses, EventTypes, Terminal
<1>1. CASE ReapExpired
  <2> DEFINE freed == [run EXCEPT !.owner = Nobody, !.lease = "none"]
             row == [freed EXCEPT !.status = "cancelled", !.dispatch = "finished",
                                  !.sv = @ + 1, !.fallback = FALSE]
             ended == Append1(row, <<>>, "cancelled")
             queued == [freed EXCEPT !.dispatch = "queued"]
             reset == [queued EXCEPT !.status = "pending", !.sv = @ + 1]
  <2>1. freed \in Kin(run)
    BY <1>0, KinExcept, Zenon
  <2> HIDE DEF freed
  <2>2. row \in Kin(run)
    BY <1>0, <2>1, KinExcept, Zenon
  <2>3. queued \in Kin(run)
    BY <1>0, <2>1, KinExcept, Zenon
  <2> HIDE DEF queued
  <2>4. reset \in Kin(run)
    BY <1>0, <2>3, KinExcept, Zenon
  <2> HIDE DEF row, reset
  <2>5. CASE Update(ended.mine, ended.events, FALSE)
    BY <1>0, <2>2, <2>5, OneEvent, UpdateInv
  <2>6. CASE Update(reset, <<>>, TRUE)
    BY <2>4, <2>6, QuietUpdateInv
  <2>7. CASE Update(queued, <<>>, TRUE)
    BY <2>3, <2>7, QuietUpdateInv
  <2> QED
    BY <1>1, <2>5, <2>6, <2>7 DEF ReapExpired, freed, row, queued, reset
<1>2. CASE RepairTimeout
  <2>1. [run EXCEPT !.cancel = TRUE, !.fallback = FALSE] \in Kin(run)
    BY <1>0, KinExcept, Zenon
  <2> QED
    BY <1>0, <1>2, <2>1, QuietUpdateInv, TerminateInv DEF RepairTimeout
<1>3. CASE RepairWithdrawn
  <2>1. [run EXCEPT !.cancel = TRUE] \in Kin(run)
    BY <1>0, KinExcept, Zenon
  <2> QED
    BY <1>0, <1>3, <2>1, QuietUpdateInv, TerminateInv DEF RepairWithdrawn
<1>4. CASE RepairHeldTimeout
  BY <1>0, <1>4, TerminateInv DEF RepairHeldTimeout
<1>5. CASE RepairQueuedTimeout
  BY <1>0, <1>5, TerminateInv DEF RepairQueuedTimeout
<1>6. CASE RepairMissingDispatch
  <2>1. TypeOK' /\ UNCHANGED <<run, log, wk, tx>>
    BY <1>6 DEF RepairMissingDispatch, LedgerInv, TypeOK
  <2> QED
    BY <2>1 DEF LedgerInv, EventSeqIsGapless, TokensAreUnique, Numbered
<1>7. CASE RepairWaitingTimeout
  <2>1. [run EXCEPT !.dispatch = "queued", !.sv = @ + 1, !.fallback = TRUE] \in Kin(run)
    BY <1>0, KinExcept, Zenon
  <2>2. TimeoutAction = "fallback" \/ TimeoutAction \in Terminal
    BY ConstantsAssumption DEF Terminal
  <2> QED
    BY <1>7, <2>1, <2>2, QuietUpdateInv, TerminateInv DEF RepairWaitingTimeout
<1> QED
  BY <1>1, <1>2, <1>3, <1>4, <1>5, <1>6, <1>7 DEF Reconcile

\* Clocks, configuration and processes.
LEMMA EnvironmentInv == ASSUME LedgerInv, Environment PROVE LedgerInv'
<1>1. CASE \E w \in Workers : Crash(w)
  BY <1>1, AbandonInv DEF Crash
<1>2. CASE \E t \in 1..MaxToken : LeaseLapses(t)
  <2>1. TypeOK' /\ UNCHANGED <<run, log, wk, tx>>
    BY <1>2, ConstantsAssumption DEF LeaseLapses, LedgerInv, TypeOK
  <2> QED
    BY <2>1 DEF LedgerInv, EventSeqIsGapless, TokensAreUnique, Numbered
<1>3. CASE DeadlinePasses \/ PackageRevoked \/ AuthorizationChanges
  <2>1. env' \in [due : BOOLEAN, pkg : BOOLEAN, auth : {"current", "changed", "removed"}]
    BY <1>3 DEF DeadlinePasses, PackageRevoked, AuthorizationChanges, LedgerInv, TypeOK
  <2>2. UNCHANGED <<run, ckpt, log, notice, lapsed, draining, lock, wk, tx>>
    BY <1>3 DEF DeadlinePasses, PackageRevoked, AuthorizationChanges
  <2>3. TypeOK'
    BY <2>1, <2>2 DEF LedgerInv, TypeOK
  <2> QED
    BY <2>2, <2>3 DEF LedgerInv, EventSeqIsGapless, TokensAreUnique, Numbered
<1>4. CASE \E w \in Workers : Drain(w) \/ Restart(w)
  <2>1. TypeOK' /\ UNCHANGED <<run, log, wk, tx>>
    BY <1>4 DEF Drain, Restart, LedgerInv, TypeOK
  <2> QED
    BY <2>1 DEF LedgerInv, EventSeqIsGapless, TokensAreUnique, Numbered
<1> QED
  BY <1>1, <1>2, <1>3, <1>4 DEF Environment

-----------------------------------------------------------------------------
(* Worker actions. *)

Pcs == {"idle", "notified", "claiming", "begin", "beat", "work", "exec", "node",
        "save", "pause", "settle", "commit"}

Outcomes == {"none", "pending"} \cup Terminal

\* Assigning one field of a worker's state; the proofs assign several by chaining.
LEMMA WorkerExcept ==
    ASSUME NEW s \in WorkerState
    PROVE  /\ s.node + 1 \in Nat
           /\ \A x \in Pcs : [s EXCEPT !.pc = x] \in WorkerState
           /\ \A x \in Nat : [s EXCEPT !.token = x] \in WorkerState
           /\ \A x \in Row : [s EXCEPT !.view = x] \in WorkerState
           /\ \A x \in Row : [s EXCEPT !.mine = x] \in WorkerState
           /\ \A x \in Seq(Event) : [s EXCEPT !.events = x] \in WorkerState
           /\ \A x \in SUBSET (Nat \X Nat) : [s EXCEPT !.save = x] \in WorkerState
           /\ \A x \in Outcomes : [s EXCEPT !.outcome = x] \in WorkerState
           /\ \A x \in Nat : [s EXCEPT !.node = x] \in WorkerState
           /\ \A x \in BOOLEAN : [s EXCEPT !.resume = x] \in WorkerState
<1>1. s.node + 1 \in Nat
  BY DEF WorkerState
<1>2. \A x \in Pcs : [s EXCEPT !.pc = x] \in WorkerState
  BY DEF WorkerState, Pcs
<1>3. \A x \in Nat : [s EXCEPT !.token = x] \in WorkerState
  BY DEF WorkerState
<1>4. \A x \in Row : [s EXCEPT !.view = x] \in WorkerState
  BY DEF WorkerState
<1>5. \A x \in Row : [s EXCEPT !.mine = x] \in WorkerState
  BY DEF WorkerState
<1>6. \A x \in Seq(Event) : [s EXCEPT !.events = x] \in WorkerState
  BY DEF WorkerState
<1>7. \A x \in SUBSET (Nat \X Nat) : [s EXCEPT !.save = x] \in WorkerState
  BY DEF WorkerState
<1>8. \A x \in Outcomes : [s EXCEPT !.outcome = x] \in WorkerState
  BY DEF WorkerState, Outcomes
<1>9. \A x \in Nat : [s EXCEPT !.node = x] \in WorkerState
  BY DEF WorkerState
<1>10. \A x \in BOOLEAN : [s EXCEPT !.resume = x] \in WorkerState
  BY DEF WorkerState
<1> QED
  BY <1>1, <1>2, <1>3, <1>4, <1>5, <1>6, <1>7, <1>8, <1>9, <1>10, Zenon

\* A session that goes to settle, with the object it holds.
LEMMA SettleFit ==
    ASSUME LedgerInv, NEW w \in Workers, NEW o \in Outcomes \ {"none"}
    PROVE  [wk[w] EXCEPT !.pc = "settle", !.outcome = o] \in Fit(wk[w].token)
<1> DEFINE s == [wk[w] EXCEPT !.pc = "settle", !.outcome = o]
<1>1. wk[w] \in WorkerState /\ "settle" \in Pcs
  BY WorkerFacts DEF Pcs
<1>2. s \in WorkerState
  BY <1>1, WorkerExcept, Zenon
<1>3. /\ s.token = wk[w].token /\ s.view = wk[w].view /\ s.mine = wk[w].mine
      /\ s.events = wk[w].events /\ s.pc = "settle" /\ s.outcome = o
  BY <1>1 DEF WorkerState
<1> QED
  BY <1>2, <1>3, WorkerFacts DEF Fit, Numbered, Quiet

\* A session that reloads the row, holding no callback, and goes on.
LEMMA ReloadFit ==
    ASSUME LedgerInv, NEW w \in Workers, wk[w].pc \in Quiet,
           NEW row \in Kin(run), NEW p \in Pcs \ {"settle"}, NEW o \in Outcomes \ {"none"}
    PROVE  /\ [wk[w] EXCEPT !.pc = "settle", !.view = run, !.mine = row, !.outcome = o] \in Fit(wk[w].token)
           /\ [wk[w] EXCEPT !.pc = p, !.view = run, !.mine = row] \in Fit(wk[w].token)
           /\ [wk[w] EXCEPT !.view = run, !.mine = row] \in Fit(wk[w].token)
<1>1. /\ wk[w] \in WorkerState /\ run \in Row /\ row \in Row
      /\ wk[w].events = <<>> /\ row.seq = run.seq /\ run.seq \in Nat
      /\ "settle" \in Pcs /\ wk[w].pc # "settle"
  BY WorkerFacts DEF Kin, Row, Pcs, Quiet
<1>2. ASSUME NEW s \in WorkerState, s.token = wk[w].token, s.events = wk[w].events,
             s.view = run, s.mine = row, s.pc = "settle" => s.outcome # "none"
      PROVE  s \in Fit(wk[w].token)
  BY <1>1, <1>2 DEF Fit, Numbered
<1>3. [wk[w] EXCEPT !.pc = "settle", !.view = run, !.mine = row, !.outcome = o] \in Fit(wk[w].token)
  <2> DEFINE s == [wk[w] EXCEPT !.pc = "settle", !.view = run, !.mine = row, !.outcome = o]
  <2>1. s \in WorkerState
    BY <1>1, WorkerExcept, Zenon
  <2>2. s.token = wk[w].token /\ s.events = wk[w].events /\ s.view = run /\ s.mine = row
        /\ s.outcome = o
    BY <1>1 DEF WorkerState
  <2> HIDE DEF s
  <2>3. s \in Fit(wk[w].token)
    BY <1>1, <1>2, <2>1, <2>2
  <2> QED
    BY <2>3 DEF s
<1>4. [wk[w] EXCEPT !.pc = p, !.view = run, !.mine = row] \in Fit(wk[w].token)
  <2> DEFINE s == [wk[w] EXCEPT !.pc = p, !.view = run, !.mine = row]
  <2>1. s \in WorkerState
    BY <1>1, WorkerExcept, Zenon
  <2>2. s.token = wk[w].token /\ s.events = wk[w].events /\ s.view = run /\ s.mine = row
        /\ s.pc = p
    BY <1>1 DEF WorkerState
  <2> HIDE DEF s
  <2>3. s \in Fit(wk[w].token)
    BY <1>1, <1>2, <2>1, <2>2
  <2> QED
    BY <2>3 DEF s
<1>5. [wk[w] EXCEPT !.view = run, !.mine = row] \in Fit(wk[w].token)
  <2> DEFINE s == [wk[w] EXCEPT !.view = run, !.mine = row]
  <2>1. s \in WorkerState
    BY <1>1, WorkerExcept, Zenon
  <2>2. s.token = wk[w].token /\ s.events = wk[w].events /\ s.view = run /\ s.mine = row
        /\ s.pc = wk[w].pc
    BY <1>1 DEF WorkerState
  <2> HIDE DEF s
  <2>3. s \in Fit(wk[w].token)
    BY <1>1, <1>2, <2>1, <2>2
  <2> QED
    BY <2>3 DEF s
<1> QED
  BY <1>3, <1>4, <1>5

\* A session that appends one callback to what it holds and goes to a place where
\* it may hold callbacks.
LEMMA AppendFit ==
    ASSUME LedgerInv, NEW w \in Workers, NEW row \in Kin(wk[w].mine), NEW t \in EventTypes
    PROVE  LET a == Append1(row, wk[w].events, t)
           IN  [wk[w] EXCEPT !.pc = "commit", !.mine = a.mine, !.events = a.events]
                  \in Fit(wk[w].token)
<1> DEFINE a == Append1(row, wk[w].events, t)
           s == [wk[w] EXCEPT !.pc = "commit", !.mine = a.mine, !.events = a.events]
<1>1. /\ wk[w] \in WorkerState /\ wk[w].events \in Seq(Event) /\ "commit" \in Pcs
      /\ wk[w].mine \in Row /\ wk[w].view \in Row
      /\ wk[w].mine.seq = wk[w].view.seq + Len(wk[w].events)
  BY WorkerFacts DEF Pcs, Numbered
<1>6. row \in Row /\ row.seq = wk[w].mine.seq
  BY DEF Kin
<1>7. wk[w].view.seq \in Nat /\ Len(wk[w].events) \in Nat /\ wk[w].mine.seq \in Nat
  BY <1>1 DEF Row
<1>2. /\ a.mine \in Row /\ a.events \in Seq(Event)
      /\ a.mine.seq = row.seq + 1 /\ Len(a.events) = Len(wk[w].events) + 1
  BY <1>1, <1>6, Append1Type, Zenon
<1> HIDE DEF a
<1>3. s \in WorkerState
  BY <1>1, <1>2, WorkerExcept, Zenon
<1>4. s.token = wk[w].token /\ s.events = a.events /\ s.view = wk[w].view /\ s.mine = a.mine
      /\ s.pc = "commit"
  BY <1>1 DEF WorkerState
<1> HIDE DEF s
<1>8. a.mine.seq = wk[w].view.seq + Len(a.events)
  <2>1. wk[w].mine.seq + 1 = wk[w].view.seq + (Len(wk[w].events) + 1)
    BY <1>1, <1>7, PlusOne
  <2> QED
    BY <1>2, <1>6, <2>1, Zenon
<1>9. Numbered(s)
  BY <1>4, <1>8 DEF Numbered
<1>5. s \in Fit(wk[w].token)
  BY <1>3, <1>4, <1>9 DEF Fit, Quiet
<1> QED
  BY <1>5 DEF a, s

\* Steps up to the claim, and the claim: the one step that issues a token.
LEMMA ClaimInv ==
    ASSUME LedgerInv, NEW w \in Workers, Poll(w) \/ Consume(w) \/ Claim(w)
    PROVE  LedgerInv'
<1>0. /\ wk[w] \in WorkerState /\ wk \in [Workers -> WorkerState] /\ run \in Row
      /\ {"notified", "claiming", "begin"} \subseteq Pcs
      /\ lock \in Workers \cup {Nobody}
  BY WorkerFacts DEF LedgerInv, TypeOK, Pcs
<1>1. CASE Poll(w)
  <2> DEFINE s == [wk[w] EXCEPT !.pc = "notified"]
  <2>1. wk' = [wk EXCEPT ![w] = s] /\ notice' = FALSE
        /\ UNCHANGED <<run, ckpt, log, lapsed, env, draining, lock, tx>>
    BY <1>1 DEF Poll, Goto
  <2>2. s \in WorkerState
    BY <1>0, WorkerExcept, Zenon
  <2>3. /\ s.token = wk[w].token /\ s.view = wk[w].view /\ s.mine = wk[w].mine
        /\ s.events = wk[w].events /\ wk[w].events = <<>> /\ s.pc = "notified"
    BY <1>0, <1>1, WorkerFacts DEF WorkerState, Poll, Quiet
  <2>4. s \in Fit(wk[w].token)
    BY <2>2, <2>3, WorkerFacts DEF Fit, Numbered
  <2> HIDE DEF s
  <2>5. TypeOK'
    BY <2>1, <2>2 DEF LedgerInv, TypeOK
  <2>6. \A v \in Workers : wk'[v] \in Fit(wk'[v].token) /\ wk'[v].token = wk[v].token
    BY <1>0, <2>1, <2>3, <2>4 DEF LedgerInv
  <2> QED
    BY <2>1, <2>5, <2>6 DEF LedgerInv, EventSeqIsGapless, TokensAreUnique, Numbered
<1>2. CASE Consume(w)
  <2> DEFINE r == run.status \in {"waiting_human", "partial"}
             s == [wk[w] EXCEPT !.pc = "claiming", !.resume = r]
  <2>1. s \in Fit(wk[w].token)
    <3>0. r \in BOOLEAN
      OBVIOUS
    <3> HIDE DEF r
    <3>1. s \in WorkerState
      BY <1>0, <3>0, WorkerExcept, Zenon
    <3>2. /\ s.token = wk[w].token /\ s.view = wk[w].view /\ s.mine = wk[w].mine
          /\ s.events = wk[w].events /\ wk[w].events = <<>> /\ s.pc = "claiming"
      BY <1>0, <1>2, WorkerFacts DEF WorkerState, Consume, Quiet
    <3> QED
      BY <3>1, <3>2, WorkerFacts DEF Fit, Numbered
  <2>2. \/ wk' = [wk EXCEPT ![w] = s]
        \/ wk' = [wk EXCEPT ![w] = IdleWorker]
    BY <1>2 DEF Consume
  <2>3. UNCHANGED <<run, ckpt, log, notice, lapsed, env, draining, lock, tx>>
    BY <1>2 DEF Consume
  <2> HIDE DEF s
  <2> QED
    BY <1>0, <2>1, <2>2, <2>3, IdleType, LocalInv
<1>3. CASE Claim(w)
  <2>1. UNCHANGED <<ckpt, log, notice, lapsed, env, draining, lock, tx>>
    BY <1>3 DEF Claim
  <2>2. CASE ~Claimable
    <3>1. run' = run /\ wk' = [wk EXCEPT ![w] = IdleWorker]
      BY <1>3, <2>2 DEF Claim
    <3> QED
      BY <1>0, <2>1, <3>1, IdleType, LocalInv
  <2>3. CASE Claimable
    <3> DEFINE q == [run EXCEPT !.dispatch = "claimed", !.owner = w, !.lease = "granted"]
               s == [wk[w] EXCEPT !.pc = "begin", !.token = run.token + 1]
    <3>1. /\ run' = [run EXCEPT !.dispatch = "claimed", !.owner = w,
                                !.token = @ + 1, !.lease = "granted"]
          /\ wk' = [wk EXCEPT ![w] = s]
      BY <1>0, <1>3, <2>3 DEF Claim
    <3>2. run.token \in Nat /\ run.token + 1 \in Nat /\ run.seq \in Nat
      BY <1>0 DEF Row
    <3>3. q \in Kin(run)
      BY <1>0, KinSelf, KinExcept, Zenon
    <3>4. run' = [q EXCEPT !.token = run.token + 1]
      BY <1>0, <3>1 DEF Row
    <3>5. run' \in Row /\ run'.token = run.token + 1 /\ run'.seq = run.seq
      <4> HIDE DEF q
      <4> QED
        BY <3>2, <3>3, <3>4 DEF Kin, Row
    <3>6. s \in WorkerState
      BY <1>0, <3>2, WorkerExcept, Zenon
    <3>7. /\ s.token = run.token + 1 /\ s.view = wk[w].view /\ s.mine = wk[w].mine
          /\ s.events = wk[w].events /\ wk[w].events = <<>> /\ s.pc = "begin"
      BY <1>0, <1>3, WorkerFacts DEF WorkerState, Claim, Quiet
    <3>8. s \in Fit(run.token + 1)
      BY <3>6, <3>7, WorkerFacts DEF Fit, Numbered
    <3> HIDE DEF s, q
    <3>9. TypeOK'
      BY <2>1, <3>1, <3>5, <3>6 DEF LedgerInv, TypeOK
    <3>10. \A v \in Workers : wk'[v] \in Fit(wk'[v].token)
      BY <1>0, <3>1, <3>7, <3>8 DEF LedgerInv
    <3>11. TokensAreUnique'
      <4>1. \A v \in Workers : wk'[v].token = IF v = w THEN run.token + 1 ELSE wk[v].token
        BY <1>0, <3>1, <3>7
      <4>2. \A v \in Workers : wk[v].token \in Nat /\ wk[v].token <= run.token
        BY WorkerFacts DEF LedgerInv, TokensAreUnique
      <4> QED
        BY <3>2, <3>5, <4>1, <4>2 DEF LedgerInv, TokensAreUnique
    <3> QED
      BY <2>1, <3>5, <3>9, <3>10, <3>11 DEF LedgerInv, EventSeqIsGapless
  <2> QED
    BY <2>2, <2>3
<1> QED
  BY <1>1, <1>2, <1>3

\* The start of an execution: run_started is numbered after the row just loaded.
LEMMA ExecuteInv == ASSUME LedgerInv, NEW w \in Workers, Execute(w) PROVE LedgerInv'
<1> DEFINE fresh == [run EXCEPT !.fallback = FALSE]
           voided == [fresh EXCEPT !.cancel = TRUE]
           started == [fresh EXCEPT !.status = "running", !.sv = @ + 1]
           a == Append1(started, <<>>, "run_started")
           s == [wk[w] EXCEPT !.pc = "beat", !.view = run, !.mine = a.mine, !.events = a.events]
<1>0. /\ run \in Row /\ run \in Kin(run) /\ wk[w] \in WorkerState /\ wk[w].pc \in Quiet
      /\ {"settle", "beat"} \subseteq Pcs /\ "beat" # "settle" /\ {"pending", "failed", "cancelled"} \subseteq Outcomes \ {"none"}
      /\ lock \in Workers \cup {Nobody} /\ "running" \in Statuses /\ "run_started" \in EventTypes
  BY RunKin, WorkerFacts DEF Execute, Quiet, Pcs, Outcomes, Terminal, LedgerInv, TypeOK,
     Statuses, EventTypes
<1>1. UNCHANGED <<run, ckpt, log, notice, lapsed, env, draining, lock, tx>>
  BY DEF Execute
<1>2. fresh \in Kin(run)
  BY <1>0, KinExcept, Zenon
<1>3. voided \in Kin(run) /\ started \in Kin(run)
  <2> HIDE DEF fresh
  <2> QED
    BY <1>0, <1>2, KinExcept, Zenon
<1>4. \/ \E row \in {run, fresh, voided}, o \in Outcomes \ {"none"} : Result(w, row, o)
      \/ wk' = [wk EXCEPT ![w] = [wk[w] EXCEPT !.pc = "beat", !.view = run, !.mine = fresh]]
      \/ wk' = [wk EXCEPT ![w] = s]
  <2> HIDE DEF voided
  <2> QED
    BY <1>0 DEF Execute, voided
<1>5. s \in Fit(wk[w].token)
  <2> HIDE DEF started
  <2>1. /\ a.mine \in Row /\ a.events \in Seq(Event)
        /\ a.mine.seq = run.seq + Len(a.events)
    BY <1>0, <1>3, OneEvent
  <2> HIDE DEF a
  <2>2. s \in WorkerState
    BY <1>0, <2>1, WorkerExcept, Zenon
  <2>3. /\ s.token = wk[w].token /\ s.events = a.events /\ s.view = run /\ s.mine = a.mine
        /\ s.pc = "beat"
    BY <1>0 DEF WorkerState
  <2> HIDE DEF s
  <2> QED
    BY <2>1, <2>2, <2>3 DEF Fit, Numbered, Quiet
<1> HIDE DEF fresh, voided, s
<1>6. CASE \E row \in {run, fresh, voided}, o \in Outcomes \ {"none"} : Result(w, row, o)
  <2>1. PICK row \in Kin(run), o \in Outcomes \ {"none"} : Result(w, row, o)
    BY <1>0, <1>2, <1>3, <1>6
  <2>2. [wk[w] EXCEPT !.pc = "settle", !.view = run, !.mine = row, !.outcome = o]
           \in Fit(wk[w].token)
    BY <1>0, ReloadFit
  <2> QED
    BY <1>0, <1>1, <2>1, <2>2, LocalInv DEF Result
<1>7. CASE wk' = [wk EXCEPT ![w] = [wk[w] EXCEPT !.pc = "beat", !.view = run, !.mine = fresh]]
  <2>1. [wk[w] EXCEPT !.pc = "beat", !.view = run, !.mine = fresh] \in Fit(wk[w].token)
    BY <1>0, <1>2, ReloadFit
  <2> QED
    BY <1>0, <1>1, <1>7, <2>1, LocalInv
<1>8. CASE wk' = [wk EXCEPT ![w] = s]
  BY <1>0, <1>1, <1>5, <1>8, LocalInv
<1> QED
  BY <1>4, <1>6, <1>7, <1>8

\* Before a later node, on the object the session holds.
LEMMA NextNodeInv == ASSUME LedgerInv, NEW w \in Workers, NextNode(w) PROVE LedgerInv'
<1> DEFINE s == [wk[w] EXCEPT !.pc = "settle", !.outcome = "cancelled", !.mine.cancel = TRUE]
           b == [wk[w] EXCEPT !.pc = "beat"]
<1>0. /\ wk[w] \in WorkerState /\ lock \in Workers \cup {Nobody}
      /\ {"settle", "beat"} \subseteq Pcs /\ "beat" # "settle" /\ {"pending", "failed", "cancelled"} \subseteq Outcomes \ {"none"}
  BY WorkerFacts DEF Pcs, Outcomes, Terminal, LedgerInv, TypeOK
<1>1. UNCHANGED <<run, ckpt, log, notice, lapsed, env, draining, lock, tx>>
  BY DEF NextNode
<1>2. \/ \E o \in Outcomes \ {"none"} : wk' = [wk EXCEPT ![w] = [wk[w] EXCEPT !.pc = "settle", !.outcome = o]]
      \/ wk' = [wk EXCEPT ![w] = s]
      \/ wk' = [wk EXCEPT ![w] = b]
  BY <1>0 DEF NextNode
<1>3. b \in Fit(wk[w].token)
  <2>1. b \in WorkerState
    BY <1>0, WorkerExcept, Zenon
  <2>2. /\ b.token = wk[w].token /\ b.view = wk[w].view /\ b.mine = wk[w].mine
        /\ b.events = wk[w].events /\ b.pc = "beat"
    BY <1>0 DEF WorkerState
  <2> QED
    BY <2>1, <2>2, WorkerFacts DEF Fit, Numbered, Quiet
<1>4. s \in Fit(wk[w].token)
  <2> DEFINE row == [wk[w].mine EXCEPT !.cancel = TRUE]
  <2>1. row \in Kin(wk[w].mine)
    BY WorkerFacts, KinSelf, KinExcept, Zenon
  <2>2. row \in Row /\ row.seq = wk[w].mine.seq
    BY <2>1 DEF Kin
  <2>3. s = [wk[w] EXCEPT !.pc = "settle", !.outcome = "cancelled", !.mine = row]
    BY <1>0 DEF WorkerState
  <2> HIDE DEF row
  <2>4. s \in WorkerState
    BY <1>0, <2>2, <2>3, WorkerExcept, Zenon
  <2>5. /\ s.token = wk[w].token /\ s.view = wk[w].view /\ s.mine = row
        /\ s.events = wk[w].events /\ s.pc = "settle" /\ s.outcome = "cancelled"
    BY <1>0, <2>3 DEF WorkerState
  <2> HIDE DEF s
  <2> QED
    BY <2>2, <2>4, <2>5, WorkerFacts DEF Fit, Numbered, Quiet
<1> HIDE DEF s, b
<1> QED
  BY <1>0, <1>1, <1>2, <1>3, <1>4, SettleFit, LocalInv

\* The heartbeat: a commit, or nothing.
LEMMA HeartbeatInv == ASSUME LedgerInv, NEW w \in Workers, Heartbeat(w) PROVE LedgerInv'
<1>0. wk[w] \in WorkerState /\ {"work", "save"} \subseteq Pcs /\ "failed" \in Outcomes \ {"none"}
      /\ lock \in Workers \cup {Nobody}
  BY WorkerFacts DEF Pcs, Outcomes, Terminal, LedgerInv, TypeOK
<1>1. UNCHANGED <<lapsed, env, draining, tx>>
  BY DEF Heartbeat
<1>2. CASE Renewable(w)
  <2> DEFINE p == IF wk[w].pc = "beat" THEN "work" ELSE "save"
             n == NewRow("held")
             s == [wk[w] EXCEPT !.pc = p, !.view = n, !.mine = n, !.events = <<>>, !.save = {}]
  <2>1. Commit(w, Flush(wk[w]), s)
    BY <1>0, <1>2 DEF Heartbeat
  <2>2. p \in Pcs /\ p # "settle" /\ n \in Row /\ n.seq = 0 /\ <<>> \in Seq(Event) /\ {} \in SUBSET (Nat \X Nat)
    BY <1>0, NewRowType DEF NewRow
  <2> HIDE DEF p, n
  <2>3. s \in WorkerState
    BY <1>0, <2>2, WorkerExcept, Zenon
  <2>4. s.token = wk[w].token /\ s.view = n /\ s.mine = n /\ s.events = <<>> /\ s.pc = p
    BY <1>0 DEF WorkerState
  <2> HIDE DEF s
  <2>5. s \in Fit(wk[w].token)
    BY <2>2, <2>3, <2>4 DEF Fit, Numbered
  <2> QED
    BY <1>1, <2>1, <2>5, CommitInv
<1>3. CASE ~Renewable(w)
  <2>1. /\ wk' = [wk EXCEPT ![w] = [wk[w] EXCEPT !.pc = "settle", !.outcome = "failed"]]
        /\ UNCHANGED <<run, ckpt, log, notice, lock>>
    BY <1>0, <1>3 DEF Heartbeat
  <2> QED
    BY <1>0, <1>1, <2>1, SettleFit, LocalInv
<1> QED
  BY <1>2, <1>3

\* Leaving a node behind keeps the session's numbering.
LEMMA OnwardFit ==
    ASSUME NEW s \in WorkerState, Numbered(s)
    PROVE  Onward(s) \in Fit(s.token)
<1> DEFINE n == [s EXCEPT !.pc = "node", !.node = s.node + 1]
           o == IF s.outcome = "partial" THEN "partial" ELSE "succeeded"
           e == [s EXCEPT !.pc = "settle", !.outcome = o]
<1>0. {"node", "settle"} \subseteq Pcs /\ o \in Outcomes /\ o # "none"
  BY DEF Pcs, Outcomes, Terminal
<1>1. Onward(s) = n \/ Onward(s) = e
  BY DEF Onward
<1> HIDE DEF o
<1>2. n \in WorkerState /\ e \in WorkerState
  BY <1>0, WorkerExcept, Zenon
<1>3. /\ n.token = s.token /\ n.view = s.view /\ n.mine = s.mine /\ n.events = s.events
      /\ n.pc = "node"
      /\ e.token = s.token /\ e.view = s.view /\ e.mine = s.mine /\ e.events = s.events
      /\ e.pc = "settle" /\ e.outcome = o
  BY DEF WorkerState
<1> HIDE DEF n, e
<1> QED
  BY <1>0, <1>1, <1>2, <1>3 DEF Fit, Numbered, Quiet

\* While a node runs.
LEMMA WorkInv ==
    ASSUME LedgerInv, NEW w \in Workers,
           Work(w) \/ NodeCommits(w) \/ NodeFails(w) \/ OptionalFails(w)
    PROVE  LedgerInv'
<1>0. /\ wk[w] \in WorkerState /\ run \in Kin(run) /\ "exec" \in Pcs \ {"settle"}
      /\ {"failed", "partial"} \subseteq Outcomes \ {"none"}
      /\ lock \in Workers \cup {Nobody}
      /\ wk[w].pc \in Quiet
  BY RunKin, WorkerFacts DEF Pcs, Outcomes, Terminal, LedgerInv, TypeOK, Quiet,
     Work, NodeCommits, NodeFails, OptionalFails
<1>1. UNCHANGED <<run, ckpt, log, notice, lapsed, env, draining, lock, tx>>
  BY DEF Work, NodeCommits, NodeFails, OptionalFails
<1>2. CASE Work(w)
  <2>1. \/ wk' = [wk EXCEPT ![w] = [wk[w] EXCEPT !.pc = "exec", !.view = run, !.mine = run]]
        \/ wk' = [wk EXCEPT ![w] = [wk[w] EXCEPT !.pc = "settle", !.view = run, !.mine = run,
                                                 !.outcome = "failed"]]
    BY <1>0, <1>2 DEF Work, Result
  <2>2. /\ [wk[w] EXCEPT !.pc = "exec", !.view = run, !.mine = run] \in Fit(wk[w].token)
        /\ [wk[w] EXCEPT !.pc = "settle", !.view = run, !.mine = run, !.outcome = "failed"]
              \in Fit(wk[w].token)
    BY <1>0, ReloadFit
  <2> QED
    BY <1>0, <1>1, <2>1, <2>2, LocalInv
<1>3. CASE NodeCommits(w)
  <2>1. wk' = [wk EXCEPT ![w] = [wk[w] EXCEPT !.view = run, !.mine = run]]
    BY <1>0, <1>3 DEF NodeCommits
  <2>2. [wk[w] EXCEPT !.view = run, !.mine = run] \in Fit(wk[w].token)
    BY <1>0, ReloadFit
  <2> QED
    BY <1>0, <1>1, <2>1, <2>2, LocalInv
<1>4. CASE NodeFails(w)
  <2>1. wk' = [wk EXCEPT ![w] = [wk[w] EXCEPT !.pc = "settle", !.outcome = "failed"]]
    BY <1>0, <1>4 DEF NodeFails
  <2> QED
    BY <1>0, <1>1, <2>1, SettleFit, LocalInv
<1>5. CASE OptionalFails(w)
  <2> DEFINE s == [wk[w] EXCEPT !.outcome = "partial"]
  <2>1. wk' = [wk EXCEPT ![w] = Onward(s)]
    BY <1>0, <1>5 DEF OptionalFails
  <2>2. s \in WorkerState
    BY <1>0, WorkerExcept, Zenon
  <2>3. s.token = wk[w].token /\ s.view = wk[w].view /\ s.mine = wk[w].mine /\ s.events = wk[w].events
    BY <1>0 DEF WorkerState
  <2> HIDE DEF s
  <2>4. Onward(s) \in Fit(wk[w].token)
    BY <2>2, <2>3, WorkerFacts, OnwardFit DEF Numbered
  <2> QED
    BY <1>0, <1>1, <2>1, <2>4, LocalInv
<1> QED
  BY <1>2, <1>3, <1>4, <1>5

\* The node boundary: step_changed is numbered after the row it locks.
LEMMA SaveNodeInv == ASSUME LedgerInv, NEW w \in Workers, SaveNode(w) PROVE LedgerInv'
<1> DEFINE k == {<<wk[w].token, wk[w].node + 1>>}
           s == [wk[w] EXCEPT !.view = run, !.mine = run, !.save = k]
           a == Append1(run, <<>>, "step_changed")
           d == [s EXCEPT !.pc = "settle", !.outcome = "pending"]
           h == [s EXCEPT !.pc = "pause"]
           n == [s EXCEPT !.mine = a.mine, !.events = a.events]
<1>0. /\ wk[w] \in WorkerState /\ run \in Row /\ run \in Kin(run) /\ run.seq \in Nat
      /\ {"settle", "pause"} \subseteq Pcs /\ "pause" \in Pcs \ {"settle"}
      /\ {"failed", "pending"} \subseteq Outcomes \ {"none"}
      /\ lock \in Workers \cup {Nobody} /\ "step_changed" \in EventTypes
      /\ wk[w].pc \in Quiet
  BY RunKin, WorkerFacts DEF Pcs, Outcomes, Terminal, LedgerInv, TypeOK, Quiet, SaveNode,
     EventTypes, Row
<1>1. UNCHANGED <<run, ckpt, log, notice, lapsed, env, draining, tx>>
  BY DEF SaveNode
<1>2. \/ Result(w, run, "failed") /\ UNCHANGED lock
      \/ lock' = w /\ \E x \in {d, h, Onward(n)} : wk' = [wk EXCEPT ![w] = x]
  BY DEF SaveNode
<1>3. k \in SUBSET (Nat \X Nat)
  BY WorkerFacts
<1> HIDE DEF k
<1>4. /\ s \in WorkerState /\ s.token = wk[w].token /\ s.view = run /\ s.mine = run
      /\ s.events = <<>>
  <2>1. s \in WorkerState
    BY <1>0, <1>3, WorkerExcept, Zenon
  <2>2. s.token = wk[w].token /\ s.view = run /\ s.mine = run /\ s.events = wk[w].events
    BY <1>0 DEF WorkerState
  <2> QED
    BY <1>0, <2>1, <2>2, WorkerFacts
<1> HIDE DEF s
<1>5. d \in Fit(wk[w].token) /\ h \in Fit(wk[w].token)
  <2>1. d \in WorkerState /\ h \in WorkerState
    BY <1>0, <1>4, WorkerExcept, Zenon
  <2>2. /\ d.token = s.token /\ d.view = s.view /\ d.mine = s.mine /\ d.events = s.events
        /\ d.outcome = "pending" /\ h.pc = "pause"
        /\ h.token = s.token /\ h.view = s.view /\ h.mine = s.mine /\ h.events = s.events
    BY <1>4 DEF WorkerState
  <2> HIDE DEF d, h
  <2> QED
    BY <1>0, <1>4, <2>1, <2>2 DEF Fit, Numbered
<1>6. Onward(n) \in Fit(wk[w].token)
  <2>1. /\ a.mine \in Row /\ a.events \in Seq(Event)
        /\ a.mine.seq = run.seq + Len(a.events)
    BY <1>0, OneEvent
  <2> HIDE DEF a
  <2>2. n \in WorkerState
    BY <1>4, <2>1, WorkerExcept, Zenon
  <2>3. n.token = s.token /\ n.view = s.view /\ n.mine = a.mine /\ n.events = a.events
    BY <1>4 DEF WorkerState
  <2> HIDE DEF n
  <2>4. Numbered(n)
    BY <1>4, <2>1, <2>3 DEF Numbered
  <2> QED
    BY <1>4, <2>2, <2>3, <2>4, OnwardFit
<1> HIDE DEF d, h, n
<1>7. CASE Result(w, run, "failed") /\ UNCHANGED lock
  <2>1. wk' = [wk EXCEPT ![w] = [wk[w] EXCEPT !.pc = "settle", !.view = run, !.mine = run,
                                              !.outcome = "failed"]]
    BY <1>0, <1>7 DEF Result
  <2>2. [wk[w] EXCEPT !.pc = "settle", !.view = run, !.mine = run, !.outcome = "failed"]
           \in Fit(wk[w].token)
    BY <1>0, ReloadFit
  <2> QED
    BY <1>0, <1>1, <1>7, <2>1, <2>2, LocalInv
<1>8. CASE lock' = w /\ \E x \in {d, h, Onward(n)} : wk' = [wk EXCEPT ![w] = x]
  BY <1>1, <1>5, <1>6, <1>8, LocalInv
<1> QED
  BY <1>2, <1>7, <1>8

\* What gives the run up keeps the numbers of the row.
LEMMA ClosedKin ==
    ASSUME NEW r \in Row, NEW st \in Statuses
    PROVE  /\ Closed(r, st) \in Kin(r)
           /\ [Closed(r, st) EXCEPT !.fallback = FALSE] \in Kin(r)
<1>1. Closed(r, st) \in Kin(r)
  BY KinSelf, KinExcept, Zenon DEF Closed
<1> QED
  BY <1>1, KinExcept, Zenon

\* pause_for_human, finish, finish_after_invalid_boundary and release_for_drain,
\* up to their commit.
LEMMA SettleInv ==
    ASSUME LedgerInv, NEW w \in Workers, PauseForHuman(w) \/ Settle(w)
    PROVE  LedgerInv'
<1>0. /\ wk[w] \in WorkerState /\ wk[w].mine \in Row /\ lock \in Workers \cup {Nobody}
      /\ "failed" \in Outcomes \ {"none"} /\ "commit" \in Pcs
      /\ {"waiting_human", "cancelled"} \subseteq (Statuses \cap EventTypes)
  BY WorkerFacts DEF Pcs, Outcomes, Terminal, LedgerInv, TypeOK, Statuses, EventTypes
<1>1. CASE PauseForHuman(w)
  <2> DEFINE row == Closed(wk[w].mine, "waiting_human")
             a == Append1(row, wk[w].events, "waiting_human")
             s == [wk[w] EXCEPT !.pc = "commit", !.mine = a.mine, !.events = a.events]
  <2>1. s \in Fit(wk[w].token)
    <3>1. row \in Kin(wk[w].mine)
      BY <1>0, ClosedKin
    <3> HIDE DEF row
    <3> QED
      BY <1>0, <3>1, AppendFit
  <2>2. /\ \/ wk' = [wk EXCEPT ![w] = s]
           \/ wk' = [wk EXCEPT ![w] = [wk[w] EXCEPT !.pc = "settle", !.outcome = "failed"]]
        /\ UNCHANGED <<run, ckpt, log, notice, lapsed, env, draining, lock, tx>>
    BY <1>0, <1>1 DEF PauseForHuman
  <2> HIDE DEF s
  <2> QED
    BY <1>0, <2>1, <2>2, SettleFit, LocalInv
<1>2. CASE Settle(w)
  <2> DEFINE o == wk[w].outcome
             fin == [Closed(wk[w].mine, o) EXCEPT !.fallback = FALSE]
             done == Append1(fin, wk[w].events, o)
             void == Append1(Closed(wk[w].mine, "cancelled"), wk[w].events, "cancelled")
             x == [wk[w] EXCEPT !.pc = "commit", !.mine = done.mine, !.events = done.events]
             y == [wk[w] EXCEPT !.pc = "commit", !.mine = void.mine, !.events = void.events]
             z == [wk[w] EXCEPT !.pc = "commit", !.mine.lease = "released"]
  <2>0. UNCHANGED <<lapsed, env, draining, tx>>
    BY <1>2 DEF Settle
  <2>1. \/ Abandon(w)
        \/ /\ UNCHANGED <<run, ckpt, log, notice, lock>>
           /\ \/ wk' = [wk EXCEPT ![w] = z]
              \/ wk' = [wk EXCEPT ![w] = y]
              \/ CanWrite(w, wk[w].mine) /\ o # "pending" /\ wk' = [wk EXCEPT ![w] = x]
    BY <1>0, <1>2 DEF Settle
  <2>2. y \in Fit(wk[w].token)
    <3>1. Closed(wk[w].mine, "cancelled") \in Kin(wk[w].mine)
      BY <1>0, ClosedKin
    <3> QED
      BY <1>0, <3>1, AppendFit
  <2>3. z \in Fit(wk[w].token)
    <3> DEFINE row == [wk[w].mine EXCEPT !.lease = "released"]
    <3>1. row \in Kin(wk[w].mine)
      BY <1>0, KinSelf, KinExcept, Zenon
    <3>2. row \in Row /\ row.seq = wk[w].mine.seq
      BY <3>1 DEF Kin
    <3>3. z = [wk[w] EXCEPT !.pc = "commit", !.mine = row]
      BY <1>0 DEF WorkerState
    <3> HIDE DEF row
    <3>4. z \in WorkerState
      BY <1>0, <3>2, <3>3, WorkerExcept, Zenon
    <3>5. /\ z.token = wk[w].token /\ z.view = wk[w].view /\ z.mine = row
          /\ z.events = wk[w].events /\ z.pc = "commit"
      BY <1>0, <3>3 DEF WorkerState
    <3> HIDE DEF z
    <3> QED
      BY <3>2, <3>4, <3>5, WorkerFacts DEF Fit, Numbered, Quiet
  <2>4. ASSUME o \in Terminal PROVE x \in Fit(wk[w].token)
    <3>1. o \in Statuses /\ o \in EventTypes
      BY <2>4 DEF Statuses, EventTypes
    <3>2. fin \in Kin(wk[w].mine)
      BY <1>0, <3>1, ClosedKin
    <3> HIDE DEF fin, o
    <3> QED
      BY <3>1, <3>2, AppendFit
  <2>5. wk[w].outcome \in Terminal \cup {"pending"}
    BY <1>0, <1>2, WorkerFacts DEF Settle, WorkerState
  <2> HIDE DEF x, y, z
  <2> QED
    BY <1>0, <2>0, <2>1, <2>2, <2>3, <2>4, <2>5, LocalInv, AbandonInv
<1> QED
  BY <1>1, <1>2

\* The commit that ends the worker's session.
LEMMA CommitResultInv == ASSUME LedgerInv, NEW w \in Workers, CommitResult(w) PROVE LedgerInv'
BY IdleType, CommitInv DEF CommitResult

\* LedgerInv holds initially.
LEMMA LedgerInit == ASSUME Init PROVE LedgerInv
<1>1. PICK mode : run = NewRow(mode) /\ notice \in BOOLEAN
  BY DEF Init
<1>2. run \in Row /\ run.seq = 0 /\ run.token = 0
  BY <1>1, NewRowType DEF NewRow
<1>3. /\ ckpt = {} /\ log = <<>> /\ lapsed = {} /\ draining = {} /\ lock = Nobody
      /\ env = [due |-> FALSE, pkg |-> TRUE, auth |-> "current"]
      /\ wk = [w \in Workers |-> IdleWorker] /\ tx = [c \in Sessions |-> IdleTx]
  BY DEF Init
<1>4. TypeOK
  BY <1>1, <1>2, <1>3, IdleType DEF TypeOK
<1>5. IdleWorker.token = 0
  BY DEF IdleWorker
<1>6. EventSeqIsGapless /\ TokensAreUnique
  BY <1>2, <1>3, <1>5 DEF EventSeqIsGapless, TokensAreUnique
<1>7. /\ \A w \in Workers : wk[w] \in Fit(wk[w].token)
      /\ \A c \in Sessions : Numbered(tx[c])
  BY <1>3, <1>5, IdleType
<1> QED
  BY <1>4, <1>6, <1>7 DEF LedgerInv

\* Every step, and every stuttering step, keeps LedgerInv.
LEMMA LedgerNext == ASSUME LedgerInv, [Next]_vars PROVE LedgerInv'
<1>1. CASE UNCHANGED vars
  BY <1>1 DEF vars, LedgerInv, TypeOK, EventSeqIsGapless, TokensAreUnique, Numbered
<1>2. CASE \E c \in Clients : Api(c)
  BY <1>2, ApiInv DEF Api, Sessions
<1>3. CASE \E c \in Sessions : TxCommit(c)
  BY <1>3, TxCommitInv
<1>4. CASE CompletePurgeBegin \/ Approve \/ Reject
  BY <1>4, CompletePurgeInv, DecisionInv
<1>5. CASE \E w \in Workers : Worker(w)
  BY <1>5, ClaimInv, ExecuteInv, NextNodeInv, HeartbeatInv, WorkInv, SaveNodeInv, SettleInv,
     CommitResultInv DEF Worker
<1>6. CASE Reconcile \/ Environment
  BY <1>6, ReconcileInv, EnvironmentInv
<1> QED
  BY <1>1, <1>2, <1>3, <1>4, <1>5, <1>6 DEF Next

\* The inductive invariant holds in every reachable state.
THEOREM LedgerInvariant == Spec => []LedgerInv
BY LedgerInit, LedgerNext, PTL DEF Spec

-----------------------------------------------------------------------------
(* The theorems. *)

\* Every column of the run and every session object keeps to its type, whatever
\* the API, the workers, the reaper and the reconciler do.
THEOREM TypeCorrect == Spec => []TypeOK
<1>1. LedgerInv => TypeOK
  BY DEF LedgerInv
<1> QED
  BY <1>1, LedgerInvariant, PTL

\* last_event_seq counts the committed callbacks: the numbers that
\* append_callback_event hands out in concurrent sessions are neither reused nor
\* skipped, for any number of workers, requests and attempts.
THEOREM EventNumbersGapless == Spec => []EventSeqIsGapless
<1>1. LedgerInv => EventSeqIsGapless
  BY DEF LedgerInv
<1> QED
  BY <1>1, LedgerInvariant, PTL

\* No two workers ever hold the same fencing token, and none holds a token that
\* LeaseService.claim has not issued.
THEOREM FencingTokensUnique == Spec => []TokensAreUnique
<1>1. LedgerInv => TokensAreUnique
  BY DEF LedgerInv
<1> QED
  BY <1>1, LedgerInvariant, PTL

-----------------------------------------------------------------------------
(***************************************************************************)
(* The history of a run: the order of the callbacks, the outcome, and the  *)
(* purge.                                                                  *)
(*                                                                         *)
(* The argument: a session acts on the row it has loaded, and a session    *)
(* that appends callbacks commits only if none was committed since.  So    *)
(* what the row said then about the callbacks before it still holds        *)
(* (Seen).  A session that has a checkpoint to save holds the row's lock,  *)
(* so that nobody has withdrawn the run's privacy meanwhile (SaveFits).    *)
(***************************************************************************)

(* The inductive invariant. *)

\* An attempt that still writes comes after every attempt that has ended.
Over(i, t) == log[i].type \in Terminal => log[i].token < t

\* The committed row and its callbacks.
LogFits ==
    /\ CallbacksInOrder
    /\ \A i \in 1..Len(log) : log[i].token <= run.token
    /\ run.dispatch = "claimed" /\ ~run.cancel => \A i \in 1..Len(log) : Over(i, run.token)
    /\ log = <<>> => run.status = "pending" /\ run.dispatch # "finished"

\* A row v that some session has loaded: the same of the callbacks it has counted, and
\* what cannot have changed since without another callback.
Seen(v) ==
    /\ v.seq <= Len(log)
    /\ \A i \in 1..v.seq : log[i].token <= v.token
    /\ v.dispatch = "claimed" /\ ~v.cancel => \A i \in 1..v.seq : Over(i, v.token)
    /\ v.cancel => run.cancel
    /\ v.seq = Len(log) => /\ run.dispatch = "finished" => v.dispatch = "finished"
                           /\ run.status # "pending" => v.status = run.status

\* What a worker's object has in common with the row it was loaded from.
SameRow(s) ==
    /\ s.mine.token = s.view.token /\ s.mine.privacy = s.view.privacy
    /\ s.view.cancel => s.mine.cancel
    /\ s.pc # "commit" \/ s.events = <<>> => s.mine.dispatch = s.view.dispatch
    /\ s.events = <<>> => s.mine.status = s.view.status

\* A worker appends callbacks only to a row it holds, and ends the run last.
OwnEvents(s) ==
    /\ s.events # <<>> => s.view.token = s.token /\ s.view.dispatch = "claimed"
    /\ \A i \in 1..Len(s.events) :
         /\ s.events[i].type \notin Terminal => ~s.view.cancel
         /\ s.events[i].type \in Terminal =>
              i = Len(s.events) /\ s.pc = "commit" /\ s.mine.dispatch = "finished"

WorkerFits(s) == Seen(s.view) /\ SameRow(s) /\ OwnEvents(s)

\* A request appends one callback or none, and only withdraws.
RequestFits(s) ==
    /\ s.view.cancel => s.mine.cancel
    /\ s.events # <<>> =>
         /\ Len(s.events) = 1 /\ s.events[1].type = "cancelled"
         /\ s.mine.cancel /\ s.mine.status = "cancelled" /\ Cancellable(s.view)
    /\ s.events = <<>> => /\ s.mine.dispatch \in {s.view.dispatch, "queued"}
                          /\ s.mine.status \in {s.view.status, "pending"}
    /\ \/ s.mine.privacy \in {s.view.privacy, "purge_requested"}
       \/ s.op = "complete_purge" /\ s.mine.privacy = "purged"

TxFits(s) == Seen(s.view) /\ RequestFits(s)

\* A checkpoint is saved under the lock of the row, which has not changed since.
SaveFits ==
    \A w \in Workers : wk[w].save # {} => lock = w /\ wk[w].view = run /\ run.privacy = "active"

\* The scan deletes every checkpoint: none is added while it is open.
PurgeFits ==
    \A c \in Sessions :
        tx[c].op = "complete_purge" => run.privacy # "active" /\ ckpt \subseteq tx[c].drop

History ==
    /\ LogFits
    /\ \A w \in Workers : WorkerFits(wk[w])
    /\ \A c \in Sessions : TxFits(tx[c])
    /\ SaveFits /\ PurgeFits /\ PurgedHasNoCheckpoint

Ledger == LedgerInv /\ History

-----------------------------------------------------------------------------
(* The log and the rows that sessions have loaded. *)

\* The log after a commit
LEMMA LogAt ==
    ASSUME LedgerInv, NEW es \in Seq(Event), NEW t \in Nat, log' = log \o Stamp(es, t)
    PROVE  /\ Len(log) \in Nat /\ Len(es) \in Nat /\ Len(log') = Len(log) + Len(es)
           /\ \A i \in 1..Len(log) : log'[i] = log[i]
           /\ \A i \in 1..Len(log') :
                i \notin 1..Len(log) => /\ i - Len(log) \in 1..Len(es)
                                        /\ log'[i].type = es[i - Len(log)].type
                                        /\ log'[i].token = t
<1>1. log \in Seq(LogEvent) /\ Stamp(es, t) \in Seq(LogEvent) /\ Len(Stamp(es, t)) = Len(es)
  BY StampType DEF LedgerInv, TypeOK
<1>2. Len(log) \in Nat /\ Len(es) \in Nat
  BY <1>1, LenProperties
<1>3. Len(log') = Len(log) + Len(es)
  BY <1>1, ConcatLen
<1>4. \A i \in 1..Len(log) : log'[i] = log[i]
  BY <1>1, <1>2, ConcatProperties
<1>5. ASSUME NEW i \in 1..Len(log'), i \notin 1..Len(log)
      PROVE  /\ i - Len(log) \in 1..Len(es) /\ log'[i].type = es[i - Len(log)].type
             /\ log'[i].token = t
  <2>1. i - Len(log) \in 1..Len(es)
    BY <1>2, <1>3, <1>5
  <2>2. log'[i] = Stamp(es, t)[i - Len(log)]
    BY <1>1, <1>2, <1>3, <1>5, ConcatProperties
  <2>3. Stamp(es, t)[i - Len(log)] =
          [type |-> es[i - Len(log)].type, sv |-> es[i - Len(log)].sv, token |-> t]
    BY <2>1 DEF Stamp
  <2> QED
    BY <2>1, <2>2, <2>3
<1> QED
  BY <1>2, <1>3, <1>4, <1>5

\* The types of the log
LEMMA LogTypes ==
    ASSUME LedgerInv
    PROVE  /\ run \in Row /\ run.token \in Nat /\ run.seq = Len(log) /\ Len(log) \in Nat
           /\ \A i \in 1..Len(log) : log[i].token \in Nat
<1>1. log \in Seq(LogEvent) /\ run \in Row /\ run.seq = Len(log)
  BY DEF LedgerInv, TypeOK, EventSeqIsGapless
<1>2. \A i \in 1..Len(log) : log[i] \in LogEvent
  BY <1>1, ElementOfSeq
<1> QED
  BY <1>1, <1>2, LenProperties DEF LogEvent, Row

\* What a commit must respect for the log to stay in order
LEMMA LogStep ==
    ASSUME LedgerInv, LogFits, NEW es \in Seq(Event), NEW t \in Nat, log' = log \o Stamp(es, t),
           run'.token \in Nat, t <= run'.token, run.token <= run'.token,
           \A i \in 1..Len(log) : log[i].token <= t,
           \A k \in 1..Len(es) :
             IF es[k].type \in Terminal THEN k = Len(es)
             ELSE \A i \in 1..Len(log) : Over(i, t),
           run'.dispatch = "claimed" /\ ~run'.cancel =>
             /\ \A i \in 1..Len(log) : Over(i, run'.token)
             /\ \A k \in 1..Len(es) : es[k].type \notin Terminal,
           es = <<>> /\ log = <<>> => run'.status = "pending" /\ run'.dispatch # "finished"
    PROVE  LogFits'
<1>1. /\ Len(log) \in Nat /\ Len(es) \in Nat /\ Len(log') = Len(log) + Len(es)
      /\ \A i \in 1..Len(log) : log'[i] = log[i]
      /\ \A i \in 1..Len(log') :
           i \notin 1..Len(log) => /\ i - Len(log) \in 1..Len(es)
                                   /\ log'[i].type = es[i - Len(log)].type /\ log'[i].token = t
  BY LogAt
<1>2. run.token \in Nat /\ \A i \in 1..Len(log) : log[i].token \in Nat
  BY LogTypes
<1>3. ASSUME NEW i \in 1..Len(log'), NEW j \in 1..Len(log'), i < j
      PROVE  /\ log'[i].token <= log'[j].token
             /\ log'[i].type \in Terminal /\ log'[j].type \notin Terminal =>
                  log'[j].token > log'[i].token
  <2>1. CASE j \in 1..Len(log)
    <3>1. i \in 1..Len(log)
      BY <1>1, <1>3, <2>1
    <3> QED
      BY <1>1, <1>3, <2>1, <3>1 DEF LogFits, CallbacksInOrder, AttemptsDoNotInterleave, NothingAfterTheEnd
  <2>2. CASE j \notin 1..Len(log) /\ i \in 1..Len(log)
    BY <1>1, <1>2, <2>2 DEF Over
  <2>3. CASE j \notin 1..Len(log) /\ i \notin 1..Len(log)
    <3>1. PICK k \in 1..Len(es) : k = i - Len(log)
      BY <1>1, <2>3
    <3>2. k # Len(es)
      BY <1>1, <1>3, <2>3, <3>1
    <3>3. es[k].type \notin Terminal
      BY <3>2
    <3>4. log'[i].type = es[k].type /\ log'[i].token = t /\ log'[j].token = t
      BY <1>1, <2>3, <3>1
    <3> QED
      BY <3>3, <3>4
  <2> QED
    BY <2>1, <2>2, <2>3
<1>4. CallbacksInOrder'
  BY <1>3 DEF CallbacksInOrder, AttemptsDoNotInterleave, NothingAfterTheEnd
<1>5. \A i \in 1..Len(log') : log'[i].token <= run'.token
  BY <1>1, <1>2 DEF LogFits
<1>6. run'.dispatch = "claimed" /\ ~run'.cancel => \A i \in 1..Len(log') : Over(i, run.token)'
  BY <1>1 DEF Over
<1>7. log' = <<>> => run'.status = "pending" /\ run'.dispatch # "finished"
  <2> HAVE log' = <<>>
  <2>1. Len(log) = 0 /\ Len(es) = 0
    BY <1>1
  <2>2. log \in Seq(LogEvent)
    BY DEF LedgerInv, TypeOK
  <2>3. log = <<>> /\ es = <<>>
    BY <2>1, <2>2, EmptySeq
  <2> QED
    BY <2>3
<1> QED
  BY <1>4, <1>5, <1>6, <1>7 DEF LogFits
\* How the row and the log may change under the other sessions: callbacks are only
\* added, a cancel request stays, and without a callback nothing ends.
Grows ==
    /\ Len(log') \in Nat /\ Len(log) <= Len(log')
    /\ \A i \in 1..Len(log) : log'[i] = log[i]
    /\ run.cancel => run'.cancel
    /\ Len(log') = Len(log) => /\ run'.status \in {run.status, "pending"}
                               /\ run'.dispatch = "finished" => run.dispatch = "finished"

\* Such a change leaves what a session knows of its row.
LEMMA SeenKept ==
    ASSUME LedgerInv, Grows, NEW v \in Row, Seen(v)
    PROVE  Seen(v)'
<1>1. Len(log) \in Nat /\ v.seq \in Nat /\ v.seq <= Len(log)
  BY LogTypes DEF Row, Seen
<1>2. Len(log') \in Nat /\ Len(log) <= Len(log') /\ \A i \in 1..Len(log) : log'[i] = log[i]
  BY DEF Grows
<1>3. \A i \in 1..v.seq : i \in 1..Len(log)
  BY <1>1
<1>4. v.seq <= Len(log')
  BY <1>1, <1>2
<1>5. /\ \A i \in 1..v.seq : log'[i].token <= v.token
      /\ v.dispatch = "claimed" /\ ~v.cancel => \A i \in 1..v.seq : Over(i, v.token)'
  BY <1>2, <1>3 DEF Seen, Over
<1>6. v.seq = Len(log') => v.seq = Len(log) /\ Len(log') = Len(log)
  BY <1>1, <1>2
<1>7. v.seq = Len(log') => /\ run'.dispatch = "finished" => v.dispatch = "finished"
                           /\ run'.status # "pending" => v.status = run'.status
  BY <1>6 DEF Grows, Seen
<1>8. v.cancel => run'.cancel
  BY DEF Grows, Seen
<1> QED
  BY <1>4, <1>5, <1>7, <1>8 DEF Seen

\* A worker whose state does not change
LEMMA WorkerKept ==
    ASSUME Ledger, Grows, NEW w \in Workers, wk'[w] = wk[w]
    PROVE  WorkerFits(wk[w])'
<1>1. LedgerInv /\ WorkerFits(wk[w])
  BY DEF Ledger, History
<1>2. PICK v \in Row : v = wk[w].view
  BY <1>1, WorkerFacts
<1>3. Seen(v)'
  BY <1>1, <1>2, SeenKept DEF WorkerFits
<1>4. Seen(wk[w].view)'
  BY <1>2, <1>3 DEF Seen, Over
<1> QED
  BY <1>1, <1>4 DEF WorkerFits, SameRow, OwnEvents

\* A request whose state does not change
LEMMA TxKept ==
    ASSUME Ledger, Grows, NEW c \in Sessions, tx'[c] = tx[c]
    PROVE  TxFits(tx[c])'
<1>1. LedgerInv /\ TxFits(tx[c])
  BY DEF Ledger, History
<1>2. PICK v \in Row : v = tx[c].view
  BY <1>1 DEF LedgerInv, TypeOK, TxState
<1>3. Seen(v)'
  BY <1>1, <1>2, SeenKept DEF TxFits
<1>4. Seen(tx[c].view)'
  BY <1>2, <1>3 DEF Seen, Over
<1> QED
  BY <1>1, <1>4 DEF TxFits, RequestFits

\* The row itself, as long as nobody has changed it
LEMMA RunSeen == ASSUME LedgerInv, LogFits PROVE Seen(run)
BY LogTypes DEF LogFits, Seen

\* A session that has loaded nothing
LEMMA NewSeen == ASSUME LedgerInv, LogFits PROVE Seen(NewRow("held"))
<1>1. NewRow("held").seq = 0 /\ ~NewRow("held").cancel /\ NewRow("held").status = "pending"
  BY DEF NewRow
<1>2. Len(log) \in Nat /\ (Len(log) = 0 => log = <<>>)
  BY LogTypes, EmptySeq DEF LedgerInv, TypeOK
<1> QED
  BY <1>1, <1>2 DEF LogFits, Seen

\* Idle sessions fit.
LEMMA IdleFits ==
    ASSUME LedgerInv, LogFits
    PROVE  WorkerFits(IdleWorker) /\ TxFits(IdleTx) /\ IdleWorker.save = {} /\ IdleTx.op = "none"
<1>1. Seen(NewRow("held"))
  BY NewSeen
<1>2. /\ IdleWorker.view = NewRow("held") /\ IdleWorker.mine = NewRow("held") /\ IdleWorker.events = <<>>
      /\ IdleTx.view = NewRow("held") /\ IdleTx.mine = NewRow("held") /\ IdleTx.events = <<>>
      /\ IdleWorker.save = {} /\ IdleTx.op = "none"
  BY DEF IdleWorker, IdleTx
<1>3. WorkerFits(IdleWorker)
  BY <1>1, <1>2 DEF WorkerFits, SameRow, OwnEvents
<1>4. TxFits(IdleTx)
  BY <1>1, <1>2 DEF TxFits, RequestFits
<1> QED
  BY <1>2, <1>3, <1>4

-----------------------------------------------------------------------------
(* The kinds of steps. *)

\* The outcome of a finished run is not replaced.
Stands ==
    run.status \in {"succeeded", "cancelled"} /\ run.dispatch = "finished" =>
        run'.status \in {run.status, "pending"}

\* A step that leaves the row and the log alone
LEMMA GrowsNot ==
    ASSUME LedgerInv, UNCHANGED <<run, log>>
    PROVE  Grows /\ (LogFits => LogFits') /\ Stands
<1>1. Grows /\ Stands
  BY LogTypes DEF Grows, Stands
<1>2. LogFits => LogFits'
  BY DEF LogFits, CallbacksInOrder, AttemptsDoNotInterleave, NothingAfterTheEnd, Over
<1> QED
  BY <1>1, <1>2

\* A step of a worker before its commit
LEMMA LocalStep ==
    ASSUME Ledger, NEW w \in Workers, NEW s, WorkerFits(s), wk' = [wk EXCEPT ![w] = s],
           UNCHANGED <<run, ckpt, log, tx>>,
           s.save # {} => lock' = w /\ s.view = run /\ run.privacy = "active",
           lock' = lock \/ lock \in {w, Nobody}
    PROVE  History' /\ Stands
<1>1. LedgerInv /\ History /\ LogFits /\ wk \in [Workers -> WorkerState]
  BY DEF Ledger, History, LedgerInv, TypeOK
<1>2. wk'[w] = s /\ \A v \in Workers \ {w} : wk'[v] = wk[v]
  BY <1>1
<1>3. Grows /\ LogFits' /\ Stands
  BY <1>1, GrowsNot
<1>4. Seen(wk[w].view)'
  BY <1>2 DEF WorkerFits, Seen, Over
<1>5. WorkerFits(wk[w])'
  BY <1>2, <1>4 DEF WorkerFits, SameRow, OwnEvents
<1>6. \A v \in Workers : WorkerFits(wk[v])'
  BY <1>2, <1>3, <1>5, WorkerKept
<1>7. \A c \in Sessions : TxFits(tx[c])'
  BY <1>3, TxKept
<1>8. SaveFits'
  BY <1>1, <1>2, ConstantsAssumption DEF History, SaveFits
<1>9. PurgeFits' /\ PurgedHasNoCheckpoint'
  BY <1>1 DEF History, PurgeFits, PurgedHasNoCheckpoint
<1> QED
  BY <1>3, <1>6, <1>7, <1>8, <1>9 DEF History

\* Rollback
LEMMA AbandonStep ==
    ASSUME Ledger, NEW w \in Workers, Abandon(w), UNCHANGED tx
    PROVE  History' /\ Stands
<1>1. /\ wk' = [wk EXCEPT ![w] = IdleWorker] /\ lock' = IF lock = w THEN Nobody ELSE lock
      /\ UNCHANGED <<run, ckpt, log>>
  BY DEF Abandon
<1>2. WorkerFits(IdleWorker) /\ IdleWorker.save = {}
  BY IdleFits DEF Ledger, History
<1> QED
  BY <1>1, <1>2, LocalStep

\* A request loads the row.
LEMMA BeginStep ==
    ASSUME Ledger, NEW c \in Sessions, NEW op, NEW row, NEW es, Begin(c, op, row, es),
           run.cancel => row.cancel,
           \/ es = <<>> /\ row.dispatch \in {run.dispatch, "queued"} /\ row.status \in {run.status, "pending"}
           \/ /\ Len(es) = 1 /\ es[1].type = "cancelled" /\ row.cancel /\ row.status = "cancelled"
              /\ Cancellable(run),
           \/ row.privacy \in {run.privacy, "purge_requested"} /\ op # "complete_purge"
           \/ op = "complete_purge" /\ row.privacy = "purged" /\ run.privacy # "active"
    PROVE  History' /\ Stands
<1> DEFINE s == [op |-> op, view |-> run, mine |-> row, events |-> es,
                 drop |-> IF op = "complete_purge" THEN ckpt ELSE {}]
<1>1. /\ LedgerInv /\ History /\ LogFits /\ tx \in [Sessions -> TxState]
      /\ UNCHANGED <<run, ckpt, log, lock, wk>> /\ tx' = [tx EXCEPT ![c] = s]
  BY DEF Ledger, History, LedgerInv, TypeOK, Begin
<1>2. /\ s.op = op /\ s.view = run /\ s.mine = row /\ s.events = es
      /\ op = "complete_purge" => s.drop = ckpt
  OBVIOUS
<1> HIDE DEF s
<1>3. tx'[c] = s /\ \A d \in Sessions \ {c} : tx'[d] = tx[d]
  BY <1>1
<1>4. Grows /\ LogFits' /\ Stands
  BY <1>1, GrowsNot
<1>5. Seen(run)
  BY <1>1, RunSeen
<1>6. TxFits(tx[c])'
  <2>1. Seen(tx[c].view)'
    BY <1>1, <1>2, <1>3, <1>5 DEF Seen, Over
  <2>2. es = <<>> \/ Len(es) = 1
    OBVIOUS
  <2>3. RequestFits(s)
    <3>1. CASE es = <<>>
      BY <1>2, <3>1 DEF RequestFits
    <3>2. CASE es # <<>>
      BY <1>2, <3>2 DEF RequestFits
    <3> QED
      BY <3>1, <3>2
  <2> QED
    BY <1>3, <2>1, <2>3 DEF TxFits, RequestFits, Cancellable
<1>7. \A d \in Sessions : TxFits(tx[d])'
  BY <1>3, <1>4, <1>6, TxKept
<1>8. \A w \in Workers : WorkerFits(wk[w])'
  BY <1>1, <1>4, WorkerKept
<1>9. SaveFits' /\ PurgedHasNoCheckpoint'
  BY <1>1 DEF History, SaveFits, PurgedHasNoCheckpoint
<1>10. PurgeFits'
  BY <1>1, <1>2, <1>3 DEF History, PurgeFits
<1> QED
  BY <1>4, <1>7, <1>8, <1>9, <1>10 DEF History

\* Nobody has a checkpoint to save while nobody has the lock.
LEMMA SavesWait ==
    ASSUME Ledger, NEW w \in Workers, lock \in {Nobody, w}
    PROVE  \A v \in Workers \ {w} : wk[v].save = {}
BY ConstantsAssumption DEF Ledger, History, SaveFits

\* The scan's session and the purged run do not mind a commit that leaves the privacy alone.
LEMMA PurgeKept ==
    ASSUME Ledger, UNCHANGED <<ckpt, tx>>, run'.privacy = run.privacy
    PROVE  PurgeFits' /\ PurgedHasNoCheckpoint'
BY DEF Ledger, History, PurgeFits, PurgedHasNoCheckpoint

\* The callbacks of a session that has one, or none
LEMMA OneOrNone ==
    ASSUME NEW es \in Seq(Event), es = <<>> \/ Len(es) = 1
    PROVE  \A k \in 1..Len(es) : k = 1 /\ k = Len(es) /\ es # <<>>
<1>1. CASE es = <<>>
  <2>1. 1..Len(es) = {}
    BY <1>1
  <2> QED
    BY <2>1
<1>2. CASE Len(es) = 1
  <2>1. 1..Len(es) = {1}
    BY <1>2
  <2>2. es # <<>>
    BY <1>2
  <2> QED
    BY <1>2, <2>1, <2>2
<1> QED
  BY <1>1, <1>2

\* One callback at the end of the log, or none: approvals, the reaper, the reconciler
LEMMA UpdateStep ==
    ASSUME Ledger, NEW row \in Row, NEW es \in Seq(Event), NEW b, Update(row, es, b),
           row.token = run.token, row.privacy = run.privacy, run.cancel => row.cancel,
           \/ es = <<>> /\ row.dispatch \in {run.dispatch, "queued"} /\ row.status \in {run.status, "pending"}
           \/ /\ Len(es) = 1 /\ es[1].type \in Terminal /\ row.dispatch = "finished"
              /\ run.dispatch # "finished" \/ run.status = "waiting_human"
    PROVE  History' /\ Stands
<1>1. /\ LedgerInv /\ History /\ LogFits /\ lock = Nobody /\ run' = row
      /\ log' = log \o Stamp(es, run.token) /\ UNCHANGED <<ckpt, lock, wk, tx>>
  BY DEF Ledger, History, Update
<1>2. /\ run.token \in Nat /\ Len(log) \in Nat /\ Len(es) \in Nat /\ Len(log') = Len(log) + Len(es)
      /\ \A i \in 1..Len(log) : log'[i] = log[i]
  BY <1>1, LogTypes, LogAt
<1>3. \/ es = <<>> /\ Len(es) = 0
      \/ es # <<>> /\ Len(es) = 1 /\ es[1].type \in Terminal /\ run'.dispatch = "finished"
  BY <1>1
<1>4. Grows
  <2>1. Len(log') \in Nat /\ Len(log) <= Len(log') /\ (Len(log') = Len(log) => Len(es) = 0)
    BY <1>2
  <2>2. Len(es) = 0 => /\ run'.status \in {run.status, "pending"}
                       /\ run'.dispatch = "finished" => run.dispatch = "finished"
    BY <1>1
  <2> QED
    BY <1>1, <1>2, <2>1, <2>2 DEF Grows
<1>5. Stands
  BY <1>1 DEF Stands
<1>6. LogFits'
  <2>1. \A i \in 1..Len(log) : log[i].token <= run.token
    BY <1>1 DEF LogFits
  <2>2. \A k \in 1..Len(es) : IF es[k].type \in Terminal THEN k = Len(es)
                             ELSE \A i \in 1..Len(log) : Over(i, run.token)
    <3>1. \A k \in 1..Len(es) : k = 1 /\ k = Len(es) /\ es # <<>>
      BY OneOrNone
    <3>2. \A k \in 1..Len(es) : es[k].type \in Terminal /\ k = Len(es)
      BY <1>3, <3>1
    <3> QED
      BY <3>2
  <2>3. run'.token = run.token /\ run'.token \in Nat /\ run.token <= run'.token
    BY <1>1, <1>2
  <2>4. run'.dispatch = "claimed" /\ ~run'.cancel =>
          /\ \A i \in 1..Len(log) : Over(i, run'.token)
          /\ \A k \in 1..Len(es) : es[k].type \notin Terminal
    <3> HAVE run'.dispatch = "claimed" /\ ~run'.cancel
    <3>1. es = <<>> /\ run.dispatch = "claimed" /\ ~run.cancel
      BY <1>1
    <3>2. \A i \in 1..Len(log) : Over(i, run.token)
      BY <1>1, <3>1 DEF LogFits
    <3> QED
      BY <1>3, <2>3, <3>1, <3>2
  <2>5. es = <<>> /\ log = <<>> => run'.status = "pending" /\ run'.dispatch # "finished"
    BY <1>1, <1>3 DEF LogFits
  <2> QED
    BY <1>1, <1>2, <2>1, <2>2, <2>3, <2>4, <2>5, LogStep
<1>7. \A w \in Workers : WorkerFits(wk[w])'
  BY <1>1, <1>4, WorkerKept
<1>8. \A c \in Sessions : TxFits(tx[c])'
  BY <1>1, <1>4, TxKept
<1>9. SaveFits'
  BY <1>1, ConstantsAssumption DEF History, SaveFits
<1>10. PurgeFits' /\ PurgedHasNoCheckpoint'
  BY <1>1, PurgeKept
<1> QED
  BY <1>5, <1>6, <1>7, <1>8, <1>9, <1>10 DEF History

\* What a commit writes over the row
LEMMA FlushFields ==
    ASSUME NEW s
    PROVE  /\ Flush(s).status = Net(s.mine.status, s.view.status, run.status)
           /\ Flush(s).dispatch = Net(s.mine.dispatch, s.view.dispatch, run.dispatch)
           /\ Flush(s).cancel = Net(s.mine.cancel, s.view.cancel, run.cancel)
           /\ Flush(s).privacy = Net(s.mine.privacy, s.view.privacy, run.privacy)
           /\ Flush(s).token = run.token
BY DEF Flush

\* A request commits.
LEMMA TxCommitStep ==
    ASSUME Ledger, NEW c \in Sessions, TxCommit(c)
    PROVE  History' /\ Stands
<1>1. /\ LedgerInv /\ History /\ LogFits /\ tx \in [Sessions -> TxState] /\ lock = Nobody
      /\ tx' = [tx EXCEPT ![c] = IdleTx] /\ UNCHANGED <<lock, wk>>
      /\ tx[c].events \in Seq(Event) /\ tx[c].view \in Row /\ tx[c].mine \in Row
      /\ TxFits(tx[c])
  BY DEF Ledger, History, LedgerInv, TypeOK, TxState, TxCommit
<1>2. /\ tx'[c] = IdleTx /\ (\A d \in Sessions \ {c} : tx'[d] = tx[d])
      /\ IdleTx.op = "none"
  BY <1>1, IdleFits
<1>3. CASE Clash(tx[c])
  <2>1. UNCHANGED <<run, ckpt, log>>
    BY <1>3 DEF TxCommit
  <2>2. Grows /\ LogFits' /\ Stands
    BY <1>1, <2>1, GrowsNot
  <2>3. TxFits(IdleTx) /\ TxFits(IdleTx)'
    <3>1. TxFits(IdleTx)
      BY <1>1, IdleFits
    <3> QED
      BY <2>1, <3>1 DEF TxFits, Seen, Over
  <2>4. TxFits(tx[c])'
    BY <1>2, <2>3 DEF TxFits, Seen, Over, RequestFits, Cancellable
  <2>5. (\A d \in Sessions : TxFits(tx[d])') /\ \A w \in Workers : WorkerFits(wk[w])'
    BY <1>1, <1>2, <2>2, <2>4, TxKept, WorkerKept
  <2>6. SaveFits' /\ PurgeFits' /\ PurgedHasNoCheckpoint'
    BY <1>1, <1>2, <2>1 DEF History, SaveFits, PurgeFits, PurgedHasNoCheckpoint
  <2> QED
    BY <2>2, <2>5, <2>6 DEF History
<1>4. CASE ~Clash(tx[c])
  <2> DEFINE es == tx[c].events
  <2>1. /\ run' = Flush(tx[c]) /\ log' = log \o Stamp(es, run.token) /\ ckpt' = ckpt \ tx[c].drop
    BY <1>4 DEF TxCommit
  <2>2. /\ run.token \in Nat /\ Len(log) \in Nat /\ Len(es) \in Nat /\ Len(log') = Len(log) + Len(es)
        /\ \A i \in 1..Len(log) : log'[i] = log[i]
    BY <1>1, <2>1, LogTypes, LogAt
  <2>3. /\ run'.status = Net(tx[c].mine.status, tx[c].view.status, run.status)
        /\ run'.dispatch = Net(tx[c].mine.dispatch, tx[c].view.dispatch, run.dispatch)
        /\ run'.cancel = Net(tx[c].mine.cancel, tx[c].view.cancel, run.cancel)
        /\ run'.privacy = Net(tx[c].mine.privacy, tx[c].view.privacy, run.privacy)
        /\ run'.token = run.token /\ run'.token \in Nat
    BY <2>1, <2>2, FlushFields
  <2>4. (run.cancel => run'.cancel) /\ (es # <<>> => run'.cancel)
    <3>1. tx[c].view.cancel \in BOOLEAN /\ tx[c].mine.cancel \in BOOLEAN /\ run.cancel \in BOOLEAN
      BY <1>1 DEF Row, LedgerInv, TypeOK
    <3>2. /\ tx[c].view.cancel => run.cancel /\ tx[c].mine.cancel
          /\ es # <<>> => tx[c].mine.cancel
      BY <1>1 DEF TxFits, Seen, RequestFits
    <3> QED
      BY <2>3, <3>1, <3>2 DEF Net
  <2>5. es = <<>> => /\ run'.status \in {run.status, "pending"}
                     /\ run'.dispatch \in {run.dispatch, "queued"}
    BY <1>1, <2>3 DEF TxFits, RequestFits, Net
  <2>6. es # <<>> => Len(es) = 1 /\ es[1].type = "cancelled"
    BY <1>1 DEF TxFits, RequestFits
  <2>7. Grows
    <3>1. Len(log') \in Nat /\ Len(log) <= Len(log') /\ (Len(log') = Len(log) => es = <<>>)
      BY <2>2, <2>6
    <3> QED
      BY <2>2, <2>4, <2>5, <3>1 DEF Grows
  <2>8. Stands
    <3>1. CASE es = <<>>
      BY <2>5, <3>1 DEF Stands
    <3>2. CASE es # <<>>
      <4>1. tx[c].view.seq = Len(log) /\ Cancellable(tx[c].view) /\ tx[c].mine.status = "cancelled"
        BY <1>1, <1>4, <3>2, LogTypes DEF Clash, TxFits, RequestFits
      <4>2. run'.status \in {"cancelled", run.status}
        BY <2>3, <4>1 DEF Net
      <4>3. run.dispatch = "finished" /\ run.status = "succeeded" => FALSE
        BY <1>1, <4>1 DEF TxFits, Seen, Cancellable
      <4> QED
        BY <4>2, <4>3 DEF Stands
    <3> QED
      BY <3>1, <3>2
  <2>9. LogFits'
    <3>1. \A i \in 1..Len(log) : log[i].token <= run.token
      BY <1>1 DEF LogFits
    <3>2. \A k \in 1..Len(es) : IF es[k].type \in Terminal THEN k = Len(es)
                               ELSE \A i \in 1..Len(log) : Over(i, run.token)
      <4>1. es # <<>> => es[1].type \in Terminal
        BY <2>6 DEF Terminal
      <4>2. \A k \in 1..Len(es) : k = 1 /\ k = Len(es) /\ es # <<>>
        BY <1>1, <2>6, OneOrNone
      <4>3. \A k \in 1..Len(es) : es[k].type \in Terminal /\ k = Len(es)
        BY <2>6, <4>1, <4>2
      <4> QED
        BY <4>3
    <3>3. run.token <= run'.token
      BY <2>2, <2>3
    <3>4. run'.dispatch = "claimed" /\ ~run'.cancel =>
            /\ \A i \in 1..Len(log) : Over(i, run'.token)
            /\ \A k \in 1..Len(es) : es[k].type \notin Terminal
      <4> HAVE run'.dispatch = "claimed" /\ ~run'.cancel
      <4>1. es = <<>> /\ Len(es) = 0 /\ run.dispatch = "claimed" /\ ~run.cancel
        BY <2>4, <2>5
      <4>2. \A i \in 1..Len(log) : Over(i, run.token)
        BY <1>1, <4>1 DEF LogFits
      <4> QED
        BY <2>3, <4>1, <4>2
    <3>5. es = <<>> /\ log = <<>> => run'.status = "pending" /\ run'.dispatch # "finished"
      BY <1>1, <2>5 DEF LogFits
    <3> HIDE DEF es
    <3>6. es \in Seq(Event)
      BY <1>1 DEF es
    <3> QED
      BY <1>1, <2>1, <2>2, <2>3, <3>1, <3>2, <3>3, <3>4, <3>5, <3>6, LogStep
  <2>10. TxFits(tx[c])'
    <3>1. TxFits(IdleTx)
      BY <1>1, IdleFits
    <3>2. PICK v \in Row : v = IdleTx.view
      BY NewRowType DEF IdleTx
    <3>3. Seen(v)'
      BY <1>1, <2>7, <3>1, <3>2, SeenKept DEF TxFits
    <3>4. Seen(tx[c].view)'
      BY <1>2, <3>2, <3>3 DEF Seen, Over
    <3> QED
      BY <1>2, <3>1, <3>4 DEF TxFits, RequestFits
  <2>11. (\A d \in Sessions : TxFits(tx[d])') /\ \A w \in Workers : WorkerFits(wk[w])'
    BY <1>1, <1>2, <2>7, <2>10, TxKept, WorkerKept
  <2>12. SaveFits'
    BY <1>1, ConstantsAssumption DEF History, SaveFits
  <2>13. /\ run.privacy # "active" => run'.privacy # "active"
         /\ run'.privacy = "purged" => run.privacy = "purged" \/ tx[c].op = "complete_purge"
                                       \/ run'.privacy = tx[c].view.privacy
    BY <1>1, <2>3 DEF TxFits, RequestFits, Net
  <2>14. PurgeFits'
    BY <1>1, <1>2, <2>1, <2>13 DEF History, PurgeFits
  <2>15. PurgedHasNoCheckpoint'
    <3> SUFFICES ASSUME run'.privacy = "purged" PROVE ckpt' = {}
      BY DEF PurgedHasNoCheckpoint
    <3>1. CASE run.privacy = "purged"
      BY <1>1, <2>1, <3>1 DEF History, PurgedHasNoCheckpoint
    <3>2. CASE run.privacy # "purged"
      <4>1. tx[c].op = "complete_purge"
        BY <1>1, <2>3, <3>2 DEF TxFits, RequestFits, Net
      <4> QED
        BY <1>1, <2>1, <4>1 DEF History, PurgeFits
    <3> QED
      BY <3>1, <3>2
  <2> QED
    BY <2>8, <2>9, <2>11, <2>12, <2>14, <2>15 DEF History
<1> QED
  BY <1>3, <1>4

\* A commit without callbacks leaves the status, the dispatch state and the log alone.
LEMMA QuietCommit ==
    ASSUME Ledger, NEW w \in Workers, wk[w].events = <<>>, run' = Flush(wk[w]),
           log' = log \o Stamp(wk[w].events, wk[w].token)
    PROVE  Grows /\ LogFits' /\ Stands
<1>1. LedgerInv /\ LogFits /\ WorkerFits(wk[w]) /\ wk[w].view \in Row /\ wk[w].mine \in Row
  BY WorkerFacts DEF Ledger, History
<1>2. /\ run.token \in Nat /\ Len(log) \in Nat /\ run \in Row
  BY <1>1, LogTypes
<1>3. /\ <<>> \in Seq(Event) /\ Len(<<>>) = 0
  OBVIOUS
<1>4. log' = log \o Stamp(<<>>, run.token)
  BY <1>3 DEF Stamp
<1>5. Len(log') = Len(log) /\ \A i \in 1..Len(log) : log'[i] = log[i]
  <2>1. ASSUME NEW es \in Seq(Event), es = <<>>
        PROVE  Len(log') = Len(log) /\ \A i \in 1..Len(log) : log'[i] = log[i]
    <3>1. Len(log') = Len(log) + Len(es) /\ \A i \in 1..Len(log) : log'[i] = log[i]
      BY <1>1, <1>2, <1>4, <2>1, LogAt
    <3> QED
      BY <1>2, <1>3, <2>1, <3>1
  <2> QED
    BY <1>3, <2>1, Zenon
<1>6. /\ run'.status = run.status /\ run'.dispatch = run.dispatch
      /\ run'.cancel = Net(wk[w].mine.cancel, wk[w].view.cancel, run.cancel)
      /\ run'.token = run.token
  BY <1>1, FlushFields DEF WorkerFits, SameRow, Net
<1>7. run.cancel => run'.cancel
  <2>1. wk[w].view.cancel \in BOOLEAN /\ wk[w].mine.cancel \in BOOLEAN /\ run.cancel \in BOOLEAN
    BY <1>1, <1>2 DEF Row
  <2>2. wk[w].view.cancel => wk[w].mine.cancel
    BY <1>1 DEF WorkerFits, SameRow
  <2> QED
    BY <1>6, <2>1, <2>2 DEF Net
<1>8. Grows
  BY <1>2, <1>5, <1>6, <1>7 DEF Grows
<1>9. Stands
  BY <1>6 DEF Stands
<1>10. LogFits'
  <2>1. \A i \in 1..Len(log) : log[i].token <= run.token
    BY <1>1 DEF LogFits
  <2>2. run'.dispatch = "claimed" /\ ~run'.cancel => \A i \in 1..Len(log) : Over(i, run'.token)
    BY <1>1, <1>6, <1>7 DEF LogFits
  <2>3. log = <<>> => run'.status = "pending" /\ run'.dispatch # "finished"
    BY <1>1, <1>6 DEF LogFits
  <2>4. run'.token \in Nat /\ run.token <= run'.token
    BY <1>2, <1>6
  <2>5. ASSUME NEW es \in Seq(Event), es = <<>>, log' = log \o Stamp(es, run.token)
        PROVE  LogFits'
    <3>1. 1..Len(es) = {}
      BY <2>5
    <3>2. \A k \in 1..Len(es) : IF es[k].type \in Terminal THEN k = Len(es)
                               ELSE \A i \in 1..Len(log) : Over(i, run.token)
      BY <3>1
    <3>3. run'.dispatch = "claimed" /\ ~run'.cancel =>
            /\ \A i \in 1..Len(log) : Over(i, run'.token)
            /\ \A k \in 1..Len(es) : es[k].type \notin Terminal
      BY <2>2, <3>1
    <3> QED
      BY <1>1, <1>2, <2>1, <2>3, <2>4, <2>5, <3>2, <3>3, LogStep
  <2> QED
    BY <1>3, <1>4, <2>5
<1> QED
  BY <1>8, <1>9, <1>10

\* A commit with callbacks: nobody has committed one since the session loaded its row.
LEMMA LoudCommit ==
    ASSUME Ledger, NEW w \in Workers, wk[w].events # <<>>, ~Clash(wk[w]), run' = Flush(wk[w]),
           log' = log \o Stamp(wk[w].events, wk[w].token)
    PROVE  Grows /\ LogFits' /\ Stands
<1>1. /\ LedgerInv /\ LogFits /\ WorkerFits(wk[w]) /\ wk[w].view \in Row /\ wk[w].mine \in Row
      /\ wk[w].events \in Seq(Event) /\ wk[w].token \in Nat
  BY WorkerFacts DEF Ledger, History
<1>2. /\ run.token \in Nat /\ Len(log) \in Nat /\ run \in Row /\ run.seq = Len(log)
      /\ \A i \in 1..Len(log) : log[i].token \in Nat
  BY <1>1, LogTypes
<1>3. PICK es \in Seq(Event), t \in Nat : es = wk[w].events /\ t = wk[w].token
  BY <1>1
<1>4. log' = log \o Stamp(es, t) /\ es # <<>>
  BY <1>3
<1>5. /\ Len(es) \in Nat /\ Len(log') = Len(log) + Len(es)
      /\ \A i \in 1..Len(log) : log'[i] = log[i]
  BY <1>1, <1>4, LogAt
<1>6. Len(es) # 0
  BY <1>4, EmptySeq
<1>7. /\ wk[w].view.seq = Len(log) /\ wk[w].view.token = t /\ wk[w].view.dispatch = "claimed"
  BY <1>1, <1>2, <1>3, <1>4 DEF Clash, WorkerFits, OwnEvents
<1>8. /\ run'.dispatch = Net(wk[w].mine.dispatch, wk[w].view.dispatch, run.dispatch)
      /\ run'.cancel = Net(wk[w].mine.cancel, wk[w].view.cancel, run.cancel)
      /\ run'.token = run.token
  BY FlushFields
<1>9. (run.cancel => run'.cancel) /\ (wk[w].view.cancel => run.cancel)
  <2>1. wk[w].view.cancel \in BOOLEAN /\ wk[w].mine.cancel \in BOOLEAN /\ run.cancel \in BOOLEAN
    BY <1>1, <1>2 DEF Row
  <2>2. (wk[w].view.cancel => wk[w].mine.cancel) /\ (wk[w].view.cancel => run.cancel)
    BY <1>1 DEF WorkerFits, SameRow, Seen
  <2> QED
    BY <1>8, <2>1, <2>2 DEF Net
<1>10. t <= run.token /\ run'.token \in Nat /\ t <= run'.token /\ run.token <= run'.token
  <2>1. t <= run.token
    BY <1>1, <1>3 DEF LedgerInv, TokensAreUnique
  <2> QED
    BY <1>2, <1>8, <2>1
<1>11. Grows
  <2>1. Len(log') \in Nat /\ Len(log) <= Len(log') /\ Len(log') # Len(log)
    BY <1>2, <1>5, <1>6
  <2> QED
    BY <1>5, <1>9, <2>1 DEF Grows
<1>12. Stands
  BY <1>1, <1>7 DEF Stands, WorkerFits, Seen
<1>13. \A i \in 1..Len(log) : log[i].token <= t
  BY <1>1, <1>7 DEF WorkerFits, Seen
<1>14. ~wk[w].view.cancel => \A i \in 1..Len(log) : Over(i, t)
  BY <1>1, <1>7 DEF WorkerFits, Seen
<1>15. \A k \in 1..Len(es) :
         /\ es[k].type \notin Terminal => ~wk[w].view.cancel
         /\ es[k].type \in Terminal => k = Len(es) /\ wk[w].mine.dispatch = "finished"
  BY <1>1, <1>3 DEF WorkerFits, OwnEvents
<1>16. \A k \in 1..Len(es) : IF es[k].type \in Terminal THEN k = Len(es)
                            ELSE \A i \in 1..Len(log) : Over(i, t)
  BY <1>14, <1>15
<1>17. run'.dispatch = "claimed" /\ ~run'.cancel =>
         /\ \A i \in 1..Len(log) : Over(i, run'.token)
         /\ \A k \in 1..Len(es) : es[k].type \notin Terminal
  <2> HAVE run'.dispatch = "claimed" /\ ~run'.cancel
  <2>1. \A i \in 1..Len(log) : Over(i, t)
    BY <1>9, <1>14
  <2>2. \A i \in 1..Len(log) : Over(i, run'.token)
    BY <1>2, <1>10, <2>1 DEF Over
  <2>3. wk[w].mine.dispatch # "finished"
    BY <1>7, <1>8 DEF Net
  <2> QED
    BY <1>15, <2>2, <2>3
<1>18. LogFits'
  BY <1>1, <1>4, <1>10, <1>13, <1>16, <1>17, LogStep
<1> QED
  BY <1>11, <1>12, <1>18

\* The commit of a worker's session, after which it holds nothing.
LEMMA CommitStep ==
    ASSUME Ledger, NEW w \in Workers, NEW next, Commit(w, Flush(wk[w]), next), UNCHANGED tx,
           next.view = NewRow("held"), next.mine = NewRow("held"), next.events = <<>>, next.save = {}
    PROVE  History' /\ Stands
<1>1. LedgerInv /\ History /\ LogFits /\ wk \in [Workers -> WorkerState] /\ lock \in {Nobody, w}
      /\ WorkerFits(wk[w])
  BY DEF Ledger, History, LedgerInv, TypeOK, Commit
<1>2. CASE Clash(wk[w])
  BY <1>2, AbandonStep DEF Commit
<1>3. CASE ~Clash(wk[w])
  <2>1. /\ run' = Flush(wk[w]) /\ log' = log \o Stamp(wk[w].events, wk[w].token)
        /\ ckpt' = ckpt \cup wk[w].save /\ lock' = Nobody /\ wk' = [wk EXCEPT ![w] = next]
    BY <1>3 DEF Commit
  <2>2. wk'[w] = next /\ \A v \in Workers \ {w} : wk'[v] = wk[v]
    BY <1>1, <2>1
  <2>3. Grows /\ LogFits' /\ Stands
    BY <1>3, <2>1, QuietCommit, LoudCommit
  <2>4. WorkerFits(wk[w])'
    <3>1. PICK v \in Row : v = NewRow("held")
      BY NewRowType
    <3>2. Seen(v)'
      BY <1>1, <2>3, <3>1, NewSeen, SeenKept
    <3>3. Seen(wk[w].view)'
      BY <2>2, <3>1, <3>2 DEF Seen, Over
    <3>4. SameRow(next) /\ OwnEvents(next)
      BY DEF SameRow, OwnEvents
    <3> QED
      BY <2>2, <3>3, <3>4 DEF WorkerFits, SameRow, OwnEvents
  <2>5. (\A v \in Workers : WorkerFits(wk[v])') /\ \A c \in Sessions : TxFits(tx[c])'
    BY <2>2, <2>3, <2>4, WorkerKept, TxKept
  <2>6. SaveFits'
    BY <1>1, <2>2, SavesWait DEF SaveFits
  <2>7. run'.privacy = run.privacy
    BY <1>1, <2>1, FlushFields DEF WorkerFits, SameRow, Net
  <2>8. wk[w].save # {} => run.privacy = "active"
    BY <1>1 DEF History, SaveFits
  <2>9. PurgeFits' /\ PurgedHasNoCheckpoint'
    <3>1. CASE wk[w].save = {}
      BY <2>1, <2>7, <3>1, PurgeKept
    <3>2. CASE run.privacy = "active"
      BY <1>1, <2>7, <3>2 DEF History, PurgeFits, PurgedHasNoCheckpoint
    <3> QED
      BY <2>8, <3>1, <3>2
  <2> QED
    BY <2>3, <2>5, <2>6, <2>9 DEF History
<1> QED
  BY <1>2, <1>3

\* A step of a worker that goes on with the row and the callbacks it holds
LEMMA KeepStep ==
    ASSUME Ledger, NEW w \in Workers, NEW s, wk[w].pc # "commit", wk' = [wk EXCEPT ![w] = s],
           s.view = wk[w].view, s.events = wk[w].events, s.token = wk[w].token,
           s.save = wk[w].save, s.mine.token = wk[w].mine.token,
           s.mine.privacy = wk[w].mine.privacy, s.mine.dispatch = wk[w].mine.dispatch,
           s.mine.status = wk[w].mine.status, wk[w].mine.cancel => s.mine.cancel,
           UNCHANGED <<run, ckpt, log, lock, tx>>
    PROVE  History' /\ Stands
<1>1. WorkerFits(wk[w]) /\ SaveFits
  BY DEF Ledger, History
<1>2. Seen(s.view) /\ SameRow(s)
  BY <1>1 DEF WorkerFits, SameRow
<1>3. \A i \in 1..Len(s.events) : s.events[i].type \notin Terminal /\ ~s.view.cancel
  BY <1>1 DEF WorkerFits, OwnEvents
<1>4. OwnEvents(s)
  BY <1>1, <1>3 DEF WorkerFits, OwnEvents
<1>5. s.save # {} => lock' = w /\ s.view = run /\ run.privacy = "active"
  BY <1>1 DEF SaveFits
<1> QED
  BY <1>2, <1>4, <1>5, LocalStep DEF WorkerFits

\* A worker that holds no callback reads the row again.
LEMMA ReloadStep ==
    ASSUME Ledger, NEW w \in Workers, NEW s, wk' = [wk EXCEPT ![w] = s],
           s.view = run, s.events = <<>>, s.save = wk[w].save, s.mine.token = run.token,
           s.mine.privacy = run.privacy, s.mine.dispatch = run.dispatch,
           s.mine.status = run.status, run.cancel => s.mine.cancel,
           UNCHANGED <<run, ckpt, log, lock, tx>>
    PROVE  History' /\ Stands
<1>1. Seen(s.view) /\ SaveFits
  BY RunSeen DEF Ledger, History
<1>2. SameRow(s) /\ OwnEvents(s)
  BY DEF SameRow, OwnEvents
<1>3. s.save # {} => lock' = w /\ s.view = run /\ run.privacy = "active"
  BY <1>1 DEF SaveFits
<1> QED
  BY <1>1, <1>2, <1>3, LocalStep DEF WorkerFits

\* A worker reads the row again, may write it, and reports progress or saves a checkpoint.
LEMMA ProgressStep ==
    ASSUME Ledger, NEW w \in Workers, NEW s, wk' = [wk EXCEPT ![w] = s], s.pc # "commit",
           s.view = run, s.token = run.token, run.dispatch = "claimed", ~run.cancel,
           s.mine.token = run.token, s.mine.privacy = run.privacy, s.mine.dispatch = run.dispatch,
           \/ s.events = <<>> /\ s.mine.status = run.status
           \/ Len(s.events) = 1 /\ s.events[1].type \notin Terminal,
           \/ s.save = wk[w].save /\ lock' = lock
           \/ lock = Nobody /\ lock' = w /\ run.privacy = "active",
           UNCHANGED <<run, ckpt, log, tx>>
    PROVE  History' /\ Stands
<1>1. Seen(s.view) /\ SaveFits
  BY RunSeen DEF Ledger, History
<1>2. SameRow(s)
  BY DEF SameRow
<1>3. OwnEvents(s)
  <2>1. \A i \in 1..Len(s.events) : s.events[i].type \notin Terminal
    <3>1. CASE s.events = <<>>
      BY <3>1
    <3>2. CASE Len(s.events) = 1 /\ s.events[1].type \notin Terminal
      <4>1. 1..Len(s.events) = {1}
        BY <3>2
      <4> QED
        BY <3>2, <4>1
    <3> QED
      BY <3>1, <3>2
  <2> QED
    BY <2>1 DEF OwnEvents
<1>4. s.save # {} => lock' = w /\ s.view = run /\ run.privacy = "active"
  BY <1>1 DEF SaveFits
<1> QED
  BY <1>1, <1>2, <1>3, <1>4, LocalStep DEF WorkerFits

\* A worker that holds the run appends its last callback.
LEMMA CloseStep ==
    ASSUME Ledger, NEW w \in Workers, NEW s, NEW e \in Event, wk' = [wk EXCEPT ![w] = s],
           wk[w].pc # "commit", s.pc = "commit",
           s.view = wk[w].view, s.events = Append(wk[w].events, e), s.token = wk[w].token,
           s.save = wk[w].save, s.mine.token = wk[w].mine.token,
           s.mine.privacy = wk[w].mine.privacy, s.mine.dispatch = "finished",
           s.mine.cancel = wk[w].mine.cancel,
           wk[w].mine.dispatch = "claimed", wk[w].mine.token = wk[w].token,
           e.type \in Terminal \/ ~wk[w].mine.cancel,
           UNCHANGED <<run, ckpt, log, lock, tx>>
    PROVE  History' /\ Stands
<1>1. WorkerFits(wk[w]) /\ SaveFits /\ wk[w].events \in Seq(Event)
  BY WorkerFacts DEF Ledger, History
<1>2. /\ Len(wk[w].events) \in Nat /\ Len(s.events) = Len(wk[w].events) + 1
      /\ \A i \in 1..Len(wk[w].events) : s.events[i] = wk[w].events[i]
      /\ s.events[Len(s.events)] = e /\ s.events # <<>>
  BY <1>1, AppendProperties
<1>3. Seen(s.view) /\ SameRow(s)
  BY <1>1, <1>2 DEF WorkerFits, SameRow
<1>4. s.view.token = s.token /\ s.view.dispatch = "claimed"
  BY <1>1 DEF WorkerFits, SameRow
<1>5. ASSUME NEW i \in 1..Len(s.events)
      PROVE  /\ s.events[i].type \notin Terminal => ~s.view.cancel
             /\ s.events[i].type \in Terminal => i = Len(s.events)
  <2>1. CASE i \in 1..Len(wk[w].events)
    BY <1>1, <1>2, <2>1 DEF WorkerFits, OwnEvents
  <2>2. CASE i = Len(s.events)
    BY <1>1, <1>2, <2>2 DEF WorkerFits, SameRow
  <2> QED
    BY <1>2, <2>1, <2>2
<1>6. OwnEvents(s)
  BY <1>4, <1>5 DEF OwnEvents
<1>7. s.save # {} => lock' = w /\ s.view = run /\ run.privacy = "active"
  BY <1>1 DEF SaveFits
<1> QED
  BY <1>3, <1>6, <1>7, LocalStep DEF WorkerFits

-----------------------------------------------------------------------------
(* The actions of a worker. *)

\* Steps up to the claim, and the claim: an attempt begins after every callback so far.
LEMMA ClaimStep ==
    ASSUME Ledger, NEW w \in Workers, Poll(w) \/ Consume(w) \/ Claim(w)
    PROVE  History' /\ Stands
<1>0. /\ LedgerInv /\ History /\ LogFits /\ wk[w] \in WorkerState /\ wk \in [Workers -> WorkerState]
      /\ run \in Row /\ wk[w].events = <<>> /\ wk[w].pc # "commit"
  BY WorkerFacts DEF Ledger, History, LedgerInv, TypeOK, Poll, Consume, Claim, Quiet
<1>1. CASE Poll(w)
  <2> DEFINE s == [wk[w] EXCEPT !.pc = "notified"]
  <2>1. wk' = [wk EXCEPT ![w] = s] /\ UNCHANGED <<run, ckpt, log, lock, tx>>
    BY <1>1 DEF Poll, Goto
  <2>2. /\ s.view = wk[w].view /\ s.mine = wk[w].mine /\ s.events = wk[w].events
        /\ s.token = wk[w].token /\ s.save = wk[w].save
    BY <1>0 DEF WorkerState
  <2> HIDE DEF s
  <2> QED
    BY <1>0, <2>1, <2>2, KeepStep
<1>2. CASE Consume(w)
  <2> DEFINE s == [wk[w] EXCEPT !.pc = "claiming",
                                !.resume = run.status \in {"waiting_human", "partial"}]
  <2>1. /\ wk' = [wk EXCEPT ![w] = s] \/ wk' = [wk EXCEPT ![w] = IdleWorker]
        /\ UNCHANGED <<run, ckpt, log, lock, tx>>
    BY <1>2 DEF Consume
  <2>2. /\ s.view = wk[w].view /\ s.mine = wk[w].mine /\ s.events = wk[w].events
        /\ s.token = wk[w].token /\ s.save = wk[w].save
    BY <1>0 DEF WorkerState
  <2> HIDE DEF s
  <2>3. WorkerFits(IdleWorker) /\ IdleWorker.save = {}
    BY <1>0, IdleFits
  <2> QED
    BY <1>0, <2>1, <2>2, <2>3, KeepStep, LocalStep
<1>3. CASE Claim(w)
  <2>1. UNCHANGED <<ckpt, log, lock, tx>> /\ lock = Nobody
    BY <1>3 DEF Claim
  <2>2. CASE ~Claimable
    <3>1. run' = run /\ wk' = [wk EXCEPT ![w] = IdleWorker]
      BY <1>3, <2>2 DEF Claim
    <3>2. WorkerFits(IdleWorker) /\ IdleWorker.save = {}
      BY <1>0, IdleFits
    <3> QED
      BY <2>1, <3>1, <3>2, LocalStep
  <2>3. CASE Claimable
    <3> DEFINE s == [wk[w] EXCEPT !.pc = "begin", !.token = run.token + 1]
    <3>1. /\ run' = [run EXCEPT !.dispatch = "claimed", !.owner = w, !.token = @ + 1, !.lease = "granted"]
          /\ wk' = [wk EXCEPT ![w] = s]
      BY <1>0, <1>3, <2>3 DEF Claim
    <3>2. /\ run.token \in Nat /\ Len(log) \in Nat
          /\ \A i \in 1..Len(log) : log[i].token \in Nat /\ log[i].token <= run.token
      BY <1>0, LogTypes DEF LogFits
    <3>3. /\ run'.dispatch = "claimed" /\ run'.token = run.token + 1 /\ run'.status = run.status
          /\ run'.cancel = run.cancel /\ run'.privacy = run.privacy
      BY <1>0, <3>1 DEF Row
    <3>4. /\ s.view = wk[w].view /\ s.mine = wk[w].mine /\ s.events = wk[w].events
          /\ s.pc = "begin" /\ s.save = wk[w].save
      BY <1>0 DEF WorkerState
    <3> HIDE DEF s
    <3>5. Grows
      BY <2>1, <3>2, <3>3 DEF Grows
    <3>6. Stands
      BY <3>3 DEF Stands
    <3>7. LogFits'
      <4>1. CallbacksInOrder'
        BY <1>0, <2>1 DEF LogFits, CallbacksInOrder, AttemptsDoNotInterleave, NothingAfterTheEnd
      <4>2. \A i \in 1..Len(log') : log'[i].token <= run'.token /\ Over(i, run.token)'
        BY <2>1, <3>2, <3>3 DEF Over
      <4>3. log' = <<>> => run'.status = "pending" /\ run'.dispatch # "finished"
        BY <1>0, <2>1, <3>3 DEF LogFits
      <4> QED
        BY <4>1, <4>2, <4>3 DEF LogFits
    <3>8. WorkerFits(wk[w])'
      <4>1. PICK v \in Row : v = wk[w].view
        BY <1>0 DEF WorkerState
      <4>2. Seen(v)'
        BY <1>0, <3>5, <4>1, SeenKept DEF History, WorkerFits
      <4>3. wk'[w] = s
        BY <1>0, <3>1
      <4>4. Seen(wk[w].view)'
        BY <3>4, <4>1, <4>2, <4>3 DEF Seen, Over
      <4>5. SameRow(s) /\ OwnEvents(s)
        BY <1>0, <3>4 DEF History, WorkerFits, SameRow, OwnEvents
      <4> QED
        BY <4>3, <4>4, <4>5 DEF WorkerFits, SameRow, OwnEvents
    <3>9. \A v \in Workers \ {w} : wk'[v] = wk[v]
      BY <1>0, <3>1
    <3>10. (\A v \in Workers : WorkerFits(wk[v])') /\ \A c \in Sessions : TxFits(tx[c])'
      BY <2>1, <3>5, <3>8, <3>9, WorkerKept, TxKept
    <3>11. \A v \in Workers : wk'[v].save = {}
      <4>1. \A v \in Workers : wk[v].save = {}
        BY <1>0, <2>1, ConstantsAssumption DEF History, SaveFits
      <4> QED
        BY <1>0, <3>1, <3>4, <3>9, <4>1
    <3>12. SaveFits'
      BY <3>11 DEF SaveFits
    <3>13. PurgeFits' /\ PurgedHasNoCheckpoint'
      BY <2>1, <3>3, PurgeKept
    <3> QED
      BY <3>6, <3>7, <3>10, <3>12, <3>13 DEF History
  <2> QED
    BY <2>2, <2>3
<1> QED
  BY <1>1, <1>2, <1>3

\* One callback after none
LEMMA FirstEvent ==
    ASSUME NEW row \in Row, NEW t \in EventTypes
    PROVE  /\ Len(Append1(row, <<>>, t).events) = 1 /\ Append1(row, <<>>, t).events[1].type = t
           /\ Append1(row, <<>>, t).mine = [row EXCEPT !.seq = @ + 1]
<1>1. /\ Append1(row, <<>>, t).mine = [row EXCEPT !.seq = @ + 1]
      /\ Append1(row, <<>>, t).events = <<[type |-> t, sv |-> row.sv]>>
  BY DEF Append1
<1>2. ASSUME NEW e PROVE Len(<<e>>) = 1 /\ <<e>>[1] = e
  OBVIOUS
<1>3. [type |-> t, sv |-> row.sv].type = t
  OBVIOUS
<1> QED
  BY <1>1, <1>2, <1>3, Zenon

\* The start of an execution
LEMMA ExecuteStep == ASSUME Ledger, NEW w \in Workers, Execute(w) PROVE History' /\ Stands
<1> DEFINE fresh == [run EXCEPT !.fallback = FALSE]
           voided == [fresh EXCEPT !.cancel = TRUE]
           started == [fresh EXCEPT !.status = "running", !.sv = @ + 1]
           a == Append1(started, <<>>, "run_started")
           s == [wk[w] EXCEPT !.pc = "beat", !.view = run, !.mine = a.mine, !.events = a.events]
<1>0. /\ LedgerInv /\ run \in Row /\ wk[w] \in WorkerState /\ wk[w].events = <<>>
      /\ UNCHANGED <<run, ckpt, log, lock, tx>>
      /\ "running" \in Statuses /\ "run_started" \in EventTypes /\ "run_started" \notin Terminal
  BY WorkerFacts DEF Ledger, Execute, Quiet, Terminal, Statuses, EventTypes
<1>1. \A row \in {run, fresh, voided} :
        /\ row.token = run.token /\ row.privacy = run.privacy /\ row.dispatch = run.dispatch
        /\ row.status = run.status
        /\ run.cancel => row.cancel
  BY <1>0 DEF Row
<1>2. started \in Row /\ started.token = run.token /\ started.privacy = run.privacy
      /\ started.dispatch = run.dispatch
  <2>1. PICK n \in Nat : n = run.sv + 1
    BY <1>0 DEF Row
  <2>2. started = [run EXCEPT !.fallback = FALSE, !.status = "running", !.sv = n]
    BY <1>0, <2>1 DEF Row
  <2> QED
    BY <1>0, <2>2 DEF Row
<1>3. \/ \E row \in {run, fresh, voided}, o \in {"failed", "cancelled", "pending"} : Result(w, row, o)
      \/ wk' = [wk EXCEPT ![w] = [wk[w] EXCEPT !.pc = "beat", !.view = run, !.mine = fresh]]
      \/ wk' = [wk EXCEPT ![w] = s] /\ CanWrite(w, fresh)
  <2> HIDE DEF voided
  <2> QED
    BY <1>0 DEF Execute, voided
<1>4. ASSUME CanWrite(w, fresh)
      PROVE  run.dispatch = "claimed" /\ run.token = wk[w].token /\ ~run.cancel
  BY <1>0, <1>4 DEF CanWrite, Row
<1> HIDE DEF fresh, voided
<1>5. CASE \E row \in {run, fresh, voided}, o \in {"failed", "cancelled", "pending"} : Result(w, row, o)
  <2>1. PICK row \in {run, fresh, voided}, o \in {"failed", "cancelled", "pending"} : Result(w, row, o)
    BY <1>5
  <2> DEFINE u == [wk[w] EXCEPT !.pc = "settle", !.view = run, !.mine = row, !.outcome = o]
  <2>2. wk' = [wk EXCEPT ![w] = u]
    BY <2>1 DEF Result
  <2>3. u.view = run /\ u.mine = row /\ u.events = <<>> /\ u.save = wk[w].save
    BY <1>0 DEF WorkerState
  <2> HIDE DEF u
  <2> QED
    BY <1>0, <1>1, <2>2, <2>3, ReloadStep
<1>6. CASE wk' = [wk EXCEPT ![w] = [wk[w] EXCEPT !.pc = "beat", !.view = run, !.mine = fresh]]
  <2> DEFINE u == [wk[w] EXCEPT !.pc = "beat", !.view = run, !.mine = fresh]
  <2>1. wk' = [wk EXCEPT ![w] = u]
    BY <1>6
  <2>2. u.view = run /\ u.mine = fresh /\ u.events = <<>> /\ u.save = wk[w].save
    BY <1>0 DEF WorkerState
  <2> HIDE DEF u
  <2> QED
    BY <1>0, <1>1, <2>1, <2>2, ReloadStep
<1>7. CASE wk' = [wk EXCEPT ![w] = s] /\ CanWrite(w, fresh)
  <2> HIDE DEF started
  <2>1. Len(a.events) = 1 /\ a.events[1].type = "run_started" /\ a.mine = [started EXCEPT !.seq = @ + 1]
    BY <1>0, <1>2, FirstEvent
  <2>2. a.mine.token = run.token /\ a.mine.privacy = run.privacy /\ a.mine.dispatch = run.dispatch
    BY <1>2, <2>1 DEF Row
  <2> HIDE DEF a
  <2>3. /\ s.view = run /\ s.mine = a.mine /\ s.events = a.events /\ s.save = wk[w].save
        /\ s.token = wk[w].token /\ s.pc = "beat"
    BY <1>0 DEF WorkerState
  <2> HIDE DEF s
  <2> QED
    BY <1>0, <1>4, <1>7, <2>1, <2>2, <2>3, ProgressStep
<1> QED
  BY <1>3, <1>5, <1>6, <1>7

\* A worker that gives up with what it holds
LEMMA GiveUpStep ==
    ASSUME Ledger, NEW w \in Workers, NEW o, wk[w].pc # "commit",
           wk' = [wk EXCEPT ![w] = [wk[w] EXCEPT !.pc = "settle", !.outcome = o]],
           UNCHANGED <<run, ckpt, log, lock, tx>>
    PROVE  History' /\ Stands
<1> DEFINE s == [wk[w] EXCEPT !.pc = "settle", !.outcome = o]
<1>1. wk[w] \in WorkerState
  BY WorkerFacts DEF Ledger
<1>2. /\ s.view = wk[w].view /\ s.mine = wk[w].mine /\ s.events = wk[w].events
      /\ s.save = wk[w].save /\ s.token = wk[w].token
  BY <1>1 DEF WorkerState
<1>3. wk' = [wk EXCEPT ![w] = s]
  OBVIOUS
<1> HIDE DEF s
<1> QED
  BY <1>2, <1>3, KeepStep

\* Before a later node
LEMMA NextNodeStep == ASSUME Ledger, NEW w \in Workers, NextNode(w) PROVE History' /\ Stands
<1> DEFINE s == [wk[w] EXCEPT !.pc = "settle", !.outcome = "cancelled", !.mine.cancel = TRUE]
           b == [wk[w] EXCEPT !.pc = "beat"]
<1>0. /\ wk[w] \in WorkerState /\ wk[w].mine \in Row /\ wk[w].pc # "commit"
      /\ UNCHANGED <<run, ckpt, log, lock, tx>>
  BY WorkerFacts DEF Ledger, NextNode
<1>1. \/ \E o \in {"failed", "pending"} : wk' = [wk EXCEPT ![w] = [wk[w] EXCEPT !.pc = "settle", !.outcome = o]]
      \/ wk' = [wk EXCEPT ![w] = s]
      \/ wk' = [wk EXCEPT ![w] = b]
  BY <1>0 DEF NextNode
<1>2. /\ b.view = wk[w].view /\ b.mine = wk[w].mine /\ b.events = wk[w].events
      /\ b.save = wk[w].save /\ b.token = wk[w].token
  BY <1>0 DEF WorkerState
<1>3. /\ s.view = wk[w].view /\ s.mine = [wk[w].mine EXCEPT !.cancel = TRUE]
      /\ s.events = wk[w].events /\ s.save = wk[w].save /\ s.token = wk[w].token
  BY <1>0 DEF WorkerState
<1>4. /\ s.mine.token = wk[w].mine.token /\ s.mine.privacy = wk[w].mine.privacy
      /\ s.mine.dispatch = wk[w].mine.dispatch /\ s.mine.status = wk[w].mine.status
      /\ s.mine.cancel
  <2> HIDE DEF s
  <2> QED
    BY <1>0, <1>3 DEF Row
<1> HIDE DEF s, b
<1>5. CASE wk' = [wk EXCEPT ![w] = s]
  BY <1>0, <1>3, <1>4, <1>5, KeepStep
<1>6. CASE wk' = [wk EXCEPT ![w] = b]
  BY <1>0, <1>2, <1>6, KeepStep
<1> QED
  BY <1>0, <1>1, <1>5, <1>6, GiveUpStep

\* The heartbeat: a commit, or nothing.
LEMMA HeartbeatStep == ASSUME Ledger, NEW w \in Workers, Heartbeat(w) PROVE History' /\ Stands
<1>0. wk[w] \in WorkerState /\ wk[w].pc # "commit" /\ UNCHANGED tx
  BY WorkerFacts DEF Ledger, Heartbeat
<1>1. CASE Renewable(w)
  <2> DEFINE p == IF wk[w].pc = "beat" THEN "work" ELSE "save"
             s == [wk[w] EXCEPT !.pc = p, !.view = NewRow("held"), !.mine = NewRow("held"),
                                !.events = <<>>, !.save = {}]
  <2>1. Commit(w, Flush(wk[w]), s)
    BY <1>0, <1>1 DEF Heartbeat
  <2>2. s.view = NewRow("held") /\ s.mine = NewRow("held") /\ s.events = <<>> /\ s.save = {}
    BY <1>0 DEF WorkerState
  <2> HIDE DEF s
  <2> QED
    BY <1>0, <2>1, <2>2, CommitStep
<1>2. CASE ~Renewable(w)
  <2>1. /\ wk' = [wk EXCEPT ![w] = [wk[w] EXCEPT !.pc = "settle", !.outcome = "failed"]]
        /\ UNCHANGED <<run, ckpt, log, lock>>
    BY <1>0, <1>2 DEF Heartbeat
  <2> QED
    BY <1>0, <2>1, GiveUpStep
<1> QED
  BY <1>1, <1>2

\* Leaving a node behind keeps what the session holds.
LEMMA OnwardKeeps ==
    ASSUME NEW s \in WorkerState
    PROVE  /\ Onward(s).view = s.view /\ Onward(s).mine = s.mine /\ Onward(s).events = s.events
           /\ Onward(s).save = s.save /\ Onward(s).token = s.token /\ Onward(s).pc # "commit"
<1> DEFINE n == [s EXCEPT !.pc = "node", !.node = s.node + 1]
           e == [s EXCEPT !.pc = "settle",
                          !.outcome = IF s.outcome = "partial" THEN "partial" ELSE "succeeded"]
<1>1. Onward(s) = n \/ Onward(s) = e
  BY DEF Onward
<1>2. /\ n.view = s.view /\ n.mine = s.mine /\ n.events = s.events /\ n.save = s.save
      /\ n.token = s.token /\ n.pc = "node"
  BY DEF WorkerState
<1>3. /\ e.view = s.view /\ e.mine = s.mine /\ e.events = s.events /\ e.save = s.save
      /\ e.token = s.token /\ e.pc = "settle"
  BY DEF WorkerState
<1> HIDE DEF n, e
<1> QED
  BY <1>1, <1>2, <1>3

\* While a node runs
LEMMA WorkStep ==
    ASSUME Ledger, NEW w \in Workers,
           Work(w) \/ NodeCommits(w) \/ NodeFails(w) \/ OptionalFails(w)
    PROVE  History' /\ Stands
<1>0. /\ wk[w] \in WorkerState /\ wk[w].events = <<>> /\ wk[w].pc # "commit"
      /\ UNCHANGED <<run, ckpt, log, lock, tx>>
  BY WorkerFacts DEF Ledger, Quiet, Work, NodeCommits, NodeFails, OptionalFails
<1>1. CASE Work(w) \/ NodeCommits(w)
  <2> DEFINE x == [wk[w] EXCEPT !.pc = "exec", !.view = run, !.mine = run]
             y == [wk[w] EXCEPT !.pc = "settle", !.view = run, !.mine = run, !.outcome = "failed"]
             z == [wk[w] EXCEPT !.view = run, !.mine = run]
  <2>1. \E s \in {x, y, z} : wk' = [wk EXCEPT ![w] = s]
    BY <1>0, <1>1 DEF Work, Result, NodeCommits
  <2>2. \A s \in {x, y, z} : s.view = run /\ s.mine = run /\ s.events = <<>> /\ s.save = wk[w].save
    BY <1>0 DEF WorkerState
  <2> HIDE DEF x, y, z
  <2> QED
    BY <1>0, <2>1, <2>2, ReloadStep
<1>2. CASE NodeFails(w)
  BY <1>0, <1>2, GiveUpStep DEF NodeFails
<1>3. CASE OptionalFails(w)
  <2> DEFINE s == [wk[w] EXCEPT !.outcome = "partial"]
  <2>1. wk' = [wk EXCEPT ![w] = Onward(s)]
    BY <1>3 DEF OptionalFails
  <2>2. s \in WorkerState
    BY <1>0 DEF WorkerState, Terminal
  <2>3. /\ s.view = wk[w].view /\ s.mine = wk[w].mine /\ s.events = wk[w].events
        /\ s.save = wk[w].save /\ s.token = wk[w].token
    BY <1>0 DEF WorkerState
  <2> HIDE DEF s
  <2> QED
    BY <1>0, <2>1, <2>2, <2>3, OnwardKeeps, KeepStep
<1> QED
  BY <1>1, <1>2, <1>3

\* The node boundary
LEMMA SaveNodeStep == ASSUME Ledger, NEW w \in Workers, SaveNode(w) PROVE History' /\ Stands
<1> DEFINE k == {<<wk[w].token, wk[w].node + 1>>}
           s == [wk[w] EXCEPT !.view = run, !.mine = run, !.save = k]
           a == Append1(run, <<>>, "step_changed")
           d == [s EXCEPT !.pc = "settle", !.outcome = "pending"]
           h == [s EXCEPT !.pc = "pause"]
           n == [s EXCEPT !.mine = a.mine, !.events = a.events]
<1>0. /\ LedgerInv /\ run \in Row /\ wk[w] \in WorkerState /\ wk[w].events = <<>> /\ wk[w].pc = "save"
      /\ UNCHANGED <<run, ckpt, log, tx>>
      /\ "step_changed" \in EventTypes /\ "step_changed" \notin Terminal
  BY WorkerFacts DEF Ledger, Quiet, SaveNode, EventTypes, Terminal
<1>1. \/ Result(w, run, "failed") /\ UNCHANGED lock
      \/ /\ CanWrite(w, run) /\ lock = Nobody /\ lock' = w
         /\ \E x \in {d, h, Onward(n)} : wk' = [wk EXCEPT ![w] = x]
  BY DEF SaveNode
<1>2. CASE Result(w, run, "failed") /\ UNCHANGED lock
  <2> DEFINE u == [wk[w] EXCEPT !.pc = "settle", !.view = run, !.mine = run, !.outcome = "failed"]
  <2>1. wk' = [wk EXCEPT ![w] = u]
    BY <1>2 DEF Result
  <2>2. u.view = run /\ u.mine = run /\ u.events = <<>> /\ u.save = wk[w].save
    BY <1>0 DEF WorkerState
  <2> HIDE DEF u
  <2> QED
    BY <1>0, <1>2, <2>1, <2>2, ReloadStep
<1>3. CASE /\ CanWrite(w, run) /\ lock = Nobody /\ lock' = w
           /\ \E x \in {d, h, Onward(n)} : wk' = [wk EXCEPT ![w] = x]
  <2>1. /\ run.dispatch = "claimed" /\ run.token = wk[w].token /\ ~run.cancel
        /\ run.privacy = "active"
    BY <1>3 DEF CanWrite
  <2>2. k \in SUBSET (Nat \X Nat)
    BY <1>0 DEF WorkerState
  <2> HIDE DEF k
  <2>3. s \in WorkerState
    BY <1>0, <2>2, WorkerExcept, Zenon
  <2>4. s.view = run /\ s.mine = run /\ s.events = <<>> /\ s.token = wk[w].token /\ s.pc = "save"
    BY <1>0 DEF WorkerState
  <2> HIDE DEF s
  <2>5. \A x \in {d, h} : /\ x.view = run /\ x.mine = run /\ x.events = <<>>
                          /\ x.token = wk[w].token /\ x.pc # "commit"
    BY <2>3, <2>4 DEF WorkerState
  <2>6. Len(a.events) = 1 /\ a.events[1].type = "step_changed" /\ a.mine = [run EXCEPT !.seq = @ + 1]
    BY <1>0, FirstEvent
  <2>7. a.mine.token = run.token /\ a.mine.privacy = run.privacy /\ a.mine.dispatch = run.dispatch
    BY <1>0, <2>6 DEF Row
  <2>8. a.mine \in Row /\ a.events \in Seq(Event)
    BY <1>0, RunKin, OneEvent
  <2> HIDE DEF a
  <2>9. n \in WorkerState
    BY <2>3, <2>8, WorkerExcept, Zenon
  <2>10. n.view = run /\ n.mine = a.mine /\ n.events = a.events /\ n.token = wk[w].token
    BY <2>3, <2>4 DEF WorkerState
  <2> HIDE DEF d, h, n
  <2>11. CASE \E x \in {d, h} : wk' = [wk EXCEPT ![w] = x]
    <3>1. PICK x \in {d, h} : wk' = [wk EXCEPT ![w] = x]
      BY <2>11
    <3> QED
      BY <1>0, <1>3, <2>1, <2>5, <3>1, ProgressStep
  <2>12. CASE wk' = [wk EXCEPT ![w] = Onward(n)]
    <3>1. PICK x : x = Onward(n)
      OBVIOUS
    <3>2. /\ x.view = run /\ x.mine = a.mine /\ x.events = a.events /\ x.token = wk[w].token
          /\ x.pc # "commit"
      BY <2>9, <2>10, <3>1, OnwardKeeps
    <3>3. Len(x.events) = 1 /\ x.events[1].type \notin Terminal
      BY <1>0, <2>6, <3>2
    <3>4. /\ x.mine.token = run.token /\ x.mine.privacy = run.privacy
          /\ x.mine.dispatch = run.dispatch /\ x.token = run.token
      BY <2>1, <2>7, <3>2
    <3>5. wk' = [wk EXCEPT ![w] = x] /\ lock = Nobody /\ lock' = w
      BY <1>3, <2>12, <3>1
    <3> QED
      BY <1>0, <2>1, <3>2, <3>3, <3>4, <3>5, ProgressStep
  <2> QED
    BY <1>3, <2>11, <2>12
<1> QED
  BY <1>1, <1>2, <1>3

\* What gives the run up
LEMMA ClosedFields ==
    ASSUME NEW r \in Row, NEW st \in Statuses
    PROVE  /\ Closed(r, st) \in Row /\ Closed(r, st).dispatch = "finished"
           /\ Closed(r, st).token = r.token /\ Closed(r, st).privacy = r.privacy
           /\ Closed(r, st).cancel = r.cancel
<1>1. Closed(r, st) \in Row
  BY ClosedKin DEF Kin
<1>2. PICK n \in Nat : n = r.sv + 1
  BY DEF Row
<1>3. Closed(r, st) = [r EXCEPT !.status = st, !.dispatch = "finished", !.owner = Nobody,
                                !.lease = "none", !.sv = n]
  BY <1>2 DEF Closed
<1> QED
  BY <1>1, <1>3 DEF Row

\* Appending one callback leaves the columns that matter here.
LEMMA AppendFields ==
    ASSUME NEW row \in Row, NEW es, NEW t \in EventTypes
    PROVE  \E e \in Event, m \in Row :
             /\ e.type = t /\ Append1(row, es, t).events = Append(es, e)
             /\ Append1(row, es, t).mine = m /\ m.dispatch = row.dispatch /\ m.token = row.token
             /\ m.privacy = row.privacy /\ m.cancel = row.cancel
<1>1. PICK e \in Event : e = [type |-> t, sv |-> row.sv]
  BY DEF Event, Row
<1>2. e.type = t /\ Append1(row, es, t).events = Append(es, e)
  BY <1>1 DEF Append1
<1>3. PICK m \in Row : m = [row EXCEPT !.seq = @ + 1]
  <2>1. [row EXCEPT !.seq = @ + 1] \in Row
    BY DEF Row
  <2> QED
    BY <2>1, Zenon
<1>4. Append1(row, es, t).mine = m
  BY <1>3 DEF Append1
<1>5. m.dispatch = row.dispatch /\ m.token = row.token /\ m.privacy = row.privacy /\ m.cancel = row.cancel
  BY <1>3 DEF Row
<1> QED
  BY <1>2, <1>4, <1>5

\* pause_for_human, up to its commit
LEMMA PauseStep == ASSUME Ledger, NEW w \in Workers, PauseForHuman(w) PROVE History' /\ Stands
<1> DEFINE row == Closed(wk[w].mine, "waiting_human")
           a == Append1(row, wk[w].events, "waiting_human")
           s == [wk[w] EXCEPT !.pc = "commit", !.mine = a.mine, !.events = a.events]
<1>0. /\ wk[w] \in WorkerState /\ wk[w].mine \in Row /\ wk[w].pc = "pause"
      /\ "waiting_human" \in Statuses /\ "waiting_human" \in EventTypes
      /\ UNCHANGED <<run, ckpt, log, lock, tx>>
  BY WorkerFacts DEF Ledger, PauseForHuman, Statuses, EventTypes
<1>1. \/ wk' = [wk EXCEPT ![w] = s] /\ CanWrite(w, wk[w].mine)
      \/ wk' = [wk EXCEPT ![w] = [wk[w] EXCEPT !.pc = "settle", !.outcome = "failed"]]
  BY <1>0 DEF PauseForHuman
<1>2. CASE wk' = [wk EXCEPT ![w] = s] /\ CanWrite(w, wk[w].mine)
  <2>1. /\ wk[w].mine.dispatch = "claimed" /\ wk[w].mine.token = wk[w].token /\ ~wk[w].mine.cancel
    BY <1>2 DEF CanWrite
  <2>2. /\ row \in Row /\ row.dispatch = "finished" /\ row.token = wk[w].mine.token
        /\ row.privacy = wk[w].mine.privacy /\ row.cancel = wk[w].mine.cancel
    BY <1>0, ClosedFields
  <2> HIDE DEF row
  <2>3. PICK e \in Event, m \in Row :
         /\ e.type = "waiting_human" /\ Append1(row, wk[w].events, "waiting_human").events = Append(wk[w].events, e)
         /\ Append1(row, wk[w].events, "waiting_human").mine = m /\ m.dispatch = row.dispatch
         /\ m.token = row.token /\ m.privacy = row.privacy /\ m.cancel = row.cancel
    BY <1>0, <2>2, <2>2, AppendFields
  <2>4. PICK u : u = [wk[w] EXCEPT !.pc = "commit", !.mine = m, !.events = Append(wk[w].events, e)]
    OBVIOUS
  <2>5. wk' = [wk EXCEPT ![w] = u] /\ UNCHANGED <<run, ckpt, log, lock, tx>>
    BY <1>0, <1>2, <2>3, <2>4
  <2>6. /\ u.pc = "commit" /\ u.view = wk[w].view /\ u.token = wk[w].token /\ u.save = wk[w].save
        /\ u.mine = m /\ u.events = Append(wk[w].events, e)
    BY <1>0, <2>4 DEF WorkerState
  <2>7. /\ u.mine.token = wk[w].mine.token /\ u.mine.privacy = wk[w].mine.privacy
        /\ u.mine.dispatch = "finished" /\ u.mine.cancel = wk[w].mine.cancel
    BY <2>2, <2>3, <2>6
  <2>8. (e.type \in Terminal \/ ~wk[w].mine.cancel) /\ wk[w].pc # "commit"
    BY <1>0, <2>1, <2>2, <2>3
  <2> QED
    BY <2>1, <2>5, <2>6, <2>7, <2>8, CloseStep
<1> QED
  BY <1>0, <1>1, <1>2, GiveUpStep

\* finish, finish_after_invalid_boundary and release_for_drain, up to their commit
LEMMA SettleStep == ASSUME Ledger, NEW w \in Workers, Settle(w) PROVE History' /\ Stands
<1> DEFINE o == wk[w].outcome
           fin == [Closed(wk[w].mine, o) EXCEPT !.fallback = FALSE]
           void == Closed(wk[w].mine, "cancelled")
           x == [wk[w] EXCEPT !.pc = "commit", !.mine = Append1(fin, wk[w].events, o).mine,
                              !.events = Append1(fin, wk[w].events, o).events]
           y == [wk[w] EXCEPT !.pc = "commit",
                              !.mine = Append1(void, wk[w].events, "cancelled").mine,
                              !.events = Append1(void, wk[w].events, "cancelled").events]
           z == [wk[w] EXCEPT !.pc = "commit", !.mine.lease = "released"]
<1>0. /\ wk[w] \in WorkerState /\ wk[w].mine \in Row /\ wk[w].pc = "settle"
      /\ wk[w].outcome \in Terminal \cup {"pending"}
      /\ "cancelled" \in Terminal /\ "cancelled" \in Statuses /\ "cancelled" \in EventTypes
      /\ UNCHANGED tx
  BY WorkerFacts DEF Ledger, Settle, Statuses, EventTypes, Terminal, WorkerState
<1>1. \/ Abandon(w)
      \/ /\ UNCHANGED <<run, ckpt, log, lock>>
         /\ \/ wk' = [wk EXCEPT ![w] = z]
            \/ AtInvalidBoundary(w, wk[w].mine) /\ wk' = [wk EXCEPT ![w] = y]
            \/ CanWrite(w, wk[w].mine) /\ o # "pending" /\ wk' = [wk EXCEPT ![w] = x]
  BY <1>0 DEF Settle
<1>2. CASE Abandon(w)
  BY <1>0, <1>2, AbandonStep
<1>3. CASE UNCHANGED <<run, ckpt, log, lock>> /\ wk' = [wk EXCEPT ![w] = z]
  <2>1. PICK m : m = [wk[w].mine EXCEPT !.lease = "released"]
    OBVIOUS
  <2>2. /\ m.token = wk[w].mine.token /\ m.privacy = wk[w].mine.privacy
        /\ m.dispatch = wk[w].mine.dispatch /\ m.status = wk[w].mine.status
        /\ m.cancel = wk[w].mine.cancel
    BY <1>0, <2>1 DEF Row
  <2>3. z = [wk[w] EXCEPT !.pc = "commit", !.mine = m]
    BY <1>0, <2>1 DEF WorkerState
  <2>4. /\ z.view = wk[w].view /\ z.mine = m /\ z.events = wk[w].events /\ z.token = wk[w].token
        /\ z.save = wk[w].save
    BY <1>0, <2>3 DEF WorkerState
  <2> HIDE DEF z
  <2> QED
    BY <1>0, <1>3, <2>2, <2>4, KeepStep
<1>4. CASE /\ UNCHANGED <<run, ckpt, log, lock>> /\ AtInvalidBoundary(w, wk[w].mine)
           /\ wk' = [wk EXCEPT ![w] = y]
  <2>1. wk[w].mine.dispatch = "claimed" /\ wk[w].mine.token = wk[w].token
    BY <1>4 DEF AtInvalidBoundary
  <2>2. /\ void \in Row /\ void.dispatch = "finished" /\ void.token = wk[w].mine.token
        /\ void.privacy = wk[w].mine.privacy /\ void.cancel = wk[w].mine.cancel
    BY <1>0, ClosedFields
  <2> HIDE DEF void
  <2>3. PICK e \in Event, m \in Row :
         /\ e.type = "cancelled" /\ Append1(void, wk[w].events, "cancelled").events = Append(wk[w].events, e)
         /\ Append1(void, wk[w].events, "cancelled").mine = m /\ m.dispatch = void.dispatch
         /\ m.token = void.token /\ m.privacy = void.privacy /\ m.cancel = void.cancel
    BY <1>0, <2>2, <2>2, AppendFields
  <2>4. PICK u : u = [wk[w] EXCEPT !.pc = "commit", !.mine = m, !.events = Append(wk[w].events, e)]
    OBVIOUS
  <2>5. wk' = [wk EXCEPT ![w] = u] /\ UNCHANGED <<run, ckpt, log, lock, tx>>
    BY <1>0, <1>4, <2>3, <2>4
  <2>6. /\ u.pc = "commit" /\ u.view = wk[w].view /\ u.token = wk[w].token /\ u.save = wk[w].save
        /\ u.mine = m /\ u.events = Append(wk[w].events, e)
    BY <1>0, <2>4 DEF WorkerState
  <2>7. /\ u.mine.token = wk[w].mine.token /\ u.mine.privacy = wk[w].mine.privacy
        /\ u.mine.dispatch = "finished" /\ u.mine.cancel = wk[w].mine.cancel
    BY <2>2, <2>3, <2>6
  <2>8. (e.type \in Terminal \/ ~wk[w].mine.cancel) /\ wk[w].pc # "commit"
    BY <1>0, <2>1, <2>2, <2>3
  <2> QED
    BY <2>1, <2>5, <2>6, <2>7, <2>8, CloseStep
<1>5. CASE /\ UNCHANGED <<run, ckpt, log, lock>> /\ CanWrite(w, wk[w].mine) /\ o # "pending"
           /\ wk' = [wk EXCEPT ![w] = x]
  <2>1. wk[w].mine.dispatch = "claimed" /\ wk[w].mine.token = wk[w].token
    BY <1>5 DEF CanWrite
  <2>2. o \in Terminal /\ o \in Statuses /\ o \in EventTypes
    BY <1>0, <1>5 DEF Statuses, EventTypes
  <2> HIDE DEF o
  <2>3. PICK r \in Row : r = Closed(wk[w].mine, o)
    BY <1>0, <2>2, ClosedFields
  <2>4. /\ r.dispatch = "finished" /\ r.token = wk[w].mine.token
        /\ r.privacy = wk[w].mine.privacy /\ r.cancel = wk[w].mine.cancel
    BY <1>0, <2>2, <2>3, ClosedFields
  <2>5. /\ fin \in Row /\ fin.dispatch = "finished" /\ fin.token = wk[w].mine.token
        /\ fin.privacy = wk[w].mine.privacy /\ fin.cancel = wk[w].mine.cancel
    BY <2>3, <2>4 DEF Row
  <2> HIDE DEF fin
  <2>6. PICK e \in Event, m \in Row :
         /\ e.type = o /\ Append1(fin, wk[w].events, o).events = Append(wk[w].events, e)
         /\ Append1(fin, wk[w].events, o).mine = m /\ m.dispatch = fin.dispatch
         /\ m.token = fin.token /\ m.privacy = fin.privacy /\ m.cancel = fin.cancel
    BY <1>0, <2>2, <2>5, AppendFields
  <2>7. PICK u : u = [wk[w] EXCEPT !.pc = "commit", !.mine = m, !.events = Append(wk[w].events, e)]
    OBVIOUS
  <2>8. wk' = [wk EXCEPT ![w] = u] /\ UNCHANGED <<run, ckpt, log, lock, tx>>
    BY <1>0, <1>5, <2>6, <2>7
  <2>9. /\ u.pc = "commit" /\ u.view = wk[w].view /\ u.token = wk[w].token /\ u.save = wk[w].save
        /\ u.mine = m /\ u.events = Append(wk[w].events, e)
    BY <1>0, <2>7 DEF WorkerState
  <2>10. /\ u.mine.token = wk[w].mine.token /\ u.mine.privacy = wk[w].mine.privacy
        /\ u.mine.dispatch = "finished" /\ u.mine.cancel = wk[w].mine.cancel
    BY <2>5, <2>6, <2>9
  <2>11. (e.type \in Terminal \/ ~wk[w].mine.cancel) /\ wk[w].pc # "commit"
    BY <1>0, <2>1, <2>2, <2>6
  <2> QED
    BY <2>1, <2>8, <2>9, <2>10, <2>11, CloseStep
<1> QED
  BY <1>1, <1>2, <1>3, <1>4, <1>5

\* The commit that ends the worker's session
LEMMA CommitResultStep == ASSUME Ledger, NEW w \in Workers, CommitResult(w) PROVE History' /\ Stands
<1>1. /\ IdleWorker.view = NewRow("held") /\ IdleWorker.mine = NewRow("held")
      /\ IdleWorker.events = <<>> /\ IdleWorker.save = {}
  BY DEF IdleWorker
<1> QED
  BY <1>1, CommitStep DEF CommitResult

-----------------------------------------------------------------------------
(* Requests, the reaper, the reconciler and the environment. *)

\* API requests, up to their commit
LEMMA ApiStep ==
    ASSUME Ledger, NEW c \in Sessions,
           StartBegin(c) \/ CancelBegin(c) \/ PurgeBegin(c) \/ RetryBegin(c)
    PROVE  History' /\ Stands
<1>0. run \in Row /\ "cancelled" \in EventTypes /\ "cancelled" \in Statuses
  BY RunKin DEF Ledger, EventTypes, Statuses, Terminal
<1>1. CASE StartBegin(c)
  <2>1. PICK r : r = [run EXCEPT !.dispatch = "queued"]
    OBVIOUS
  <2>2. r.cancel = run.cancel /\ r.dispatch = "queued" /\ r.status = run.status /\ r.privacy = run.privacy
    BY <1>0, <2>1 DEF Row
  <2>3. Begin(c, "start", r, <<>>)
    BY <1>1, <2>1 DEF StartBegin
  <2> QED
    BY <2>2, <2>3, BeginStep
<1>2. CASE CancelBegin(c) /\ Cancellable(run)
  <2>1. PICK n \in Nat : n = run.sv + 1
    BY <1>0 DEF Row
  <2>2. PICK r : r = [run EXCEPT !.cancel = TRUE, !.status = "cancelled", !.dispatch = "finished", !.sv = n]
    OBVIOUS
  <2>3. r \in Row /\ r.cancel /\ r.status = "cancelled" /\ r.privacy = run.privacy
    BY <1>0, <2>2 DEF Row
  <2>4. PICK m, es : m = Append1(r, <<>>, "cancelled").mine /\ es = Append1(r, <<>>, "cancelled").events
    OBVIOUS
  <2>5. Len(es) = 1 /\ es[1].type = "cancelled" /\ m = [r EXCEPT !.seq = @ + 1]
    BY <1>0, <2>3, <2>4, FirstEvent
  <2>6. m.cancel /\ m.status = "cancelled" /\ m.privacy = run.privacy
    BY <2>3, <2>5 DEF Row
  <2>7. Begin(c, "cancel", m, es)
    BY <1>2, <2>1, <2>2, <2>4 DEF CancelBegin
  <2> QED
    BY <1>2, <2>5, <2>6, <2>7, BeginStep
<1>3. CASE CancelBegin(c) /\ ~Cancellable(run)
  <2>1. PICK r : r = [run EXCEPT !.cancel = TRUE]
    OBVIOUS
  <2>2. r.cancel /\ r.dispatch = run.dispatch /\ r.status = run.status /\ r.privacy = run.privacy
    BY <1>0, <2>1 DEF Row
  <2>3. Begin(c, "cancel", r, <<>>)
    BY <1>3, <2>1 DEF CancelBegin
  <2> QED
    BY <2>2, <2>3, BeginStep
<1>4. CASE PurgeBegin(c)
  <2>1. PICK r : r = [run EXCEPT !.privacy = "purge_requested", !.cancel = TRUE]
    OBVIOUS
  <2>2. r.cancel /\ r.dispatch = run.dispatch /\ r.status = run.status /\ r.privacy = "purge_requested"
    BY <1>0, <2>1 DEF Row
  <2>3. Begin(c, "purge", r, <<>>)
    BY <1>4, <2>1 DEF PurgeBegin
  <2> QED
    BY <2>2, <2>3, BeginStep
<1>5. CASE RetryBegin(c)
  <2>1. PICK n \in Nat, k \in Nat : n = run.retries + 1 /\ k = run.sv + 1
    BY <1>0 DEF Row
  <2>2. PICK r : r = [run EXCEPT !.retries = n, !.status = "pending", !.dispatch = "queued", !.sv = k]
    OBVIOUS
  <2>3. r.cancel = run.cancel /\ r.dispatch = "queued" /\ r.status = "pending" /\ r.privacy = run.privacy
    BY <1>0, <2>2 DEF Row
  <2>4. Begin(c, "retry", r, <<>>)
    BY <1>5, <2>1, <2>2 DEF RetryBegin
  <2> QED
    BY <2>3, <2>4, BeginStep
<1> QED
  BY <1>1, <1>2, <1>3, <1>4, <1>5

\* complete_purge, up to its commit
LEMMA CompletePurgeStep == ASSUME Ledger, CompletePurgeBegin PROVE History' /\ Stands
<1>0. run \in Row /\ Scanner \in Sessions
  BY RunKin DEF Ledger, Sessions
<1>1. PICK r : r = [run EXCEPT !.privacy = "purged"]
  OBVIOUS
<1>2. r.cancel = run.cancel /\ r.dispatch = run.dispatch /\ r.status = run.status /\ r.privacy = "purged"
  BY <1>0, <1>1 DEF Row
<1>3. Begin(Scanner, "complete_purge", r, <<>>) /\ run.privacy # "active"
  BY <1>1 DEF CompletePurgeBegin
<1> QED
  BY <1>0, <1>2, <1>3, BeginStep

\* An update that appends nothing
LEMMA QuietUpdateStep ==
    ASSUME Ledger, NEW row \in Row, NEW b, Update(row, <<>>, b),
           row.token = run.token, row.privacy = run.privacy, run.cancel => row.cancel,
           row.dispatch \in {run.dispatch, "queued"}, row.status \in {run.status, "pending"}
    PROVE  History' /\ Stands
<1>0. <<>> \in Seq(Event)
  OBVIOUS
<1>1. PICK es \in Seq(Event) : es = <<>>
  BY <1>0, Zenon
<1>2. Update(row, es, b)
  BY <1>1
<1> QED
  BY <1>1, <1>2, UpdateStep

\* An update that ends the run with one callback
LEMMA EndingStep ==
    ASSUME Ledger, NEW row \in Row, NEW t \in Terminal, NEW b,
           Update(Append1(row, <<>>, t).mine, Append1(row, <<>>, t).events, b),
           row.token = run.token, row.privacy = run.privacy, row.cancel = run.cancel,
           row.dispatch = "finished",
           run.dispatch # "finished" \/ run.status = "waiting_human"
    PROVE  History' /\ Stands
<1>0. t \in EventTypes
  BY DEF EventTypes
<1>1. PICK m, es : m = Append1(row, <<>>, t).mine /\ es = Append1(row, <<>>, t).events
  OBVIOUS
<1>2. Len(es) = 1 /\ es[1].type = t /\ m = [row EXCEPT !.seq = @ + 1]
  BY <1>0, <1>1, FirstEvent
<1>3. /\ m \in Row /\ m.token = run.token /\ m.privacy = run.privacy /\ m.cancel = run.cancel
      /\ m.dispatch = "finished"
  BY <1>2 DEF Row
<1>4. es \in Seq(Event)
  <2>1. ASSUME NEW x \in Seq(Event) PROVE Append1(row, x, t).events \in Seq(Event)
    BY <1>0, Append1Type
  <2>2. <<>> \in Seq(Event)
    OBVIOUS
  <2> QED
    BY <1>1, <2>1, <2>2
<1>5. Update(m, es, b)
  BY <1>1
<1> QED
  BY <1>2, <1>3, <1>4, <1>5, UpdateStep

\* The reconciler ends a run that no worker holds, or that waits.
LEMMA TerminateStep ==
    ASSUME Ledger, NEW t \in Terminal, Terminate(t),
           run.dispatch # "finished" \/ run.status = "waiting_human"
    PROVE  History' /\ Stands
<1>0. run \in Row /\ t \in Statuses
  BY RunKin DEF Ledger, Statuses
<1>1. PICK n \in Nat : n = run.sv + 1
  BY <1>0 DEF Row
<1>2. PICK r : r = [run EXCEPT !.status = t, !.dispatch = "finished", !.sv = n, !.fallback = FALSE]
  OBVIOUS
<1>3. /\ r \in Row /\ r.token = run.token /\ r.privacy = run.privacy /\ r.cancel = run.cancel
      /\ r.dispatch = "finished"
  BY <1>0, <1>2 DEF Row
<1>4. Update(Append1(r, <<>>, t).mine, Append1(r, <<>>, t).events, FALSE)
  BY <1>1, <1>2 DEF Terminate, Terminated
<1> QED
  BY <1>3, <1>4, EndingStep

\* Human decisions
LEMMA DecisionStep == ASSUME Ledger, Approve \/ Reject PROVE History' /\ Stands
<1>0. run \in Row /\ run.status = "waiting_human" /\ "failed" \in Statuses /\ "failed" \in Terminal
  BY RunKin DEF Ledger, Approve, Reject, Statuses, Terminal
<1>1. PICK n \in Nat : n = run.sv + 1
  BY <1>0 DEF Row
<1>2. CASE \E f \in BOOLEAN : Update([run EXCEPT !.dispatch = "queued", !.sv = @ + 1, !.fallback = f], <<>>, TRUE)
  <2>1. PICK f \in BOOLEAN : Update([run EXCEPT !.dispatch = "queued", !.sv = @ + 1, !.fallback = f], <<>>, TRUE)
    BY <1>2
  <2>2. PICK r : r = [run EXCEPT !.dispatch = "queued", !.sv = n, !.fallback = f]
    OBVIOUS
  <2>3. /\ r \in Row /\ r.token = run.token /\ r.privacy = run.privacy /\ r.cancel = run.cancel
        /\ r.dispatch = "queued" /\ r.status = run.status
    BY <1>0, <2>2 DEF Row
  <2>4. Update(r, <<>>, TRUE)
    BY <1>1, <2>1, <2>2
  <2> QED
    BY <2>3, <2>4, QuietUpdateStep
<1>3. CASE Reject /\ ~RejectFallback
  <2>1. PICK r : r = [run EXCEPT !.status = "failed", !.sv = n]
    OBVIOUS
  <2>2. run.dispatch = "finished"
    BY <1>3 DEF Reject
  <2>3. /\ r \in Row /\ r.token = run.token /\ r.privacy = run.privacy /\ r.cancel = run.cancel
        /\ r.dispatch = "finished"
    BY <1>0, <2>1, <2>2 DEF Row
  <2>4. Update(Append1(r, <<>>, "failed").mine, Append1(r, <<>>, "failed").events, FALSE)
    BY <1>1, <1>3, <2>1 DEF Reject
  <2> QED
    BY <1>0, <2>3, <2>4, EndingStep
<1> QED
  BY <1>2, <1>3 DEF Approve, Reject

\* The reaper
LEMMA ReapStep == ASSUME Ledger, ReapExpired PROVE History' /\ Stands
<1>0. run \in Row /\ run.dispatch = "claimed" /\ {"pending", "cancelled"} \subseteq Statuses
      /\ "cancelled" \in Terminal
  BY RunKin DEF Ledger, ReapExpired, Statuses, Terminal
<1>1. PICK n \in Nat : n = run.sv + 1
  BY <1>0 DEF Row
<1>2. PICK e : e = [run EXCEPT !.owner = Nobody, !.lease = "none", !.status = "cancelled",
                               !.dispatch = "finished", !.sv = n, !.fallback = FALSE]
  OBVIOUS
<1>3. PICK q : q = [run EXCEPT !.owner = Nobody, !.lease = "none", !.dispatch = "queued"]
  OBVIOUS
<1>4. PICK p : p = [run EXCEPT !.owner = Nobody, !.lease = "none", !.dispatch = "queued",
                               !.status = "pending", !.sv = n]
  OBVIOUS
<1>5. /\ e \in Row /\ e.token = run.token /\ e.privacy = run.privacy /\ e.cancel = run.cancel
      /\ e.dispatch = "finished"
  BY <1>0, <1>2 DEF Row
<1>6. /\ q \in Row /\ q.token = run.token /\ q.privacy = run.privacy /\ q.cancel = run.cancel
      /\ q.dispatch = "queued" /\ q.status = run.status
  BY <1>0, <1>3 DEF Row
<1>7. /\ p \in Row /\ p.token = run.token /\ p.privacy = run.privacy /\ p.cancel = run.cancel
      /\ p.dispatch = "queued" /\ p.status = "pending"
  BY <1>0, <1>4 DEF Row
<1>8. CASE ~env.pkg
  <2> DEFINE freed == [run EXCEPT !.owner = Nobody, !.lease = "none"]
             row == [freed EXCEPT !.status = "cancelled", !.dispatch = "finished",
                                  !.sv = @ + 1, !.fallback = FALSE]
  <2>1. row = e
    BY <1>0, <1>1, <1>2 DEF Row
  <2>2. Update(Append1(row, <<>>, "cancelled").mine, Append1(row, <<>>, "cancelled").events, FALSE)
    BY <1>8 DEF ReapExpired
  <2> HIDE DEF row
  <2> QED
    BY <1>0, <1>5, <2>1, <2>2, EndingStep
<1>9. CASE env.pkg /\ run.status = "running"
  <2> DEFINE freed == [run EXCEPT !.owner = Nobody, !.lease = "none"]
             queued == [freed EXCEPT !.dispatch = "queued"]
             row == [queued EXCEPT !.status = "pending", !.sv = @ + 1]
  <2>1. row = p
    BY <1>0, <1>1, <1>4 DEF Row
  <2>2. Update(row, <<>>, TRUE)
    BY <1>9 DEF ReapExpired
  <2> HIDE DEF row
  <2> QED
    BY <1>7, <2>1, <2>2, QuietUpdateStep
<1>10. CASE env.pkg /\ run.status # "running"
  <2> DEFINE freed == [run EXCEPT !.owner = Nobody, !.lease = "none"]
             queued == [freed EXCEPT !.dispatch = "queued"]
  <2>1. queued = q
    BY <1>0, <1>3 DEF Row
  <2>2. Update(queued, <<>>, TRUE)
    BY <1>10 DEF ReapExpired
  <2> HIDE DEF queued
  <2> QED
    BY <1>6, <2>1, <2>2, QuietUpdateStep
<1> QED
  BY <1>8, <1>9, <1>10

\* The reconciler requests a cancel of a claimed run.
LEMMA RequestStep ==
    ASSUME Ledger, NEW f \in BOOLEAN,
           Update([run EXCEPT !.cancel = TRUE, !.fallback = f], <<>>, FALSE)
    PROVE  History' /\ Stands
<1>0. run \in Row
  BY RunKin DEF Ledger
<1>1. PICK r : r = [run EXCEPT !.cancel = TRUE, !.fallback = f]
  OBVIOUS
<1>2. /\ r \in Row /\ r.token = run.token /\ r.privacy = run.privacy /\ r.cancel
      /\ r.dispatch = run.dispatch /\ r.status = run.status
  BY <1>0, <1>1 DEF Row
<1> QED
  BY <1>1, <1>2, QuietUpdateStep

\* A step that touches neither the run nor a session
LEMMA QuietStep ==
    ASSUME Ledger, UNCHANGED <<run, ckpt, log, lock, wk, tx>>
    PROVE  History' /\ Stands
<1>1. LedgerInv /\ History /\ LogFits
  BY DEF Ledger, History
<1>2. Grows /\ LogFits' /\ Stands
  BY <1>1, GrowsNot
<1>3. (\A w \in Workers : WorkerFits(wk[w])') /\ \A c \in Sessions : TxFits(tx[c])'
  BY <1>2, WorkerKept, TxKept
<1>4. SaveFits' /\ PurgeFits' /\ PurgedHasNoCheckpoint'
  BY <1>1 DEF History, SaveFits, PurgeFits, PurgedHasNoCheckpoint
<1> QED
  BY <1>2, <1>3, <1>4 DEF History

\* The reaper and the repairs of a reconciliation scan
LEMMA ReconcileStep == ASSUME Ledger, Reconcile PROVE History' /\ Stands
<1>0. /\ run \in Row /\ "failed" \in Terminal /\ "cancelled" \in Terminal
      /\ TimeoutAction = "fallback" \/ TimeoutAction \in Terminal
  BY RunKin, ConstantsAssumption DEF Ledger, Terminal
<1>1. CASE ReapExpired
  BY <1>1, ReapStep
<1>2. CASE RepairTimeout
  BY <1>0, <1>2, RequestStep, TerminateStep DEF RepairTimeout, Cancellable
<1>3. CASE RepairWithdrawn
  <2>1. [run EXCEPT !.cancel = TRUE] = [run EXCEPT !.cancel = TRUE, !.fallback = run.fallback]
        /\ run.fallback \in BOOLEAN
    BY <1>0 DEF Row
  <2>2. CASE Update([run EXCEPT !.cancel = TRUE], <<>>, FALSE)
    BY <2>1, <2>2, RequestStep
  <2>3. CASE Cancellable(run) /\ Terminate("cancelled")
    BY <1>0, <2>3, TerminateStep DEF Cancellable
  <2> QED
    BY <1>3, <2>2, <2>3 DEF RepairWithdrawn
<1>4. CASE RepairHeldTimeout \/ RepairQueuedTimeout
  BY <1>0, <1>4, TerminateStep DEF RepairHeldTimeout, RepairQueuedTimeout
<1>5. CASE RepairMissingDispatch
  BY <1>5, QuietStep DEF RepairMissingDispatch
<1>6. CASE RepairWaitingTimeout
  <2>1. PICK n \in Nat : n = run.sv + 1
    BY <1>0 DEF Row
  <2>2. PICK r : r = [run EXCEPT !.dispatch = "queued", !.sv = n, !.fallback = TRUE]
    OBVIOUS
  <2>3. /\ r \in Row /\ r.token = run.token /\ r.privacy = run.privacy /\ r.cancel = run.cancel
        /\ r.dispatch = "queued" /\ r.status = run.status
    BY <1>0, <2>2 DEF Row
  <2>4. CASE Update([run EXCEPT !.dispatch = "queued", !.sv = @ + 1, !.fallback = TRUE], <<>>, TRUE)
    <3>1. Update(r, <<>>, TRUE)
      BY <2>1, <2>2, <2>4
    <3> QED
      BY <2>3, <3>1, QuietUpdateStep
  <2> QED
    BY <1>0, <1>6, <2>4, TerminateStep DEF RepairWaitingTimeout
<1> QED
  BY <1>1, <1>2, <1>3, <1>4, <1>5, <1>6 DEF Reconcile

\* Clocks, configuration and processes
LEMMA EnvironmentStep == ASSUME Ledger, Environment PROVE History' /\ Stands
<1>1. CASE \E w \in Workers : Crash(w)
  BY <1>1, AbandonStep DEF Crash
<1>2. CASE (\E t \in 1..MaxToken : LeaseLapses(t)) \/ DeadlinePasses \/ PackageRevoked
           \/ AuthorizationChanges \/ \E w \in Workers : Drain(w) \/ Restart(w)
  BY <1>2, QuietStep DEF LeaseLapses, DeadlinePasses, PackageRevoked, AuthorizationChanges, Drain, Restart
<1> QED
  BY <1>1, <1>2 DEF Environment

-----------------------------------------------------------------------------
(* The theorems. *)

\* The invariant holds initially.
LEMMA Initially == ASSUME Init PROVE Ledger
<1>1. LedgerInv
  BY LedgerInit
<1>2. PICK mode \in StartModes : run = NewRow(mode)
  BY DEF Init
<1>3. run.status = "pending" /\ run.dispatch # "finished" /\ run.dispatch # "claimed" /\ run.privacy = "active"
  BY <1>2 DEF NewRow
<1>4. /\ log = <<>> /\ ckpt = {} /\ wk = [w \in Workers |-> IdleWorker]
      /\ tx = [c \in Sessions |-> IdleTx]
  BY DEF Init
<1>5. LogFits
  <2>1. 1..Len(log) = {}
    BY <1>4
  <2> QED
    BY <1>3, <2>1 DEF LogFits, CallbacksInOrder, AttemptsDoNotInterleave, NothingAfterTheEnd
<1>6. WorkerFits(IdleWorker) /\ TxFits(IdleTx) /\ IdleWorker.save = {} /\ IdleTx.op = "none"
  BY <1>1, <1>5, IdleFits
<1> QED
  BY <1>1, <1>3, <1>4, <1>5, <1>6 DEF Ledger, History, SaveFits, PurgeFits, PurgedHasNoCheckpoint

\* Every step keeps the invariant and lets a finished outcome stand.
LEMMA EveryStep == ASSUME Ledger, [Next]_vars PROVE Ledger' /\ Stands
<1>1. LedgerInv'
  BY LedgerNext DEF Ledger
<1>2. CASE UNCHANGED vars
  BY <1>1, <1>2, QuietStep DEF vars, Ledger
<1>3. CASE \E c \in Clients : Api(c)
  BY <1>1, <1>3, ApiStep DEF Api, Sessions, Ledger
<1>4. CASE \E c \in Sessions : TxCommit(c)
  BY <1>1, <1>4, TxCommitStep DEF Ledger
<1>5. CASE CompletePurgeBegin \/ Approve \/ Reject
  BY <1>1, <1>5, CompletePurgeStep, DecisionStep DEF Ledger
<1>6. CASE \E w \in Workers : Worker(w)
  BY <1>1, <1>6, ClaimStep, ExecuteStep, NextNodeStep, HeartbeatStep, WorkStep, SaveNodeStep,
     PauseStep, SettleStep, CommitResultStep DEF Worker, Ledger
<1>7. CASE Reconcile \/ Environment
  BY <1>1, <1>7, ReconcileStep, EnvironmentStep DEF Ledger
<1> QED
  BY <1>2, <1>3, <1>4, <1>5, <1>6, <1>7 DEF Next

\* The inductive invariant holds in every reachable state.
THEOREM HistoryHolds == Spec => []Ledger
BY Initially, EveryStep, PTL DEF Spec

\* A receiver that follows the event numbers sees the attempts one after the other, and
\* nothing of an attempt after its end, however many workers lose their lease and come
\* back: a session that appends callbacks commits only if the row it loaded was the last.
THEOREM CallbacksOrdered == Spec => []CallbacksInOrder
<1>1. Ledger => CallbacksInOrder
  BY DEF Ledger, History, LogFits
<1> QED
  BY <1>1, HistoryHolds, PTL

\* No checkpoint outlives the purge: the worker that saves one holds the row's lock, on
\* an active run, until its commit, and complete_purge deletes what was there.
THEOREM PurgeLeavesNothing == Spec => []PurgedHasNoCheckpoint
<1>1. Ledger => PurgedHasNoCheckpoint
  BY DEF Ledger, History
<1> QED
  BY <1>1, HistoryHolds, PTL

\* succeeded and cancelled are never replaced by another outcome, for any number of
\* workers, requests and scans that loaded the row before it was finished: all that may
\* follow is a reopening by a start or a retry (finish, cancel, _terminate).
THEOREM OutcomesStand == Spec => OutcomeIsNotReplaced
<1>1. ASSUME Ledger, [Next]_vars
      PROVE  [run.status \in {"succeeded", "cancelled"} /\ run.dispatch = "finished" =>
                run'.status \in {run.status, "pending"}]_run
  BY <1>1, EveryStep DEF Stands
<1> QED
  BY <1>1, HistoryHolds, PTL DEF Spec, OutcomeIsNotReplaced

-----------------------------------------------------------------------------
(***************************************************************************)
(* The ledger implements RunFeed.                                          *)
(***************************************************************************)

\* What a commit adds to the log
LEMMA LogTail ==
    ASSUME LedgerInv, NEW es \in Seq(Event), NEW t \in Nat, log' = log \o Stamp(es, t)
    PROVE  \A k \in 1..Len(es) : /\ Len(log) + k \in 1..Len(log')
                                 /\ log'[Len(log) + k].type = es[k].type
                                 /\ log'[Len(log) + k].sv = es[k].sv
<1>1. log \in Seq(LogEvent) /\ Stamp(es, t) \in Seq(LogEvent) /\ Len(Stamp(es, t)) = Len(es)
  BY StampType DEF LedgerInv, TypeOK
<1>2. Len(log) \in Nat /\ Len(es) \in Nat /\ Len(log') = Len(log) + Len(es)
  BY <1>1, LenProperties, ConcatLen
<1> TAKE k \in 1..Len(es)
<1>3. Len(log) + k \in 1..Len(log') /\ Len(log) + k > Len(log)
  BY <1>2
<1>4. log'[Len(log) + k] = Stamp(es, t)[k]
  BY <1>1, <1>2, <1>3, ConcatProperties
<1>5. Stamp(es, t)[k] = [type |-> es[k].type, sv |-> es[k].sv, token |-> t]
  BY DEF Stamp
<1> QED
  BY <1>3, <1>4, <1>5

\* What the observer's feed is, and what a commit adds to it
LEMMA FeedAt ==
    ASSUME LedgerInv, NEW es \in Seq(Event), NEW t \in Nat, log' = log \o Stamp(es, t)
    PROVE  /\ Len(Announced) = Len(log) /\ Len(Announced') = Len(log')
           /\ Len(log) \in Nat /\ Len(es) \in Nat /\ Len(log') = Len(log) + Len(es)
           /\ SubSeq(Announced', 1, Len(Announced)) = Announced
           /\ Len(Feed!NewCallbacks) = Len(es) /\ (Feed!NewCallbacks = <<>> <=> es = <<>>)
           /\ \A k \in 1..Len(es) : /\ Feed!NewCallbacks[k].type = es[k].type
                                    /\ Feed!NewCallbacks[k].sv = es[k].sv
<1>1. log \in Seq(LogEvent) /\ log' \in Seq(LogEvent)
  BY StampType, ConcatLen DEF LedgerInv, TypeOK
<1>2. /\ Len(log) \in Nat /\ Len(log') \in Nat /\ Len(es) \in Nat /\ Len(log') = Len(log) + Len(es)
      /\ \A i \in 1..Len(log) : log'[i] = log[i]
  BY <1>1, LogAt, LenProperties
<1>3. \A s \in Seq(LogEvent) :
        LET a == [i \in 1..Len(s) |-> [type |-> s[i].type, sv |-> s[i].sv]]
        IN  a \in Seq(Event) /\ Len(a) = Len(s)
  <2> TAKE s \in Seq(LogEvent)
  <2> DEFINE a == [i \in 1..Len(s) |-> [type |-> s[i].type, sv |-> s[i].sv]]
  <2>1. Len(s) \in Nat /\ \A i \in 1..Len(s) : s[i] \in LogEvent
    BY ElementOfSeq, LenProperties
  <2>2. \A i \in 1..Len(s) : [type |-> s[i].type, sv |-> s[i].sv] \in Event
    BY <2>1 DEF LogEvent, Event
  <2>3. a \in Seq(Event)
    BY <2>1, <2>2, IsASeq
  <2> QED
    BY <2>1, <2>3, LenProperties
<1>4. /\ Announced \in Seq(Event) /\ Len(Announced) = Len(log)
      /\ Announced' \in Seq(Event) /\ Len(Announced') = Len(log')
  BY <1>1, <1>3 DEF Announced
<1>5. SubSeq(Announced', 1, Len(Announced)) = Announced
  <2>1. /\ SubSeq(Announced', 1, Len(log)) \in Seq(Event)
        /\ Len(SubSeq(Announced', 1, Len(log))) = Len(log)
        /\ \A i \in 1..Len(log) : SubSeq(Announced', 1, Len(log))[i] = Announced'[i]
    BY <1>2, <1>4, SubSeqProperties
  <2>2. \A i \in 1..Len(log) : Announced'[i] = Announced[i]
    BY <1>2 DEF Announced
  <2> QED
    BY <1>4, <2>1, <2>2, SeqEqual
<1>6. /\ Feed!NewCallbacks \in Seq(Event) /\ Len(Feed!NewCallbacks) = Len(es)
      /\ \A k \in 1..Len(es) : Feed!NewCallbacks[k] = Announced'[Len(log) + k]
  <2>1. /\ SubSeq(Announced', Len(log) + 1, Len(log')) \in Seq(Event)
        /\ Len(SubSeq(Announced', Len(log) + 1, Len(log'))) = Len(es)
        /\ \A k \in 1..Len(es) : SubSeq(Announced', Len(log) + 1, Len(log'))[k] = Announced'[Len(log) + k]
    BY <1>2, <1>4, SubSeqProperties
  <2> QED
    BY <1>4, <2>1 DEF Feed!NewCallbacks
<1>7. \A k \in 1..Len(es) : /\ Feed!NewCallbacks[k].type = es[k].type
                            /\ Feed!NewCallbacks[k].sv = es[k].sv
  <2> TAKE k \in 1..Len(es)
  <2>1. /\ Len(log) + k \in 1..Len(log')
        /\ log'[Len(log) + k].type = es[k].type /\ log'[Len(log) + k].sv = es[k].sv
    BY LogTail
  <2>2. Announced'[Len(log) + k] = [type |-> log'[Len(log) + k].type, sv |-> log'[Len(log) + k].sv]
    BY <2>1 DEF Announced
  <2>3. Feed!NewCallbacks[k] = Announced'[Len(log) + k]
    BY <1>6
  <2> QED
    BY <2>1, <2>2, <2>3
<1>8. Feed!NewCallbacks = <<>> <=> es = <<>>
  BY <1>6, EmptySeq
<1> QED
  BY <1>2, <1>4, <1>5, <1>6, <1>7, <1>8

\* A commit that adds what it should is a step of RunFeed.
LEMMA FeedStep ==
    ASSUME LedgerInv, LedgerInv', NEW es \in Seq(Event), NEW t \in Nat,
           log' = log \o Stamp(es, t),
           run.sv <= run'.sv,
           \A k \in 1..Len(es) : run.sv <= es[k].sv /\ es[k].sv <= run'.sv,
           es = <<>> => run'.status \in {run.status, "pending"},
           es # <<>> => /\ Feed!StatusOf(es[Len(es)].type) = run'.status
                        /\ \A k \in 1..Len(es) : es[k].type \in Terminal => k = Len(es),
           run.status \in Terminal =>
             \/ run'.status = run.status /\ \A k \in 1..Len(es) : es[k].type = run.status
             \/ run.status \in {"failed", "partial"} /\ run'.status = "pending" /\ es = <<>>,
           run.privacy = "purge_requested" => run'.privacy # "active",
           run.privacy = "purged" => run'.privacy = "purged"
    PROVE  Feed!Next
<1>1. /\ Len(Announced) = Len(log) /\ Len(Announced') = Len(log')
      /\ Len(log) \in Nat /\ Len(es) \in Nat /\ Len(log') = Len(log) + Len(es)
      /\ SubSeq(Announced', 1, Len(Announced)) = Announced
      /\ Len(Feed!NewCallbacks) = Len(es) /\ (Feed!NewCallbacks = <<>> <=> es = <<>>)
      /\ \A k \in 1..Len(es) : /\ Feed!NewCallbacks[k].type = es[k].type
                               /\ Feed!NewCallbacks[k].sv = es[k].sv
  BY FeedAt
<1>2. /\ Summary.status = run.status /\ Summary.sv = run.sv /\ Summary.privacy = run.privacy
      /\ Summary'.status = run'.status /\ Summary'.sv = run'.sv /\ Summary'.privacy = run'.privacy
      /\ Summary'.seq = Len(log') /\ run.sv \in Nat /\ run'.sv \in Nat
  BY DEF Summary, LedgerInv, TypeOK, EventSeqIsGapless, Row
<1>3. \A k \in 1..Len(es) : es[k].sv \in Nat
  <2>1. \A k \in 1..Len(es) : es[k] \in Event
    BY ElementOfSeq
  <2> QED
    BY <2>1 DEF Event
<1>4. Feed!FeedGrows
  <2>1. Len(Announced') >= Len(Announced) /\ Summary'.seq = Len(Announced') /\ Summary'.sv >= Summary.sv
    BY <1>1, <1>2
  <2>2. \A k \in 1..Len(Feed!NewCallbacks) : Feed!NewCallbacks[k].sv \in Summary.sv .. Summary'.sv
    <3> TAKE k \in 1..Len(Feed!NewCallbacks)
    <3>1. k \in 1..Len(es)
      BY <1>1
    <3>2. Feed!NewCallbacks[k].sv = es[k].sv /\ es[k].sv \in Nat
      BY <1>1, <1>3, <3>1
    <3>3. run.sv <= es[k].sv /\ es[k].sv <= run'.sv
      BY <3>1
    <3> QED
      BY <1>2, <3>2, <3>3
  <2> QED
    BY <1>1, <2>1, <2>2 DEF Feed!FeedGrows
<1>5. Feed!ChangeIsAnnounced
  <2>1. CASE es = <<>>
    BY <1>1, <1>2, <2>1 DEF Feed!ChangeIsAnnounced
  <2>2. CASE es # <<>>
    <3>1. Len(es) \in 1..Len(es)
      BY <1>1, <2>2, EmptySeq
    <3>2. Feed!StatusOf(Feed!NewCallbacks[Len(Feed!NewCallbacks)].type) = Summary'.status
      BY <1>1, <1>2, <2>2, <3>1
    <3>3. \A k \in 1..(Len(Feed!NewCallbacks) - 1) : Feed!NewCallbacks[k].type \notin Feed!Outcomes
      BY <1>1, <2>2 DEF Feed!Outcomes, Terminal
    <3> QED
      BY <1>1, <2>2, <3>2, <3>3 DEF Feed!ChangeIsAnnounced
  <2> QED
    BY <2>1, <2>2
<1>6. Feed!OutcomeStands
  BY <1>1, <1>2 DEF Feed!OutcomeStands, Feed!Outcomes, Terminal
<1>7. Feed!PrivacyStands
  BY <1>2 DEF Feed!PrivacyStands
<1> QED
  BY <1>4, <1>5, <1>6, <1>7 DEF Feed!Next
-----------------------------------------------------------------------------
(* The inductive invariant. *)

\* Under which conditions the ledger keeps the promise of RunFeed: requests that
\* start, reopen or withdraw a run come one at a time, and no deadline ends a run that
\* is being started.
OneAtATime ==
    /\ \A c, d \in Clients : c # d => ApiOps \cap {"start", "purge", "retry"} = {}
    /\ "deadline" \notin Faults \/ "start" \notin ApiOps

\* The rows whose status_version can be incremented without a callback.
Advancing(r) ==
    \/ r.status \in {"running", "failed", "partial"}
    \/ r.status = "waiting_human" /\ r.dispatch = "finished"

\* A run with an outcome is out of the queue, a cancelled one that a worker still has
\* carries the request.
EndFits(r) ==
    /\ r.status \in {"succeeded", "partial", "failed"} => r.dispatch = "finished"
    /\ r.status = "cancelled" /\ r.dispatch = "claimed" => r.cancel

RowFits ==
    /\ EndFits(run)
    /\ run.dispatch = "held" => run.token = 0
    /\ env.due => "deadline" \in Faults

\* A row v that some session has loaded: without a callback since then the status is the
\* same or became pending, and the version is the same or one higher.
Recent(v) ==
    /\ EndFits(v)
    /\ v.dispatch # "held" => run.dispatch # "held"
    /\ v.seq = Len(log) =>
         /\ \/ run.status = v.status
            \/ run.status = "pending" /\ v.status \in {"running", "failed", "partial"}
         /\ \/ run.sv = v.sv
            \/ run.sv = v.sv + 1 /\ Advancing(v) /\ ~Advancing(run)

\* What a worker's callbacks have in common with its object.
Voice(s) ==
    /\ s.events = <<>> => s.mine.sv = s.view.sv /\ s.mine.owner = s.view.owner
    /\ s.events # <<>> =>
         /\ Feed!StatusOf(s.events[Len(s.events)].type) = s.mine.status
         /\ s.mine.sv >= s.view.sv /\ (s.save = {} => s.mine.sv > s.view.sv)
         /\ s.mine.status = "running" /\ s.view.status = "running" => s.save # {}
         /\ \A i \in 1..Len(s.events) :
              /\ s.view.sv <= s.events[i].sv /\ s.events[i].sv <= s.mine.sv
              /\ s.save = {} => s.view.sv < s.events[i].sv
              /\ s.events[i].type # "cancelled" => ~s.view.cancel
         /\ \/ s.pc = "commit" /\ s.mine.dispatch = "finished"
            \/ /\ s.mine.dispatch = s.view.dispatch /\ s.mine.owner = s.view.owner
               /\ s.mine.status = "running"
               /\ \/ s.pc = "beat" \/ (s.pc = "settle" /\ s.outcome = "failed")
                  \/ s.save # {} /\ s.view.status = "running"

Holds(w) == run.dispatch = "claimed" /\ run.owner = w /\ run.token = wk[w].token

\* A worker that has announced its attempt and still has the run finds it running.
AtWork(w) ==
    (/\ \/ wk[w].pc \in {"work", "exec", "save"}
        \/ wk[w].pc \in {"beat", "node"} /\ wk[w].events = <<>>
     /\ Holds(w) /\ ~run.cancel)
    => run.status = "running"

\* What each request changes.
Asks(s) ==
    /\ s.mine.owner = s.view.owner
    /\ s.mine.dispatch \in {s.view.dispatch, "queued", "finished"}
    /\ s.mine.privacy # s.view.privacy => s.op \in {"purge", "complete_purge"}
    /\ s.events # <<>> => s.mine.sv = s.view.sv + 1 /\ s.events[1].sv = s.mine.sv
    /\ s.events = <<>> /\ s.op # "retry" => s.mine.status = s.view.status /\ s.mine.sv = s.view.sv
    /\ s.events = <<>> /\ s.op \notin {"start", "retry"} => s.mine.dispatch = s.view.dispatch
    /\ s.op # "cancel" => s.events = <<>>
    /\ s.op = "complete_purge" => s.mine.privacy = "purged"
    /\ s.op = "purge" => s.mine.privacy = "purge_requested"
    /\ s.op = "start" => s.mine.dispatch = "queued" /\ s.view.dispatch = "held"
    /\ s.op = "retry" => /\ s.mine.status = "pending" /\ s.mine.sv = s.view.sv + 1
                         /\ s.mine.dispatch = "queued" /\ s.view.dispatch = "finished"
                         /\ s.view.status \in {"failed", "partial"}
    /\ s.op \in {"start", "purge", "retry"} => s.op \in ApiOps

\* What a request that starts, withdraws or reopens the run still finds.
Alone(s) ==
    /\ s.op = "start" => \/ run.dispatch = "held" /\ run.status = "pending"
                         \/ run.dispatch = "finished" /\ run.status = "cancelled"
    /\ s.op = "purge" => run.privacy = "active"
    /\ s.op = "retry" => /\ run.status = s.view.status /\ run.sv = s.view.sv
                         /\ run.dispatch = "finished"

Current ==
    /\ RowFits
    /\ Recent(NewRow("held"))
    /\ \A w \in Workers : Recent(wk[w].view) /\ Voice(wk[w]) /\ AtWork(w)
    /\ \A c \in Sessions : Recent(tx[c].view) /\ Asks(tx[c]) /\ Alone(tx[c])
    /\ tx[Scanner].op \in {"none", "complete_purge"}

FeedInv == Ledger /\ Current

-----------------------------------------------------------------------------
(* The kinds of steps. *)

\* How the row may change under what the sessions have loaded.
Mild ==
    /\ Len(log') \in Nat /\ Len(log) <= Len(log')
    /\ run.dispatch # "held" => run'.dispatch # "held"
    /\ Len(log') = Len(log) =>
         /\ \/ run'.status = run.status
            \/ run'.status = "pending" /\ run.status \in {"running", "failed", "partial"}
         /\ \/ run'.sv = run.sv /\ (~Advancing(run) => ~Advancing(run'))
            \/ run'.sv = run.sv + 1 /\ Advancing(run) /\ ~Advancing(run')

\* Workers that keep the run find it as it was, or cancelled.
Calm ==
    /\ run.cancel => run'.cancel
    /\ \A w \in Workers : wk'[w] = wk[w] /\ Holds(w)' /\ ~run'.cancel =>
                            Holds(w) /\ run'.status = run.status

\* Requests that are open stay alone.
Spares == \A c \in Sessions : tx'[c] = tx[c] => Alone(tx[c])'

\* What the observers see of a step.
Shows == Feed!Next \/ UNCHANGED <<Summary, Announced>>

\* Such a change leaves what a session knows of its row.
LEMMA RecentKept ==
    ASSUME LedgerInv, Mild, NEW v \in Row, Seen(v), Recent(v)
    PROVE  Recent(v)'
<1>1. Len(log) \in Nat /\ v.seq \in Nat /\ v.seq <= Len(log) /\ v.sv \in Nat /\ run.sv \in Nat
  BY LogTypes DEF Row, Seen
<1>2. EndFits(v)' /\ (v.dispatch # "held" => run'.dispatch # "held")
  BY DEF Recent, EndFits, Mild
<1>3. ASSUME v.seq = Len(log')
      PROVE  /\ \/ run'.status = v.status
                \/ run'.status = "pending" /\ v.status \in {"running", "failed", "partial"}
             /\ \/ run'.sv = v.sv
                \/ run'.sv = v.sv + 1 /\ Advancing(v) /\ ~Advancing(run')
  <2>1. v.seq = Len(log) /\ Len(log') = Len(log)
    BY <1>1, <1>3 DEF Mild
  <2>2. /\ \/ run.status = v.status
           \/ run.status = "pending" /\ v.status \in {"running", "failed", "partial"}
        /\ \/ run.sv = v.sv
           \/ run.sv = v.sv + 1 /\ Advancing(v) /\ ~Advancing(run)
        /\ run.dispatch = "finished" => v.dispatch = "finished"
    BY <2>1 DEF Recent, Seen
  <2>3. /\ \/ run'.status = run.status
           \/ run'.status = "pending" /\ run.status \in {"running", "failed", "partial"}
        /\ \/ run'.sv = run.sv /\ (~Advancing(run) => ~Advancing(run'))
           \/ run'.sv = run.sv + 1 /\ Advancing(run) /\ ~Advancing(run')
    BY <2>1 DEF Mild
  <2>4. Advancing(run) => Advancing(v)
    BY <2>2 DEF Advancing
  <2> QED
    BY <1>1, <2>2, <2>3, <2>4
<1> QED
  BY <1>2, <1>3 DEF Recent, Advancing

\* What one session changes, seen from all others
LEMMA Preserve ==
    ASSUME FeedInv, Ledger', Mild, Calm, Spares, RowFits',
           \A w \in Workers : \/ wk'[w] = wk[w]
                              \/ Recent(wk[w].view)' /\ Voice(wk[w])' /\ AtWork(w)',
           \A c \in Sessions : \/ tx'[c] = tx[c]
                               \/ /\ Recent(tx[c].view)' /\ Asks(tx[c])' /\ Alone(tx[c])'
                                  /\ c = Scanner => tx'[c].op \in {"none", "complete_purge"}
    PROVE  FeedInv'
<1>1. LedgerInv /\ History /\ Current
  BY DEF FeedInv, Ledger
<1>2. Recent(NewRow("held"))'
  <2>1. PICK v \in Row : v = NewRow("held")
    BY NewRowType
  <2>2. Seen(v) /\ Recent(v)
    BY <1>1, <2>1, NewSeen DEF History, Current
  <2>3. Recent(v)'
    BY <1>1, <2>2, RecentKept
  <2> QED
    BY <2>1, <2>3
<1>3. ASSUME NEW w \in Workers
      PROVE  Recent(wk[w].view)' /\ Voice(wk[w])' /\ AtWork(w)'
  <2> SUFFICES ASSUME wk'[w] = wk[w]
               PROVE  Recent(wk[w].view)' /\ Voice(wk[w])' /\ AtWork(w)'
    OBVIOUS
  <2>1. PICK v \in Row : v = wk[w].view
    BY <1>1, WorkerFacts
  <2>2. Seen(v) /\ Recent(v)
    BY <1>1, <2>1 DEF History, WorkerFits, Current
  <2>3. Recent(v)'
    BY <1>1, <2>2, RecentKept
  <2>4. Recent(wk[w].view)'
    BY <2>1, <2>3 DEF Recent
  <2>5. Voice(wk[w])'
    BY <1>1 DEF Current, Voice
  <2>6. AtWork(w)'
    BY <1>1 DEF Current, AtWork, Calm
  <2> QED
    BY <2>4, <2>5, <2>6
<1>4. ASSUME NEW c \in Sessions
      PROVE  /\ Recent(tx[c].view)' /\ Asks(tx[c])' /\ Alone(tx[c])'
             /\ c = Scanner => tx'[c].op \in {"none", "complete_purge"}
  <2> SUFFICES ASSUME tx'[c] = tx[c]
               PROVE  /\ Recent(tx[c].view)' /\ Asks(tx[c])' /\ Alone(tx[c])'
                      /\ c = Scanner => tx'[c].op \in {"none", "complete_purge"}
    OBVIOUS
  <2>1. PICK v \in Row : v = tx[c].view
    BY <1>1 DEF LedgerInv, TypeOK, TxState
  <2>2. Seen(v) /\ Recent(v)
    BY <1>1, <2>1 DEF History, TxFits, Current
  <2>3. Recent(v)'
    BY <1>1, <2>2, RecentKept
  <2>4. Recent(tx[c].view)'
    BY <2>1, <2>3 DEF Recent
  <2>5. Asks(tx[c])'
    BY <1>1 DEF Current, Asks
  <2> QED
    BY <1>1, <2>4, <2>5 DEF Spares, Current
<1>5. Scanner \in Sessions
  BY DEF Sessions
<1> QED
  BY <1>2, <1>3, <1>4, <1>5 DEF FeedInv, Current

\* A row just loaded, and one not loaded yet
LEMMA RunRecent == ASSUME Current PROVE Recent(run)
BY DEF Current, RowFits, Recent

\* An idle worker and an idle session
LEMMA IdleCurrent ==
    /\ IdleWorker.view = NewRow("held") /\ Voice(IdleWorker) /\ IdleWorker.pc = "idle"
    /\ IdleTx.view = NewRow("held") /\ Asks(IdleTx) /\ Alone(IdleTx) /\ IdleTx.op = "none"
    /\ Alone(IdleTx)'
<1>1. /\ IdleWorker.view = NewRow("held") /\ IdleWorker.mine = NewRow("held")
      /\ IdleWorker.events = <<>> /\ IdleWorker.pc = "idle"
      /\ IdleTx.view = NewRow("held") /\ IdleTx.mine = NewRow("held")
      /\ IdleTx.events = <<>> /\ IdleTx.op = "none"
  BY DEF IdleWorker, IdleTx
<1>2. Voice(IdleWorker)
  BY <1>1 DEF Voice
<1>3. Asks(IdleTx) /\ Alone(IdleTx) /\ Alone(IdleTx)'
  BY <1>1 DEF Asks, Alone
<1> QED
  BY <1>1, <1>2, <1>3

\* A step that leaves the row and the log alone
LEMMA Still ==
    ASSUME FeedInv, UNCHANGED <<run, log>>, env' = env \/ (env'.due => "deadline" \in Faults)
    PROVE  Mild /\ Calm /\ Spares /\ RowFits' /\ Shows
<1>1. LedgerInv /\ Current /\ Len(log) \in Nat
  BY LogTypes DEF FeedInv, Ledger
<1>2. Mild
  BY <1>1 DEF Mild, Advancing
<1>3. Calm
  BY DEF Calm, Holds
<1>4. Spares
  BY <1>1 DEF Spares, Current, Alone
<1>5. RowFits'
  BY <1>1 DEF Current, RowFits, EndFits
<1>6. Shows
  BY DEF Shows, Summary, Announced
<1> QED
  BY <1>2, <1>3, <1>4, <1>5, <1>6

\* A step of a worker before its commit
LEMMA LocalFeed ==
    ASSUME FeedInv, Ledger', NEW w \in Workers, NEW s, wk' = [wk EXCEPT ![w] = s],
           UNCHANGED <<run, log, tx, env>>,
           Recent(s.view), Voice(s),
           (s.pc \in {"work", "exec", "save"} \/ (s.pc \in {"beat", "node"} /\ s.events = <<>>))
             => s.token = wk[w].token /\ (Holds(w) /\ ~run.cancel => run.status = "running")
    PROVE  FeedInv' /\ Shows
<1>1. wk \in [Workers -> WorkerState]
  BY DEF FeedInv, Ledger, LedgerInv, TypeOK
<1>2. wk'[w] = s /\ \A v \in Workers \ {w} : wk'[v] = wk[v]
  BY <1>1
<1>3. Mild /\ Calm /\ Spares /\ RowFits' /\ Shows
  BY Still
<1>4. Recent(wk[w].view)'
  BY <1>2 DEF Recent
<1>5. Voice(wk[w])'
  BY <1>2 DEF Voice
<1>6. AtWork(w)'
  BY <1>2 DEF AtWork, Holds
<1> QED
  BY <1>2, <1>3, <1>4, <1>5, <1>6, Preserve

\* Rollback
LEMMA AbandonFeed ==
    ASSUME FeedInv, Ledger', NEW w \in Workers, Abandon(w), UNCHANGED <<env, tx>>
    PROVE  FeedInv' /\ Shows
<1>1. wk' = [wk EXCEPT ![w] = IdleWorker] /\ UNCHANGED <<run, log>>
  BY DEF Abandon
<1>2. Recent(IdleWorker.view) /\ Voice(IdleWorker) /\ IdleWorker.pc = "idle"
  BY IdleCurrent DEF FeedInv, Current
<1> QED
  BY <1>1, <1>2, LocalFeed

\* A request loads the row.
LEMMA BeginFeed ==
    ASSUME FeedInv, Ledger', NEW c \in Sessions, NEW op, NEW row, NEW es, Begin(c, op, row, es),
           c = Scanner => op \in {"none", "complete_purge"},
           \A drop : LET s == [op |-> op, view |-> run, mine |-> row, events |-> es, drop |-> drop]
                     IN  Asks(s) /\ Alone(s)
    PROVE  FeedInv' /\ Shows
<1> DEFINE s == [op |-> op, view |-> run, mine |-> row, events |-> es,
                 drop |-> IF op = "complete_purge" THEN ckpt ELSE {}]
<1>1. /\ tx \in [Sessions -> TxState] /\ tx' = [tx EXCEPT ![c] = s]
      /\ UNCHANGED <<run, log, wk, env>>
  BY DEF FeedInv, Ledger, LedgerInv, TypeOK, Begin
<1>2. s.view = run /\ s.op = op /\ Asks(s) /\ Alone(s)
  OBVIOUS
<1> HIDE DEF s
<1>3. tx'[c] = s /\ \A d \in Sessions \ {c} : tx'[d] = tx[d]
  BY <1>1
<1>4. Mild /\ Calm /\ Spares /\ RowFits' /\ Shows
  BY <1>1, Still
<1>5. Recent(run)
  BY RunRecent DEF FeedInv
<1>6. Recent(tx[c].view)'
  BY <1>1, <1>2, <1>3, <1>5 DEF Recent
<1>7. Asks(tx[c])'
  BY <1>2, <1>3 DEF Asks
<1>8. Alone(tx[c])'
  BY <1>1, <1>2, <1>3 DEF Alone
<1> QED
  BY <1>1, <1>2, <1>3, <1>4, <1>6, <1>7, <1>8, Preserve

\* Requests begin.
LEMMA ApiFeed ==
    ASSUME FeedInv, Ledger', NEW c \in Clients,
           StartBegin(c) \/ CancelBegin(c) \/ PurgeBegin(c) \/ RetryBegin(c)
    PROVE  FeedInv' /\ Shows
<1>1. c \in Sessions /\ c # Scanner
  BY ConstantsAssumption DEF Sessions
<1>2. run \in Row /\ RowFits
  BY RunKin DEF FeedInv, Ledger, Current
<1>3. CASE StartBegin(c)
  <2> DEFINE row == [run EXCEPT !.dispatch = "queued"]
  <2>1. /\ Begin(c, "start", row, <<>>) /\ "start" \in ApiOps
        /\ run.dispatch = "held" /\ run.status = "pending"
    BY <1>3 DEF StartBegin
  <2>2. ASSUME NEW drop
        PROVE  LET s == [op |-> "start", view |-> run, mine |-> row, events |-> <<>>, drop |-> drop]
               IN  Asks(s) /\ Alone(s)
    BY <1>2, <2>1 DEF Asks, Alone, Row
  <2> HIDE DEF row
  <2> QED
    BY <1>1, <2>1, <2>2, BeginFeed
<1>4. CASE CancelBegin(c)
  <2>1. CASE Cancellable(run)
    <3> DEFINE ended == [run EXCEPT !.cancel = TRUE, !.status = "cancelled",
                                    !.dispatch = "finished", !.sv = @ + 1]
               a == Append1(ended, <<>>, "cancelled")
    <3>1. Begin(c, "cancel", a.mine, a.events)
      BY <1>4, <2>1 DEF CancelBegin
    <3>2. /\ ended \in Row /\ ended.sv = run.sv + 1 /\ ended.dispatch = "finished"
          /\ ended.owner = run.owner /\ ended.privacy = run.privacy
      <4>1. PICK n \in Nat : n = run.sv + 1
        BY <1>2 DEF Row
      <4>2. ended = [run EXCEPT !.cancel = TRUE, !.status = "cancelled", !.dispatch = "finished",
                                !.sv = n]
        BY <4>1
      <4> HIDE DEF ended
      <4> QED
        BY <1>2, <4>1, <4>2 DEF Row, Statuses, Terminal
    <3>3. /\ a.mine.sv = ended.sv /\ a.mine.dispatch = ended.dispatch /\ a.mine.owner = ended.owner
          /\ a.mine.privacy = ended.privacy /\ a.events # <<>> /\ a.events[1].sv = ended.sv
      <4> HIDE DEF ended
      <4> QED
        BY <3>2 DEF Append1, Row
    <3> HIDE DEF a, ended
    <3>4. ASSUME NEW drop
          PROVE  LET s == [op |-> "cancel", view |-> run, mine |-> a.mine, events |-> a.events,
                           drop |-> drop]
                 IN  Asks(s) /\ Alone(s)
      BY <3>2, <3>3 DEF Asks, Alone
    <3> QED
      BY <1>1, <3>1, <3>4, BeginFeed
  <2>2. CASE ~Cancellable(run)
    <3> DEFINE row == [run EXCEPT !.cancel = TRUE]
    <3>1. Begin(c, "cancel", row, <<>>)
      BY <1>4, <2>2 DEF CancelBegin
    <3>2. ASSUME NEW drop
          PROVE  LET s == [op |-> "cancel", view |-> run, mine |-> row, events |-> <<>>, drop |-> drop]
                 IN  Asks(s) /\ Alone(s)
      BY <1>2 DEF Asks, Alone, Row
    <3> HIDE DEF row
    <3> QED
      BY <1>1, <3>1, <3>2, BeginFeed
  <2> QED
    BY <2>1, <2>2
<1>5. CASE PurgeBegin(c)
  <2> DEFINE row == [run EXCEPT !.privacy = "purge_requested", !.cancel = TRUE]
  <2>1. Begin(c, "purge", row, <<>>) /\ "purge" \in ApiOps /\ run.privacy = "active"
    BY <1>5 DEF PurgeBegin
  <2>2. ASSUME NEW drop
        PROVE  LET s == [op |-> "purge", view |-> run, mine |-> row, events |-> <<>>, drop |-> drop]
               IN  Asks(s) /\ Alone(s)
    BY <1>2, <2>1 DEF Asks, Alone, Row
  <2> HIDE DEF row
  <2> QED
    BY <1>1, <2>1, <2>2, BeginFeed
<1>6. CASE RetryBegin(c)
  <2> DEFINE row == [run EXCEPT !.retries = @ + 1, !.status = "pending",
                                !.dispatch = "queued", !.sv = @ + 1]
  <2>1. /\ Begin(c, "retry", row, <<>>) /\ "retry" \in ApiOps
        /\ run.status \in {"failed", "partial"}
    BY <1>6 DEF RetryBegin
  <2>2. run.dispatch = "finished"
    BY <1>2, <2>1 DEF RowFits, EndFits
  <2>3. ASSUME NEW drop
        PROVE  LET s == [op |-> "retry", view |-> run, mine |-> row, events |-> <<>>, drop |-> drop]
               IN  Asks(s) /\ Alone(s)
    BY <1>2, <2>1, <2>2 DEF Asks, Alone, Row
  <2> HIDE DEF row
  <2> QED
    BY <1>1, <2>1, <2>3, BeginFeed
<1> QED
  BY <1>3, <1>4, <1>5, <1>6

\* The scan loads a purge it will complete.
LEMMA CompletePurgeFeed ==
    ASSUME FeedInv, Ledger', CompletePurgeBegin
    PROVE  FeedInv' /\ Shows
<1> DEFINE row == [run EXCEPT !.privacy = "purged"]
<1>1. run \in Row /\ Scanner \in Sessions
  BY RunKin DEF FeedInv, Ledger, Sessions
<1>2. Begin(Scanner, "complete_purge", row, <<>>)
  BY DEF CompletePurgeBegin
<1>3. ASSUME NEW drop
      PROVE  LET s == [op |-> "complete_purge", view |-> run, mine |-> row, events |-> <<>>,
                       drop |-> drop]
             IN  Asks(s) /\ Alone(s)
  BY <1>1 DEF Asks, Alone, Row
<1> HIDE DEF row
<1> QED
  BY <1>1, <1>2, <1>3, BeginFeed

\* A session that holds nothing yet
LEMMA NewRecent == ASSUME FeedInv, Mild PROVE Recent(NewRow("held"))'
<1>1. LedgerInv /\ LogFits /\ Recent(NewRow("held"))
  BY DEF FeedInv, Ledger, History, Current
<1>2. PICK v \in Row : v = NewRow("held")
  BY NewRowType
<1>3. Seen(v) /\ Recent(v)
  BY <1>1, <1>2, NewSeen
<1>4. Recent(v)'
  BY <1>1, <1>3, RecentKept
<1> QED
  BY <1>2, <1>4

\* A commit that adds no callback
LEMMA NoNews ==
    ASSUME LedgerInv, NEW es \in Seq(Event), Len(es) = 0, NEW t \in Nat, log' = log \o Stamp(es, t)
    PROVE  Len(log') = Len(log)
<1>1. Len(log) \in Nat /\ Len(log') = Len(log) + Len(es)
  BY LogAt
<1> QED
  BY <1>1

\* A change of the row without a callback
LEMMA QuietFeed ==
    ASSUME FeedInv, Ledger', NEW es \in Seq(Event), es = <<>>, NEW t \in Nat,
           log' = log \o Stamp(es, t), env' = env,
           run'.token = run.token, run.cancel => run'.cancel,
           \/ /\ run'.status = run.status /\ run'.sv = run.sv
              /\ run'.dispatch = run.dispatch /\ run'.owner = run.owner
           \/ /\ run'.status = run.status /\ run'.sv = run.sv /\ run'.dispatch = "queued"
              /\ run.status \notin {"succeeded", "partial", "failed"}
           \/ /\ run'.sv = run.sv + 1 /\ run'.dispatch = "queued"
              /\ \/ run.status \in {"running", "failed", "partial"} /\ run'.status = "pending"
                 \/ /\ run.status = "waiting_human" /\ run'.status = "waiting_human"
                    /\ run.dispatch = "finished",
           run.privacy = "purge_requested" => run'.privacy # "active",
           run.privacy = "purged" => run'.privacy = "purged"
    PROVE  Mild /\ Calm /\ RowFits' /\ Shows
<1>1. /\ LedgerInv /\ LedgerInv' /\ RowFits /\ run \in Row /\ run.sv \in Nat
      /\ Len(log) \in Nat /\ Len(es) = 0
  BY LogTypes DEF FeedInv, Ledger, Current, Row
<1>2. Len(log') = Len(log)
  BY <1>1, NoNews, Zenon
<1>3. run'.dispatch = "held" => run.dispatch = "held"
  OBVIOUS
<1>4. Mild
  BY <1>1, <1>2 DEF Mild, Advancing
<1>5. Calm
  BY DEF Calm, Holds
<1>6. RowFits'
  BY <1>1 DEF RowFits, EndFits
<1>7. Shows
  <2>1. \A k \in 1..Len(es) : FALSE
    BY <1>1
  <2>2. run.sv <= run'.sv
    BY <1>1
  <2>3. run.status \in Terminal =>
          \/ run'.status = run.status /\ \A k \in 1..Len(es) : es[k].type = run.status
          \/ run.status \in {"failed", "partial"} /\ run'.status = "pending" /\ es = <<>>
    BY <2>1 DEF Terminal
  <2>4. run'.status \in {run.status, "pending"}
    OBVIOUS
  <2>5. Feed!Next
    BY <1>1, <2>1, <2>2, <2>3, <2>4, FeedStep
  <2> QED
    BY <2>5 DEF Shows
<1> QED
  BY <1>4, <1>5, <1>6, <1>7

\* What a commit writes over the numbers
LEMMA FlushNumbers ==
    ASSUME NEW s
    PROVE  /\ Flush(s).sv = Net(s.mine.sv, s.view.sv, run.sv)
           /\ Flush(s).owner = Net(s.mine.owner, s.view.owner, run.owner)
BY DEF Flush

\* A request commits what it has asked for.
LEMMA RequestFeed ==
    ASSUME OneAtATime, FeedInv, Ledger', NEW c \in Sessions, TxCommit(c), ~Clash(tx[c])
    PROVE  Mild /\ Calm /\ Spares /\ RowFits' /\ Shows
<1> DEFINE s == tx[c]
           es == tx[c].events
<1>1. /\ LedgerInv /\ LedgerInv' /\ RowFits /\ run \in Row
      /\ s.view \in Row /\ s.mine \in Row /\ es \in Seq(Event)
      /\ Seen(s.view) /\ RequestFits(s) /\ Recent(s.view) /\ Asks(s) /\ Alone(s)
  BY DEF FeedInv, Ledger, History, TxFits, Current, LedgerInv, TypeOK, TxState
<1>2. /\ run' = Flush(s) /\ log' = log \o Stamp(es, run.token) /\ env' = env /\ wk' = wk
      /\ tx' = [tx EXCEPT ![c] = IdleTx] /\ s.op # "none"
  BY DEF TxCommit
<1>3. /\ run'.status = Net(s.mine.status, s.view.status, run.status)
      /\ run'.dispatch = Net(s.mine.dispatch, s.view.dispatch, run.dispatch)
      /\ run'.cancel = Net(s.mine.cancel, s.view.cancel, run.cancel)
      /\ run'.privacy = Net(s.mine.privacy, s.view.privacy, run.privacy)
      /\ run'.sv = Net(s.mine.sv, s.view.sv, run.sv)
      /\ run'.owner = run.owner
      /\ run'.token = run.token /\ run.token \in Nat
  BY <1>1, <1>2, FlushFields, FlushNumbers, LogTypes DEF Asks, Net
<1>4. run.cancel => run'.cancel
  <2>1. s.view.cancel \in BOOLEAN /\ s.mine.cancel \in BOOLEAN /\ run.cancel \in BOOLEAN
    BY <1>1 DEF Row
  <2> QED
    BY <1>1, <1>3, <2>1 DEF RequestFits, Seen, Net
<1>5. /\ tx'[c] = IdleTx /\ IdleTx.op = "none" /\ \A d \in Sessions \ {c} : tx'[d] = tx[d]
  BY <1>2, IdleCurrent DEF FeedInv, Ledger, LedgerInv, TypeOK
<1>6. \A d \in Sessions : tx'[d] = tx[d] => d # c
  BY <1>2, <1>5
<1>7. ASSUME NEW d \in Sessions, d # c, c # Scanner
      PROVE  tx[d].op \notin {"start", "purge", "retry"}
  <2>1. CASE d = Scanner
    BY <2>1 DEF FeedInv, Current
  <2>2. CASE d # Scanner
    <3>1. d \in Clients /\ c \in Clients
      BY <1>7, <2>2 DEF Sessions
    <3>2. ApiOps \cap {"start", "purge", "retry"} = {}
      BY <1>7, <3>1 DEF OneAtATime
    <3>3. Asks(tx[d])
      BY DEF FeedInv, Current
    <3> QED
      BY <3>2, <3>3 DEF Asks
  <2> QED
    BY <2>1, <2>2
<1>8. c = Scanner => s.op = "complete_purge"
  BY <1>2 DEF FeedInv, Current
<1>9. run.privacy = "purged" /\ s.op # "complete_purge" => s.op # "purge"
  BY <1>1 DEF Alone
<1>10. /\ run.privacy = "purge_requested" => run'.privacy # "active"
       /\ run.privacy = "purged" => run'.privacy = "purged"
  BY <1>1, <1>3 DEF Asks, Alone, Net
<1>11. CASE s.op = "start"
  <2>1. /\ es = <<>> /\ run'.dispatch = "queued" /\ run'.status = run.status /\ run'.sv = run.sv
        /\ run.status \in {"pending", "cancelled"}
    BY <1>1, <1>3, <1>11 DEF Asks, Alone, Net
  <2>2. Mild /\ Calm /\ RowFits' /\ Shows
    BY <1>1, <1>2, <1>3, <1>4, <1>10, <2>1, QuietFeed
  <2>3. Spares
    BY <1>6, <1>7, <1>8, <1>11 DEF Spares, Alone
  <2> QED
    BY <2>2, <2>3
<1>12. CASE s.op = "retry"
  <2>1. /\ es = <<>> /\ run'.dispatch = "queued" /\ run'.status = "pending" /\ run'.sv = run.sv + 1
        /\ run.status \in {"failed", "partial"}
    <3>1. /\ s.mine.status = "pending" /\ s.mine.sv = s.view.sv + 1 /\ s.mine.dispatch = "queued"
          /\ s.view.dispatch = "finished" /\ s.view.status \in {"failed", "partial"} /\ es = <<>>
          /\ run.status = s.view.status /\ run.sv = s.view.sv
      BY <1>1, <1>12 DEF Asks, Alone
    <3>2. s.view.sv \in Nat
      BY <1>1 DEF Row
    <3> QED
      BY <1>3, <3>1, <3>2 DEF Net
  <2>2. Mild /\ Calm /\ RowFits' /\ Shows
    BY <1>1, <1>2, <1>3, <1>4, <1>10, <2>1, QuietFeed
  <2>3. Spares
    BY <1>6, <1>7, <1>8, <1>12 DEF Spares, Alone
  <2> QED
    BY <2>2, <2>3
<1>13. CASE s.op \notin {"start", "retry"} /\ es = <<>>
  <2>1. /\ run'.dispatch = run.dispatch /\ run'.status = run.status /\ run'.sv = run.sv
    BY <1>1, <1>3, <1>13 DEF Asks, Net
  <2>2. Mild /\ Calm /\ RowFits' /\ Shows
    BY <1>1, <1>2, <1>3, <1>4, <1>10, <1>13, <2>1, QuietFeed
  <2>3. ASSUME NEW d \in Sessions, tx'[d] = tx[d], tx[d].op = "purge"
        PROVE  run'.privacy = "active"
    <3>1. c = Scanner
      BY <1>6, <1>7, <2>3
    <3>2. run.privacy # "active"
      BY <1>8, <3>1 DEF FeedInv, Ledger, History, PurgeFits
    <3>3. run.privacy = "active"
      BY <2>3 DEF FeedInv, Current, Alone
    <3> QED
      BY <3>2, <3>3
  <2>4. ASSUME NEW d \in Sessions, tx'[d] = tx[d]
        PROVE  Alone(tx[d])'
    <3>1. Alone(tx[d])
      BY DEF FeedInv, Current
    <3> QED
      BY <2>1, <2>3, <2>4, <3>1 DEF Alone
  <2> QED
    BY <2>2, <2>4 DEF Spares
<1>14. CASE es # <<>>
  <2>1. /\ s.op = "cancel" /\ Len(es) = 1 /\ es[1].type = "cancelled" /\ s.mine.cancel
        /\ s.mine.status = "cancelled" /\ Cancellable(s.view)
        /\ s.mine.sv = s.view.sv + 1 /\ es[1].sv = s.mine.sv
    BY <1>1, <1>14 DEF RequestFits, Asks
  <2>2. s.view.seq = Len(log) /\ Len(log) \in Nat
    BY <1>1, <1>14, LogTypes DEF Clash
  <2>3. /\ \/ run.status = s.view.status
           \/ run.status = "pending" /\ s.view.status \in {"running", "failed", "partial"}
        /\ run.sv = s.view.sv \/ run.sv = s.view.sv + 1
    BY <1>1, <2>2 DEF Recent
  <2>4. s.view.status \notin {"succeeded", "partial", "failed"}
    BY <1>1, <2>1 DEF Recent, EndFits, Cancellable
  <2>5. run'.status = "cancelled" /\ run'.cancel /\ run'.sv = s.mine.sv
    <3>1. s.view.sv \in Nat /\ s.view.cancel \in BOOLEAN /\ run.cancel \in BOOLEAN
      BY <1>1 DEF Row
    <3>2. s.view.cancel => run.cancel
      BY <1>1 DEF Seen
    <3> QED
      BY <1>3, <2>1, <2>3, <3>1, <3>2 DEF Net
  <2>6. Len(log') = Len(log) + 1
    BY <1>1, <1>2, <1>3, <2>1, LogAt
  <2>7. run'.dispatch = "held" => run.dispatch = "held"
    BY <1>1, <1>3 DEF Asks, Net
  <2>8. Mild
    BY <2>2, <2>6, <2>7 DEF Mild
  <2>9. Calm
    BY <2>5 DEF Calm
  <2>10. RowFits'
    BY <1>1, <1>2, <1>3, <2>5, <2>7 DEF RowFits, EndFits
  <2>11. Spares
    BY <1>6, <1>7, <1>8, <2>1 DEF Spares, Alone
  <2>12. Shows
    <3>1. run.sv \in Nat /\ s.view.sv \in Nat
      BY <1>1 DEF Row
    <3>2. run.sv <= run'.sv
      BY <2>1, <2>3, <2>5, <3>1
    <3>3. \A k \in 1..Len(es) : k = 1
      BY <2>1
    <3>4. \A k \in 1..Len(es) : run.sv <= es[k].sv /\ es[k].sv <= run'.sv
      BY <2>1, <2>3, <2>5, <3>1, <3>3
    <3>5. /\ Feed!StatusOf(es[Len(es)].type) = run'.status
          /\ \A k \in 1..Len(es) : es[k].type \in Terminal => k = Len(es)
      BY <2>1, <2>5, <3>3 DEF Feed!StatusOf
    <3>6. run.status \in Terminal =>
            run'.status = run.status /\ \A k \in 1..Len(es) : es[k].type = run.status
      BY <2>1, <2>3, <2>4, <2>5, <3>3 DEF Terminal
    <3>7. Feed!Next
      <4> HIDE DEF es, s
      <4> QED
        BY <1>1, <1>2, <1>3, <1>10, <1>14, <3>2, <3>4, <3>5, <3>6, FeedStep
    <3> QED
      BY <3>7 DEF Shows
  <2> QED
    BY <2>8, <2>9, <2>10, <2>11, <2>12
<1> QED
  BY <1>11, <1>12, <1>13, <1>14

\* A request or the scan commits, or is refused because of its event number.
LEMMA TxCommitFeed ==
    ASSUME OneAtATime, FeedInv, Ledger', NEW c \in Sessions, TxCommit(c)
    PROVE  FeedInv' /\ Shows
<1>1. tx \in [Sessions -> TxState] /\ tx' = [tx EXCEPT ![c] = IdleTx] /\ env' = env /\ wk' = wk
  BY DEF FeedInv, Ledger, LedgerInv, TypeOK, TxCommit
<1>2. tx'[c] = IdleTx /\ \A d \in Sessions \ {c} : tx'[d] = tx[d]
  BY <1>1
<1>3. Mild /\ Calm /\ Spares /\ RowFits' /\ Shows
  <2>1. CASE Clash(tx[c])
    <3>1. UNCHANGED <<run, log>>
      BY <2>1 DEF TxCommit
    <3> QED
      BY <1>1, <3>1, Still
  <2> QED
    BY <2>1, RequestFeed
<1>4. Recent(tx[c].view)'
  BY <1>2, <1>3, NewRecent, IdleCurrent
<1>5. Asks(tx[c])' /\ Alone(tx[c])'
  BY <1>2, IdleCurrent DEF Asks, Alone
<1>6. tx'[c].op = "none"
  BY <1>2, IdleCurrent
<1> QED
  BY <1>1, <1>2, <1>3, <1>4, <1>5, <1>6, Preserve

-----------------------------------------------------------------------------
(* Conditional updates. *)

\* A run that is queued, claimed or waiting for a human is not what an open start or
\* retry has found.
LEMMA SparesBusy ==
    ASSUME FeedInv, run'.privacy = run.privacy,
           run.dispatch \in {"queued", "claimed"} \/ run.status = "waiting_human"
    PROVE  Spares
<1> SUFFICES ASSUME NEW c \in Sessions, tx'[c] = tx[c] PROVE Alone(tx[c])'
  BY DEF Spares
<1>1. Asks(tx[c]) /\ Alone(tx[c])
  BY DEF FeedInv, Current
<1>2. tx[c].op \notin {"start", "retry"}
  BY <1>1 DEF Asks, Alone
<1> QED
  BY <1>1, <1>2 DEF Alone

\* An update touches no session.
LEMMA UpdateFeed ==
    ASSUME FeedInv, Ledger', NEW row, NEW es, NEW b, Update(row, es, b),
           Mild, Calm, Spares, RowFits'
    PROVE  FeedInv'
BY Preserve DEF Update

\* An update that appends nothing
LEMMA QuietUpdateFeed ==
    ASSUME FeedInv, Ledger', NEW row \in Row, NEW b, Update(row, <<>>, b),
           row.token = run.token, row.privacy = run.privacy, run.cancel => row.cancel,
           run.dispatch \in {"queued", "claimed"} \/ run.status = "waiting_human",
           \/ /\ row.status = run.status /\ row.sv = run.sv
              /\ row.dispatch = run.dispatch /\ row.owner = run.owner
           \/ /\ row.status = run.status /\ row.sv = run.sv /\ row.dispatch = "queued"
              /\ run.status \notin {"succeeded", "partial", "failed"}
           \/ /\ row.sv = run.sv + 1 /\ row.dispatch = "queued"
              /\ \/ run.status \in {"running", "failed", "partial"} /\ row.status = "pending"
                 \/ /\ run.status = "waiting_human" /\ row.status = "waiting_human"
                    /\ run.dispatch = "finished"
    PROVE  FeedInv' /\ Shows
<1>1. /\ run' = row /\ log' = log \o Stamp(<<>>, run.token) /\ env' = env
      /\ run.token \in Nat
  BY LogTypes DEF Update, FeedInv, Ledger
<1>2. Mild /\ Calm /\ RowFits' /\ Shows
  <2>1. ASSUME NEW es \in Seq(Event), es = <<>>, log' = log \o Stamp(es, run.token)
        PROVE  Mild /\ Calm /\ RowFits' /\ Shows
    BY <1>1, <2>1, QuietFeed
  <2>2. <<>> \in Seq(Event)
    OBVIOUS
  <2> QED
    BY <1>1, <2>1, <2>2
<1>3. Spares
  BY <1>1, SparesBusy
<1> QED
  BY <1>2, <1>3, UpdateFeed

\* An update that ends the run with one callback
LEMMA EndingFeed ==
    ASSUME FeedInv, Ledger', NEW row \in Row, NEW t \in Terminal, NEW b,
           Update(Append1(row, <<>>, t).mine, Append1(row, <<>>, t).events, b),
           row.privacy = run.privacy, row.cancel = run.cancel,
           row.dispatch = "finished", row.status = t, row.sv = run.sv + 1,
           run.dispatch # "finished" \/ run.status = "waiting_human",
           run.status = "cancelled" => t = "cancelled",
           run.dispatch = "held" => t = "cancelled" \/ "start" \notin ApiOps
    PROVE  FeedInv' /\ Shows
<1>0. t \in EventTypes
  BY DEF EventTypes
<1>1. PICK m, es : m = Append1(row, <<>>, t).mine /\ es = Append1(row, <<>>, t).events
  OBVIOUS
<1>2. Len(es) = 1 /\ es[1].type = t /\ es[1].sv = row.sv /\ m = [row EXCEPT !.seq = @ + 1]
  <2>1. es = <<[type |-> t, sv |-> row.sv]>>
    BY <1>1 DEF Append1
  <2> QED
    BY <1>0, <1>1, <2>1, FirstEvent
<1>3. /\ m.privacy = run.privacy /\ m.cancel = run.cancel /\ m.sv = run.sv + 1
      /\ m.dispatch = "finished" /\ m.status = t
  BY <1>2 DEF Row
<1>4. es \in Seq(Event)
  <2>1. ASSUME NEW x \in Seq(Event) PROVE Append1(row, x, t).events \in Seq(Event)
    BY <1>0, Append1Type
  <2>2. <<>> \in Seq(Event)
    OBVIOUS
  <2> QED
    BY <1>1, <2>1, <2>2
<1>5. /\ Update(m, es, b) /\ run' = m /\ log' = log \o Stamp(es, run.token) /\ env' = env
      /\ tx' = tx
  BY <1>1 DEF Update
<1>6. /\ LedgerInv /\ LedgerInv' /\ RowFits /\ run.sv \in Nat /\ run.token \in Nat
      /\ Len(log) \in Nat
  BY LogTypes DEF FeedInv, Ledger, Current, Row
<1>7. Len(log') = Len(log) + 1
  BY <1>2, <1>4, <1>5, <1>6, LogAt
<1>8. Mild
  BY <1>3, <1>5, <1>6, <1>7 DEF Mild
<1>9. Calm
  BY <1>3, <1>5 DEF Calm, Holds
<1>10. RowFits'
  BY <1>3, <1>5, <1>6 DEF RowFits, EndFits
<1>11. Spares
  <2>1. CASE run.dispatch # "held"
    BY <1>3, <1>5, <2>1, SparesBusy DEF Row, FeedInv, Ledger, LedgerInv, TypeOK
  <2>2. CASE run.dispatch = "held"
    <3> SUFFICES ASSUME NEW c \in Sessions PROVE Alone(tx[c])'
      BY <1>5 DEF Spares
    <3>1. Asks(tx[c]) /\ Alone(tx[c])
      BY DEF FeedInv, Current
    <3> QED
      BY <1>3, <1>5, <2>2, <3>1 DEF Alone, Asks
  <2> QED
    BY <2>1, <2>2
<1>12. Shows
  <2>1. \A k \in 1..Len(es) : k = 1
    BY <1>2
  <2>2. /\ run.sv <= run'.sv
        /\ \A k \in 1..Len(es) : run.sv <= es[k].sv /\ es[k].sv <= run'.sv
    BY <1>2, <1>3, <1>5, <1>6, <2>1
  <2>3. /\ es # <<>> /\ Feed!StatusOf(es[Len(es)].type) = run'.status
        /\ \A k \in 1..Len(es) : es[k].type \in Terminal => k = Len(es)
    <3>1. es # <<>>
      <4>1. Len(<<>>) = 0 /\ 0 # 1
        OBVIOUS
      <4> QED
        BY <1>2, <4>1, Zenon
    <3>2. es[Len(es)].type = t /\ run'.status = t /\ t \notin {"run_started", "step_changed"}
      BY <1>2, <1>3, <1>5 DEF Terminal
    <3> QED
      BY <1>2, <2>1, <3>1, <3>2 DEF Feed!StatusOf
  <2>4. run.status \in Terminal =>
          run'.status = run.status /\ \A k \in 1..Len(es) : es[k].type = run.status
    BY <1>2, <1>3, <1>5, <1>6, <2>1 DEF RowFits, EndFits, Terminal
  <2>5. Feed!Next
    BY <1>3, <1>4, <1>5, <1>6, <2>2, <2>3, <2>4, FeedStep
  <2> QED
    BY <2>5 DEF Shows
<1> QED
  BY <1>5, <1>8, <1>9, <1>10, <1>11, <1>12, UpdateFeed

\* The reconciler ends a run that no worker holds, or that waits.
LEMMA TerminateFeed ==
    ASSUME FeedInv, Ledger', NEW t \in Terminal, Terminate(t),
           run.dispatch # "finished" \/ run.status = "waiting_human",
           run.status = "cancelled" => t = "cancelled",
           run.dispatch = "held" => t = "cancelled" \/ "start" \notin ApiOps
    PROVE  FeedInv' /\ Shows
<1>0. run \in Row /\ t \in Statuses
  BY RunKin DEF FeedInv, Ledger, Statuses
<1>1. PICK n \in Nat : n = run.sv + 1
  BY <1>0 DEF Row
<1>2. PICK r : r = [run EXCEPT !.status = t, !.dispatch = "finished", !.sv = n, !.fallback = FALSE]
  OBVIOUS
<1>3. /\ r \in Row /\ r.privacy = run.privacy /\ r.cancel = run.cancel
      /\ r.dispatch = "finished" /\ r.status = t /\ r.sv = run.sv + 1
  BY <1>0, <1>1, <1>2 DEF Row
<1>4. Update(Append1(r, <<>>, t).mine, Append1(r, <<>>, t).events, FALSE)
  BY <1>1, <1>2 DEF Terminate, Terminated
<1> QED
  BY <1>3, <1>4, EndingFeed

\* Human decisions
LEMMA DecisionFeed == ASSUME FeedInv, Ledger', Approve \/ Reject PROVE FeedInv' /\ Shows
<1>0. /\ run \in Row /\ run.status = "waiting_human" /\ run.dispatch = "finished"
      /\ "failed" \in Statuses /\ "failed" \in Terminal
  BY RunKin DEF FeedInv, Ledger, Approve, Reject, Statuses, Terminal
<1>1. PICK n \in Nat : n = run.sv + 1
  BY <1>0 DEF Row
<1>2. CASE \E f \in BOOLEAN : Update([run EXCEPT !.dispatch = "queued", !.sv = @ + 1, !.fallback = f], <<>>, TRUE)
  <2>1. PICK f \in BOOLEAN : Update([run EXCEPT !.dispatch = "queued", !.sv = @ + 1, !.fallback = f], <<>>, TRUE)
    BY <1>2
  <2>2. PICK r : r = [run EXCEPT !.dispatch = "queued", !.sv = n, !.fallback = f]
    OBVIOUS
  <2>3. /\ r \in Row /\ r.token = run.token /\ r.privacy = run.privacy /\ r.cancel = run.cancel
        /\ r.dispatch = "queued" /\ r.status = run.status /\ r.sv = run.sv + 1
    BY <1>0, <1>1, <2>2 DEF Row
  <2>4. Update(r, <<>>, TRUE)
    BY <1>1, <2>1, <2>2
  <2> QED
    BY <1>0, <2>3, <2>4, QuietUpdateFeed
<1>3. CASE Reject /\ ~RejectFallback
  <2>1. PICK r : r = [run EXCEPT !.status = "failed", !.sv = n]
    OBVIOUS
  <2>2. /\ r \in Row /\ r.privacy = run.privacy /\ r.cancel = run.cancel
        /\ r.dispatch = "finished" /\ r.status = "failed" /\ r.sv = run.sv + 1
    BY <1>0, <1>1, <2>1 DEF Row
  <2>3. Update(Append1(r, <<>>, "failed").mine, Append1(r, <<>>, "failed").events, FALSE)
    BY <1>1, <1>3, <2>1 DEF Reject
  <2> QED
    BY <1>0, <2>2, <2>3, EndingFeed
<1> QED
  BY <1>2, <1>3 DEF Approve, Reject

\* The reaper
LEMMA ReapFeed == ASSUME FeedInv, Ledger', ReapExpired PROVE FeedInv' /\ Shows
<1>0. /\ run \in Row /\ run.dispatch = "claimed" /\ {"pending", "cancelled"} \subseteq Statuses
      /\ "cancelled" \in Terminal
  BY RunKin DEF FeedInv, Ledger, ReapExpired, Statuses, Terminal
<1>a. RowFits
  BY DEF FeedInv, Current
<1>1. PICK n \in Nat : n = run.sv + 1
  BY <1>0 DEF Row
<1>2. PICK e : e = [run EXCEPT !.owner = Nobody, !.lease = "none", !.status = "cancelled",
                               !.dispatch = "finished", !.sv = n, !.fallback = FALSE]
  OBVIOUS
<1>3. PICK q : q = [run EXCEPT !.owner = Nobody, !.lease = "none", !.dispatch = "queued"]
  OBVIOUS
<1>4. PICK p : p = [run EXCEPT !.owner = Nobody, !.lease = "none", !.dispatch = "queued",
                               !.status = "pending", !.sv = n]
  OBVIOUS
<1>5. /\ e \in Row /\ e.privacy = run.privacy /\ e.cancel = run.cancel
      /\ e.dispatch = "finished" /\ e.status = "cancelled" /\ e.sv = run.sv + 1
  BY <1>0, <1>1, <1>2 DEF Row
<1>6. /\ q \in Row /\ q.token = run.token /\ q.privacy = run.privacy /\ q.cancel = run.cancel
      /\ q.dispatch = "queued" /\ q.status = run.status /\ q.sv = run.sv
  BY <1>0, <1>3 DEF Row
<1>7. /\ p \in Row /\ p.token = run.token /\ p.privacy = run.privacy /\ p.cancel = run.cancel
      /\ p.dispatch = "queued" /\ p.status = "pending" /\ p.sv = run.sv + 1
  BY <1>0, <1>1, <1>4 DEF Row
<1>8. CASE ~env.pkg
  <2> DEFINE freed == [run EXCEPT !.owner = Nobody, !.lease = "none"]
             row == [freed EXCEPT !.status = "cancelled", !.dispatch = "finished",
                                  !.sv = @ + 1, !.fallback = FALSE]
  <2>1. row = e
    BY <1>0, <1>1, <1>2 DEF Row
  <2>2. Update(Append1(row, <<>>, "cancelled").mine, Append1(row, <<>>, "cancelled").events, FALSE)
    BY <1>8 DEF ReapExpired
  <2> HIDE DEF row
  <2> QED
    BY <1>0, <1>5, <2>1, <2>2, EndingFeed
<1>9. CASE env.pkg /\ run.status = "running"
  <2> DEFINE freed == [run EXCEPT !.owner = Nobody, !.lease = "none"]
             queued == [freed EXCEPT !.dispatch = "queued"]
             row == [queued EXCEPT !.status = "pending", !.sv = @ + 1]
  <2>1. row = p
    BY <1>0, <1>1, <1>4 DEF Row
  <2>2. Update(row, <<>>, TRUE)
    BY <1>9 DEF ReapExpired
  <2> HIDE DEF row
  <2> QED
    BY <1>0, <1>7, <1>9, <2>1, <2>2, QuietUpdateFeed
<1>10. CASE env.pkg /\ run.status # "running"
  <2> DEFINE freed == [run EXCEPT !.owner = Nobody, !.lease = "none"]
             queued == [freed EXCEPT !.dispatch = "queued"]
  <2>1. queued = q
    BY <1>0, <1>3 DEF Row
  <2>2. Update(queued, <<>>, TRUE)
    BY <1>10 DEF ReapExpired
  <2>3. run.status \notin {"succeeded", "partial", "failed"}
    BY <1>0, <1>a DEF RowFits, EndFits
  <2> HIDE DEF queued
  <2> QED
    BY <1>0, <1>6, <2>1, <2>2, <2>3, QuietUpdateFeed
<1> QED
  BY <1>8, <1>9, <1>10

\* The reconciler requests a cancel of a claimed run.
LEMMA CancelRequestFeed ==
    ASSUME FeedInv, Ledger', NEW f \in BOOLEAN, run.dispatch = "claimed",
           Update([run EXCEPT !.cancel = TRUE, !.fallback = f], <<>>, FALSE)
    PROVE  FeedInv' /\ Shows
<1>0. run \in Row
  BY RunKin DEF FeedInv, Ledger
<1>1. PICK r : r = [run EXCEPT !.cancel = TRUE, !.fallback = f]
  OBVIOUS
<1>2. /\ r \in Row /\ r.token = run.token /\ r.privacy = run.privacy /\ r.cancel
      /\ r.dispatch = run.dispatch /\ r.status = run.status /\ r.sv = run.sv
      /\ r.owner = run.owner
  BY <1>0, <1>1 DEF Row
<1> QED
  BY <1>1, <1>2, QuietUpdateFeed

\* A step that touches neither the run nor a session
LEMMA QuietStepFeed ==
    ASSUME FeedInv, Ledger', UNCHANGED <<run, log, wk, tx>>,
           env' = env \/ (env'.due => "deadline" \in Faults)
    PROVE  FeedInv' /\ Shows
BY Still, Preserve

\* The reaper and the repairs of a reconciliation scan
LEMMA ReconcileFeed == ASSUME OneAtATime, FeedInv, Ledger', Reconcile PROVE FeedInv' /\ Shows
<1>0. /\ run \in Row /\ "failed" \in Terminal /\ "cancelled" \in Terminal /\ run.token \in Nat
      /\ TimeoutAction = "fallback" \/ TimeoutAction \in Terminal
  BY LogTypes, ConstantsAssumption DEF FeedInv, Ledger, Terminal
<1>a. RowFits
  BY DEF FeedInv, Current
<1>1. CASE ReapExpired
  BY <1>1, ReapFeed
<1>2. CASE RepairTimeout
  <2>1. CASE run.dispatch = "claimed" /\ Update([run EXCEPT !.cancel = TRUE, !.fallback = FALSE], <<>>, FALSE)
    BY <2>1, CancelRequestFeed
  <2>2. CASE Cancellable(run) /\ Terminate("failed")
    <3>1. run.status # "cancelled"
      BY <1>2 DEF RepairTimeout, Terminal
    <3>2. run.dispatch = "held" => "start" \notin ApiOps
      BY <1>0, <1>2, <1>a DEF RepairTimeout, RowFits, OneAtATime
    <3>3. run.dispatch # "finished" \/ run.status = "waiting_human"
      BY <2>2 DEF Cancellable
    <3> QED
      BY <1>0, <2>2, <3>1, <3>2, <3>3, TerminateFeed
  <2> QED
    BY <1>2, <2>1, <2>2 DEF RepairTimeout
<1>3. CASE RepairWithdrawn
  <2>1. [run EXCEPT !.cancel = TRUE] = [run EXCEPT !.cancel = TRUE, !.fallback = run.fallback]
        /\ run.fallback \in BOOLEAN
    BY <1>0 DEF Row
  <2>2. CASE run.dispatch = "claimed" /\ Update([run EXCEPT !.cancel = TRUE], <<>>, FALSE)
    BY <2>1, <2>2, CancelRequestFeed
  <2>3. CASE Cancellable(run) /\ Terminate("cancelled")
    BY <1>0, <2>3, TerminateFeed DEF Cancellable
  <2> QED
    BY <1>3, <2>2, <2>3 DEF RepairWithdrawn
<1>4. CASE RepairHeldTimeout \/ RepairQueuedTimeout
  BY <1>0, <1>4, TerminateFeed DEF RepairHeldTimeout, RepairQueuedTimeout
<1>5. CASE RepairMissingDispatch
  BY <1>5, QuietStepFeed DEF RepairMissingDispatch
<1>6. CASE RepairWaitingTimeout
  <2>0. run.status = "waiting_human" /\ run.dispatch = "finished"
    BY <1>6 DEF RepairWaitingTimeout
  <2>1. CASE TimeoutAction = "fallback"
    <3>1. PICK n \in Nat : n = run.sv + 1
      BY <1>0 DEF Row
    <3>2. PICK r : r = [run EXCEPT !.dispatch = "queued", !.sv = n, !.fallback = TRUE]
      OBVIOUS
    <3>3. /\ r \in Row /\ r.token = run.token /\ r.privacy = run.privacy /\ r.cancel = run.cancel
          /\ r.dispatch = "queued" /\ r.status = run.status /\ r.sv = run.sv + 1
      BY <1>0, <3>1, <3>2 DEF Row
    <3>4. Update(r, <<>>, TRUE)
      BY <1>6, <2>1, <3>1, <3>2 DEF RepairWaitingTimeout
    <3> QED
      BY <2>0, <3>3, <3>4, QuietUpdateFeed
  <2>2. CASE TimeoutAction # "fallback"
    <3>1. TimeoutAction \in Terminal /\ Terminate(TimeoutAction)
      BY <1>0, <1>6, <2>2 DEF RepairWaitingTimeout
    <3> QED
      BY <2>0, <3>1, TerminateFeed
  <2> QED
    BY <2>1, <2>2
<1> QED
  BY <1>1, <1>2, <1>3, <1>4, <1>5, <1>6 DEF Reconcile

\* Clocks, configuration and processes
LEMMA EnvironmentFeed == ASSUME FeedInv, Ledger', Environment PROVE FeedInv' /\ Shows
<1>1. ASSUME NEW t \in 1..MaxToken, LeaseLapses(t) PROVE FeedInv' /\ Shows
  BY <1>1, QuietStepFeed DEF LeaseLapses
<1>2. CASE DeadlinePasses
  BY <1>2, QuietStepFeed DEF DeadlinePasses
<1>3. CASE PackageRevoked \/ AuthorizationChanges
  <2>1. env'.due = env.due
    BY <1>3 DEF PackageRevoked, AuthorizationChanges, FeedInv, Ledger, LedgerInv, TypeOK
  <2>2. env.due => "deadline" \in Faults
    BY DEF FeedInv, Current, RowFits
  <2> QED
    BY <1>3, <2>1, <2>2, QuietStepFeed DEF PackageRevoked, AuthorizationChanges
<1>4. ASSUME NEW w \in Workers, Drain(w) \/ Restart(w) PROVE FeedInv' /\ Shows
  BY <1>4, QuietStepFeed DEF Drain, Restart
<1>5. ASSUME NEW w \in Workers, Crash(w) PROVE FeedInv' /\ Shows
  BY <1>5, AbandonFeed DEF Crash
<1> QED
  BY <1>1, <1>2, <1>3, <1>4, <1>5 DEF Environment

-----------------------------------------------------------------------------
(* Workers. *)

\* A worker commits without a callback.
LEMMA WorkerQuietFeed ==
    ASSUME FeedInv, Ledger', NEW w \in Workers, wk[w].events = <<>>, run' = Flush(wk[w]),
           log' = log \o Stamp(wk[w].events, wk[w].token), env' = env
    PROVE  Mild /\ Calm /\ Spares /\ RowFits' /\ Shows /\ run'.status = run.status
<1>1. /\ LedgerInv /\ run \in Row /\ WorkerFits(wk[w]) /\ Voice(wk[w])
      /\ wk[w].view \in Row /\ wk[w].mine \in Row
      /\ wk[w].events \in Seq(Event) /\ wk[w].token \in Nat
  BY WorkerFacts DEF FeedInv, Ledger, History, Current
<1>2. /\ run'.status = run.status /\ run'.dispatch = run.dispatch /\ run'.sv = run.sv
      /\ run'.owner = run.owner /\ run'.token = run.token /\ run'.privacy = run.privacy
      /\ run'.cancel = Net(wk[w].mine.cancel, wk[w].view.cancel, run.cancel)
  BY <1>1, FlushFields, FlushNumbers DEF WorkerFits, SameRow, Voice, Net
<1>3. run.cancel => run'.cancel
  <2>1. wk[w].view.cancel \in BOOLEAN /\ wk[w].mine.cancel \in BOOLEAN /\ run.cancel \in BOOLEAN
    BY <1>1 DEF Row
  <2> QED
    BY <1>1, <1>2, <2>1 DEF Net, WorkerFits, SameRow
<1>4. Mild /\ Calm /\ RowFits' /\ Shows
  BY <1>1, <1>2, <1>3, QuietFeed
<1>5. Spares
  BY <1>2 DEF Spares, FeedInv, Current, Alone
<1> QED
  BY <1>2, <1>4, <1>5

\* A worker commits callbacks: nobody has committed one since it loaded its row.
LEMMA WorkerLoudFeed ==
    ASSUME FeedInv, Ledger', NEW w \in Workers, wk[w].events # <<>>, ~Clash(wk[w]),
           run' = Flush(wk[w]), log' = log \o Stamp(wk[w].events, wk[w].token), env' = env,
           wk'[w] # wk[w], wk[w].pc = "commit" \/ Renewable(w)
    PROVE  Mild /\ Calm /\ Spares /\ RowFits' /\ Shows /\ run'.status = wk[w].mine.status
<1> DEFINE s == wk[w]
<1>1. /\ LedgerInv /\ LedgerInv' /\ run \in Row /\ WorkerFits(s) /\ Voice(s) /\ Recent(s.view)
      /\ s.view \in Row /\ s.mine \in Row /\ s.events \in Seq(Event) /\ s.token \in Nat
      /\ RowFits /\ Len(log) \in Nat /\ run.seq = Len(log)
      /\ (s.save # {} => s.view = run)
  BY WorkerFacts, LogTypes DEF FeedInv, Ledger, History, Current, SaveFits
<1>2. s.view.dispatch = "claimed" /\ s.view.seq = Len(log)
  BY <1>1 DEF WorkerFits, OwnEvents, Clash
<1>3. /\ run'.status = Net(s.mine.status, s.view.status, run.status)
      /\ run'.dispatch = Net(s.mine.dispatch, s.view.dispatch, run.dispatch)
      /\ run'.cancel = Net(s.mine.cancel, s.view.cancel, run.cancel)
      /\ run'.sv = Net(s.mine.sv, s.view.sv, run.sv)
      /\ run'.owner = Net(s.mine.owner, s.view.owner, run.owner)
      /\ run'.privacy = run.privacy /\ run'.token = run.token
  BY <1>1, FlushFields, FlushNumbers DEF WorkerFits, SameRow, Net
<1>4. run.dispatch \in {"queued", "claimed"}
  <2>1. run.dispatch # "held"
    BY <1>1, <1>2 DEF Recent
  <2>2. run.dispatch # "finished"
    BY <1>1, <1>2 DEF WorkerFits, Seen
  <2> QED
    BY <1>1, <2>1, <2>2 DEF Row
<1>5. (run.cancel => run'.cancel) /\ (s.view.cancel => s.mine.cancel)
  <2>1. s.view.cancel \in BOOLEAN /\ s.mine.cancel \in BOOLEAN /\ run.cancel \in BOOLEAN
    BY <1>1 DEF Row
  <2>2. (s.view.cancel => s.mine.cancel)
    BY <1>1 DEF WorkerFits, SameRow
  <2> QED
    BY <1>3, <2>1, <2>2 DEF Net
<1>6. /\ Feed!StatusOf(s.events[Len(s.events)].type) = s.mine.status
      /\ s.mine.sv >= s.view.sv /\ (s.save = {} => s.mine.sv > s.view.sv)
      /\ (s.mine.status = "running" /\ s.view.status = "running" => s.save # {})
      /\ \A i \in 1..Len(s.events) :
           /\ s.view.sv <= s.events[i].sv /\ s.events[i].sv <= s.mine.sv
           /\ s.save = {} => s.view.sv < s.events[i].sv
           /\ s.events[i].type # "cancelled" => ~s.view.cancel
      /\ \/ s.pc = "commit" /\ s.mine.dispatch = "finished"
         \/ /\ s.mine.dispatch = s.view.dispatch /\ s.mine.owner = s.view.owner
            /\ s.mine.status = "running"
            /\ \/ s.pc # "commit"
               \/ s.save # {} /\ s.view.status = "running"
  BY <1>1 DEF Voice
<1>7. /\ \/ run.status = s.view.status
         \/ run.status = "pending" /\ s.view.status = "running"
      /\ run.sv = s.view.sv \/ run.sv = s.view.sv + 1
  BY <1>1, <1>2 DEF Recent, EndFits
<1>8. run'.status = s.mine.status
  BY <1>1, <1>3, <1>6, <1>7 DEF Net
<1>9. /\ s.mine.dispatch = "finished" => run'.dispatch = "finished"
      /\ s.mine.dispatch # "finished" => /\ run'.dispatch = run.dispatch
                                         /\ run'.owner = run.owner
  BY <1>2, <1>3, <1>6 DEF Net
<1>10. Len(log') \in Nat /\ Len(log') > Len(log)
  <2>1. Len(s.events) \in Nat /\ Len(log') = Len(log) + Len(s.events)
    BY <1>1, LogAt
  <2>2. Len(s.events) # 0
    BY <1>1, EmptySeq
  <2> QED
    BY <1>1, <2>1, <2>2
<1>11. Mild
  BY <1>1, <1>4, <1>9, <1>10 DEF Mild
<1>12. Calm
  <2> SUFFICES ASSUME NEW v \in Workers, wk'[v] = wk[v], Holds(v)', ~run'.cancel
               PROVE  Holds(v) /\ run'.status = run.status
    BY <1>5 DEF Calm
  <2>1. run'.dispatch = "claimed" /\ run'.owner = v /\ run'.token = wk[v].token /\ v # w
    BY DEF Holds
  <2>2. s.mine.dispatch # "finished" /\ run'.dispatch = run.dispatch /\ run'.owner = run.owner
    BY <1>9, <2>1
  <2>3. Holds(v) /\ ~Renewable(w)
    BY <1>3, <2>1, <2>2 DEF Holds, Renewable
  <2>4. s.pc = "commit" /\ s.save # {} /\ s.view.status = "running" /\ s.mine.status = "running"
    BY <1>6, <2>2, <2>3
  <2> QED
    BY <1>1, <1>8, <2>3, <2>4
<1>13. RowFits'
  <2>1. s.mine.dispatch # "finished" => s.mine.status = "running"
    BY <1>6
  <2>2. EndFits(run')
    BY <1>8, <1>9, <2>1 DEF EndFits
  <2>3. run'.dispatch # "held"
    BY <1>4, <1>9
  <2> QED
    BY <1>1, <2>2, <2>3 DEF RowFits, EndFits
<1>14. Spares
  BY <1>3, <1>4, SparesBusy
<1>15. Shows
  <2>1. run.sv \in Nat /\ s.view.sv \in Nat /\ s.mine.sv \in Nat
    BY <1>1 DEF Row
  <2>2. \A k \in 1..Len(s.events) : s.events[k].sv \in Nat
    <3>1. \A k \in 1..Len(s.events) : s.events[k] \in Event
      BY <1>1, ElementOfSeq
    <3> QED
      BY <3>1 DEF Event
  <2>3. run'.sv = s.mine.sv
    BY <1>1, <1>3, <1>6, <2>1 DEF Net
  <2>4. run.sv <= run'.sv /\ \A k \in 1..Len(s.events) : run.sv <= s.events[k].sv /\ s.events[k].sv <= run'.sv
    <3>1. CASE s.save = {}
      BY <1>6, <1>7, <2>1, <2>2, <2>3, <3>1
    <3>2. CASE s.save # {}
      BY <1>1, <1>6, <2>1, <2>2, <2>3, <3>2
    <3> QED
      BY <3>1, <3>2
  <2>5. \A k \in 1..Len(s.events) : s.events[k].type \in Terminal => k = Len(s.events)
    BY <1>1 DEF WorkerFits, OwnEvents
  <2>6. ASSUME run.status \in Terminal
        PROVE  run'.status = run.status /\ \A k \in 1..Len(s.events) : s.events[k].type = run.status
    <3>1. run.status = "cancelled" /\ s.view.status = "cancelled"
      BY <1>1, <1>4, <1>7, <2>6 DEF RowFits, EndFits, Terminal
    <3>2. s.view.cancel
      BY <1>1, <1>2, <3>1 DEF Recent, EndFits
    <3>3. \A k \in 1..Len(s.events) : s.events[k].type = "cancelled"
      BY <1>6, <3>2
    <3>4. Len(s.events) \in 1..Len(s.events)
      BY <1>1, EmptySeq
    <3>5. s.mine.status = "cancelled"
      BY <1>6, <3>3, <3>4 DEF Feed!StatusOf
    <3> QED
      BY <1>8, <3>1, <3>3, <3>5
  <2>7. Feed!Next
    <3>1. /\ run.privacy = "purge_requested" => run'.privacy # "active"
          /\ run.privacy = "purged" => run'.privacy = "purged"
      BY <1>3
    <3>2. s.events # <<>>
      OBVIOUS
    <3> HIDE DEF s
    <3>3. Feed!StatusOf(s.events[Len(s.events)].type) = run'.status
      BY <1>6, <1>8
    <3>4. log' = log \o Stamp(s.events, s.token)
      BY DEF s
    <3> QED
      BY <1>1, <2>4, <2>5, <2>6, <3>1, <3>2, <3>3, <3>4, FeedStep
  <2> QED
    BY <2>7 DEF Shows
<1> QED
  BY <1>8, <1>11, <1>12, <1>13, <1>14, <1>15

\* The commit of a worker's session, after which it holds nothing
LEMMA CommitFeed ==
    ASSUME FeedInv, Ledger', NEW w \in Workers, NEW next, Commit(w, Flush(wk[w]), next),
           UNCHANGED <<env, tx>>,
           next.view = NewRow("held"), next.mine = NewRow("held"), next.events = <<>>,
           \/ wk[w].pc = "commit" /\ next.pc = "idle"
           \/ /\ Renewable(w) /\ next.token = wk[w].token
              /\ \/ wk[w].pc = "beat" /\ next.pc = "work"
                 \/ wk[w].pc = "exec" /\ next.pc = "save"
    PROVE  FeedInv' /\ Shows
<1>1. /\ wk \in [Workers -> WorkerState] /\ Voice(wk[w]) /\ AtWork(w)
      /\ (wk[w].pc = "exec" => wk[w].events = <<>>)
  BY WorkerFacts DEF FeedInv, Ledger, LedgerInv, TypeOK, Current, Quiet
<1>2. CASE Clash(wk[w])
  BY <1>2, AbandonFeed DEF Commit
<1>3. CASE ~Clash(wk[w])
  <2>1. /\ run' = Flush(wk[w]) /\ log' = log \o Stamp(wk[w].events, wk[w].token)
        /\ wk' = [wk EXCEPT ![w] = next]
    BY <1>3 DEF Commit
  <2>2. /\ wk'[w] = next /\ (\A v \in Workers \ {w} : wk'[v] = wk[v])
        /\ wk'[w] # wk[w]
    BY <1>1, <2>1
  <2>3. /\ Mild /\ Calm /\ Spares /\ RowFits' /\ Shows
        /\ run'.status = IF wk[w].events = <<>> THEN run.status ELSE wk[w].mine.status
    <3>1. CASE wk[w].events = <<>>
      BY <2>1, <3>1, WorkerQuietFeed
    <3>2. CASE wk[w].events # <<>>
      BY <1>3, <2>1, <2>2, <3>2, WorkerLoudFeed
    <3> QED
      BY <3>1, <3>2
  <2>4. Recent(wk[w].view)'
    BY <2>2, <2>3, NewRecent
  <2>5. Voice(wk[w])'
    BY <2>2 DEF Voice
  <2>6. AtWork(w)'
    <3>1. CASE next.pc = "idle"
      BY <2>2, <3>1 DEF AtWork
    <3>2. CASE next.pc # "idle"
      <4>1. Renewable(w) /\ wk[w].pc \in {"beat", "exec"}
        BY <3>2
      <4>2. wk[w].events = <<>> => run.status = "running"
        BY <1>1, <4>1 DEF AtWork, Holds, Renewable
      <4>3. wk[w].events # <<>> => wk[w].mine.status = "running"
        BY <1>1, <4>1 DEF Voice
      <4> QED
        BY <2>3, <4>2, <4>3 DEF AtWork
    <3> QED
      BY <3>1, <3>2
  <2> QED
    BY <2>2, <2>3, <2>4, <2>5, <2>6, Preserve
<1> QED
  BY <1>2, <1>3

\* A worker that holds no callback reads the row again.
LEMMA ReloadFeed ==
    ASSUME FeedInv, Ledger', NEW w \in Workers, NEW s, wk' = [wk EXCEPT ![w] = s],
           UNCHANGED <<run, log, tx, env>>,
           s.view = run, s.events = <<>>, s.mine.sv = run.sv, s.mine.owner = run.owner,
           s.pc \in {"work", "exec", "save", "beat", "node"}
             => s.token = wk[w].token /\ (Holds(w) /\ ~run.cancel => run.status = "running")
    PROVE  FeedInv' /\ Shows
<1>1. Recent(s.view)
  BY RunRecent DEF FeedInv
<1>2. Voice(s)
  BY DEF Voice
<1> QED
  BY <1>1, <1>2, LocalFeed

\* A worker that goes on with the row and the callbacks it holds.  Only a run_started may
\* not be committed by a worker that gives up without a result.
LEMMA KeepFeed ==
    ASSUME FeedInv, Ledger', NEW w \in Workers, NEW s, wk' = [wk EXCEPT ![w] = s],
           UNCHANGED <<run, log, tx, env>>,
           wk[w].pc # "commit", s.view = wk[w].view, s.events = wk[w].events,
           s.token = wk[w].token, s.save = wk[w].save, s.mine.sv = wk[w].mine.sv,
           s.mine.owner = wk[w].mine.owner, s.mine.status = wk[w].mine.status,
           s.mine.dispatch = wk[w].mine.dispatch,
           \/ wk[w].events = <<>>
           \/ s.pc = "settle" /\ s.outcome = "failed"
           \/ wk[w].pc # "beat" /\ ~(wk[w].pc = "settle" /\ wk[w].outcome = "failed"),
           s.pc \notin {"work", "exec", "save"},
           s.pc \in {"beat", "node"} => wk[w].pc \in {"exec", "node"}
    PROVE  FeedInv' /\ Shows
<1>1. Recent(wk[w].view) /\ Voice(wk[w]) /\ AtWork(w) /\ (wk[w].pc \in Quiet => wk[w].events = <<>>)
  BY WorkerFacts DEF FeedInv, Ledger, Current
<1>2. Recent(s.view)
  BY <1>1
<1>3. Voice(s)
  <2>1. CASE wk[w].events = <<>>
    BY <1>1, <2>1 DEF Voice
  <2>2. CASE wk[w].events # <<>>
    BY <1>1, <2>2 DEF Voice
  <2> QED
    BY <2>1, <2>2
<1>4. s.pc \in {"beat", "node"} /\ s.events = <<>>
        => s.token = wk[w].token /\ (Holds(w) /\ ~run.cancel => run.status = "running")
  BY <1>1 DEF AtWork
<1> QED
  BY <1>2, <1>3, <1>4, LocalFeed

\* A worker appends its last callback.
LEMMA CloseFeed ==
    ASSUME FeedInv, Ledger', NEW w \in Workers, NEW s, NEW e \in Event, wk' = [wk EXCEPT ![w] = s],
           UNCHANGED <<run, log, tx, env>>,
           s.pc = "commit", s.view = wk[w].view, s.events = Append(wk[w].events, e),
           s.save = wk[w].save, s.mine.dispatch = "finished", s.mine.sv = wk[w].mine.sv + 1,
           e.sv = s.mine.sv, e.type = s.mine.status, e.type \in Terminal \cup {"waiting_human"},
           e.type = "cancelled" \/ ~wk[w].mine.cancel
    PROVE  FeedInv' /\ Shows
<1>1. /\ Recent(wk[w].view) /\ Voice(wk[w]) /\ wk[w].view \in Row /\ wk[w].mine \in Row
      /\ wk[w].events \in Seq(Event) /\ (wk[w].view.cancel => wk[w].mine.cancel)
  BY WorkerFacts DEF FeedInv, Ledger, Current, History, WorkerFits, SameRow
<1>2. wk[w].view.sv \in Nat /\ wk[w].mine.sv \in Nat /\ wk[w].mine.sv >= wk[w].view.sv
  <2>1. wk[w].view.sv \in Nat /\ wk[w].mine.sv \in Nat
    BY <1>1 DEF Row
  <2>2. CASE wk[w].events = <<>>
    BY <1>1, <2>1, <2>2 DEF Voice
  <2>3. CASE wk[w].events # <<>>
    BY <1>1, <2>1, <2>3 DEF Voice
  <2> QED
    BY <2>1, <2>2, <2>3
<1>3. PICK n \in Nat : n = Len(wk[w].events)
  BY <1>1, LenProperties
<1>4. /\ s.events \in Seq(Event) /\ Len(s.events) = n + 1 /\ s.events[n + 1] = e
      /\ \A i \in 1..n : s.events[i] = wk[w].events[i]
  BY <1>1, <1>3, AppendProperties
<1>5. \A i \in 1..n : /\ wk[w].view.sv <= wk[w].events[i].sv /\ wk[w].events[i].sv <= wk[w].mine.sv
                      /\ wk[w].save = {} => wk[w].view.sv < wk[w].events[i].sv
                      /\ wk[w].events[i].type # "cancelled" => ~wk[w].view.cancel
  <2> TAKE i \in 1..n
  <2>1. wk[w].events # <<>>
    <3>1. Len(<<>>) = 0
      OBVIOUS
    <3>2. n # 0
      BY <1>3
    <3> QED
      BY <1>3, <3>1, <3>2, Zenon
  <2> QED
    BY <1>1, <1>3, <2>1 DEF Voice
<1>6. \A i \in 1..n : s.events[i].sv \in Nat
  <2>1. \A i \in 1..Len(wk[w].events) : wk[w].events[i] \in Event
    BY <1>1, ElementOfSeq
  <2> QED
    BY <1>3, <1>4, <2>1 DEF Event
<1>7. ASSUME NEW i \in 1..Len(s.events)
      PROVE  /\ wk[w].view.sv <= s.events[i].sv /\ s.events[i].sv <= s.mine.sv
             /\ s.save = {} => wk[w].view.sv < s.events[i].sv
             /\ s.events[i].type # "cancelled" => ~wk[w].view.cancel
  <2>1. CASE i \in 1..n
    BY <1>2, <1>4, <1>5, <1>6, <2>1
  <2>2. CASE i = n + 1
    BY <1>1, <1>2, <1>4, <2>2
  <2> QED
    BY <1>3, <1>4, <2>1, <2>2
<1>8. Voice(s)
  <2>1. s.events # <<>>
    <3>1. Len(<<>>) = 0 /\ n + 1 # 0
      BY <1>3
    <3> QED
      BY <1>4, <3>1, Zenon
  <2>2. Feed!StatusOf(s.events[Len(s.events)].type) = s.mine.status
    BY <1>4 DEF Feed!StatusOf, Terminal
  <2>3. s.mine.sv > wk[w].view.sv
    BY <1>2
  <2>4. s.mine.status # "running"
    BY DEF Terminal
  <2> QED
    BY <1>2, <1>7, <2>1, <2>2, <2>3, <2>4 DEF Voice
<1> QED
  BY <1>1, <1>8, LocalFeed

\* What the last callback of a session says
LEMMA ClosingFields ==
    ASSUME NEW row \in Row, NEW es, NEW t \in EventTypes
    PROVE  \E e \in Event, m \in Row :
             /\ Append1(row, es, t).events = Append(es, e) /\ Append1(row, es, t).mine = m
             /\ e.type = t /\ e.sv = m.sv /\ m.sv = row.sv
             /\ m.status = row.status /\ m.dispatch = row.dispatch
<1>1. PICK e \in Event : e = [type |-> t, sv |-> row.sv]
  BY DEF Event, Row
<1>2. e.type = t /\ e.sv = row.sv /\ Append1(row, es, t).events = Append(es, e)
  BY <1>1 DEF Append1
<1>3. PICK m \in Row : m = [row EXCEPT !.seq = @ + 1]
  <2>1. [row EXCEPT !.seq = @ + 1] \in Row
    BY DEF Row
  <2> QED
    BY <2>1, Zenon
<1>4. Append1(row, es, t).mine = m
  BY <1>3 DEF Append1
<1>5. m.dispatch = row.dispatch /\ m.status = row.status /\ m.sv = row.sv
  BY <1>3 DEF Row
<1> QED
  BY <1>2, <1>4, <1>5

\* What gives the run up
LEMMA ClosedNumbers ==
    ASSUME NEW r \in Row, NEW st \in Statuses
    PROVE  Closed(r, st).status = st /\ Closed(r, st).sv = r.sv + 1
<1>1. PICK n \in Nat : n = r.sv + 1
  BY DEF Row
<1>2. Closed(r, st) = [r EXCEPT !.status = st, !.dispatch = "finished", !.owner = Nobody,
                                !.lease = "none", !.sv = n]
  BY <1>1 DEF Closed
<1> QED
  BY <1>1, <1>2 DEF Row

-----------------------------------------------------------------------------
(* The actions of a worker. *)

\* Steps up to the claim, and the claim
LEMMA ClaimFeed ==
    ASSUME FeedInv, Ledger', NEW w \in Workers, Poll(w) \/ Consume(w) \/ Claim(w)
    PROVE  FeedInv' /\ Shows
<1>0. /\ LedgerInv /\ wk[w] \in WorkerState /\ wk \in [Workers -> WorkerState]
      /\ run \in Row /\ wk[w].events = <<>> /\ wk[w].pc # "commit"
      /\ Recent(NewRow("held")) /\ Recent(wk[w].view) /\ Voice(wk[w]) /\ RowFits
  BY WorkerFacts DEF FeedInv, Ledger, LedgerInv, TypeOK, Poll, Consume, Claim, Quiet, Current
<1>a. /\ Recent(IdleWorker.view) /\ Voice(IdleWorker) /\ IdleWorker.pc = "idle"
  BY <1>0, IdleCurrent
<1>1. CASE Poll(w)
  <2> DEFINE s == [wk[w] EXCEPT !.pc = "notified"]
  <2>1. wk' = [wk EXCEPT ![w] = s] /\ UNCHANGED <<run, log, tx, env>>
    BY <1>1 DEF Poll, Goto
  <2>2. /\ s.view = wk[w].view /\ s.mine = wk[w].mine /\ s.events = wk[w].events
        /\ s.token = wk[w].token /\ s.save = wk[w].save /\ s.pc = "notified"
    BY <1>0 DEF WorkerState
  <2> HIDE DEF s
  <2> QED
    BY <1>0, <2>1, <2>2, KeepFeed
<1>2. CASE Consume(w)
  <2> DEFINE s == [wk[w] EXCEPT !.pc = "claiming",
                                !.resume = run.status \in {"waiting_human", "partial"}]
  <2>1. /\ wk' = [wk EXCEPT ![w] = s] \/ wk' = [wk EXCEPT ![w] = IdleWorker]
        /\ UNCHANGED <<run, log, tx, env>>
    BY <1>2 DEF Consume
  <2>2. /\ s.view = wk[w].view /\ s.mine = wk[w].mine /\ s.events = wk[w].events
        /\ s.token = wk[w].token /\ s.save = wk[w].save /\ s.pc = "claiming"
    BY <1>0 DEF WorkerState
  <2> HIDE DEF s
  <2>3. CASE wk' = [wk EXCEPT ![w] = s]
    BY <1>0, <2>1, <2>2, <2>3, KeepFeed
  <2>4. CASE wk' = [wk EXCEPT ![w] = IdleWorker]
    BY <1>a, <2>1, <2>4, LocalFeed
  <2> QED
    BY <2>1, <2>3, <2>4
<1>3. CASE Claim(w)
  <2>1. UNCHANGED <<log, tx, env>>
    BY <1>3 DEF Claim
  <2>2. CASE ~Claimable
    <3>1. run' = run /\ wk' = [wk EXCEPT ![w] = IdleWorker]
      BY <1>3, <2>2 DEF Claim
    <3> QED
      BY <1>a, <2>1, <3>1, LocalFeed
  <2>3. CASE Claimable
    <3> DEFINE s == [wk[w] EXCEPT !.pc = "begin", !.token = run.token + 1]
    <3>1. /\ run' = [run EXCEPT !.dispatch = "claimed", !.owner = w, !.token = @ + 1, !.lease = "granted"]
          /\ wk' = [wk EXCEPT ![w] = s]
      BY <1>0, <1>3, <2>3 DEF Claim
    <3>2. /\ run.dispatch = "queued" /\ run.status \in {"pending", "waiting_human"}
          /\ Len(log) \in Nat
      BY <1>0, <2>3, LogTypes DEF Claimable
    <3>3. /\ run'.dispatch = "claimed" /\ run'.owner = w /\ run'.status = run.status
          /\ run'.cancel = run.cancel /\ run'.privacy = run.privacy /\ run'.sv = run.sv
          /\ run'.seq = run.seq
      BY <1>0, <3>1 DEF Row
    <3>4. /\ s.view = wk[w].view /\ s.mine = wk[w].mine /\ s.events = wk[w].events
          /\ s.pc = "begin" /\ s.save = wk[w].save
      BY <1>0 DEF WorkerState
    <3> HIDE DEF s
    <3>5. wk'[w] = s /\ (\A v \in Workers \ {w} : wk'[v] = wk[v]) /\ wk[w].pc = "claiming"
      BY <1>0, <1>3, <3>1 DEF Claim
    <3>6. Mild
      BY <2>1, <3>2, <3>3 DEF Mild, Advancing
    <3>7. Calm
      BY <3>3, <3>4, <3>5 DEF Calm, Holds
    <3>8. Spares
      BY <3>2, <3>3, SparesBusy
    <3>9. RowFits'
      BY <1>0, <2>1, <3>2, <3>3 DEF RowFits, EndFits
    <3>10. Shows
      BY <2>1, <3>3 DEF Shows, Summary, Announced
    <3>11. Recent(wk[w].view)'
      <4>1. PICK v \in Row : v = wk[w].view
        BY <1>0 DEF WorkerState
      <4>2. Seen(v) /\ Recent(v)
        BY <1>0, <4>1 DEF FeedInv, Ledger, History, WorkerFits
      <4>3. Recent(v)'
        BY <1>0, <3>6, <4>2, RecentKept
      <4> QED
        BY <3>4, <3>5, <4>1, <4>3 DEF Recent
    <3>12. Voice(wk[w])' /\ AtWork(w)'
      BY <1>0, <3>4, <3>5 DEF Voice, AtWork
    <3> QED
      BY <2>1, <3>5, <3>6, <3>7, <3>8, <3>9, <3>10, <3>11, <3>12, Preserve
  <2> QED
    BY <2>2, <2>3
<1> QED
  BY <1>1, <1>2, <1>3

\* The start of an execution: run_started is announced if the run was not running.
LEMMA ExecuteFeed == ASSUME FeedInv, Ledger', NEW w \in Workers, Execute(w) PROVE FeedInv' /\ Shows
<1> DEFINE fresh == [run EXCEPT !.fallback = FALSE]
           voided == [fresh EXCEPT !.cancel = TRUE]
           started == [fresh EXCEPT !.status = "running", !.sv = @ + 1]
           a == Append1(started, <<>>, "run_started")
           s == [wk[w] EXCEPT !.pc = "beat", !.view = run, !.mine = a.mine, !.events = a.events]
<1>0. /\ LedgerInv /\ run \in Row /\ wk[w] \in WorkerState /\ wk[w].events = <<>>
      /\ UNCHANGED <<run, log, tx, env>>
      /\ "running" \in Statuses /\ "run_started" \in EventTypes /\ Recent(run)
  BY WorkerFacts, RunRecent DEF FeedInv, Ledger, Execute, Quiet, Statuses, EventTypes
<1>1. \A row \in {run, fresh, voided} : row.sv = run.sv /\ row.owner = run.owner
  BY <1>0 DEF Row
<1>2. started \in Row /\ started.dispatch = run.dispatch /\ started.owner = run.owner
      /\ started.status = "running" /\ started.sv = run.sv + 1
  <2>1. PICK n \in Nat : n = run.sv + 1
    BY <1>0 DEF Row
  <2>2. started = [run EXCEPT !.fallback = FALSE, !.status = "running", !.sv = n]
    BY <1>0, <2>1 DEF Row
  <2> HIDE DEF started
  <2> QED
    BY <1>0, <2>1, <2>2 DEF Row
<1>3. \/ \E row \in {run, fresh, voided}, o \in {"failed", "cancelled", "pending"} : Result(w, row, o)
      \/ /\ wk' = [wk EXCEPT ![w] = [wk[w] EXCEPT !.pc = "beat", !.view = run, !.mine = fresh]]
         /\ run.status = "running"
      \/ wk' = [wk EXCEPT ![w] = s] /\ CanWrite(w, fresh) /\ run.status # "running"
  <2> HIDE DEF voided
  <2> QED
    BY <1>0 DEF Execute, voided
<1>4. CanWrite(w, fresh) => ~run.cancel
  BY <1>0 DEF CanWrite, Row
<1> HIDE DEF fresh, voided
<1>5. CASE \E row \in {run, fresh, voided}, o \in {"failed", "cancelled", "pending"} : Result(w, row, o)
  <2>1. PICK row \in {run, fresh, voided}, o \in {"failed", "cancelled", "pending"} : Result(w, row, o)
    BY <1>5
  <2> DEFINE u == [wk[w] EXCEPT !.pc = "settle", !.view = run, !.mine = row, !.outcome = o]
  <2>2. wk' = [wk EXCEPT ![w] = u]
    BY <2>1 DEF Result
  <2>3. u.view = run /\ u.mine = row /\ u.events = <<>> /\ u.pc = "settle"
    BY <1>0 DEF WorkerState
  <2> HIDE DEF u
  <2> QED
    BY <1>0, <1>1, <2>2, <2>3, ReloadFeed
<1>6. CASE /\ wk' = [wk EXCEPT ![w] = [wk[w] EXCEPT !.pc = "beat", !.view = run, !.mine = fresh]]
           /\ run.status = "running"
  <2> DEFINE u == [wk[w] EXCEPT !.pc = "beat", !.view = run, !.mine = fresh]
  <2>1. wk' = [wk EXCEPT ![w] = u]
    BY <1>6
  <2>2. u.view = run /\ u.mine = fresh /\ u.events = <<>> /\ u.token = wk[w].token
    BY <1>0 DEF WorkerState
  <2> HIDE DEF u
  <2> QED
    BY <1>0, <1>1, <1>6, <2>1, <2>2, ReloadFeed
<1>7. CASE wk' = [wk EXCEPT ![w] = s] /\ CanWrite(w, fresh) /\ run.status # "running"
  <2> HIDE DEF started
  <2>1. Len(a.events) = 1 /\ a.events[1].type = "run_started" /\ a.mine = [started EXCEPT !.seq = @ + 1]
    BY <1>0, <1>2, FirstEvent
  <2>2. /\ a.mine.dispatch = run.dispatch /\ a.mine.owner = run.owner /\ a.mine.status = "running"
        /\ a.mine.sv = run.sv + 1
    BY <1>2, <2>1 DEF Row
  <2>3. a.events = <<[type |-> "run_started", sv |-> started.sv]>>
    BY DEF Append1
  <2>4. a.events[1].sv = run.sv + 1
    BY <1>2, <2>3
  <2> HIDE DEF a
  <2>5. s.view = run /\ s.mine = a.mine /\ s.events = a.events /\ s.pc = "beat"
    BY <1>0 DEF WorkerState
  <2> HIDE DEF s
  <2>6. s.events # <<>>
    <3>1. Len(<<>>) = 0 /\ 0 # 1
      OBVIOUS
    <3> QED
      BY <2>1, <2>5, <3>1, Zenon
  <2>7. Voice(s)
    <3>1. run.sv \in Nat
      BY <1>0 DEF Row
    <3>2. Feed!StatusOf(s.events[Len(s.events)].type) = s.mine.status
      BY <2>1, <2>2, <2>5 DEF Feed!StatusOf
    <3>3. \A i \in 1..Len(s.events) : i = 1
      <4>1. Len(s.events) = 1
        BY <2>1, <2>5, Zenon
      <4> QED
        BY <4>1
    <3>4. \A i \in 1..Len(s.events) :
            /\ s.view.sv <= s.events[i].sv /\ s.events[i].sv <= s.mine.sv
            /\ s.save = {} => s.view.sv < s.events[i].sv
            /\ s.events[i].type # "cancelled" => ~s.view.cancel
      BY <1>4, <1>7, <2>2, <2>4, <2>5, <3>1, <3>3
    <3>5. s.mine.sv > s.view.sv
      BY <2>2, <2>5, <3>1
    <3> QED
      BY <1>7, <2>2, <2>5, <2>6, <3>1, <3>2, <3>4, <3>5 DEF Voice
  <2> QED
    BY <1>0, <1>7, <2>5, <2>6, <2>7, LocalFeed
<1> QED
  BY <1>3, <1>5, <1>6, <1>7

\* A worker that gives up with what it holds
LEMMA GiveUpFeed ==
    ASSUME FeedInv, Ledger', NEW w \in Workers, wk[w].pc # "commit", NEW o,
           o = "failed" \/ wk[w].pc = "node",
           wk' = [wk EXCEPT ![w] = [wk[w] EXCEPT !.pc = "settle", !.outcome = o]],
           UNCHANGED <<run, log, tx, env>>
    PROVE  FeedInv' /\ Shows
<1> DEFINE s == [wk[w] EXCEPT !.pc = "settle", !.outcome = o]
<1>1. wk[w] \in WorkerState
  BY WorkerFacts DEF FeedInv, Ledger
<1>2. /\ s.view = wk[w].view /\ s.mine = wk[w].mine /\ s.events = wk[w].events
      /\ s.save = wk[w].save /\ s.token = wk[w].token /\ s.pc = "settle" /\ s.outcome = o
  BY <1>1 DEF WorkerState
<1>3. wk' = [wk EXCEPT ![w] = s]
  OBVIOUS
<1> HIDE DEF s
<1> QED
  BY <1>2, <1>3, KeepFeed

\* Before a later node
LEMMA NextNodeFeed == ASSUME FeedInv, Ledger', NEW w \in Workers, NextNode(w) PROVE FeedInv' /\ Shows
<1> DEFINE s == [wk[w] EXCEPT !.pc = "settle", !.outcome = "cancelled", !.mine.cancel = TRUE]
           b == [wk[w] EXCEPT !.pc = "beat"]
<1>0. /\ wk[w] \in WorkerState /\ wk[w].mine \in Row /\ wk[w].pc = "node"
      /\ UNCHANGED <<run, log, tx, env>>
  BY WorkerFacts DEF FeedInv, Ledger, NextNode
<1>1. \/ \E o \in {"failed", "pending"} : wk' = [wk EXCEPT ![w] = [wk[w] EXCEPT !.pc = "settle", !.outcome = o]]
      \/ wk' = [wk EXCEPT ![w] = s]
      \/ wk' = [wk EXCEPT ![w] = b]
  BY <1>0 DEF NextNode
<1>2. /\ b.view = wk[w].view /\ b.mine = wk[w].mine /\ b.events = wk[w].events
      /\ b.save = wk[w].save /\ b.token = wk[w].token /\ b.pc = "beat"
  BY <1>0 DEF WorkerState
<1>3. /\ s.view = wk[w].view /\ s.mine = [wk[w].mine EXCEPT !.cancel = TRUE]
      /\ s.events = wk[w].events /\ s.save = wk[w].save /\ s.token = wk[w].token
      /\ s.pc = "settle"
  BY <1>0 DEF WorkerState
<1>4. /\ s.mine.sv = wk[w].mine.sv /\ s.mine.owner = wk[w].mine.owner
      /\ s.mine.dispatch = wk[w].mine.dispatch /\ s.mine.status = wk[w].mine.status
  <2> HIDE DEF s
  <2> QED
    BY <1>0, <1>3 DEF Row
<1> HIDE DEF s, b
<1>5. CASE wk' = [wk EXCEPT ![w] = s]
  BY <1>0, <1>3, <1>4, <1>5, KeepFeed
<1>6. CASE wk' = [wk EXCEPT ![w] = b]
  BY <1>0, <1>2, <1>6, KeepFeed
<1> QED
  BY <1>0, <1>1, <1>5, <1>6, GiveUpFeed

\* The heartbeat: a commit, or nothing.
LEMMA HeartbeatFeed == ASSUME FeedInv, Ledger', NEW w \in Workers, Heartbeat(w) PROVE FeedInv' /\ Shows
<1>0. wk[w] \in WorkerState /\ wk[w].pc \in {"beat", "exec"} /\ UNCHANGED <<env, tx>>
  BY WorkerFacts DEF FeedInv, Ledger, Heartbeat
<1>1. CASE Renewable(w)
  <2> DEFINE p == IF wk[w].pc = "beat" THEN "work" ELSE "save"
             s == [wk[w] EXCEPT !.pc = p, !.view = NewRow("held"), !.mine = NewRow("held"),
                                !.events = <<>>, !.save = {}]
  <2>1. Commit(w, Flush(wk[w]), s)
    BY <1>0, <1>1 DEF Heartbeat
  <2>2. /\ s.view = NewRow("held") /\ s.mine = NewRow("held") /\ s.events = <<>>
        /\ s.token = wk[w].token /\ s.pc = p
    BY <1>0 DEF WorkerState
  <2> HIDE DEF s
  <2> QED
    BY <1>0, <1>1, <2>1, <2>2, CommitFeed
<1>2. CASE ~Renewable(w)
  <2>1. /\ wk' = [wk EXCEPT ![w] = [wk[w] EXCEPT !.pc = "settle", !.outcome = "failed"]]
        /\ UNCHANGED <<run, log>>
    BY <1>0, <1>2 DEF Heartbeat
  <2> QED
    BY <1>0, <2>1, GiveUpFeed
<1> QED
  BY <1>1, <1>2

\* Where the worker goes once a node is behind it
LEMMA OnwardGoes == ASSUME NEW s \in WorkerState PROVE Onward(s).pc \in {"node", "settle"}
BY DEF Onward, WorkerState

\* While a node runs
LEMMA WorkFeed ==
    ASSUME FeedInv, Ledger', NEW w \in Workers,
           Work(w) \/ NodeCommits(w) \/ NodeFails(w) \/ OptionalFails(w)
    PROVE  FeedInv' /\ Shows
<1>0. /\ wk[w] \in WorkerState /\ wk[w].events = <<>> /\ wk[w].pc \in {"work", "exec"}
      /\ UNCHANGED <<run, log, tx, env>> /\ AtWork(w)
  BY WorkerFacts DEF FeedInv, Ledger, Current, Quiet, Work, NodeCommits, NodeFails, OptionalFails
<1>1. CASE Work(w) \/ NodeCommits(w)
  <2> DEFINE x == [wk[w] EXCEPT !.pc = "exec", !.view = run, !.mine = run]
             y == [wk[w] EXCEPT !.pc = "settle", !.view = run, !.mine = run, !.outcome = "failed"]
             z == [wk[w] EXCEPT !.view = run, !.mine = run]
  <2>1. \E s \in {x, y, z} : wk' = [wk EXCEPT ![w] = s]
    BY <1>0, <1>1 DEF Work, Result, NodeCommits
  <2>2. \A s \in {x, y, z} : s.view = run /\ s.mine = run /\ s.events = <<>> /\ s.token = wk[w].token
    BY <1>0 DEF WorkerState
  <2>3. Holds(w) /\ ~run.cancel => run.status = "running"
    BY <1>0 DEF AtWork
  <2> HIDE DEF x, y, z
  <2> QED
    BY <1>0, <2>1, <2>2, <2>3, ReloadFeed
<1>2. CASE NodeFails(w)
  BY <1>0, <1>2, GiveUpFeed DEF NodeFails
<1>3. CASE OptionalFails(w)
  <2> DEFINE s == [wk[w] EXCEPT !.outcome = "partial"]
  <2>0. wk[w].pc = "exec"
    BY <1>3 DEF OptionalFails
  <2>1. wk' = [wk EXCEPT ![w] = Onward(s)]
    BY <1>3 DEF OptionalFails
  <2>2. s \in WorkerState
    BY <1>0 DEF WorkerState, Terminal
  <2>3. /\ s.view = wk[w].view /\ s.mine = wk[w].mine /\ s.events = wk[w].events
        /\ s.save = wk[w].save /\ s.token = wk[w].token
    BY <1>0 DEF WorkerState
  <2> HIDE DEF s
  <2>4. PICK x : x = Onward(s)
    OBVIOUS
  <2>5. /\ x.view = wk[w].view /\ x.mine = wk[w].mine /\ x.events = wk[w].events
        /\ x.save = wk[w].save /\ x.token = wk[w].token /\ x.pc \in {"node", "settle"}
    BY <2>2, <2>3, <2>4, OnwardKeeps, OnwardGoes
  <2> QED
    BY <1>0, <2>0, <2>1, <2>4, <2>5, KeepFeed
<1> QED
  BY <1>1, <1>2, <1>3

\* The node boundary
LEMMA SaveNodeFeed == ASSUME FeedInv, Ledger', NEW w \in Workers, SaveNode(w) PROVE FeedInv' /\ Shows
<1> DEFINE k == {<<wk[w].token, wk[w].node + 1>>}
           s == [wk[w] EXCEPT !.view = run, !.mine = run, !.save = k]
           a == Append1(run, <<>>, "step_changed")
           d == [s EXCEPT !.pc = "settle", !.outcome = "pending"]
           h == [s EXCEPT !.pc = "pause"]
           n == [s EXCEPT !.mine = a.mine, !.events = a.events]
<1>0. /\ LedgerInv /\ run \in Row /\ wk[w] \in WorkerState /\ wk[w].events = <<>> /\ wk[w].pc = "save"
      /\ UNCHANGED <<run, log, tx, env>> /\ AtWork(w) /\ Recent(run)
      /\ "step_changed" \in EventTypes
  BY WorkerFacts, RunRecent DEF FeedInv, Ledger, Current, Quiet, SaveNode, EventTypes
<1>1. \/ Result(w, run, "failed")
      \/ CanWrite(w, run) /\ \E x \in {d, h, Onward(n)} : wk' = [wk EXCEPT ![w] = x]
  BY DEF SaveNode
<1>2. CASE Result(w, run, "failed")
  <2> DEFINE u == [wk[w] EXCEPT !.pc = "settle", !.view = run, !.mine = run, !.outcome = "failed"]
  <2>1. wk' = [wk EXCEPT ![w] = u]
    BY <1>2 DEF Result
  <2>2. u.view = run /\ u.mine = run /\ u.events = <<>> /\ u.pc = "settle"
    BY <1>0 DEF WorkerState
  <2> HIDE DEF u
  <2> QED
    BY <1>0, <2>1, <2>2, ReloadFeed
<1>3. CASE CanWrite(w, run) /\ \E x \in {d, h, Onward(n)} : wk' = [wk EXCEPT ![w] = x]
  <2>1. ~run.cancel /\ run.status = "running"
    BY <1>0, <1>3 DEF CanWrite, AtWork, Holds
  <2>2. k \in SUBSET (Nat \X Nat) /\ k # {}
    BY <1>0 DEF WorkerState
  <2> HIDE DEF k
  <2>3. s \in WorkerState
    BY <1>0, <2>2, WorkerExcept, Zenon
  <2>4. s.view = run /\ s.mine = run /\ s.events = <<>> /\ s.save = k
    BY <1>0 DEF WorkerState
  <2> HIDE DEF s
  <2>5. \A x \in {d, h} : x.view = run /\ x.mine = run /\ x.events = <<>> /\ x.pc \in {"settle", "pause"}
    BY <2>3, <2>4 DEF WorkerState
  <2>6. Len(a.events) = 1 /\ a.events[1].type = "step_changed" /\ a.mine = [run EXCEPT !.seq = @ + 1]
    BY <1>0, FirstEvent
  <2>7. /\ a.mine.sv = run.sv /\ a.mine.owner = run.owner /\ a.mine.dispatch = run.dispatch
        /\ a.mine.status = run.status
    BY <1>0, <2>6 DEF Row
  <2>8. a.mine \in Row /\ a.events \in Seq(Event)
    BY <1>0, RunKin, OneEvent
  <2>9. a.events[1].sv = run.sv
    <3>1. a.events = <<[type |-> "step_changed", sv |-> run.sv]>>
      BY DEF Append1
    <3> QED
      BY <3>1
  <2> HIDE DEF a
  <2>10. n \in WorkerState
    BY <2>3, <2>8, WorkerExcept, Zenon
  <2>11. n.view = run /\ n.mine = a.mine /\ n.events = a.events /\ n.save = k
    BY <2>3, <2>4 DEF WorkerState
  <2> HIDE DEF d, h, n
  <2>12. CASE \E x \in {d, h} : wk' = [wk EXCEPT ![w] = x]
    <3>1. PICK x \in {d, h} : wk' = [wk EXCEPT ![w] = x]
      BY <2>12
    <3> QED
      BY <1>0, <2>5, <3>1, ReloadFeed
  <2>13. CASE wk' = [wk EXCEPT ![w] = Onward(n)]
    <3>1. PICK x : x = Onward(n)
      OBVIOUS
    <3>2. /\ x.view = run /\ x.mine = a.mine /\ x.events = a.events /\ x.save # {}
          /\ x.pc \in {"node", "settle"}
      BY <2>2, <2>10, <2>11, <3>1, OnwardKeeps, OnwardGoes
    <3>3. Len(x.events) = 1
      BY <2>6, <3>2, Zenon
    <3>4. x.events # <<>>
      <4>1. Len(<<>>) = 0 /\ 0 # 1
        OBVIOUS
      <4> QED
        BY <3>3, <4>1, Zenon
    <3>5. Voice(x)
      <4>1. run.sv \in Nat
        BY <1>0 DEF Row
      <4>2. x.events[1].type = "step_changed" /\ x.events[1].sv = run.sv
        BY <2>6, <2>9, <3>2
      <4>3. Feed!StatusOf(x.events[Len(x.events)].type) = x.mine.status
        BY <2>1, <2>7, <3>2, <3>3, <4>2 DEF Feed!StatusOf
      <4>4. \A i \in 1..Len(x.events) : i = 1
        BY <3>3
      <4>5. \A i \in 1..Len(x.events) :
              /\ x.view.sv <= x.events[i].sv /\ x.events[i].sv <= x.mine.sv
              /\ x.events[i].type # "cancelled" => ~x.view.cancel
        BY <2>1, <2>7, <3>2, <4>1, <4>2, <4>4
      <4> QED
        BY <2>1, <2>7, <3>2, <3>4, <4>1, <4>3, <4>5 DEF Voice
    <3> QED
      BY <1>0, <2>13, <3>1, <3>2, <3>4, <3>5, LocalFeed
  <2> QED
    BY <1>3, <2>12, <2>13
<1> QED
  BY <1>1, <1>2, <1>3

\* pause_for_human, up to its commit
LEMMA PauseFeed == ASSUME FeedInv, Ledger', NEW w \in Workers, PauseForHuman(w) PROVE FeedInv' /\ Shows
<1> DEFINE row == Closed(wk[w].mine, "waiting_human")
           a == Append1(row, wk[w].events, "waiting_human")
           s == [wk[w] EXCEPT !.pc = "commit", !.mine = a.mine, !.events = a.events]
<1>0. /\ wk[w] \in WorkerState /\ wk[w].mine \in Row /\ wk[w].pc = "pause"
      /\ "waiting_human" \in Statuses /\ "waiting_human" \in EventTypes
      /\ UNCHANGED <<run, log, tx, env>>
  BY WorkerFacts DEF FeedInv, Ledger, PauseForHuman, Statuses, EventTypes
<1>1. \/ wk' = [wk EXCEPT ![w] = s] /\ CanWrite(w, wk[w].mine)
      \/ wk' = [wk EXCEPT ![w] = [wk[w] EXCEPT !.pc = "settle", !.outcome = "failed"]]
  BY <1>0 DEF PauseForHuman
<1>2. CASE wk' = [wk EXCEPT ![w] = s] /\ CanWrite(w, wk[w].mine)
  <2>1. ~wk[w].mine.cancel
    BY <1>2 DEF CanWrite
  <2>2. /\ row \in Row /\ row.dispatch = "finished" /\ row.status = "waiting_human"
        /\ row.sv = wk[w].mine.sv + 1
    BY <1>0, ClosedFields, ClosedNumbers
  <2> HIDE DEF row
  <2>3. PICK e \in Event, m \in Row :
         /\ Append1(row, wk[w].events, "waiting_human").events = Append(wk[w].events, e)
         /\ Append1(row, wk[w].events, "waiting_human").mine = m
         /\ e.type = "waiting_human" /\ e.sv = m.sv /\ m.sv = row.sv
         /\ m.status = row.status /\ m.dispatch = row.dispatch
    BY <1>0, <2>2, ClosingFields
  <2>4. PICK u : u = [wk[w] EXCEPT !.pc = "commit", !.mine = m, !.events = Append(wk[w].events, e)]
    OBVIOUS
  <2>5. wk' = [wk EXCEPT ![w] = u]
    BY <1>2, <2>3, <2>4
  <2>6. /\ u.pc = "commit" /\ u.view = wk[w].view /\ u.save = wk[w].save
        /\ u.mine = m /\ u.events = Append(wk[w].events, e)
    BY <1>0, <2>4 DEF WorkerState
  <2> QED
    BY <1>0, <2>1, <2>2, <2>3, <2>5, <2>6, CloseFeed
<1> QED
  BY <1>0, <1>1, <1>2, GiveUpFeed

\* finish, finish_after_invalid_boundary and release_for_drain, up to their commit
LEMMA SettleFeed == ASSUME FeedInv, Ledger', NEW w \in Workers, Settle(w) PROVE FeedInv' /\ Shows
<1> DEFINE o == wk[w].outcome
           fin == [Closed(wk[w].mine, o) EXCEPT !.fallback = FALSE]
           void == Closed(wk[w].mine, "cancelled")
           x == [wk[w] EXCEPT !.pc = "commit", !.mine = Append1(fin, wk[w].events, o).mine,
                              !.events = Append1(fin, wk[w].events, o).events]
           y == [wk[w] EXCEPT !.pc = "commit",
                              !.mine = Append1(void, wk[w].events, "cancelled").mine,
                              !.events = Append1(void, wk[w].events, "cancelled").events]
           z == [wk[w] EXCEPT !.pc = "commit", !.mine.lease = "released"]
<1>0. /\ wk[w] \in WorkerState /\ wk[w].mine \in Row /\ wk[w].pc = "settle"
      /\ wk[w].outcome \in Terminal \cup {"pending"}
      /\ "cancelled" \in Terminal /\ "cancelled" \in Statuses /\ "cancelled" \in EventTypes
      /\ UNCHANGED <<env, tx>>
  BY WorkerFacts DEF FeedInv, Ledger, Settle, Statuses, EventTypes, Terminal, WorkerState
<1>1. \/ Abandon(w)
      \/ /\ UNCHANGED <<run, log>>
         /\ \/ o = "pending" /\ wk' = [wk EXCEPT ![w] = z]
            \/ wk' = [wk EXCEPT ![w] = y]
            \/ CanWrite(w, wk[w].mine) /\ o # "pending" /\ wk' = [wk EXCEPT ![w] = x]
  BY <1>0 DEF Settle
<1>2. CASE Abandon(w)
  BY <1>0, <1>2, AbandonFeed
<1>3. CASE UNCHANGED <<run, log>> /\ o = "pending" /\ wk' = [wk EXCEPT ![w] = z]
  <2>1. PICK m : m = [wk[w].mine EXCEPT !.lease = "released"]
    OBVIOUS
  <2>2. /\ m.sv = wk[w].mine.sv /\ m.owner = wk[w].mine.owner
        /\ m.dispatch = wk[w].mine.dispatch /\ m.status = wk[w].mine.status
    BY <1>0, <2>1 DEF Row
  <2>3. z = [wk[w] EXCEPT !.pc = "commit", !.mine = m]
    BY <1>0, <2>1 DEF WorkerState
  <2>4. /\ z.view = wk[w].view /\ z.mine = m /\ z.events = wk[w].events /\ z.token = wk[w].token
        /\ z.save = wk[w].save /\ z.pc = "commit"
    BY <1>0, <2>3 DEF WorkerState
  <2> HIDE DEF z
  <2> QED
    BY <1>0, <1>3, <2>2, <2>4, KeepFeed
<1>4. CASE UNCHANGED <<run, log>> /\ wk' = [wk EXCEPT ![w] = y]
  <2>1. /\ void \in Row /\ void.dispatch = "finished" /\ void.status = "cancelled"
        /\ void.sv = wk[w].mine.sv + 1
    BY <1>0, ClosedFields, ClosedNumbers
  <2> HIDE DEF void
  <2>2. PICK e \in Event, m \in Row :
         /\ Append1(void, wk[w].events, "cancelled").events = Append(wk[w].events, e)
         /\ Append1(void, wk[w].events, "cancelled").mine = m
         /\ e.type = "cancelled" /\ e.sv = m.sv /\ m.sv = void.sv
         /\ m.status = void.status /\ m.dispatch = void.dispatch
    <3>1. void \in Row /\ "cancelled" \in EventTypes
      BY <1>0, <2>1
    <3> QED
      BY <3>1, ClosingFields
  <2>3. PICK u : u = [wk[w] EXCEPT !.pc = "commit", !.mine = m, !.events = Append(wk[w].events, e)]
    OBVIOUS
  <2>4. wk' = [wk EXCEPT ![w] = u]
    BY <1>4, <2>2, <2>3
  <2>5. /\ u.pc = "commit" /\ u.view = wk[w].view /\ u.save = wk[w].save
        /\ u.mine = m /\ u.events = Append(wk[w].events, e)
    BY <1>0, <2>3 DEF WorkerState
  <2>6. /\ u.mine.dispatch = "finished" /\ u.mine.sv = wk[w].mine.sv + 1 /\ e.sv = u.mine.sv
        /\ e.type = u.mine.status /\ e.type \in Terminal \cup {"waiting_human"}
        /\ e.type = "cancelled"
    BY <1>0, <2>1, <2>2, <2>5
  <2> QED
    BY <1>0, <1>4, <2>4, <2>5, <2>6, CloseFeed
<1>5. CASE UNCHANGED <<run, log>> /\ CanWrite(w, wk[w].mine) /\ o # "pending" /\ wk' = [wk EXCEPT ![w] = x]
  <2>1. ~wk[w].mine.cancel
    BY <1>5 DEF CanWrite
  <2>2. o \in Terminal /\ o \in Statuses /\ o \in EventTypes
    BY <1>0, <1>5 DEF Statuses, EventTypes
  <2> HIDE DEF o
  <2>3. PICK r \in Row : r = Closed(wk[w].mine, o)
    BY <1>0, <2>2, ClosedFields
  <2>4. r.dispatch = "finished" /\ r.status = o /\ r.sv = wk[w].mine.sv + 1
    BY <1>0, <2>2, <2>3, ClosedFields, ClosedNumbers
  <2>5. /\ fin \in Row /\ fin.dispatch = "finished" /\ fin.status = o
        /\ fin.sv = wk[w].mine.sv + 1
    BY <2>3, <2>4 DEF Row
  <2> HIDE DEF fin
  <2>6. PICK e \in Event, m \in Row :
         /\ Append1(fin, wk[w].events, o).events = Append(wk[w].events, e)
         /\ Append1(fin, wk[w].events, o).mine = m
         /\ e.type = o /\ e.sv = m.sv /\ m.sv = fin.sv
         /\ m.status = fin.status /\ m.dispatch = fin.dispatch
    BY <1>0, <2>2, <2>5, ClosingFields
  <2>7. PICK u : u = [wk[w] EXCEPT !.pc = "commit", !.mine = m, !.events = Append(wk[w].events, e)]
    OBVIOUS
  <2>8. wk' = [wk EXCEPT ![w] = u]
    BY <1>5, <2>6, <2>7
  <2>9. /\ u.pc = "commit" /\ u.view = wk[w].view /\ u.save = wk[w].save
        /\ u.mine = m /\ u.events = Append(wk[w].events, e)
    BY <1>0, <2>7 DEF WorkerState
  <2>10. /\ u.mine.dispatch = "finished" /\ u.mine.sv = wk[w].mine.sv + 1 /\ e.sv = u.mine.sv
         /\ e.type = u.mine.status /\ e.type \in Terminal \cup {"waiting_human"}
    BY <2>2, <2>5, <2>6, <2>9
  <2> QED
    BY <1>0, <1>5, <2>1, <2>8, <2>9, <2>10, CloseFeed
<1> QED
  BY <1>1, <1>2, <1>3, <1>4, <1>5

\* The commit that ends the worker's session
LEMMA CommitResultFeed == ASSUME FeedInv, Ledger', NEW w \in Workers, CommitResult(w) PROVE FeedInv' /\ Shows
<1>1. /\ IdleWorker.view = NewRow("held") /\ IdleWorker.mine = NewRow("held")
      /\ IdleWorker.events = <<>> /\ IdleWorker.pc = "idle"
  BY DEF IdleWorker
<1> QED
  BY <1>1, CommitFeed DEF CommitResult

-----------------------------------------------------------------------------
(* The refinement. *)

\* The invariant holds initially, and the observers see a new row and no callback.
LEMMA FeedInitially == ASSUME Init PROVE FeedInv /\ Feed!Init
<1>1. Ledger
  BY Initially
<1>2. PICK mode \in StartModes : run = NewRow(mode)
  BY DEF Init
<1>3. mode \in {"held", "auto"}
  BY ConstantsAssumption
<1>4. /\ log = <<>> /\ env.due = FALSE /\ (\A w \in Workers : wk[w] = IdleWorker)
      /\ \A c \in Sessions : tx[c] = IdleTx
  BY DEF Init
<1>5. \A m : /\ NewRow(m).status = "pending" /\ NewRow(m).sv = 1 /\ NewRow(m).seq = 0
             /\ NewRow(m).token = 0 /\ NewRow(m).privacy = "active"
             /\ NewRow(m).dispatch \in {"held", "queued"}
             /\ NewRow("held").dispatch = "held"
  BY DEF NewRow
<1>6. RowFits
  BY <1>2, <1>4, <1>5 DEF RowFits, EndFits
<1>7. Recent(NewRow("held"))
  BY <1>2, <1>5 DEF Recent, EndFits
<1>8. \A w \in Workers : Recent(wk[w].view) /\ Voice(wk[w]) /\ AtWork(w)
  BY <1>4, <1>7, IdleCurrent DEF AtWork
<1>9. \A c \in Sessions : Recent(tx[c].view) /\ Asks(tx[c]) /\ Alone(tx[c])
  BY <1>4, <1>7, IdleCurrent
<1>10. tx[Scanner].op \in {"none", "complete_purge"}
  BY <1>4, IdleCurrent DEF Sessions
<1>11. FeedInv
  BY <1>1, <1>6, <1>7, <1>8, <1>9, <1>10 DEF FeedInv, Current
<1>12. Feed!Init
  <2>1. Summary = [status |-> "pending", sv |-> 1, seq |-> 0, privacy |-> "active"]
    BY <1>2, <1>5 DEF Summary
  <2>2. Len(<<>>) = 0 /\ 1..0 = {}
    OBVIOUS
  <2>3. Announced = <<>>
    BY <1>4, <2>2 DEF Announced
  <2> QED
    BY <2>1, <2>3 DEF Feed!Init
<1> QED
  BY <1>11, <1>12

\* Every step keeps the invariant and is a step of the feed, or nothing its observers see.
LEMMA FeedNext ==
    ASSUME OneAtATime, FeedInv, [Next]_vars
    PROVE  FeedInv' /\ Shows
<1>1. Ledger'
  BY EveryStep DEF FeedInv
<1>2. CASE UNCHANGED vars
  BY <1>1, <1>2, QuietStepFeed DEF vars
<1>3. ASSUME NEW c \in Clients, Api(c) PROVE FeedInv' /\ Shows
  BY <1>1, <1>3, ApiFeed DEF Api
<1>4. ASSUME NEW c \in Sessions, TxCommit(c) PROVE FeedInv' /\ Shows
  BY <1>1, <1>4, TxCommitFeed
<1>5. CASE CompletePurgeBegin \/ Approve \/ Reject
  BY <1>1, <1>5, CompletePurgeFeed, DecisionFeed
<1>6. ASSUME NEW w \in Workers, Worker(w) PROVE FeedInv' /\ Shows
  BY <1>1, <1>6, ClaimFeed, ExecuteFeed, NextNodeFeed, HeartbeatFeed, WorkFeed, SaveNodeFeed,
     PauseFeed, SettleFeed, CommitResultFeed DEF Worker
<1>7. CASE Reconcile
  BY <1>1, <1>7, ReconcileFeed
<1>8. CASE Environment
  BY <1>1, <1>8, EnvironmentFeed
<1> QED
  BY <1>2, <1>3, <1>4, <1>5, <1>6, <1>7, <1>8 DEF Next

\* Whatever sessions the workers, the scan and the callers of cancel, approve and reject
\* have open, stale ones included, GET /agent-runs and the callbacks of each commit change
\* together as RunFeed promises: every callback carries a version the row has really had,
\* a run that ends says so last, an outcome is only announced again or reopened, and
\* withdrawn data does not come back.  Requests that start, withdraw or reopen the run
\* come one at a time and no deadline ends a run that is being started; the code of
\* start, purge and retry, which reads the row without a lock, keeps it only then.
THEOREM FeedImplemented == ASSUME OneAtATime PROVE Spec => ImplementsFeed
<1>1. Init => FeedInv /\ Feed!Init
  BY FeedInitially
<1>2. FeedInv /\ [Next]_vars => FeedInv' /\ [Feed!Next]_<<Summary, Announced>>
  <2> SUFFICES ASSUME FeedInv, [Next]_vars PROVE FeedInv' /\ [Feed!Next]_<<Summary, Announced>>
    OBVIOUS
  <2>1. FeedInv' /\ Shows
    BY FeedNext
  <2> QED
    BY <2>1 DEF Shows
<1> QED
  BY <1>1, <1>2, PTL DEF Spec, ImplementsFeed, Feed!Spec

=============================================================================
