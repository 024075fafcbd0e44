--------------------------- MODULE CapacityProofs ---------------------------
(***************************************************************************)
(* Theorems about Capacity, for every finite set of runs, every number of  *)
(* clients and overlapping scans, every limit and every choice of faults.  *)
(*                                                                         *)
(* The argument: a request or a Worker that reports an end has counted the *)
(* callbacks of the row it loaded, and no row is finished without another  *)
(* callback (Current), so UNIQUE(run_id, event_seq) lets it end only a run *)
(* that nobody has ended since.  A scan that has ended a run has the row   *)
(* locked until it commits (Exclusive), on a run that was not finished     *)
(* (MovesAreOpen).                                                         *)
(***************************************************************************)
EXTENDS Capacity, TLAPS, FiniteSetTheorems

-----------------------------------------------------------------------------
(* The inductive invariant. *)

\* No row is finished without another callback: the row v loaded of run r.
Current(r, v) ==
    /\ v.seq <= rows[r].seq
    /\ v.seq = rows[r].seq /\ rows[r].st = "finished" => v.st = "finished"

\* A session has loaded a row its operation applies to.
SessionsFit ==
    \A s \in Clients :
        api[s].op # "none" =>
            Applies(api[s].op, api[s].view) /\ Current(api[s].run, api[s].view)

\* A run's row is locked by one scan at most.
Exclusive ==
    \A c, d \in Scanners : \A r \in Runs :
        scan[c].moved[r] # "no" /\ scan[d].moved[r] # "no" => c = d

\* A scan changes only runs that are not finished.
MovesAreOpen ==
    \A c \in Scanners : \A r \in Runs : scan[c].moved[r] # "no" => rows[r].st # "finished"

IInv == TypeOK /\ SessionsFit /\ Exclusive /\ MovesAreOpen

-----------------------------------------------------------------------------
(* The counters. *)

\* Counts of runs are numbers.
LEMMA CountType ==
    ASSUME NEW S \in SUBSET Runs
    PROVE  Cardinality(S) \in Nat
BY CapacityAssumption, FS_Subset, FS_CardinalityType DEF CapacityAssumption

\* The release leaves a bucket, whatever it counted before.
LEMMA TakeType ==
    ASSUME NEW b \in Bucket, NEW st \in Dispatch
    PROVE  Take(b, st) \in Bucket
<1>1. PICK h \in Nat, q \in Nat, u \in Nat, v \in Nat :
        b = [held |-> h, queued |-> q, running |-> u, version |-> v]
  BY DEF Bucket
<1>2. CASE st = "finished"
  BY <1>2 DEF Take
<1>3. CASE st = "held"
  BY <1>1, <1>3 DEF Take, Counter, Bucket
<1>4. CASE st = "queued"
  BY <1>1, <1>4 DEF Take, Counter, Bucket
<1>5. CASE st = "claimed"
  BY <1>1, <1>5 DEF Take, Counter, Bucket
<1> QED
  BY <1>2, <1>3, <1>4, <1>5 DEF Dispatch

\* Moving a unit leaves a bucket.
LEMMA TransitionType ==
    ASSUME NEW b \in Bucket, NEW old \in Dispatch, NEW new \in Dispatch
    PROVE  Transition(b, old, new) \in Bucket
<1> DEFINE c == Take(b, old)
           d == IF new = "finished" THEN c ELSE [c EXCEPT ![Counter(new)] = @ + 1]
<1>1. c \in Bucket
  BY TakeType
<1>2. PICK h \in Nat, q \in Nat, u \in Nat, v \in Nat :
        c = [held |-> h, queued |-> q, running |-> u, version |-> v]
  BY <1>1 DEF Bucket
<1> HIDE DEF c
<1>3. d \in Bucket
  <2>1. CASE new = "finished"
    BY <1>1, <2>1
  <2>2. CASE new = "held"
    BY <1>2, <2>2 DEF Counter, Bucket
  <2>3. CASE new = "queued"
    BY <1>2, <2>3 DEF Counter, Bucket
  <2>4. CASE new = "claimed"
    BY <1>2, <2>4 DEF Counter, Bucket
  <2> QED
    BY <2>1, <2>2, <2>3, <2>4 DEF Dispatch
<1>4. Transition(b, old, new) = [d EXCEPT !.version = @ + 1]
  BY DEF Transition, c
<1> HIDE DEF d
<1> QED
  BY <1>3, <1>4 DEF Bucket

\* Reaping n runs leaves a bucket.
LEMMA ReapBucketType ==
    ASSUME NEW b \in Bucket, NEW n \in Nat
    PROVE  ReapBucket(b, n) \in Bucket
<1> DEFINE u == IF b.running < n THEN 0 ELSE b.running - n
           q == b.queued + n
           v == b.version + n
<1>1. u \in Nat /\ q \in Nat /\ v \in Nat
  BY DEF Bucket
<1>2. ReapBucket(b, n) = [b EXCEPT !.running = u, !.queued = q, !.version = v]
  BY DEF ReapBucket
<1> HIDE DEF u, q, v
<1> QED
  BY <1>1, <1>2 DEF Bucket

\* Committing the columns of a bucket that have changed leaves a bucket.
LEMMA FlushBucketType ==
    ASSUME NEW now \in Bucket, NEW base, NEW obj \in Bucket
    PROVE  Flush(now, base, obj) \in Bucket
BY DEF Flush, Bucket

-----------------------------------------------------------------------------
(* Rows and sessions. *)

\* The object after an operation is a row, and an end is one more callback.
LEMMA ChangedType ==
    ASSUME NEW op \in Ops, NEW row \in Row, Applies(op, row)
    PROVE  /\ Changed(op, row) \in Row
           /\ row.st # "finished"
           /\ Changed(op, row).seq \in {row.seq, row.seq + 1}
           /\ Changed(op, row).status # row.status \/ Changed(op, row).st = "finished" =>
                Changed(op, row).seq = row.seq + 1
<1> DEFINE n == row.seq + 1
<1>0. n \in Nat /\ n # row.seq /\ row.seq + 1 = n
  BY DEF Row
<1>1. op \in {"start", "cancel", "finish"}
  BY CapacityAssumption DEF CapacityAssumption
<1> HIDE DEF n
<1>2. CASE op = "start"
  BY <1>2 DEF Applies, Changed, Row, Dispatch
<1>3. CASE op = "cancel"
  <2>1. Changed(op, row) = [row EXCEPT !.st = "finished", !.status = "cancelled", !.seq = n]
    BY <1>3 DEF Changed, n
  <2> QED
    BY <1>0, <1>3, <2>1 DEF Applies, Row, Dispatch
<1>4. CASE op = "finish"
  <2>1. Changed(op, row) = [row EXCEPT !.st = "finished", !.status = "failed", !.seq = n]
    BY <1>4 DEF Changed, n
  <2> QED
    BY <1>0, <1>4, <2>1 DEF Applies, Row, Dispatch
<1> QED
  BY <1>1, <1>2, <1>3, <1>4

\* A commit writes the columns that have changed.
LEMMA FlushRow ==
    ASSUME NEW now \in Row, NEW v \in Row, NEW m \in Row
    PROVE  /\ Flush(now, v, m) \in Row
           /\ Flush(now, v, m).st = IF m.st # v.st THEN m.st ELSE now.st
           /\ Flush(now, v, m).status = IF m.status # v.status THEN m.status ELSE now.status
           /\ Flush(now, v, m).seq = IF m.seq # v.seq THEN m.seq ELSE now.seq
BY DEF Flush, Row

\* The empty session and the empty scan have their types.
LEMMA EmptyTypes == NoSession \in Session /\ NoSession.op = "none"
                    /\ NoScan \in Scan /\ \A r \in Runs : NoScan.moved[r] = "no"
<1>1. (CHOOSE r \in Runs : TRUE) \in Runs
  BY CapacityAssumption DEF CapacityAssumption
<1>2. NoSession \in Session /\ NoSession.op = "none"
  BY <1>1 DEF NoSession, Session, Row, Dispatch
<1>3. [r \in Runs |-> "no"] \in [Runs -> {"no", "queued", "finished"}]
  OBVIOUS
<1>4. NoScan \in Scan /\ NoScan.moved = [r \in Runs |-> "no"]
  BY <1>3 DEF NoScan, Scan, Pcs
<1> QED
  BY <1>2, <1>4

\* What every step does to a row: callbacks are added, and no end without one.
Advances ==
    \A r \in Runs :
        /\ rows'[r].seq >= rows[r].seq
        /\ rows'[r].st = "finished" => rows[r].st = "finished" \/ rows'[r].seq > rows[r].seq

\* What EndStays says of a step.
Stays == \A r \in Runs : rows[r].st = "finished" => rows'[r].status = rows[r].status

\* Rows that advance leave what sessions have loaded current.
LEMMA SessionsKeep ==
    ASSUME IInv, rows' \in [Runs -> Row], Advances,
           \A s \in Clients : api'[s] = api[s] \/ api'[s].op = "none"
    PROVE  SessionsFit'
<1> SUFFICES ASSUME NEW s \in Clients, api'[s].op # "none"
             PROVE  Applies(api[s].op, api[s].view)' /\ Current(api[s].run, api[s].view)'
  BY DEF SessionsFit
<1>1. api'[s] = api[s] /\ api[s] \in Session
  BY DEF IInv, TypeOK
<1> DEFINE r == api[s].run  v == api[s].view
<1>2. Applies(api[s].op, v) /\ Current(r, v)
  BY <1>1 DEF IInv, SessionsFit
<1>3. r \in Runs /\ v \in Row /\ rows[r] \in Row /\ rows'[r] \in Row
  BY <1>1 DEF IInv, TypeOK, Session
<1>4. v.seq \in Nat /\ rows[r].seq \in Nat /\ rows'[r].seq \in Nat
  BY <1>3 DEF Row
<1>5. v.seq <= rows[r].seq /\ rows'[r].seq >= rows[r].seq
  BY <1>2, <1>3 DEF Current, Advances
<1>6. v.seq = rows'[r].seq /\ rows'[r].st = "finished" => v.st = "finished"
  <2> SUFFICES ASSUME v.seq = rows'[r].seq, rows'[r].st = "finished" PROVE v.st = "finished"
    OBVIOUS
  <2>1. v.seq = rows[r].seq /\ ~(rows'[r].seq > rows[r].seq)
    BY <1>4, <1>5
  <2>2. rows[r].st = "finished"
    BY <1>3, <2>1 DEF Advances
  <2> QED
    BY <1>2, <2>1, <2>2 DEF Current
<1>7. v.seq <= rows'[r].seq
  BY <1>4, <1>5
<1> QED
  BY <1>1, <1>2, <1>6, <1>7 DEF Current

\* A step that writes rows and leaves the scans' transactions alone.
LEMMA RowsStep ==
    ASSUME IInv, rows' \in [Runs -> Row], bucket' \in Bucket, lapsed' \subseteq Runs,
           due' \subseteq Runs, ops' \in 0..MaxOps, lapses' \in 0..MaxLapses,
           holder' \in Scanners \cup {Nobody}, api' \in [Clients -> Session],
           UNCHANGED scan, SessionsFit',
           \A c \in Scanners : \A r \in Runs :
               scan[c].moved[r] # "no" => rows'[r].st # "finished"
    PROVE  IInv'
BY DEF IInv, TypeOK, Exclusive, MovesAreOpen

\* A step that writes one scan's transaction and leaves the rows alone.
LEMMA ScanStep ==
    ASSUME IInv, NEW c \in Scanners, NEW new \in Scan, scan' = [scan EXCEPT ![c] = new],
           UNCHANGED work, holder' \in Scanners \cup {Nobody}, lapses' \in 0..MaxLapses,
           \A r \in Runs : new.moved[r] # "no" =>
               /\ rows[r].st # "finished"
               /\ \A d \in Scanners \ {c} : scan[d].moved[r] = "no"
    PROVE  IInv' /\ Stays
<1>1. rows' = rows /\ api' = api /\ rows \in [Runs -> Row]
  BY DEF work, IInv, TypeOK
<1>2. \A r \in Runs : rows[r].seq \in Nat
  BY <1>1 DEF Row
<1>3. Advances
  BY <1>1, <1>2 DEF Advances
<1>4. SessionsFit'
  BY <1>1, <1>3, SessionsKeep
<1>5. scan' \in [Scanners -> Scan]
  BY DEF IInv, TypeOK
<1>6. TypeOK'
  BY <1>5 DEF IInv, TypeOK, work
<1>7. \A d \in Scanners : scan'[d] = IF d = c THEN new ELSE scan[d]
  BY DEF IInv, TypeOK
<1>8. Exclusive'
  BY <1>7 DEF IInv, Exclusive
<1>9. MovesAreOpen'
  BY <1>1, <1>7 DEF IInv, MovesAreOpen
<1> QED
  BY <1>1, <1>4, <1>6, <1>8, <1>9 DEF IInv, Stays

-----------------------------------------------------------------------------
(* Requests and Workers. *)

\* Nothing but a session is written.
LEMMA LoadStep ==
    ASSUME IInv, NEW s \in Clients, NEW r \in Runs, NEW op \in Ops, Load(s, r, op)
    PROVE  IInv' /\ Stays
<1> DEFINE new == [op |-> op, run |-> r, view |-> rows[r]]
<1>1. rows \in [Runs -> Row] /\ rows' = rows /\ rows[r] \in Row /\ rows[r].seq \in Nat
  BY DEF IInv, TypeOK, Load, Row
<1>2. new \in Session
  BY <1>1 DEF Session
<1>3. api' = [api EXCEPT ![s] = new] /\ api \in [Clients -> Session]
  BY DEF IInv, TypeOK, Load
<1>4. \A t \in Clients : api'[t] = IF t = s THEN new ELSE api[t]
  BY <1>3
<1>5. Applies(op, rows[r]) /\ Current(r, rows[r])
  BY <1>1 DEF Load, Current
<1>6. SessionsFit'
  BY <1>1, <1>4, <1>5 DEF IInv, SessionsFit, Current
<1>7. api' \in [Clients -> Session]
  BY <1>2, <1>3
<1>8. ops' \in 0..MaxOps
  BY CapacityAssumption DEF IInv, TypeOK, Load, CapacityAssumption
<1>9. IInv'
  BY <1>1, <1>6, <1>7, <1>8, RowsStep DEF IInv, TypeOK, Load, MovesAreOpen
<1> QED
  BY <1>1, <1>9 DEF Stays

\* A commit of a request or a Worker: an end meets the row that was loaded.
LEMMA CommitStep ==
    ASSUME IInv, NEW s \in Clients, Commit(s)
    PROVE  IInv' /\ Stays
<1> DEFINE r == api[s].run  v == api[s].view  m == Changed(api[s].op, v)
<1>1. api \in [Clients -> Session] /\ rows \in [Runs -> Row]
  BY DEF IInv, TypeOK
<1>2. api[s].op \in Ops /\ r \in Runs /\ v \in Row
  BY <1>1 DEF Commit, Session
<1>3. Applies(api[s].op, v) /\ Current(r, v)
  BY DEF Commit, IInv, SessionsFit
<1>4. /\ m \in Row /\ v.st # "finished"
      /\ m.seq \in {v.seq, v.seq + 1}
      /\ m.status # v.status \/ m.st = "finished" => m.seq = v.seq + 1
  BY <1>2, <1>3, ChangedType
<1>5. api' = [api EXCEPT ![s] = NoSession] /\ UNCHANGED <<due, scan, holder, ops, lapses>>
  BY DEF Commit
<1>6. api' \in [Clients -> Session] /\ \A t \in Clients : api'[t] = api[t] \/ api'[t].op = "none"
  BY <1>1, <1>5, EmptyTypes
<1>7. \A c \in Scanners : scan[c].moved[r] = "no"
  BY CapacityAssumption DEF Commit, RunLocked, CapacityAssumption
<1> HIDE DEF m, v, r
<1>8. CASE UNCHANGED <<rows, bucket, lapsed>>
  <2>1. Advances
    BY <1>1, <1>8 DEF Advances, Row
  <2>2. SessionsFit'
    BY <1>1, <1>6, <1>8, <2>1, SessionsKeep
  <2>3. IInv'
    BY <1>1, <1>5, <1>6, <1>8, <2>2, RowsStep DEF IInv, TypeOK, MovesAreOpen
  <2> QED
    BY <1>8, <2>3 DEF Stays
<1>9. CASE /\ m.seq # v.seq => rows[r].seq = v.seq
           /\ rows' = [rows EXCEPT ![r] = Flush(@, v, m)]
           /\ bucket' = Transition(bucket, v.st, m.st)
           /\ lapsed' = lapsed \ {r}
  <2> DEFINE f == Flush(rows[r], v, m)
  <2>1. rows[r] \in Row
    BY <1>1, <1>2
  <2>2. /\ f \in Row
        /\ f.st = IF m.st # v.st THEN m.st ELSE rows[r].st
        /\ f.status = IF m.status # v.status THEN m.status ELSE rows[r].status
        /\ f.seq = IF m.seq # v.seq THEN m.seq ELSE rows[r].seq
    BY <1>2, <1>4, <2>1, FlushRow
  <2> HIDE DEF f
  <2>3. rows' = [rows EXCEPT ![r] = f]
    BY <1>9 DEF f
  <2>4. rows' \in [Runs -> Row] /\ \A q \in Runs : rows'[q] = IF q = r THEN f ELSE rows[q]
    BY <1>1, <1>2, <2>2, <2>3
  <2>5. v.seq \in Nat /\ m.seq \in Nat /\ rows[r].seq \in Nat
    BY <1>2, <1>4, <2>1 DEF Row
  <2>6. f.seq >= rows[r].seq /\ (f.st = "finished" => rows[r].st = "finished" \/ f.seq > rows[r].seq)
    <3>1. CASE m.seq = v.seq + 1
      <4>1. f.seq = rows[r].seq + 1
        BY <1>9, <2>2, <2>5, <3>1
      <4> QED
        BY <2>5, <4>1
    <3>2. CASE m.seq = v.seq
      <4>1. m.st # "finished" /\ f.seq = rows[r].seq
        BY <1>4, <2>2, <2>5, <3>2
      <4> QED
        BY <2>2, <2>5, <4>1
    <3> QED
      BY <1>4, <3>1, <3>2
  <2>7. Advances
    BY <1>1, <2>4, <2>6 DEF Advances, Row
  <2>8. SessionsFit'
    BY <1>6, <2>4, <2>7, SessionsKeep
  <2>9. bucket' \in Bucket
    <3>1. v.st \in Dispatch /\ m.st \in Dispatch /\ bucket \in Bucket
      BY <1>2, <1>4 DEF Row, IInv, TypeOK
    <3> QED
      BY <1>9, <3>1, TransitionType
  <2>10. \A c \in Scanners : \A q \in Runs : scan[c].moved[q] # "no" => rows'[q].st # "finished"
    BY <1>7, <2>4 DEF IInv, MovesAreOpen
  <2>11. IInv'
    BY <1>5, <1>6, <1>9, <2>4, <2>8, <2>9, <2>10, RowsStep DEF IInv, TypeOK
  <2>12. rows[r].st = "finished" => f.status = rows[r].status
    <3> SUFFICES ASSUME rows[r].st = "finished", m.status # v.status PROVE FALSE
      BY <2>2
    <3>1. m.seq # v.seq
      BY <1>4, <2>5
    <3> QED
      BY <1>3, <1>4, <1>9, <3>1 DEF Current
  <2> QED
    BY <2>4, <2>11, <2>12 DEF Stays
<1> QED
  BY <1>8, <1>9 DEF Commit, m, v, r

\* All expired leases are taken back.
LEMMA ReapStep ==
    ASSUME IInv, Reap
    PROVE  IInv' /\ Stays
<1>1. rows \in [Runs -> Row] /\ bucket \in Bucket /\ lapsed \subseteq Runs
  BY DEF IInv, TypeOK
<1>2. \A r \in Runs : rows'[r] = IF r \in Expired THEN [rows[r] EXCEPT !.st = "queued"] ELSE rows[r]
  BY DEF Reap
<1>3. \A r \in Runs : rows'[r] \in Row /\ rows'[r].seq = rows[r].seq /\ rows'[r].status = rows[r].status
                      /\ (rows'[r].st = "finished" => rows[r].st = "finished")
  BY <1>1, <1>2 DEF Row, Dispatch
<1>4. rows' \in [Runs -> Row]
  BY <1>3 DEF Reap
<1>5. Advances
  BY <1>1, <1>3 DEF Advances, Row
<1>6. SessionsFit'
  BY <1>4, <1>5, SessionsKeep DEF Reap
<1>7. bucket' \in Bucket
  BY <1>1, CountType, ReapBucketType DEF Reap, Expired
<1>8. \A c \in Scanners : \A r \in Runs : scan[c].moved[r] # "no" => rows'[r].st # "finished"
  BY <1>3 DEF IInv, MovesAreOpen
<1>9. IInv'
  BY <1>1, <1>4, <1>6, <1>7, <1>8, RowsStep DEF IInv, TypeOK, Reap
<1> QED
  BY <1>3, <1>9 DEF Stays

\* A Worker takes a run.
LEMMA ClaimStep ==
    ASSUME IInv, NEW r \in Runs, Claim(r)
    PROVE  IInv' /\ Stays
<1>1. rows \in [Runs -> Row] /\ bucket \in Bucket /\ lapsed \subseteq Runs
  BY DEF IInv, TypeOK
<1>2. rows' = [rows EXCEPT ![r].st = "claimed"]
  BY DEF Claim
<1>3. \A q \in Runs : rows'[q] = IF q = r THEN [rows[r] EXCEPT !.st = "claimed"] ELSE rows[q]
  BY <1>1, <1>2
<1>4. \A q \in Runs : rows'[q] \in Row /\ rows'[q].seq = rows[q].seq /\ rows'[q].status = rows[q].status
                      /\ (rows'[q].st = "finished" => rows[q].st = "finished")
  BY <1>1, <1>3 DEF Row, Dispatch
<1>5. rows' \in [Runs -> Row]
  BY <1>1, <1>2, <1>4
<1>6. Advances
  BY <1>1, <1>4 DEF Advances, Row
<1>7. SessionsFit'
  BY <1>5, <1>6, SessionsKeep DEF Claim
<1>8. bucket' \in Bucket
  BY <1>1, TransitionType DEF Claim, Dispatch
<1>9. \A c \in Scanners : \A q \in Runs : scan[c].moved[q] # "no" => rows'[q].st # "finished"
  BY <1>4 DEF IInv, MovesAreOpen
<1>10. ops' \in 0..MaxOps
  BY CapacityAssumption DEF IInv, TypeOK, Claim, CapacityAssumption
<1>11. IInv'
  BY <1>1, <1>5, <1>7, <1>8, <1>9, <1>10, RowsStep DEF IInv, TypeOK, Claim
<1> QED
  BY <1>4, <1>11 DEF Stays

-----------------------------------------------------------------------------
(* The Reconciler. *)

\* An expired lease is taken back in the scan's transaction, and nobody else has moved
\* a run then.
LEMMA AcquireStep ==
    ASSUME IInv, NEW c \in Scanners, Acquire(c)
    PROVE  IInv' /\ Stays
<1> DEFINE seen == [r \in Runs |-> IF r \in Expired THEN [rows[r] EXCEPT !.st = "queued"]
                                   ELSE rows[r]]
           mine == IF Expired = {} THEN bucket ELSE ReapBucket(bucket, Cardinality(Expired))
           moved == [r \in Runs |-> IF r \in Expired THEN "queued" ELSE "no"]
           pc == IF Matches(mine, seen) THEN "runs" ELSE "rebuild"
           new == [pc |-> pc, seen |-> seen, todo |-> Runs, moved |-> moved,
                   base |-> bucket, obj |-> mine, wrote |-> None]
<1>1. rows \in [Runs -> Row] /\ bucket \in Bucket /\ lapsed \subseteq Runs
  BY DEF IInv, TypeOK
<1>2. \A r \in Runs : [rows[r] EXCEPT !.st = "queued"] \in Row
  BY <1>1 DEF Row, Dispatch
<1>3. seen \in [Runs -> Row]
  BY <1>1, <1>2
<1>4. mine \in Bucket
  BY <1>1, CountType, ReapBucketType DEF Expired
<1>5. moved \in [Runs -> {"no", "queued", "finished"}]
  OBVIOUS
<1>6. \A r \in Runs : moved[r] # "no" => r \in Expired
  OBVIOUS
<1>7. pc \in Pcs
  BY DEF Pcs
<1>8. scan' = [scan EXCEPT ![c] = new] /\ UNCHANGED <<work, lapses>> /\ holder' = c
  BY DEF Acquire
<1> HIDE DEF seen, mine, moved, pc
<1>9. new \in Scan /\ new.moved = moved
  BY <1>1, <1>3, <1>4, <1>5, <1>7 DEF Scan
<1> HIDE DEF new
<1>10. Expired = {} \/ \A d \in Scanners \ {c} : \A r \in Runs : scan[d].moved[r] = "no"
  BY DEF Acquire, BucketLocked
<1>11. \A r \in Expired : rows[r].st # "finished"
  BY DEF Expired
<1>12. \A r \in Runs : new.moved[r] # "no" =>
           rows[r].st # "finished" /\ \A d \in Scanners \ {c} : scan[d].moved[r] = "no"
  BY <1>6, <1>9, <1>10, <1>11
<1> QED
  BY <1>8, <1>9, <1>12, ScanStep DEF IInv, TypeOK

\* What a scan has moved is its own.
LEMMA OwnMoves ==
    ASSUME IInv, NEW c \in Scanners, NEW r \in Runs, scan[c].moved[r] # "no"
    PROVE  rows[r].st # "finished" /\ \A d \in Scanners \ {c} : scan[d].moved[r] = "no"
BY DEF IInv, Exclusive, MovesAreOpen

\* A step of a scan that moves no run.
LEMMA QuietScanStep ==
    ASSUME IInv, NEW c \in Scanners, NEW new \in Scan, scan' = [scan EXCEPT ![c] = new],
           new.moved = scan[c].moved \/ new = NoScan,
           UNCHANGED work, holder' \in Scanners \cup {Nobody}, lapses' \in 0..MaxLapses
    PROVE  IInv' /\ Stays
<1>1. \A r \in Runs : new.moved[r] # "no" => scan[c].moved[r] # "no"
  BY EmptyTypes
<1>2. \A r \in Runs : new.moved[r] # "no" =>
          rows[r].st # "finished" /\ \A d \in Scanners \ {c} : scan[d].moved[r] = "no"
  BY <1>1, OwnMoves
<1> QED
  BY <1>2, ScanStep

\* The bucket is written, and what the session had of it forgotten.
LEMMA RebuildStep ==
    ASSUME IInv, NEW c \in Scanners, Rebuild(c)
    PROVE  IInv' /\ Stays
<1> DEFINE counts == [held |-> Count(scan[c].seen, "held"), queued |-> Count(scan[c].seen, "queued"),
                      running |-> Count(scan[c].seen, "claimed"), version |-> bucket.version + 1]
           wrote == IF scan[c].obj.version # bucket.version THEN None ELSE counts
           new == [scan[c] EXCEPT !.pc = "runs", !.base = None, !.obj = None, !.wrote = wrote]
<1>1. scan \in [Scanners -> Scan] /\ scan[c] \in Scan /\ bucket \in Bucket
  BY DEF IInv, TypeOK
<1>2. \A st : Count(scan[c].seen, st) \in Nat
  BY CountType DEF Count
<1>3. counts \in Bucket
  BY <1>1, <1>2 DEF Bucket
<1>4. wrote \in Bucket \cup {None}
  BY <1>3
<1>5. scan' = [scan EXCEPT ![c] = new]
  BY <1>1 DEF Rebuild
<1> HIDE DEF counts, wrote
<1>6. new \in Scan /\ new.moved = scan[c].moved
  BY <1>1, <1>4 DEF Scan, Pcs
<1> HIDE DEF new
<1> QED
  BY <1>5, <1>6, QuietScanStep DEF Rebuild, IInv, TypeOK

\* The loop goes to the next run, or ends one that has not changed since it was read.
LEMMA RepairStep ==
    ASSUME IInv, NEW c \in Scanners, NEW r \in Runs, Repair(c, r)
    PROVE  IInv' /\ Stays
<1> DEFINE s == [scan[c] EXCEPT !.todo = @ \ {r}]
           l == [Loaded(c) EXCEPT !.todo = @ \ {r}]
           st == scan[c].seen[r].st
           b == Transition(l.obj, st, "finished")
           new == [l EXCEPT !.moved[r] = "finished", !.obj = b]
<1>1. scan \in [Scanners -> Scan] /\ scan[c] \in Scan /\ bucket \in Bucket
  BY DEF IInv, TypeOK
<1>2. s \in Scan /\ s.moved = scan[c].moved /\ s.seen = scan[c].seen
  BY <1>1 DEF Scan
<1>3. UNCHANGED <<work, holder, lapses>>
  BY DEF Repair
<1>4. CASE scan' = [scan EXCEPT ![c] = s]
  BY <1>2, <1>3, <1>4, QuietScanStep DEF IInv, TypeOK
<1>5. CASE /\ st \in {"held", "queued"}
           /\ Unchanged(c, r) /\ ~RunLocked(r, c)
           /\ scan' = [scan EXCEPT ![c] = new]
  <2>1. Loaded(c) \in Scan /\ Loaded(c).obj \in Bucket /\ Loaded(c).moved = scan[c].moved
    <3> DEFINE now == IF scan[c].wrote # None THEN scan[c].wrote ELSE bucket
    <3>1. now \in Bucket
      BY <1>1 DEF Scan
    <3>2. Loaded(c) = IF scan[c].obj # None THEN scan[c] ELSE [scan[c] EXCEPT !.base = now, !.obj = now]
      BY DEF Loaded
    <3> HIDE DEF now
    <3>3. CASE scan[c].obj # None
      BY <1>1, <3>2, <3>3 DEF Scan
    <3>4. CASE scan[c].obj = None
      <4>1. Loaded(c) = [scan[c] EXCEPT !.base = now, !.obj = now]
        BY <3>2, <3>4
      <4> QED
        BY <1>1, <3>1, <4>1 DEF Scan
    <3> QED
      BY <3>3, <3>4
  <2>2. l \in Scan /\ l.obj \in Bucket /\ l.moved = scan[c].moved
    BY <2>1 DEF Scan
  <2>3. b \in Bucket
    BY <1>5, <2>2, TransitionType DEF Dispatch
  <2>4. l.moved \in [Runs -> {"no", "queued", "finished"}]
    BY <2>2 DEF Scan
  <2> HIDE DEF l, b
  <2>5. new \in Scan /\ new.moved = [l.moved EXCEPT ![r] = "finished"]
    BY <2>2, <2>3, <2>4 DEF Scan
  <2> HIDE DEF new
  <2>6. \A q \in Runs : new.moved[q] # "no" => q = r \/ scan[c].moved[q] # "no"
    BY <2>2, <2>4, <2>5
  <2>7. rows[r].st # "finished"
    <3>1. CASE scan[c].moved[r] = "no"
      BY <1>5, <3>1 DEF Unchanged
    <3>2. CASE scan[c].moved[r] # "no"
      BY <3>2, OwnMoves
    <3> QED
      BY <3>1, <3>2
  <2>8. \A d \in Scanners \ {c} : scan[d].moved[r] = "no"
    BY <1>5 DEF RunLocked
  <2>9. \A q \in Runs : new.moved[q] # "no" =>
            rows[q].st # "finished" /\ \A d \in Scanners \ {c} : scan[d].moved[q] = "no"
    BY <2>6, <2>7, <2>8, OwnMoves
  <2> QED
    BY <1>3, <1>5, <2>5, <2>9, ScanStep DEF IInv, TypeOK
<1>6. \/ scan' = [scan EXCEPT ![c] = s]
      \/ st \in {"held", "queued"} /\ Unchanged(c, r) /\ ~RunLocked(r, c)
         /\ scan' = [scan EXCEPT ![c] = new]
  BY <1>2 DEF Repair
<1> QED
  BY <1>4, <1>5, <1>6

\* The last guard.
LEMMA LastGuardStep ==
    ASSUME IInv, NEW c \in Scanners, LastGuard(c)
    PROVE  IInv' /\ Stays
<1> DEFINE new == [scan[c] EXCEPT !.pc = "commit"]
<1>1. scan \in [Scanners -> Scan] /\ scan[c] \in Scan
  BY DEF IInv, TypeOK
<1>2. new \in Scan /\ new.moved = scan[c].moved
  BY <1>1 DEF Scan, Pcs
<1>3. scan' = [scan EXCEPT ![c] = new]
  BY <1>1 DEF LastGuard
<1> QED
  BY <1>2, <1>3, QuietScanStep DEF LastGuard, IInv, TypeOK

\* A scan that ends without a commit leaves nothing.
LEMMA DroppedStep ==
    ASSUME IInv, NEW c \in Scanners, Abort(c) \/ ScanFails(c) \/ ScanCrashes(c)
    PROVE  IInv' /\ Stays
<1>1. scan' = [scan EXCEPT ![c] = NoScan] /\ UNCHANGED work
  BY DEF Abort, ScanFails, ScanCrashes, work
<1>2. holder' \in Scanners \cup {Nobody}
  BY DEF Abort, ScanFails, ScanCrashes, Released, IInv, TypeOK
<1>3. lapses' \in 0..MaxLapses
  BY CapacityAssumption DEF Abort, ScanFails, ScanCrashes, IInv, TypeOK, CapacityAssumption
<1> QED
  BY <1>1, <1>2, <1>3, EmptyTypes, QuietScanStep

\* The scan's transaction: it ends runs that were open and that it had locked.
LEMMA CommitScanStep ==
    ASSUME IInv, NEW c \in Scanners, CommitScan(c)
    PROVE  IInv' /\ Stays
<1> DEFINE how(r) == scan[c].moved[r]
           now == IF scan[c].wrote # None THEN scan[c].wrote ELSE bucket
<1>1. /\ scan \in [Scanners -> Scan] /\ scan[c] \in Scan /\ bucket \in Bucket
      /\ rows \in [Runs -> Row] /\ lapsed \subseteq Runs
  BY DEF IInv, TypeOK
<1>2. \A r \in Runs : how(r) \in {"no", "queued", "finished"}
  BY <1>1 DEF Scan
<1>3. \A r \in Runs : rows'[r] = Moved(rows[r], how(r))
  BY DEF CommitScan
<1>4. \A r \in Runs : /\ rows'[r] \in Row
                      /\ how(r) = "no" => rows'[r] = rows[r]
                      /\ how(r) = "queued" => rows'[r].seq = rows[r].seq /\ rows'[r].st = "queued"
                      /\ how(r) = "finished" => rows'[r].seq = rows[r].seq + 1
  <2> TAKE r \in Runs
  <2> DEFINE n == rows[r].seq + 1
  <2>1. rows[r] \in Row /\ n \in Nat
    BY <1>1 DEF Row
  <2>2. CASE how(r) = "no"
    BY <1>3, <2>1, <2>2 DEF Moved
  <2>3. CASE how(r) = "queued"
    BY <1>3, <2>1, <2>3 DEF Moved, Row, Dispatch
  <2>4. CASE how(r) = "finished"
    <3>1. rows'[r] = [rows[r] EXCEPT !.st = "finished", !.status = "failed", !.seq = n]
      BY <1>3, <2>4 DEF Moved
    <3> HIDE DEF n
    <3>2. rows'[r] \in Row /\ rows'[r].seq = n
      BY <2>1, <3>1 DEF Row, Dispatch
    <3> QED
      BY <2>4, <3>2 DEF n
  <2> QED
    BY <1>2, <2>2, <2>3, <2>4
<1>5. rows' \in [Runs -> Row]
  BY <1>4 DEF CommitScan
<1>6. Advances
  <2> SUFFICES ASSUME NEW r \in Runs
               PROVE  /\ rows'[r].seq >= rows[r].seq
                      /\ rows'[r].st = "finished" => rows[r].st = "finished" \/ rows'[r].seq > rows[r].seq
    BY DEF Advances
  <2>1. rows[r].seq \in Nat
    BY <1>1 DEF Row
  <2> QED
    BY <1>2, <1>4, <2>1
<1>7. SessionsFit'
  BY <1>5, <1>6, SessionsKeep DEF CommitScan
<1>8. bucket' \in Bucket
  <2>1. now \in Bucket
    BY <1>1 DEF Scan
  <2>2. scan[c].obj # None => scan[c].obj \in Bucket
    BY <1>1 DEF Scan
  <2>3. bucket' = IF scan[c].obj = None THEN now ELSE Flush(now, scan[c].base, scan[c].obj)
    BY DEF CommitScan
  <2> HIDE DEF now
  <2> QED
    BY <2>1, <2>2, <2>3, FlushBucketType
<1>9. scan' = [scan EXCEPT ![c] = NoScan]
  BY DEF CommitScan
<1>10. \A d \in Scanners : scan'[d] = IF d = c THEN NoScan ELSE scan[d]
  BY <1>1, <1>9
<1>11. scan' \in [Scanners -> Scan]
  BY <1>1, <1>9, EmptyTypes
<1>12. TypeOK'
  <2>1. lapsed' \subseteq Runs
    BY <1>1 DEF CommitScan
  <2>2. holder' \in Scanners \cup {Nobody}
    BY DEF CommitScan, Released, IInv, TypeOK
  <2> QED
    BY <1>5, <1>8, <1>11, <2>1, <2>2 DEF CommitScan, IInv, TypeOK
<1>13. Exclusive'
  BY <1>10, EmptyTypes DEF IInv, Exclusive
<1>14. MovesAreOpen'
  <2> SUFFICES ASSUME NEW d \in Scanners, NEW r \in Runs, scan'[d].moved[r] # "no"
               PROVE  rows'[r].st # "finished"
    BY DEF MovesAreOpen
  <2>1. d # c /\ scan[d].moved[r] # "no"
    BY <1>10, EmptyTypes
  <2>2. how(r) = "no" /\ rows[r].st # "finished"
    BY <2>1 DEF IInv, Exclusive, MovesAreOpen
  <2> QED
    BY <1>4, <2>2
<1>15. Stays
  BY <1>4, OwnMoves DEF Stays
<1> QED
  BY <1>7, <1>12, <1>13, <1>14, <1>15 DEF IInv

-----------------------------------------------------------------------------
(* The theorems. *)

\* Time touches no row and no transaction.
LEMMA TimeStep ==
    ASSUME IInv,
           \/ \E r \in Runs : LeaseLapses(r) \/ BecomesDue(r)
           \/ ScanLeaseLapses \/ AbandonedLeaseExpires
    PROVE  IInv' /\ Stays
<1>1. UNCHANGED <<rows, bucket, api, scan, ops>> /\ rows \in [Runs -> Row]
  BY DEF IInv, TypeOK, LeaseLapses, BecomesDue, ScanLeaseLapses, AbandonedLeaseExpires, work
<1>2. lapsed' \subseteq Runs /\ due' \subseteq Runs
  BY DEF IInv, TypeOK, LeaseLapses, BecomesDue, ScanLeaseLapses, AbandonedLeaseExpires, work
<1>3. holder' \in Scanners \cup {Nobody}
  BY DEF IInv, TypeOK, LeaseLapses, BecomesDue, ScanLeaseLapses, AbandonedLeaseExpires, work
<1>4. lapses' \in 0..MaxLapses
  BY CapacityAssumption
  DEF IInv, TypeOK, LeaseLapses, BecomesDue, ScanLeaseLapses, AbandonedLeaseExpires, CapacityAssumption
<1>5. Advances
  BY <1>1 DEF Advances, Row
<1>6. SessionsFit'
  BY <1>1, <1>5, SessionsKeep
<1>7. IInv'
  BY <1>1, <1>2, <1>3, <1>4, <1>6, RowsStep DEF IInv, TypeOK, MovesAreOpen
<1> QED
  BY <1>1, <1>7 DEF Stays

\* The invariant holds at first.
LEMMA Initially == Init => IInv
<1> SUFFICES ASSUME Init PROVE IInv
  OBVIOUS
<1>1. rows \in [Runs -> Row]
  BY DEF Init, Row, Dispatch
<1>2. bucket \in Bucket
  <2>1. Runs \ Queued \in SUBSET Runs /\ Queued \in SUBSET Runs
    BY CapacityAssumption DEF CapacityAssumption
  <2>2. Cardinality(Runs \ Queued) \in Nat /\ Cardinality(Queued) \in Nat
    BY <2>1, CountType
  <2> QED
    BY <2>2 DEF Init, Bucket
<1>3. ops \in 0..MaxOps /\ lapses \in 0..MaxLapses
  BY CapacityAssumption DEF Init, CapacityAssumption
<1>4. TypeOK
  BY <1>1, <1>2, <1>3, EmptyTypes DEF Init, TypeOK
<1> QED
  BY <1>4, EmptyTypes DEF Init, IInv, SessionsFit, Exclusive, MovesAreOpen

\* Every step keeps the invariant and the end of every finished run.
LEMMA EveryStep == IInv /\ [Next]_vars => IInv' /\ [Stays]_vars
<1> SUFFICES ASSUME IInv, [Next]_vars PROVE IInv' /\ (Stays \/ UNCHANGED vars)
  OBVIOUS
<1>1. CASE UNCHANGED vars
  BY <1>1 DEF vars, IInv, TypeOK, SessionsFit, Current, Exclusive, MovesAreOpen
<1>2. CASE \E s \in Clients : Commit(s) \/ \E r \in Runs, op \in Ops : Load(s, r, op)
  BY <1>2, CommitStep, LoadStep
<1>3. CASE Reap \/ \E r \in Runs : Claim(r)
  BY <1>3, ReapStep, ClaimStep
<1>4. CASE \E c \in Scanners : Step(c) \/ ScanFails(c) \/ ScanCrashes(c)
  BY <1>4, AcquireStep, RebuildStep, RepairStep, LastGuardStep, CommitScanStep, DroppedStep DEF Step
<1>5. CASE \/ \E r \in Runs : LeaseLapses(r) \/ BecomesDue(r)
           \/ ScanLeaseLapses \/ AbandonedLeaseExpires
  BY <1>5, TimeStep
<1> QED
  BY <1>1, <1>2, <1>3, <1>4, <1>5 DEF Next

\* The inductive invariant holds in every reachable state.
THEOREM Invariance == Spec => []IInv
BY Initially, EveryStep, PTL DEF Spec

\* Rows, sessions and scans keep their types; in particular no counter of the bucket
\* becomes negative, however often a unit is released that was moved before
\* (AdmissionService.transition_run).
THEOREM TypeCorrect == Spec => []TypeOK
<1>1. IInv => TypeOK
  BY DEF IInv
<1> QED
  BY <1>1, Invariance, PTL

\* The end of a finished run is not replaced, by whichever request, Worker or scan read
\* the run earlier (_terminate, cancel, finish).
THEOREM EndsStay == Spec => EndStays
<1>1. IInv /\ [Next]_vars =>
        [\A r \in Runs : rows[r].st = "finished" => rows'[r].status = rows[r].status]_vars
  BY EveryStep DEF Stays
<1> QED
  BY <1>1, Invariance, PTL DEF Spec, EndStays

=============================================================================
