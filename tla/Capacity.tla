------------------------------ MODULE Capacity ------------------------------
(***************************************************************************)
(* The admission ledger and who writes it.  Every change of a run's        *)
(* dispatch_state also moves one unit between the counters of an           *)
(* AdmissionBucket (AdmissionService.transition_run): API transactions and *)
(* finishing Workers through an ORM object, claims and the reaper after a  *)
(* conditional UPDATE, and the Reconciler, which also rebuilds a bucket    *)
(* from the rows.  Scans are serialised by a database lease                *)
(* (ReconciliationLeaseService, ReconcilerRunner).                         *)
(*                                                                         *)
(* A run is counted in four buckets that are always moved together, so one *)
(* bucket is modelled.  Two things matter.  An ORM transaction loads the   *)
(* run without a lock and writes it back unconditionally, so the unit it   *)
(* moves may have been moved already.  And the scan's session keeps the    *)
(* bucket object it has read: SELECT ... FOR UPDATE locks the row but does *)
(* not refresh a loaded object, so a later move starts from old counts.    *)
(*                                                                         *)
(* The reconciler's fencing token is only ever compared with the row's     *)
(* token; `holder' names the acquisition whose owner and token are in the  *)
(* row.  Every SELECT reads committed data.  Creation, pauses, approvals    *)
(* and retries move units like the operations here; RunLedger has them.    *)
(***************************************************************************)
EXTENDS Integers, FiniteSets

CONSTANTS
    Runs,        \* runs counted in the bucket
    Queued,      \* those created with start_mode "auto"
    Clients,     \* concurrent ORM transactions: API requests, finishing Workers
    Scanners,    \* Reconciler processes
    Nobody,      \* no holder of a lock or of the lease
    Ops,         \* ORM operations issued
    Faults,      \* what the environment may do
    MaxOps,      \* bound on ORM transactions and claims together
    MaxLapses,   \* bound on reconciler leases that run out under a live scan
    MaxQueued,   \* AdmissionLimits.max_queued
    MaxRunning   \* AdmissionLimits.max_running

ASSUME CapacityAssumption ==
    /\ Nobody \notin Scanners
    /\ IsFiniteSet(Runs) /\ Runs # {} /\ Queued \subseteq Runs
    /\ Ops \subseteq {"start", "cancel", "finish"}
    /\ Faults \subseteq {"lapse", "due", "fail", "crash"}
    /\ {MaxOps, MaxLapses, MaxQueued, MaxRunning} \subseteq Nat

Dispatch == {"held", "queued", "claimed", "finished"}

Bucket == [held : Nat, queued : Nat, running : Nat, version : Nat]

\* dispatch_state, status and last_event_seq.
Row == [st : Dispatch, status : {"pending", "failed", "cancelled"}, seq : Nat]

None == [none |-> TRUE]

Pcs == {"idle", "rebuild", "runs", "commit"}

Scan == [pc : Pcs,
         seen : [Runs -> Row] \cup {None}, \* the AgentRun objects of the session
         todo : SUBSET Runs,               \* runs the loop has not reached
         moved : [Runs -> {"no", "queued", "finished"}], \* uncommitted conditional UPDATEs
         base : Bucket \cup {None},        \* the bucket object as loaded
         obj : Bucket \cup {None},         \* the bucket object as changed
         wrote : Bucket \cup {None}]       \* uncommitted UPDATE of the bucket

Session == [op : Ops \cup {"none"}, run : Runs, view : Row]

VARIABLES
    rows,     \* committed AgentRuns
    lapsed,   \* claimed runs whose Worker lease has expired
    due,      \* pending runs past a TTL or deadline, or with a dead run_dispatch
    bucket,   \* committed AdmissionBucket
    api,      \* ORM transactions
    scan,     \* Reconciler processes
    holder,   \* acquisition whose owner and token are in the unexpired lease row
    ops,      \* transactions so far
    lapses    \* reconciler leases lost so far

vars == <<rows, lapsed, due, bucket, api, scan, holder, ops, lapses>>

work == <<rows, lapsed, due, bucket, api, ops>>

-----------------------------------------------------------------------------

NoScan == [pc |-> "idle", seen |-> None, todo |-> {}, moved |-> [r \in Runs |-> "no"],
           base |-> None, obj |-> None, wrote |-> None]

NoSession == [op |-> "none", run |-> CHOOSE r \in Runs : TRUE,
              view |-> [st |-> "held", status |-> "pending", seq |-> 0]]

\* Runs are created held or queued, each counted once.
Init ==
    /\ rows = [r \in Runs |-> [st |-> IF r \in Queued THEN "queued" ELSE "held",
                               status |-> "pending", seq |-> 0]]
    /\ bucket = [held |-> Cardinality(Runs \ Queued), queued |-> Cardinality(Queued),
                 running |-> 0, version |-> 1]
    /\ lapsed = {} /\ due = {}
    /\ api = [s \in Clients |-> NoSession]
    /\ scan = [c \in Scanners |-> NoScan]
    /\ holder = Nobody
    /\ ops = 0 /\ lapses = 0

\* The counter a dispatch_state occupies.
Counter(st) == [held |-> "held", queued |-> "queued", claimed |-> "running",
                finished |-> "version"][st]

\* (mutant) Without max(0, ...).
TakeNegative(b, st) == IF st = "finished" THEN b ELSE [b EXCEPT ![Counter(st)] = @ - 1]

\* transition_run, the release: a counter never becomes negative.
Take(b, st) ==
    IF st = "finished" \/ b[Counter(st)] = 0 THEN b
    ELSE [b EXCEPT ![Counter(st)] = @ - 1]

\* transition_run, AdmissionRejected.
Full(b, st) == \/ st = "queued" /\ b.queued >= MaxQueued
               \/ st = "claimed" /\ b.running >= MaxRunning

\* transition_run: release, occupy, count the version.
Transition(b, old, new) ==
    LET c == Take(b, old)
        d == IF new = "finished" THEN c ELSE [c EXCEPT ![Counter(new)] = @ + 1]
    IN  [d EXCEPT !.version = @ + 1]

Rejected(b, old, new) == Full(Take(b, old), new)

\* _reconcile_admission_buckets: counts of the rows it was given.
Count(seen, st) == Cardinality({r \in Runs : seen[r].st = st})

Matches(b, seen) ==
    /\ b.held = Count(seen, "held")
    /\ b.queued = Count(seen, "queued")
    /\ b.running = Count(seen, "claimed")

\* Row locks of the scans' open transactions.
RunLocked(r, c) == \E d \in Scanners \ {c} : scan[d].moved[r] # "no"

BucketLocked(c) ==
    \E d \in Scanners \ {c} :
        scan[d].wrote # None \/ \E r \in Runs : scan[d].moved[r] # "no"

-----------------------------------------------------------------------------
(* API requests and finishing Workers: load, change the object, commit *)

Applies(op, row) ==
    \/ op = "start" /\ row.st = "held" /\ row.status = "pending"
    \/ op = "cancel" /\ row.st \in {"held", "queued"}
    \/ op = "finish" /\ row.st = "claimed"

\* The object after the service has changed it.
Changed(op, row) ==
    CASE op = "start" -> [row EXCEPT !.st = "queued"]
      [] op = "cancel" -> [row EXCEPT !.st = "finished", !.status = "cancelled", !.seq = @ + 1]
      [] op = "finish" -> [row EXCEPT !.st = "finished", !.status = "failed", !.seq = @ + 1]

\* Commit writes the columns that differ from the loaded ones.
Flush(now, view, mine) ==
    [f \in DOMAIN now |-> IF mine[f] # view[f] THEN mine[f] ELSE now[f]]

Load(s, r, op) ==
    /\ api[s].op = "none" /\ ops < MaxOps
    /\ op \in Ops /\ Applies(op, rows[r])
    /\ op = "finish" => r \notin lapsed
    /\ api' = [api EXCEPT ![s] = [op |-> op, run |-> r, view |-> rows[r]]]
    /\ ops' = ops + 1
    /\ UNCHANGED <<rows, lapsed, due, bucket, scan, holder, lapses>>

\* transition_run on the loaded object, the callback, session.commit().  A second
\* callback with the same event_seq and a full counter roll everything back.
Commit(s) ==
    LET r == api[s].run  v == api[s].view  m == Changed(api[s].op, v)
    IN  /\ api[s].op # "none"
        /\ ~RunLocked(r, Nobody) /\ ~BucketLocked(Nobody)
        /\ \/ /\ Rejected(bucket, v.st, m.st) \/ (m.seq # v.seq /\ rows[r].seq # v.seq)
              /\ UNCHANGED <<rows, bucket, lapsed>>
           \/ /\ ~Rejected(bucket, v.st, m.st)
              /\ m.seq # v.seq => rows[r].seq = v.seq
              /\ rows' = [rows EXCEPT ![r] = Flush(@, v, m)]
              /\ bucket' = Transition(bucket, v.st, m.st)
              /\ lapsed' = lapsed \ {r}
        /\ api' = [api EXCEPT ![s] = NoSession]
        /\ UNCHANGED <<due, scan, holder, ops, lapses>>

-----------------------------------------------------------------------------
(* Workers *)

\* (mutant) The reaper looks at runs nobody holds.
ExpiredQueued == {r \in lapsed : rows[r].st = "queued"}

\* reap_expired: claimed runs whose lease has run out.
Expired == {r \in lapsed : rows[r].st = "claimed"}

\* One AdmissionRejected ends the whole call, and whatever called it.
ReapRejected == Expired # {} /\ bucket.queued + Cardinality(Expired) > MaxQueued

\* transition_run(claimed, queued) for each of n runs.
ReapBucket(b, n) ==
    [b EXCEPT !.running = IF @ < n THEN 0 ELSE @ - n, !.queued = @ + n, !.version = @ + n]

\* WorkerLoop.run_once, first part: all expired leases are reaped, or the cycle ends.
Reap ==
    /\ Expired # {} /\ ~ReapRejected /\ ~BucketLocked(Nobody)
    /\ rows' = [r \in Runs |-> IF r \in Expired THEN [rows[r] EXCEPT !.st = "queued"] ELSE rows[r]]
    /\ bucket' = ReapBucket(bucket, Cardinality(Expired))
    /\ lapsed' = lapsed \ Expired
    /\ UNCHANGED <<due, api, scan, holder, ops, lapses>>

\* Second part, RunQueueService.consume of a notified run: the conditional UPDATE and
\* the move in one transaction.
Claim(r) ==
    /\ ~ReapRejected /\ ops < MaxOps
    /\ rows[r].st = "queued" /\ rows[r].status = "pending"
    /\ ~RunLocked(r, Nobody) /\ ~BucketLocked(Nobody)
    /\ ~Rejected(bucket, "queued", "claimed")
    /\ rows' = [rows EXCEPT ![r].st = "claimed"]
    /\ bucket' = Transition(bucket, "queued", "claimed")
    /\ ops' = ops + 1
    /\ lapsed' = lapsed \ {r}
    /\ UNCHANGED <<due, api, scan, holder, lapses>>

-----------------------------------------------------------------------------
(* The Reconciler *)

\* renew, before every run and before the commit.
Guard(c) == holder = c

\* The bucket object and the transaction after a SELECT ... FOR UPDATE.
Loaded(c) ==
    LET now == IF scan[c].wrote # None THEN scan[c].wrote ELSE bucket
    IN  IF scan[c].obj # None THEN scan[c]
        ELSE [scan[c] EXCEPT !.base = now, !.obj = now]

\* acquire (the row is free, released or expired), reap_expired(commit=False), and the
\* runs and the bucket are read.  A bucket that agrees with the runs stays in the
\* session as it is.
Acquire(c) ==
    /\ scan[c].pc = "idle" /\ holder = Nobody
    /\ ~ReapRejected
    /\ Expired = {} \/ ~BucketLocked(c)
    /\ LET seen == [r \in Runs |-> IF r \in Expired THEN [rows[r] EXCEPT !.st = "queued"]
                                                    ELSE rows[r]]
           mine == IF Expired = {} THEN bucket ELSE ReapBucket(bucket, Cardinality(Expired))
       IN  scan' = [scan EXCEPT ![c] =
               [pc |-> IF Matches(mine, seen) THEN "runs" ELSE "rebuild",
                seen |-> seen, todo |-> Runs,
                moved |-> [r \in Runs |-> IF r \in Expired THEN "queued" ELSE "no"],
                base |-> bucket, obj |-> mine, wrote |-> None]]
    /\ holder' = c
    /\ UNCHANGED <<work, lapses>>

\* _repair_admission_bucket: a conditional UPDATE on the version the object has.  The
\* object is expired either way, and with it the moves the session has not flushed.
Rebuild(c) ==
    /\ scan[c].pc = "rebuild" /\ ~BucketLocked(c)
    /\ scan' = [scan EXCEPT ![c] =
          [@ EXCEPT !.pc = "runs", !.base = None, !.obj = None,
                    !.wrote = IF scan[c].obj.version # bucket.version THEN None
                              ELSE [held |-> Count(scan[c].seen, "held"),
                                    queued |-> Count(scan[c].seen, "queued"),
                                    running |-> Count(scan[c].seen, "claimed"),
                                    version |-> bucket.version + 1]]]
    /\ UNCHANGED <<work, holder, lapses>>

\* (mutant) The status the scan has read is not compared with the row.
UnchangedIgnored(c, r) == TRUE

\* _terminate applies to the row the scan has read, unless it has changed since.
Unchanged(c, r) ==
    LET row == IF scan[c].moved[r] = "queued" THEN [rows[r] EXCEPT !.st = "queued"] ELSE rows[r]
    IN  /\ row.st = scan[c].seen[r].st
        /\ row.status = scan[c].seen[r].status

\* One run of the loop: guard, the repairs that end a held or queued run, _terminate.
Repair(c, r) ==
    /\ scan[c].pc = "runs" /\ Guard(c)
    /\ r \in scan[c].todo
    /\ LET s == [scan[c] EXCEPT !.todo = @ \ {r}]
           end == /\ r \in due /\ s.seen[r].status = "pending"
                  /\ s.seen[r].st \in {"held", "queued"}
           l == [Loaded(c) EXCEPT !.todo = @ \ {r}]
       IN  \/ /\ end => ~RunLocked(r, c) /\ ~Unchanged(c, r)
              /\ scan' = [scan EXCEPT ![c] = s]
           \/ /\ end /\ Unchanged(c, r)
              /\ ~RunLocked(r, c) /\ ~BucketLocked(c)
              /\ scan' = [scan EXCEPT ![c] =
                    [l EXCEPT !.moved[r] = "finished",
                              !.obj = Transition(@, s.seen[r].st, "finished")]]
    /\ UNCHANGED <<work, holder, lapses>>

\* The last guard; the commit comes later.
LastGuard(c) ==
    /\ scan[c].pc = "runs" /\ scan[c].todo = {} /\ Guard(c)
    /\ scan' = [scan EXCEPT ![c].pc = "commit"]
    /\ UNCHANGED <<work, holder, lapses>>

\* The row after the scan's UPDATE of run r.
Moved(row, how) ==
    CASE how = "no" -> row
      [] how = "queued" -> [row EXCEPT !.st = "queued"]
      [] how = "finished" -> [row EXCEPT !.st = "finished", !.status = "failed", !.seq = @ + 1]

\* release: only the acquisition in the row is given up.
Released(c) == IF holder = c THEN Nobody ELSE holder

\* (mutant) The repaired counts are not in the transaction.
CommitScanLoses(c) ==
    /\ scan[c].pc = "commit"
    /\ rows' = [r \in Runs |-> Moved(rows[r], scan[c].moved[r])]
    /\ lapsed' = lapsed \ {r \in Runs : scan[c].moved[r] # "no"}
    /\ scan' = [scan EXCEPT ![c] = NoScan]
    /\ holder' = Released(c)
    /\ UNCHANGED <<due, bucket, api, ops, lapses>>

\* commit and release.
CommitScan(c) ==
    /\ scan[c].pc = "commit"
    /\ rows' = [r \in Runs |-> Moved(rows[r], scan[c].moved[r])]
    /\ LET now == IF scan[c].wrote # None THEN scan[c].wrote ELSE bucket
       IN  bucket' = IF scan[c].obj = None THEN now
                     ELSE Flush(now, scan[c].base, scan[c].obj)
    /\ lapsed' = lapsed \ {r \in Runs : scan[c].moved[r] # "no"}
    /\ scan' = [scan EXCEPT ![c] = NoScan]
    /\ holder' = Released(c)
    /\ UNCHANGED <<due, api, ops, lapses>>

\* A guard fails: everything is rolled back.
Abort(c) ==
    /\ scan[c].pc = "runs" /\ ~Guard(c)
    /\ scan' = [scan EXCEPT ![c] = NoScan]
    /\ UNCHANGED <<work, holder, lapses>>

\* The database makes the transaction a deadlock victim or a lock wait times out.
ScanFails(c) ==
    /\ "fail" \in Faults /\ lapses < MaxLapses
    /\ scan[c].pc # "idle"
    /\ scan' = [scan EXCEPT ![c] = NoScan]
    /\ holder' = Released(c)
    /\ lapses' = lapses + 1
    /\ UNCHANGED work

-----------------------------------------------------------------------------
(* Time and crashes *)

\* A Worker is gone or too slow.
LeaseLapses(r) ==
    /\ "lapse" \in Faults
    /\ rows[r].st = "claimed" /\ r \notin lapsed
    /\ lapsed' = lapsed \cup {r}
    /\ UNCHANGED <<rows, due, bucket, api, scan, holder, ops, lapses>>

BecomesDue(r) ==
    /\ "due" \in Faults
    /\ r \notin due /\ rows[r].status = "pending" /\ rows[r].st \in {"held", "queued"}
    /\ due' = due \cup {r}
    /\ UNCHANGED <<rows, lapsed, bucket, api, scan, holder, ops, lapses>>

\* The reconciler's lease runs out although its holder goes on.
ScanLeaseLapses ==
    /\ lapses < MaxLapses
    /\ holder # Nobody /\ scan[holder].pc # "idle"
    /\ holder' = Nobody /\ lapses' = lapses + 1
    /\ UNCHANGED <<work, scan>>

\* The database ends the transaction of a dead process; its lease is left behind.
ScanCrashes(c) ==
    /\ "crash" \in Faults /\ lapses < MaxLapses
    /\ scan[c].pc # "idle"
    /\ scan' = [scan EXCEPT ![c] = NoScan]
    /\ lapses' = lapses + 1
    /\ UNCHANGED <<work, holder>>

AbandonedLeaseExpires ==
    /\ holder # Nobody /\ scan[holder].pc = "idle"
    /\ holder' = Nobody
    /\ UNCHANGED <<work, scan, lapses>>

-----------------------------------------------------------------------------

Step(c) ==
    \/ Acquire(c) \/ Rebuild(c) \/ (\E r \in Runs : Repair(c, r)) \/ LastGuard(c)
    \/ CommitScan(c) \/ Abort(c)

Next ==
    \/ \E s \in Clients : Commit(s) \/ \E r \in Runs, op \in Ops : Load(s, r, op)
    \/ Reap \/ \E r \in Runs : Claim(r)
    \/ \E c \in Scanners : Step(c) \/ ScanFails(c) \/ ScanCrashes(c)
    \/ \E r \in Runs : LeaseLapses(r) \/ BecomesDue(r)
    \/ ScanLeaseLapses \/ AbandonedLeaseExpires

\* Transactions end, Worker loops and the reconciler's cycle go round, leases expire.
Fairness ==
    /\ \A s \in Clients : WF_vars(Commit(s))
    /\ WF_vars(Reap)
    /\ \A c \in Scanners : WF_vars(Step(c))
    /\ WF_vars(\E c \in Scanners : Acquire(c))
    /\ WF_vars(AbandonedLeaseExpires)

Spec == Init /\ [][Next]_vars

FairSpec == Spec /\ Fairness

-----------------------------------------------------------------------------

\* The shape of the state.
TypeOK ==
    /\ rows \in [Runs -> Row]
    /\ lapsed \subseteq Runs /\ due \subseteq Runs
    /\ bucket \in Bucket
    /\ api \in [Clients -> Session]
    /\ scan \in [Scanners -> Scan]
    /\ holder \in Scanners \cup {Nobody}
    /\ ops \in 0..MaxOps /\ lapses \in 0..MaxLapses

\* However requests, Workers and two overlapping scans race, the end of a finished run
\* is not replaced: no scan that read it earlier ends it again, no request or Worker
\* that loaded it earlier reports another end (the conditional UPDATE of _terminate,
\* UNIQUE(run_id, event_seq) against the ORM writers).
EndStays ==
    [][\A r \in Runs : rows[r].st = "finished" => rows'[r].status = rows[r].status]_vars

\* Whatever the races have done to the counters, they agree with the rows again and
\* for good once the traffic has stopped (_reconcile_admission_buckets).
AdmissionConverges == <>[]Matches(bucket, rows)

\* A claimed run whose lease has run out is taken back or ended (reap_expired).
ExpiredIsReaped ==
    \A r \in Runs : (r \in lapsed /\ rows[r].st = "claimed")
                        ~> ~(r \in lapsed /\ rows[r].st = "claimed")

=============================================================================
