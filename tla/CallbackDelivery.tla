-------------------------- MODULE CallbackDelivery --------------------------
(***************************************************************************)
(* From the run's ledger to the business side's picture of the run.        *)
(*                                                                         *)
(* Every callback of the feed has an outbox row.  Dispatchers claim rows   *)
(* by conditional update, send, and commit the results of a whole batch at *)
(* once; a crash before that commit forgets what was sent.  The receiver   *)
(* (memory_callbacks_api) replays known idempotency keys and otherwise     *)
(* projects the callback onto MemoryAgentRunRef.  The launcher, a session  *)
(* of runtime_launcher.run_once, starts held runs and repairs the          *)
(* projection from the run's summary when callbacks are missing.           *)
(*                                                                         *)
(* One run, bound to its archive, is modelled.  The run itself is any      *)
(* behaviour that RunFeed allows, one callback per commit.                 *)
(***************************************************************************)
EXTENDS Integers, Sequences, FiniteSets

CONSTANTS
    Dispatchers,    \* dispatcher processes
    Callbacks,      \* types of callback the run may make
    MaxEvents,      \* bound on the callbacks of the run
    MaxAttempts,    \* delivery attempts before dead_letter, 5 in the code
    MaxReplays,     \* bound on dead-letter replays
    SnapshotReads,  \* TRUE when plain reads see the transaction's first snapshot
    Faults          \* what may go wrong, see AllFaults

AllFaults == {"crash", "lost", "late", "expire", "purge", "delete", "retry",
              "requeue", "overdue", "remote"}

ASSUME DeliveryAssumption ==
    /\ Callbacks \subseteq {"run_started", "step_changed", "waiting_human",
                            "succeeded", "partial", "failed", "cancelled"}
    /\ MaxEvents \in Nat
    /\ MaxAttempts \in Nat \ {0}
    /\ MaxReplays \in Nat
    /\ SnapshotReads \in BOOLEAN
    /\ Faults \subseteq AllFaults

VARIABLES
    row, feed,  \* the run, see RunFeed
    started,    \* the run has left dispatch_state held
    outbox,     \* RuntimeOutboxEvent of each callback, in event_seq order
    replays,    \* replay_dead_letter calls so far
    disp,       \* dispatcher sessions
    inflight,   \* requests given up by their sender that may still arrive
    seen,       \* callbacks with an idempotency record at the receiver
    ref,        \* MemoryAgentRunRef
    archive,    \* MemoryArchive
    launch,     \* status of the start_held MemoryRuntimeLaunchEvent
    boss        \* the launcher's session

runVars == <<row, feed, started, outbox>>
receiverVars == <<seen, ref, archive>>
launcherVars == <<launch, boss>>
vars == <<row, feed, started, outbox, replays, disp, inflight, seen, ref, archive, launch, boss>>

Run == INSTANCE RunFeed

Ref == [status : Run!RowStatuses \cup {"pending_start"}, seq : Nat, sv : Nat, rv : Nat,
        recon : {"not_needed", "needed"}, keyed : BOOLEAN, purged : BOOLEAN]

\* MemoryAgentBindingService.bind has created the reference.
NewRef == [status |-> "pending_start", seq |-> 0, sv |-> 1, rv |-> 1,
           recon |-> "not_needed", keyed |-> FALSE, purged |-> FALSE]

IdleDispatcher == [todo |-> {}, sent |-> {}, failed |-> {}, privacy |-> "unread"]

IdleBoss ==
    [pc |-> "idle", path |-> "none", snap |-> NewRef, loaded |-> FALSE, view |-> NewRef,
     mine |-> NewRef, start |-> "pending", held |-> {},
     remote |-> [status |-> "pending", sv |-> 1, seq |-> 0, privacy |-> "active"]]

Init ==
    /\ Run!Init
    /\ started = FALSE
    /\ outbox = <<>>
    /\ replays = 0
    /\ disp = [d \in Dispatchers |-> IdleDispatcher]
    /\ inflight = {}
    /\ seen = {}
    /\ ref = NewRef
    /\ archive = [active |-> TRUE, published |-> FALSE, content |-> "baseline"]
    /\ launch = "pending"
    /\ boss = IdleBoss

-----------------------------------------------------------------------------
(* The run: one commit, with or without a callback and its outbox row. *)

RunCommits(status, added) ==
    /\ feed' = feed \o added
    /\ row' = [row EXCEPT !.status = status, !.seq = @ + Len(added),
                          !.sv = IF status = row.status THEN @ ELSE @ + 1]
    /\ outbox' = outbox \o [i \in 1..Len(added) |-> [status |-> "pending", tries |-> 0]]
    /\ Run!Next
    /\ UNCHANGED <<started, replays, disp, inflight, receiverVars, launcherVars>>

RunAnnounces(type) ==
    /\ Len(feed) < MaxEvents
    /\ started \/ type = "cancelled"
    /\ row.status \in Run!Outcomes => type = "cancelled"
    /\ type \in {"succeeded", "partial", "step_changed", "waiting_human"} => row.status = "running"
    /\ type = "run_started" => row.status # "running"
    /\ LET status == Run!StatusOf(type)
           sv == IF status = row.status THEN row.sv ELSE row.sv + 1
       IN  RunCommits(status, <<[type |-> type, sv |-> sv]>>)

\* reap_expired requeues a running run without a callback.
RunRequeued ==
    /\ "requeue" \in Faults /\ row.status = "running"
    /\ RunCommits("pending", <<>>)

\* retry: no callback either.  It needs a checkpoint, so an attempt has started.
RunRetried ==
    /\ "retry" \in Faults /\ row.status \in {"failed", "partial"} /\ row.privacy = "active"
    /\ \E i \in 1..Len(feed) : feed[i].type = "run_started"
    /\ RunCommits("pending", <<>>)

RunPurged ==
    /\ "purge" \in Faults
    /\ \/ row.privacy = "active" /\ row' = [row EXCEPT !.privacy = "purge_requested"]
       \/ /\ row.privacy = "purge_requested" /\ row.status \in Run!Outcomes
          /\ row' = [row EXCEPT !.privacy = "purged"]
    /\ UNCHANGED <<feed, started, outbox, replays, disp, inflight, receiverVars, launcherVars>>

-----------------------------------------------------------------------------
(* The receiver: memory_callbacks_api and MemoryAgentCallbackService.apply  *)

\* with_for_update on the reference and the archive waits for the launcher.
ReceiverFree == boss.held = {}

Stale(e) == e <= ref.seq \/ feed[e].sv < ref.sv

\* (mutant) run_succeeded is taken at its word.
UnconfirmedNever(status) == FALSE

\* A success is projected only onto a published archive.
Unconfirmed(status) ==
    status \in {"succeeded", "partial"} /\ ~(archive.published /\ archive.content = "succeeded")

\* _ARCHIVE_STATUS_BY_EVENT, before publication only.
Shown(status) ==
    IF archive.published \/ status \in {"succeeded", "partial"} THEN archive.content ELSE status

Apply(e) ==
    LET status == Run!StatusOf(feed[e].type) IN
    IF Stale(e) THEN UNCHANGED <<ref, archive>>
    ELSE IF Unconfirmed(status)
    THEN ref' = [ref EXCEPT !.recon = "needed"] /\ UNCHANGED archive
    ELSE /\ ref' = [ref EXCEPT !.status = status, !.seq = e, !.sv = feed[e].sv,
                               !.rv = @ + 1, !.recon = "not_needed"]
         /\ archive' = [archive EXCEPT !.content = Shown(status)]

Accepts(e) == e \in seen \/ archive.active

\* One request; a refused one (403) leaves no trace.
Handle(e) ==
    /\ ReceiverFree
    /\ IF e \notin seen /\ archive.active
       THEN Apply(e) /\ seen' = seen \cup {e}
       ELSE UNCHANGED receiverVars

\* A request whose sender has stopped waiting reaches the receiver after all.
LateArrival(e) ==
    /\ e \in inflight
    /\ inflight' = inflight \ {e}
    /\ Handle(e)
    /\ UNCHANGED <<runVars, replays, disp, launcherVars>>

\* Idempotency records are kept seven days.
RecordExpires(e) ==
    /\ "expire" \in Faults /\ e \in seen
    /\ seen' = seen \ {e}
    /\ UNCHANGED <<runVars, replays, disp, inflight, ref, archive, launcherVars>>

\* The publishing tool, called by the running attempt.
Publish ==
    /\ row.status = "running" /\ archive.active /\ ~archive.published
    /\ "archive" \notin boss.held
    /\ archive' = [archive EXCEPT !.published = TRUE, !.content = "succeeded"]
    /\ UNCHANGED <<runVars, replays, disp, inflight, seen, ref, launcherVars>>

\* The archive is deleted or moves on to another generation.
Supersede ==
    /\ "delete" \in Faults /\ archive.active /\ "archive" \notin boss.held
    /\ archive' = [archive EXCEPT !.active = FALSE, !.content = "cancelled"]
    /\ UNCHANGED <<runVars, replays, disp, inflight, seen, ref, launcherVars>>

-----------------------------------------------------------------------------
(* Dispatchers: Dispatcher.dispatch_pending *)

Pending == {e \in 1..Len(outbox) : outbox[e].status = "pending"}

\* The candidates are the pending rows whose next_attempt_at has come; the query
\* has no order.
Scan(d) ==
    /\ disp[d] = IdleDispatcher
    /\ \E due \in SUBSET Pending \ {{}} : disp' = [disp EXCEPT ![d].todo = due]
    /\ UNCHANGED <<runVars, replays, inflight, receiverVars, launcherVars>>

\* The row lock of the claiming UPDATE lasts until the batch commits.
Unclaimed(d, e) ==
    \A other \in Dispatchers \ {d} : e \notin disp[other].sent \cup disp[other].failed

Claims(d, e) ==
    e \in disp[d].todo /\ Unclaimed(d, e) /\ outbox[e].status = "pending"

\* The other dispatcher has committed its claim meanwhile.
SkipClaimed(d, e) ==
    /\ e \in disp[d].todo /\ outbox[e].status # "pending"
    /\ disp' = [disp EXCEPT ![d].todo = @ \ {e}]
    /\ UNCHANGED <<runVars, replays, inflight, receiverVars, launcherVars>>

\* privacy_state of the AgentRun in the session: loaded for the first callback of
\* the batch, and kept by the identity map for the others.
Privacy(d) == IF disp[d].privacy = "unread" THEN row.privacy ELSE disp[d].privacy

Sent(d, e) ==
    disp' = [disp EXCEPT ![d].todo = @ \ {e}, ![d].sent = @ \cup {e}, ![d].privacy = Privacy(d)]

Failed(d, e) ==
    disp' = [disp EXCEPT ![d].todo = @ \ {e}, ![d].failed = @ \cup {e}, ![d].privacy = Privacy(d)]

Deliver(d, e) ==
    /\ Claims(d, e) /\ Privacy(d) = "active"
    /\ Handle(e)
    /\ IF Accepts(e) THEN Sent(d, e) ELSE Failed(d, e)
    /\ UNCHANGED <<runVars, replays, inflight, launcherVars>>

\* CALLBACK_RUN_NOT_ACTIVE: refused before anything is sent.
RefuseWithdrawn(d, e) ==
    /\ Claims(d, e) /\ Privacy(d) # "active"
    /\ Failed(d, e)
    /\ UNCHANGED <<runVars, replays, inflight, receiverVars, launcherVars>>

\* Timeout, connection error or a revoked target; the request may be on its way.
DeliveryTimesOut(d, e) ==
    /\ "lost" \in Faults
    /\ Claims(d, e) /\ Privacy(d) = "active"
    /\ Failed(d, e)
    /\ inflight' \in {inflight} \cup (IF "late" \in Faults THEN {inflight \cup {e}} ELSE {})
    /\ UNCHANGED <<runVars, replays, receiverVars, launcherVars>>

\* (mutant) The limit is tested for equality with the number before the attempt.
AfterFailureNoLimit(o) ==
    [status |-> IF o.tries = MaxAttempts THEN "dead_letter" ELSE "pending",
     tries |-> o.tries + 1]

AfterFailure(o) ==
    [status |-> IF o.tries + 1 >= MaxAttempts THEN "dead_letter" ELSE "pending",
     tries |-> o.tries + 1]

\* (mutant) One answer decides for the whole batch.
CommitBatchWhole(d) ==
    /\ disp[d] # IdleDispatcher /\ disp[d].todo = {}
    /\ outbox' = [e \in 1..Len(outbox) |->
                    IF e \notin disp[d].sent \cup disp[d].failed THEN outbox[e]
                    ELSE IF disp[d].sent # {} THEN [outbox[e] EXCEPT !.status = "delivered"]
                    ELSE AfterFailure(outbox[e])]
    /\ disp' = [disp EXCEPT ![d] = IdleDispatcher]
    /\ UNCHANGED <<row, feed, started, replays, inflight, receiverVars, launcherVars>>

\* run_once commits once for all callbacks of the batch.
CommitBatch(d) ==
    /\ disp[d] # IdleDispatcher /\ disp[d].todo = {}
    /\ outbox' = [e \in 1..Len(outbox) |->
                    IF e \in disp[d].sent THEN [outbox[e] EXCEPT !.status = "delivered"]
                    ELSE IF e \in disp[d].failed THEN AfterFailure(outbox[e])
                    ELSE outbox[e]]
    /\ disp' = [disp EXCEPT ![d] = IdleDispatcher]
    /\ UNCHANGED <<row, feed, started, replays, inflight, receiverVars, launcherVars>>

DispatcherCrashes(d) ==
    /\ "crash" \in Faults /\ disp[d] # IdleDispatcher
    /\ disp' = [disp EXCEPT ![d] = IdleDispatcher]
    /\ UNCHANGED <<runVars, replays, inflight, receiverVars, launcherVars>>

ReplayDeadLetter(e) ==
    /\ replays < MaxReplays
    /\ outbox[e].status = "dead_letter"
    /\ outbox' = [outbox EXCEPT ![e] = [status |-> "pending", tries |-> 0]]
    /\ replays' = replays + 1
    /\ UNCHANGED <<row, feed, started, disp, inflight, receiverVars, launcherVars>>

-----------------------------------------------------------------------------
(* The launcher: runtime_launcher.run_once, one transaction from the first  *)
(* query to the commit.                                                     *)

RunAndDelivery == <<row, feed, outbox, replays, disp, inflight, seen, archive>>

\* What a plain SELECT of the session returns.
Read == IF SnapshotReads THEN boss.snap ELSE ref

\* The identity map: an object once loaded keeps the values it was loaded with.
Loaded(b) == IF b.loaded THEN b ELSE [b EXCEPT !.loaded = TRUE, !.view = Read, !.mine = Read]

LauncherBegins ==
    /\ boss.pc = "idle"
    /\ boss' = [IdleBoss EXCEPT !.pc = IF launch = "pending" THEN "call" ELSE "compensate",
                                !.path = "deliver", !.start = launch,
                                !.snap = IF SnapshotReads THEN ref ELSE NewRef]
    /\ UNCHANGED <<RunAndDelivery, started, ref, launch>>

\* Where _deliver_start returns to: deliver_pending, or reconcile_pending_start.
Returns(b) == [b EXCEPT !.pc = IF b.path = "deliver" THEN "compensate" ELSE "reconcile"]

\* start_held is idempotent under its key; a run that has ended refuses it.
Startable == started \/ row.status = "pending"

StartAccepted ==
    /\ boss.pc = "call" /\ Startable
    /\ started' = TRUE
    /\ boss' = [boss EXCEPT !.pc = "bind"]
    /\ UNCHANGED <<RunAndDelivery, ref, launch>>

\* Refused, not answered, or answered too late: the intent stays pending.
StartFails ==
    /\ boss.pc = "call"
    /\ \/ ~Startable /\ started' = started
       \/ "lost" \in Faults /\ started' \in {started, started \/ Startable}
    /\ boss' = Returns([boss EXCEPT !.start = "pending"])
    /\ UNCHANGED <<RunAndDelivery, ref, launch>>

\* (mutant) _deliver_start sets the status without looking at it.
BoundAlways(r) ==
    [r EXCEPT !.status = "pending", !.rv = @ + 1, !.keyed = TRUE]

\* _deliver_start after the call: fill the start key once, pending_start -> pending.
Bound(r) ==
    [r EXCEPT !.status = IF @ = "pending_start" THEN "pending" ELSE @,
              !.rv = @ + (IF r.keyed THEN 0 ELSE 1) + (IF r.status = "pending_start" THEN 1 ELSE 0),
              !.keyed = TRUE]

\* bind locks the archive, but reads the reference without a lock.
Bind ==
    /\ boss.pc = "bind"
    /\ boss' = LET b == Loaded(boss) IN
               Returns(IF archive.active
                       THEN [b EXCEPT !.mine = Bound(@), !.start = "delivered", !.held = {"archive"}]
                       ELSE [boss EXCEPT !.start = "pending", !.held = {"archive"}])
    /\ UNCHANGED <<RunAndDelivery, started, ref, launch>>

\* reconcile_pending_start: the query sees the database, not the session's
\* changes, and the 600 seconds may be over at any time.
Compensate ==
    /\ boss.pc = "compensate"
    /\ \/ /\ "overdue" \in Faults /\ Read.status = "pending_start"
          /\ boss' = [Loaded(boss) EXCEPT !.pc = "call", !.path = "compensate", !.start = "pending"]
       \/ boss' = [boss EXCEPT !.pc = "reconcile"]
    /\ UNCHANGED <<RunAndDelivery, started, ref, launch>>

\* (mutant) Only flagged references are queried.
WatchedFlaggedOnly(r) == r.recon = "needed"

\* The references reconcile_pending looks at.
Watched(r) ==
    r.recon = "needed" \/ r.status \in {"pending_start", "pending", "running", "waiting_human"}

\* The statuses MemoryAgentAdapter.get_run_state lets through.
Readable(status) == status # "partial"

\* reconcile_pending loads the references it watches, without a lock.
ScanRefs ==
    /\ boss.pc = "reconcile"
    /\ boss' = IF Watched(Read) THEN [Loaded(boss) EXCEPT !.pc = "scanned"]
               ELSE [boss EXCEPT !.pc = "commit"]
    /\ UNCHANGED <<RunAndDelivery, started, ref, launch>>

\* reconcile_run locks the reference, keeps the object it has, and asks the Runtime.
ReadRemote ==
    /\ boss.pc = "scanned"
    /\ Readable(row.status)
    /\ boss' = [boss EXCEPT !.pc = "read", !.held = @ \cup {"ref"}, !.remote = row]
    /\ UNCHANGED <<RunAndDelivery, started, ref, launch>>

\* An error of the adapter leaves run_once and rolls the whole round back.
RemoteFails ==
    /\ boss.pc = "scanned"
    /\ ~Readable(row.status) \/ "remote" \in Faults
    /\ boss' = IdleBoss
    /\ UNCHANGED <<RunAndDelivery, started, ref, launch>>

\* (mutant) The conditional UPDATE has no condition.
CurrentAlways(b) == TRUE

\* The WHERE clause of the conditional UPDATE, on the database row.
Current(b) ==
    ref.rv = b.mine.rv /\ ref.seq < b.remote.seq /\ ref.sv <= b.remote.sv

News(b) == b.remote.seq > b.mine.seq /\ b.remote.sv >= b.mine.sv

Reconciled(b) ==
    [ref EXCEPT !.status = b.remote.status, !.seq = b.remote.seq, !.sv = b.remote.sv,
                !.rv = @ + 1, !.recon = "not_needed"]

Net(mine, view, cur) == IF mine # view THEN mine ELSE cur

\* The commit writes the columns that changed in the session.
FlushRef(b) ==
    [ref EXCEPT !.status = Net(b.mine.status, b.view.status, @),
                !.rv = Net(b.mine.rv, b.view.rv, @),
                !.recon = Net(b.mine.recon, b.view.recon, @),
                !.keyed = Net(b.mine.keyed, b.view.keyed, @),
                !.purged = Net(b.mine.purged, b.view.purged, @)]

\* The rest of reconcile_run and the commit.  refresh discards what the session
\* had changed in the object and not yet flushed.
ReconcileAndCommit ==
    /\ boss.pc = "read"
    /\ ref' = LET b == [boss EXCEPT !.mine.purged = @ \/ boss.remote.privacy = "purged"] IN
              IF ~archive.active THEN FlushRef(boss)
              ELSE IF ~News(b) THEN FlushRef(b)
              ELSE IF Unconfirmed(b.remote.status)
              THEN FlushRef([b EXCEPT !.mine.recon = "needed"])
              ELSE IF Current(b) THEN Reconciled(b)
              ELSE FlushRef(b)
    /\ launch' = boss.start
    /\ boss' = IdleBoss
    /\ UNCHANGED <<RunAndDelivery, started>>

LauncherCommits ==
    /\ boss.pc = "commit"
    /\ ref' = IF boss.loaded THEN FlushRef(boss) ELSE ref
    /\ launch' = boss.start
    /\ boss' = IdleBoss
    /\ UNCHANGED <<RunAndDelivery, started>>

LauncherCrashes ==
    /\ "crash" \in Faults /\ boss.pc # "idle"
    /\ boss' = IdleBoss
    /\ UNCHANGED <<RunAndDelivery, started, ref, launch>>

-----------------------------------------------------------------------------
RunStep ==
    \/ \E type \in Callbacks : RunAnnounces(type)
    \/ RunRequeued \/ RunRetried \/ RunPurged

Dispatch(d) ==
    \/ Scan(d) \/ CommitBatch(d)
    \/ \E e \in disp[d].todo :
           SkipClaimed(d, e) \/ Deliver(d, e) \/ RefuseWithdrawn(d, e) \/ DeliveryTimesOut(d, e)

Receiver ==
    \/ \E e \in inflight : LateArrival(e)
    \/ \E e \in seen : RecordExpires(e)
    \/ Publish \/ Supersede

Launcher ==
    \/ LauncherBegins \/ StartAccepted \/ StartFails \/ Bind \/ Compensate
    \/ ScanRefs \/ ReadRemote \/ RemoteFails \/ ReconcileAndCommit
    \/ LauncherCommits \/ LauncherCrashes

Next ==
    \/ RunStep
    \/ \E d \in Dispatchers : Dispatch(d) \/ DispatcherCrashes(d)
    \/ Receiver
    \/ Launcher
    \/ \E e \in 1..Len(outbox) : ReplayDeadLetter(e)

Spec == Init /\ [][Next]_vars

\* cron starts the launcher every minute and its steps end, as do those of the
\* dispatchers; a query of the Runtime that is tried for ever is answered some
\* time.  Nothing is assumed of the run or of the delivery of any callback.
Fairness ==
    /\ \A d \in Dispatchers : WF_vars(Dispatch(d))
    /\ WF_vars(LauncherBegins)
    /\ WF_vars(StartAccepted \/ StartFails) /\ WF_vars(Bind) /\ WF_vars(Compensate)
    /\ WF_vars(ScanRefs) /\ WF_vars(RemoteFails) /\ SF_vars(ReadRemote)
    /\ SF_vars(ReconcileAndCommit) /\ WF_vars(LauncherCommits)

FairSpec == Spec /\ Fairness

-----------------------------------------------------------------------------
(* Properties *)

\* The types of the delivery side: outbox rows, references and sessions.
TypeOK ==
    /\ row.status \in Run!RowStatuses /\ row.seq = Len(feed)
    /\ outbox \in Seq([status : {"pending", "delivered", "dead_letter"}, tries : 0..MaxAttempts])
    /\ Len(outbox) = Len(feed)
    /\ replays \in 0..MaxReplays
    /\ \A d \in Dispatchers :
        disp[d] \in [todo : SUBSET (1..Len(feed)), sent : SUBSET (1..Len(feed)),
                     failed : SUBSET (1..Len(feed)),
                     privacy : {"unread", "active", "purge_requested", "purged"}]
    /\ inflight \subseteq 1..Len(feed) /\ seen \subseteq 1..Len(feed)
    /\ ref \in Ref
    /\ boss.view \in Ref /\ boss.mine \in Ref
    /\ boss.held \subseteq {"archive", "ref"}

\* What the business side shows is something the run really was: the status and
\* version of the callback whose number it carries, or the silent requeue that
\* followed it.  Callbacks arrive late, twice and out of order, and the launcher
\* writes from a session that may be outdated.
ProjectionIsTrue ==
    ref.seq > 0 =>
        LET e == feed[ref.seq] IN
        \/ ref.status = Run!StatusOf(e.type) /\ ref.sv = e.sv
        \/ ref.status = "pending" /\ ref.sv > e.sv

\* Once the run has left pending_start, every change of the shown status comes
\* with a newer callback number: nothing is shown again after something newer.
StatusOnlyMovesWithNews ==
    [][ref'.status # ref.status /\ ref.status # "pending_start" => ref'.seq > ref.seq]_ref

\* A success is shown only for an archive whose document is published.
SuccessIsPublished ==
    ref.status \in {"succeeded", "partial"} => archive.published

\* Publication survives everything the run does afterwards: a failure or a
\* cancel that arrives later does not take the published document's status away.
PublishedStays ==
    archive.published /\ archive.active => archive.content = "succeeded"

\* Together: what is shown of the outcome agrees with what is published.
PublicationIsShown == SuccessIsPublished /\ PublishedStays

\* At least once: a row is marked delivered only when the receiver has committed
\* its answer to that callback, whatever crashes, times out or is refused.
DeliveredWasAccepted ==
    \A e \in 1..Len(outbox) : outbox[e].status = "delivered" => e \in seen

\* The run has come to an outcome that the business side is able to show.
Settled ==
    /\ row.status \in Run!Outcomes /\ archive.active
    /\ row.status \in {"succeeded", "partial"} => archive.published

\* Even if every callback ends as a dead letter, the launcher brings the final outcome over.
ProjectionCatchesUp == <>[]Settled => <>[](ref.status = row.status)

=============================================================================
