---------------------------- MODULE MemoryLaunch ----------------------------
(***************************************************************************)
(* The business side's launch of a memoir run and its undoing, for one     *)
(* archive: MemoryRuntimeLaunchService (create_held, bind, start_held and  *)
(* the two compensations), run by runtime_launcher.run_once in one         *)
(* transaction that spans all its calls to the Runtime; the publication of *)
(* a revision; MemoryDeletionCompensationService (archive deletion, source *)
(* deletion, purge and cancel events) and MemoryRevisionGcService, run     *)
(* under the reconciler's lease.                                           *)
(*                                                                         *)
(* An archive is launched in generation 1 only: a later generation has no  *)
(* snapshot, or is deleted.  The Runtime is what RunLedger models, reduced *)
(* to what its client sees; run n is the n-th it created for the archive.  *)
(* A session (autoflush is off) keeps its writes to itself until the       *)
(* commit; FOR UPDATE holds a row until then.                              *)
(***************************************************************************)
EXTENDS Naturals, FiniteSets

CONSTANTS
    Launchers,      \* rounds of the cron job that may overlap
    None,           \* no run, no holder, no event
    MaxRuns,        \* runs the Runtime may create
    MaxTrouble,     \* failed calls, lost answers and rolled back rounds
    Faults          \* what may go wrong, see AllFaults

AllFaults == {"refused", "lost", "crash", "due", "held_ttl", "expire", "delete", "source", "week", "lease"}

Runs == 1..MaxRuns
Phases == {"create", "start"}
Actions == {"privacy_purge", "cancel"}

ASSUME LaunchAssumption ==
    /\ MaxRuns \in Nat \ {0} /\ MaxTrouble \in Nat
    /\ Faults \subseteq AllFaults
    /\ None \notin Launchers /\ None \notin Runs /\ None \notin Phases

VARIABLES
    archive,        \* row of memory_archives
    document,       \* the playback documents: the baseline and the enhanced one
    event,          \* the launch events by phase
    ref,            \* [Runs -> row of memory_agent_run_refs]
    comp,           \* [Runs -> compensation events by action]
    remote,         \* [Runs -> the run in the Runtime]
    key,            \* the run the create key's record names
    round,          \* [Launchers -> the round in progress]
    eventLock,      \* the round that locked the launch events' rows
    archiveLock,    \* the round that locked the archive's row
    request,        \* a publish request has been authorized
    gone,           \* a source the enhanced document cites was deleted
    trouble         \* what has gone wrong so far

business == <<archive, document, event, ref, comp, gone>>
runtime == <<remote, key>>
locks == <<eventLock, archiveLock>>
vars == <<business, runtime, round, locks, request, trouble>>

-----------------------------------------------------------------------------
(* Types *)

RunOrNone == Runs \cup {None}

Archive == [deleted : BOOLEAN, epoch : 1..3, active : RunOrNone, revision : 0..1, snapshot : BOOLEAN]

\* A document row: published, kept for a grace period, or not there.
Documents == [{"baseline", "enhanced"} -> {"shown", "kept", "absent"}]

Event == [status : {"absent", "pending", "delivered"}, run : RunOrNone]
Ref == [status : {"absent", "pending_start", "live", "ended"}, purge : {"active", "requested", "purged"}]

\* started: the answer to start is on record.
Remote == [state : {"absent", "held", "started", "ended"}, started : BOOLEAN,
           privacy : {"active", "requested", "purged"}, cancel : BOOLEAN]

\* at: the event being delivered; run: the answer to the call; did and of: what
\* the round has decided and not yet committed.
Round == [stage : {"idle", "deliver", "restart", "orphans"}, at : Phases \cup {None},
          run : RunOrNone, did : {"none", "bound", "unbound", "started"}, of : RunOrNone]

IdleRound == [stage |-> "idle", at |-> None, run |-> None, did |-> "none", of |-> None]

\* What archive_after_unbind commits: revision 0, the snapshot and the create event.
Init ==
    /\ archive = [deleted |-> FALSE, epoch |-> 1, active |-> None, revision |-> 0, snapshot |-> TRUE]
    /\ document = [baseline |-> "shown", enhanced |-> "absent"]
    /\ event = [create |-> [status |-> "pending", run |-> None],
                start |-> [status |-> "absent", run |-> None]]
    /\ ref = [r \in Runs |-> [status |-> "absent", purge |-> "active"]]
    /\ comp = [r \in Runs |-> [act \in Actions |-> "absent"]]
    /\ remote = [r \in Runs |-> [state |-> "absent", started |-> FALSE,
                                 privacy |-> "active", cancel |-> FALSE]]
    /\ key = None
    /\ round = [p \in Launchers |-> IdleRound]
    /\ eventLock = None /\ archiveLock = None
    /\ request = FALSE /\ gone = FALSE /\ trouble = 0

Goes(fault) == fault \in Faults /\ trouble < MaxTrouble /\ trouble' = trouble + 1

-----------------------------------------------------------------------------
(* The Runtime, as its client sees it *)

Newest(r) == remote[r].state = "absent" /\ \A q \in 1..(r - 1) : remote[q].state # "absent"

\* (mutant) The create endpoint does not look its key up.
CreatedUnkeyed(r) ==
    /\ Newest(r)
    /\ remote' = [remote EXCEPT ![r].state = "held"] /\ key' = r

\* create_run with the archive's stable key: the recorded answer, or a new run.
\* The unique record makes one of two overlapping creations fail.
Created(r) ==
    \/ r = key /\ UNCHANGED runtime
    \/ /\ key = None /\ Newest(r)
       /\ remote' = [remote EXCEPT ![r].state = "held"] /\ key' = r

\* AgentRunService.start behind its key: a recorded answer is given again.
Startable(r) ==
    \/ remote[r].started
    \/ remote[r].state \in {"held", "started"} /\ remote[r].privacy = "active" /\ ~remote[r].cancel

Started(r) ==
    remote' = [remote EXCEPT ![r].started = TRUE,
                             ![r].state = IF @ = "held" THEN "started" ELSE @]

\* AgentRunService.cancel: a run a worker holds only learns of the request.
AfterCancel(x) ==
    {[x EXCEPT !.cancel = TRUE, !.state = s] :
        s \in IF x.state = "started" THEN {"started", "ended"} ELSE {"ended"}}

\* AgentRunService.purge
AfterPurge(x) ==
    {[x EXCEPT !.cancel = TRUE, !.privacy = IF @ = "active" THEN "requested" ELSE @]}

\* The reconciler closes a held run after ten minutes.
HeldExpires(r) ==
    /\ "held_ttl" \in Faults /\ remote[r].state = "held"
    /\ remote' = [remote EXCEPT ![r].state = "ended"]
    /\ UNCHANGED <<business, key, round, locks, request, trouble>>

\* A started run ends, a run whose purge was requested is stopped, and the purge is
\* carried out (RunLedger's EveryRunEnds and PurgeCompletes).
RunEnds(r) ==
    /\ remote[r].state = "started" \/ (remote[r].state = "held" /\ remote[r].privacy # "active")
    /\ remote' = [remote EXCEPT ![r].state = "ended"]
    /\ UNCHANGED <<business, key, round, locks, request, trouble>>

PurgeEnds(r) ==
    /\ remote[r].privacy = "requested" /\ remote[r].state = "ended"
    /\ remote' = [remote EXCEPT ![r].privacy = "purged"]
    /\ UNCHANGED <<business, key, round, locks, request, trouble>>

\* The create record lives seven days; a run, and a round, at most one.
KeyExpires ==
    /\ "expire" \in Faults
    /\ key # None /\ key < MaxRuns /\ remote[key].state = "ended"
    /\ \A p \in Launchers : round[p].stage = "idle"
    /\ key' = None
    /\ UNCHANGED <<business, remote, round, locks, request, trouble>>

-----------------------------------------------------------------------------
(* runtime_launcher.run_once *)

\* deliver_pending loads the pending event, without a lock: the start event is
\* pending only after the create event was delivered.
Begin(p) ==
    /\ round[p].stage = "idle"
    /\ round' = [round EXCEPT ![p].stage = "deliver",
                              ![p].at = IF event.create.status = "pending" THEN "create"
                                        ELSE IF event.start.status = "pending" THEN "start" ELSE None]
    /\ UNCHANGED <<business, runtime, locks, request, trouble>>

\* deliver locks the event's row and does not read its object again: what another
\* round has delivered meanwhile is called once more.
Calls(p, phase) ==
    /\ round[p].at = phase /\ round[p].run = None
    /\ eventLock \in {None, p} /\ eventLock' = p

CreateAnswers(p) ==
    /\ Calls(p, "create")
    /\ \E r \in Runs : Created(r) /\ round' = [round EXCEPT ![p].run = r]
    /\ UNCHANGED <<business, archiveLock, request, trouble>>

\* The call fails; the Runtime may have carried it out.  The event stays pending.
CreateFails(p) ==
    /\ Calls(p, "create")
    /\ \/ Goes("refused") /\ UNCHANGED runtime
       \/ Goes("lost") /\ \E r \in Runs : Created(r)
    /\ round' = [round EXCEPT ![p].at = None]
    /\ UNCHANGED <<business, archiveLock, request>>

\* (mutant) bind asks neither for the deletion nor for the generation.
BindableAny(r) == archive.active \in {None, r}

\* MemoryAgentBindingService.bind, once the archive's row is locked.
Bindable(r) ==
    /\ ~archive.deleted
    /\ archive.epoch = 1
    /\ ref[r].status # "absent" \/ archive.active \in {None, r}

LockArchive(p) == archiveLock \in {None, p} /\ archiveLock' = p

Decides(p, did) ==
    /\ LockArchive(p)
    /\ round' = [round EXCEPT ![p] = [@ EXCEPT !.at = None, !.run = None, !.did = did, !.of = round[p].run]]
    /\ UNCHANGED <<business, runtime, eventLock, request, trouble>>

\* _deliver_create after the call.  A run that cannot be bound is remembered in
\* its event, which is delivered all the same.
BindCreated(p) ==
    /\ round[p].at = "create" /\ round[p].run # None
    /\ Decides(p, IF Bindable(round[p].run) THEN "bound" ELSE "unbound")

StartAnswers(p) ==
    /\ Calls(p, "start")
    /\ Startable(event.start.run) /\ Started(event.start.run)
    /\ round' = [round EXCEPT ![p].run = event.start.run]
    /\ UNCHANGED <<business, key, archiveLock, request, trouble>>

StartFails(p) ==
    /\ Calls(p, "start")
    /\ LET r == event.start.run IN
       \/ ~Startable(r) /\ UNCHANGED <<remote, trouble>>
       \/ Goes("refused") /\ UNCHANGED remote
       \/ Goes("lost") /\ Startable(r) /\ Started(r)
    /\ round' = [round EXCEPT ![p].at = None]
    /\ UNCHANGED <<business, key, archiveLock, request>>

\* _deliver_start after the call: the archive is looked at only now.
BindStarted(p) ==
    /\ round[p].at = "start" /\ round[p].run # None
    /\ Decides(p, IF Bindable(round[p].run) THEN "started" ELSE "none")

\* reconcile_pending_start: a reference the database shows as pending_start, for more
\* than 600 seconds, has its start event delivered again.
Restart(p) ==
    /\ round[p].stage = "deliver" /\ round[p].at = None
    /\ \/ round' = [round EXCEPT ![p].stage = "orphans"]
       \/ /\ "due" \in Faults
          /\ event.start.run # None /\ ref[event.start.run].status = "pending_start"
          /\ round' = [round EXCEPT ![p].stage = "restart", ![p].at = "start"]
    /\ UNCHANGED <<business, runtime, locks, request, trouble>>

ToOrphans(p) ==
    /\ round[p].stage = "restart" /\ round[p].at = None
    /\ round' = [round EXCEPT ![p].stage = "orphans"]
    /\ UNCHANGED <<business, runtime, locks, request, trouble>>

\* reconcile_orphaned_create: delivered, and without a reference, for 600 seconds.
Orphaned ==
    /\ "due" \in Faults
    /\ event.create.status = "delivered" /\ ref[event.create.run].status = "absent"

Adopts(p) == round' = [round EXCEPT ![p].did = "bound", ![p].of = event.create.run]

\* (mutant) An orphan whose archive is not current any more is left alone.
AdoptOnly(p) ==
    /\ round[p].stage = "orphans" /\ round[p].did = "none" /\ Orphaned
    /\ LockArchive(p)
    /\ Bindable(event.create.run) /\ Adopts(p)
    /\ UNCHANGED <<business, runtime, eventLock, request, trouble>>

\* The orphan is bound after all, or cancelled under a stable key.
AdoptOrCancel(p) ==
    /\ round[p].stage = "orphans" /\ round[p].did = "none" /\ Orphaned
    /\ LockArchive(p)
    /\ LET r == event.create.run IN
       \/ Bindable(r) /\ Adopts(p) /\ UNCHANGED remote
       \/ /\ ~Bindable(r)
          /\ \E x \in AfterCancel(remote[r]) : remote' = [remote EXCEPT ![r] = x]
          /\ UNCHANGED round
    /\ UNCHANGED <<business, key, eventLock, request, trouble>>

\* The end of the transaction.
Unlock(p) ==
    /\ eventLock' = IF eventLock = p THEN None ELSE eventLock
    /\ archiveLock' = IF archiveLock = p THEN None ELSE archiveLock

\* The events a round leaves behind.
EventsAfter(did, r) ==
    CASE did = "bound" ->
            [create |-> [status |-> "delivered", run |-> r],
             start |-> IF event.start.status = "absent" THEN [status |-> "pending", run |-> r]
                       ELSE event.start]
      [] did = "unbound" -> [event EXCEPT !.create = [status |-> "delivered", run |-> r]]
      [] did = "started" -> [event EXCEPT !.start.status = "delivered"]
      [] OTHER -> event

\* The commit of the whole round.
CommitRound(p) ==
    /\ round[p].stage = "orphans"
    /\ LET did == round[p].did
           r == round[p].of
           binds == did = "bound" /\ ref[r].status = "absent"
       IN  /\ event' = EventsAfter(did, r)
           /\ archive' = IF binds THEN [archive EXCEPT !.active = r] ELSE archive
           /\ ref' = IF binds THEN [ref EXCEPT ![r].status = "pending_start"]
                     ELSE IF did = "started" /\ ref[r].status = "pending_start"
                     THEN [ref EXCEPT ![r].status = "live"] ELSE ref
    /\ round' = [round EXCEPT ![p] = IdleRound]
    /\ Unlock(p)
    /\ UNCHANGED <<document, comp, gone, runtime, request, trouble>>

\* An error that leaves run_once, or the end of the process: everything the round
\* did to the database is undone, nothing it did to the Runtime.
RoundFails(p) ==
    /\ round[p].stage # "idle" /\ Goes("crash")
    /\ round' = [round EXCEPT ![p] = IdleRound]
    /\ Unlock(p)
    /\ UNCHANGED <<business, runtime, request>>

-----------------------------------------------------------------------------
(* Callbacks and publication *)

Unlocked == archiveLock = None

\* The receiver and the launcher's reconciliation (CallbackDelivery) bring the
\* reference of the active run up to date.
Callback(r) ==
    /\ Unlocked /\ archive.active = r
    /\ \/ ref[r].status = "pending_start" /\ remote[r].state = "started"
          /\ ref' = [ref EXCEPT ![r].status = "live"]
       \/ ref[r].status \in {"pending_start", "live"} /\ remote[r].state = "ended"
          /\ ref' = [ref EXCEPT ![r].status = "ended"]
    /\ UNCHANGED <<archive, document, event, comp, gone, runtime, round, locks, request, trouble>>

\* replay finds nothing, and authorize_runtime lets the run through.
Authorize(r) ==
    /\ remote[r].state = "started" /\ ~request /\ document.enhanced = "absent"
    /\ ~archive.deleted /\ archive.snapshot
    /\ archive.active = r /\ ref[r].status = "live"
    /\ request' = TRUE
    /\ UNCHANGED <<business, runtime, round, locks, trouble>>

\* publish_playback_document.  Generation and active run are read from the object
\* that authorize_runtime loaded; only the deletion, in the WHERE clause of the
\* locking read, is that of the current row.
Undeleted == ~archive.deleted

Publish ==
    /\ request /\ Unlocked
    /\ request' = FALSE
    /\ IF Undeleted
       THEN /\ archive' = [archive EXCEPT !.revision = 1]
            /\ document' = [baseline |-> "kept", enhanced |-> "shown"]
       ELSE UNCHANGED <<archive, document>>
    /\ UNCHANGED <<event, ref, comp, gone, runtime, round, locks, trouble>>

-----------------------------------------------------------------------------
(* Deletion *)

\* (mutant) A run that has ended needs no purge.
KnownLive == {r \in Runs : ref[r].status \in {"pending_start", "live"} /\ ref[r].purge # "purged"}

\* Only runs that have a reference are purged.
Known == {r \in Runs : ref[r].status # "absent" /\ ref[r].purge # "purged"}

\* request_archive_privacy_purge
DeleteArchive ==
    /\ "delete" \in Faults /\ Unlocked /\ ~archive.deleted
    /\ archive' = [archive EXCEPT !.deleted = TRUE, !.epoch = @ + 1, !.active = None]
    /\ ref' = [r \in Runs |-> IF r \in Known THEN [ref[r] EXCEPT !.purge = "requested"] ELSE ref[r]]
    /\ comp' = [r \in Runs |-> IF r \in Known /\ comp[r].privacy_purge = "absent"
                               THEN [comp[r] EXCEPT !.privacy_purge = "pending"] ELSE comp[r]]
    /\ UNCHANGED <<document, event, gone, runtime, round, locks, request, trouble>>

\* (mutant) The pointer moves, the baseline keeps its grace period.
RevertedExpiring == [document EXCEPT !.enhanced = "kept"]

\* The baseline is shown again.  The purge that follows in the same session does not
\* find the enhanced revision, whose changes are not flushed: the next round does.
Reverted == [baseline |-> "shown", enhanced |-> "kept"]

\* find_published_revisions_by_source and invalidate_deleted_source.
DeleteSource ==
    /\ "source" \in Faults /\ ~gone /\ gone' = TRUE
    /\ IF archive.deleted \/ archive.revision = 0 \/ document.baseline = "absent"
       THEN UNCHANGED <<archive, document, comp>>
       ELSE /\ Unlocked
            /\ archive' = [archive EXCEPT !.epoch = @ + 1, !.active = None,
                                          !.revision = 0, !.snapshot = FALSE]
            /\ document' = Reverted
            /\ comp' = IF archive.active = None THEN comp
                       ELSE [comp EXCEPT ![archive.active].cancel = "pending"]
    /\ UNCHANGED <<event, ref, runtime, round, locks, request, trouble>>

-----------------------------------------------------------------------------
(* run_maintenance, in the reconciler's scan session.  Nobody else writes what *)
(* it reads, so a round is one step.                                          *)

ToSend == {e \in Runs \X Actions : comp[e[1]][e[2]] = "pending"}

\* deliver_pending
Sent(sent) ==
    \E x \in [Runs -> UNION {AfterCancel(remote[r]) \cup AfterPurge(remote[r]) \cup {remote[r]} : r \in Runs}] :
        /\ \A r \in Runs :
             LET purged == <<r, "privacy_purge">> \in sent
                 cancelled == <<r, "cancel">> \in sent
             IN  x[r] \in IF purged /\ cancelled
                          THEN UNION {AfterPurge(y) : y \in AfterCancel(remote[r])}
                          ELSE IF purged THEN AfterPurge(remote[r])
                          ELSE IF cancelled THEN AfterCancel(remote[r]) ELSE {remote[r]}
        /\ remote' = x

\* reconcile_purges: only the Runtime's own answer confirms a purge.
Confirmed(r) == comp[r].privacy_purge = "delivered" /\ remote[r].privacy = "purged"

\* purge_expired.  A superseded baseline is kept for seven days.
Collected(week) ==
    [d \in DOMAIN document |->
        IF document[d] = "kept" /\ (d = "baseline" => week) THEN "absent" ELSE document[d]]

Maintain ==
    /\ \E failed \in {{}} \cup {{e} : e \in ToSend} :
          /\ IF failed = {} THEN UNCHANGED trouble ELSE Goes("refused")
          /\ Sent(ToSend \ failed)
          /\ comp' = [r \in Runs |-> [act \in Actions |->
                        IF <<r, act>> \in ToSend \ failed THEN "delivered" ELSE comp[r][act]]]
    /\ ref' = [r \in Runs |-> IF Confirmed(r) THEN [ref[r] EXCEPT !.purge = "purged"] ELSE ref[r]]
    /\ \E week \in IF "week" \in Faults THEN BOOLEAN ELSE {FALSE} : document' = Collected(week)
    /\ UNCHANGED <<archive, event, gone, key, round, locks, request>>

\* The lease is lost or a query fails: the marks are rolled back, what was sent stays sent.
MaintenanceAborts ==
    /\ ToSend # {} /\ Goes("lease")
    /\ \E some \in SUBSET ToSend : Sent(some)
    /\ UNCHANGED <<business, key, round, locks, request>>

-----------------------------------------------------------------------------
Launch(p) ==
    \/ Begin(p) \/ CreateAnswers(p) \/ CreateFails(p) \/ BindCreated(p)
    \/ StartAnswers(p) \/ StartFails(p) \/ BindStarted(p)
    \/ Restart(p) \/ ToOrphans(p) \/ CommitRound(p)

RuntimeStep(r) == RunEnds(r) \/ PurgeEnds(r)

Next ==
    \/ \E p \in Launchers : Launch(p) \/ AdoptOrCancel(p) \/ RoundFails(p)
    \/ \E r \in Runs : RuntimeStep(r) \/ HeldExpires(r) \/ Callback(r) \/ Authorize(r)
    \/ KeyExpires \/ Publish \/ DeleteArchive \/ DeleteSource
    \/ Maintain \/ MaintenanceAborts

Spec == Init /\ [][Next]_vars

\* cron starts the launcher and the reconciler its maintenance again and again; the
\* 600 seconds pass; a run ends and a purge is carried out (RunLedger).
Fairness ==
    /\ \A p \in Launchers : WF_vars(Launch(p))
    /\ SF_vars(\E p \in Launchers : AdoptOrCancel(p))
    /\ WF_vars(Maintain)
    /\ WF_vars(\E r \in Runs : RuntimeStep(r))
    /\ SF_vars(\E r \in Runs : Callback(r))

FairSpec == Spec /\ Fairness

-----------------------------------------------------------------------------
(* Safety *)

\* The types of the rows and of the sessions; a locked row has its session.
TypeOK ==
    /\ archive \in Archive /\ document \in Documents
    /\ event \in [Phases -> Event]
    /\ ref \in [Runs -> Ref] /\ remote \in [Runs -> Remote]
    /\ comp \in [Runs -> [Actions -> {"absent", "pending", "delivered"}]]
    /\ key \in RunOrNone
    /\ round \in [Launchers -> Round]
    /\ \A p \in {eventLock, archiveLock} : p # None => p \in Launchers /\ round[p].stage # "idle"
    /\ request \in BOOLEAN /\ gone \in BOOLEAN /\ trouble \in 0..MaxTrouble

\* However often a creation is repeated, by overlapping rounds, after a lost answer, a
\* rolled back round or an expired idempotency record, the archive has one live run.
OneLiveRun == Cardinality({r \in Runs : remote[r].state \in {"held", "started"}}) <= 1

\* A run is executed only after the reference to it is committed: its callbacks and
\* its tool calls find it.
StartedIsBound == \A r \in Runs : remote[r].state = "started" => ref[r].status # "absent"

\* The rows are well formed, and of the runs created for the archive at most one is
\* live, executed only when it is bound.
RunsAreSound == TypeOK /\ OneLiveRun /\ StartedIsBound

\* The player always finds the revision the archive points to, whatever was collected.
PlayerFindsDocument ==
    ~archive.deleted => document[IF archive.revision = 0 THEN "baseline" ELSE "enhanced"] = "shown"

\* What a deletion or an invalidation revoked stays revoked: no late binding, answer or
\* publication gives the archive a run again or a newer revision.
RevokedStaysRevoked ==
    [][archive.epoch > 1 => archive'.active = None /\ archive'.revision <= archive.revision]_vars

-----------------------------------------------------------------------------
(* Liveness *)

\* A run that was created is bound, or it is ended: no orphan stays held for ever, also
\* without the Runtime's own ten minutes.
OrphansConverge ==
    <>[](\A r \in Runs : remote[r].state = "held" => ref[r].status # "absent")

\* A deleted archive's known runs are purged in the Runtime, and the business side learns
\* it, for good.
DeletedIsPurged ==
    <>[](archive.deleted => \A r \in Runs : ref[r].status # "absent" =>
                                ref[r].purge = "purged" /\ remote[r].privacy = "purged")

\* A registered launch is carried out, or its archive is revoked.
LaunchIsCarriedOut ==
    <>(archive.epoch > 1 \/ \E r \in Runs : ref[r].status \in {"live", "ended"})

\* Together: launching comes to an end, with one run bound or none left behind.
LaunchConverges == OrphansConverge /\ LaunchIsCarriedOut

=============================================================================
