------------------------- MODULE MemoryLaunchProofs -------------------------
(***************************************************************************)
(* Theorems about MemoryLaunch, for every set of overlapping launcher      *)
(* rounds, every number of runs and troubles and every choice of faults.   *)
(*                                                                         *)
(* The argument: a live run is the one the create key's record names, and  *)
(* the record outlives it (LiveHasKey).  A start event names a run whose   *)
(* reference is committed, and only such a run is started (EventsNameRuns, *)
(* RoundsAreLocked).  A round that decided to bind holds the archive's     *)
(* lock in generation 1 until it commits, so no revocation comes between;  *)
(* and a publish request that could still be carried out is older than any *)
(* revocation (RevocationHolds).                                           *)
(***************************************************************************)
EXTENDS MemoryLaunch, TLAPS, FiniteSetTheorems

-----------------------------------------------------------------------------
(* The inductive invariant. *)

\* The Runtime's record of the create key names every live run.
LiveHasKey == \A r \in Runs : remote[r].state \in {"held", "started"} => key = r

\* Delivered events name runs; the start event's run is bound.
EventsNameRuns ==
    /\ event["create"].status = "delivered" => event["create"].run \in Runs
    /\ event["start"].status # "absent" => event["start"].run \in Runs
    /\ event["start"].run \in Runs => ref[event["start"].run].status # "absent"

\* A round that calls is under way, one that has decided has its run, and one that
\* binds has locked the archive in its first generation.
RoundsAreLocked ==
    \A p \in Launchers :
        /\ round[p].at \in Phases => round[p].stage # "idle"
        /\ round[p].at = "start" \/ round[p].did = "started" => event["start"].run \in Runs
        /\ round[p].did # "none" => round[p].of \in Runs /\ round[p].stage # "idle"
        /\ round[p].did = "bound" => archiveLock = p /\ archive.epoch = 1

\* A revoked archive has no run and, unless it is deleted, no snapshot; it is revoked
\* at most twice; a publication under way is older than any revocation but a deletion.
RevocationHolds ==
    /\ archive.epoch > 1 => archive.active = None
    /\ archive.epoch > 1 /\ ~archive.deleted => ~archive.snapshot /\ gone
    /\ ~archive.deleted => archive.epoch <= 2
    /\ request => archive.revision = 0 /\ (archive.deleted \/ archive.epoch = 1)

IInv ==
    /\ TypeOK /\ LiveHasKey /\ StartedIsBound /\ EventsNameRuns /\ RoundsAreLocked
    /\ RevocationHolds /\ PlayerFindsDocument

-----------------------------------------------------------------------------
(* Steps of the Runtime. *)

\* No step of the Runtime, of a compensation or of the maintenance makes a run live
\* that was not.
Fades ==
    /\ remote' \in [Runs -> Remote]
    /\ \A r \in Runs : remote'[r].state \in {remote[r].state, "ended"}

\* A run that changes within Fades.
LEMMA FadesOne ==
    ASSUME TypeOK, NEW r \in Runs, NEW x \in Remote, x.state \in {remote[r].state, "ended"},
           remote' = [remote EXCEPT ![r] = x]
    PROVE  Fades
<1>1. remote \in [Runs -> Remote] /\ remote' \in [Runs -> Remote]
  BY DEF TypeOK
<1> QED
  BY <1>1 DEF Fades

\* A step that leaves the business side alone and lets runs fade.
LEMMA FadesStep ==
    ASSUME IInv, Fades, UNCHANGED <<business, key, locks, request>>,
           trouble' \in 0..MaxTrouble,
           round' = round
    PROVE  IInv'
<1> USE DEF IInv
<1>0. UNCHANGED <<archive, document, event, ref, comp, gone, key, eventLock, archiveLock, request, round>>
  BY DEF business, locks
<1>1. TypeOK'
  BY <1>0 DEF TypeOK, Fades
<1>2. LiveHasKey' /\ StartedIsBound'
  BY <1>0 DEF LiveHasKey, StartedIsBound, Fades
<1>3. EventsNameRuns' /\ RoundsAreLocked' /\ RevocationHolds' /\ PlayerFindsDocument'
  BY <1>0 DEF EventsNameRuns, RoundsAreLocked, RevocationHolds, PlayerFindsDocument
<1> QED
  BY <1>1, <1>2, <1>3

\* The Runtime ends a run.
LEMMA RuntimeEnds ==
    ASSUME IInv, NEW r \in Runs, HeldExpires(r) \/ RunEnds(r) \/ PurgeEnds(r)
    PROVE  IInv'
<1>1. UNCHANGED <<business, key, locks, request>> /\ round' = round /\ trouble' \in 0..MaxTrouble
  BY DEF HeldExpires, RunEnds, PurgeEnds, IInv, TypeOK
<1>2. remote[r] \in Remote /\ TypeOK
  BY DEF IInv, TypeOK
<1>3. Fades
  <2>1. CASE remote' = [remote EXCEPT ![r].state = "ended"]
    <3>1. remote' = [remote EXCEPT ![r] = [remote[r] EXCEPT !.state = "ended"]]
      BY <2>1
    <3>2. [remote[r] EXCEPT !.state = "ended"] \in Remote /\ [remote[r] EXCEPT !.state = "ended"].state = "ended"
      BY <1>2 DEF Remote
    <3> QED
      BY <1>2, <3>1, <3>2, FadesOne
  <2>2. CASE remote' = [remote EXCEPT ![r].privacy = "purged"]
    <3>1. remote' = [remote EXCEPT ![r] = [remote[r] EXCEPT !.privacy = "purged"]]
      BY <2>2
    <3>2. /\ [remote[r] EXCEPT !.privacy = "purged"] \in Remote
          /\ [remote[r] EXCEPT !.privacy = "purged"].state = remote[r].state
      BY <1>2 DEF Remote
    <3> QED
      BY <1>2, <3>1, <3>2, FadesOne
  <2> QED
    BY <2>1, <2>2 DEF HeldExpires, RunEnds, PurgeEnds
<1> QED
  BY <1>1, <1>3, FadesStep

\* The create key's record expires after its run.
LEMMA KeyExpiresStep == ASSUME IInv, KeyExpires PROVE IInv'
<1> USE DEF IInv
<1>0. UNCHANGED <<archive, document, event, ref, comp, gone, remote, round, eventLock, archiveLock,
                  request, trouble>>
      /\ key' = None /\ remote[key].state = "ended"
  BY DEF KeyExpires, business, locks
<1>1. TypeOK'
  BY <1>0 DEF TypeOK, RunOrNone
<1>2. LiveHasKey' /\ StartedIsBound'
  BY <1>0 DEF LiveHasKey, StartedIsBound
<1>3. EventsNameRuns' /\ RoundsAreLocked' /\ RevocationHolds' /\ PlayerFindsDocument'
  BY <1>0 DEF EventsNameRuns, RoundsAreLocked, RevocationHolds, PlayerFindsDocument
<1> QED
  BY <1>1, <1>2, <1>3

-----------------------------------------------------------------------------
(* Steps of a round. *)

\* create_run: a new run only where the key names none.
LEMMA CreatedEffect ==
    ASSUME TypeOK, LiveHasKey, StartedIsBound, NEW r \in Runs, Created(r)
    PROVE  /\ remote' \in [Runs -> Remote] /\ key' \in RunOrNone
           /\ LiveHasKey'
           /\ \A q \in Runs : remote'[q].state = "started" => remote[q].state = "started"
<1>1. remote \in [Runs -> Remote] /\ key \in RunOrNone
  BY DEF TypeOK
<1>2. CASE UNCHANGED runtime
  BY <1>1, <1>2 DEF runtime, LiveHasKey
<1>3. CASE key = None /\ remote' = [remote EXCEPT ![r].state = "held"] /\ key' = r
  <2>1. remote[r] \in Remote
    BY <1>1
  <2>2. [remote[r] EXCEPT !.state = "held"] \in Remote /\ [remote[r] EXCEPT !.state = "held"].state = "held"
    BY <2>1 DEF Remote
  <2>3. /\ remote' \in [Runs -> Remote] /\ remote'[r].state = "held"
        /\ \A q \in Runs : q # r => remote'[q] = remote[q]
    BY <1>1, <1>3, <2>2
  <2>4. \A q \in Runs : q # None
    BY LaunchAssumption DEF Runs
  <2> QED
    BY <1>1, <1>3, <2>3, <2>4 DEF LiveHasKey, RunOrNone
<1> QED
  BY <1>2, <1>3 DEF Created

\* A round's own record changes, and with it at most the locks, the Runtime and the
\* troubles; what it may decide is said by RoundsAreLocked.
LEMMA RoundEffect ==
    ASSUME IInv, NEW p \in Launchers, NEW x \in Round, round' = [round EXCEPT ![p] = x],
           UNCHANGED <<business, request>>,
           remote' \in [Runs -> Remote], key' \in RunOrNone, LiveHasKey', StartedIsBound',
           trouble' \in 0..MaxTrouble,
           eventLock' \in {eventLock, p}, archiveLock' \in {archiveLock, p},
           archiveLock' # archiveLock => archiveLock = None,
           x.stage # "idle",
           x.at = "start" \/ x.did = "started" => event["start"].run \in Runs,
           x.did # "none" => x.of \in Runs,
           x.did = "bound" => archiveLock' = p /\ archive.epoch = 1
    PROVE  IInv'
<1> USE DEF IInv
<1>0. UNCHANGED <<archive, document, event, ref, comp, gone, request>>
  BY DEF business
<1>1. /\ round' \in [Launchers -> Round] /\ round'[p] = x
      /\ \A q \in Launchers : q # p => round'[q] = round[q]
  BY DEF TypeOK
<1>2. TypeOK'
  <2>1. \A q \in {eventLock', archiveLock'} : q # None => q \in Launchers /\ round'[q].stage # "idle"
    BY <1>1 DEF TypeOK
  <2> QED
    BY <1>0, <1>1, <2>1 DEF TypeOK
<1>3. RoundsAreLocked'
  <2>1. \A q \in Launchers : q # None
    BY LaunchAssumption
  <2> QED
    BY <1>0, <1>1, <2>1 DEF RoundsAreLocked
<1>4. EventsNameRuns' /\ RevocationHolds' /\ PlayerFindsDocument'
  BY <1>0 DEF EventsNameRuns, RevocationHolds, PlayerFindsDocument
<1> QED
  BY <1>2, <1>3, <1>4

\* Steps of a round that only move it on.
LEMMA MovesOn ==
    ASSUME IInv, NEW p \in Launchers, NEW x \in Round, round' = [round EXCEPT ![p] = x],
           UNCHANGED <<business, runtime, locks, request, trouble>>,
           x.stage # "idle", x.did = round[p].did, x.of = round[p].of,
           x.at = "start" => event["start"].run \in Runs
    PROVE  IInv'
<1>1. UNCHANGED <<remote, key, eventLock, archiveLock, trouble>>
  BY DEF runtime, locks
<1>2. /\ remote' \in [Runs -> Remote] /\ key' \in RunOrNone /\ trouble' \in 0..MaxTrouble
      /\ LiveHasKey' /\ StartedIsBound'
  BY <1>1 DEF IInv, TypeOK, LiveHasKey, StartedIsBound, business
<1>3. /\ x.did = "started" => event["start"].run \in Runs
      /\ x.did # "none" => x.of \in Runs
      /\ x.did = "bound" => archiveLock' = p /\ archive.epoch = 1
  BY <1>1 DEF IInv, RoundsAreLocked
<1> QED
  BY <1>1, <1>2, <1>3, RoundEffect

\* deliver_pending loads a pending event; the pending start event has its run.
LEMMA BeginStep == ASSUME IInv, NEW p \in Launchers, Begin(p) PROVE IInv'
<1> DEFINE e == IF event.create.status = "pending" THEN "create"
                ELSE IF event.start.status = "pending" THEN "start" ELSE None
           x == [round[p] EXCEPT !.stage = "deliver", !.at = e]
<1>1. round' = [round EXCEPT ![p] = x] /\ UNCHANGED <<business, runtime, locks, request, trouble>>
  BY DEF Begin
<1>2. round[p] \in Round /\ e \in Phases \cup {None}
  BY DEF IInv, TypeOK, Phases
<1>3. e = "start" => event["start"].run \in Runs
  BY LaunchAssumption DEF IInv, EventsNameRuns, Phases
<1> HIDE DEF e
<1>4. x \in Round /\ x.stage = "deliver" /\ x.at = e /\ x.did = round[p].did /\ x.of = round[p].of
  BY <1>2 DEF Round
<1> HIDE DEF x
<1> QED
  BY <1>1, <1>3, <1>4, MovesOn

\* The recovery passes: a pending_start reference has a start event with its run.
LEMMA RestartStep == ASSUME IInv, NEW p \in Launchers, Restart(p) \/ ToOrphans(p) PROVE IInv'
<1>0. UNCHANGED <<business, runtime, locks, request, trouble>> /\ round[p] \in Round
  BY DEF Restart, ToOrphans, IInv, TypeOK
<1>1. CASE round' = [round EXCEPT ![p].stage = "orphans"]
  <2> DEFINE x == [round[p] EXCEPT !.stage = "orphans"]
  <2>1. /\ x \in Round /\ x.stage = "orphans" /\ x.at = round[p].at
        /\ x.did = round[p].did /\ x.of = round[p].of
    BY <1>0 DEF Round
  <2>2. round' = [round EXCEPT ![p] = x]
    BY <1>1
  <2>3. round[p].at = "start" => event["start"].run \in Runs
    BY DEF IInv, RoundsAreLocked
  <2> HIDE DEF x
  <2> QED
    BY <1>0, <2>1, <2>2, <2>3, MovesOn
<1>2. CASE /\ event.start.run # None
           /\ round' = [round EXCEPT ![p].stage = "restart", ![p].at = "start"]
  <2> DEFINE x == [round[p] EXCEPT !.stage = "restart", !.at = "start"]
  <2>1. x \in Round /\ x.stage = "restart" /\ x.did = round[p].did /\ x.of = round[p].of
    BY <1>0 DEF Round, Phases
  <2>2. round' = [round EXCEPT ![p] = x]
    BY <1>2
  <2>3. event["start"].run \in Runs
    BY <1>2 DEF IInv, TypeOK, Phases, Event, RunOrNone
  <2> HIDE DEF x
  <2> QED
    BY <1>0, <2>1, <2>2, <2>3, MovesOn
<1> QED
  BY <1>1, <1>2 DEF Restart, ToOrphans

\* A call of deliver: the event's row is locked, the answer noted or the event given up.
LEMMA CallEffect ==
    ASSUME IInv, NEW p \in Launchers, NEW phase \in Phases, Calls(p, phase),
           NEW x \in Round, round' = [round EXCEPT ![p] = x],
           x.stage = round[p].stage, x.did = round[p].did, x.of = round[p].of,
           x.at \in {round[p].at, None},
           UNCHANGED <<business, archiveLock, request>>,
           remote' \in [Runs -> Remote], key' \in RunOrNone, LiveHasKey', StartedIsBound',
           trouble' \in 0..MaxTrouble
    PROVE  IInv'
<1>1. round[p].at = phase /\ eventLock' = p
  BY DEF Calls
<1>2. /\ round[p].stage # "idle"
      /\ round[p].at = "start" \/ round[p].did = "started" => event["start"].run \in Runs
      /\ round[p].did # "none" => round[p].of \in Runs
      /\ round[p].did = "bound" => archiveLock = p /\ archive.epoch = 1
  BY <1>1 DEF IInv, RoundsAreLocked
<1>3. x.at = "start" => event["start"].run \in Runs
  BY <1>2, LaunchAssumption DEF Phases
<1> QED
  BY <1>1, <1>2, <1>3, RoundEffect

\* The answer to a call, or its failure, in the record of the round.
LEMMA AnswerOrGiveUp ==
    ASSUME IInv, NEW p \in Launchers, NEW run \in RunOrNone
    PROVE  /\ LET x == [round[p] EXCEPT !.run = run] IN
                x \in Round /\ x.stage = round[p].stage /\ x.at = round[p].at
                /\ x.did = round[p].did /\ x.of = round[p].of
           /\ LET x == [round[p] EXCEPT !.at = None] IN
                x \in Round /\ x.stage = round[p].stage /\ x.at = None
                /\ x.did = round[p].did /\ x.of = round[p].of
<1>1. round[p] \in Round
  BY DEF IInv, TypeOK
<1> QED
  BY <1>1 DEF Round

\* A trouble is counted.
LEMMA GoesEffect == ASSUME IInv, NEW f, Goes(f) PROVE trouble' \in 0..MaxTrouble
BY LaunchAssumption DEF Goes, IInv, TypeOK

\* The create call and its failures.
LEMMA CreateStep == ASSUME IInv, NEW p \in Launchers, CreateAnswers(p) \/ CreateFails(p) PROVE IInv'
<1>0. Calls(p, "create") /\ "create" \in Phases /\ UNCHANGED <<business, archiveLock, request>>
  BY DEF CreateAnswers, CreateFails, Phases
<1>1. trouble' \in 0..MaxTrouble
  BY GoesEffect DEF CreateAnswers, CreateFails, IInv, TypeOK
<1>2. remote' \in [Runs -> Remote] /\ key' \in RunOrNone /\ LiveHasKey' /\ StartedIsBound'
  <2>1. ref' = ref
    BY <1>0 DEF business
  <2>2. CASE UNCHANGED runtime
    BY <2>1, <2>2 DEF runtime, IInv, TypeOK, LiveHasKey, StartedIsBound
  <2>3. ASSUME NEW r \in Runs, Created(r)
        PROVE  remote' \in [Runs -> Remote] /\ key' \in RunOrNone /\ LiveHasKey' /\ StartedIsBound'
    <3>1. /\ remote' \in [Runs -> Remote] /\ key' \in RunOrNone /\ LiveHasKey'
          /\ \A q \in Runs : remote'[q].state = "started" => remote[q].state = "started"
      BY <2>3, CreatedEffect DEF IInv
    <3> QED
      BY <2>1, <3>1 DEF IInv, StartedIsBound
  <2> QED
    BY <2>2, <2>3 DEF CreateAnswers, CreateFails
<1>3. CASE CreateAnswers(p)
  <2>1. PICK r \in Runs : round' = [round EXCEPT ![p].run = r]
    BY <1>3 DEF CreateAnswers
  <2> DEFINE x == [round[p] EXCEPT !.run = r]
  <2>2. round' = [round EXCEPT ![p] = x] /\ r \in RunOrNone
    BY <2>1 DEF RunOrNone
  <2>3. /\ x \in Round /\ x.stage = round[p].stage /\ x.at = round[p].at
        /\ x.did = round[p].did /\ x.of = round[p].of
    BY <2>2, AnswerOrGiveUp
  <2> HIDE DEF x
  <2> QED
    BY <1>0, <1>1, <1>2, <2>2, <2>3, CallEffect
<1>4. CASE CreateFails(p)
  <2> DEFINE x == [round[p] EXCEPT !.at = None]
  <2>1. round' = [round EXCEPT ![p] = x]
    BY <1>4 DEF CreateFails
  <2>2. x \in Round /\ x.stage = round[p].stage /\ x.at = None /\ x.did = round[p].did /\ x.of = round[p].of
    BY AnswerOrGiveUp DEF RunOrNone
  <2> HIDE DEF x
  <2> QED
    BY <1>0, <1>1, <1>2, <2>1, <2>2, CallEffect
<1> QED
  BY <1>3, <1>4

\* AgentRunService.start is asked for a bound run only.
LEMMA StartedEffect ==
    ASSUME IInv, NEW r \in Runs, ref[r].status # "absent", Startable(r), Started(r), ref' = ref, key' = key
    PROVE  remote' \in [Runs -> Remote] /\ LiveHasKey' /\ StartedIsBound'
<1> DEFINE x == [remote[r] EXCEPT !.started = TRUE,
                                  !.state = IF remote[r].state = "held" THEN "started" ELSE remote[r].state]
<1>1. remote \in [Runs -> Remote] /\ remote[r] \in Remote
  BY DEF IInv, TypeOK
<1>2. x \in Remote /\ x.state = (IF remote[r].state = "held" THEN "started" ELSE remote[r].state)
  BY <1>1 DEF Remote
<1>3. remote' = [remote EXCEPT ![r] = x]
  BY DEF Started
<1> HIDE DEF x
<1>4. remote' \in [Runs -> Remote] /\ remote'[r] = x /\ \A q \in Runs : q # r => remote'[q] = remote[q]
  BY <1>1, <1>2, <1>3
<1> QED
  BY <1>2, <1>4 DEF IInv, LiveHasKey, StartedIsBound

\* The start call and its failures.
LEMMA StartStep == ASSUME IInv, NEW p \in Launchers, StartAnswers(p) \/ StartFails(p) PROVE IInv'
<1> DEFINE r == event["start"].run
<1>0. /\ Calls(p, "start") /\ "start" \in Phases /\ UNCHANGED <<business, key, archiveLock, request>>
      /\ ref' = ref
  BY DEF StartAnswers, StartFails, Phases, business
<1>1. trouble' \in 0..MaxTrouble
  BY GoesEffect DEF StartAnswers, StartFails, IInv, TypeOK
<1>2. r \in Runs /\ ref[r].status # "absent"
  BY <1>0 DEF Calls, IInv, RoundsAreLocked, EventsNameRuns
<1>3. key' \in RunOrNone
  BY <1>0 DEF IInv, TypeOK
<1>4. remote' \in [Runs -> Remote] /\ LiveHasKey' /\ StartedIsBound'
  <2>1. CASE Startable(r) /\ Started(r)
    BY <1>0, <1>2, <2>1, StartedEffect
  <2>2. CASE UNCHANGED remote
    BY <1>0, <2>2 DEF IInv, TypeOK, LiveHasKey, StartedIsBound
  <2> QED
    BY <2>1, <2>2 DEF StartAnswers, StartFails
<1>5. CASE StartAnswers(p)
  <2> DEFINE x == [round[p] EXCEPT !.run = r]
  <2>1. round' = [round EXCEPT ![p] = x] /\ r \in RunOrNone
    BY <1>2, <1>5 DEF StartAnswers, RunOrNone
  <2>2. /\ x \in Round /\ x.stage = round[p].stage /\ x.at = round[p].at
        /\ x.did = round[p].did /\ x.of = round[p].of
    BY <2>1, AnswerOrGiveUp
  <2> HIDE DEF x
  <2> QED
    BY <1>0, <1>1, <1>3, <1>4, <2>1, <2>2, CallEffect
<1>6. CASE StartFails(p)
  <2> DEFINE x == [round[p] EXCEPT !.at = None]
  <2>1. round' = [round EXCEPT ![p] = x]
    BY <1>6 DEF StartFails
  <2>2. x \in Round /\ x.stage = round[p].stage /\ x.at = None /\ x.did = round[p].did /\ x.of = round[p].of
    BY AnswerOrGiveUp DEF RunOrNone
  <2> HIDE DEF x
  <2> QED
    BY <1>0, <1>1, <1>3, <1>4, <2>1, <2>2, CallEffect
<1> QED
  BY <1>5, <1>6

\* bind, and what the round decides once it has the archive's lock.
LEMMA DecidesStep == ASSUME IInv, NEW p \in Launchers, BindCreated(p) \/ BindStarted(p) PROVE IInv'
<1>1. PICK did \in {"none", "bound", "unbound", "started"} :
        /\ Decides(p, did)
        /\ did = "bound" => archive.epoch = 1
        /\ did = "started" => round[p].at = "start"
  BY DEF BindCreated, BindStarted, Bindable
<1>2. round[p].at \in Phases /\ round[p].run # None /\ round[p] \in Round
  BY DEF BindCreated, BindStarted, Phases, IInv, TypeOK
<1>3. round[p].stage # "idle" /\ (round[p].at = "start" => event["start"].run \in Runs)
  BY <1>2 DEF IInv, RoundsAreLocked
<1>4. round[p].run \in Runs
  BY <1>2 DEF Round, RunOrNone
<1> DEFINE x == [round[p] EXCEPT !.at = None, !.run = None, !.did = did, !.of = round[p].run]
<1>5. /\ round' = [round EXCEPT ![p] = x] /\ LockArchive(p)
      /\ UNCHANGED <<business, runtime, eventLock, request, trouble>>
  BY <1>1 DEF Decides
<1>6. x \in Round /\ x.stage = round[p].stage /\ x.at = None /\ x.did = did /\ x.of = round[p].run
  BY <1>2, <1>4 DEF Round, RunOrNone
<1> HIDE DEF x
<1>7. /\ remote' \in [Runs -> Remote] /\ key' \in RunOrNone /\ trouble' \in 0..MaxTrouble
      /\ LiveHasKey' /\ StartedIsBound'
  BY <1>5 DEF IInv, TypeOK, LiveHasKey, StartedIsBound, business, runtime
<1>8. archiveLock' = p /\ archiveLock \in {None, p}
  BY <1>5 DEF LockArchive
<1>9. x.at # "start"
  BY <1>6, LaunchAssumption DEF Phases
<1> QED
  BY <1>1, <1>3, <1>4, <1>5, <1>6, <1>7, <1>8, <1>9, RoundEffect

\* cancel: a run ends, or learns of the request.
LEMMA AfterCancelType ==
    ASSUME NEW x \in Remote, NEW y \in AfterCancel(x)
    PROVE  y \in Remote /\ y.state \in {x.state, "ended"}
BY DEF AfterCancel, Remote

\* purge: the request is noted.
LEMMA AfterPurgeType ==
    ASSUME NEW x \in Remote, NEW y \in AfterPurge(x)
    PROVE  y \in Remote /\ y.state = x.state
BY DEF AfterPurge, Remote

\* reconcile_orphaned_create: the orphan is bound under the lock, or cancelled.
LEMMA AdoptStep == ASSUME IInv, NEW p \in Launchers, AdoptOrCancel(p) PROVE IInv'
<1> DEFINE r == event["create"].run
<1>0. /\ round[p].stage = "orphans" /\ LockArchive(p) /\ event["create"].status = "delivered"
      /\ UNCHANGED <<business, key, eventLock, request, trouble>>
  BY DEF AdoptOrCancel, Orphaned
<1>1. r \in Runs /\ round[p] \in Round /\ TypeOK
  BY <1>0 DEF IInv, EventsNameRuns, TypeOK
<1>2. archiveLock' = p /\ archiveLock \in {None, p}
  BY <1>0 DEF LockArchive
<1>3. key' \in RunOrNone /\ trouble' \in 0..MaxTrouble /\ ref' = ref /\ key' = key
  BY <1>0 DEF IInv, TypeOK, business
<1>4. CASE Bindable(r) /\ Adopts(p) /\ UNCHANGED remote
  <2> DEFINE x == [round[p] EXCEPT !.did = "bound", !.of = r]
  <2>1. x \in Round /\ x.stage = "orphans" /\ x.at = round[p].at /\ x.did = "bound" /\ x.of = r
    BY <1>0, <1>1 DEF Round, RunOrNone
  <2>2. round' = [round EXCEPT ![p] = x] /\ archive.epoch = 1
    BY <1>4 DEF Adopts, Bindable
  <2> HIDE DEF x
  <2>3. round[p].at = "start" => event["start"].run \in Runs
    BY DEF IInv, RoundsAreLocked
  <2>4. remote' \in [Runs -> Remote] /\ LiveHasKey' /\ StartedIsBound'
    BY <1>3, <1>4 DEF IInv, TypeOK, LiveHasKey, StartedIsBound
  <2> QED
    BY <1>0, <1>1, <1>2, <1>3, <2>1, <2>2, <2>3, <2>4, RoundEffect
<1>5. CASE (\E x \in AfterCancel(remote[r]) : remote' = [remote EXCEPT ![r] = x]) /\ UNCHANGED round
  <2>1. PICK y \in AfterCancel(remote[r]) : remote' = [remote EXCEPT ![r] = y]
    BY <1>5
  <2>2. remote[r] \in Remote
    BY <1>1 DEF TypeOK
  <2>3. Fades
    BY <1>1, <2>1, <2>2, AfterCancelType, FadesOne
  <2>4. remote' \in [Runs -> Remote] /\ LiveHasKey' /\ StartedIsBound'
    BY <1>3, <2>3 DEF IInv, Fades, LiveHasKey, StartedIsBound
  <2>5. round' = [round EXCEPT ![p] = round[p]]
    BY <1>1, <1>5 DEF TypeOK
  <2>6. /\ round[p].at = "start" \/ round[p].did = "started" => event["start"].run \in Runs
        /\ round[p].did = "none"
    BY DEF AdoptOrCancel, IInv, RoundsAreLocked
  <2> QED
    BY <1>0, <1>1, <1>2, <1>3, <2>4, <2>5, <2>6, RoundEffect
<1> QED
  BY <1>4, <1>5 DEF AdoptOrCancel

\* The end of a transaction gives its locks back and leaves those of the others.
LEMMA UnlockEffect ==
    ASSUME IInv, NEW p \in Launchers, Unlock(p), round' = [round EXCEPT ![p] = IdleRound]
    PROVE  /\ round' \in [Launchers -> Round]
           /\ round'[p] = IdleRound /\ \A q \in Launchers : q # p => round'[q] = round[q]
           /\ \A q \in {eventLock', archiveLock'} : q # None => q \in Launchers /\ round'[q].stage # "idle"
           /\ \A q \in Launchers : q # p /\ archiveLock = q => archiveLock' = q
<1>1. IdleRound \in Round
  BY DEF IdleRound, Round, RunOrNone
<1>2. /\ round' \in [Launchers -> Round]
      /\ round'[p] = IdleRound /\ \A q \in Launchers : q # p => round'[q] = round[q]
  BY <1>1 DEF IInv, TypeOK
<1>3. /\ eventLock' # p /\ archiveLock' # p
      /\ eventLock' \in {None, eventLock} /\ archiveLock' \in {None, archiveLock}
  BY LaunchAssumption DEF Unlock
<1>4. \A q \in {eventLock, archiveLock} : q # None => q \in Launchers /\ round[q].stage # "idle"
  BY DEF IInv, TypeOK
<1> QED
  BY <1>2, <1>3, <1>4 DEF Unlock

\* A rolled back round.
LEMMA RoundFailsStep == ASSUME IInv, NEW p \in Launchers, RoundFails(p) PROVE IInv'
<1> USE DEF IInv
<1>0. UNCHANGED <<archive, document, event, ref, comp, gone, remote, key, request>>
  BY DEF RoundFails, business, runtime
<1>1. /\ round' \in [Launchers -> Round]
      /\ round'[p] = IdleRound /\ \A q \in Launchers : q # p => round'[q] = round[q]
      /\ \A q \in {eventLock', archiveLock'} : q # None => q \in Launchers /\ round'[q].stage # "idle"
      /\ \A q \in Launchers : q # p /\ archiveLock = q => archiveLock' = q
  BY UnlockEffect DEF RoundFails
<1>2. trouble' \in 0..MaxTrouble
  BY GoesEffect DEF RoundFails
<1>3. TypeOK'
  BY <1>0, <1>1, <1>2 DEF TypeOK
<1>4. RoundsAreLocked'
  <2>1. IdleRound.at = None /\ IdleRound.did = "none" /\ None \notin Phases
    BY LaunchAssumption DEF IdleRound
  <2> QED
    BY <1>0, <1>1, <2>1 DEF RoundsAreLocked, Phases
<1>5. LiveHasKey' /\ StartedIsBound' /\ EventsNameRuns' /\ RevocationHolds' /\ PlayerFindsDocument'
  BY <1>0 DEF LiveHasKey, StartedIsBound, EventsNameRuns, RevocationHolds, PlayerFindsDocument
<1> QED
  BY <1>3, <1>4, <1>5

\* The commit: a reference, the archive's active run and the events are written together.
LEMMA CommitStep == ASSUME IInv, NEW p \in Launchers, CommitRound(p) PROVE IInv'
<1> USE DEF IInv
<1> DEFINE did == round[p].did
           r == round[p].of
           binds == did = "bound" /\ ref[r].status = "absent"
<1>0. /\ UNCHANGED <<document, comp, gone, remote, key, request, trouble>>
      /\ event' = EventsAfter(did, r)
      /\ archive' = IF binds THEN [archive EXCEPT !.active = r] ELSE archive
      /\ ref' = IF binds THEN [ref EXCEPT ![r].status = "pending_start"]
                ELSE IF did = "started" /\ ref[r].status = "pending_start"
                THEN [ref EXCEPT ![r].status = "live"] ELSE ref
  BY DEF CommitRound, runtime
<1>1. /\ round' \in [Launchers -> Round]
      /\ round'[p] = IdleRound /\ \A q \in Launchers : q # p => round'[q] = round[q]
      /\ \A q \in {eventLock', archiveLock'} : q # None => q \in Launchers /\ round'[q].stage # "idle"
      /\ \A q \in Launchers : q # p /\ archiveLock = q => archiveLock' = q
  BY UnlockEffect DEF CommitRound
<1>2. /\ did # "none" => r \in Runs
      /\ did = "bound" => archive.epoch = 1
      /\ did = "started" => event["start"].run \in Runs
      /\ did \in {"none", "bound", "unbound", "started"}
  <2>1. round[p] \in Round
    BY DEF TypeOK
  <2> QED
    BY <2>1 DEF RoundsAreLocked, Round
<1>3. event \in [Phases -> Event] /\ event["create"] \in Event /\ event["start"] \in Event
  BY DEF TypeOK, Phases
<1>4. /\ archive' \in Archive /\ archive'.epoch = archive.epoch /\ archive'.deleted = archive.deleted
      /\ archive'.snapshot = archive.snapshot /\ archive'.revision = archive.revision
      /\ archive'.active = archive.active \/ archive.epoch = 1
  <2>1. archive \in Archive
    BY DEF TypeOK
  <2>2. CASE binds
    <3>1. archive' = [archive EXCEPT !.active = r] /\ r \in Runs /\ archive.epoch = 1
      BY <1>0, <1>2, <2>2
    <3> HIDE DEF r
    <3> QED
      BY <2>1, <3>1 DEF Archive, RunOrNone
  <2>3. CASE ~binds
    BY <1>0, <2>1, <2>3
  <2> QED
    BY <2>2, <2>3
<1>5. /\ ref' \in [Runs -> Ref]
      /\ \A q \in Runs : ref[q].status # "absent" => ref'[q].status # "absent"
      /\ did = "bound" => ref'[r].status # "absent"
  <2>1. ref \in [Runs -> Ref]
    BY DEF TypeOK
  <2>2. ASSUME NEW s \in {"pending_start", "live"}, ref' = [ref EXCEPT ![r].status = s], r \in Runs
        PROVE  /\ ref' \in [Runs -> Ref]
               /\ \A q \in Runs : ref[q].status # "absent" => ref'[q].status # "absent"
               /\ ref'[r].status # "absent"
    <3>1. ref[r] \in Ref
      BY <2>1, <2>2
    <3>2. [ref[r] EXCEPT !.status = s] \in Ref /\ [ref[r] EXCEPT !.status = s].status = s
      BY <3>1 DEF Ref
    <3>3. ref' = [ref EXCEPT ![r] = [ref[r] EXCEPT !.status = s]]
      BY <2>2
    <3> QED
      BY <2>1, <2>2, <3>2, <3>3
  <2>3. CASE binds
    BY <1>0, <1>2, <2>2, <2>3
  <2>4. CASE ~binds /\ did = "started" /\ ref[r].status = "pending_start"
    BY <1>0, <1>2, <2>2, <2>4
  <2>5. CASE ~binds /\ ~(did = "started" /\ ref[r].status = "pending_start")
    BY <1>0, <2>1, <2>5
  <2> QED
    BY <2>3, <2>4, <2>5
<1> HIDE DEF did, r
<1>6. /\ event' \in [Phases -> Event]
      /\ event'["create"].status = "delivered" => event'["create"].run \in Runs
      /\ event'["start"].status # "absent" => event'["start"].run \in Runs
      /\ event["start"].run \in Runs => event'["start"].run \in Runs
      /\ event'["start"].run = event["start"].run \/ (did = "bound" /\ event'["start"].run = r)
  <2> DEFINE new == [status |-> "delivered", run |-> r]
             next == IF event.start.status = "absent" THEN [status |-> "pending", run |-> r] ELSE event.start
  <2>0. r \in Runs => new \in Event /\ next \in Event /\ new.run = r
    BY <1>3 DEF Event, RunOrNone
  <2>1. CASE did = "bound"
    <3>1. event' = [create |-> new, start |-> next]
      BY <1>0, <2>1 DEF EventsAfter
    <3>2. next = event["start"] \/ (next.run = r /\ next.status = "pending" /\ event["start"].status = "absent")
      OBVIOUS
    <3> HIDE DEF new, next
    <3>3. event' \in [Phases -> Event] /\ event'["create"] = new /\ event'["start"] = next
      BY <1>2, <2>0, <2>1, <3>1 DEF Phases
    <3> QED
      BY <1>2, <2>0, <2>1, <3>2, <3>3 DEF EventsNameRuns
  <2>2. CASE did = "unbound"
    <3>1. event' = [event EXCEPT !.create = new]
      BY <1>0, <2>2 DEF EventsAfter
    <3> HIDE DEF new
    <3>2. event' \in [Phases -> Event] /\ event'["create"] = new /\ event'["start"] = event["start"]
      BY <1>2, <1>3, <2>0, <2>2, <3>1 DEF Phases
    <3> QED
      BY <1>2, <2>0, <2>2, <3>2 DEF EventsNameRuns
  <2>3. CASE did = "started"
    <3> DEFINE d == [event["start"] EXCEPT !.status = "delivered"]
    <3>1. event' = [event EXCEPT !.start = d]
      BY <1>0, <2>3 DEF EventsAfter
    <3>2. d \in Event /\ d.run = event["start"].run
      BY <1>3 DEF Event
    <3> HIDE DEF d
    <3>3. event' \in [Phases -> Event] /\ event'["start"] = d /\ event'["create"] = event["create"]
      BY <1>3, <3>1, <3>2 DEF Phases
    <3> QED
      BY <1>2, <2>3, <3>2, <3>3 DEF EventsNameRuns
  <2>4. CASE did = "none"
    <3>1. event' = event
      BY <1>0, <2>4 DEF EventsAfter
    <3> QED
      BY <1>3, <3>1 DEF EventsNameRuns
  <2> QED
    BY <1>2, <2>1, <2>2, <2>3, <2>4
<1>7. TypeOK'
  BY <1>0, <1>1, <1>4, <1>5, <1>6 DEF TypeOK
<1>8. LiveHasKey' /\ StartedIsBound'
  BY <1>0, <1>5 DEF LiveHasKey, StartedIsBound
<1>9. EventsNameRuns'
  BY <1>5, <1>6 DEF EventsNameRuns
<1>10. RoundsAreLocked'
  <2>1. IdleRound.at = None /\ IdleRound.did = "none" /\ None \notin Phases
    BY LaunchAssumption DEF IdleRound
  <2> QED
    BY <1>1, <1>4, <1>6, <2>1 DEF RoundsAreLocked, Phases
<1>11. RevocationHolds' /\ PlayerFindsDocument'
  BY <1>0, <1>4 DEF RevocationHolds, PlayerFindsDocument, TypeOK, Archive
<1> QED
  BY <1>7, <1>8, <1>9, <1>10, <1>11

-----------------------------------------------------------------------------
(* Callbacks, publication and deletion. *)

\* References are written and stay.
Kept ==
    /\ ref' \in [Runs -> Ref]
    /\ \A r \in Runs : ref[r].status # "absent" => ref'[r].status # "absent"

\* A callback moves the reference of the active run on.
LEMMA CallbackStep == ASSUME IInv, NEW r \in Runs, Callback(r) PROVE IInv'
<1> USE DEF IInv
<1>0. UNCHANGED <<archive, document, event, comp, gone, remote, key, round, eventLock, archiveLock,
                  request, trouble>>
  BY DEF Callback, runtime, locks
<1>1. Kept
  <2>1. PICK s \in {"live", "ended"} : ref' = [ref EXCEPT ![r].status = s]
    BY DEF Callback
  <2>2. ref \in [Runs -> Ref] /\ ref[r] \in Ref
    BY DEF TypeOK
  <2>3. [ref[r] EXCEPT !.status = s] \in Ref /\ [ref[r] EXCEPT !.status = s].status = s
    BY <2>2 DEF Ref
  <2>4. ref' = [ref EXCEPT ![r] = [ref[r] EXCEPT !.status = s]]
    BY <2>1
  <2> QED
    BY <2>2, <2>3, <2>4 DEF Kept
<1>2. TypeOK'
  BY <1>0, <1>1 DEF TypeOK, Kept
<1>3. LiveHasKey' /\ StartedIsBound' /\ EventsNameRuns'
  BY <1>0, <1>1 DEF LiveHasKey, StartedIsBound, EventsNameRuns, Kept
<1>4. RoundsAreLocked' /\ RevocationHolds' /\ PlayerFindsDocument'
  BY <1>0 DEF RoundsAreLocked, RevocationHolds, PlayerFindsDocument
<1> QED
  BY <1>2, <1>3, <1>4

\* authorize_runtime lets a publication through in the first generation only.
LEMMA AuthorizeStep == ASSUME IInv, NEW r \in Runs, Authorize(r) PROVE IInv'
<1> USE DEF IInv
<1>0. /\ UNCHANGED <<archive, document, event, ref, comp, gone, remote, key, round, eventLock,
                     archiveLock, trouble>>
      /\ request' = TRUE
  BY DEF Authorize, business, runtime, locks
<1>1. TypeOK'
  BY <1>0 DEF TypeOK
<1>2. ~archive.deleted /\ archive.snapshot /\ document["enhanced"] = "absent" /\ archive \in Archive
  BY DEF Authorize, TypeOK
<1>3. archive.revision = 0
  BY <1>2 DEF PlayerFindsDocument, Archive
<1>4. archive.epoch = 1
  BY <1>2 DEF RevocationHolds, Archive
<1>5. LiveHasKey' /\ StartedIsBound' /\ EventsNameRuns' /\ RoundsAreLocked' /\ PlayerFindsDocument'
  BY <1>0 DEF LiveHasKey, StartedIsBound, EventsNameRuns, RoundsAreLocked, PlayerFindsDocument
<1>6. RevocationHolds'
  BY <1>0, <1>3, <1>4 DEF RevocationHolds
<1> QED
  BY <1>1, <1>5, <1>6

\* The pair of documents.
LEMMA PairType ==
    ASSUME NEW x \in {"shown", "kept", "absent"}, NEW y \in {"shown", "kept", "absent"}
    PROVE  /\ [baseline |-> x, enhanced |-> y] \in Documents
           /\ [baseline |-> x, enhanced |-> y]["baseline"] = x
           /\ [baseline |-> x, enhanced |-> y]["enhanced"] = y
BY DEF Documents

\* The publication shows the enhanced document of an archive that is not revoked.
LEMMA PublishStep == ASSUME IInv, Publish PROVE IInv'
<1> USE DEF IInv
<1>0. /\ UNCHANGED <<event, ref, comp, gone, remote, key, round, eventLock, archiveLock, trouble>>
      /\ request' = FALSE /\ request
  BY DEF Publish, runtime, locks
<1>1. archive \in Archive
  BY DEF TypeOK
<1>2. CASE ~archive.deleted
  <2>1. archive' = [archive EXCEPT !.revision = 1] /\ document' = [baseline |-> "kept", enhanced |-> "shown"]
    BY <1>2 DEF Publish, Undeleted
  <2>2. /\ archive' \in Archive /\ archive'.revision = 1 /\ archive'.epoch = archive.epoch
        /\ archive'.active = archive.active /\ archive'.deleted = archive.deleted
        /\ archive'.snapshot = archive.snapshot
    BY <1>1, <2>1 DEF Archive
  <2>3. document' \in Documents /\ document'["enhanced"] = "shown"
    BY <2>1, PairType
  <2>4. TypeOK'
    BY <1>0, <2>2, <2>3 DEF TypeOK
  <2>5. LiveHasKey' /\ StartedIsBound' /\ EventsNameRuns'
    BY <1>0 DEF LiveHasKey, StartedIsBound, EventsNameRuns
  <2>6. RoundsAreLocked' /\ RevocationHolds' /\ PlayerFindsDocument'
    BY <1>0, <2>2, <2>3 DEF RoundsAreLocked, RevocationHolds, PlayerFindsDocument
  <2> QED
    BY <2>4, <2>5, <2>6
<1>3. CASE archive.deleted
  <2>1. UNCHANGED <<archive, document>>
    BY <1>3 DEF Publish, Undeleted
  <2>2. TypeOK'
    BY <1>0, <2>1 DEF TypeOK
  <2>3. LiveHasKey' /\ StartedIsBound' /\ EventsNameRuns'
    BY <1>0 DEF LiveHasKey, StartedIsBound, EventsNameRuns
  <2>4. RoundsAreLocked' /\ RevocationHolds' /\ PlayerFindsDocument'
    BY <1>0, <2>1 DEF RoundsAreLocked, RevocationHolds, PlayerFindsDocument
  <2> QED
    BY <2>2, <2>3, <2>4
<1> QED
  BY <1>1, <1>2, <1>3 DEF Archive

\* While nobody has locked the archive, nobody is about to bind.
LEMMA NobodyBinds ==
    ASSUME IInv, Unlocked
    PROVE  \A p \in Launchers : round[p].did # "bound"
BY LaunchAssumption DEF IInv, RoundsAreLocked, Unlocked

\* The rows a deletion and an invalidation leave.
LEMMA RevokedType ==
    ASSUME NEW a \in Archive, a.epoch \in 1..2
    PROVE  /\ LET x == [a EXCEPT !.deleted = TRUE, !.epoch = @ + 1, !.active = None] IN
                /\ x \in Archive /\ x.deleted = TRUE /\ x.active = None
                /\ x.revision = a.revision /\ x.epoch = a.epoch + 1
           /\ LET x == [a EXCEPT !.epoch = @ + 1, !.active = None, !.revision = 0, !.snapshot = FALSE] IN
                /\ x \in Archive /\ x.deleted = a.deleted /\ x.active = None
                /\ x.revision = 0 /\ x.epoch = a.epoch + 1 /\ x.snapshot = FALSE
<1>1. PICK e : e = a.epoch + 1
  OBVIOUS
<1>2. e \in 1..3 /\ None \in RunOrNone /\ 0 \in 0..1
  BY <1>1 DEF RunOrNone
<1>3. LET x == [a EXCEPT !.deleted = TRUE, !.epoch = e, !.active = None] IN
        /\ x \in Archive /\ x.deleted = TRUE /\ x.active = None
        /\ x.revision = a.revision /\ x.epoch = e
  BY <1>2 DEF Archive
<1>4. LET x == [a EXCEPT !.epoch = e, !.active = None, !.revision = 0, !.snapshot = FALSE] IN
        /\ x \in Archive /\ x.deleted = a.deleted /\ x.active = None
        /\ x.revision = 0 /\ x.epoch = e /\ x.snapshot = FALSE
  BY <1>2 DEF Archive
<1> QED
  BY <1>1, <1>3, <1>4, Zenon

\* request_archive_privacy_purge
LEMMA DeleteArchiveStep == ASSUME IInv, DeleteArchive PROVE IInv'
<1> USE DEF IInv
<1>0. /\ UNCHANGED <<document, event, gone, remote, key, round, eventLock, archiveLock, request, trouble>>
      /\ Unlocked /\ ~archive.deleted
      /\ archive' = [archive EXCEPT !.deleted = TRUE, !.epoch = @ + 1, !.active = None]
  BY DEF DeleteArchive, runtime, locks
<1>1. archive \in Archive /\ archive.epoch \in 1..2
  BY <1>0 DEF TypeOK, Archive, RevocationHolds
<1>2. /\ archive' \in Archive /\ archive'.deleted = TRUE /\ archive'.active = None
      /\ archive'.revision = archive.revision
  BY <1>0, <1>1, RevokedType
<1>3. Kept
  <2>1. ref' = [r \in Runs |-> IF r \in Known THEN [ref[r] EXCEPT !.purge = "requested"] ELSE ref[r]]
    BY DEF DeleteArchive
  <2>2. \A r \in Runs : ref[r] \in Ref
    BY DEF TypeOK
  <2>3. \A r \in Runs : /\ [ref[r] EXCEPT !.purge = "requested"] \in Ref
                        /\ [ref[r] EXCEPT !.purge = "requested"].status = ref[r].status
    BY <2>2 DEF Ref
  <2>4. \A r \in Runs : ref'[r] \in {[ref[r] EXCEPT !.purge = "requested"], ref[r]}
    BY <2>1
  <2> QED
    BY <2>1, <2>2, <2>3, <2>4 DEF Kept
<1>4. comp' \in [Runs -> [Actions -> {"absent", "pending", "delivered"}]]
  <2>1. comp' = [r \in Runs |-> IF r \in Known /\ comp[r].privacy_purge = "absent"
                                THEN [comp[r] EXCEPT !.privacy_purge = "pending"] ELSE comp[r]]
    BY DEF DeleteArchive
  <2>2. comp \in [Runs -> [Actions -> {"absent", "pending", "delivered"}]]
    BY DEF TypeOK
  <2>3. \A r \in Runs : [comp[r] EXCEPT !.privacy_purge = "pending"] \in [Actions -> {"absent", "pending", "delivered"}]
    BY <2>2 DEF Actions
  <2> QED
    BY <2>1, <2>2, <2>3
<1>5. TypeOK'
  BY <1>0, <1>2, <1>3, <1>4 DEF TypeOK, Kept
<1>6. LiveHasKey' /\ StartedIsBound' /\ EventsNameRuns'
  BY <1>0, <1>3 DEF LiveHasKey, StartedIsBound, EventsNameRuns, Kept
<1>7. RoundsAreLocked'
  BY <1>0, NobodyBinds DEF RoundsAreLocked
<1>8. RevocationHolds' /\ PlayerFindsDocument'
  BY <1>0, <1>2 DEF RevocationHolds, PlayerFindsDocument
<1> QED
  BY <1>5, <1>6, <1>7, <1>8

\* invalidate_deleted_source
LEMMA DeleteSourceStep == ASSUME IInv, DeleteSource PROVE IInv'
<1> USE DEF IInv
<1>0. /\ UNCHANGED <<event, ref, remote, key, round, eventLock, archiveLock, request, trouble>>
      /\ ~gone /\ gone' = TRUE
  BY DEF DeleteSource, runtime, locks
<1>1. archive \in Archive /\ document \in Documents /\ comp \in [Runs -> [Actions -> {"absent", "pending", "delivered"}]]
  BY DEF TypeOK
<1>2. LiveHasKey' /\ StartedIsBound' /\ EventsNameRuns'
  BY <1>0 DEF LiveHasKey, StartedIsBound, EventsNameRuns
<1>3. CASE UNCHANGED <<archive, document, comp>>
  <2>1. TypeOK'
    BY <1>0, <1>3 DEF TypeOK
  <2>2. RoundsAreLocked' /\ RevocationHolds' /\ PlayerFindsDocument'
    BY <1>0, <1>3 DEF RoundsAreLocked, RevocationHolds, PlayerFindsDocument
  <2> QED
    BY <1>2, <2>1, <2>2
<1>4. CASE /\ ~(archive.deleted \/ archive.revision = 0 \/ document.baseline = "absent")
           /\ Unlocked
           /\ archive' = [archive EXCEPT !.epoch = @ + 1, !.active = None,
                                         !.revision = 0, !.snapshot = FALSE]
           /\ document' = Reverted
           /\ comp' = IF archive.active = None THEN comp
                      ELSE [comp EXCEPT ![archive.active].cancel = "pending"]
  <2>1. ~archive.deleted /\ archive.epoch = 1 /\ ~request
    BY <1>0, <1>1, <1>4 DEF RevocationHolds, Archive
  <2>2. /\ archive' \in Archive /\ archive'.deleted = archive.deleted /\ archive'.active = None
        /\ archive'.revision = 0 /\ archive'.epoch = 2 /\ archive'.snapshot = FALSE
    <3>1. archive.epoch \in 1..2 /\ archive.epoch + 1 = 2
      BY <2>1
    <3>2. /\ archive' \in Archive /\ archive'.deleted = archive.deleted /\ archive'.active = None
          /\ archive'.revision = 0 /\ archive'.epoch = archive.epoch + 1 /\ archive'.snapshot = FALSE
      BY <1>1, <1>4, <3>1, RevokedType, Zenon
    <3> QED
      BY <3>1, <3>2
  <2>3. document' \in Documents /\ document'["baseline"] = "shown"
    BY <1>4, PairType DEF Reverted
  <2>4. comp' \in [Runs -> [Actions -> {"absent", "pending", "delivered"}]]
    <3>1. CASE archive.active = None
      BY <1>1, <1>4, <3>1
    <3>2. CASE archive.active # None
      <4>1. archive.active \in Runs
        BY <1>1, <3>2 DEF Archive, RunOrNone
      <4>2. [comp[archive.active] EXCEPT !.cancel = "pending"] \in [Actions -> {"absent", "pending", "delivered"}]
        BY <1>1, <4>1 DEF Actions
      <4>3. comp' = [comp EXCEPT ![archive.active] = [comp[archive.active] EXCEPT !.cancel = "pending"]]
        BY <1>4, <3>2
      <4> QED
        BY <1>1, <4>1, <4>2, <4>3
    <3> QED
      BY <3>1, <3>2
  <2>5. TypeOK'
    BY <1>0, <2>2, <2>3, <2>4 DEF TypeOK
  <2>6. RoundsAreLocked'
    BY <1>0, <1>4, NobodyBinds DEF RoundsAreLocked
  <2>7. RevocationHolds' /\ PlayerFindsDocument'
    BY <1>0, <2>1, <2>2, <2>3 DEF RevocationHolds, PlayerFindsDocument
  <2> QED
    BY <1>2, <2>5, <2>6, <2>7
<1> QED
  BY <1>3, <1>4 DEF DeleteSource

\* deliver_pending, whatever it sends: no run becomes live.
LEMMA SentEffect == ASSUME IInv, NEW sent, Sent(sent) PROVE Fades
<1>1. PICK x \in [Runs -> UNION {AfterCancel(remote[r]) \cup AfterPurge(remote[r]) \cup {remote[r]} : r \in Runs}] :
        /\ \A r \in Runs :
             LET purged == <<r, "privacy_purge">> \in sent
                 cancelled == <<r, "cancel">> \in sent
             IN  x[r] \in IF purged /\ cancelled
                          THEN UNION {AfterPurge(y) : y \in AfterCancel(remote[r])}
                          ELSE IF purged THEN AfterPurge(remote[r])
                          ELSE IF cancelled THEN AfterCancel(remote[r]) ELSE {remote[r]}
        /\ remote' = x
  BY DEF Sent
<1>2. \A r \in Runs : remote[r] \in Remote
  BY DEF IInv, TypeOK
<1>3. ASSUME NEW r \in Runs
      PROVE  x[r] \in Remote /\ x[r].state \in {remote[r].state, "ended"}
  <2>1. CASE x[r] \in UNION {AfterPurge(y) : y \in AfterCancel(remote[r])}
    <3>1. PICK y \in AfterCancel(remote[r]) : x[r] \in AfterPurge(y)
      BY <2>1
    <3>2. y \in Remote /\ y.state \in {remote[r].state, "ended"}
      BY <1>2, AfterCancelType
    <3> QED
      BY <3>1, <3>2, AfterPurgeType
  <2>2. CASE x[r] \in AfterPurge(remote[r])
    BY <1>2, <2>2, AfterPurgeType
  <2>3. CASE x[r] \in AfterCancel(remote[r])
    BY <1>2, <2>3, AfterCancelType
  <2>4. CASE x[r] = remote[r]
    BY <1>2, <2>4
  <2> QED
    BY <1>1, <2>1, <2>2, <2>3, <2>4
<1>4. remote' = x /\ DOMAIN x = Runs
  BY <1>1
<1>5. remote' \in [Runs -> Remote]
  BY <1>1, <1>3, <1>4
<1> QED
  BY <1>3, <1>4, <1>5 DEF Fades

\* An aborted maintenance: what was sent stays sent.
LEMMA MaintenanceAbortsStep == ASSUME IInv, MaintenanceAborts PROVE IInv'
<1>1. PICK some \in SUBSET ToSend : Sent(some)
  BY DEF MaintenanceAborts
<1>2. UNCHANGED <<business, key, locks, request>> /\ round' = round /\ trouble' \in 0..MaxTrouble
  BY GoesEffect DEF MaintenanceAborts
<1> QED
  BY <1>1, <1>2, SentEffect, FadesStep

\* run_maintenance: only what is not shown is collected.
LEMMA MaintainStep == ASSUME IInv, Maintain PROVE IInv'
<1> USE DEF IInv
<1>0. UNCHANGED <<archive, event, gone, key, round, eventLock, archiveLock, request>>
  BY DEF Maintain, locks
<1>1. PICK failed \in {{}} \cup {{e} : e \in ToSend} :
        /\ IF failed = {} THEN UNCHANGED trouble ELSE Goes("refused")
        /\ Sent(ToSend \ failed)
        /\ comp' = [r \in Runs |-> [act \in Actions |->
                      IF <<r, act>> \in ToSend \ failed THEN "delivered" ELSE comp[r][act]]]
  BY DEF Maintain
<1>2. trouble' \in 0..MaxTrouble
  BY <1>1, GoesEffect DEF TypeOK
<1>3. Fades
  BY <1>1, SentEffect
<1>4. comp' \in [Runs -> [Actions -> {"absent", "pending", "delivered"}]]
  BY <1>1 DEF TypeOK
<1>5. Kept
  <2>1. ref' = [r \in Runs |-> IF Confirmed(r) THEN [ref[r] EXCEPT !.purge = "purged"] ELSE ref[r]]
    BY DEF Maintain
  <2>2. \A r \in Runs : ref[r] \in Ref
    BY DEF TypeOK
  <2>3. \A r \in Runs : /\ [ref[r] EXCEPT !.purge = "purged"] \in Ref
                        /\ [ref[r] EXCEPT !.purge = "purged"].status = ref[r].status
    BY <2>2 DEF Ref
  <2>4. \A r \in Runs : ref'[r] \in {[ref[r] EXCEPT !.purge = "purged"], ref[r]}
    BY <2>1
  <2> QED
    BY <2>1, <2>2, <2>3, <2>4 DEF Kept
<1>6. /\ document' \in Documents
      /\ \A d \in {"baseline", "enhanced"} : document[d] = "shown" => document'[d] = "shown"
  <2>1. PICK week \in BOOLEAN : document' = Collected(week)
    BY DEF Maintain
  <2>2. document \in Documents /\ DOMAIN document = {"baseline", "enhanced"}
    BY DEF TypeOK, Documents
  <2>3. document' = [d \in {"baseline", "enhanced"} |->
            IF document[d] = "kept" /\ (d = "baseline" => week) THEN "absent" ELSE document[d]]
    BY <2>1, <2>2 DEF Collected
  <2> QED
    BY <2>2, <2>3 DEF Documents
<1>7. TypeOK'
  BY <1>0, <1>2, <1>3, <1>4, <1>5, <1>6 DEF TypeOK, Fades, Kept
<1>8. LiveHasKey' /\ StartedIsBound' /\ EventsNameRuns'
  BY <1>0, <1>3, <1>5 DEF LiveHasKey, StartedIsBound, EventsNameRuns, Fades, Kept
<1>9. RoundsAreLocked' /\ RevocationHolds'
  BY <1>0 DEF RoundsAreLocked, RevocationHolds
<1>10. PlayerFindsDocument'
  BY <1>0, <1>6 DEF PlayerFindsDocument
<1> QED
  BY <1>7, <1>8, <1>9, <1>10

-----------------------------------------------------------------------------
(* The theorems. *)

\* The state after archive_after_unbind satisfies the invariant.
LEMMA InitIInv == Init => IInv
<1> SUFFICES ASSUME Init PROVE IInv
  OBVIOUS
<1> USE DEF Init
<1>1. archive \in Archive /\ archive.epoch = 1 /\ ~archive.deleted /\ archive.revision = 0
  BY DEF Archive, RunOrNone
<1>2. document \in Documents /\ document["baseline"] = "shown"
  BY PairType
<1>3. /\ event \in [Phases -> Event] /\ event["create"].status = "pending"
      /\ event["start"].status = "absent" /\ event["start"].run = None
  BY DEF Phases, Event, RunOrNone
<1>4. /\ ref \in [Runs -> Ref] /\ remote \in [Runs -> Remote]
      /\ \A r \in Runs : remote[r].state = "absent"
  BY DEF Ref, Remote
<1>5. comp \in [Runs -> [Actions -> {"absent", "pending", "delivered"}]]
  OBVIOUS
<1>6. round \in [Launchers -> Round] /\ \A p \in Launchers : round[p].at = None /\ round[p].did = "none"
  BY DEF IdleRound, Round, RunOrNone
<1>7. TypeOK
  <2>1. key \in RunOrNone
    BY Zenon DEF RunOrNone
  <2>2. request \in BOOLEAN /\ gone \in BOOLEAN /\ trouble = 0
    BY Zenon
  <2>3. \A p \in {eventLock, archiveLock} : p = None
    BY Zenon
  <2> HIDE DEF Init
  <2>4. trouble \in 0..MaxTrouble
    BY <2>2, LaunchAssumption
  <2> QED
    BY <1>1, <1>2, <1>3, <1>4, <1>5, <1>6, <2>1, <2>2, <2>3, <2>4 DEF TypeOK
<1>8. LiveHasKey /\ StartedIsBound /\ EventsNameRuns
  BY <1>3, <1>4, LaunchAssumption DEF LiveHasKey, StartedIsBound, EventsNameRuns
<1>9. RoundsAreLocked
  BY <1>6, LaunchAssumption DEF RoundsAreLocked, Phases
<1>10. RevocationHolds /\ PlayerFindsDocument
  BY <1>1, <1>2 DEF RevocationHolds, PlayerFindsDocument
<1> QED
  BY <1>7, <1>8, <1>9, <1>10 DEF IInv

\* Every step keeps it.
LEMMA NextIInv == IInv /\ [Next]_vars => IInv'
<1> SUFFICES ASSUME IInv, [Next]_vars PROVE IInv'
  OBVIOUS
<1>1. CASE UNCHANGED vars
  BY <1>1 DEF vars, business, runtime, locks, IInv, TypeOK, LiveHasKey, StartedIsBound, EventsNameRuns,
              RoundsAreLocked, RevocationHolds, PlayerFindsDocument
<1>2. ASSUME NEW p \in Launchers, Launch(p) \/ AdoptOrCancel(p) \/ RoundFails(p) PROVE IInv'
  BY <1>2, BeginStep, CreateStep, DecidesStep, StartStep, RestartStep, CommitStep, AdoptStep, RoundFailsStep
     DEF Launch
<1>3. ASSUME NEW r \in Runs, RuntimeStep(r) \/ HeldExpires(r) \/ Callback(r) \/ Authorize(r) PROVE IInv'
  BY <1>3, RuntimeEnds, CallbackStep, AuthorizeStep DEF RuntimeStep
<1>4. CASE \/ KeyExpires \/ Publish \/ DeleteArchive \/ DeleteSource
           \/ Maintain \/ MaintenanceAborts
  BY <1>4, KeyExpiresStep, PublishStep, DeleteArchiveStep, DeleteSourceStep, MaintainStep,
     MaintenanceAbortsStep
<1> QED
  BY <1>1, <1>2, <1>3, <1>4 DEF Next

\* The inductive invariant holds in every reachable state.
THEOREM Invariance == Spec => []IInv
BY InitIInv, NextIInv, PTL DEF Spec

\* However often the creation is repeated, at most one of the archive's runs is live, and
\* a run is executed only once its reference is committed (create_held, bind, start_held).
THEOREM RunsSound == Spec => []RunsAreSound
<1>1. IInv => RunsAreSound
  <2> SUFFICES ASSUME IInv PROVE OneLiveRun
    BY DEF IInv, RunsAreSound
  <2> DEFINE L == {r \in Runs : remote[r].state \in {"held", "started"}}
  <2>1. L \subseteq {key}
    BY DEF IInv, LiveHasKey
  <2>2. IsFiniteSet({key}) /\ Cardinality({key}) = 1
    BY FS_Singleton
  <2>3. Cardinality(L) <= 1
    BY <2>1, <2>2, FS_Subset
  <2> QED
    BY <2>3 DEF OneLiveRun
<1> QED
  BY <1>1, Invariance, PTL

\* The revision the archive points to is never collected (publish_playback_document,
\* invalidate_deleted_source, purge_expired).
THEOREM PlayerFinds == Spec => []PlayerFindsDocument
<1>1. IInv => PlayerFindsDocument
  BY DEF IInv
<1> QED
  BY <1>1, Invariance, PTL

\* No late binding, answer or publication undoes a deletion or an invalidation
\* (generation_epoch with the archive's lock).
THEOREM RevocationIsFinal == Spec => RevokedStaysRevoked
<1>1. IInv /\ IInv' /\ [Next]_vars =>
        [archive.epoch > 1 => archive'.active = None /\ archive'.revision <= archive.revision]_vars
  <2> SUFFICES ASSUME IInv, IInv', Next, archive.epoch > 1
               PROVE  archive'.active = None /\ archive'.revision <= archive.revision
    BY DEF vars
  <2>1. archive \in Archive /\ archive' \in Archive
    BY DEF IInv, TypeOK
  <2>2. archive'.epoch > 1 => archive'.active = None
    BY DEF IInv, RevocationHolds
  <2>3. archive'.epoch >= archive.epoch /\ archive'.revision <= archive.revision
    <3>1. CASE archive' = archive
      BY <2>1, <3>1 DEF Archive
    <3>2. CASE Publish
      <4>1. request
        BY <3>2 DEF Publish
      <4>2. archive.deleted
        BY <4>1 DEF IInv, RevocationHolds
      <4> QED
        BY <3>1, <3>2, <4>2 DEF Publish, Undeleted
    <3>3. CASE DeleteArchive
      BY <2>1, <3>3 DEF DeleteArchive, Archive
    <3>4. CASE DeleteSource
      <4>1. archive.deleted \/ gone
        BY DEF IInv, RevocationHolds
      <4> QED
        BY <3>1, <3>4, <4>1 DEF DeleteSource
    <3>5. ASSUME NEW p \in Launchers, CommitRound(p)
          PROVE  archive'.epoch >= archive.epoch /\ archive'.revision <= archive.revision
      BY <2>1, <3>1, <3>5 DEF CommitRound, Archive
    <3> QED
      BY <3>1, <3>2, <3>3, <3>4, <3>5
         DEF Next, Launch, AdoptOrCancel, RoundFails, Begin, CreateAnswers, CreateFails, BindCreated,
             BindStarted, Decides, StartAnswers, StartFails, Restart, ToOrphans, RuntimeStep, RunEnds,
             PurgeEnds, HeldExpires, Callback, Authorize, KeyExpires, Maintain, MaintenanceAborts, business
  <2> QED
    BY <2>1, <2>2, <2>3 DEF Archive
<1> QED
  BY <1>1, Invariance, PTL DEF Spec, RevokedStaysRevoked

=============================================================================
