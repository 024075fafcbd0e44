----------------------------- MODULE AudioNode -----------------------------
(***************************************************************************)
(* The audio node of a memoir run: narration of scenes and one piece of    *)
(* background music, bought from providers, stored as private objects and  *)
(* accounted for in the ledger of MemoirAudioJob rows.                     *)
(*                                                                         *)
(* Every execution attempt of the run is a process of its own with one     *)
(* database session, in which the scenes and the music are asyncio tasks:  *)
(* they interleave at every await and share the session, so a commit of    *)
(* one task commits what the others have written.  Every write to the      *)
(* ledger first locks the AgentRun row, and the lock stays until the       *)
(* session commits, so `led', the ledger as the lock holder sees it, and   *)
(* `disk', the committed ledger, differ only while somebody has the lock.  *)
(* A process whose lease was taken over goes on until it notices.          *)
(*                                                                         *)
(* A slot (role, scene, segment, input) has one row; attempt, lease_token  *)
(* and the money reserved are kept.  Objects are named by the process and  *)
(* the slot that made the key.  The states `published' and `cancelled' are *)
(* never written (their methods have no caller) and are left out.          *)
(***************************************************************************)
EXTENDS Integers, FiniteSets, FiniteSetsExt

CONSTANTS
    Scenes,         \* scenes with a body
    Parts,          \* TTS segments of every scene
    DefaultMusic,   \* music slots filled by copying the default source
    PaidMusic,      \* music slots filled by the paid generator
    TtsCost,        \* estimate_tts_cost of a segment
    MusicCost,      \* estimate_music_cost
    Cap,            \* max_cost_per_run
    MaxSubmits,     \* MAX_SUBMIT_ATTEMPTS, 2 in the code
    MaxAttempt,     \* bound on execution attempts of the run
    Faults          \* what may go wrong, see AllFaults

AllFaults == {"crash", "takeover", "cancel", "commit", "lapse", "deadline", "limit",
              "lost", "media", "upload", "slow", "music"}

ASSUME AudioAssumption ==
    /\ IsFiniteSet(Scenes) /\ IsFiniteSet(DefaultMusic) /\ IsFiniteSet(PaidMusic)
    /\ Parts \in Nat \ {0}
    /\ DefaultMusic \cap PaidMusic = {}
    /\ (DefaultMusic \cup PaidMusic) \cap (Scenes \X (0..Parts)) = {}
    /\ TtsCost \in Nat \ {0} /\ MusicCost \in Nat \ {0} /\ Cap \in Nat
    /\ MaxSubmits \in Nat \ {0} /\ MaxAttempt \in Nat \ {0}
    /\ Faults \subseteq AllFaults

Music == DefaultMusic \cup PaidMusic
Segments == Scenes \X (1..Parts)
Narrations == Scenes \X {0}
Slots == Segments \cup Narrations \cup Music
Nodes == 1..MaxAttempt

Cost(s) == IF s \in Segments THEN TtsCost ELSE IF s \in PaidMusic THEN MusicCost ELSE 0

\* What is given up together: a scene without one of its segments is not narrated.
Unit(s) == IF s \in Music THEN {s} ELSE {s[1]} \X (0..Parts)

Active == {"reserved", "submitting", "submitted", "processing"}
\* What maintenance may clean: _ORPHAN_STATES without submission_unknown, which
\* it keeps, and cancelled, which nothing writes.
Orphan == {"uploaded", "failed"}
States == Active \cup Orphan \cup {"absent", "submission_unknown", "cleaned"}

NoKey == <<>>

Job == [state : States, attempt : Nat, token : Nat, owner : Nat, lapsed : BOOLEAN,
        key : {NoKey} \cup (Nodes \X Slots), reserved : Nat, settled : BOOLEAN, task : BOOLEAN]

NoJob == [state |-> "absent", attempt |-> 0, token |-> 0, owner |-> 0, lapsed |-> FALSE,
          key |-> NoKey, reserved |-> 0, settled |-> FALSE, task |-> FALSE]

VARIABLES
    run,        \* AgentRun: execution_attempt; active: neither cancelled nor purged
    led,        \* the ledger with the lock holder's uncommitted writes
    disk,       \* the committed ledger: job rows and reserved_total_cost
    lock,       \* the process whose transaction holds the AgentRun row, or 0
    node,       \* processes: absent, live or over; ctx.stop_reason; their music slot
    task,       \* task[p][s]: where process p stands with slot s
    charged,    \* provider: accepted submissions per slot that were not voided
    song,    \* provider: music generation: none, running, ok, failed
    store,      \* objects in the private bucket
    late,       \* uploads whose waiter has given up and that are still running
    published,  \* the published document: done, and the object keys it names
    aged        \* the retention window has passed

ledgerVars == <<led, disk, lock>>
nodeVars == <<node, task>>
providerVars == <<charged, song>>
objectVars == <<store, late, published>>
vars == <<run, led, disk, lock, node, task, charged, song, store, late, published, aged>>

FreshTask(m) ==
    [s \in Slots |-> [pc |-> IF s \in Music \ {m} THEN "gone" ELSE "todo",
                      token |-> 0, tries |-> 0]]

Init ==
    /\ run = [attempt |-> 1, active |-> TRUE]
    /\ disk = [job |-> [s \in Slots |-> NoJob], budget |-> 0]
    /\ led = disk
    /\ lock = 0
    /\ \E m \in Music :
        /\ node = [p \in Nodes |-> [up |-> IF p = 1 THEN "live" ELSE "absent",
                                    stop |-> FALSE, music |-> m]]
        /\ task = [p \in Nodes |-> FreshTask(m)]
    /\ charged = [s \in Slots |-> 0]
    /\ song = [s \in PaidMusic |-> "none"]
    /\ store = {} /\ late = {} /\ published = [done |-> FALSE, keys |-> {}]
    /\ aged = FALSE

-----------------------------------------------------------------------------
(* The session: every ledger write holds the AgentRun row until the commit. *)

\* What a plain read of process p sees.
View(p) == IF lock = p THEN led.job ELSE disk.job

Locked(p) == lock \in {0, p} /\ lock' = p

\* Write without a commit.
Write(p, l) == Locked(p) /\ led' = l /\ UNCHANGED disk

\* _commit_ledger: TRUE, or FALSE after a rollback; a commit that raised may
\* have reached the database.
Commit(p, l) == lock \in {0, p} /\ lock' = 0 /\ led' = l /\ disk' = l

CommitFails(p, l) ==
    /\ "commit" \in Faults
    /\ lock \in {0, p} /\ lock' = 0
    /\ disk' \in {disk, l}
    /\ led' = disk'

At(p, s, pc) == node[p].up = "live" /\ task[p][s].pc = pc

Goto(p, s, pc) ==
    /\ task' = [task EXCEPT ![p][s].pc = pc]
    /\ UNCHANGED node

\* The unit is degraded; stop is _absorb_jobs_error's decision for the others.
GiveUp(p, s, stop) ==
    /\ task' = [task EXCEPT ![p] =
         [t \in Slots |-> IF t \in Unit(s) THEN [task[p][t] EXCEPT !.pc = "gone"] ELSE task[p][t]]]
    /\ node' = [node EXCEPT ![p].stop = @ \/ stop]

-----------------------------------------------------------------------------
(* The ledger's guards *)

\* (mutant) Only the run's gate and the row's state are asked.
VerdictUnfenced(p, s, states) ==
    LET row == led.job[s] IN
    IF ~run.active THEN "stop"
    ELSE IF row.lapsed \/ row.state \notin states THEN "refused"
    ELSE "ok"

\* _load_for_write and _cas_update on the current row: Run gate, execution
\* attempt of the row's owner, fencing token, lease, state.
Verdict(p, s, states) ==
    LET row == led.job[s] IN
    IF ~run.active \/ row.owner # run.attempt \/ row.token # task[p][s].token THEN "stop"
    ELSE IF row.lapsed \/ row.state \notin states THEN "refused"
    ELSE "ok"

\* list_work_background_music_jobs, the rows made for another input.
Siblings(jobs, s) ==
    {m \in Music \ {s} : s \in Music /\ jobs[m].state # "absent"}

\* reserve_job and _reserve_existing under the lock.
Reservable(p, s) ==
    IF ~run.active \/ run.attempt # p THEN "stop"
    ELSE IF Siblings(led.job, s) # {} THEN "refused"
    ELSE IF led.job[s].state \in Active \cup {"submission_unknown"} THEN "refused"
    ELSE IF led.job[s].state = "uploaded" THEN "reused"
    ELSE IF Cost(s) > 0 /\ led.budget + Cost(s) > Cap THEN "stop"
    ELSE "ok"

\* (mutant) A slot that is tried again is paid from its first reservation.
ReservedOnce(p, s, state) ==
    [led EXCEPT
        !.budget = IF led.job[s].state = "absent" THEN @ + Cost(s) ELSE @,
        !.job[s] = [led.job[s] EXCEPT !.state = state, !.attempt = @ + 1, !.token = @ + 1,
                                      !.owner = p, !.lapsed = FALSE, !.task = FALSE,
                                      !.reserved = @ + Cost(s)]]

\* reserve_job created or revived the slot; the key and the settlement are kept.
Reserved(p, s, state) ==
    [led EXCEPT
        !.budget = @ + Cost(s),
        !.job[s] = [led.job[s] EXCEPT !.state = state, !.attempt = @ + 1, !.token = @ + 1,
                                      !.owner = p, !.lapsed = FALSE, !.task = FALSE,
                                      !.reserved = @ + Cost(s)]]

\* _segment_slot_retryable and _bgm_slot_retryable: a settled slot is final
\* unless it never cost anything.
Retryable(row) ==
    /\ row.state = "failed" /\ row.attempt < MaxSubmits
    /\ row.settled => row.reserved = 0 /\ ~row.task

\* find_reusable_uploaded_asset
Reusable(p, s) == View(p)[s].state = "uploaded"

\* find_pending_music_task
Pending(p, s) == View(p)[s].state \in {"submitted", "processing"} /\ View(p)[s].task

Free(p, s) == View(p)[s].state = "absent" \/ Retryable(View(p)[s])

Set(s, row) == [led EXCEPT !.job[s] = row]

\* A refused write leaves the AgentRun row locked until the next commit.
Refused(p, s, v) == v # "ok" /\ Write(p, led) /\ GiveUp(p, s, v = "stop")

\* The slot is left behind in the state l gives it.
Leave(p, s, l) ==
    \/ Commit(p, l) /\ GiveUp(p, s, FALSE)
    \/ CommitFails(p, l) /\ GiveUp(p, s, TRUE)

\* The task goes on only with its ledger entry committed.
Proceed(p, s, l, pc) ==
    \/ /\ Commit(p, l)
       /\ task' = [task EXCEPT ![p][s].pc = pc, ![p][s].token = l.job[s].token]
       /\ UNCHANGED node
    \/ CommitFails(p, l) /\ GiveUp(p, s, TRUE)

\* The task goes on whatever _commit_ledger returns.
GoOn(p, s, l, pc) ==
    /\ task' = [task EXCEPT ![p][s].pc = pc, ![p][s].token = l.job[s].token]
    /\ \/ Commit(p, l) /\ UNCHANGED node
       \/ CommitFails(p, l) /\ node' = [node EXCEPT ![p].stop = TRUE]

-----------------------------------------------------------------------------
(* Paid submissions: TTS segments and generated music *)

\* Segments of a scene are synthesised one after the other; music is submitted
\* when there is neither an asset nor a task to go on with.
Turn(p, s) ==
    /\ s \in Segments =>
        /\ At(p, <<s[1], 0>>, "wait")
        /\ \A i \in 1..(s[2] - 1) : At(p, <<s[1], i>>, "done")
    /\ s \in Music => ~Reusable(p, s) /\ ~Pending(p, s)

\* _synthesize_segment and _submit_background_music up to the provider's call:
\* reserve, mark_submitting, commit.  Only the music path commits a refusal.
Submit(p, s) ==
    /\ At(p, s, "todo") /\ Turn(p, s)
    /\ IF node[p].stop \/ Siblings(View(p), s) # {} \/ ~Free(p, s)
       THEN GiveUp(p, s, FALSE) /\ UNCHANGED ledgerVars
       ELSE LET v == Reservable(p, s) IN
            \/ s \in Segments /\ Refused(p, s, v)
            \/ s \in Music /\ v # "ok" /\ GiveUp(p, s, v = "stop") /\ Commit(p, led)
            \/ v = "ok" /\ Proceed(p, s, Reserved(p, s, "submitting"), "call")

\* The request is out.  An error that is not a refusal leaves open whether the
\* provider took it, also when the process had no free slot to send it.
Call(p, s) ==
    /\ At(p, s, "call")
    /\ \/ /\ Goto(p, s, "answered")
          /\ charged' = [charged EXCEPT ![s] = @ + 1]
          /\ song' = IF s \in PaidMusic THEN [song EXCEPT ![s] = "running"] ELSE song
       \/ /\ "limit" \in Faults /\ Goto(p, s, "limited")
          /\ UNCHANGED providerVars
       \/ /\ "lost" \in Faults /\ Goto(p, s, "lost")
          /\ \E n \in {0, 1} : charged' = [charged EXCEPT ![s] = @ + n]
          /\ UNCHANGED song

Submitted(s) ==
    Set(s, [led.job[s] EXCEPT !.state = "submitted", !.task = s \in Music,
                              !.settled = @ \/ s \in Segments])

\* mark_submitted, and settle_tts_usage for a segment.
Answered(p, s) ==
    /\ At(p, s, "answered")
    /\ LET v == Verdict(p, s, {"submitting", "submitted"}) IN
       \/ Refused(p, s, v)
       \/ /\ v = "ok"
          /\ Proceed(p, s, Submitted(s), IF s \in Music THEN "poll" ELSE "done")

\* _mark_provider_failure for 429: failed; one more attempt after the pause,
\* whether or not the ledger took the failure.
Limited(p, s) ==
    /\ At(p, s, "limited")
    /\ LET v == Verdict(p, s, Active)
           l == Set(s, [led.job[s] EXCEPT !.state = "failed"])
           again == task[p][s].tries + 1 < MaxSubmits
       IN  \E stop \in BOOLEAN :
             /\ IF again
                THEN /\ task' = [task EXCEPT ![p][s].pc = "todo", ![p][s].tries = @ + 1]
                     /\ node' = [node EXCEPT ![p].stop = @ \/ stop]
                ELSE GiveUp(p, s, stop)
             /\ \/ v = "ok" /\ ~stop /\ Commit(p, l)
                \/ v = "ok" /\ stop /\ CommitFails(p, l)
                \/ v # "ok" /\ stop = (v = "stop") /\ Write(p, led)

\* (mutant) An unanswered submission is taken for a failed one.
LostFails(p, s) ==
    /\ At(p, s, "lost")
    /\ LET v == Verdict(p, s, {"submitting", "submitted"}) IN
       \/ Refused(p, s, v)
       \/ v = "ok" /\ Leave(p, s, Set(s, [led.job[s] EXCEPT !.state = "failed"]))

\* _mark_provider_failure for everything else.
Lost(p, s) ==
    /\ At(p, s, "lost")
    /\ LET v == Verdict(p, s, {"submitting", "submitted"}) IN
       \/ Refused(p, s, v)
       \/ v = "ok" /\ Leave(p, s, Set(s, [led.job[s] EXCEPT !.state = "submission_unknown"]))

Purchase(p, s) ==
    \/ /\ Submit(p, s) \/ Answered(p, s) \/ Limited(p, s) \/ Lost(p, s)
       /\ UNCHANGED providerVars
    \/ Call(p, s) /\ UNCHANGED ledgerVars

-----------------------------------------------------------------------------
(* Delivery: narration, copied music, generated music *)

\* _narrate_scene: an uploaded narration is used again.
BeginScene(p, n) ==
    /\ At(p, n, "todo")
    /\ IF node[p].stop THEN GiveUp(p, n, FALSE)
       ELSE IF Reusable(p, n)
       THEN /\ task' = [task EXCEPT ![p] =
                  [t \in Slots |-> IF t \in Unit(n) THEN [task[p][t] EXCEPT !.pc = "done"]
                                   ELSE task[p][t]]]
            /\ UNCHANGED node
       ELSE Goto(p, n, "wait")
    /\ UNCHANGED ledgerVars

Keyed(p, l, s) == [l EXCEPT !.job[s].key = IF @ = NoKey THEN <<p, s>> ELSE @]

\* _upload_narration up to the upload: join the parts, reserve a slot that costs
\* nothing, fix a new object key, commit.  A slot that has a key already refuses
\* the new one and stays reserved in the open transaction.
PlaceNarration(p, n) ==
    /\ At(p, n, "wait")
    /\ \A i \in 1..Parts : At(p, <<n[1], i>>, "done")
    /\ \/ "media" \in Faults /\ GiveUp(p, n, FALSE) /\ UNCHANGED ledgerVars
       \/ LET v == Reservable(p, n)
              l == Reserved(p, n, "reserved")
          IN  \/ v \in {"stop", "refused"} /\ Refused(p, n, v)
              \/ v = "reused" /\ Goto(p, n, "done") /\ Write(p, led)
              \/ v = "ok" /\ led.job[n].key # NoKey /\ Write(p, l) /\ GiveUp(p, n, FALSE)
              \/ v = "ok" /\ led.job[n].key = NoKey /\ Proceed(p, n, Keyed(p, l, n), "upload")

\* _generate_default_background_music: ctx.should_stop is asked once, before the
\* source is downloaded.
ReadSource(p, m) ==
    /\ At(p, m, "todo")
    /\ IF node[p].stop THEN GiveUp(p, m, FALSE)
       ELSE Goto(p, m, "source") \/ ("media" \in Faults /\ GiveUp(p, m, FALSE))
    /\ UNCHANGED ledgerVars

\* From the source to the transcoding: reuse, mutual exclusion, reservation.  The
\* slot is reserved and not yet committed; a refusal is.
ReserveDefault(p, m) ==
    /\ At(p, m, "source")
    /\ IF Reusable(p, m) THEN Goto(p, m, "done") /\ UNCHANGED ledgerVars
       ELSE IF Siblings(View(p), m) # {} \/ ~Free(p, m)
       THEN GiveUp(p, m, FALSE) /\ UNCHANGED ledgerVars
       ELSE LET v == Reservable(p, m)
                l == Reserved(p, m, "reserved")
            IN  \/ v # "ok" /\ GiveUp(p, m, v = "stop") /\ Commit(p, led)
                \/ /\ v = "ok" /\ Write(p, l)
                   /\ task' = [task EXCEPT ![p][m].pc = "fetch", ![p][m].token = l.job[m].token]
                   /\ UNCHANGED node

\* (mutant) The copy is uploaded before its key is committed.
PlaceDefaultUncommitted(p, m) ==
    /\ At(p, m, "fetch")
    /\ \/ "media" \in Faults /\ GiveUp(p, m, FALSE) /\ UNCHANGED ledgerVars
       \/ Refused(p, m, Verdict(p, m, Active))
       \/ /\ Verdict(p, m, Active) = "ok"
          /\ Write(p, Keyed(p, led, m)) /\ Goto(p, m, "upload")

\* The copy is ready: fix the key, or keep the one a revived slot has, commit.
PlaceDefault(p, m) ==
    /\ At(p, m, "fetch")
    /\ \/ "media" \in Faults /\ GiveUp(p, m, FALSE) /\ UNCHANGED ledgerVars
       \/ Refused(p, m, Verdict(p, m, Active))
       \/ Verdict(p, m, Active) = "ok" /\ Proceed(p, m, Keyed(p, led, m), "upload")

\* rotate_lease, which does not ask for an unexpired lease, renew_lease and
\* mark_processing.
Rotated(p, m) ==
    Set(m, [led.job[m] EXCEPT !.token = @ + 1, !.owner = p, !.lapsed = FALSE,
                              !.state = "processing"])

\* A paid task that an earlier attempt left running is taken over.
Resume(p, m) ==
    /\ At(p, m, "todo") /\ Pending(p, m)
    /\ IF ~run.active \/ run.attempt # p
       THEN Write(p, led) /\ GiveUp(p, m, TRUE)
       ELSE GoOn(p, m, Rotated(p, m), "poll")

UseMusicAgain(p, m) ==
    /\ At(p, m, "todo") /\ Reusable(p, m)
    /\ Goto(p, m, "done") /\ UNCHANGED ledgerVars

\* Delivery failed: mark_failed and commit.  A refusal is swallowed.
Failed(p, s) ==
    \/ Verdict(p, s, Active) # "ok" /\ Write(p, led) /\ GiveUp(p, s, FALSE)
    \/ Verdict(p, s, Active) = "ok" /\ Leave(p, s, Set(s, [led.job[s] EXCEPT !.state = "failed"]))

\* settle_music_usage
Settled(m) == Set(m, [led.job[m] EXCEPT !.settled = TRUE])

\* (mutant) should_stop is not asked while the task runs.
PollOn(p, m) ==
    /\ At(p, m, "poll")
    /\ song[m] # "running"
    /\ \/ GiveUp(p, m, FALSE) /\ UNCHANGED ledgerVars
       \/ /\ song[m] = "ok"
          /\ LET v == Verdict(p, m, {"submitted", "processing", "uploaded"}) IN
             \/ Refused(p, m, v)
             \/ v = "ok" /\ GoOn(p, m, Settled(m), "fetch")

\* _poll_background_music, and the settlement that opens
\* _finalize_background_music.  While the task runs both leases are renewed; the
\* heartbeat of the run's lease commits, and stops the node when it is refused.
Poll(p, m) ==
    /\ At(p, m, "poll")
    /\ \/ /\ node[p].stop \/ "lost" \in Faults
          /\ GiveUp(p, m, FALSE) /\ UNCHANGED ledgerVars
       \/ /\ ~node[p].stop /\ song[m] = "ok"
          /\ LET v == Verdict(p, m, {"submitted", "processing", "uploaded"}) IN
             \/ Refused(p, m, v)
             \/ v = "ok" /\ GoOn(p, m, Settled(m), "fetch")
       \/ /\ ~node[p].stop /\ song[m] = "failed"
          /\ LET v == Verdict(p, m, Active) IN
             \/ v # "ok" /\ Commit(p, led) /\ GiveUp(p, m, v = "stop")
             \/ v = "ok" /\ Leave(p, m, Set(m, [led.job[m] EXCEPT !.state = "failed"]))
       \/ /\ ~node[p].stop /\ song[m] = "running"
          /\ LET row == led.job[m]
                 l == Set(m, [row EXCEPT !.lapsed = FALSE])
             IN  IF ~run.active \/ row.owner # run.attempt \/ row.token # task[p][m].token
                 THEN Write(p, led) /\ GiveUp(p, m, TRUE)
                 ELSE IF row.state \notin Active
                 THEN Write(p, led) /\ GiveUp(p, m, FALSE)
                 ELSE \/ Commit(p, l) /\ UNCHANGED nodeVars
                      \/ Write(p, l) /\ UNCHANGED task /\ node' = [node EXCEPT ![p].stop = TRUE]

\* _finalize_background_music between settlement and upload.  The key is always
\* a new one; every error but a timeout ends in mark_failed.
PlacePaid(p, m) ==
    /\ At(p, m, "fetch")
    /\ \/ "slow" \in Faults /\ GiveUp(p, m, FALSE) /\ UNCHANGED ledgerVars
       \/ "media" \in Faults /\ Failed(p, m)
       \/ IF Verdict(p, m, Active) = "ok" /\ led.job[m].key = NoKey
          THEN Proceed(p, m, Keyed(p, led, m), "upload")
          ELSE Failed(p, m)

\* _upload_audio_bytes: done, failed with or without an object, or given up on
\* while the upload thread goes on.
Upload(p, s) ==
    LET k == View(p)[s].key IN
    /\ At(p, s, "upload")
    /\ \/ /\ Goto(p, s, "stored") /\ store' = store \cup {k} /\ UNCHANGED late
       \/ /\ "upload" \in Faults /\ Goto(p, s, "unsent")
          /\ store' \in {store, store \cup {k}} /\ UNCHANGED late
       \/ /\ "slow" \in Faults /\ GiveUp(p, s, FALSE)
          /\ late' = late \cup {k} /\ UNCHANGED store
    /\ UNCHANGED published

Uploaded(s) ==
    Set(s, [led.job[s] EXCEPT !.state = "uploaded", !.settled = @ \/ s \in DefaultMusic])

\* record_upload, after settle_default_music_usage for copied music.  The entry
\* is delivered whatever the commit says.
RecordUpload(p, s) ==
    /\ At(p, s, "stored")
    /\ LET v == Verdict(p, s, Active) IN
       \/ v = "ok" /\ GoOn(p, s, Uploaded(s), "done")
       \/ s \notin PaidMusic /\ Refused(p, s, v)
       \/ s \in PaidMusic /\ v # "ok" /\ Failed(p, s)

UploadFailed(p, s) == At(p, s, "unsent") /\ Failed(p, s)

Delivery(p, s) ==
    \/ s \in Narrations /\ (BeginScene(p, s) \/ PlaceNarration(p, s))
    \/ s \in DefaultMusic /\ (ReadSource(p, s) \/ ReserveDefault(p, s) \/ PlaceDefault(p, s))
    \/ s \in PaidMusic /\ (UseMusicAgain(p, s) \/ Resume(p, s) \/ Poll(p, s) \/ PlacePaid(p, s))
    \/ RecordUpload(p, s) \/ UploadFailed(p, s)

Task(p, s) ==
    /\ \/ s \in Segments \cup PaidMusic /\ Purchase(p, s) /\ UNCHANGED objectVars
       \/ Delivery(p, s) /\ UNCHANGED <<providerVars, objectVars>>
       \/ Upload(p, s) /\ UNCHANGED <<ledgerVars, providerVars>>
    /\ UNCHANGED <<run, aged>>

-----------------------------------------------------------------------------
(* The run around the node, the provider, the bucket *)

Delivered(p) == {s \in Narrations \cup Music : task[p][s].pc = "done"}

\* generate() returns.  What the session has not committed is committed by the
\* next checkpoint or dropped with the session; the attempt that holds the run
\* may then publish a document that names the delivered objects, once.
Return(p) ==
    /\ node[p].up = "live"
    /\ \A s \in Slots : task[p][s].pc \in {"done", "gone"}
    /\ node' = [node EXCEPT ![p].up = "over"]
    /\ IF lock # p THEN UNCHANGED ledgerVars
       ELSE \E l \in {led, disk} : Commit(p, l)
    /\ \/ UNCHANGED published
       \/ /\ run.active /\ run.attempt = p /\ ~published.done
          /\ published' = [done |-> TRUE, keys |-> {View(p)[s].key : s \in Delivered(p)}]
    /\ UNCHANGED <<run, task, providerVars, store, late, aged>>

\* The lease of the run is lost or the run is retried: the next attempt starts,
\* possibly from a deployment with other music settings.
TakeOver ==
    /\ "takeover" \in Faults
    /\ run.active /\ run.attempt < MaxAttempt /\ lock = 0 /\ ~aged
    /\ run' = [run EXCEPT !.attempt = @ + 1]
    /\ \E m \in Music :
        /\ node' = [node EXCEPT ![run.attempt + 1] = [@ EXCEPT !.up = "live", !.music = m]]
        /\ task' = [task EXCEPT ![run.attempt + 1] = FreshTask(m)]
    /\ UNCHANGED <<ledgerVars, providerVars, objectVars, aged>>

\* Cancel or purge request.
CancelRun ==
    /\ "cancel" \in Faults /\ run.active /\ lock = 0
    /\ run' = [run EXCEPT !.active = FALSE]
    /\ UNCHANGED <<ledgerVars, nodeVars, providerVars, objectVars, aged>>

\* The process dies, and with it its transaction and its upload threads.
Crash(p) ==
    /\ "crash" \in Faults /\ node[p].up = "live"
    /\ node' = [node EXCEPT ![p].up = "over"]
    /\ late' = {k \in late : k[1] # p}
    /\ IF lock # p THEN UNCHANGED ledgerVars
       ELSE led' = disk /\ lock' = 0 /\ UNCHANGED disk
    /\ UNCHANGED <<run, task, providerVars, store, published, aged>>

\* The node's time is used up, or the heartbeat of the run's lease was refused.
NodeDeadline(p) ==
    /\ "deadline" \in Faults /\ node[p].up = "live" /\ ~node[p].stop
    /\ node' = [node EXCEPT ![p].stop = TRUE]
    /\ UNCHANGED <<run, task, ledgerVars, providerVars, objectVars, aged>>

\* expires_at of a row passes, in the committed ledger and in the open one.
JobLapses(s) ==
    /\ "lapse" \in Faults
    /\ disk.job[s].state \in Active /\ ~disk.job[s].lapsed
    /\ disk' = [disk EXCEPT !.job[s].lapsed = TRUE]
    /\ led' = [led EXCEPT !.job[s].lapsed = TRUE]
    /\ UNCHANGED <<run, lock, nodeVars, providerVars, objectVars, aged>>

\* The provider finishes a piece of music; a failed generation is not charged.
SongEnds(m) ==
    /\ song[m] = "running"
    /\ \/ song' = [song EXCEPT ![m] = "ok"] /\ UNCHANGED charged
       \/ /\ "music" \in Faults
          /\ song' = [song EXCEPT ![m] = "failed"]
          /\ charged' = [charged EXCEPT ![m] = @ - 1]
    /\ UNCHANGED <<run, ledgerVars, nodeVars, objectVars, aged>>

LateUpload(k) ==
    /\ k \in late
    /\ late' = late \ {k}
    /\ store' = store \cup {k}
    /\ UNCHANGED <<run, ledgerVars, nodeVars, providerVars, published, aged>>

-----------------------------------------------------------------------------
(* Maintenance, run when the retention window has passed.  The window is far *)
(* longer than a run, so nothing of the run is left.                         *)

RetentionPasses ==
    /\ ~aged /\ lock = 0 /\ late = {}
    /\ \A p \in Nodes : node[p].up # "live"
    /\ aged' = TRUE
    /\ disk' = [disk EXCEPT !.job = [s \in Slots |-> [disk.job[s] EXCEPT !.lapsed = TRUE]]]
    /\ led' = disk'
    /\ UNCHANGED <<run, lock, nodeVars, providerVars, objectVars>>

Abandoned(s, row) ==
    \/ row.state \in Active /\ row.key # NoKey
    \/ row.state = "reserved" /\ s \in Music /\ row.key = NoKey /\ ~row.task /\ row.reserved = 0

\* fail_abandoned_keyed_jobs and fail_abandoned_keyless_default_jobs.
Reap ==
    /\ aged
    /\ \E s \in Slots : Abandoned(s, disk.job[s])
    /\ disk' = [disk EXCEPT !.job = [s \in Slots |->
         IF ~Abandoned(s, disk.job[s]) THEN disk.job[s]
         ELSE [disk.job[s] EXCEPT !.state = "failed",
                                  !.settled = @ \/ disk.job[s].key = NoKey]]]
    /\ led' = disk'
    /\ UNCHANGED <<run, lock, nodeVars, providerVars, objectVars, aged>>

\* (mutant) An object is kept only while its row says uploaded.
UnreferencedByRow(k) == \A s \in Slots : disk.job[s].key = k => disk.job[s].state # "uploaded"

\* The publish probe: nothing published, or a document that does not name the
\* object.  A probe that fails keeps the object.
Unreferenced(k) == k \notin published.keys

\* run_maintenance on one candidate: delete the object, mark_cleaned.
Clean(s) ==
    /\ aged
    /\ \A t \in Slots : ~Abandoned(t, disk.job[t])
    /\ disk.job[s].state \in Orphan /\ disk.job[s].key # NoKey
    /\ Unreferenced(disk.job[s].key)
    /\ store' = store \ {disk.job[s].key}
    /\ disk' = [disk EXCEPT !.job[s].state = "cleaned"]
    /\ led' = disk'
    /\ UNCHANGED <<run, lock, nodeVars, providerVars, late, published, aged>>

-----------------------------------------------------------------------------
Next ==
    \/ \E p \in Nodes : (\E s \in Slots : Task(p, s)) \/ Return(p) \/ Crash(p) \/ NodeDeadline(p)
    \/ TakeOver \/ CancelRun
    \/ \E s \in Slots : JobLapses(s)
    \/ \E m \in PaidMusic : SongEnds(m)
    \/ \E k \in late : LateUpload(k)
    \/ RetentionPasses \/ Reap \/ \E s \in Slots : Clean(s)

Spec == Init /\ [][Next]_vars

\* The event loop of a live process runs some task that can run, the node's
\* deadline arrives and generate() returns.  Nothing is assumed of the provider.
Fairness ==
    \A p \in Nodes :
        WF_vars(\E s \in Slots : Task(p, s)) /\ WF_vars(Return(p)) /\ WF_vars(NodeDeadline(p))

FairSpec == Spec /\ Fairness

-----------------------------------------------------------------------------
(* Types and safety *)

Ledger == [job : [Slots -> Job], budget : Nat]

\* The types of the ledger's rows, of the tasks and of what the provider, the
\* bucket and the published document hold; without a lock holder nothing is
\* uncommitted.
TypeOK ==
    /\ run \in [attempt : Nodes, active : BOOLEAN]
    /\ led \in Ledger /\ disk \in Ledger
    /\ lock \in {0} \cup Nodes
    /\ lock = 0 => led = disk
    /\ node \in [Nodes -> [up : {"absent", "live", "over"}, stop : BOOLEAN, music : Music]]
    /\ task \in [Nodes -> [Slots ->
         [pc : {"todo", "wait", "call", "answered", "limited", "lost", "poll", "source", "fetch", "upload",
                "stored", "unsent", "done", "gone"}, token : Nat, tries : Nat]]]
    /\ charged \in [Slots -> Nat]
    /\ song \in [PaidMusic -> {"none", "running", "ok", "failed"}]
    /\ store \subseteq Nodes \X Slots /\ late \subseteq Nodes \X Slots
    /\ published \in [done : BOOLEAN, keys : SUBSET (Nodes \X Slots)]
    /\ aged \in BOOLEAN

\* A provider is never paid twice for the same slot, whatever was lost, refused,
\* crashed, taken over or retried: only a submission the provider refused or
\* voided is repeated.
ChargedOnce == \A s \in Slots : charged[s] <= 1

Charges == MapThenSumSet(LAMBDA s : charged[s] * Cost(s), Slots)
ReservedTotal == MapThenSumSet(LAMBDA s : disk.job[s].reserved, Slots)

\* Before a provider can charge anything, the amount is in the committed budget:
\* charges of concurrent tasks and attempts together never exceed the cap, and
\* the budget row is the sum of the rows it stands for.
ChargesAreReserved ==
    Charges <= disk.budget /\ disk.budget <= Cap /\ disk.budget = ReservedTotal

\* Every object in the bucket, also one that a forgotten upload thread wrote, is
\* named by a committed row, so that maintenance can find it.
ObjectsAreTracked == \A k \in store : \E s \in Slots : disk.job[s].key = k

\* A work has one piece of music, also when the deployment's music mode changes
\* between two attempts.
OneMusicPerWork == Cardinality({m \in Music : disk.job[m].state # "absent"}) <= 1

\* The ledger can be relied on: its rows are well formed, it names every object and it
\* holds one piece of music.
LedgerIsSound == TypeOK /\ ObjectsAreTracked /\ OneMusicPerWork

\* An object the published document names is there, and no maintenance run
\* deletes it, also when the ledger never learned of the upload.
PublishedIsKept == published.keys \subseteq store

\* An attempt that was replaced changes nothing in the ledger any more.
LateNodeIsFenced ==
    [][\A p \in Nodes : task'[p] # task[p] /\ led' # led => p = run.attempt]_vars

\* generate() returns, and its session lets go of the run.
NodeReturns == \A p \in Nodes : (node[p].up = "live") ~> (node[p].up = "over" /\ lock # p)

=============================================================================
