------------------------------ MODULE RunLedger ------------------------------
(***************************************************************************)
(* The life of one AgentRun row, written by four kinds of actor at once:   *)
(* API transactions (AgentRunService), Workers (RunQueueService and        *)
(* WorkflowExecutor under LeaseService), the lease reaper and the          *)
(* Reconciler (ReconciliationService).                                     *)
(*                                                                         *)
(* Two ways of writing the row exist in the code and the difference is the *)
(* subject of this module.  A conditional UPDATE tests and writes the      *)
(* committed row in one atomic step.  An ORM session loads the row, lets   *)
(* the service change the loaded object, and at commit writes back only    *)
(* the columns whose value changed, with no condition: it holds a `view'   *)
(* (the row as loaded) and a `mine' (the object as changed), and Flush     *)
(* merges them into whatever the row has become meanwhile.  The one check  *)
(* at commit is UNIQUE(run_id, event_seq) of CallbackEvent: a session that *)
(* appended a callback fails if another callback was committed since.      *)
(*                                                                         *)
(* Runs do not share anything but the admission buckets, so one row is     *)
(* modelled.  fencing_token and execution_attempt are always incremented   *)
(* together and are one field, token.  privacy_version changes only with   *)
(* privacy_state and is represented by it.                                 *)
(***************************************************************************)
EXTENDS Integers, Sequences

CONSTANTS
    Workers,        \* worker processes
    Clients,        \* concurrent API requests
    Scanner,        \* the session of the reconciler's scan
    Nobody,         \* no lease owner, no lock holder
    StartModes,     \* subset of {"held", "auto"}: CreateRunCommand.start_mode
    ApiOps,         \* API operations the clients issue
    Faults,         \* what the environment may do, see Environment below
    TimeoutAction,  \* waiting_human_timeout_action of the frozen plan
    RejectFallback, \* TRUE when the plan's reject_action is "fallback"
    MaxToken,       \* bound on execution attempts
    MaxNodes,       \* nodes of the static plan
    MaxRetries      \* manual retries allowed, 3 in the code

AllOps == {"start", "cancel", "purge", "retry", "approve", "reject"}

AllFaults == {"crash", "lapse", "deadline", "active_ttl", "revoke", "auth", "drain",
              "node", "optional", "human", "held_ttl", "queue_ttl", "human_ttl"}

ASSUME ConstantsAssumption ==
    /\ Nobody \notin Workers
    /\ Scanner \notin Clients
    /\ StartModes \subseteq {"held", "auto"}
    /\ ApiOps \subseteq AllOps
    /\ Faults \subseteq AllFaults
    /\ TimeoutAction \in {"fallback", "cancelled", "failed"}
    /\ RejectFallback \in BOOLEAN
    /\ MaxToken \in Nat
    /\ MaxNodes \in Nat \ {0}
    /\ MaxRetries \in Nat

Terminal == {"succeeded", "partial", "failed", "cancelled"}

Statuses == {"pending", "running", "waiting_human"} \cup Terminal

EventTypes == {"run_started", "step_changed", "waiting_human"} \cup Terminal

Sessions == Clients \cup {Scanner}

Row == [status : Statuses,
        dispatch : {"held", "queued", "claimed", "finished"},
        sv : Nat, seq : Nat, token : Nat, retries : Nat,
        owner : Workers \cup {Nobody},
        lease : {"none", "granted", "released"},
        cancel : BOOLEAN, fallback : BOOLEAN,
        privacy : {"active", "purge_requested", "purged"}]

Event == [type : EventTypes, sv : Nat]

LogEvent == [type : EventTypes, sv : Nat, token : Nat]

VARIABLES
    run,      \* the committed AgentRun row
    ckpt,     \* keys of the committed AgentCheckpoints: <<attempt, step>>
    log,      \* committed CallbackEvents in event_seq order
    notice,   \* TRUE when a run_dispatch outbox event is pending
    lapsed,   \* tokens whose lease has run out of time
    env,      \* deadline passed, package executable, caller's authorization
    draining, \* workers told to drain
    lock,     \* the worker whose open transaction has updated the row
    wk,       \* worker processes
    tx        \* API sessions and the scan's session

vars == <<run, ckpt, log, notice, lapsed, env, draining, lock, wk, tx>>

-----------------------------------------------------------------------------
(* ORM sessions *)

NewRow(mode) ==
    [status |-> "pending", dispatch |-> IF mode = "held" THEN "held" ELSE "queued",
     sv |-> 1, seq |-> 0, token |-> 0, retries |-> 0, owner |-> Nobody,
     lease |-> "none", cancel |-> FALSE, fallback |-> FALSE, privacy |-> "active"]

\* A session s holds the row as loaded, the object as changed and the callbacks
\* it has appended.  Only columns that changed are written at commit.
Net(mine, view, cur) == IF mine # view THEN mine ELSE cur

Flush(s) ==
    [status   |-> Net(s.mine.status, s.view.status, run.status),
     dispatch |-> Net(s.mine.dispatch, s.view.dispatch, run.dispatch),
     sv       |-> Net(s.mine.sv, s.view.sv, run.sv),
     seq      |-> Net(s.mine.seq, s.view.seq, run.seq),
     token    |-> run.token,
     retries  |-> Net(s.mine.retries, s.view.retries, run.retries),
     owner    |-> Net(s.mine.owner, s.view.owner, run.owner),
     lease    |-> Net(s.mine.lease, s.view.lease, run.lease),
     cancel   |-> Net(s.mine.cancel, s.view.cancel, run.cancel),
     fallback |-> Net(s.mine.fallback, s.view.fallback, run.fallback),
     privacy  |-> Net(s.mine.privacy, s.view.privacy, run.privacy)]

\* (mutant) No unique constraint on (run_id, event_seq).
ClashNever(s) == FALSE

\* UNIQUE(run_id, event_seq) refuses a callback numbered from an outdated row.
Clash(s) == s.events # <<>> /\ s.view.seq # run.seq

\* append_callback_event: number the event, in the same session as the change.
Append1(row, events, type) ==
    [mine |-> [row EXCEPT !.seq = @ + 1],
     events |-> Append(events, [type |-> type, sv |-> row.sv])]

\* The log remembers, beside each event, the attempt that was current for its
\* author: the lease token of a worker, the row's token for the control plane.
Stamp(events, token) ==
    [i \in 1..Len(events) |->
        [type |-> events[i].type, sv |-> events[i].sv, token |-> token]]

-----------------------------------------------------------------------------
(* Leases *)

Lapsed(row) ==
    row.lease = "released" \/ (row.lease = "granted" /\ row.token \in lapsed)

Authorized == env.auth = "current"

\* LeaseService.can_write, on the object the session holds: only the clock and
\* the package definition are read afresh.
CanWrite(w, row) ==
    /\ row.dispatch = "claimed"
    /\ row.owner = w
    /\ row.token = wk[w].token
    /\ row.privacy = "active"
    /\ ~row.cancel
    /\ row.lease # "none"
    /\ ~Lapsed(row)
    /\ wk[w].token \notin lapsed
    /\ ~env.due
    /\ env.pkg

\* The WHERE clause of LeaseService.heartbeat, on the committed row.
Renewable(w) ==
    /\ run.dispatch = "claimed"
    /\ run.owner = w
    /\ run.token = wk[w].token
    /\ ~run.cancel
    /\ run.privacy = "active"
    /\ run.lease # "none" /\ ~Lapsed(run)
    /\ ~env.due

IdleWorker ==
    [pc |-> "idle", token |-> 0, view |-> NewRow("held"), mine |-> NewRow("held"),
     events |-> <<>>, save |-> {}, outcome |-> "none", node |-> 0, resume |-> FALSE]

IdleTx ==
    [op |-> "none", view |-> NewRow("held"), mine |-> NewRow("held"), events |-> <<>>, drop |-> {}]

Init ==
    /\ \E mode \in StartModes :
        /\ run = NewRow(mode)
        /\ notice = (mode = "auto")
    /\ ckpt = {}
    /\ log = <<>>
    /\ lapsed = {}
    /\ env = [due |-> FALSE, pkg |-> TRUE, auth |-> "current"]
    /\ draining = {}
    /\ lock = Nobody
    /\ wk = [w \in Workers |-> IdleWorker]
    /\ tx = [c \in Sessions |-> IdleTx]

-----------------------------------------------------------------------------
(* API: each request reads the row, decides on what it read, and commits.   *)

Begin(c, op, mine, events) ==
    /\ tx[c].op = "none"
    /\ tx' = [tx EXCEPT ![c] = [op |-> op, view |-> run, mine |-> mine, events |-> events,
                                drop |-> IF op = "complete_purge" THEN ckpt ELSE {}]]
    /\ UNCHANGED <<run, ckpt, log, notice, lapsed, env, draining, lock, wk>>

StartBegin(c) ==
    /\ "start" \in ApiOps
    /\ Authorized /\ env.pkg
    /\ run.privacy = "active" /\ ~run.cancel
    /\ run.dispatch = "held" /\ run.status = "pending"
    /\ Begin(c, "start", [run EXCEPT !.dispatch = "queued"], <<>>)

Cancellable(row) ==
    row.dispatch \in {"held", "queued"} \/ (row.status = "waiting_human" /\ row.dispatch = "finished")

CancelBegin(c) ==
    /\ "cancel" \in ApiOps
    /\ IF Cancellable(run)
       THEN LET ended == [run EXCEPT !.cancel = TRUE, !.status = "cancelled",
                                     !.dispatch = "finished", !.sv = @ + 1]
                a == Append1(ended, <<>>, "cancelled")
            IN  Begin(c, "cancel", a.mine, a.events)
       ELSE Begin(c, "cancel", [run EXCEPT !.cancel = TRUE], <<>>)

PurgeBegin(c) ==
    /\ "purge" \in ApiOps
    /\ run.privacy = "active"
    /\ Begin(c, "purge", [run EXCEPT !.privacy = "purge_requested", !.cancel = TRUE], <<>>)

\* (mutant) retry accepts every ended run.
RetryBeginAnyOutcome(c) ==
    /\ "retry" \in ApiOps
    /\ Authorized /\ env.pkg
    /\ run.status \in Terminal
    /\ run.retries < MaxRetries
    /\ run.privacy = "active"
    /\ ckpt # {}
    /\ Begin(c, "retry", [run EXCEPT !.retries = @ + 1, !.status = "pending",
                                     !.dispatch = "queued", !.sv = @ + 1], <<>>)

RetryBegin(c) ==
    /\ "retry" \in ApiOps
    /\ Authorized /\ env.pkg
    /\ run.status \in {"failed", "partial"}
    /\ run.retries < MaxRetries
    /\ run.privacy = "active"
    /\ ckpt # {}
    /\ Begin(c, "retry", [run EXCEPT !.retries = @ + 1, !.status = "pending",
                                     !.dispatch = "queued", !.sv = @ + 1], <<>>)

\* (mutant) Only a cancelled run is purged.
CompletePurgeCancelledOnly ==
    /\ run.privacy = "purge_requested" /\ run.dispatch = "finished"
    /\ run.status = "cancelled"
    /\ Begin(Scanner, "complete_purge", [run EXCEPT !.privacy = "purged"], <<>>)

\* ReconciliationService calls complete_purge on the row its scan has loaded; the
\* DELETE removes the checkpoints that exist when it is executed.
CompletePurgeBegin ==
    /\ run.privacy = "purge_requested" /\ run.dispatch = "finished"
    /\ Begin(Scanner, "complete_purge", [run EXCEPT !.privacy = "purged"], <<>>)

TxCommit(c) ==
    /\ tx[c].op # "none"
    /\ lock = Nobody
    /\ tx' = [tx EXCEPT ![c] = IdleTx]
    /\ IF Clash(tx[c])
       THEN UNCHANGED <<run, ckpt, log, notice>>
       ELSE /\ run' = Flush(tx[c])
            /\ log' = log \o Stamp(tx[c].events, run.token)
            /\ notice' = (notice \/ tx[c].op \in {"start", "retry"})
            /\ ckpt' = ckpt \ tx[c].drop
    /\ UNCHANGED <<lapsed, env, draining, lock, wk>>

\* A single conditional UPDATE: status, dispatch_state and status_version of the
\* committed row are those the caller decided on.
Update(row, events, redispatch) ==
    /\ lock = Nobody
    /\ run' = row
    /\ log' = log \o Stamp(events, run.token)
    /\ notice' = (notice \/ redispatch)
    /\ UNCHANGED <<ckpt, lapsed, env, draining, lock, wk, tx>>

\* (mutant) The reconciler ends a run with a status of its own.
TerminatedTimedOut(status) ==
    Append1([run EXCEPT !.status = "timed_out", !.dispatch = "finished", !.sv = @ + 1,
                        !.fallback = FALSE], <<>>, status)

Terminated(status) ==
    Append1([run EXCEPT !.status = status, !.dispatch = "finished", !.sv = @ + 1,
                        !.fallback = FALSE], <<>>, status)

Terminate(status) ==
    Update(Terminated(status).mine, Terminated(status).events, FALSE)

Approve ==
    /\ "approve" \in ApiOps
    /\ run.status = "waiting_human" /\ run.dispatch = "finished" /\ env.pkg
    /\ Update([run EXCEPT !.dispatch = "queued", !.sv = @ + 1, !.fallback = FALSE], <<>>, TRUE)

Reject ==
    /\ "reject" \in ApiOps
    /\ run.status = "waiting_human" /\ run.dispatch = "finished" /\ env.pkg
    /\ IF RejectFallback
       THEN Update([run EXCEPT !.dispatch = "queued", !.sv = @ + 1, !.fallback = TRUE], <<>>, TRUE)
       ELSE LET a == Append1([run EXCEPT !.status = "failed", !.sv = @ + 1], <<>>, "failed")
            IN  Update(a.mine, a.events, FALSE)

-----------------------------------------------------------------------------
(* Workers: WorkerLoop.run_once, RunQueueService.consume, WorkflowExecutor. *)

Goto(w, pc) == wk' = [wk EXCEPT ![w].pc = pc]

\* The session ends without a commit: rollback, row lock released.
Abandon(w) ==
    /\ wk' = [wk EXCEPT ![w] = IdleWorker]
    /\ lock' = IF lock = w THEN Nobody ELSE lock
    /\ UNCHANGED <<run, ckpt, log, notice>>

\* The session commits.  An IntegrityError is not caught on any of these paths:
\* it leaves run_once and ends the process, which loses the session.
Commit(w, row, next) ==
    /\ lock \in {Nobody, w}
    /\ IF Clash(wk[w])
       THEN Abandon(w)
       ELSE /\ run' = row
            /\ log' = log \o Stamp(wk[w].events, wk[w].token)
            /\ ckpt' = ckpt \cup wk[w].save
            /\ lock' = Nobody
            /\ wk' = [wk EXCEPT ![w] = next]
            /\ UNCHANGED notice

\* dispatch_pending marks the event delivered before any run is consumed.
Poll(w) ==
    /\ wk[w].pc = "idle" /\ notice
    /\ notice' = FALSE
    /\ Goto(w, "notified")
    /\ UNCHANGED <<run, ckpt, log, lapsed, env, draining, lock, tx>>

\* consume: a draining worker refuses; the others read the status first.
Consume(w) ==
    /\ wk[w].pc = "notified"
    /\ wk' = [wk EXCEPT ![w] =
                IF w \in draining THEN IdleWorker
                ELSE [@ EXCEPT !.pc = "claiming",
                               !.resume = run.status \in {"waiting_human", "partial"}]]
    /\ UNCHANGED <<run, ckpt, log, notice, lapsed, env, draining, lock, tx>>

Claimable ==
    run.dispatch = "queued" /\ run.status \in {"pending", "waiting_human"} /\ ~run.cancel

\* (mutant) A claim takes the run over under the token it already has.
ClaimSameToken(w) ==
    /\ wk[w].pc = "claiming"
    /\ lock = Nobody
    /\ IF Claimable
       THEN /\ run' = [run EXCEPT !.dispatch = "claimed", !.owner = w,
                                  !.token = IF @ = 0 THEN 1 ELSE @, !.lease = "granted"]
            /\ wk' = [wk EXCEPT ![w].pc = "begin", ![w].token = IF run.token = 0 THEN 1 ELSE run.token]
       ELSE /\ run' = run
            /\ wk' = [wk EXCEPT ![w] = IdleWorker]
    /\ UNCHANGED <<ckpt, log, notice, lapsed, env, draining, lock, tx>>

Claim(w) ==
    /\ wk[w].pc = "claiming"
    /\ lock = Nobody
    /\ IF Claimable
       THEN /\ run.token < MaxToken
            /\ run' = [run EXCEPT !.dispatch = "claimed", !.owner = w,
                                  !.token = @ + 1, !.lease = "granted"]
            /\ wk' = [wk EXCEPT ![w].pc = "begin", ![w].token = run.token + 1]
       ELSE /\ run' = run
            /\ wk' = [wk EXCEPT ![w] = IdleWorker]
    /\ UNCHANGED <<ckpt, log, notice, lapsed, env, draining, lock, tx>>

\* The executor returned a result without touching the row any further.
Result(w, row, outcome) ==
    wk' = [wk EXCEPT ![w] = [@ EXCEPT !.pc = "settle", !.view = run, !.mine = row,
                                      !.outcome = outcome]]

\* The checks that open _execute, on the row loaded after the claim committed,
\* with those of the first node, which are the same on the same object.
Execute(w) ==
    /\ wk[w].pc = "begin"
    /\ LET fresh == [run EXCEPT !.fallback = FALSE]
           started == [fresh EXCEPT !.status = "running", !.sv = @ + 1]
       IN  IF \/ wk[w].resume /\ ~(CanWrite(w, run) /\ ckpt # {})
              \/ run.fallback /\ ~wk[w].resume
           THEN Result(w, run, "failed")
           ELSE IF ~Authorized \/ ~env.pkg
           THEN Result(w, [fresh EXCEPT !.cancel = TRUE], "cancelled")
           ELSE IF ~CanWrite(w, fresh)
           THEN Result(w, fresh, "failed")
           ELSE IF w \in draining
           THEN Result(w, fresh, "pending")
           ELSE IF run.status = "running"
           THEN wk' = [wk EXCEPT ![w] = [@ EXCEPT !.pc = "beat", !.view = run, !.mine = fresh]]
           ELSE LET a == Append1(started, <<>>, "run_started")
                IN  wk' = [wk EXCEPT ![w] = [@ EXCEPT !.pc = "beat", !.view = run,
                                                      !.mine = a.mine, !.events = a.events]]
    /\ UNCHANGED <<run, ckpt, log, notice, lapsed, env, draining, lock, tx>>

\* The checks before every later node, on the object the session still holds.
NextNode(w) ==
    /\ wk[w].pc = "node"
    /\ wk' = [wk EXCEPT ![w] =
         IF ~CanWrite(w, wk[w].mine)
         THEN [@ EXCEPT !.pc = "settle", !.outcome = "failed"]
         ELSE IF ~Authorized \/ ~env.pkg
         THEN [@ EXCEPT !.pc = "settle", !.outcome = "cancelled", !.mine.cancel = TRUE]
         ELSE IF w \in draining
         THEN [@ EXCEPT !.pc = "settle", !.outcome = "pending"]
         ELSE [@ EXCEPT !.pc = "beat"]]
    /\ UNCHANGED <<run, ckpt, log, notice, lapsed, env, draining, lock, tx>>

\* LeaseService.heartbeat, before a node and after it.  Success commits whatever
\* the session has pending; refusal leaves the session, and its view, as it was.
Heartbeat(w) ==
    /\ wk[w].pc \in {"beat", "exec"}
    /\ IF Renewable(w)
       THEN Commit(w, Flush(wk[w]),
                   [wk[w] EXCEPT !.pc = IF @ = "beat" THEN "work" ELSE "save",
                                 !.view = NewRow("held"), !.mine = NewRow("held"),
                                 !.events = <<>>, !.save = {}])
       ELSE /\ wk' = [wk EXCEPT ![w] = [@ EXCEPT !.pc = "settle", !.outcome = "failed"]]
            /\ UNCHANGED <<run, ckpt, log, notice, lock>>
    /\ UNCHANGED <<lapsed, env, draining, tx>>

\* The first read after a commit reloads the row; then the node starts.
Work(w) ==
    /\ wk[w].pc = "work"
    /\ IF CanWrite(w, run)
       THEN wk' = [wk EXCEPT ![w] = [@ EXCEPT !.pc = "exec", !.view = run, !.mine = run]]
       ELSE Result(w, run, "failed")
    /\ UNCHANGED <<run, ckpt, log, notice, lapsed, env, draining, lock, tx>>

\* The model and tool gateways commit while the node runs: the row is reloaded.
NodeCommits(w) ==
    /\ wk[w].pc = "exec"
    /\ wk' = [wk EXCEPT ![w].view = run, ![w].mine = run]
    /\ UNCHANGED <<run, ckpt, log, notice, lapsed, env, draining, lock, tx>>

\* A node raises, exhausts its retries, or its artifact cannot be written.
NodeFails(w) ==
    /\ "node" \in Faults
    /\ wk[w].pc = "exec"
    /\ wk' = [wk EXCEPT ![w] = [@ EXCEPT !.pc = "settle", !.outcome = "failed"]]
    /\ UNCHANGED <<run, ckpt, log, notice, lapsed, env, draining, lock, tx>>

\* Where the worker goes once a node is behind it.
Onward(s) ==
    IF s.node + 1 < MaxNodes
    THEN [s EXCEPT !.pc = "node", !.node = @ + 1]
    ELSE [s EXCEPT !.pc = "settle",
                   !.outcome = IF @ = "partial" THEN "partial" ELSE "succeeded"]

\* An optional node after publish_document may fail; the run ends partial.
OptionalFails(w) ==
    /\ "optional" \in Faults
    /\ wk[w].pc = "exec" /\ wk[w].node > 0
    /\ wk' = [wk EXCEPT ![w] = Onward([@ EXCEPT !.outcome = "partial"])]
    /\ UNCHANGED <<run, ckpt, log, notice, lapsed, env, draining, lock, tx>>

\* (mutant) checkpoint.save leaves the checkpoint to the next commit: no row lock.
SaveNodeNoFlush(w) ==
    /\ wk[w].pc = "save"
    /\ IF ~CanWrite(w, run)
       THEN Result(w, run, "failed")
       ELSE LET s == [wk[w] EXCEPT !.view = run, !.mine = run,
                                   !.save = {<<wk[w].token, wk[w].node + 1>>}]
                a == Append1(run, <<>>, "step_changed")
            IN  IF w \in draining
                THEN wk' = [wk EXCEPT ![w] = [s EXCEPT !.pc = "settle", !.outcome = "pending"]]
                ELSE wk' = [wk EXCEPT ![w] = Onward([s EXCEPT !.mine = a.mine, !.events = a.events])]
    /\ UNCHANGED <<run, ckpt, log, notice, lapsed, env, draining, lock, tx>>

\* Node boundary: artifact, active_elapsed_ms, checkpoint.  checkpoint.save
\* flushes, so the UPDATE of the run keeps the row locked until the next commit.
SaveNode(w) ==
    /\ wk[w].pc = "save"
    /\ IF ~CanWrite(w, run)
       THEN Result(w, run, "failed") /\ UNCHANGED lock
       ELSE /\ lock = Nobody
            /\ lock' = w
            /\ LET s == [wk[w] EXCEPT !.view = run, !.mine = run,
                                      !.save = {<<wk[w].token, wk[w].node + 1>>}]
                   a == Append1(run, <<>>, "step_changed")
               IN  IF w \in draining
                   THEN wk' = [wk EXCEPT ![w] = [s EXCEPT !.pc = "settle", !.outcome = "pending"]]
                   ELSE \/ /\ "human" \in Faults
                           /\ wk' = [wk EXCEPT ![w] = [s EXCEPT !.pc = "pause"]]
                        \/ wk' = [wk EXCEPT ![w] = Onward([s EXCEPT !.mine = a.mine,
                                                                    !.events = a.events])]
    /\ UNCHANGED <<run, ckpt, log, notice, lapsed, env, draining, tx>>

\* What a session writes when it gives the run up, whatever the new status.
Closed(row, status) ==
    [row EXCEPT !.status = status, !.dispatch = "finished", !.owner = Nobody,
                !.lease = "none", !.sv = @ + 1]

PauseForHuman(w) ==
    /\ wk[w].pc = "pause"
    /\ LET a == Append1(Closed(wk[w].mine, "waiting_human"), wk[w].events, "waiting_human")
       IN  wk' = [wk EXCEPT ![w] =
             IF CanWrite(w, wk[w].mine)
             THEN [@ EXCEPT !.pc = "commit", !.mine = a.mine, !.events = a.events]
             ELSE [@ EXCEPT !.pc = "settle", !.outcome = "failed"]]
    /\ UNCHANGED <<run, ckpt, log, notice, lapsed, env, draining, lock, tx>>

\* finish_after_invalid_boundary: the lease is still ours in the object, and the
\* object carries a cancel request or a privacy barrier.
AtInvalidBoundary(w, row) ==
    /\ row.dispatch = "claimed" /\ row.owner = w /\ row.token = wk[w].token
    /\ row.cancel \/ row.privacy # "active"

\* finish, else finish_after_invalid_boundary, else nothing; release_for_drain
\* for a result that is not terminal.  The commit is a step of its own: the
\* admission buckets are locked in between.
Settle(w) ==
    /\ wk[w].pc = "settle"
    /\ LET o == wk[w].outcome
           done == Append1([Closed(wk[w].mine, o) EXCEPT !.fallback = FALSE], wk[w].events, o)
           void == Append1(Closed(wk[w].mine, "cancelled"), wk[w].events, "cancelled")
       IN  IF o = "pending"
           THEN IF w \in draining /\ CanWrite(w, wk[w].mine)
                THEN /\ wk' = [wk EXCEPT ![w] = [@ EXCEPT !.pc = "commit", !.mine.lease = "released"]]
                     /\ UNCHANGED <<run, ckpt, log, notice, lock>>
                ELSE Abandon(w)
           ELSE IF CanWrite(w, wk[w].mine)
           THEN /\ wk' = [wk EXCEPT ![w] = [@ EXCEPT !.pc = "commit", !.mine = done.mine,
                                                     !.events = done.events]]
                /\ UNCHANGED <<run, ckpt, log, notice, lock>>
           ELSE IF AtInvalidBoundary(w, wk[w].mine)
           THEN /\ wk' = [wk EXCEPT ![w] = [@ EXCEPT !.pc = "commit", !.mine = void.mine,
                                                     !.events = void.events]]
                /\ UNCHANGED <<run, ckpt, log, notice, lock>>
           ELSE Abandon(w)
    /\ UNCHANGED <<lapsed, env, draining, tx>>

CommitResult(w) ==
    /\ wk[w].pc = "commit"
    /\ Commit(w, Flush(wk[w]), IdleWorker)
    /\ UNCHANGED <<lapsed, env, draining, tx>>

-----------------------------------------------------------------------------
(* Reaper and reconciler: conditional updates of the committed row. *)

ReapExpired ==
    /\ run.dispatch = "claimed" /\ Lapsed(run)
    /\ LET freed == [run EXCEPT !.owner = Nobody, !.lease = "none"]
           ended == Append1([freed EXCEPT !.status = "cancelled", !.dispatch = "finished",
                                          !.sv = @ + 1, !.fallback = FALSE], <<>>, "cancelled")
           queued == [freed EXCEPT !.dispatch = "queued"]
       IN  IF ~env.pkg THEN Update(ended.mine, ended.events, FALSE)
           ELSE IF run.status = "running"
           THEN Update([queued EXCEPT !.status = "pending", !.sv = @ + 1], <<>>, TRUE)
           ELSE Update(queued, <<>>, TRUE)

\* (mutant) The deadline only stops runs that a worker holds.
RepairTimeoutClaimedOnly ==
    /\ env.due \/ ("active_ttl" \in Faults /\ run.token > 0)
    /\ run.status \notin Terminal
    /\ run.dispatch = "claimed" /\ ~run.cancel
    /\ Update([run EXCEPT !.cancel = TRUE, !.fallback = FALSE], <<>>, FALSE)

\* run_deadline_at or max_run_seconds exceeded, by the scan's clock.
RepairTimeout ==
    /\ env.due \/ ("active_ttl" \in Faults /\ run.token > 0)
    /\ run.status \notin Terminal
    /\ \/ /\ run.dispatch = "claimed" /\ ~run.cancel
          /\ Update([run EXCEPT !.cancel = TRUE, !.fallback = FALSE], <<>>, FALSE)
       \/ Cancellable(run) /\ Terminate("failed")

\* (mutant) Every run that no worker holds is cancelled with its package.
RepairWithdrawnAnyStatus ==
    /\ ~env.pkg \/ env.auth = "changed"
    /\ run.dispatch # "claimed" /\ run.status # "cancelled"
    /\ Terminate("cancelled")

RepairWithdrawn ==
    /\ ~env.pkg \/ env.auth = "changed"
    /\ \/ Cancellable(run) /\ Terminate("cancelled")
       \/ /\ run.dispatch = "claimed" /\ ~run.cancel
          /\ Update([run EXCEPT !.cancel = TRUE], <<>>, FALSE)

RepairHeldTimeout ==
    /\ "held_ttl" \in Faults
    /\ run.status = "pending" /\ run.dispatch = "held"
    /\ Terminate("cancelled")

RepairQueuedTimeout ==
    /\ "queue_ttl" \in Faults
    /\ run.status = "pending" /\ run.dispatch = "queued"
    /\ Terminate("failed")

\* Nothing pending for a queued run: the delivered event goes back to pending.
RepairMissingDispatch ==
    /\ run.status = "pending" /\ run.dispatch = "queued" /\ ~notice
    /\ notice' = TRUE
    /\ UNCHANGED <<run, ckpt, log, lapsed, env, draining, lock, wk, tx>>

RepairWaitingTimeout ==
    /\ "human_ttl" \in Faults
    /\ run.status = "waiting_human" /\ run.dispatch = "finished"
    /\ IF TimeoutAction = "fallback"
       THEN Update([run EXCEPT !.dispatch = "queued", !.sv = @ + 1, !.fallback = TRUE], <<>>, TRUE)
       ELSE Terminate(TimeoutAction)

-----------------------------------------------------------------------------
(* Environment: clocks, configuration and processes. *)

LeaseLapses(t) ==
    /\ "lapse" \in Faults
    /\ t \notin lapsed
    /\ t > 0 /\ (run.token = t \/ \E w \in Workers : wk[w].token = t)
    /\ lapsed' = lapsed \cup {t}
    /\ UNCHANGED <<run, ckpt, log, notice, env, draining, lock, wk, tx>>

DeadlinePasses ==
    /\ "deadline" \in Faults /\ ~env.due
    /\ env' = [env EXCEPT !.due = TRUE]
    /\ UNCHANGED <<run, ckpt, log, notice, lapsed, draining, lock, wk, tx>>

PackageRevoked ==
    /\ "revoke" \in Faults /\ env.pkg
    /\ env' = [env EXCEPT !.pkg = FALSE]
    /\ UNCHANGED <<run, ckpt, log, notice, lapsed, draining, lock, wk, tx>>

\* A new version of the caller's authorization, or the caller removed.
AuthorizationChanges ==
    /\ "auth" \in Faults /\ Authorized
    /\ \E a \in {"changed", "removed"} : env' = [env EXCEPT !.auth = a]
    /\ UNCHANGED <<run, ckpt, log, notice, lapsed, draining, lock, wk, tx>>

\* SIGTERM to a worker; the supervisor starts it again once it has returned.
Drain(w) ==
    /\ "drain" \in Faults /\ w \notin draining
    /\ draining' = draining \cup {w}
    /\ UNCHANGED <<run, ckpt, log, notice, lapsed, env, lock, wk, tx>>

Restart(w) ==
    /\ w \in draining /\ wk[w].pc = "idle"
    /\ draining' = draining \ {w}
    /\ UNCHANGED <<run, ckpt, log, notice, lapsed, env, lock, wk, tx>>

Crash(w) ==
    /\ "crash" \in Faults
    /\ wk[w].pc # "idle"
    /\ Abandon(w)
    /\ UNCHANGED <<lapsed, env, draining, tx>>

-----------------------------------------------------------------------------
Api(c) ==
    StartBegin(c) \/ CancelBegin(c) \/ PurgeBegin(c) \/ RetryBegin(c)

Worker(w) ==
    \/ Poll(w) \/ Consume(w) \/ Claim(w) \/ Execute(w) \/ NextNode(w) \/ Heartbeat(w)
    \/ Work(w) \/ NodeCommits(w) \/ NodeFails(w) \/ OptionalFails(w) \/ SaveNode(w)
    \/ PauseForHuman(w) \/ Settle(w) \/ CommitResult(w)

Reconcile ==
    \/ ReapExpired \/ RepairTimeout \/ RepairWithdrawn \/ RepairHeldTimeout
    \/ RepairQueuedTimeout \/ RepairMissingDispatch \/ RepairWaitingTimeout

Environment ==
    \/ \E t \in 1..MaxToken : LeaseLapses(t)
    \/ DeadlinePasses \/ PackageRevoked \/ AuthorizationChanges
    \/ \E w \in Workers : Drain(w) \/ Restart(w) \/ Crash(w)

Next ==
    \/ \E c \in Clients : Api(c)
    \/ \E c \in Sessions : TxCommit(c)
    \/ CompletePurgeBegin \/ Approve \/ Reject
    \/ \E w \in Workers : Worker(w)
    \/ Reconcile
    \/ Environment

Spec == Init /\ [][Next]_vars

\* Requests and worker steps end, the reconciler scans every interval, and time
\* passes: a deadline arrives and a lease that is not renewed runs out.  Nothing
\* is assumed of the callers, of crashes, or of the order of these steps.
Fairness ==
    /\ \A c \in Sessions : WF_vars(TxCommit(c))
    /\ \A w \in Workers : WF_vars(Worker(w))
    /\ WF_vars(CompletePurgeBegin)
    /\ WF_vars(ReapExpired) /\ WF_vars(RepairTimeout)
    /\ WF_vars(DeadlinePasses)
    /\ \A t \in 1..MaxToken : WF_vars(LeaseLapses(t))

FairSpec == Spec /\ Fairness

-----------------------------------------------------------------------------
(* Types *)

WorkerState ==
    [pc : {"idle", "notified", "claiming", "begin", "beat", "work", "exec", "node",
           "save", "pause", "settle", "commit"},
     token : Nat, view : Row, mine : Row, events : Seq(Event), save : SUBSET (Nat \X Nat),
     outcome : {"none", "pending"} \cup Terminal, node : Nat, resume : BOOLEAN]

TxState ==
    [op : {"none", "start", "cancel", "purge", "retry", "complete_purge"},
     view : Row, mine : Row, events : Seq(Event), drop : SUBSET (Nat \X Nat)]

\* The type of every variable of the run's ledger: AgentRun's columns keep to the
\* value sets of the model class, sessions hold well-formed rows.
TypeOK ==
    /\ run \in Row
    /\ ckpt \in SUBSET (Nat \X Nat)
    /\ log \in Seq(LogEvent)
    /\ notice \in BOOLEAN
    /\ lapsed \in SUBSET Nat
    /\ env \in [due : BOOLEAN, pkg : BOOLEAN, auth : {"current", "changed", "removed"}]
    /\ draining \in SUBSET Workers
    /\ lock \in Workers \cup {Nobody}
    /\ wk \in [Workers -> WorkerState]
    /\ tx \in [Sessions -> TxState]

-----------------------------------------------------------------------------
(* Safety *)

\* last_event_seq counts the committed callbacks: no number is used twice and
\* none is skipped, although every session numbers its events from the row it
\* loaded (append_callback_event) and other sessions commit in between.
EventSeqIsGapless == run.seq = Len(log)

\* The callbacks of two execution attempts do not interleave: once an event of a
\* later attempt is committed, no event of an earlier one can be.  A worker that
\* lost its lease may come back at any time; only the unique event_seq stops it.
AttemptsDoNotInterleave ==
    \A i, j \in 1..Len(log) : i < j => log[i].token <= log[j].token

\* After the callback that ends an attempt, no progress callback of that attempt
\* follows: a receiver never sees step_changed after run_cancelled.
NothingAfterTheEnd ==
    \A i, j \in 1..Len(log) :
        i < j /\ log[i].type \in Terminal /\ log[j].type \notin Terminal
            => log[j].token > log[i].token

\* Together: a receiver that follows the numbers sees the attempts one after the other,
\* each without a callback behind its end.
CallbacksInOrder == AttemptsDoNotInterleave /\ NothingAfterTheEnd

\* Two workers that believe they hold the run have different fencing tokens, and
\* none holds a token the row has not issued.
TokensAreUnique ==
    \A v, w \in Workers :
        /\ wk[w].token <= run.token
        /\ v # w /\ wk[v].token > 0 => wk[v].token # wk[w].token

\* complete_purge leaves nothing behind: no checkpoint outlives the purge, also
\* when a worker that had the run was late (LeaseService.can_write).
PurgedHasNoCheckpoint == run.privacy = "purged" => ckpt = {}

\* The outcome of a finished run is never replaced by another outcome, whoever raced
\* for the row: succeeded or cancelled can only be reopened, by a start or a retry that
\* loaded an earlier state (finish, cancel, _terminate).
OutcomeIsNotReplaced ==
    [][run.status \in {"succeeded", "cancelled"} /\ run.dispatch = "finished" =>
            run'.status \in {run.status, "pending"}]_run

\* Only the worker whose token is the row's writes a result.
LateResultIsFenced ==
    [][\A w \in Workers :
        wk[w].pc = "commit" /\ run' # run /\ wk'[w] # wk[w]
            => run.token = wk[w].token /\ run.dispatch = "claimed"]_<<run, wk>>

-----------------------------------------------------------------------------
(* What the ledger promises to its observers *)

\* The summary of get(): status, status_version, last_event_seq, privacy_state.
Summary ==
    [status |-> run.status, sv |-> run.sv, seq |-> run.seq, privacy |-> run.privacy]

Announced == [i \in 1..Len(log) |-> [type |-> log[i].type, sv |-> log[i].sv]]

Feed == INSTANCE RunFeed WITH row <- Summary, feed <- Announced

\* Seen from outside, the ledger behaves like a RunFeed: every commit of any
\* actor, stale sessions included, adds numbered callbacks that end with the
\* status the row has, and an outcome stands until a retry.
ImplementsFeed == Feed!Spec

-----------------------------------------------------------------------------
(* Liveness *)

\* Every run comes to rest in an outcome with its dispatch finished, whatever is
\* cancelled, purged, retried, lost or crashed on the way.
EveryRunEnds == <>[](run.status \in Terminal /\ run.dispatch = "finished")

\* A purge that was requested is carried out: the run is driven to finished and
\* the scan then deletes its private data.
PurgeCompletes == (run.privacy = "purge_requested") ~> (run.privacy = "purged")

=============================================================================
