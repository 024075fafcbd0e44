---------------------------- MODULE ModelGateway ----------------------------
(***************************************************************************)
(* The model calls of one run: the usage ledger in the database, the       *)
(* permits, rate windows and circuit breakers in Redis, and the provider,  *)
(* seen from the successive attempts of the run.                           *)
(*                                                                         *)
(* An attempt is one claim of the run by one worker.  Attempts overlap: a  *)
(* worker whose lease was reaped keeps running until it notices.  All the  *)
(* database work of a call up to mark_started is committed in between, so  *)
(* that other sessions see it; what the settlement writes stays in the     *)
(* worker's transaction (pend) until the next commit.                      *)
(***************************************************************************)
EXTENDS Naturals, FiniteSets

CONSTANTS
    Attempts,       \* the attempts of the run
    First,          \* the attempt that holds the lease at the start
    Routes,         \* the deployed model routes
    Primary,        \* the route the node is mapped to
    FallbackOf,     \* [Routes -> Routes \cup {NoRoute}]: fallback_route_id
    QuotaOf,        \* [Routes -> keys]: rate_limit_key, which routes may share
    Allowed,        \* the routes the run's snapshot allows
    MaxCalls,       \* the frozen policy's max_model_calls
    Concurrency,    \* max_concurrency of a rate limit key
    Rpm,            \* calls of a rate limit key in a minute (rpm and tpm limit)
    Threshold,      \* circuit_failure_threshold
    NoRoute,
    Faults          \* what the environment may do; see the actions

ASSUME ConstantsAssumption ==
    /\ First \in Attempts /\ Primary \in Routes /\ NoRoute \notin Routes
    /\ Allowed \subseteq Routes
    /\ FallbackOf \in [Routes -> Routes \cup {NoRoute}]
    /\ \A r \in Routes : FallbackOf[r] # r
    /\ MaxCalls \in Nat
    /\ Concurrency \in Nat \ {0} /\ Rpm \in Nat \ {0} /\ Threshold \in Nat \ {0}

Ids == 1 .. MaxCalls        \* the rows a run can have at one time

VARIABLES
    holder,     \* the attempt whose lease the run row carries
    open,       \* no cancellation, revocation or privacy change was committed
    late,       \* request_deadline_at has passed
    usage,      \* committed agent_model_usage rows, [Ids -> Row]
    redis,      \* the state the permit script works on
    att,        \* what each attempt is doing
    sent,       \* calls that reached the provider (history)
    aged        \* permits acquired more than a minute ago (clock)

vars == <<holder, open, late, usage, redis, att, sent, aged>>

Verdicts == {"succeeded", "rate_limited", "outcome_unknown", "aborted"}
InFlight == {"running", "started"}
Row == [status : {"absent", "reserved"} \cup InFlight \cup Verdicts,
        route : Routes \cup {NoRoute}]
Absent == [status |-> "absent", route |-> NoRoute]

Redis == [permit : [Ids -> {"none", "acquired", "started", "settled", "expired"}],
          active : SUBSET Ids, lapsed : SUBSET Ids, counted : SUBSET Ids,
          blocked : SUBSET {QuotaOf[r] : r \in Routes},
          failures : [Routes -> 0 .. Threshold], tripped : SUBSET Routes]

Stages == {"waiting", "idle", "route", "permit", "check", "begun", "send",
           "flight", "settle", "limited", "dead"}
Attempt == [stage : Stages, call : Ids \cup {0}, route : Routes, waited : BOOLEAN,
            tried : SUBSET Routes,
            pend : {"none", "running"} \cup Verdicts,
            out : {"none", "refused", "discarded"} \cup Verdicts]
Fresh == [stage |-> "idle", call |-> 0, route |-> Primary, waited |-> FALSE,
          tried |-> {}, pend |-> "none", out |-> "none"]

(* The type of every variable. *)
TypeOK ==
    /\ holder \in Attempts /\ open \in BOOLEAN /\ late \in BOOLEAN
    /\ usage \in [Ids -> Row] /\ redis \in Redis
    /\ att \in [Attempts -> Attempt]
    /\ sent \subseteq Ids /\ aged \subseteq Ids
    /\ redis.lapsed \subseteq redis.active
    /\ \A r \in Routes : redis.failures[r] = Threshold => r \in redis.tripped

-----------------------------------------------------------------------------
(* The permit script.  One evaluation is atomic in Redis. *)

KeyOf(n) == QuotaOf[usage[n].route]
OfKey(S, k) == {n \in S : usage[n].route # NoRoute /\ KeyOf(n) = k}

\* (mutant) a permit that was started gives its place in the minute back
ReapKeepsNothing(s, k) ==
    LET gone == OfKey(s.lapsed, k)
    IN  [s EXCEPT !.active = @ \ gone, !.lapsed = @ \ gone, !.counted = @ \ gone,
                  !.permit = [n \in Ids |-> IF n \in gone THEN "expired" ELSE @[n]]]

\* reap_expired_permits: an unsent permit gives its place back, a started one
\* may have been sent and stays counted.
Reap(s, k) ==
    LET gone == OfKey(s.lapsed, k)
    IN  [s EXCEPT !.active = @ \ gone, !.lapsed = @ \ gone,
                  !.counted = @ \ {n \in gone : s.permit[n] = "acquired"},
                  !.permit = [n \in Ids |-> IF n \in gone THEN "expired" ELSE @[n]]]

\* acquire looks at the circuit and the cool-down before it reaps.
Halted(s, r) == r \in s.tripped \/ QuotaOf[r] \in s.blocked
Seen(s, r) == IF Halted(s, r) THEN s ELSE Reap(s, QuotaOf[r])

Grantable(s, r) ==
    /\ ~Halted(s, r)
    /\ Cardinality(OfKey(s.active, QuotaOf[r])) < Concurrency
    /\ Cardinality(OfKey(s.counted, QuotaOf[r])) < Rpm

Granted(s, n) == [s EXCEPT !.permit[n] = "acquired", !.active = @ \cup {n},
                           !.counted = @ \cup {n}]

\* settle: the place in the minute stays, the concurrency slot is released.
Settled(s, n, cooldown) ==
    LET k == KeyOf(n)
        t == Reap(s, k)
    IN  IF t.permit[n] = "settled" THEN t
        ELSE [t EXCEPT !.permit[n] = "settled", !.active = @ \ {n}, !.lapsed = @ \ {n},
                       !.blocked = IF cooldown THEN @ \cup {k} ELSE @]

\* circuit_failure and circuit_success
Failed(s, r) ==
    LET count == IF s.failures[r] < Threshold THEN s.failures[r] + 1 ELSE Threshold
    IN  [s EXCEPT !.failures[r] = count,
                  !.tripped = IF count >= Threshold THEN @ \cup {r} ELSE @]
Recovered(s, r) == [s EXCEPT !.failures[r] = 0, !.tripped = @ \ {r}]

-----------------------------------------------------------------------------
(* The authority of an attempt and the budget of the run. *)

Authority(a) == holder = a /\ open          \* context_is_authoritative, can_write
CanSend(a) == Authority(a) /\ ~late         \* _can_send with the guard in favour

Open(n) == usage[n].status # "absent"

\* _evaluate_budget counts every row of the run, aborted ones too.
Spent == Cardinality({n \in Ids : Open(n)})

\* Every commit of the session takes the pending settlement with it.
Committed(a) ==
    IF att[a].pend = "none" THEN usage
    ELSE [usage EXCEPT ![att[a].call].status = att[a].pend]

Go(a, stage) == att' = [att EXCEPT ![a].stage = stage]
\* The call returns; the row of its settlement, if any, is still pending.
Return(a, out, pend) ==
    att' = [att EXCEPT ![a] = [Fresh EXCEPT !.out = out, !.pend = pend,
                                            !.call = IF pend = "none" THEN 0 ELSE att[a].call]]
Abort(a) == att' = [att EXCEPT ![a].stage = "settle", ![a].out = "aborted"]
RedisFails == "redis" \in Faults

-----------------------------------------------------------------------------
(* One call of the gateway, step by step. *)

\* The runner asks for a model answer; the previous settlement may be pending.
Begin(a) ==
    /\ att[a].stage = "idle"
    /\ att' = [att EXCEPT ![a].stage = "route", ![a].route = Primary, ![a].out = "none",
                          ![a].tried = {Primary}, ![a].waited = FALSE]
    /\ UNCHANGED <<holder, open, late, usage, redis, sent, aged>>

\* _call_route up to policy.reserve: route governance, deadline, circuit, then
\* the reservation, committed under a conditional update of the run row.
Reserve(a) ==
    /\ att[a].stage = "route"
    /\ att[a].route \in Allowed /\ CanSend(a)
    /\ att[a].route \notin redis.tripped
    /\ Spent < MaxCalls
    /\ \E n \in Ids :
        /\ ~Open(n) /\ \A m \in Ids : ~Open(m) => n <= m
        /\ usage' = [Committed(a) EXCEPT ![n] =
               [status |-> "reserved", route |-> att[a].route]]
        /\ att' = [att EXCEPT ![a].stage = "permit", ![a].call = n, ![a].pend = "none"]
    /\ UNCHANGED <<holder, open, late, redis, sent, aged>>

\* A refusal has no effect of its own.  When the conditional update misses,
\* the session is rolled back, and a pending settlement with it.
Refuse(a) ==
    /\ att[a].stage = "route"
    /\ \/ att[a].route \notin Allowed \/ ~CanSend(a) \/ RedisFails \/ "drain" \in Faults
       \/ att[a].route \in redis.tripped \/ Spent >= MaxCalls
    /\ \E pend \in {att[a].pend} \cup (IF Authority(a) THEN {} ELSE {"none"}) :
        Return(a, "refused", pend)
    /\ UNCHANGED <<holder, open, late, usage, redis, sent, aged>>

\* traffic.acquire and activate_reservation; without a permit the reservation
\* is deleted and the deletion committed.
Acquire(a) ==
    LET n == att[a].call
        s == Seen(redis, att[a].route)
    IN  /\ att[a].stage = "permit"
        /\ \/ /\ Grantable(s, att[a].route)
              /\ redis' = Granted(s, n)
              /\ att' = [att EXCEPT ![a].stage = "check", ![a].pend = "running"]
              /\ UNCHANGED usage
           \/ /\ \/ ~Grantable(s, att[a].route) /\ redis' = s
                 \/ RedisFails /\ redis' = redis
              /\ usage' = [usage EXCEPT ![n] = Absent]
              /\ Return(a, "refused", "none")
        /\ UNCHANGED <<holder, open, late, sent, aged>>

Starts(state) == state = "acquired"

\* The authority is read back, then the permit is marked started.
Start(a) ==
    LET n == att[a].call
        s == Reap(redis, KeyOf(n))
    IN  /\ att[a].stage = "check"
        /\ \/ /\ CanSend(a) /\ Starts(s.permit[n])
              /\ redis' = [s EXCEPT !.permit[n] = "started"]
              /\ Go(a, "begun")
           \/ /\ CanSend(a) /\ ~Starts(s.permit[n])
              /\ redis' = s /\ Abort(a)
           \/ /\ ~CanSend(a) \/ RedisFails \/ "drain" \in Faults
              /\ redis' = redis /\ Abort(a)
        /\ UNCHANGED <<holder, open, late, usage, sent, aged>>

\* (mutant) the started row is flushed and not committed
RecordFlushed(a) ==
    /\ att[a].stage = "begun"
    /\ Go(a, "send")
    /\ UNCHANGED <<holder, open, late, usage, redis, sent, aged>>

\* usage.mark_started commits before the provider is called.
Record(a) ==
    /\ att[a].stage = "begun"
    /\ usage' = [usage EXCEPT ![att[a].call].status = "started"]
    /\ att' = [att EXCEPT ![a].stage = "send", ![a].pend = "none"]
    /\ UNCHANGED <<holder, open, late, redis, sent, aged>>

Send(a) ==
    /\ att[a].stage = "send"
    /\ \/ CanSend(a) /\ sent' = sent \cup {att[a].call} /\ Go(a, "flight")
       \/ ~CanSend(a) /\ Abort(a) /\ UNCHANGED sent
    /\ UNCHANGED <<holder, open, late, usage, redis, aged>>

\* The recheck of an answer reads the database in the transaction that was
\* opened before the call: a cancellation since then is seen or not, depending
\* on the isolation level.  The clocks of deadline and lease are always seen.
Receivable(a) == CanSend(a) \/ ("snapshot" \in Faults /\ holder = a /\ ~late)

\* The provider answers, refuses, fails or times out.
Answer(a) ==
    /\ att[a].stage = "flight"
    /\ \E out \in {"succeeded", "discarded", "rate_limited", "outcome_unknown"} :
        /\ out = "succeeded" => Receivable(a)
        /\ out = "discarded" => ~CanSend(a)
        /\ att' = [att EXCEPT ![a].stage = "settle", ![a].out = out]
        /\ \/ redis' = redis
           \/ out = "outcome_unknown" /\ redis' = Failed(redis, att[a].route)
    /\ UNCHANGED <<holder, open, late, usage, sent, aged>>

\* The row as the settlement's conditional update finds it.
RowNow(a) == IF att[a].pend = "none" THEN usage[att[a].call].status ELSE att[a].pend
VerdictOf(out) == IF out = "discarded" THEN "outcome_unknown" ELSE out

\* (mutant) the settlement does not look at the row's status
UsageSettledAlways(a) == {[pend |-> VerdictOf(att[a].out), sure |-> TRUE]}

\* usage.settle: what the row becomes in this transaction and whether the
\* settlement is confirmed.  A success that finds the row closed as unknown has
\* no provider request id to match, unless it reads an old snapshot.
UsageSettled(a) ==
    IF RowNow(a) \in InFlight
    THEN {[pend |-> VerdictOf(att[a].out), sure |-> TRUE]}
    ELSE IF att[a].out # "succeeded" THEN {[pend |-> att[a].pend, sure |-> TRUE]}
    ELSE {[pend |-> att[a].pend, sure |-> FALSE]} \cup
         (IF "snapshot" \in Faults THEN {[pend |-> "succeeded", sure |-> TRUE]} ELSE {})

\* What the caller is told: an unconfirmed success is an unknown outcome.
Delivered(a, sure) ==
    IF att[a].out = "succeeded" /\ ~sure THEN "outcome_unknown" ELSE att[a].out

\* _settle_activated_attempt: both ledgers are settled, each on its own; then
\* a confirmed success resets the circuit.
Settle(a) ==
    LET n == att[a].call
        r == att[a].route
    IN  /\ att[a].stage = "settle"
        /\ \E u \in UsageSettled(a) \cup
                    (IF "usage" \in Faults THEN {[pend |-> att[a].pend, sure |-> FALSE]} ELSE {}),
              down \in {FALSE} \cup {RedisFails}, cooldown \in BOOLEAN :
            LET sure == u.sure /\ ~down
                s == IF down THEN redis ELSE Settled(redis, n, cooldown)
            IN  /\ cooldown => att[a].out = "rate_limited"
                /\ redis' = IF att[a].out = "succeeded" /\ sure THEN Recovered(s, r) ELSE s
                /\ IF att[a].out = "rate_limited"
                   THEN att' = [att EXCEPT ![a].stage = "limited", ![a].pend = u.pend]
                   ELSE Return(a, Delivered(a, sure), u.pend)
        /\ UNCHANGED <<holder, open, late, usage, sent, aged>>

CanFallBack(a) ==
    FallbackOf[att[a].route] \in Allowed \ att[a].tried

\* call, after a 429: sleep once for the shared cool-down if it fits the
\* window, else the route's fallback if it is allowed and new, else return.
Wait(a) ==
    /\ att[a].stage = "limited" /\ ~att[a].waited /\ ~late
    /\ att' = [att EXCEPT ![a].stage = "route", ![a].waited = TRUE]
    /\ \E b \in {redis.blocked, redis.blocked \ {QuotaOf[att[a].route]}} :
        redis' = [redis EXCEPT !.blocked = b]
    /\ UNCHANGED <<holder, open, late, usage, sent, aged>>

Fallback(a) ==
    /\ att[a].stage = "limited" /\ CanFallBack(a)
    /\ att' = [att EXCEPT ![a].stage = "route", ![a].waited = FALSE,
                          ![a].route = FallbackOf[att[a].route],
                          ![a].tried = @ \cup {FallbackOf[att[a].route]}]
    /\ UNCHANGED <<holder, open, late, usage, redis, sent, aged>>

GiveUp(a) ==
    /\ att[a].stage = "limited" /\ ~CanFallBack(a)
    /\ Return(a, "rate_limited", att[a].pend)
    /\ UNCHANGED <<holder, open, late, usage, redis, sent, aged>>

\* The executor's next boundary: a heartbeat commits, a lost lease rolls back.
Boundary(a) ==
    /\ att[a].stage = "idle" /\ (att[a].pend # "none" \/ att[a].out # "none")
    /\ usage' = IF Authority(a) THEN Committed(a) ELSE usage
    /\ att' = [att EXCEPT ![a] = Fresh]
    /\ UNCHANGED <<holder, open, late, redis, sent, aged>>

-----------------------------------------------------------------------------
(* Everything else that moves. *)

Expirable(n) == usage[n].status \in InFlight

\* mark_expired_running_unknown; a row with an uncommitted update is locked.
Reconcile(n) ==
    /\ late /\ Expirable(n)
    /\ \A a \in Attempts : ~(att[a].call = n /\ att[a].pend # "none")
    /\ usage' = [usage EXCEPT ![n].status = "outcome_unknown"]
    /\ UNCHANGED <<holder, open, late, redis, att, sent, aged>>

\* The process dies; its transaction is rolled back, its permit stays.
Crash(a) ==
    /\ "crash" \in Faults /\ att[a].stage \notin {"waiting", "dead"}
    /\ att' = [att EXCEPT ![a] = [Fresh EXCEPT !.stage = "dead"]]
    /\ UNCHANGED <<holder, open, late, usage, redis, sent, aged>>

\* The lease of the holder runs out and another worker claims the run.
Takeover(a) ==
    /\ att[a].stage = "waiting" /\ open /\ ~late
    /\ holder' = a
    /\ Go(a, "idle")
    /\ UNCHANGED <<open, late, usage, redis, sent, aged>>

Cancel ==
    /\ "cancel" \in Faults /\ open /\ open' = FALSE
    /\ UNCHANGED <<holder, late, usage, redis, att, sent, aged>>

DeadlinePasses ==
    /\ ~late /\ late' = TRUE
    /\ UNCHANGED <<holder, open, usage, redis, att, sent, aged>>

\* The TTL of a permit covers the timeout of its HTTP call; "slow" is a call
\* that outlives it.
PermitLapses(n) ==
    /\ n \in redis.active \ redis.lapsed
    /\ \/ "slow" \in Faults
       \/ \A a \in Attempts : att[a].call = n => att[a].stage \notin {"begun", "send", "flight"}
    /\ redis' = [redis EXCEPT !.lapsed = @ \cup {n}]
    /\ UNCHANGED <<holder, open, late, usage, att, sent, aged>>

MinutePasses(n) ==
    /\ "minute" \in Faults /\ n \notin aged /\ redis.permit[n] # "none"
    /\ aged' = aged \cup {n}
    /\ redis' = [redis EXCEPT !.counted = @ \ {n}]
    /\ UNCHANGED <<holder, open, late, usage, att, sent>>

CooldownEnds(r) ==
    /\ QuotaOf[r] \in redis.blocked
    /\ redis' = [redis EXCEPT !.blocked = @ \ {QuotaOf[r]}]
    /\ UNCHANGED <<holder, open, late, usage, att, sent, aged>>

CircuitCools(r) ==
    /\ redis.failures[r] > 0
    /\ redis' = Recovered(redis, r)
    /\ UNCHANGED <<holder, open, late, usage, att, sent, aged>>

-----------------------------------------------------------------------------
Init ==
    /\ holder = First /\ open = TRUE /\ late = FALSE
    /\ usage = [n \in Ids |-> Absent]
    /\ redis = [permit |-> [n \in Ids |-> "none"], active |-> {}, lapsed |-> {},
                counted |-> {}, blocked |-> {}, failures |-> [r \in Routes |-> 0],
                tripped |-> {}]
    /\ att = [a \in Attempts |-> IF a = First THEN Fresh ELSE [Fresh EXCEPT !.stage = "waiting"]]
    /\ sent = {} /\ aged = {}

Step(a) ==
    \/ Reserve(a) \/ Refuse(a) \/ Acquire(a) \/ Start(a) \/ Record(a) \/ Send(a)
    \/ Answer(a) \/ Settle(a) \/ Wait(a) \/ Fallback(a) \/ GiveUp(a) \/ Boundary(a)

Next ==
    \/ \E a \in Attempts : Begin(a) \/ Step(a) \/ Crash(a) \/ Takeover(a)
    \/ Cancel \/ DeadlinePasses
    \/ \E n \in Ids : Reconcile(n) \/ PermitLapses(n) \/ MinutePasses(n)
    \/ \E r \in Routes : CooldownEnds(r) \/ CircuitCools(r)

Spec == Init /\ [][Next]_vars

-----------------------------------------------------------------------------
(* Properties. *)

(* A call that reached the provider is on record as started or beyond, in    *)
(* rows other sessions can see, whatever crashes or rolls back afterwards;   *)
(* in particular it is never written off as "aborted before send", which is  *)
(* free of charge, and its row is never deleted.                             *)
SentIsOnRecord ==
    \A n \in sent : usage[n].status \in {"started"} \cup (Verdicts \ {"aborted"})

(* The HTTP calls open on a rate limit key never exceed its concurrency,     *)
(* even when permits lapse, are settled late or belong to a dead worker.     *)
InFlightBounded ==
    \A r \in Routes :
        Cardinality({a \in Attempts : /\ att[a].stage = "flight"
                                      /\ QuotaOf[att[a].route] = QuotaOf[r]}) <= Concurrency

(* Among the permits of the last minute, no more were sent than the limit    *)
(* of the rate limit key: the place of a sent call is never given away.      *)
SendsAreMetered ==
    \A r \in Routes : Cardinality(OfKey(sent \ aged, QuotaOf[r])) <= Rpm

(* Together: the limits of a rate limit key hold.                            *)
WithinLimits == InFlightBounded /\ SendsAreMetered

(* The runner is given a provider's answer only when the usage row says      *)
(* succeeded in the transaction that will carry the runner's result, and     *)
(* the permit is no longer held.                                             *)
DeliveredIsRecorded ==
    \A a \in Attempts :
        att[a].stage = "idle" /\ att[a].out = "succeeded" =>
            /\ att[a].pend = "succeeded"
            /\ att[a].call \notin redis.active

(* Together, with the types: the usage ledger tells what was sent and what   *)
(* was handed on.                                                            *)
RecordIsSound == TypeOK /\ SentIsOnRecord /\ DeliveredIsRecorded

(* A verdict on record is not rewritten, by whichever of the worker, a late  *)
(* worker or the reconciler comes second; only an unknown outcome may still  *)
(* be found to be a success.                                                 *)
VerdictIsFinal ==
    [][\A n \in Ids :
        usage[n].status \in Verdicts =>
            \/ usage'[n] = usage[n]
            \/ usage[n].status = "outcome_unknown" /\ usage'[n].status = "succeeded"]_vars

=============================================================================
