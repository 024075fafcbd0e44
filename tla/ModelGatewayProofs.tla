------------------------- MODULE ModelGatewayProofs -------------------------
(***************************************************************************)
(* Theorems about ModelGateway, for every set of attempts and routes,      *)
(* every fallback chain and sharing of rate limit keys, every limit and    *)
(* every choice of faults.                                                 *)
(*                                                                         *)
(* The argument: a usage row belongs to one attempt at a time, which keeps *)
(* it until its settlement is committed or rolled back (RowsAreOwned).  So *)
(* the status of the row follows from where its attempt is (StageFits),    *)
(* and a settlement that waits for a commit meets a row that nobody else   *)
(* has judged meanwhile (PendingIsNew).  The Redis side is a ledger of its *)
(* own, whose sets never exceed the limits (RowFits, KeysAreLimited).      *)
(***************************************************************************)
EXTENDS ModelGateway, TLAPS, FiniteSetTheorems

-----------------------------------------------------------------------------
(* The inductive invariant. *)

\* The stages of a call that has a row.
InCall == {"permit", "check", "begun", "send", "flight", "settle"}

\* The stages between the started permit and the answer.
Sending == {"begun", "send", "flight"}

\* An attempt that works on a row, or has written one, has it.
HasRow(a) ==
    /\ att[a].call # 0 => Open(att[a].call)
    /\ att[a].stage \in InCall \/ att[a].pend # "none" => att[a].call # 0
    /\ att[a].stage \in InCall => usage[att[a].call].route = att[a].route

\* The row is reserved for others and running in the attempt's own transaction.
Activated(a) == att[a].pend = "running" /\ usage[att[a].call].status = "reserved"

\* The row was committed as started; the reconciler may have closed it since.
Begun(a) == att[a].pend = "none" /\ usage[att[a].call].status \in {"started", "outcome_unknown"}

\* Where an attempt is tells what its row, its transaction and its permit are.
StageFits(a) ==
    /\ att[a].stage \in {"waiting", "dead"} =>
         att[a].call = 0 /\ att[a].pend = "none" /\ att[a].out = "none"
    /\ att[a].stage = "permit" =>
         /\ att[a].pend = "none" /\ usage[att[a].call].status = "reserved"
         /\ redis.permit[att[a].call] = "none"
    /\ att[a].stage \in {"check", "begun"} => Activated(a) /\ redis.permit[att[a].call] # "none"
    /\ att[a].stage \in {"send", "flight"} => Begun(a)
    /\ att[a].stage \in {"permit", "check", "begun", "send"} => att[a].call \notin sent
    /\ att[a].stage = "settle" =>
         /\ att[a].out \in Verdicts \cup {"discarded"}
         /\ Begun(a) \/ (Activated(a) /\ att[a].out = "aborted")
         /\ att[a].out = "aborted" => att[a].call \notin sent
         /\ redis.permit[att[a].call] # "none"
    /\ att[a].stage \in Sending =>
         /\ redis.permit[att[a].call] \in {"started", "expired"}
         /\ att[a].call \in redis.counted \cup aged

\* A settlement that is not committed yet meets a row without a verdict, or finds an
\* unknown outcome to be a success; it never writes a sent call off.
PendingIsNew(a) ==
    att[a].pend # "none" =>
        /\ \/ usage[att[a].call].status \in {"reserved", "running", "started"}
           \/ usage[att[a].call].status = "outcome_unknown" /\ att[a].pend = "succeeded"
        /\ att[a].pend \in {"running", "aborted"} => att[a].call \notin sent

\* An answer is handed on with its row and without its permit.
HandsOn(a) ==
    att[a].stage = "idle" /\ att[a].out = "succeeded" =>
        att[a].pend = "succeeded" /\ att[a].call \notin redis.active

\* A permit outlives its HTTP call, where the configured times say so.
PermitOutlives(a) ==
    "slow" \notin Faults /\ att[a].stage \in Sending => att[a].call \in redis.active \ redis.lapsed

AttemptFits(a) == HasRow(a) /\ StageFits(a) /\ PendingIsNew(a) /\ HandsOn(a) /\ PermitOutlives(a)

\* No two attempts have the same row.
RowsAreOwned ==
    \A a, b \in Attempts : a # b /\ att[a].call # 0 => att[a].call # att[b].call

\* The row, the permit and the two sets of a rate limit key tell the same story.
RowFits(n) ==
    /\ Open(n) => usage[n].route \in Routes
    /\ n \in redis.active <=> redis.permit[n] \in {"acquired", "started"}
    /\ n \in redis.active => n \in redis.counted \cup aged
    /\ n \in redis.counted => redis.permit[n] # "none"
    /\ redis.permit[n] # "none" => Open(n)
    /\ n \in sent =>
         /\ redis.permit[n] \notin {"none", "acquired"} /\ n \in redis.counted \cup aged
         /\ usage[n].status \in {"started"} \cup (Verdicts \ {"aborted"})

\* No rate limit key has more permits than it may have.
KeysAreLimited ==
    \A r \in Routes :
        /\ Cardinality(OfKey(redis.active, QuotaOf[r])) <= Concurrency
        /\ Cardinality(OfKey(redis.counted, QuotaOf[r])) <= Rpm

IInv ==
    /\ TypeOK /\ (\A a \in Attempts : AttemptFits(a)) /\ (\A n \in Ids : RowFits(n))
    /\ RowsAreOwned /\ KeysAreLimited

-----------------------------------------------------------------------------
(* What the operations of the permit script do to its state. *)

\* The part of TypeOK that is about Redis.
RedisType(s) ==
    /\ s \in Redis /\ s.lapsed \subseteq s.active
    /\ \A r \in Routes : s.failures[r] = Threshold => r \in s.tripped

\* What permits and sets become for one call when lapsed permits are reaped.
Reaped(s, t, n) ==
    \/ /\ t.permit[n] = s.permit[n]
       /\ (n \in t.active <=> n \in s.active) /\ (n \in t.lapsed <=> n \in s.lapsed)
       /\ (n \in t.counted <=> n \in s.counted)
    \/ /\ n \in s.lapsed /\ t.permit[n] = "expired" /\ n \notin t.active
       /\ n \in t.counted => n \in s.counted
       /\ s.permit[n] # "acquired" /\ n \in s.counted => n \in t.counted

\* The permits, the sets and the rest are separate fields.
LEMMA RedisExcept ==
    ASSUME NEW s \in Redis,
           NEW P \in [Ids -> {"none", "acquired", "started", "settled", "expired"}],
           NEW A \in SUBSET Ids, NEW L \in SUBSET Ids, NEW C \in SUBSET Ids,
           NEW B \in SUBSET {QuotaOf[r] : r \in Routes}
    PROVE  LET t == [s EXCEPT !.active = A, !.lapsed = L, !.counted = C, !.permit = P, !.blocked = B]
           IN  /\ t \in Redis
               /\ t.active = A /\ t.lapsed = L /\ t.counted = C /\ t.permit = P /\ t.blocked = B
               /\ t.failures = s.failures /\ t.tripped = s.tripped
BY DEF Redis

\* The fields of a Redis state.
LEMMA RedisFields ==
    ASSUME NEW s \in Redis
    PROVE  /\ s.permit \in [Ids -> {"none", "acquired", "started", "settled", "expired"}]
           /\ s.active \in SUBSET Ids /\ s.lapsed \in SUBSET Ids /\ s.counted \in SUBSET Ids
           /\ s.blocked \in SUBSET {QuotaOf[r] : r \in Routes}
           /\ s.failures \in [Routes -> 0..Threshold] /\ s.tripped \in SUBSET Routes
BY DEF Redis

\* reap_expired_permits
LEMMA ReapEffect ==
    ASSUME NEW s, RedisType(s), NEW k, NEW t, t = Reap(s, k)
    PROVE  /\ RedisType(t)
           /\ \A n \in Ids : Reaped(s, t, n)
           /\ \A n \in Ids : n \in OfKey(s.lapsed, k) => t.permit[n] = "expired"
           /\ t.active \subseteq s.active /\ t.counted \subseteq s.counted /\ t.lapsed \subseteq s.lapsed
           /\ t.lapsed \cap OfKey(s.lapsed, k) = {}
           /\ t.blocked = s.blocked /\ t.failures = s.failures /\ t.tripped = s.tripped
<1> DEFINE gone == OfKey(s.lapsed, k)
           A == s.active \ gone
           L == s.lapsed \ gone
           C == s.counted \ {n \in gone : s.permit[n] = "acquired"}
           P == [n \in Ids |-> IF n \in gone THEN "expired" ELSE s.permit[n]]
<1>1. s \in Redis /\ s.lapsed \subseteq s.active /\ \A r \in Routes : s.failures[r] = Threshold => r \in s.tripped
  BY DEF RedisType
<1>2. gone \subseteq s.lapsed
  BY DEF OfKey
<1>3. /\ s.permit \in [Ids -> {"none", "acquired", "started", "settled", "expired"}]
      /\ s.active \in SUBSET Ids /\ s.lapsed \in SUBSET Ids /\ s.counted \in SUBSET Ids
      /\ s.blocked \in SUBSET {QuotaOf[r] : r \in Routes}
  BY <1>1, RedisFields
<1>4. t = [s EXCEPT !.active = A, !.lapsed = L, !.counted = C, !.permit = P]
  BY DEF Reap
<1> HIDE DEF gone
<1>5. /\ A \in SUBSET Ids /\ L \in SUBSET Ids /\ C \in SUBSET Ids
      /\ P \in [Ids -> {"none", "acquired", "started", "settled", "expired"}]
  BY <1>3
<1>6. /\ \A n \in Ids : P[n] = IF n \in gone THEN "expired" ELSE s.permit[n]
      /\ L \subseteq A
  BY <1>1
<1>7. /\ \A n : n \in A <=> n \in s.active /\ n \notin gone
      /\ \A n : n \in L <=> n \in s.lapsed /\ n \notin gone
      /\ \A n : n \in C <=> n \in s.counted /\ ~(n \in gone /\ s.permit[n] = "acquired")
  OBVIOUS
<1> HIDE DEF A, L, C, P
<1>8. /\ t \in Redis
      /\ t.active = A /\ t.lapsed = L /\ t.counted = C /\ t.permit = P
      /\ t.blocked = s.blocked /\ t.failures = s.failures /\ t.tripped = s.tripped
  BY <1>1, <1>4, <1>5 DEF Redis
<1>9. RedisType(t)
  BY <1>1, <1>6, <1>8 DEF RedisType
<1>10. \A n \in Ids : Reaped(s, t, n)
  BY <1>2, <1>6, <1>7, <1>8 DEF Reaped
<1> QED
  BY <1>6, <1>7, <1>8, <1>9, <1>10 DEF gone

-----------------------------------------------------------------------------
(* What a step leaves alone. *)

\* For the others, a row stays as it is; at most its lapsed permit is reaped.
Same(n) ==
    /\ usage'[n] = usage[n] /\ (n \in sent' <=> n \in sent)
    /\ n \in redis'.counted => n \in redis.counted
    /\ \/ /\ redis'.permit[n] = redis.permit[n]
          /\ (n \in redis'.active <=> n \in redis.active)
          /\ (n \in redis'.lapsed <=> n \in redis.lapsed)
          /\ n \in redis.counted \cup aged => n \in redis'.counted \cup aged'
       \/ /\ n \in redis.lapsed /\ redis'.permit[n] = "expired" /\ n \notin redis'.active
          /\ redis.permit[n] # "acquired" /\ n \in redis.counted \cup aged =>
               n \in redis'.counted \cup aged'

\* A row that is left alone still fits.
LEMMA SameRowFits ==
    ASSUME TypeOK, NEW n \in Ids, RowFits(n), Same(n)
    PROVE  RowFits(n)'
<1>1. redis.lapsed \subseteq redis.active
  BY DEF TypeOK
<1> QED
  BY <1>1 DEF RowFits, Same, Open

\* An attempt that does not move and whose row is left alone still fits.
LEMMA OthersFit ==
    ASSUME TypeOK, NEW b \in Attempts, AttemptFits(b), att'[b] = att[b],
           att[b].call # 0 => RowFits(att[b].call) /\ Same(att[b].call)
    PROVE  AttemptFits(b)'
<1>1. redis.lapsed \subseteq redis.active
  BY DEF TypeOK
<1>2. CASE att[b].call = 0
  <2>1. att[b].out # "succeeded" \/ att[b].stage # "idle"
    BY <1>2 DEF AttemptFits, HasRow, HandsOn
  <2>2. att[b].stage \notin InCall /\ att[b].pend = "none"
    BY <1>2 DEF AttemptFits, HasRow
  <2> QED
    BY <1>2, <2>1, <2>2 DEF AttemptFits, HasRow, StageFits, PendingIsNew, HandsOn, PermitOutlives, InCall, Sending
<1>3. CASE att[b].call # 0
  <2> DEFINE n == att[b].call
  <2>1. RowFits(n) /\ Same(n)
    BY <1>3
  <2>2. HasRow(b)'
    BY <2>1 DEF AttemptFits, HasRow, Same, Open
  <2>3. StageFits(b)'
    BY <1>1, <2>1 DEF AttemptFits, StageFits, Same, RowFits, Activated, Begun, Sending
  <2>4. PendingIsNew(b)' /\ HandsOn(b)'
    BY <1>1, <2>1 DEF AttemptFits, PendingIsNew, HandsOn, Same
  <2>5. PermitOutlives(b)'
    BY <2>1 DEF AttemptFits, PermitOutlives, Same, Sending
  <2> QED
    BY <2>2, <2>3, <2>4, <2>5 DEF AttemptFits
<1> QED
  BY <1>2, <1>3

\* The rows are finitely many.
LEMMA RowsFinite ==
    ASSUME NEW S \in SUBSET Ids
    PROVE  IsFiniteSet(S) /\ Cardinality(S) \in Nat
<1>1. IsFiniteSet(Ids)
  BY ConstantsAssumption, FS_Interval DEF Ids
<1> QED
  BY <1>1, FS_Subset, FS_CardinalityType

\* The limits hold on when no permit is added and no counted row changes its route.
LEMMA LimitsKept ==
    ASSUME TypeOK, KeysAreLimited,
           redis'.active \subseteq redis.active, redis'.counted \subseteq redis.counted,
           \A n \in redis'.active \cup redis'.counted : usage'[n].route = usage[n].route
    PROVE  KeysAreLimited'
<1> SUFFICES ASSUME NEW r \in Routes
             PROVE  /\ Cardinality(OfKey(redis.active, QuotaOf[r])') <= Concurrency
                    /\ Cardinality(OfKey(redis.counted, QuotaOf[r])') <= Rpm
  BY DEF KeysAreLimited
<1> DEFINE k == QuotaOf[r]
<1>1. /\ OfKey(redis.active, k)' \subseteq OfKey(redis.active, k)
      /\ OfKey(redis.counted, k)' \subseteq OfKey(redis.counted, k)
  BY DEF OfKey, KeyOf
<1>2. OfKey(redis.active, k) \in SUBSET Ids /\ OfKey(redis.counted, k) \in SUBSET Ids
  BY DEF TypeOK, Redis, OfKey
<1>3. /\ Cardinality(OfKey(redis.active, k)) <= Concurrency
      /\ Cardinality(OfKey(redis.counted, k)) <= Rpm
  BY DEF KeysAreLimited
<1> HIDE DEF k
<1>4. ASSUME NEW S \in SUBSET Ids, NEW T \in SUBSET S
      PROVE  Cardinality(T) <= Cardinality(S) /\ Cardinality(T) \in Nat /\ Cardinality(S) \in Nat
  BY RowsFinite, FS_Subset
<1>5. /\ Cardinality(OfKey(redis.active, k)') <= Cardinality(OfKey(redis.active, k))
      /\ Cardinality(OfKey(redis.active, k)') \in Nat /\ Cardinality(OfKey(redis.active, k)) \in Nat
  BY <1>1, <1>2, <1>4
<1>6. /\ Cardinality(OfKey(redis.counted, k)') <= Cardinality(OfKey(redis.counted, k))
      /\ Cardinality(OfKey(redis.counted, k)') \in Nat /\ Cardinality(OfKey(redis.counted, k)) \in Nat
  BY <1>1, <1>2, <1>4
<1>7. Concurrency \in Nat /\ Rpm \in Nat
  BY ConstantsAssumption
<1> QED
  BY <1>3, <1>5, <1>6, <1>7 DEF k

\* A step of attempt a that touches the rows M, none of which another attempt has.
LEMMA Frame ==
    ASSUME IInv, TypeOK', NEW a \in Attempts, NEW M,
           \A b \in Attempts \ {a} : att'[b] = att[b] /\ att[b].call \notin M \ {0},
           \A n \in Ids \ M : Same(n),
           \A n \in Ids \cap M : RowFits(n)',
           AttemptFits(a)', att'[a].call \in M \cup {0, att[a].call},
           KeysAreLimited'
    PROVE  IInv'
<1>1. \A n \in Ids : RowFits(n)'
  BY SameRowFits DEF IInv
<1>2. \A b \in Attempts : AttemptFits(b)'
  <2> SUFFICES ASSUME NEW b \in Attempts, b # a PROVE AttemptFits(b)'
    OBVIOUS
  <2>1. att'[b] = att[b] /\ att[b].call \notin M \ {0}
    OBVIOUS
  <2>2. att[b].call \in Ids \cup {0}
    BY DEF IInv, TypeOK, Attempt
  <2>3. att[b].call # 0 => RowFits(att[b].call) /\ Same(att[b].call)
    BY <2>1, <2>2 DEF IInv
  <2> QED
    BY <2>1, <2>3, OthersFit DEF IInv
<1>3. RowsAreOwned'
  BY DEF IInv, RowsAreOwned
<1> QED
  BY <1>1, <1>2, <1>3 DEF IInv

-----------------------------------------------------------------------------
(* The attempt itself. *)

\* What a step that replaces the record of one attempt does to the others.
LEMMA Moved ==
    ASSUME NEW a \in Attempts, NEW x \in Attempt, att \in [Attempts -> Attempt],
           att' = [att EXCEPT ![a] = x]
    PROVE  /\ att' \in [Attempts -> Attempt] /\ att'[a] = x
           /\ \A b \in Attempts \ {a} : att'[b] = att[b]
OBVIOUS

\* A step that changes nothing but one attempt, and maybe who holds the run, whether it
\* is open and the time.
LEMMA OnlyAttempt ==
    ASSUME IInv, NEW a \in Attempts, NEW x \in Attempt, att' = [att EXCEPT ![a] = x],
           x.call \in {0, att[a].call}, AttemptFits(a)',
           holder' \in Attempts, open' \in BOOLEAN, late' \in BOOLEAN,
           UNCHANGED <<usage, redis, sent, aged>>
    PROVE  IInv'
<1>1. TypeOK /\ KeysAreLimited
  BY DEF IInv
<1>2. /\ att' \in [Attempts -> Attempt] /\ att'[a] = x
      /\ \A b \in Attempts \ {a} : att'[b] = att[b]
  BY <1>1, Moved DEF TypeOK
<1>3. TypeOK'
  BY <1>1, <1>2 DEF TypeOK
<1>4. KeysAreLimited'
  BY <1>1, LimitsKept
<1> DEFINE M == {}
<1>5. /\ \A n \in Ids \ M : Same(n)
      /\ \A n \in Ids \cap M : RowFits(n)'
  BY DEF Same
<1>6. /\ \A b \in Attempts \ {a} : att'[b] = att[b] /\ att[b].call \notin M \ {0}
      /\ att'[a].call \in M \cup {0, att[a].call}
  BY <1>2
<1> HIDE DEF M
<1> QED
  BY <1>3, <1>4, <1>5, <1>6, Frame

\* Return: the attempt is idle, with a settlement that fits or without one.
LEMMA Returned ==
    ASSUME NEW a \in Attempts, att \in [Attempts -> Attempt],
           NEW out \in {"none", "refused", "discarded"} \cup Verdicts,
           NEW pend \in {"none", "running"} \cup Verdicts,
           Return(a, out, pend),
           pend # "none" =>
               /\ att[a].call # 0
               /\ \/ usage'[att[a].call].status \in {"reserved", "running", "started"}
                  \/ usage'[att[a].call].status = "outcome_unknown" /\ pend = "succeeded"
               /\ pend \in {"running", "aborted"} => att[a].call \notin sent',
           out = "succeeded" => pend = "succeeded" /\ att[a].call \notin redis'.active
    PROVE  /\ AttemptFits(a)'
           /\ \E x \in Attempt : att' = [att EXCEPT ![a] = x] /\ x.call \in {0, att[a].call}
<1> DEFINE x == [Fresh EXCEPT !.out = out, !.pend = pend,
                              !.call = IF pend = "none" THEN 0 ELSE att[a].call]
<1>1. att[a].call \in Ids \cup {0}
  BY DEF Attempt
<1>2. /\ x \in Attempt /\ x.stage = "idle" /\ x.out = out /\ x.pend = pend
      /\ x.call = IF pend = "none" THEN 0 ELSE att[a].call
  BY <1>1, ConstantsAssumption DEF Fresh, Attempt, Stages
<1>3. att' = [att EXCEPT ![a] = x]
  BY DEF Return
<1> HIDE DEF x
<1>4. att'[a] = x
  BY <1>3
<1>5. HasRow(a)' /\ StageFits(a)' /\ PermitOutlives(a)'
  BY <1>2, <1>4 DEF HasRow, StageFits, PermitOutlives, InCall, Sending, Open
<1>6. PendingIsNew(a)' /\ HandsOn(a)'
  BY <1>2, <1>4 DEF PendingIsNew, HandsOn
<1> QED
  BY <1>2, <1>3, <1>5, <1>6 DEF AttemptFits

-----------------------------------------------------------------------------
(* The steps of an attempt that touch neither ledger. *)

\* Begin
LEMMA BeginStep ==
    ASSUME IInv, NEW a \in Attempts, Begin(a)
    PROVE  IInv'
<1> DEFINE x == [att[a] EXCEPT !.stage = "route", !.route = Primary, !.out = "none",
                               !.tried = {Primary}, !.waited = FALSE]
<1>1. att \in [Attempts -> Attempt] /\ att[a] \in Attempt /\ AttemptFits(a)
  BY DEF IInv, TypeOK
<1>2. /\ x \in Attempt /\ x.stage = "route" /\ x.out = "none"
      /\ x.call = att[a].call /\ x.pend = att[a].pend
  BY <1>1, ConstantsAssumption DEF Attempt, Stages
<1>3. att' = [att EXCEPT ![a] = x]
  BY <1>1 DEF Begin
<1> HIDE DEF x
<1>4. att'[a] = x /\ att[a].stage = "idle" /\ UNCHANGED <<holder, open, late, usage, redis, sent, aged>>
  BY <1>1, <1>3 DEF Begin
<1>5. AttemptFits(a)'
  BY <1>1, <1>2, <1>4 DEF AttemptFits, HasRow, StageFits, PendingIsNew, HandsOn, PermitOutlives,
                          InCall, Sending, Open
<1>6. holder' \in Attempts /\ open' \in BOOLEAN /\ late' \in BOOLEAN
  BY <1>4 DEF IInv, TypeOK
<1> QED
  BY <1>2, <1>3, <1>4, <1>5, <1>6, OnlyAttempt

\* What an attempt has pending when it returns without a verdict of its own.
LEMMA KeepsPending ==
    ASSUME IInv, NEW a \in Attempts, UNCHANGED <<usage, redis, sent>>,
           att[a].pend # "none"
    PROVE  /\ att[a].call # 0
           /\ \/ usage'[att[a].call].status \in {"reserved", "running", "started"}
              \/ usage'[att[a].call].status = "outcome_unknown" /\ att[a].pend = "succeeded"
           /\ att[a].pend \in {"running", "aborted"} => att[a].call \notin sent'
BY DEF IInv, AttemptFits, HasRow, PendingIsNew, Open

\* Refuse
LEMMA RefuseStep ==
    ASSUME IInv, NEW a \in Attempts, Refuse(a)
    PROVE  IInv'
<1>1. att \in [Attempts -> Attempt] /\ att[a] \in Attempt /\ AttemptFits(a)
  BY DEF IInv, TypeOK
<1>2. PICK pend \in {att[a].pend, "none"} : Return(a, "refused", pend)
  BY DEF Refuse
<1>3. UNCHANGED <<holder, open, late, usage, redis, sent, aged>>
  BY DEF Refuse
<1>4. pend \in {"none", "running"} \cup Verdicts
  BY <1>1 DEF Attempt
<1>5. /\ AttemptFits(a)'
      /\ \E x \in Attempt : att' = [att EXCEPT ![a] = x] /\ x.call \in {0, att[a].call}
  BY <1>1, <1>2, <1>3, <1>4, KeepsPending, Returned
<1>6. holder' \in Attempts /\ open' \in BOOLEAN /\ late' \in BOOLEAN
  BY <1>3 DEF IInv, TypeOK
<1> QED
  BY <1>3, <1>5, <1>6, OnlyAttempt

\* GiveUp
LEMMA GiveUpStep ==
    ASSUME IInv, NEW a \in Attempts, GiveUp(a)
    PROVE  IInv'
<1>1. att \in [Attempts -> Attempt] /\ att[a] \in Attempt /\ AttemptFits(a)
  BY DEF IInv, TypeOK
<1>2. Return(a, "rate_limited", att[a].pend)
  BY DEF GiveUp
<1>3. UNCHANGED <<holder, open, late, usage, redis, sent, aged>>
  BY DEF GiveUp
<1>4. att[a].pend \in {"none", "running"} \cup Verdicts /\ "rate_limited" \in Verdicts
  BY <1>1 DEF Attempt, Verdicts
<1>5. /\ AttemptFits(a)'
      /\ \E x \in Attempt : att' = [att EXCEPT ![a] = x] /\ x.call \in {0, att[a].call}
  BY <1>1, <1>2, <1>3, <1>4, KeepsPending, Returned
<1>6. holder' \in Attempts /\ open' \in BOOLEAN /\ late' \in BOOLEAN
  BY <1>3 DEF IInv, TypeOK
<1> QED
  BY <1>3, <1>5, <1>6, OnlyAttempt

\* Fallback
LEMMA FallbackStep ==
    ASSUME IInv, NEW a \in Attempts, Fallback(a)
    PROVE  IInv'
<1> DEFINE f == FallbackOf[att[a].route]
           x == [att[a] EXCEPT !.stage = "route", !.waited = FALSE, !.route = f,
                               !.tried = @ \cup {f}]
<1>1. att \in [Attempts -> Attempt] /\ att[a] \in Attempt /\ AttemptFits(a)
  BY DEF IInv, TypeOK
<1>2. f \in Routes /\ att[a].stage = "limited"
  BY ConstantsAssumption DEF Fallback, CanFallBack
<1>3. att' = [att EXCEPT ![a] = x]
  BY <1>1 DEF Fallback
<1> HIDE DEF f
<1>4. /\ x \in Attempt /\ x.stage = "route" /\ x.out = att[a].out
      /\ x.call = att[a].call /\ x.pend = att[a].pend
  BY <1>1, <1>2 DEF Attempt, Stages
<1> HIDE DEF x
<1>5. att'[a] = x /\ UNCHANGED <<holder, open, late, usage, redis, sent, aged>>
  BY <1>1, <1>3 DEF Fallback
<1>6. AttemptFits(a)'
  BY <1>1, <1>4, <1>5 DEF AttemptFits, HasRow, StageFits, PendingIsNew, HandsOn, PermitOutlives,
                          InCall, Sending, Open
<1>7. holder' \in Attempts /\ open' \in BOOLEAN /\ late' \in BOOLEAN
  BY <1>5 DEF IInv, TypeOK
<1> QED
  BY <1>3, <1>4, <1>5, <1>6, <1>7, OnlyAttempt

\* Crash
LEMMA CrashStep ==
    ASSUME IInv, NEW a \in Attempts, Crash(a)
    PROVE  IInv'
<1> DEFINE x == [Fresh EXCEPT !.stage = "dead"]
<1>1. att \in [Attempts -> Attempt] /\ att[a] \in Attempt
  BY DEF IInv, TypeOK
<1>2. x \in Attempt /\ x.stage = "dead" /\ x.out = "none" /\ x.call = 0 /\ x.pend = "none"
  BY ConstantsAssumption DEF Attempt, Stages, Fresh
<1>3. att' = [att EXCEPT ![a] = x] /\ UNCHANGED <<holder, open, late, usage, redis, sent, aged>>
  BY DEF Crash
<1> HIDE DEF x
<1>4. att'[a] = x
  BY <1>1, <1>3
<1>5. AttemptFits(a)'
  BY <1>2, <1>4 DEF AttemptFits, HasRow, StageFits, PendingIsNew, HandsOn, PermitOutlives,
                    InCall, Sending
<1>6. holder' \in Attempts /\ open' \in BOOLEAN /\ late' \in BOOLEAN
  BY <1>3 DEF IInv, TypeOK
<1> QED
  BY <1>2, <1>3, <1>5, <1>6, OnlyAttempt

\* Takeover
LEMMA TakeoverStep ==
    ASSUME IInv, NEW a \in Attempts, Takeover(a)
    PROVE  IInv'
<1> DEFINE x == [att[a] EXCEPT !.stage = "idle"]
<1>1. att \in [Attempts -> Attempt] /\ att[a] \in Attempt /\ AttemptFits(a) /\ att[a].stage = "waiting"
  BY DEF IInv, TypeOK, Takeover
<1>2. /\ x \in Attempt /\ x.stage = "idle" /\ x.out = att[a].out
      /\ x.call = att[a].call /\ x.pend = att[a].pend
  BY <1>1 DEF Attempt, Stages
<1>3. /\ att' = [att EXCEPT ![a] = x] /\ UNCHANGED <<usage, redis, sent, aged>>
      /\ holder' = a /\ open' = open /\ late' = late
  BY <1>1 DEF Takeover, Go
<1> HIDE DEF x
<1>4. att'[a] = x
  BY <1>1, <1>3
<1>5. x.call = 0 /\ x.pend = "none" /\ x.out = "none"
  BY <1>1, <1>2 DEF AttemptFits, StageFits
<1>6. AttemptFits(a)'
  BY <1>2, <1>4, <1>5 DEF AttemptFits, HasRow, StageFits, PendingIsNew, HandsOn, PermitOutlives,
                    InCall, Sending
<1>7. holder' \in Attempts /\ open' \in BOOLEAN /\ late' \in BOOLEAN
  BY <1>3 DEF IInv, TypeOK
<1> QED
  BY <1>2, <1>3, <1>5, <1>6, <1>7, OnlyAttempt

-----------------------------------------------------------------------------
(* The steps of an attempt that touch the usage ledger. *)

\* A step of attempt a on the rows M that does not touch Redis.
LEMMA RowStep ==
    ASSUME IInv, NEW a \in Attempts, NEW M, NEW x \in Attempt,
           att' = [att EXCEPT ![a] = x], x.call \in M \cup {0, att[a].call},
           \A b \in Attempts \ {a} : att[b].call \notin M \ {0},
           usage' \in [Ids -> Row], sent' \subseteq Ids,
           \A n \in Ids \ M : usage'[n] = usage[n] /\ (n \in sent' <=> n \in sent),
           \A n \in Ids : redis.permit[n] # "none" => usage'[n].route = usage[n].route,
           \A n \in Ids \cap M : RowFits(n)',
           AttemptFits(a)', UNCHANGED <<holder, open, late, redis, aged>>
    PROVE  IInv'
<1>1. TypeOK /\ KeysAreLimited /\ \A n \in Ids : RowFits(n)
  BY DEF IInv
<1>2. /\ att' \in [Attempts -> Attempt] /\ att'[a] = x
      /\ \A b \in Attempts \ {a} : att'[b] = att[b]
  BY <1>1, Moved DEF TypeOK
<1>3. TypeOK'
  BY <1>1, <1>2 DEF TypeOK
<1>4. redis.active \subseteq Ids /\ redis.counted \subseteq Ids
  BY <1>1 DEF TypeOK, Redis
<1>5. \A n \in redis.active \cup redis.counted : usage'[n].route = usage[n].route
  BY <1>1, <1>4 DEF RowFits
<1>6. KeysAreLimited'
  BY <1>1, <1>5, LimitsKept
<1>7. \A n \in Ids \ M : Same(n)
  BY DEF Same
<1> QED
  BY <1>2, <1>3, <1>6, <1>7, Frame

\* No other attempt has the row of an attempt.
LEMMA OwnRow ==
    ASSUME IInv, NEW a \in Attempts
    PROVE  \A b \in Attempts \ {a} : att[b].call \notin {att[a].call} \ {0}
BY DEF IInv, RowsAreOwned

\* A step of an attempt on its own row that does not touch Redis.
LEMMA OwnStep ==
    ASSUME IInv, NEW a \in Attempts, NEW m \in Ids, att[a].call = m, NEW x \in Attempt,
           att' = [att EXCEPT ![a] = x], x.call \in {0, m},
           usage' \in [Ids -> Row], \A n \in Ids \ {m} : usage'[n] = usage[n],
           usage'[m].route = usage[m].route, sent' \in {sent, sent \cup {m}},
           RowFits(m)', AttemptFits(a)', UNCHANGED <<holder, open, late, redis, aged>>
    PROVE  IInv'
<1> DEFINE M == {m}
<1>1. /\ \A b \in Attempts \ {a} : att[b].call \notin M \ {0}
      /\ x.call \in M \cup {0, att[a].call}
  BY OwnRow
<1>2. /\ \A n \in Ids \ M : usage'[n] = usage[n] /\ (n \in sent' <=> n \in sent)
      /\ \A n \in Ids : usage'[n].route = usage[n].route
      /\ \A n \in Ids \cap M : RowFits(n)'
  OBVIOUS
<1>3. sent' \subseteq Ids
  BY DEF IInv, TypeOK
<1> HIDE DEF M
<1> QED
  BY <1>1, <1>2, <1>3, RowStep

\* Record: mark_started commits.
LEMMA RecordStep ==
    ASSUME IInv, NEW a \in Attempts, Record(a)
    PROVE  IInv'
<1>1. /\ TypeOK /\ att[a] \in Attempt /\ AttemptFits(a) /\ att[a].stage = "begun"
      /\ UNCHANGED <<holder, open, late, redis, sent, aged>>
  BY DEF IInv, TypeOK, Record
<1>2. PICK m \in Ids : m = att[a].call
  BY <1>1 DEF AttemptFits, HasRow, InCall, Attempt
<1> DEFINE x == [att[a] EXCEPT !.stage = "send", !.pend = "none"]
           u == [usage[m] EXCEPT !.status = "started"]
<1>3. /\ x \in Attempt /\ x.stage = "send" /\ x.pend = "none" /\ x.call = m
      /\ x.route = att[a].route /\ x.out = att[a].out
  BY <1>1, <1>2 DEF Attempt, Stages
<1>4. att' = [att EXCEPT ![a] = x]
  BY <1>1 DEF Record, TypeOK
<1>5. usage[m] \in Row /\ RowFits(m)
  BY <1>1, <1>2 DEF IInv, TypeOK
<1>6. u \in Row /\ u.status = "started" /\ u.route = usage[m].route
  BY <1>5 DEF Row, InFlight
<1>7. usage' = [usage EXCEPT ![m] = u]
  BY <1>1, <1>2 DEF Record, TypeOK
<1> HIDE DEF x, u
<1>8. att'[a] = x /\ att'[a].call = m
  BY <1>1, <1>3, <1>4 DEF TypeOK
<1>9. usage' \in [Ids -> Row] /\ usage'[m] = u /\ \A n \in Ids \ {m} : usage'[n] = usage[n]
  BY <1>1, <1>2, <1>6, <1>7 DEF TypeOK
<1>10. /\ m \notin sent /\ usage[m].route = att[a].route /\ redis.permit[m] \in {"started", "expired"}
       /\ m \in redis.counted \cup aged /\ m # 0 /\ Open(m)
       /\ "slow" \notin Faults => m \in redis.active \ redis.lapsed
  BY <1>1, <1>2 DEF AttemptFits, HasRow, StageFits, PermitOutlives, InCall, Sending
<1>11. AttemptFits(a)'
  BY <1>1, <1>3, <1>6, <1>8, <1>9, <1>10
     DEF AttemptFits, HasRow, StageFits, PendingIsNew, HandsOn, PermitOutlives, InCall, Sending,
         Begun, Open
<1>12. RowFits(m)'
  BY <1>1, <1>5, <1>6, <1>9, <1>10 DEF RowFits, Open
<1> QED
  BY <1>1, <1>2, <1>3, <1>4, <1>6, <1>9, <1>11, <1>12, OwnStep

\* Send
LEMMA SendStep ==
    ASSUME IInv, NEW a \in Attempts, Send(a)
    PROVE  IInv'
<1>1. /\ TypeOK /\ att[a] \in Attempt /\ AttemptFits(a) /\ att[a].stage = "send"
      /\ UNCHANGED <<holder, open, late, usage, redis, aged>>
  BY DEF IInv, TypeOK, Send
<1>2. PICK m \in Ids : m = att[a].call
  BY <1>1 DEF AttemptFits, HasRow, InCall, Attempt
<1>3. /\ m \notin sent /\ usage[m].route = att[a].route /\ redis.permit[m] \in {"started", "expired"}
      /\ m \in redis.counted \cup aged /\ m # 0 /\ Open(m)
      /\ att[a].pend = "none" /\ usage[m].status \in {"started", "outcome_unknown"}
      /\ "slow" \notin Faults => m \in redis.active \ redis.lapsed
  BY <1>1, <1>2 DEF AttemptFits, HasRow, StageFits, PermitOutlives, InCall, Sending, Begun
<1>4. CASE sent' = sent \cup {m} /\ Go(a, "flight")
  <2> DEFINE x == [att[a] EXCEPT !.stage = "flight"]
  <2>1. /\ x \in Attempt /\ x.stage = "flight" /\ x.pend = att[a].pend /\ x.call = m
        /\ x.route = att[a].route /\ x.out = att[a].out
    BY <1>1, <1>2 DEF Attempt, Stages
  <2>2. att' = [att EXCEPT ![a] = x]
    BY <1>1, <1>4 DEF TypeOK, Go
  <2> HIDE DEF x
  <2>3. att'[a] = x /\ att'[a].call = m
    BY <1>1, <2>1, <2>2 DEF TypeOK
  <2>4. RowFits(m)
    BY <1>2 DEF IInv
  <2>5. AttemptFits(a)'
    BY <1>1, <1>3, <2>1, <2>3
       DEF AttemptFits, HasRow, StageFits, PendingIsNew, HandsOn, PermitOutlives, InCall, Sending,
           Begun, Open
  <2>6. RowFits(m)'
    BY <1>1, <1>3, <2>4 DEF RowFits, Open, Verdicts
  <2>7. usage' \in [Ids -> Row]
    BY <1>1 DEF TypeOK
  <2> QED
    BY <1>1, <1>2, <1>4, <2>1, <2>2, <2>5, <2>6, <2>7, OwnStep
<1>5. CASE Abort(a) /\ UNCHANGED sent
  <2> DEFINE x == [att[a] EXCEPT !.stage = "settle", !.out = "aborted"]
  <2>1. /\ x \in Attempt /\ x.stage = "settle" /\ x.pend = att[a].pend /\ x.call = m
        /\ x.route = att[a].route /\ x.out = "aborted"
    BY <1>1, <1>2 DEF Attempt, Stages, Verdicts
  <2>2. att' = [att EXCEPT ![a] = x]
    BY <1>1, <1>5 DEF TypeOK, Abort
  <2> HIDE DEF x
  <2>3. att'[a] = x /\ att'[a].call = m
    BY <1>1, <2>1, <2>2 DEF TypeOK
  <2>4. AttemptFits(a)'
    BY <1>1, <1>3, <1>5, <2>1, <2>3
       DEF AttemptFits, HasRow, StageFits, PendingIsNew, HandsOn, PermitOutlives, InCall, Sending,
           Begun, Open, Verdicts
  <2>5. holder' \in Attempts /\ open' \in BOOLEAN /\ late' \in BOOLEAN
    BY <1>1 DEF TypeOK
  <2>6. x.call \in {0, att[a].call}
    BY <1>2, <2>1
  <2> QED
    BY <1>1, <1>5, <2>1, <2>2, <2>4, <2>5, <2>6, OnlyAttempt
<1> QED
  BY <1>2, <1>4, <1>5 DEF Send

\* A commit changes the status of the attempt's own row and nothing else; the row still fits.
LEMMA CommitEffect ==
    ASSUME IInv, NEW a \in Attempts, NEW u, u = Committed(a)
    PROVE  /\ u \in [Ids -> Row]
           /\ \A n \in Ids : /\ u[n].route = usage[n].route
                             /\ u[n].status # "absent" <=> Open(n)
                             /\ n # att[a].call \/ att[a].pend = "none" => u[n] = usage[n]
                             /\ n \in sent => u[n].status \in {"started"} \cup (Verdicts \ {"aborted"})
           /\ att[a].pend # "none" => att[a].call \in Ids
<1>1. usage \in [Ids -> Row] /\ att[a] \in Attempt /\ AttemptFits(a) /\ \A n \in Ids : RowFits(n)
  BY DEF IInv, TypeOK
<1>2. CASE att[a].pend = "none"
  <2>1. u = usage
    BY <1>2 DEF Committed
  <2> QED
    BY <1>1, <1>2, <2>1 DEF RowFits, Open
<1>3. CASE att[a].pend # "none"
  <2>1. PICK m \in Ids : m = att[a].call
    BY <1>1, <1>3 DEF AttemptFits, HasRow, Attempt
  <2>2. PICK p \in {"running"} \cup Verdicts : p = att[a].pend
    BY <1>1, <1>3 DEF Attempt
  <2> DEFINE v == [usage[m] EXCEPT !.status = p]
  <2>3. v \in Row /\ v.status = p /\ v.route = usage[m].route
    BY <1>1 DEF Row, InFlight
  <2>4. u = [usage EXCEPT ![m] = v]
    BY <1>1, <1>3, <2>1, <2>2 DEF Committed
  <2> HIDE DEF v
  <2>5. u \in [Ids -> Row] /\ u[m] = v /\ \A n \in Ids \ {m} : u[n] = usage[n]
    BY <1>1, <2>3, <2>4
  <2>6. Open(m) /\ (m \in sent => p \in Verdicts \ {"aborted"}) /\ p # "absent"
    BY <1>1, <1>3, <2>1, <2>2 DEF AttemptFits, HasRow, PendingIsNew, Verdicts
  <2> QED
    BY <1>1, <1>3, <2>1, <2>3, <2>5, <2>6 DEF RowFits, Open
<1> QED
  BY <1>2, <1>3

\* A row whose status alone is committed still fits.
LEMMA CommittedRowFits ==
    ASSUME NEW n \in Ids, RowFits(n), UNCHANGED <<redis, sent, aged>>,
           usage'[n].route = usage[n].route, usage'[n].status # "absent" <=> Open(n),
           n \in sent => usage'[n].status \in {"started"} \cup (Verdicts \ {"aborted"})
    PROVE  RowFits(n)'
BY DEF RowFits, Open

\* Boundary
LEMMA BoundaryStep ==
    ASSUME IInv, NEW a \in Attempts, Boundary(a)
    PROVE  IInv'
<1>1. /\ TypeOK /\ att[a] \in Attempt /\ AttemptFits(a)
      /\ att' = [att EXCEPT ![a] = Fresh]
      /\ UNCHANGED <<holder, open, late, redis, sent, aged>>
  BY DEF IInv, TypeOK, Boundary
<1>2. /\ Fresh \in Attempt /\ Fresh.stage = "idle" /\ Fresh.out = "none" /\ Fresh.call = 0
      /\ Fresh.pend = "none"
  BY ConstantsAssumption DEF Attempt, Stages, Fresh
<1>3. att'[a] = Fresh
  BY <1>1 DEF TypeOK
<1>4. AttemptFits(a)'
  BY <1>2, <1>3 DEF AttemptFits, HasRow, StageFits, PendingIsNew, HandsOn, PermitOutlives,
                    InCall, Sending
<1>5. CASE usage' = usage
  <2>1. holder' \in Attempts /\ open' \in BOOLEAN /\ late' \in BOOLEAN
    BY <1>1 DEF TypeOK
  <2> QED
    BY <1>1, <1>2, <1>4, <1>5, <2>1, OnlyAttempt
<1>6. CASE usage' = Committed(a) /\ usage' # usage
  <2>1. /\ usage' \in [Ids -> Row]
        /\ \A n \in Ids : /\ usage'[n].route = usage[n].route
                          /\ usage'[n].status # "absent" <=> Open(n)
                          /\ n # att[a].call => usage'[n] = usage[n]
                          /\ n \in sent => usage'[n].status \in {"started"} \cup (Verdicts \ {"aborted"})
    BY <1>6, CommitEffect
  <2>2. att[a].pend # "none" /\ att[a].call \in Ids
    BY <1>6, CommitEffect DEF Committed
  <2>3. PICK m \in Ids : m = att[a].call
    BY <2>2
  <2>4. RowFits(m)'
    BY <1>1, <2>1, CommittedRowFits DEF IInv
  <2>5. sent' \in {sent, sent \cup {m}} /\ Fresh.call \in {0, m}
    BY <1>1, <1>2
  <2> QED
    BY <1>1, <1>2, <1>4, <2>1, <2>3, <2>4, <2>5, OwnStep
<1> QED
  BY <1>5, <1>6 DEF Boundary

\* Reserve: the new row is one nobody has; the previous settlement is committed with it.
LEMMA ReserveStep ==
    ASSUME IInv, NEW a \in Attempts, Reserve(a)
    PROVE  IInv'
<1>1. /\ TypeOK /\ att[a] \in Attempt /\ AttemptFits(a) /\ att[a].stage = "route"
      /\ \A n \in Ids : RowFits(n)
      /\ UNCHANGED <<holder, open, late, redis, sent, aged>>
  BY DEF IInv, TypeOK, Reserve
<1>2. PICK n \in Ids : /\ ~Open(n)
                       /\ usage' = [Committed(a) EXCEPT ![n] =
                              [status |-> "reserved", route |-> att[a].route]]
                       /\ att' = [att EXCEPT ![a].stage = "permit", ![a].call = n, ![a].pend = "none"]
  BY DEF Reserve
<1> DEFINE u == Committed(a)
           v == [status |-> "reserved", route |-> att[a].route]
           x == [att[a] EXCEPT !.stage = "permit", !.call = n, !.pend = "none"]
<1>3. /\ u \in [Ids -> Row]
      /\ \A i \in Ids : /\ u[i].route = usage[i].route
                        /\ u[i].status # "absent" <=> Open(i)
                        /\ i # att[a].call \/ att[a].pend = "none" => u[i] = usage[i]
                        /\ i \in sent => u[i].status \in {"started"} \cup (Verdicts \ {"aborted"})
  BY CommitEffect
<1>4. att' = [att EXCEPT ![a] = x]
  BY <1>1, <1>2 DEF TypeOK
<1>5. v \in Row /\ v.status = "reserved" /\ v.route = att[a].route /\ v.route \in Routes
  BY <1>1 DEF Row, Attempt
<1>6. /\ x \in Attempt /\ x.stage = "permit" /\ x.call = n /\ x.pend = "none"
      /\ x.route = att[a].route /\ x.out = att[a].out
  BY <1>1 DEF Attempt, Stages
<1>7. usage' = [u EXCEPT ![n] = v]
  BY <1>2
<1> HIDE DEF u, v, x
<1>8. usage' \in [Ids -> Row] /\ usage'[n] = v /\ \A i \in Ids \ {n} : usage'[i] = u[i]
  BY <1>3, <1>5, <1>7
<1>9. att'[a] = x
  BY <1>1, <1>4 DEF TypeOK
<1>10. redis.permit[n] = "none" /\ n \notin sent /\ n \notin redis.active /\ n \notin redis.counted
  BY <1>1, <1>2 DEF RowFits
<1>11. n # 0
  BY ConstantsAssumption DEF Ids
<1>12. AttemptFits(a)'
  BY <1>1, <1>5, <1>6, <1>8, <1>9, <1>10, <1>11
     DEF AttemptFits, HasRow, StageFits, PendingIsNew, HandsOn, PermitOutlives, InCall, Sending, Open
<1>13. RowFits(n)'
  BY <1>1, <1>5, <1>8, <1>10 DEF RowFits, Open
<1>14. PICK m \in Ids \cup {0} : m = att[a].call
  BY <1>1 DEF Attempt
<1>15. \A i \in Ids \ {n} : RowFits(i)'
  BY <1>1, <1>3, <1>8, CommittedRowFits
<1> DEFINE M == {n, m}
<1>16. \A i \in Ids \ M : usage'[i] = usage[i] /\ (i \in sent' <=> i \in sent)
  BY <1>1, <1>3, <1>8, <1>14
<1>17. \A i \in Ids : redis.permit[i] # "none" => usage'[i].route = usage[i].route
  BY <1>3, <1>8, <1>10
<1>18. \A b \in Attempts \ {a} : att[b].call \notin M \ {0}
  <2> SUFFICES ASSUME NEW b \in Attempts \ {a}, att[b].call # 0
               PROVE  att[b].call \notin {n, m}
    OBVIOUS
  <2>1. att[b].call # n
    BY <1>2 DEF IInv, AttemptFits, HasRow
  <2>2. att[b].call # m
    BY <1>14, OwnRow
  <2> QED
    BY <2>1, <2>2
<1>19. x.call \in M \cup {0, att[a].call} /\ \A i \in Ids \cap M : RowFits(i)'
  BY <1>6, <1>13, <1>15
<1>20. sent' \subseteq Ids
  BY <1>1 DEF TypeOK
<1> HIDE DEF M
<1> QED
  BY <1>1, <1>4, <1>6, <1>8, <1>12, <1>16, <1>17, <1>18, <1>19, <1>20, RowStep

-----------------------------------------------------------------------------
(* The steps of an attempt that touch Redis. *)

\* A step of attempt a on its own row m that does not touch the usage ledger and takes no permit.
LEMMA RedisStep ==
    ASSUME IInv, NEW a \in Attempts, NEW m \in Ids \cup {0}, att[a].call = m, NEW x \in Attempt,
           att' = [att EXCEPT ![a] = x], x.call \in {0, m},
           RedisType(redis'), redis'.active \subseteq redis.active,
           redis'.counted \subseteq redis.counted,
           \A n \in Ids \ {m} : Reaped(redis, redis', n),
           m \in Ids => RowFits(m)', AttemptFits(a)',
           UNCHANGED <<holder, open, late, usage, sent, aged>>
    PROVE  IInv'
<1>1. TypeOK /\ KeysAreLimited
  BY DEF IInv
<1>2. /\ att' \in [Attempts -> Attempt] /\ att'[a] = x
      /\ \A b \in Attempts \ {a} : att'[b] = att[b]
  BY <1>1, Moved DEF TypeOK
<1>3. TypeOK'
  BY <1>1, <1>2 DEF TypeOK, RedisType
<1>4. KeysAreLimited'
  BY <1>1, LimitsKept
<1> DEFINE M == {m}
<1>5. /\ \A b \in Attempts \ {a} : att'[b] = att[b] /\ att[b].call \notin M \ {0}
      /\ att'[a].call \in M \cup {0, att[a].call} /\ \A n \in Ids \cap M : RowFits(n)'
  BY <1>2, OwnRow
<1>6. \A n \in Ids \ M : Same(n)
  <2> SUFFICES ASSUME NEW n \in Ids, n # m PROVE Same(n)
    OBVIOUS
  <2>1. Reaped(redis, redis', n)
    OBVIOUS
  <2> QED
    BY <2>1 DEF Same, Reaped
<1> HIDE DEF M
<1> QED
  BY <1>3, <1>4, <1>5, <1>6, Frame

\* What is not a permit: the breakers and the cool-downs.
Quiet(s, t) ==
    /\ RedisType(t) /\ t.permit = s.permit /\ t.active = s.active
    /\ t.lapsed = s.lapsed /\ t.counted = s.counted

\* circuit_failure
LEMMA FailedEffect ==
    ASSUME NEW s, RedisType(s), NEW r \in Routes
    PROVE  Quiet(s, Failed(s, r))
<1>1. /\ s \in Redis /\ s.lapsed \subseteq s.active /\ s.failures \in [Routes -> 0..Threshold]
      /\ s.tripped \subseteq Routes /\ \A q \in Routes : s.failures[q] = Threshold => q \in s.tripped
  BY RedisFields DEF RedisType
<1>2. Threshold \in Nat /\ s.failures[r] \in 0..Threshold
  BY <1>1, ConstantsAssumption
<1>3. PICK count \in 0..Threshold :
        count = IF s.failures[r] < Threshold THEN s.failures[r] + 1 ELSE Threshold
  BY <1>2
<1> DEFINE F == [s.failures EXCEPT ![r] = count]
           T == IF count >= Threshold THEN s.tripped \cup {r} ELSE s.tripped
           t == [s EXCEPT !.failures = F, !.tripped = T]
<1>4. F \in [Routes -> 0..Threshold] /\ F[r] = count /\ \A q \in Routes \ {r} : F[q] = s.failures[q]
  BY <1>1
<1>5. T \subseteq Routes /\ s.tripped \subseteq T /\ (count = Threshold => r \in T)
  BY <1>1, <1>2
<1>6. Failed(s, r) = t
  BY <1>1, <1>3 DEF Failed, Redis
<1> HIDE DEF F, T
<1>7. /\ t \in Redis /\ t.permit = s.permit /\ t.active = s.active /\ t.lapsed = s.lapsed
      /\ t.counted = s.counted /\ t.failures = F /\ t.tripped = T
  BY <1>1, <1>4, <1>5 DEF Redis
<1>8. \A q \in Routes : F[q] = Threshold => q \in T
  BY <1>1, <1>4, <1>5
<1> QED
  BY <1>1, <1>6, <1>7, <1>8 DEF Quiet, RedisType

\* circuit_success
LEMMA RecoveredEffect ==
    ASSUME NEW s, RedisType(s), NEW r \in Routes
    PROVE  Quiet(s, Recovered(s, r))
<1>1. /\ s \in Redis /\ s.lapsed \subseteq s.active /\ s.failures \in [Routes -> 0..Threshold]
      /\ s.tripped \subseteq Routes /\ \A q \in Routes : s.failures[q] = Threshold => q \in s.tripped
  BY RedisFields DEF RedisType
<1>2. Threshold \in Nat /\ Threshold # 0
  BY ConstantsAssumption
<1> DEFINE F == [s.failures EXCEPT ![r] = 0]
           T == s.tripped \ {r}
           t == [s EXCEPT !.failures = F, !.tripped = T]
<1>3. F \in [Routes -> 0..Threshold] /\ F[r] = 0 /\ \A q \in Routes \ {r} : F[q] = s.failures[q]
  BY <1>1, <1>2
<1>4. T \subseteq Routes
  BY <1>1
<1>5. Recovered(s, r) = t
  BY <1>1 DEF Recovered, Redis
<1>6. \A q \in Routes : F[q] = Threshold => q \in T
  BY <1>1, <1>2, <1>3
<1> HIDE DEF F, T
<1>7. /\ t \in Redis /\ t.permit = s.permit /\ t.active = s.active /\ t.lapsed = s.lapsed
      /\ t.counted = s.counted /\ t.failures = F /\ t.tripped = T
  BY <1>1, <1>3, <1>4 DEF Redis
<1> QED
  BY <1>1, <1>5, <1>6, <1>7 DEF Quiet, RedisType

\* A change of the cool-downs
LEMMA BlockedEffect ==
    ASSUME NEW s, RedisType(s), NEW B, B \subseteq s.blocked
    PROVE  Quiet(s, [s EXCEPT !.blocked = B])
<1>1. /\ s \in Redis /\ s.blocked \in SUBSET {QuotaOf[r] : r \in Routes}
      /\ s.lapsed \subseteq s.active /\ \A q \in Routes : s.failures[q] = Threshold => q \in s.tripped
  BY RedisFields DEF RedisType
<1> DEFINE t == [s EXCEPT !.blocked = B]
<1>2. B \in SUBSET {QuotaOf[r] : r \in Routes}
  BY <1>1
<1>3. /\ t \in Redis /\ t.permit = s.permit /\ t.active = s.active /\ t.lapsed = s.lapsed
      /\ t.counted = s.counted /\ t.failures = s.failures /\ t.tripped = s.tripped
  BY <1>1, <1>2 DEF Redis
<1> QED
  BY <1>1, <1>3 DEF Quiet, RedisType

\* A step of an attempt that leaves the permits and both ledgers alone.
LEMMA QuietStep ==
    ASSUME IInv, NEW a \in Attempts, NEW x \in Attempt,
           att' = [att EXCEPT ![a] = x], x.call \in {0, att[a].call},
           Quiet(redis, redis'), AttemptFits(a)',
           UNCHANGED <<holder, open, late, usage, sent, aged>>
    PROVE  IInv'
<1>1. PICK m \in Ids \cup {0} : m = att[a].call
  BY DEF IInv, TypeOK, Attempt
<1>2. \A n \in Ids : Reaped(redis, redis', n)
  BY DEF Quiet, Reaped
<1>3. m \in Ids => RowFits(m)'
  <2> HAVE m \in Ids
  <2>1. Same(m)
    BY DEF Quiet, Same
  <2> QED
    BY <2>1, SameRowFits DEF IInv
<1>4. RedisType(redis') /\ redis'.active \subseteq redis.active /\ redis'.counted \subseteq redis.counted
  BY DEF Quiet
<1> QED
  BY <1>1, <1>2, <1>3, <1>4, RedisStep

\* The Redis part of the type invariant.
LEMMA RedisTyped ==
    ASSUME TypeOK
    PROVE  RedisType(redis)
BY DEF TypeOK, RedisType

\* Answer
LEMMA AnswerStep ==
    ASSUME IInv, NEW a \in Attempts, Answer(a)
    PROVE  IInv'
<1>1. /\ TypeOK /\ att[a] \in Attempt /\ AttemptFits(a) /\ att[a].stage = "flight"
      /\ UNCHANGED <<holder, open, late, usage, sent, aged>>
  BY DEF IInv, TypeOK, Answer
<1>2. PICK out \in {"succeeded", "discarded", "rate_limited", "outcome_unknown"} :
        /\ att' = [att EXCEPT ![a].stage = "settle", ![a].out = out]
        /\ redis' = redis \/ redis' = Failed(redis, att[a].route)
  BY DEF Answer
<1>3. Quiet(redis, redis')
  <2>1. att[a].route \in Routes
    BY <1>1 DEF Attempt
  <2>2. RedisType(redis)
    BY <1>1, RedisTyped
  <2>3. Quiet(redis, redis)
    BY <2>2 DEF Quiet
  <2> QED
    BY <1>2, <2>1, <2>2, <2>3, FailedEffect
<1> DEFINE x == [att[a] EXCEPT !.stage = "settle", !.out = out]
<1>4. /\ x \in Attempt /\ x.stage = "settle" /\ x.out = out /\ x.call = att[a].call
      /\ x.pend = att[a].pend /\ x.route = att[a].route
  BY <1>1 DEF Attempt, Stages, Verdicts
<1>5. att' = [att EXCEPT ![a] = x]
  BY <1>1, <1>2 DEF TypeOK
<1> HIDE DEF x
<1>6. att'[a] = x
  BY <1>1, <1>5 DEF TypeOK
<1>7. AttemptFits(a)'
  BY <1>1, <1>3, <1>4, <1>6
     DEF AttemptFits, HasRow, StageFits, PendingIsNew, HandsOn, PermitOutlives, InCall, Sending,
         Begun, Open, Quiet, Verdicts
<1> QED
  BY <1>1, <1>3, <1>4, <1>5, <1>7, QuietStep

\* Wait
LEMMA WaitStep ==
    ASSUME IInv, NEW a \in Attempts, Wait(a)
    PROVE  IInv'
<1>1. /\ TypeOK /\ att[a] \in Attempt /\ AttemptFits(a) /\ att[a].stage = "limited"
      /\ UNCHANGED <<holder, open, late, usage, sent, aged>>
  BY DEF IInv, TypeOK, Wait
<1>2. Quiet(redis, redis')
  <2>1. PICK B \in SUBSET redis.blocked : redis' = [redis EXCEPT !.blocked = B]
    BY DEF Wait
  <2> QED
    BY <1>1, <2>1, RedisTyped, BlockedEffect
<1> DEFINE x == [att[a] EXCEPT !.stage = "route", !.waited = TRUE]
<1>3. /\ x \in Attempt /\ x.stage = "route" /\ x.out = att[a].out /\ x.call = att[a].call
      /\ x.pend = att[a].pend /\ x.route = att[a].route
  BY <1>1 DEF Attempt, Stages
<1>4. att' = [att EXCEPT ![a] = x]
  BY <1>1 DEF TypeOK, Wait
<1> HIDE DEF x
<1>5. att'[a] = x
  BY <1>1, <1>4 DEF TypeOK
<1>6. AttemptFits(a)'
  BY <1>1, <1>3, <1>5
     DEF AttemptFits, HasRow, StageFits, PendingIsNew, HandsOn, PermitOutlives, InCall, Sending, Open
<1> QED
  BY <1>1, <1>2, <1>3, <1>4, <1>6, QuietStep

\* What settling a permit makes of it.
SettledRow(s, t, m) ==
    /\ t.permit[m] = "settled" /\ m \notin t.active
    /\ m \in t.counted => m \in s.counted
    /\ s.permit[m] # "acquired" /\ m \in s.counted => m \in t.counted

\* settle
LEMMA SettledEffect ==
    ASSUME NEW s, RedisType(s), NEW m \in Ids, NEW cooldown \in BOOLEAN, usage[m].route \in Routes,
           m \in s.active <=> s.permit[m] \in {"acquired", "started"},
           NEW t, t = Settled(s, m, cooldown)
    PROVE  /\ RedisType(t) /\ SettledRow(s, t, m)
           /\ \A n \in Ids \ {m} : Reaped(s, t, n)
           /\ t.active \subseteq s.active /\ t.counted \subseteq s.counted
<1> DEFINE k == KeyOf(m)
           v == Reap(s, k)
<1>1. /\ RedisType(v)
      /\ \A n \in Ids : Reaped(s, v, n)
      /\ v.active \subseteq s.active /\ v.counted \subseteq s.counted
  BY ReapEffect
<1>2. /\ v \in Redis /\ v.lapsed \subseteq v.active
      /\ \A q \in Routes : v.failures[q] = Threshold => q \in v.tripped
      /\ v.permit \in [Ids -> {"none", "acquired", "started", "settled", "expired"}]
      /\ v.active \in SUBSET Ids /\ v.lapsed \in SUBSET Ids /\ v.counted \in SUBSET Ids
      /\ v.blocked \in SUBSET {QuotaOf[r] : r \in Routes}
  BY <1>1, RedisFields DEF RedisType
<1>3. k \in {QuotaOf[r] : r \in Routes}
  BY DEF KeyOf
<1>4. t = IF v.permit[m] = "settled" THEN v
          ELSE [v EXCEPT !.permit[m] = "settled", !.active = @ \ {m}, !.lapsed = @ \ {m},
                         !.blocked = IF cooldown THEN @ \cup {k} ELSE @]
  BY DEF Settled
<1> HIDE DEF k, v
<1>5. CASE v.permit[m] = "settled"
  <2>1. t = v
    BY <1>4, <1>5
  <2>2. SettledRow(s, v, m)
    BY <1>1, <1>5 DEF SettledRow, Reaped
  <2> QED
    BY <1>1, <2>1, <2>2
<1>6. CASE v.permit[m] # "settled"
  <2> DEFINE P == [v.permit EXCEPT ![m] = "settled"]
             A == v.active \ {m}
             L == v.lapsed \ {m}
             B == IF cooldown THEN v.blocked \cup {k} ELSE v.blocked
  <2>1. t = [v EXCEPT !.permit = P, !.active = A, !.lapsed = L, !.blocked = B]
    BY <1>2, <1>4, <1>6 DEF Redis
  <2>2. /\ P \in [Ids -> {"none", "acquired", "started", "settled", "expired"}]
        /\ P[m] = "settled" /\ \A n \in Ids \ {m} : P[n] = v.permit[n]
    BY <1>2
  <2>3. A \in SUBSET Ids /\ L \in SUBSET Ids /\ L \subseteq A /\ A \subseteq v.active
    BY <1>2
  <2>4. B \in SUBSET {QuotaOf[r] : r \in Routes}
    BY <1>2, <1>3
  <2>5. \A n \in Ids \ {m} : (n \in A <=> n \in v.active) /\ (n \in L <=> n \in v.lapsed)
    OBVIOUS
  <2>6. m \notin A
    OBVIOUS
  <2> HIDE DEF P, A, L, B
  <2>7. /\ t \in Redis /\ t.permit = P /\ t.active = A /\ t.lapsed = L /\ t.counted = v.counted
        /\ t.failures = v.failures /\ t.tripped = v.tripped
    BY <1>2, <2>1, <2>2, <2>3, <2>4 DEF Redis
  <2>8. RedisType(t)
    BY <1>2, <2>3, <2>7 DEF RedisType
  <2>9. SettledRow(s, t, m)
    BY <1>1, <2>2, <2>6, <2>7 DEF SettledRow, Reaped
  <2>10. \A n \in Ids \ {m} : Reaped(s, t, n)
    BY <1>1, <2>2, <2>5, <2>7 DEF Reaped
  <2> QED
    BY <1>1, <2>3, <2>7, <2>8, <2>9, <2>10
<1> QED
  BY <1>5, <1>6

\* usage.settle: what becomes pending fits the row, and a confirmed success is pending.
LEMMA SettleOutcome ==
    ASSUME IInv, NEW a \in Attempts, att[a].stage = "settle", NEW m \in Ids, m = att[a].call,
           NEW u \in UsageSettled(a) \cup {[pend |-> att[a].pend, sure |-> FALSE]}
    PROVE  /\ u.pend \in {"none", "running"} \cup Verdicts /\ u.sure \in BOOLEAN
           /\ u.pend # "none" =>
                /\ \/ usage[m].status \in {"reserved", "running", "started"}
                   \/ usage[m].status = "outcome_unknown" /\ u.pend = "succeeded"
                /\ u.pend \in {"running", "aborted"} => m \notin sent
           /\ att[a].out = "succeeded" /\ u.sure => u.pend = "succeeded"
<1>1. /\ att[a].out \in Verdicts \cup {"discarded"}
      /\ \/ att[a].pend = "none" /\ usage[m].status \in {"started", "outcome_unknown"}
         \/ att[a].pend = "running" /\ usage[m].status = "reserved" /\ att[a].out = "aborted"
      /\ att[a].out = "aborted" => m \notin sent
  BY DEF IInv, AttemptFits, StageFits, Begun, Activated
<1>2. CASE u = [pend |-> VerdictOf(att[a].out), sure |-> TRUE] /\ RowNow(a) \in InFlight
  <2>1. u.pend = VerdictOf(att[a].out) /\ u.sure = TRUE
    BY <1>2
  <2>2. usage[m].status \in {"started", "reserved"}
    BY <1>1, <1>2 DEF RowNow, InFlight
  <2> QED
    BY <1>1, <2>1, <2>2 DEF VerdictOf, Verdicts
<1>3. CASE u = [pend |-> att[a].pend, sure |-> TRUE] /\ att[a].out # "succeeded"
  <2>1. u.pend = att[a].pend /\ u.sure = TRUE
    BY <1>3
  <2> QED
    BY <1>1, <1>3, <2>1
<1>4. CASE u = [pend |-> att[a].pend, sure |-> FALSE]
  <2>1. u.pend = att[a].pend /\ u.sure = FALSE
    BY <1>4
  <2> QED
    BY <1>1, <2>1
<1>5. CASE u = [pend |-> "succeeded", sure |-> TRUE] /\ RowNow(a) \notin InFlight
  <2>1. u.pend = "succeeded" /\ u.sure = TRUE
    BY <1>5
  <2>2. usage[m].status = "outcome_unknown"
    BY <1>1, <1>5 DEF RowNow, InFlight
  <2> QED
    BY <2>1, <2>2 DEF Verdicts
<1>6. \/ u = [pend |-> VerdictOf(att[a].out), sure |-> TRUE] /\ RowNow(a) \in InFlight
      \/ u = [pend |-> att[a].pend, sure |-> TRUE] /\ att[a].out # "succeeded"
      \/ u = [pend |-> att[a].pend, sure |-> FALSE]
      \/ u = [pend |-> "succeeded", sure |-> TRUE] /\ RowNow(a) \notin InFlight
  BY DEF UsageSettled
<1> QED
  BY <1>2, <1>3, <1>4, <1>5, <1>6

\* Settle
LEMMA SettleStep ==
    ASSUME IInv, NEW a \in Attempts, Settle(a)
    PROVE  IInv'
<1>1. /\ TypeOK /\ att[a] \in Attempt /\ AttemptFits(a) /\ att[a].stage = "settle"
      /\ UNCHANGED <<holder, open, late, usage, sent, aged>>
  BY DEF IInv, TypeOK, Settle
<1>2. PICK m \in Ids : m = att[a].call
  BY <1>1 DEF AttemptFits, HasRow, InCall, Attempt
<1>3. PICK u \in UsageSettled(a) \cup {[pend |-> att[a].pend, sure |-> FALSE]},
           down \in BOOLEAN, cooldown \in BOOLEAN :
        LET sure == u.sure /\ ~down
            s == IF down THEN redis ELSE Settled(redis, m, cooldown)
        IN  /\ redis' = IF att[a].out = "succeeded" /\ sure THEN Recovered(s, att[a].route) ELSE s
            /\ IF att[a].out = "rate_limited"
               THEN att' = [att EXCEPT ![a].stage = "limited", ![a].pend = u.pend]
               ELSE Return(a, Delivered(a, sure), u.pend)
  BY <1>2 DEF Settle, RedisFails
<1>4. /\ u.pend \in {"none", "running"} \cup Verdicts /\ u.sure \in BOOLEAN
      /\ u.pend # "none" =>
           /\ \/ usage[m].status \in {"reserved", "running", "started"}
              \/ usage[m].status = "outcome_unknown" /\ u.pend = "succeeded"
           /\ u.pend \in {"running", "aborted"} => m \notin sent
      /\ att[a].out = "succeeded" /\ u.sure => u.pend = "succeeded"
  BY <1>1, <1>2, SettleOutcome
<1>5. RowFits(m) /\ RedisType(redis) /\ m # 0 /\ att[a].route \in Routes
  BY <1>1, <1>2, RedisTyped, ConstantsAssumption DEF IInv, Attempt, Ids
<1>6. /\ usage[m].route = att[a].route /\ redis.permit[m] # "none" /\ Open(m)
      /\ att[a].out \in Verdicts \cup {"discarded"}
  BY <1>1, <1>2 DEF AttemptFits, HasRow, StageFits, InCall
<1> DEFINE s == IF down THEN redis ELSE Settled(redis, m, cooldown)
           sure == u.sure /\ ~down
<1>7. /\ RedisType(s) /\ s.active \subseteq redis.active /\ s.counted \subseteq redis.counted
      /\ \A n \in Ids \ {m} : Reaped(redis, s, n)
      /\ s = redis \/ SettledRow(redis, s, m)
      /\ ~down => SettledRow(redis, s, m)
  <2>1. CASE down
    BY <1>5, <2>1 DEF Reaped
  <2>2. CASE ~down
    <3>1. m \in redis.active <=> redis.permit[m] \in {"acquired", "started"}
      BY <1>5 DEF RowFits
    <3>2. s = Settled(redis, m, cooldown) /\ usage[m].route \in Routes
      BY <1>5, <1>6, <2>2
    <3> HIDE DEF s
    <3> QED
      BY <1>5, <2>2, <3>1, <3>2, SettledEffect
  <2> QED
    BY <2>1, <2>2
<1>8. redis' = s \/ redis' = Recovered(s, att[a].route)
  BY <1>3
<1>9. IF att[a].out = "rate_limited"
      THEN att' = [att EXCEPT ![a].stage = "limited", ![a].pend = u.pend]
      ELSE Return(a, Delivered(a, sure), u.pend)
  BY <1>3
<1> HIDE DEF s
<1>10. Quiet(s, redis')
  <2>1. Quiet(s, s)
    BY <1>7 DEF Quiet
  <2> QED
    BY <1>5, <1>7, <1>8, <2>1, RecoveredEffect
<1>11. /\ RedisType(redis') /\ redis'.active \subseteq redis.active /\ redis'.counted \subseteq redis.counted
       /\ \A n \in Ids \ {m} : Reaped(redis, redis', n)
  BY <1>7, <1>10 DEF Quiet, Reaped
<1>12. RowFits(m)'
  <2>1. CASE s = redis
    BY <1>1, <1>5, <1>10, <2>1 DEF RowFits, Quiet, Open
  <2>2. CASE SettledRow(redis, s, m)
    BY <1>1, <1>5, <1>6, <1>10, <2>2 DEF RowFits, Quiet, Open, SettledRow
  <2> QED
    BY <1>7, <2>1, <2>2
<1>13. ~down => m \notin redis'.active
  BY <1>7, <1>10 DEF Quiet, SettledRow
<1>14. AttemptFits(a)' /\ \E x \in Attempt : att' = [att EXCEPT ![a] = x] /\ x.call \in {0, m}
  <2>1. CASE att[a].out = "rate_limited"
    <3> DEFINE x == [att[a] EXCEPT !.stage = "limited", !.pend = u.pend]
    <3>1. /\ x \in Attempt /\ x.stage = "limited" /\ x.out = att[a].out /\ x.call = m
          /\ x.pend = u.pend
      BY <1>1, <1>2, <1>4 DEF Attempt, Stages
    <3>2. att' = [att EXCEPT ![a] = x]
      BY <1>1, <1>9, <2>1 DEF TypeOK
    <3> HIDE DEF x
    <3>3. att'[a] = x
      BY <1>1, <3>2 DEF TypeOK
    <3>4. AttemptFits(a)'
      BY <1>1, <1>4, <1>5, <1>6, <3>1, <3>3
         DEF AttemptFits, HasRow, StageFits, PendingIsNew, HandsOn, PermitOutlives, InCall, Sending, Open
    <3> QED
      BY <3>1, <3>2, <3>4
  <2>2. CASE att[a].out # "rate_limited"
    <3>1. PICK out \in {"none", "refused", "discarded"} \cup Verdicts : out = Delivered(a, sure)
      BY <1>6 DEF Delivered, Verdicts
    <3>2. Return(a, out, u.pend)
      BY <1>9, <2>2, <3>1
    <3>3. out = "succeeded" => u.pend = "succeeded" /\ att[a].call \notin redis'.active
      BY <1>2, <1>4, <1>13, <3>1 DEF Delivered
    <3>4. att \in [Attempts -> Attempt]
      BY <1>1 DEF TypeOK
    <3> HIDE DEF sure
    <3>5. u.pend # "none" =>
            /\ att[a].call # 0
            /\ \/ usage'[att[a].call].status \in {"reserved", "running", "started"}
               \/ usage'[att[a].call].status = "outcome_unknown" /\ u.pend = "succeeded"
            /\ u.pend \in {"running", "aborted"} => att[a].call \notin sent'
      BY <1>1, <1>2, <1>4, <1>5
    <3> QED
      BY <1>2, <1>4, <3>2, <3>3, <3>4, <3>5, Returned
  <2> QED
    BY <2>1, <2>2
<1>15. m \in Ids \cup {0}
  OBVIOUS
<1> QED
  BY <1>1, <1>2, <1>11, <1>12, <1>14, <1>15, RedisStep

\* Start: the permit is marked started, or the call is aborted.
LEMMA StartStep ==
    ASSUME IInv, NEW a \in Attempts, Start(a)
    PROVE  IInv'
<1>1. /\ TypeOK /\ att[a] \in Attempt /\ AttemptFits(a) /\ att[a].stage = "check"
      /\ UNCHANGED <<holder, open, late, usage, sent, aged>>
  BY DEF IInv, TypeOK, Start
<1>2. PICK m \in Ids : m = att[a].call
  BY <1>1 DEF AttemptFits, HasRow, InCall, Attempt
<1>3. RowFits(m) /\ RedisType(redis) /\ m # 0 /\ att[a].route \in Routes /\ att[a].route # NoRoute
  BY <1>1, <1>2, RedisTyped, ConstantsAssumption DEF IInv, Attempt, Ids
<1>4. /\ usage[m].route = att[a].route /\ redis.permit[m] # "none" /\ Open(m) /\ m \notin sent
      /\ att[a].pend = "running" /\ usage[m].status = "reserved"
  BY <1>1, <1>2 DEF AttemptFits, HasRow, StageFits, InCall, Activated
<1>5. PICK k : k = KeyOf(m)
  OBVIOUS
<1> DEFINE s == Reap(redis, k)
<1>6. /\ RedisType(s)
      /\ \A n \in Ids : Reaped(redis, s, n)
      /\ m \in OfKey(redis.lapsed, k) => s.permit[m] = "expired"
      /\ s.active \subseteq redis.active /\ s.counted \subseteq redis.counted
  BY ReapEffect, <1>3
<1>7. \/ Starts(s.permit[m]) /\ redis' = [s EXCEPT !.permit[m] = "started"] /\ Go(a, "begun")
      \/ redis' \in {redis, s} /\ Abort(a)
  BY <1>2, <1>5 DEF Start
<1>8. m \in redis.lapsed => s.permit[m] = "expired"
  BY <1>3, <1>4, <1>5, <1>6 DEF OfKey
<1> HIDE DEF s
<1>9. CASE Starts(s.permit[m]) /\ redis' = [s EXCEPT !.permit[m] = "started"] /\ Go(a, "begun")
  <2> DEFINE P == [s.permit EXCEPT ![m] = "started"]
             x == [att[a] EXCEPT !.stage = "begun"]
  <2>1. /\ s \in Redis /\ s.lapsed \subseteq s.active
        /\ \A q \in Routes : s.failures[q] = Threshold => q \in s.tripped
        /\ s.permit \in [Ids -> {"none", "acquired", "started", "settled", "expired"}]
    BY <1>6, RedisFields DEF RedisType
  <2>2. redis' = [s EXCEPT !.permit = P]
    BY <1>9, <2>1 DEF Redis
  <2>3. /\ P \in [Ids -> {"none", "acquired", "started", "settled", "expired"}]
        /\ P[m] = "started" /\ \A n \in Ids \ {m} : P[n] = s.permit[n]
    BY <2>1
  <2> HIDE DEF P
  <2>4. /\ redis' \in Redis /\ redis'.permit = P /\ redis'.active = s.active
        /\ redis'.lapsed = s.lapsed /\ redis'.counted = s.counted
        /\ redis'.failures = s.failures /\ redis'.tripped = s.tripped
    BY <2>1, <2>2, <2>3 DEF Redis
  <2>5. RedisType(redis')
    BY <2>1, <2>4 DEF RedisType
  <2>6. \A n \in Ids \ {m} : Reaped(redis, redis', n)
    BY <1>6, <2>3, <2>4 DEF Reaped
  <2>7. s.permit[m] = "acquired" /\ m \notin redis.lapsed
    BY <1>8, <1>9 DEF Starts
  <2>8. /\ redis.permit[m] = "acquired" /\ (m \in s.active <=> m \in redis.active)
        /\ (m \in s.lapsed <=> m \in redis.lapsed) /\ (m \in s.counted <=> m \in redis.counted)
    BY <1>6, <2>7 DEF Reaped
  <2>9. m \in s.active /\ m \notin s.lapsed /\ m \in s.counted \cup aged
    BY <1>3, <2>7, <2>8 DEF RowFits
  <2>10. RowFits(m)'
    BY <1>1, <1>3, <1>4, <2>3, <2>4, <2>9 DEF RowFits, Open
  <2>11. /\ x \in Attempt /\ x.stage = "begun" /\ x.out = att[a].out /\ x.call = m
         /\ x.pend = att[a].pend /\ x.route = att[a].route
    BY <1>1, <1>2 DEF Attempt, Stages
  <2>12. att' = [att EXCEPT ![a] = x]
    BY <1>1, <1>9 DEF TypeOK, Go
  <2> HIDE DEF x
  <2>13. att'[a] = x
    BY <1>1, <2>12 DEF TypeOK
  <2>14. AttemptFits(a)'
    BY <1>1, <1>3, <1>4, <2>3, <2>4, <2>9, <2>11, <2>13
       DEF AttemptFits, HasRow, StageFits, PendingIsNew, HandsOn, PermitOutlives, InCall, Sending,
           Open, Activated
  <2>15. /\ m \in Ids \cup {0} /\ x.call \in {0, m} /\ redis'.active \subseteq redis.active
         /\ redis'.counted \subseteq redis.counted
    BY <1>6, <2>4, <2>11
  <2> QED
    BY <1>1, <1>2, <2>5, <2>6, <2>10, <2>11, <2>12, <2>14, <2>15, RedisStep
<1>10. CASE redis' \in {redis, s} /\ Abort(a)
  <2> DEFINE x == [att[a] EXCEPT !.stage = "settle", !.out = "aborted"]
  <2>1. /\ x \in Attempt /\ x.stage = "settle" /\ x.pend = att[a].pend /\ x.call = m
        /\ x.route = att[a].route /\ x.out = "aborted"
    BY <1>1, <1>2 DEF Attempt, Stages, Verdicts
  <2>2. att' = [att EXCEPT ![a] = x]
    BY <1>1, <1>10 DEF TypeOK, Abort
  <2> HIDE DEF x
  <2>3. att'[a] = x
    BY <1>1, <2>2 DEF TypeOK
  <2>4. /\ RedisType(redis') /\ redis'.active \subseteq redis.active
        /\ redis'.counted \subseteq redis.counted /\ \A n \in Ids : Reaped(redis, redis', n)
    BY <1>3, <1>6, <1>10 DEF Reaped
  <2>5. RowFits(m)' /\ redis'.permit[m] # "none"
    <3>1. Reaped(redis, redis', m)
      BY <2>4
    <3>2. Same(m)
      BY <1>1, <3>1 DEF Reaped, Same
    <3> QED
      BY <1>1, <1>3, <1>4, <3>1, <3>2, SameRowFits DEF Reaped
  <2>6. AttemptFits(a)'
    BY <1>1, <1>3, <1>4, <2>1, <2>3, <2>5
       DEF AttemptFits, HasRow, StageFits, PendingIsNew, HandsOn, PermitOutlives, InCall, Sending,
           Activated, Open, Verdicts
  <2>7. m \in Ids \cup {0} /\ x.call \in {0, m}
    BY <2>1
  <2> QED
    BY <1>1, <1>2, <2>1, <2>2, <2>4, <2>5, <2>6, <2>7, RedisStep
<1> QED
  BY <1>7, <1>9, <1>10

\* acquire reaps or it does not.
LEMMA SeenEffect ==
    ASSUME NEW s, RedisType(s), NEW r, NEW t, t = Seen(s, r)
    PROVE  /\ RedisType(t) /\ \A n \in Ids : Reaped(s, t, n)
           /\ t.active \subseteq s.active /\ t.counted \subseteq s.counted
<1>1. \A n \in Ids : Reaped(s, s, n)
  BY DEF Reaped
<1> QED
  BY <1>1, ReapEffect DEF Seen

\* A permit granted below the limits of its rate limit key keeps them.
LEMMA LimitsGrow ==
    ASSUME NEW S \in SUBSET Ids, NEW m \in Ids, NEW k, NEW limit \in Nat,
           Cardinality(OfKey(S, k)) <= limit,
           KeyOf(m) = k => Cardinality(OfKey(S, k)) < limit
    PROVE  Cardinality(OfKey(S \cup {m}, k)) <= limit
<1>1. OfKey(S, k) \in SUBSET Ids
  BY DEF OfKey
<1>2. IsFiniteSet(OfKey(S, k)) /\ Cardinality(OfKey(S, k)) \in Nat
  BY <1>1, RowsFinite
<1>3. CASE KeyOf(m) = k /\ usage[m].route # NoRoute
  <2>1. OfKey(S \cup {m}, k) = OfKey(S, k) \cup {m}
    BY <1>3 DEF OfKey
  <2>2. Cardinality(OfKey(S, k) \cup {m}) <= Cardinality(OfKey(S, k)) + 1
    <3>1. Cardinality(OfKey(S, k) \cup {m}) \in {Cardinality(OfKey(S, k)), Cardinality(OfKey(S, k)) + 1}
      BY <1>2, FS_AddElement
    <3> QED
      BY <1>2, <3>1
  <2>3. Cardinality(OfKey(S, k) \cup {m}) \in Nat
    <3>1. OfKey(S, k) \cup {m} \in SUBSET Ids
      BY <1>1
    <3> QED
      BY <3>1, RowsFinite
  <2>4. Cardinality(OfKey(S, k)) < limit
    BY <1>3
  <2> QED
    BY <1>2, <2>1, <2>2, <2>3, <2>4
<1>4. CASE ~(KeyOf(m) = k /\ usage[m].route # NoRoute)
  <2>1. OfKey(S \cup {m}, k) = OfKey(S, k)
    BY <1>4 DEF OfKey
  <2> QED
    BY <2>1
<1> QED
  BY <1>3, <1>4

\* Acquire with a permit
LEMMA GrantStep ==
    ASSUME IInv, NEW a \in Attempts, NEW m \in Ids, m = att[a].call, att[a].stage = "permit",
           NEW s, s = Seen(redis, att[a].route), Grantable(s, att[a].route),
           redis' = Granted(s, m),
           att' = [att EXCEPT ![a].stage = "check", ![a].pend = "running"],
           UNCHANGED <<holder, open, late, usage, sent, aged>>
    PROVE  IInv'
<1>1. TypeOK /\ att[a] \in Attempt /\ AttemptFits(a) /\ RowFits(m) /\ RedisType(redis) /\ m # 0
  BY RedisTyped, ConstantsAssumption DEF IInv, TypeOK, Ids
<1>2. /\ usage[m].route = att[a].route /\ redis.permit[m] = "none" /\ Open(m) /\ m \notin sent
      /\ att[a].pend = "none" /\ usage[m].status = "reserved"
  BY <1>1 DEF AttemptFits, HasRow, StageFits, InCall
<1>3. /\ RedisType(s) /\ \A n \in Ids : Reaped(redis, s, n)
      /\ s.active \subseteq redis.active /\ s.counted \subseteq redis.counted
  BY <1>1, SeenEffect
<1> DEFINE P == [s.permit EXCEPT ![m] = "acquired"]
           A == s.active \cup {m}
           C == s.counted \cup {m}
           x == [att[a] EXCEPT !.stage = "check", !.pend = "running"]
<1>4. /\ s \in Redis /\ s.lapsed \subseteq s.active
      /\ \A q \in Routes : s.failures[q] = Threshold => q \in s.tripped
      /\ s.permit \in [Ids -> {"none", "acquired", "started", "settled", "expired"}]
      /\ s.active \in SUBSET Ids /\ s.counted \in SUBSET Ids
  BY <1>3, RedisFields DEF RedisType
<1>5. redis' = [s EXCEPT !.permit = P, !.active = A, !.counted = C]
  BY <1>4 DEF Granted, Redis
<1>6. /\ P \in [Ids -> {"none", "acquired", "started", "settled", "expired"}]
      /\ P[m] = "acquired" /\ \A n \in Ids \ {m} : P[n] = s.permit[n]
  BY <1>4
<1>7. /\ A \in SUBSET Ids /\ C \in SUBSET Ids /\ m \in A /\ m \in C /\ s.active \subseteq A
      /\ \A n \in Ids \ {m} : (n \in A <=> n \in s.active) /\ (n \in C <=> n \in s.counted)
  BY <1>4
<1> HIDE DEF P, A, C
<1>8. /\ redis' \in Redis /\ redis'.permit = P /\ redis'.active = A
      /\ redis'.lapsed = s.lapsed /\ redis'.counted = C
      /\ redis'.failures = s.failures /\ redis'.tripped = s.tripped
  BY <1>4, <1>5, <1>6, <1>7 DEF Redis
<1>9. RedisType(redis')
  BY <1>4, <1>7, <1>8 DEF RedisType
<1>10. RowFits(m)'
  BY <1>1, <1>2, <1>6, <1>7, <1>8 DEF RowFits, Open
<1>11. /\ x \in Attempt /\ x.stage = "check" /\ x.out = att[a].out /\ x.call = m
       /\ x.pend = "running" /\ x.route = att[a].route
  BY <1>1 DEF Attempt, Stages
<1>12. att' = [att EXCEPT ![a] = x]
  BY <1>1 DEF TypeOK
<1> HIDE DEF x
<1>13. /\ att' \in [Attempts -> Attempt] /\ att'[a] = x
       /\ \A b \in Attempts \ {a} : att'[b] = att[b]
  BY <1>1, <1>11, <1>12, Moved DEF TypeOK
<1>14. TypeOK'
  BY <1>1, <1>9, <1>13 DEF TypeOK, RedisType
<1>15. AttemptFits(a)'
  BY <1>1, <1>2, <1>6, <1>8, <1>11, <1>13
     DEF AttemptFits, HasRow, StageFits, PendingIsNew, HandsOn, PermitOutlives, InCall, Sending,
         Open, Activated
<1>16. KeysAreLimited'
  <2> SUFFICES ASSUME NEW r \in Routes
               PROVE  /\ Cardinality(OfKey(A, QuotaOf[r])) <= Concurrency
                      /\ Cardinality(OfKey(C, QuotaOf[r])) <= Rpm
    BY <1>8 DEF KeysAreLimited, OfKey, KeyOf
  <2>1. PICK k : k = QuotaOf[r]
    OBVIOUS
  <2>2. Concurrency \in Nat /\ Rpm \in Nat
    BY ConstantsAssumption
  <2>3. Cardinality(OfKey(redis.active, k)) <= Concurrency /\ Cardinality(OfKey(redis.counted, k)) <= Rpm
    BY <2>1 DEF IInv, KeysAreLimited
  <2>4. ASSUME NEW S \in SUBSET Ids, NEW T \in SUBSET S
        PROVE  /\ Cardinality(OfKey(T, k)) <= Cardinality(OfKey(S, k))
               /\ Cardinality(OfKey(T, k)) \in Nat /\ Cardinality(OfKey(S, k)) \in Nat
    <3>1. OfKey(S, k) \in SUBSET Ids /\ OfKey(T, k) \in SUBSET OfKey(S, k)
      BY <2>4 DEF OfKey
    <3> QED
      BY <3>1, RowsFinite, FS_Subset
  <2>5. redis.active \in SUBSET Ids /\ redis.counted \in SUBSET Ids
    BY <1>1 DEF TypeOK, Redis
  <2>6. /\ Cardinality(OfKey(s.active, k)) <= Cardinality(OfKey(redis.active, k))
        /\ Cardinality(OfKey(s.active, k)) \in Nat /\ Cardinality(OfKey(redis.active, k)) \in Nat
    BY <1>3, <2>4, <2>5
  <2>7. /\ Cardinality(OfKey(s.counted, k)) <= Cardinality(OfKey(redis.counted, k))
        /\ Cardinality(OfKey(s.counted, k)) \in Nat /\ Cardinality(OfKey(redis.counted, k)) \in Nat
    BY <1>3, <2>4, <2>5
  <2>8. Cardinality(OfKey(s.active, k)) <= Concurrency /\ Cardinality(OfKey(s.counted, k)) <= Rpm
    BY <2>2, <2>3, <2>6, <2>7
  <2>9. KeyOf(m) = k => /\ Cardinality(OfKey(s.active, k)) < Concurrency
                        /\ Cardinality(OfKey(s.counted, k)) < Rpm
    BY <1>2, <2>1 DEF Grantable, KeyOf
  <2>10. Cardinality(OfKey(s.active \cup {m}, k)) <= Concurrency
    BY <1>4, <2>2, <2>8, <2>9, LimitsGrow
  <2>11. Cardinality(OfKey(s.counted \cup {m}, k)) <= Rpm
    BY <1>4, <2>2, <2>8, <2>9, LimitsGrow
  <2> QED
    BY <2>1, <2>10, <2>11 DEF A, C
<1> DEFINE M == {m}
<1>17. /\ \A b \in Attempts \ {a} : att'[b] = att[b] /\ att[b].call \notin M \ {0}
       /\ att'[a].call \in M \cup {0, att[a].call} /\ \A n \in Ids \cap M : RowFits(n)'
  BY <1>10, <1>11, <1>13, OwnRow
<1>18. \A n \in Ids \ M : Same(n)
  <2> SUFFICES ASSUME NEW n \in Ids, n # m PROVE Same(n)
    OBVIOUS
  <2>1. Reaped(redis, s, n)
    BY <1>3
  <2> QED
    BY <1>6, <1>7, <1>8, <2>1 DEF Same, Reaped
<1> HIDE DEF M
<1> QED
  BY <1>14, <1>15, <1>16, <1>17, <1>18, Frame

\* Acquire without a permit: the reservation is deleted.
LEMMA DenyStep ==
    ASSUME IInv, NEW a \in Attempts, NEW m \in Ids, m = att[a].call, att[a].stage = "permit",
           redis' \in {redis, Seen(redis, att[a].route)},
           usage' = [usage EXCEPT ![m] = Absent], Return(a, "refused", "none"),
           UNCHANGED <<holder, open, late, sent, aged>>
    PROVE  IInv'
<1>1. TypeOK /\ AttemptFits(a) /\ RowFits(m) /\ RedisType(redis) /\ KeysAreLimited
  BY RedisTyped DEF IInv
<1>2. redis.permit[m] = "none" /\ m \notin sent
  BY <1>1 DEF AttemptFits, StageFits
<1>3. /\ RedisType(redis') /\ \A n \in Ids : Reaped(redis, redis', n)
      /\ redis'.active \subseteq redis.active /\ redis'.counted \subseteq redis.counted
  BY <1>1, SeenEffect DEF Reaped
<1>4. Absent \in Row /\ Absent.status = "absent"
  BY DEF Absent, Row
<1>5. usage' \in [Ids -> Row] /\ usage'[m] = Absent /\ \A n \in Ids \ {m} : usage'[n] = usage[n]
  BY <1>1, <1>4 DEF TypeOK
<1>6. m \notin redis.active /\ m \notin redis.counted /\ m \notin redis.lapsed
  BY <1>1, <1>2 DEF RowFits, TypeOK
<1>7. redis'.permit[m] = "none" /\ m \notin redis'.active /\ m \notin redis'.counted
  <2>1. Reaped(redis, redis', m)
    BY <1>3
  <2> QED
    BY <1>2, <1>6, <2>1 DEF Reaped
<1>8. RowFits(m)'
  BY <1>2, <1>4, <1>5, <1>7 DEF RowFits, Open
<1>9. att \in [Attempts -> Attempt]
  BY <1>1 DEF TypeOK
<1>10. PICK x \in Attempt : att' = [att EXCEPT ![a] = x] /\ x.call \in {0, att[a].call} /\ AttemptFits(a)'
  BY <1>9, Returned
<1>11. /\ att' \in [Attempts -> Attempt] /\ att'[a] = x
       /\ \A b \in Attempts \ {a} : att'[b] = att[b]
  BY <1>9, <1>10, Moved
<1>12. TypeOK'
  BY <1>1, <1>3, <1>5, <1>11 DEF TypeOK, RedisType
<1>13. redis.active \subseteq Ids /\ redis.counted \subseteq Ids
  BY <1>1 DEF TypeOK, Redis
<1>14. KeysAreLimited'
  BY <1>1, <1>3, <1>5, <1>7, <1>13, LimitsKept
<1> DEFINE M == {m}
<1>15. /\ \A b \in Attempts \ {a} : att'[b] = att[b] /\ att[b].call \notin M \ {0}
       /\ att'[a].call \in M \cup {0, att[a].call} /\ \A n \in Ids \cap M : RowFits(n)'
  BY <1>8, <1>10, <1>11, OwnRow
<1>16. \A n \in Ids \ M : Same(n)
  <2> SUFFICES ASSUME NEW n \in Ids, n # m PROVE Same(n)
    OBVIOUS
  <2>1. Reaped(redis, redis', n)
    BY <1>3
  <2> QED
    BY <1>5, <2>1 DEF Same, Reaped
<1> HIDE DEF M
<1> QED
  BY <1>10, <1>12, <1>14, <1>15, <1>16, Frame

\* Acquire
LEMMA AcquireStep ==
    ASSUME IInv, NEW a \in Attempts, Acquire(a)
    PROVE  IInv'
<1>1. att[a].stage = "permit" /\ UNCHANGED <<holder, open, late, sent, aged>>
  BY DEF Acquire
<1>2. PICK m \in Ids : m = att[a].call
  BY <1>1 DEF IInv, TypeOK, AttemptFits, HasRow, InCall, Attempt
<1>3. PICK s : s = Seen(redis, att[a].route)
  OBVIOUS
<1>4. \/ /\ Grantable(s, att[a].route) /\ redis' = Granted(s, m) /\ UNCHANGED usage
         /\ att' = [att EXCEPT ![a].stage = "check", ![a].pend = "running"]
      \/ /\ redis' \in {redis, Seen(redis, att[a].route)}
         /\ usage' = [usage EXCEPT ![m] = Absent] /\ Return(a, "refused", "none")
  BY <1>2, <1>3 DEF Acquire
<1> QED
  BY <1>1, <1>2, <1>3, <1>4, GrantStep, DenyStep

-----------------------------------------------------------------------------
(* The steps of everything else. *)

\* A step in which no attempt moves and every row stays as it is.
LEMMA Unmoved ==
    ASSUME IInv, TypeOK', att' = att, \A n \in Ids : Same(n), KeysAreLimited'
    PROVE  IInv'
<1>1. \A n \in Ids : RowFits(n)'
  BY SameRowFits DEF IInv
<1>2. \A b \in Attempts : AttemptFits(b)'
  <2> SUFFICES ASSUME NEW b \in Attempts PROVE AttemptFits(b)'
    OBVIOUS
  <2>1. att[b].call \in Ids \cup {0}
    BY DEF IInv, TypeOK, Attempt
  <2>2. att[b].call # 0 => RowFits(att[b].call) /\ Same(att[b].call)
    BY <2>1 DEF IInv
  <2> QED
    BY <2>2, OthersFit DEF IInv
<1>3. RowsAreOwned'
  BY DEF IInv, RowsAreOwned
<1> QED
  BY <1>1, <1>2, <1>3 DEF IInv

\* Cancel, DeadlinePasses, CooldownEnds and CircuitCools
LEMMA QuietEnvironment ==
    ASSUME IInv, Quiet(redis, redis'), UNCHANGED <<holder, usage, att, sent, aged>>,
           open' \in BOOLEAN, late' \in BOOLEAN
    PROVE  IInv'
<1>1. TypeOK /\ KeysAreLimited
  BY DEF IInv
<1>2. TypeOK'
  BY <1>1 DEF TypeOK, Quiet, RedisType
<1>3. \A n \in Ids : Same(n)
  BY DEF Same, Quiet
<1>4. KeysAreLimited'
  BY <1>1, LimitsKept DEF Quiet
<1> QED
  BY <1>2, <1>3, <1>4, Unmoved

\* MinutePasses: the call moves from the window to the past.
LEMMA MinuteStep ==
    ASSUME IInv, NEW m \in Ids, MinutePasses(m)
    PROVE  IInv'
<1> DEFINE C == redis.counted \ {m}
<1>1. TypeOK /\ KeysAreLimited /\ RedisType(redis) /\ UNCHANGED <<holder, open, late, usage, att, sent>>
  BY RedisTyped DEF IInv, MinutePasses
<1>2. redis' = [redis EXCEPT !.counted = C] /\ aged' = aged \cup {m}
  BY DEF MinutePasses
<1>3. redis \in Redis /\ C \in SUBSET Ids /\ C \subseteq redis.counted
  BY <1>1, RedisFields DEF RedisType
<1>4. \A n \in Ids : n \in redis.counted \cup aged => n \in C \cup aged'
  BY <1>2
<1> HIDE DEF C
<1>5. /\ redis' \in Redis /\ redis'.permit = redis.permit /\ redis'.active = redis.active
      /\ redis'.lapsed = redis.lapsed /\ redis'.counted = C
      /\ redis'.failures = redis.failures /\ redis'.tripped = redis.tripped
  BY <1>2, <1>3 DEF Redis
<1>6. TypeOK'
  BY <1>1, <1>2, <1>5 DEF TypeOK
<1>7. \A n \in Ids : Same(n)
  BY <1>1, <1>3, <1>4, <1>5 DEF Same
<1>8. KeysAreLimited'
  BY <1>1, <1>3, <1>5, LimitsKept
<1> QED
  BY <1>1, <1>6, <1>7, <1>8, Unmoved

\* PermitLapses: without "slow", never under an open HTTP call.
LEMMA LapseStep ==
    ASSUME IInv, NEW m \in Ids, PermitLapses(m)
    PROVE  IInv'
<1> DEFINE L == redis.lapsed \cup {m}
<1>1. /\ TypeOK /\ KeysAreLimited /\ RedisType(redis) /\ RowsAreOwned
      /\ UNCHANGED <<holder, open, late, usage, att, sent, aged>>
  BY RedisTyped DEF IInv, PermitLapses
<1>2. redis' = [redis EXCEPT !.lapsed = L] /\ m \in redis.active
  BY DEF PermitLapses
<1>3. redis \in Redis /\ L \in SUBSET Ids /\ L \subseteq redis.active
  BY <1>1, <1>2, RedisFields DEF RedisType
<1>4. \A n : n \in L <=> n \in redis.lapsed \/ n = m
  OBVIOUS
<1> HIDE DEF L
<1>5. /\ redis' \in Redis /\ redis'.permit = redis.permit /\ redis'.active = redis.active
      /\ redis'.lapsed = L /\ redis'.counted = redis.counted
      /\ redis'.failures = redis.failures /\ redis'.tripped = redis.tripped
  BY <1>2, <1>3 DEF Redis
<1>6. TypeOK'
  BY <1>1, <1>3, <1>5 DEF TypeOK
<1>7. \A n \in Ids : RowFits(n)'
  BY <1>1, <1>5 DEF IInv, RowFits, Open
<1>8. KeysAreLimited'
  BY <1>1, <1>5, LimitsKept
<1>9. RowsAreOwned'
  BY <1>1 DEF RowsAreOwned
<1>10. \A b \in Attempts : AttemptFits(b)'
  <2> SUFFICES ASSUME NEW b \in Attempts PROVE AttemptFits(b)'
    OBVIOUS
  <2>1. AttemptFits(b)
    BY DEF IInv
  <2>2. HasRow(b)' /\ StageFits(b)' /\ PendingIsNew(b)' /\ HandsOn(b)'
    BY <1>1, <1>5, <2>1 DEF AttemptFits, HasRow, StageFits, PendingIsNew, HandsOn, Open,
                             Activated, Begun
  <2>3. PermitOutlives(b)'
    <3> SUFFICES ASSUME "slow" \notin Faults, att[b].stage \in Sending
                 PROVE  att[b].call \in redis.active \ L
      BY <1>1, <1>5 DEF PermitOutlives
    <3>1. att[b].call \in redis.active \ redis.lapsed
      BY <2>1 DEF AttemptFits, PermitOutlives
    <3>2. att[b].call # m
      BY DEF PermitLapses, Sending
    <3> QED
      BY <1>4, <3>1, <3>2
  <2> QED
    BY <2>2, <2>3 DEF AttemptFits
<1> QED
  BY <1>6, <1>7, <1>8, <1>9, <1>10 DEF IInv

\* Reconcile closes a row whose owner, if it has one, has nothing pending on it.
LEMMA ReconcileStep ==
    ASSUME IInv, NEW m \in Ids, Reconcile(m)
    PROVE  IInv'
<1> DEFINE u == [usage[m] EXCEPT !.status = "outcome_unknown"]
<1>1. /\ TypeOK /\ KeysAreLimited /\ RowsAreOwned /\ usage[m] \in Row
      /\ UNCHANGED <<holder, open, late, redis, att, sent, aged>>
      /\ usage[m].status \in {"running", "started"}
  BY DEF IInv, TypeOK, Reconcile, Expirable, InFlight
<1>2. u \in Row /\ u.status = "outcome_unknown" /\ u.route = usage[m].route
  BY <1>1 DEF Row, Verdicts
<1>3. usage' = [usage EXCEPT ![m] = u]
  BY <1>1 DEF Reconcile, TypeOK
<1> HIDE DEF u
<1>4. usage' \in [Ids -> Row] /\ usage'[m] = u /\ \A n \in Ids \ {m} : usage'[n] = usage[n]
  BY <1>1, <1>2, <1>3 DEF TypeOK
<1>5. TypeOK'
  BY <1>1, <1>4 DEF TypeOK
<1>6. \A n \in Ids : RowFits(n)'
  BY <1>1, <1>2, <1>4 DEF IInv, RowFits, Open, Verdicts
<1>7. RowsAreOwned'
  BY <1>1 DEF RowsAreOwned
<1>8. KeysAreLimited'
  <2>1. redis.active \subseteq Ids /\ redis.counted \subseteq Ids
    BY <1>1 DEF TypeOK, Redis
  <2> QED
    BY <1>1, <1>2, <1>4, <2>1, LimitsKept
<1>9. \A b \in Attempts : AttemptFits(b)'
  <2> SUFFICES ASSUME NEW b \in Attempts PROVE AttemptFits(b)'
    OBVIOUS
  <2>1. AttemptFits(b) /\ att[b].call \in Ids \cup {0}
    BY <1>1 DEF IInv, TypeOK, Attempt
  <2>2. CASE att[b].call = m
    <3>1. att[b].pend = "none"
      BY <2>2 DEF Reconcile
    <3> QED
      BY <1>1, <1>2, <1>4, <2>1, <2>2, <3>1
         DEF AttemptFits, HasRow, StageFits, PendingIsNew, HandsOn, PermitOutlives, Open,
             Activated, Begun
  <2>3. CASE att[b].call # m
    <3>1. att[b].call # 0 => RowFits(att[b].call) /\ Same(att[b].call)
      BY <1>1, <1>4, <2>1, <2>3 DEF IInv, Same
    <3> QED
      BY <1>1, <2>1, <3>1, OthersFit
  <2> QED
    BY <2>2, <2>3
<1> QED
  BY <1>5, <1>6, <1>7, <1>8, <1>9 DEF IInv

-----------------------------------------------------------------------------
(* The theorems. *)

\* The invariant holds at the start.
LEMMA Initially ==
    ASSUME Init
    PROVE  IInv
<1> DEFINE w == [Fresh EXCEPT !.stage = "waiting"]
<1>1. /\ Fresh \in Attempt /\ Fresh.call = 0 /\ Fresh.pend = "none" /\ Fresh.stage = "idle"
      /\ Fresh.out = "none"
  BY ConstantsAssumption DEF Fresh, Attempt, Stages
<1>2. w \in Attempt /\ w.call = 0 /\ w.pend = "none" /\ w.stage = "waiting" /\ w.out = "none"
  BY ConstantsAssumption DEF Fresh, Attempt, Stages
<1>3. att \in [Attempts -> {Fresh, w}]
  BY DEF Init
<1> HIDE DEF w
<1>4. att \in [Attempts -> Attempt]
  BY <1>1, <1>2, <1>3
<1>5. \A a \in Attempts : /\ att[a].call = 0 /\ att[a].pend = "none" /\ att[a].out = "none"
                          /\ att[a].stage \in {"idle", "waiting"}
  BY <1>1, <1>2, <1>3
<1>6. Absent \in Row /\ Absent.status = "absent"
  BY DEF Absent, Row
<1>7. /\ usage = [n \in Ids |-> Absent] /\ usage \in [Ids -> Row]
      /\ \A n \in Ids : usage[n].status = "absent"
  BY <1>6 DEF Init
<1>8. Threshold \in Nat /\ Threshold # 0
  BY ConstantsAssumption
<1> DEFINE P == [n \in Ids |-> "none"]
           F == [r \in Routes |-> 0]
<1>9. /\ redis = [permit |-> P, active |-> {}, lapsed |-> {}, counted |-> {}, blocked |-> {},
                  failures |-> F, tripped |-> {}]
      /\ sent = {} /\ aged = {}
  BY DEF Init
<1>10. /\ P \in [Ids -> {"none", "acquired", "started", "settled", "expired"}]
       /\ \A n \in Ids : P[n] = "none"
  OBVIOUS
<1>11. F \in [Routes -> 0..Threshold] /\ \A r \in Routes : F[r] # Threshold
  BY <1>8
<1> HIDE DEF P, F
<1>12. /\ redis \in Redis /\ redis.permit = P /\ redis.active = {} /\ redis.lapsed = {}
       /\ redis.counted = {} /\ redis.failures = F
  BY <1>9, <1>10, <1>11 DEF Redis
<1>13. holder \in Attempts /\ open \in BOOLEAN /\ late \in BOOLEAN
  BY ConstantsAssumption DEF Init
<1>14. TypeOK
  BY <1>4, <1>7, <1>9, <1>11, <1>12, <1>13 DEF TypeOK
<1>15. \A a \in Attempts : AttemptFits(a)
  BY <1>5 DEF AttemptFits, HasRow, StageFits, PendingIsNew, HandsOn, PermitOutlives, InCall, Sending
<1>16. \A n \in Ids : RowFits(n)
  BY <1>7, <1>9, <1>10, <1>12 DEF RowFits, Open
<1>17. RowsAreOwned
  BY <1>5 DEF RowsAreOwned
<1>18. KeysAreLimited
  <2> SUFFICES ASSUME NEW r \in Routes
               PROVE  /\ Cardinality(OfKey(redis.active, QuotaOf[r])) <= Concurrency
                      /\ Cardinality(OfKey(redis.counted, QuotaOf[r])) <= Rpm
    BY DEF KeysAreLimited
  <2>1. OfKey(redis.active, QuotaOf[r]) = {} /\ OfKey(redis.counted, QuotaOf[r]) = {}
    BY <1>12 DEF OfKey
  <2>2. Cardinality({}) = 0
    BY FS_EmptySet
  <2> QED
    BY <2>1, <2>2, ConstantsAssumption
<1> QED
  BY <1>14, <1>15, <1>16, <1>17, <1>18 DEF IInv

\* Every step keeps the invariant.
LEMMA StepKeeps ==
    ASSUME IInv, [Next]_vars
    PROVE  IInv'
<1>1. CASE UNCHANGED vars
  <2>1. Quiet(redis, redis') /\ UNCHANGED <<holder, usage, att, sent, aged>>
    BY <1>1, RedisTyped DEF IInv, vars, Quiet
  <2>2. open' \in BOOLEAN /\ late' \in BOOLEAN
    BY <1>1 DEF IInv, TypeOK, vars
  <2> QED
    BY <2>1, <2>2, QuietEnvironment
<1>2. ASSUME NEW a \in Attempts, Begin(a) \/ Step(a) \/ Crash(a) \/ Takeover(a)
      PROVE  IInv'
  BY <1>2, BeginStep, ReserveStep, RefuseStep, AcquireStep, StartStep, RecordStep, SendStep,
     AnswerStep, SettleStep, WaitStep, FallbackStep, GiveUpStep, BoundaryStep, CrashStep, TakeoverStep
     DEF Step
<1>3. CASE Cancel \/ DeadlinePasses
  <2>1. Quiet(redis, redis') /\ UNCHANGED <<holder, usage, att, sent, aged>>
    BY <1>3, RedisTyped DEF IInv, Cancel, DeadlinePasses, Quiet
  <2>2. open' \in BOOLEAN /\ late' \in BOOLEAN
    BY <1>3 DEF IInv, TypeOK, Cancel, DeadlinePasses
  <2> QED
    BY <2>1, <2>2, QuietEnvironment
<1>4. ASSUME NEW n \in Ids, Reconcile(n) \/ PermitLapses(n) \/ MinutePasses(n)
      PROVE  IInv'
  BY <1>4, ReconcileStep, LapseStep, MinuteStep
<1>5. ASSUME NEW r \in Routes, CooldownEnds(r) \/ CircuitCools(r)
      PROVE  IInv'
  <2>1. UNCHANGED <<holder, open, late, usage, att, sent, aged>> /\ RedisType(redis)
    BY <1>5, RedisTyped DEF CooldownEnds, CircuitCools, IInv
  <2>2. Quiet(redis, redis')
    <3>1. CASE CooldownEnds(r)
      <4>1. PICK B : B = redis.blocked \ {QuotaOf[r]}
        OBVIOUS
      <4> QED
        BY <2>1, <3>1, <4>1, BlockedEffect DEF CooldownEnds
    <3>2. CASE CircuitCools(r)
      BY <2>1, <3>2, RecoveredEffect DEF CircuitCools
    <3> QED
      BY <1>5, <3>1, <3>2
  <2>3. open' \in BOOLEAN /\ late' \in BOOLEAN
    BY <2>1 DEF IInv, TypeOK
  <2> QED
    BY <2>1, <2>2, <2>3, QuietEnvironment
<1> QED
  BY <1>1, <1>2, <1>3, <1>4, <1>5 DEF Next

\* The inductive invariant holds in every reachable state.
THEOREM Invariance == Spec => []IInv
<1>1. Init => IInv
  BY Initially
<1>2. IInv /\ [Next]_vars => IInv'
  BY StepKeeps
<1> QED
  BY <1>1, <1>2, PTL DEF Spec

\* The usage ledger tells what was sent and what was handed on, whoever crashes, is
\* overtaken or comes late (mark_started, _settle_activated_attempt, usage.settle).
THEOREM RecordSound == Spec => []RecordIsSound
<1>1. IInv => RecordIsSound
  <2> SUFFICES ASSUME IInv PROVE RecordIsSound
    OBVIOUS
  <2>1. TypeOK /\ sent \subseteq Ids
    BY DEF IInv, TypeOK
  <2>2. SentIsOnRecord
    BY <2>1 DEF IInv, RowFits, SentIsOnRecord
  <2>3. DeliveredIsRecorded
    BY DEF IInv, AttemptFits, HandsOn, DeliveredIsRecorded
  <2> QED
    BY <2>1, <2>2, <2>3 DEF RecordIsSound
<1> QED
  BY <1>1, Invariance, PTL

\* The limits of every rate limit key hold, when no HTTP call outlives the TTL of its permit
\* (permit script: acquire, mark_started, settle, reap_expired_permits).
THEOREM LimitsHold ==
    ASSUME "slow" \notin Faults
    PROVE  Spec => []WithinLimits
<1>1. IInv => WithinLimits
  <2> SUFFICES ASSUME IInv PROVE WithinLimits
    OBVIOUS
  <2>1. TypeOK /\ redis.active \in SUBSET Ids /\ redis.counted \in SUBSET Ids
    BY DEF IInv, TypeOK, Redis
  <2>2. Concurrency \in Nat /\ Rpm \in Nat
    BY ConstantsAssumption
  <2>3. ASSUME NEW r \in Routes
        PROVE  Cardinality({a \in Attempts : /\ att[a].stage = "flight"
                                             /\ QuotaOf[att[a].route] = QuotaOf[r]}) <= Concurrency
    <3> DEFINE S == {a \in Attempts : att[a].stage = "flight" /\ QuotaOf[att[a].route] = QuotaOf[r]}
               T == OfKey(redis.active, QuotaOf[r])
               f == [a \in S |-> att[a].call]
    <3>1. \A a \in S : att[a].call \in T /\ att[a].call # 0
      <4> SUFFICES ASSUME NEW a \in S PROVE att[a].call \in T /\ att[a].call # 0
        OBVIOUS
      <4>1. AttemptFits(a) /\ att[a].stage = "flight" /\ att[a].route \in Routes
        BY <2>1 DEF IInv, TypeOK, Attempt
      <4>2. att[a].call \in redis.active /\ att[a].call # 0 /\ usage[att[a].call].route = att[a].route
        BY <4>1 DEF AttemptFits, PermitOutlives, HasRow, InCall, Sending
      <4> QED
        BY <4>1, <4>2, ConstantsAssumption DEF OfKey, KeyOf
    <3>2. \A a, b \in S : att[a].call = att[b].call => a = b
      BY <3>1 DEF IInv, RowsAreOwned
    <3>3. T \in SUBSET Ids
      BY <2>1 DEF OfKey
    <3>4. Cardinality(T) <= Concurrency
      BY DEF IInv, KeysAreLimited
    <3> HIDE DEF S, T
    <3>5. f \in Injection(S, T)
      BY <3>1, <3>2 DEF Injection, IsInjective
    <3>6. IsFiniteSet(S) /\ Cardinality(S) <= Cardinality(T)
      BY <3>3, <3>5, RowsFinite, FS_Injection
    <3>7. Cardinality(S) \in Nat /\ Cardinality(T) \in Nat
      BY <3>3, <3>6, RowsFinite, FS_CardinalityType
    <3> QED
      BY <2>2, <3>4, <3>6, <3>7 DEF S
  <2>4. ASSUME NEW r \in Routes
        PROVE  Cardinality(OfKey(sent \ aged, QuotaOf[r])) <= Rpm
    <3> DEFINE S == OfKey(sent \ aged, QuotaOf[r])
               T == OfKey(redis.counted, QuotaOf[r])
    <3>1. sent \subseteq Ids
      BY <2>1 DEF TypeOK
    <3>2. sent \ aged \subseteq redis.counted
      BY <3>1 DEF IInv, RowFits
    <3>3. S \in SUBSET T /\ T \in SUBSET Ids
      BY <2>1, <3>2 DEF OfKey
    <3>4. Cardinality(T) <= Rpm
      BY DEF IInv, KeysAreLimited
    <3> HIDE DEF S, T
    <3>5. Cardinality(S) <= Cardinality(T) /\ Cardinality(S) \in Nat /\ Cardinality(T) \in Nat
      BY <3>3, RowsFinite, FS_Subset
    <3> QED
      BY <2>2, <3>4, <3>5 DEF S
  <2> QED
    BY <2>3, <2>4 DEF WithinLimits, InFlightBounded, SendsAreMetered
<1> QED
  BY <1>1, Invariance, PTL

\* A verdict on record is not rewritten, by whichever of the worker, a late worker or the
\* reconciler comes second (usage.settle, mark_expired_running_unknown).
THEOREM VerdictsStand == Spec => VerdictIsFinal
<1> DEFINE Final(n) ==
        usage[n].status \in Verdicts =>
            \/ usage'[n] = usage[n]
            \/ usage[n].status = "outcome_unknown" /\ usage'[n].status = "succeeded"
<1>1. IInv /\ [Next]_vars => [\A n \in Ids : Final(n)]_vars
  <2> SUFFICES ASSUME IInv, Next, NEW n \in Ids, usage[n].status \in Verdicts
               PROVE  \/ usage'[n] = usage[n]
                      \/ usage[n].status = "outcome_unknown" /\ usage'[n].status = "succeeded"
    OBVIOUS
  <2>1. usage \in [Ids -> Row] /\ usage[n].status \notin {"absent", "reserved", "running", "started"}
    BY DEF IInv, TypeOK, Verdicts
  <2>2. ASSUME NEW a \in Attempts
        PROVE  \/ Committed(a)[n] = usage[n]
               \/ usage[n].status = "outcome_unknown" /\ Committed(a)[n].status = "succeeded"
    <3>1. CASE att[a].pend # "none" /\ att[a].call = n
      <4>1. usage[n].status = "outcome_unknown" /\ att[a].pend = "succeeded"
        BY <2>1, <3>1 DEF IInv, AttemptFits, PendingIsNew
      <4>2. Committed(a)[n] = [usage[n] EXCEPT !.status = "succeeded"]
        BY <2>1, <3>1, <4>1 DEF Committed
      <4>3. usage[n] \in Row
        BY <2>1
      <4> QED
        BY <4>1, <4>2, <4>3 DEF Row
    <3>2. CASE ~(att[a].pend # "none" /\ att[a].call = n)
      BY <2>1, <3>2, CommitEffect
    <3> QED
      BY <3>1, <3>2
  <2>3. ASSUME NEW a \in Attempts, Reserve(a)
        PROVE  \/ usage'[n] = usage[n]
               \/ usage[n].status = "outcome_unknown" /\ usage'[n].status = "succeeded"
    <3>1. PICK m \in Ids : ~Open(m) /\ usage' = [Committed(a) EXCEPT ![m] =
                                           [status |-> "reserved", route |-> att[a].route]]
      BY <2>3 DEF Reserve
    <3>2. m # n
      BY <2>1, <3>1 DEF Open
    <3>3. Committed(a) \in [Ids -> Row]
      BY CommitEffect
    <3>4. usage'[n] = Committed(a)[n]
      BY <3>1, <3>2, <3>3
    <3> QED
      BY <2>2, <3>4
  <2>4. ASSUME NEW a \in Attempts, Acquire(a) \/ Record(a)
        PROVE  usage'[n] = usage[n]
    <3>1. att[a].stage \in {"permit", "begun"}
      BY <2>4 DEF Acquire, Record
    <3>2. usage[att[a].call].status = "reserved"
      BY <3>1 DEF IInv, AttemptFits, StageFits, Activated
    <3>3. att[a].call # n
      BY <2>1, <3>2
    <3> QED
      BY <2>1, <2>4, <3>3 DEF Acquire, Record
  <2>5. ASSUME NEW a \in Attempts, Boundary(a)
        PROVE  \/ usage'[n] = usage[n]
               \/ usage[n].status = "outcome_unknown" /\ usage'[n].status = "succeeded"
    BY <2>2, <2>5 DEF Boundary
  <2>6. ASSUME NEW m \in Ids, Reconcile(m)
        PROVE  usage'[n] = usage[n]
    <3>1. m # n
      BY <2>1, <2>6 DEF Reconcile, Expirable, InFlight
    <3> QED
      BY <2>1, <2>6, <3>1 DEF Reconcile
  <2> QED
    BY <2>3, <2>4, <2>5, <2>6
       DEF Next, Step, Begin, Refuse, Start, Send, Answer, Settle, Wait, Fallback, GiveUp, Crash,
           Takeover, Cancel, DeadlinePasses, PermitLapses, MinutePasses, CooldownEnds, CircuitCools
<1> QED
  BY <1>1, Invariance, PTL DEF Spec, VerdictIsFinal

=============================================================================
