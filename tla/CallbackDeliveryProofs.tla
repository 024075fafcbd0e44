----------------------- MODULE CallbackDeliveryProofs -----------------------
(***************************************************************************)
(* Theorems about CallbackDelivery, for every set of dispatchers, every    *)
(* length of the feed and number of attempts, and every choice of faults   *)
(* unless a theorem excludes one.                                          *)
(*                                                                         *)
(* The argument: a row that a dispatcher has claimed stays pending and is  *)
(* nobody else's until the batch commits (DispatcherFits).  The reference  *)
(* and what the launcher has read from the Runtime both say what some      *)
(* callback said (Tells, RefFits), and the one status that the launcher    *)
(* writes without a condition meets the row it was read from, because the  *)
(* lock was taken before (LauncherFits).                                   *)
(***************************************************************************)
EXTENDS CallbackDelivery, TLAPS, SequenceTheorems

-----------------------------------------------------------------------------
(* The inductive invariant. *)

Privacies == {"active", "purge_requested", "purged"}
Callback == [type : Callbacks, sv : Nat]
Summary == [status : Run!RowStatuses, sv : Nat, seq : Nat, privacy : Privacies]
OutboxRow == [status : {"pending", "delivered", "dead_letter"}, tries : 0..MaxAttempts]
Batch(n) == [todo : SUBSET (1..n), sent : SUBSET (1..n), failed : SUBSET (1..n),
             privacy : {"unread"} \cup Privacies]
Archive == [active : BOOLEAN, published : BOOLEAN, content : {"baseline"} \cup Run!RowStatuses]
Boss == [pc : {"idle", "call", "bind", "compensate", "reconcile", "scanned", "read", "commit"},
         path : {"none", "deliver", "compensate"}, snap : Ref, loaded : BOOLEAN, view : Ref,
         mine : Ref, start : {"pending", "delivered"}, held : SUBSET {"archive", "ref"},
         remote : Summary]

\* The types of all variables, TypeOK among them.
Types ==
    /\ row \in Summary /\ feed \in Seq(Callback) /\ row.seq = Len(feed) /\ started \in BOOLEAN
    /\ outbox \in Seq(OutboxRow) /\ Len(outbox) = Len(feed) /\ replays \in 0..MaxReplays
    /\ disp \in [Dispatchers -> Batch(Len(feed))]
    /\ inflight \subseteq 1..Len(feed) /\ seen \subseteq 1..Len(feed)
    /\ ref \in Ref /\ archive \in Archive /\ launch \in {"pending", "delivered"} /\ boss \in Boss

\* A summary of the run says what its last callback said, or that it was requeued since.
Tells(x) ==
    x.seq > 0 =>
        LET e == feed[x.seq] IN
        \/ x.status = Run!StatusOf(e.type) /\ x.sv = e.sv
        \/ x.status = "pending" /\ x.sv > e.sv

\* The reads that see the latest commit, and no compensation of the start.
Careful == "overdue" \notin Faults /\ ~SnapshotReads

\* The reference: nothing is received before the start is known to be over.
RefFits ==
    /\ ref.seq <= Len(feed)
    /\ ref.status = "pending_start" => ref.seq = 0
    /\ Careful => Tells(ref)
    /\ PublicationIsShown

\* The launcher's session: the status it has changed is still the one in the database.
LauncherFits ==
    /\ boss.remote.seq <= Len(feed) /\ Tells(boss.remote)
    /\ boss.mine.status # boss.view.status =>
         /\ boss.view.status = "pending_start" /\ boss.mine.status = "pending"
         /\ Careful => ref.status = "pending_start" /\ boss.held # {}
    /\ Careful /\ boss.pc \in {"call", "bind"} => ~boss.loaded
    /\ ~boss.loaded => boss.mine = boss.view

Claimed(d) == disp[d].sent \cup disp[d].failed

\* The outbox and the open batches.
DispatcherFits ==
    /\ \A e \in 1..Len(outbox) : outbox[e].status = "pending" => outbox[e].tries < MaxAttempts
    /\ \A d \in Dispatchers : \A e \in Claimed(d) : outbox[e].status = "pending"
    /\ \A d, c \in Dispatchers : d # c => Claimed(d) \cap Claimed(c) = {}
    /\ "expire" \notin Faults => DeliveredWasAccepted /\ \A d \in Dispatchers : disp[d].sent \subseteq seen

IInv == Types /\ Tells(row) /\ RefFits /\ LauncherFits /\ DispatcherFits

-----------------------------------------------------------------------------
(* The run. *)

\* One more callback leaves the others in place.
LEMMA Extend ==
    ASSUME NEW T, NEW s \in Seq(T), NEW x \in T
    PROVE  /\ s \o <<x>> \in Seq(T) /\ Len(s \o <<x>>) = Len(s) + 1 /\ Len(s) \in Nat
           /\ \A i \in 1..Len(s) : (s \o <<x>>)[i] = s[i]
           /\ (s \o <<x>>)[Len(s) + 1] = x
<1>1. <<x>> \in Seq(T) /\ Len(<<x>>) = 1 /\ <<x>>[1] = x
  OBVIOUS
<1>2. Len(s) \in Nat
  BY LenProperties
<1>3. s \o <<x>> \in Seq(T) /\ Len(s \o <<x>>) = Len(s) + 1
  BY <1>1, ConcatProperties
<1>4. \A i \in 1..Len(s) : (s \o <<x>>)[i] = s[i]
  BY <1>1, <1>2, ConcatProperties
<1>5. (s \o <<x>>)[Len(s) + 1] = x
  BY <1>1, <1>2
<1> QED
  BY <1>2, <1>3, <1>4, <1>5

\* What StatusOf returns is a status of the run.
LEMMA StatusType ==
    ASSUME NEW t \in Callbacks
    PROVE  Run!StatusOf(t) \in Run!RowStatuses /\ Run!StatusOf(t) # "pending_start"
BY DeliveryAssumption DEF Run!StatusOf, Run!RowStatuses, Run!Outcomes

\* Longer feeds only make room for more.
LEMMA BatchGrows ==
    ASSUME NEW n \in Nat
    PROVE  Batch(n) \subseteq Batch(n + 1) /\ 1..n \subseteq 1..(n + 1)
<1>1. 1..n \subseteq 1..(n + 1)
  OBVIOUS
<1> HIDE DEF Privacies
<1> QED
  BY <1>1 DEF Batch

\* A callback is numbered, put into the outbox and carries the version of its commit.
LEMMA RunAnnouncesStep ==
    ASSUME IInv, NEW t \in Callbacks, RunAnnounces(t)
    PROVE  IInv'
<1>1. Types /\ UNCHANGED <<started, replays, disp, inflight, seen, ref, archive, launch, boss>>
  BY DEF IInv, RunAnnounces, RunCommits, receiverVars, launcherVars
<1>2. row \in Summary /\ feed \in Seq(Callback) /\ row.seq = Len(feed) /\ Len(feed) \in Nat
  BY <1>1, LenProperties DEF Types
<1>3. PICK st \in Run!RowStatuses : st = Run!StatusOf(t)
  BY StatusType
<1>4. PICK v \in Nat : v = IF st = row.status THEN row.sv ELSE row.sv + 1
  BY <1>2 DEF Summary
<1> DEFINE c == [type |-> t, sv |-> v]
           o == [status |-> "pending", tries |-> 0]
<1>5. c \in Callback /\ c.type = t /\ c.sv = v
  BY DEF Callback
<1>6. o \in OutboxRow /\ o.status = "pending" /\ o.tries = 0
  BY DeliveryAssumption DEF OutboxRow
<1>7. RunCommits(st, <<c>>)
  BY <1>3, <1>4 DEF RunAnnounces
<1> HIDE DEF c
<1>8. feed' = feed \o <<c>> /\ Len(<<c>>) = 1
  BY <1>7 DEF RunCommits
<1>9. outbox' = outbox \o <<o>>
  <2>1. outbox' = outbox \o [i \in 1..1 |-> o]
    BY <1>7, <1>8 DEF RunCommits
  <2>2. [i \in 1..1 |-> o] = <<o>>
    OBVIOUS
  <2> QED
    BY <2>1, <2>2
<1>10. /\ row' \in Summary /\ row'.status = st /\ row'.seq = row.seq + 1 /\ row'.sv = v
       /\ row'.privacy = row.privacy
  <2>1. PICK n \in Nat : n = row.seq + Len(<<c>>) /\ n = row.seq + 1
    BY <1>2, <1>8
  <2>2. row' = [row EXCEPT !.status = st, !.seq = n, !.sv = v]
    BY <1>4, <1>7, <2>1 DEF RunCommits
  <2> QED
    BY <1>2, <2>1, <2>2 DEF Summary
<1> HIDE DEF o
<1>11. /\ feed' \in Seq(Callback) /\ Len(feed') = Len(feed) + 1
       /\ \A i \in 1..Len(feed) : feed'[i] = feed[i]
       /\ feed'[Len(feed) + 1] = c
  BY <1>2, <1>5, <1>8, Extend
<1>12. /\ outbox' \in Seq(OutboxRow) /\ Len(outbox') = Len(outbox) + 1
       /\ \A i \in 1..Len(outbox) : outbox'[i] = outbox[i]
       /\ outbox'[Len(outbox) + 1] = o
  <2>1. outbox \in Seq(OutboxRow)
    BY <1>1 DEF Types
  <2> HIDE DEF OutboxRow
  <2> QED
    BY <1>6, <1>9, <2>1, Extend
<1>13. Batch(Len(feed)) \subseteq Batch(Len(feed)') /\ 1..Len(feed) \subseteq 1..Len(feed')
  BY <1>2, <1>11, BatchGrows
<1>14. Types'
  <2>1. disp' \in [Dispatchers -> Batch(Len(feed)')]
    BY <1>1, <1>13 DEF Types
  <2> QED
    BY <1>1, <1>2, <1>10, <1>11, <1>12, <1>13, <2>1 DEF Types
<1>15. Tells(row)'
  BY <1>2, <1>3, <1>5, <1>10, <1>11 DEF Tells
<1>16. ASSUME NEW x, x.seq \in Nat, x.seq <= Len(feed)
       PROVE  x.seq > 0 => feed'[x.seq] = feed[x.seq]
  BY <1>2, <1>11, <1>16
<1>17. RefFits'
  <2>1. ref.seq \in Nat /\ ref.seq <= Len(feed)
    BY <1>1 DEF IInv, Types, RefFits, Ref
  <2>2. Tells(ref) => Tells(ref)'
    BY <1>1, <1>16, <2>1 DEF Tells
  <2>3. ref.seq <= Len(feed')
    BY <1>2, <1>11, <2>1
  <2> QED
    BY <1>1, <2>2, <2>3 DEF IInv, RefFits, PublicationIsShown, SuccessIsPublished, PublishedStays
<1>18. LauncherFits'
  <2>1. boss.remote.seq \in Nat /\ boss.remote.seq <= Len(feed)
    BY <1>1 DEF IInv, Types, LauncherFits, Boss, Summary
  <2>2. Tells(boss.remote) => Tells(boss.remote)'
    BY <1>1, <1>16, <2>1 DEF Tells
  <2>3. boss.remote.seq <= Len(feed')
    BY <1>2, <1>11, <2>1
  <2> QED
    BY <1>1, <2>2, <2>3 DEF IInv, LauncherFits
<1>19. DispatcherFits'
  <2>1. Len(outbox) = Len(feed) /\ Len(outbox') = Len(outbox) + 1 /\ Len(outbox) \in Nat
    BY <1>1, <1>2, <1>12 DEF Types
  <2>2. \A e \in 1..Len(outbox') : e \in 1..Len(outbox) \/ outbox'[e] = o
    BY <1>12, <2>1
  <2>3. \A e \in 1..Len(outbox') : outbox'[e].status = "pending" => outbox'[e].tries < MaxAttempts
    <3> SUFFICES ASSUME NEW e \in 1..Len(outbox'), outbox'[e].status = "pending"
                 PROVE  outbox'[e].tries < MaxAttempts
      OBVIOUS
    <3>1. CASE e \in 1..Len(outbox)
      BY <1>12, <3>1 DEF IInv, DispatcherFits
    <3>2. CASE outbox'[e] = o
      BY <1>6, <3>2, DeliveryAssumption
    <3> QED
      BY <2>2, <3>1, <3>2
  <2>4. \A d \in Dispatchers : Claimed(d)' = Claimed(d) /\ Claimed(d) \subseteq 1..Len(outbox)
    BY <1>1, <2>1 DEF Types, Batch, Claimed
  <2>5. \A d \in Dispatchers : \A e \in Claimed(d)' : outbox'[e].status = "pending"
    BY <1>12, <2>4 DEF IInv, DispatcherFits
  <2>6. \A d, c1 \in Dispatchers : d # c1 => Claimed(d)' \cap Claimed(c1)' = {}
    BY <2>4 DEF IInv, DispatcherFits
  <2>7. "expire" \notin Faults =>
          DeliveredWasAccepted' /\ \A d \in Dispatchers : disp'[d].sent \subseteq seen'
    <3> HAVE "expire" \notin Faults
    <3>1. DeliveredWasAccepted /\ \A d \in Dispatchers : disp[d].sent \subseteq seen
      BY DEF IInv, DispatcherFits
    <3> QED
      BY <1>1, <1>6, <1>12, <2>2, <3>1 DEF DeliveredWasAccepted
  <2> QED
    BY <2>3, <2>5, <2>6, <2>7 DEF DispatcherFits
<1> QED
  BY <1>14, <1>15, <1>17, <1>18, <1>19 DEF IInv

\* A step of the run without a callback: requeued, retried or purged.
LEMMA RunSilentStep ==
    ASSUME IInv, feed' = feed, outbox' = outbox,
           row' \in Summary, row'.seq = row.seq, Tells(row)',
           UNCHANGED <<started, replays, disp, inflight, seen, ref, archive, launch, boss>>
    PROVE  IInv'
<1>1. Types'
  BY DEF IInv, Types
<1>2. RefFits'
  BY DEF IInv, RefFits, Tells, PublicationIsShown, SuccessIsPublished, PublishedStays
<1>3. LauncherFits'
  BY DEF IInv, LauncherFits, Tells
<1>4. DispatcherFits'
  BY DEF IInv, DispatcherFits, DeliveredWasAccepted, Claimed
<1> QED
  BY <1>1, <1>2, <1>3, <1>4 DEF IInv

\* RunRequeued, RunRetried
LEMMA RunPendingStep ==
    ASSUME IInv, RunRequeued \/ RunRetried
    PROVE  IInv'
<1>1. RunCommits("pending", <<>>) /\ row.status # "pending"
  BY DEF RunRequeued, RunRetried
<1>2. Types /\ row \in Summary /\ Tells(row) /\ feed \in Seq(Callback) /\ outbox \in Seq(OutboxRow)
  BY DEF IInv, Types
<1>3. UNCHANGED <<started, replays, disp, inflight, seen, ref, archive, launch, boss>>
  BY <1>1 DEF RunCommits, receiverVars, launcherVars
<1>4. feed' = feed
  BY <1>1, <1>2 DEF RunCommits
<1>5. outbox' = outbox
  <2>1. Len(<<>>) = 0 /\ \A o : [i \in 1..0 |-> o] = <<>>
    OBVIOUS
  <2>2. outbox' = outbox \o <<>>
    BY <1>1, <2>1 DEF RunCommits
  <2> QED
    BY <1>2, <2>2
<1>6. row' = [row EXCEPT !.status = "pending", !.seq = @ + Len(<<>>), !.sv = @ + 1]
  BY <1>1 DEF RunCommits
<1>7. /\ row' \in Summary /\ row'.status = "pending" /\ row'.seq = row.seq /\ row'.sv = row.sv + 1
      /\ row.sv \in Nat
  <2>1. PICK n \in Nat, v \in Nat : n = row.seq + Len(<<>>) /\ n = row.seq /\ v = row.sv + 1
    BY <1>2 DEF Summary
  <2>2. row' = [row EXCEPT !.status = "pending", !.seq = n, !.sv = v]
    BY <1>6, <2>1
  <2> QED
    BY <1>2, <2>1, <2>2 DEF Summary, Run!RowStatuses
<1>8. Tells(row)'
  <2> SUFFICES ASSUME row.seq > 0 PROVE row.sv + 1 > feed[row.seq].sv
    BY <1>4, <1>7 DEF Tells
  <2>1. row.seq \in 1..Len(feed)
    BY <1>2, LenProperties DEF Types, Summary
  <2>2. feed[row.seq].sv \in Nat
    <3>1. feed[row.seq] \in Callback
      BY <1>2, <2>1, ElementOfSeq
    <3> QED
      BY <3>1 DEF Callback
  <2>3. row.sv >= feed[row.seq].sv
    BY <1>2, <1>7, <2>2 DEF Tells
  <2> QED
    BY <1>7, <2>2, <2>3
<1> QED
  BY <1>3, <1>4, <1>5, <1>7, <1>8, RunSilentStep

\* RunPurged
LEMMA RunPurgedStep ==
    ASSUME IInv, RunPurged
    PROVE  IInv'
<1>1. PICK p \in Privacies : row' = [row EXCEPT !.privacy = p]
  BY DEF RunPurged, Privacies
<1>2. UNCHANGED <<feed, started, outbox, replays, disp, inflight, seen, ref, archive, launch, boss>>
  BY DEF RunPurged, receiverVars, launcherVars
<1>3. row \in Summary /\ Tells(row)
  BY DEF IInv, Types
<1>4. row' \in Summary /\ row'.seq = row.seq /\ row'.status = row.status /\ row'.sv = row.sv
  BY <1>1, <1>3 DEF Summary
<1>5. Tells(row)'
  BY <1>2, <1>3, <1>4 DEF Tells
<1> QED
  BY <1>2, <1>4, <1>5, RunSilentStep

-----------------------------------------------------------------------------
(* The receiver. *)

\* The shown status moves with a newer callback, or away from pending_start.
MovesForward == ref'.status # ref.status /\ ref.status # "pending_start" => ref'.seq > ref.seq

\* MemoryAgentCallbackService.apply
LEMMA ApplyEffect ==
    ASSUME IInv, NEW e \in 1..Len(feed), Apply(e), feed' = feed
    PROVE  ref' \in Ref /\ archive' \in Archive /\ RefFits' /\ MovesForward
<1>1. ref \in Ref /\ archive \in Archive /\ RefFits /\ feed \in Seq(Callback) /\ Len(feed) \in Nat
  BY LenProperties DEF IInv, Types
<1>2. feed[e] \in Callback
  BY <1>1, ElementOfSeq
<1>3. PICK st \in Run!RowStatuses : st = Run!StatusOf(feed[e].type) /\ st # "pending_start"
  BY <1>2, StatusType DEF Callback
<1>4. CASE UNCHANGED <<ref, archive>>
  BY <1>1, <1>4 DEF RefFits, MovesForward, Tells, PublicationIsShown, SuccessIsPublished, PublishedStays
<1>5. CASE ref' = [ref EXCEPT !.recon = "needed"] /\ UNCHANGED archive
  <2>1. ref' \in Ref /\ ref'.status = ref.status /\ ref'.seq = ref.seq /\ ref'.sv = ref.sv
    BY <1>1, <1>5 DEF Ref
  <2> QED
    BY <1>1, <1>5, <2>1
       DEF RefFits, MovesForward, Tells, PublicationIsShown, SuccessIsPublished, PublishedStays
<1>6. CASE /\ ~Stale(e) /\ ~Unconfirmed(st)
           /\ ref' = [ref EXCEPT !.status = st, !.seq = e, !.sv = feed[e].sv,
                                 !.rv = @ + 1, !.recon = "not_needed"]
           /\ archive' = [archive EXCEPT !.content = Shown(st)]
  <2>1. PICK v \in Nat : v = feed[e].sv
    BY <1>2 DEF Callback
  <2>2. PICK n \in Nat : n = ref.rv + 1
    BY <1>1 DEF Ref
  <2>3. ref' = [ref EXCEPT !.status = st, !.seq = e, !.sv = v, !.rv = n, !.recon = "not_needed"]
    BY <1>6, <2>1, <2>2
  <2>4. ref' \in Ref /\ ref'.status = st /\ ref'.seq = e /\ ref'.sv = v
    <3>1. PICK i \in Nat : i = e
      BY <1>1
    <3>2. ref' = [ref EXCEPT !.status = st, !.seq = i, !.sv = v, !.rv = n, !.recon = "not_needed"]
      BY <2>3, <3>1
    <3>3. ref' \in Ref /\ ref'.status = st /\ ref'.seq = i /\ ref'.sv = v
      BY <1>1, <3>2 DEF Ref
    <3> QED
      BY <3>1, <3>3
  <2>5. PICK w \in {"baseline"} \cup Run!RowStatuses : w = Shown(st)
    BY <1>1 DEF Shown, Archive
  <2>6. archive' = [archive EXCEPT !.content = w]
    BY <1>6, <2>5
  <2>7. /\ archive' \in Archive /\ archive'.content = w
        /\ archive'.published = archive.published /\ archive'.active = archive.active
    BY <1>1, <2>5, <2>6 DEF Archive
  <2>8. archive.published => w = archive.content
    BY <2>5 DEF Shown
  <2>9. PublicationIsShown'
    <3>1. SuccessIsPublished'
      BY <1>6, <2>4, <2>7 DEF Unconfirmed, SuccessIsPublished
    <3>2. PublishedStays'
      BY <1>1, <2>7, <2>8 DEF RefFits, PublicationIsShown, PublishedStays
    <3> QED
      BY <3>1, <3>2 DEF PublicationIsShown
  <2>10. Tells(ref)'
    BY <1>3, <2>1, <2>4 DEF Tells
  <2>11. MovesForward
    BY <1>1, <1>6, <2>4 DEF Stale, MovesForward, Ref
  <2>12. RefFits'
    BY <1>1, <1>3, <2>4, <2>9, <2>10 DEF RefFits
  <2> QED
    BY <2>4, <2>7, <2>11, <2>12
<1> QED
  BY <1>3, <1>4, <1>5, <1>6 DEF Apply

\* One request
LEMMA HandleEffect ==
    ASSUME IInv, NEW e \in 1..Len(feed), Handle(e), feed' = feed
    PROVE  /\ ref' \in Ref /\ archive' \in Archive /\ RefFits' /\ MovesForward
           /\ seen \subseteq seen' /\ seen' \subseteq 1..Len(feed)
           /\ Accepts(e) => e \in seen'
           /\ boss.held = {}
<1>1. boss.held = {} /\ seen \subseteq 1..Len(feed)
  BY DEF Handle, ReceiverFree, IInv, Types
<1>2. CASE e \notin seen /\ archive.active
  BY <1>1, <1>2, ApplyEffect DEF Handle
<1>3. CASE ~(e \notin seen /\ archive.active)
  <2>1. UNCHANGED <<seen, ref, archive>>
    BY <1>3 DEF Handle, receiverVars
  <2>2. RefFits' /\ MovesForward
    BY <2>1 DEF IInv, RefFits, MovesForward, Tells, PublicationIsShown, SuccessIsPublished, PublishedStays
  <2>3. ref' \in Ref /\ archive' \in Archive
    BY <2>1 DEF IInv, Types
  <2> QED
    BY <1>1, <1>3, <2>1, <2>2, <2>3 DEF Accepts
<1> QED
  BY <1>2, <1>3

\* The launcher's session does not mind what happens while it has no lock.
LEMMA LauncherUnmoved ==
    ASSUME IInv, boss' = boss, feed' = feed, boss.held = {} \/ ref' = ref
    PROVE  LauncherFits'
BY DEF IInv, LauncherFits, Tells

\* Dispatchers and outbox do not mind what the others do, as long as no record is lost.
LEMMA DispatchersUnmoved ==
    ASSUME IInv, outbox' = outbox, disp' = disp, "expire" \notin Faults => seen \subseteq seen'
    PROVE  DispatcherFits'
<1>1. \A d \in Dispatchers : Claimed(d)' = Claimed(d)
  BY DEF Claimed
<1>2. "expire" \notin Faults =>
        DeliveredWasAccepted' /\ \A d \in Dispatchers : disp'[d].sent \subseteq seen'
  BY DEF IInv, DispatcherFits, DeliveredWasAccepted
<1> QED
  BY <1>1, <1>2 DEF IInv, DispatcherFits

\* LateArrival, RecordExpires, Publish and Supersede
LEMMA ReceiverStep ==
    ASSUME IInv, Receiver
    PROVE  IInv' /\ MovesForward
<1>1. Types /\ RefFits /\ Tells(row) /\ archive \in Archive
  BY DEF IInv, Types
<1>2. ASSUME NEW e \in inflight, LateArrival(e) PROVE IInv' /\ MovesForward
  <2>1. /\ e \in 1..Len(feed) /\ Handle(e) /\ inflight' = inflight \ {e}
        /\ UNCHANGED <<row, feed, started, outbox, replays, disp, launch, boss>>
    BY <1>1, <1>2 DEF LateArrival, Types, runVars, launcherVars
  <2>2. /\ ref' \in Ref /\ archive' \in Archive /\ RefFits' /\ MovesForward
        /\ seen \subseteq seen' /\ seen' \subseteq 1..Len(feed) /\ boss.held = {}
    BY <2>1, HandleEffect
  <2>3. Types'
    BY <1>1, <2>1, <2>2 DEF Types
  <2>4. LauncherFits' /\ DispatcherFits' /\ Tells(row)'
    BY <1>1, <2>1, <2>2, LauncherUnmoved, DispatchersUnmoved DEF Tells
  <2> QED
    BY <2>2, <2>3, <2>4 DEF IInv
<1>3. ASSUME NEW e \in seen, RecordExpires(e) PROVE IInv' /\ MovesForward
  <2>1. /\ seen' = seen \ {e} /\ "expire" \in Faults
        /\ UNCHANGED <<row, feed, started, outbox, replays, disp, inflight, ref, archive, launch, boss>>
    BY <1>3 DEF RecordExpires, runVars, launcherVars
  <2>2. Types'
    BY <1>1, <2>1 DEF Types
  <2>3. LauncherFits' /\ DispatcherFits' /\ Tells(row)'
    BY <1>1, <2>1, LauncherUnmoved, DispatchersUnmoved DEF Tells
  <2>4. RefFits' /\ MovesForward
    BY <1>1, <2>1 DEF RefFits, Tells, PublicationIsShown, SuccessIsPublished, PublishedStays, MovesForward
  <2> QED
    BY <2>2, <2>3, <2>4 DEF IInv
<1>4. CASE Publish \/ Supersede
  <2>1. UNCHANGED <<row, feed, started, outbox, replays, disp, inflight, seen, ref, launch, boss>>
    BY <1>4 DEF Publish, Supersede, runVars, launcherVars
  <2>2. /\ archive' \in Archive /\ (archive.published => archive'.published)
        /\ archive'.published /\ archive'.active => archive'.content = "succeeded"
    BY <1>1, <1>4 DEF Publish, Supersede, Archive, Run!RowStatuses, Run!Outcomes
  <2>3. Types'
    BY <1>1, <2>1, <2>2 DEF Types
  <2>4. LauncherFits' /\ DispatcherFits' /\ Tells(row)'
    BY <1>1, <2>1, LauncherUnmoved, DispatchersUnmoved DEF Tells
  <2>5. RefFits' /\ MovesForward
    BY <1>1, <2>1, <2>2 DEF RefFits, Tells, PublicationIsShown, SuccessIsPublished, PublishedStays, MovesForward
  <2> QED
    BY <2>3, <2>4, <2>5 DEF IInv
<1> QED
  BY <1>2, <1>3, <1>4 DEF Receiver

-----------------------------------------------------------------------------
(* The dispatchers. *)

\* A step of one dispatcher that only changes its own session.
LEMMA DispatcherMoves ==
    ASSUME IInv, NEW d \in Dispatchers, NEW b \in Batch(Len(feed)),
           disp' = [disp EXCEPT ![d] = b],
           b.sent \cup b.failed \subseteq Claimed(d) \cup {e \in 1..Len(feed) : Claims(d, e)},
           "expire" \notin Faults => b.sent \subseteq disp[d].sent \cup seen' /\ seen \subseteq seen',
           ref' \in Ref, archive' \in Archive, RefFits', seen' \subseteq 1..Len(feed),
           inflight' \subseteq 1..Len(feed), boss.held = {} \/ ref' = ref,
           UNCHANGED <<row, feed, started, outbox, replays, launch, boss>>
    PROVE  IInv'
<1>1. Types /\ disp \in [Dispatchers -> Batch(Len(feed))] /\ Tells(row)
  BY DEF IInv, Types
<1>2. /\ disp' \in [Dispatchers -> Batch(Len(feed))] /\ disp'[d] = b
      /\ \A c \in Dispatchers \ {d} : disp'[c] = disp[c]
  BY <1>1
<1>3. Types'
  BY <1>1, <1>2 DEF Types
<1>4. LauncherFits' /\ Tells(row)'
  BY <1>1, LauncherUnmoved DEF Tells
<1>5. DispatcherFits'
  <2>1. Claimed(d)' = b.sent \cup b.failed /\ \A c \in Dispatchers \ {d} : Claimed(c)' = Claimed(c)
    BY <1>2 DEF Claimed
  <2>2. \A c \in Dispatchers : \A e \in Claimed(c)' : outbox'[e].status = "pending"
    BY <2>1 DEF IInv, DispatcherFits, Claims
  <2>3. \A c \in Dispatchers \ {d} : Claimed(c) \cap (b.sent \cup b.failed) = {}
    BY DEF IInv, DispatcherFits, Claims, Unclaimed, Claimed
  <2>4. \A x, y \in Dispatchers : x # y => Claimed(x)' \cap Claimed(y)' = {}
    <3> SUFFICES ASSUME NEW x \in Dispatchers, NEW y \in Dispatchers, x # y
                 PROVE  Claimed(x)' \cap Claimed(y)' = {}
      OBVIOUS
    <3>1. CASE x = d
      BY <2>1, <2>3, <3>1
    <3>2. CASE y = d
      BY <2>1, <2>3, <3>2
    <3>3. CASE x # d /\ y # d
      BY <2>1, <3>3 DEF IInv, DispatcherFits
    <3> QED
      BY <3>1, <3>2, <3>3
  <2>5. "expire" \notin Faults =>
          DeliveredWasAccepted' /\ \A c \in Dispatchers : disp'[c].sent \subseteq seen'
    <3> HAVE "expire" \notin Faults
    <3>1. DeliveredWasAccepted /\ \A c \in Dispatchers : disp[c].sent \subseteq seen
      BY DEF IInv, DispatcherFits
    <3>2. \A c \in Dispatchers : disp'[c].sent \subseteq seen'
      BY <1>2, <3>1
    <3> QED
      BY <3>1, <3>2 DEF DeliveredWasAccepted
  <2>6. \A e \in 1..Len(outbox') : outbox'[e].status = "pending" => outbox'[e].tries < MaxAttempts
    BY DEF IInv, DispatcherFits
  <2> QED
    BY <2>2, <2>4, <2>5, <2>6 DEF DispatcherFits
<1> QED
  BY <1>3, <1>4, <1>5 DEF IInv

\* An idle session is a batch.
LEMMA IdleBatch ==
    /\ IdleDispatcher \in Batch(Len(feed)) /\ IdleDispatcher.sent = {} /\ IdleDispatcher.failed = {}
    /\ IdleDispatcher.todo = {}
BY DEF IdleDispatcher, Batch

\* The business side is left alone.
LEMMA RefUnmoved ==
    ASSUME IInv, UNCHANGED <<feed, ref, archive>>
    PROVE  RefFits' /\ MovesForward /\ ref' \in Ref /\ archive' \in Archive
BY DEF IInv, Types, RefFits, Tells, PublicationIsShown, SuccessIsPublished, PublishedStays, MovesForward

\* The steps of a dispatcher up to the commit of its batch
LEMMA DispatcherStep ==
    ASSUME IInv, NEW d \in Dispatchers,
           \/ Scan(d) \/ DispatcherCrashes(d)
           \/ \E e \in disp[d].todo :
                SkipClaimed(d, e) \/ Deliver(d, e) \/ RefuseWithdrawn(d, e) \/ DeliveryTimesOut(d, e)
    PROVE  IInv' /\ MovesForward
<1>1. /\ Types /\ disp \in [Dispatchers -> Batch(Len(feed))] /\ disp[d] \in Batch(Len(feed))
      /\ Len(outbox) = Len(feed) /\ seen \subseteq 1..Len(feed) /\ inflight \subseteq 1..Len(feed)
      /\ row.privacy \in Privacies
  BY DEF IInv, Types, Summary
<1>2. CASE Scan(d)
  <2>1. PICK due \in SUBSET (1..Len(feed)) : disp' = [disp EXCEPT ![d].todo = due]
    BY <1>1, <1>2 DEF Scan, Pending
  <2>2. UNCHANGED <<row, feed, started, outbox, replays, inflight, seen, ref, archive, launch, boss>>
    BY <1>2 DEF Scan, runVars, receiverVars, launcherVars
  <2> DEFINE b == [disp[d] EXCEPT !.todo = due]
  <2>3. b \in Batch(Len(feed)) /\ b.sent = disp[d].sent /\ b.failed = disp[d].failed
    BY <1>1 DEF Batch
  <2>4. disp' = [disp EXCEPT ![d] = b]
    BY <1>1, <2>1
  <2> HIDE DEF b
  <2>5. b.sent \cup b.failed \subseteq Claimed(d) \cup {e \in 1..Len(feed) : Claims(d, e)}
    BY <2>3 DEF Claimed
  <2> QED
    BY <1>1, <2>2, <2>3, <2>4, <2>5, RefUnmoved, DispatcherMoves
<1>3. CASE DispatcherCrashes(d)
  <2>1. /\ disp' = [disp EXCEPT ![d] = IdleDispatcher]
        /\ UNCHANGED <<row, feed, started, outbox, replays, inflight, seen, ref, archive, launch, boss>>
    BY <1>3 DEF DispatcherCrashes, runVars, receiverVars, launcherVars
  <2> QED
    BY <1>1, <2>1, IdleBatch, RefUnmoved, DispatcherMoves
<1>4. ASSUME NEW e \in disp[d].todo, SkipClaimed(d, e)
      PROVE  IInv' /\ MovesForward
  <2>1. UNCHANGED <<row, feed, started, outbox, replays, inflight, seen, ref, archive, launch, boss>>
    BY <1>4 DEF SkipClaimed, runVars, receiverVars, launcherVars
  <2> DEFINE b == [disp[d] EXCEPT !.todo = @ \ {e}]
  <2>2. b \in Batch(Len(feed)) /\ b.sent = disp[d].sent /\ b.failed = disp[d].failed
    BY <1>1 DEF Batch
  <2>3. disp' = [disp EXCEPT ![d] = b]
    BY <1>1, <1>4 DEF SkipClaimed
  <2> HIDE DEF b
  <2>4. b.sent \cup b.failed \subseteq Claimed(d) \cup {i \in 1..Len(feed) : Claims(d, i)}
    BY <2>2 DEF Claimed
  <2> QED
    BY <1>1, <2>1, <2>2, <2>3, <2>4, RefUnmoved, DispatcherMoves
<1>5. ASSUME NEW e \in disp[d].todo,
             Deliver(d, e) \/ RefuseWithdrawn(d, e) \/ DeliveryTimesOut(d, e)
      PROVE  IInv' /\ MovesForward
  <2>1. e \in 1..Len(feed) /\ Claims(d, e)
    BY <1>1, <1>5 DEF Batch, Deliver, RefuseWithdrawn, DeliveryTimesOut
  <2>2. PICK p \in {"unread"} \cup Privacies : p = Privacy(d)
    BY <1>1 DEF Privacy, Batch
  <2>3. UNCHANGED <<row, feed, started, outbox, replays, launch, boss>>
    BY <1>5 DEF Deliver, RefuseWithdrawn, DeliveryTimesOut, runVars, launcherVars
  <2>4. ASSUME Failed(d, e), ref' \in Ref, archive' \in Archive, RefFits', seen' \subseteq 1..Len(feed),
               seen \subseteq seen', inflight' \subseteq 1..Len(feed), boss.held = {} \/ ref' = ref
        PROVE  IInv'
    <3> DEFINE b == [disp[d] EXCEPT !.todo = @ \ {e}, !.failed = @ \cup {e}, !.privacy = p]
    <3>1. b \in Batch(Len(feed)) /\ b.sent = disp[d].sent /\ b.failed = disp[d].failed \cup {e}
      BY <1>1, <2>1 DEF Batch
    <3>2. disp' = [disp EXCEPT ![d] = b]
      BY <1>1, <2>2, <2>4 DEF Failed
    <3> HIDE DEF b
    <3>3. b.sent \cup b.failed \subseteq Claimed(d) \cup {i \in 1..Len(feed) : Claims(d, i)}
      BY <2>1, <3>1 DEF Claimed
    <3> QED
      BY <2>3, <2>4, <3>1, <3>2, <3>3, DispatcherMoves
  <2>5. ASSUME Sent(d, e), ref' \in Ref, archive' \in Archive, RefFits', seen' \subseteq 1..Len(feed),
               seen \subseteq seen', inflight' \subseteq 1..Len(feed), boss.held = {} \/ ref' = ref,
               e \in seen'
        PROVE  IInv'
    <3> DEFINE b == [disp[d] EXCEPT !.todo = @ \ {e}, !.sent = @ \cup {e}, !.privacy = p]
    <3>1. b \in Batch(Len(feed)) /\ b.sent = disp[d].sent \cup {e} /\ b.failed = disp[d].failed
      BY <1>1, <2>1 DEF Batch
    <3>2. disp' = [disp EXCEPT ![d] = b]
      BY <1>1, <2>2, <2>5 DEF Sent
    <3> HIDE DEF b
    <3>3. b.sent \cup b.failed \subseteq Claimed(d) \cup {i \in 1..Len(feed) : Claims(d, i)}
      BY <2>1, <3>1 DEF Claimed
    <3> QED
      BY <2>3, <2>5, <3>1, <3>2, <3>3, DispatcherMoves
  <2>6. CASE Deliver(d, e)
    <3>1. Handle(e) /\ inflight' = inflight /\ IF Accepts(e) THEN Sent(d, e) ELSE Failed(d, e)
      BY <2>6 DEF Deliver
    <3>2. /\ ref' \in Ref /\ archive' \in Archive /\ RefFits' /\ MovesForward
          /\ seen \subseteq seen' /\ seen' \subseteq 1..Len(feed)
          /\ (Accepts(e) => e \in seen') /\ boss.held = {}
      BY <2>1, <2>3, <3>1, HandleEffect
    <3> QED
      BY <1>1, <2>4, <2>5, <3>1, <3>2
  <2>7. CASE RefuseWithdrawn(d, e) \/ DeliveryTimesOut(d, e)
    <3>1. Failed(d, e) /\ UNCHANGED <<seen, ref, archive>> /\ inflight' \subseteq inflight \cup {e}
      BY <2>7 DEF RefuseWithdrawn, DeliveryTimesOut, receiverVars
    <3>2. RefFits' /\ MovesForward /\ ref' \in Ref /\ archive' \in Archive
      BY <2>3, <3>1, RefUnmoved
    <3> QED
      BY <1>1, <2>1, <2>4, <3>1, <3>2
  <2> QED
    BY <1>5, <2>6, <2>7
<1> QED
  BY <1>2, <1>3, <1>4, <1>5

\* A step that changes the outbox and no reference
LEMMA OutboxStep ==
    ASSUME IInv, outbox' \in Seq(OutboxRow), Len(outbox') = Len(outbox), replays' \in 0..MaxReplays,
           disp' \in [Dispatchers -> Batch(Len(feed))], DispatcherFits',
           UNCHANGED <<row, feed, started, inflight, seen, ref, archive, launch, boss>>
    PROVE  IInv' /\ MovesForward
<1>1. Types'
  BY DEF IInv, Types
<1>2. LauncherFits' /\ RefFits' /\ MovesForward
  BY LauncherUnmoved, RefUnmoved
<1>3. Tells(row)'
  BY DEF IInv, Tells
<1> QED
  BY <1>1, <1>2, <1>3 DEF IInv

\* A sequence made by a function
LEMMA MadeSeq ==
    ASSUME NEW T, NEW n \in Nat, NEW s \in [1..n -> T]
    PROVE  s \in Seq(T) /\ Len(s) = n
<1>1. s \in Seq(T)
  BY SeqDef, Zenon
<1>2. Len(s) \in Nat /\ DOMAIN s = 1..Len(s)
  BY <1>1, LenProperties
<1>3. DOMAIN s = 1..n
  OBVIOUS
<1> QED
  BY <1>1, <1>2, <1>3

\* What becomes of a claimed row that was not delivered
LEMMA FailureCounts ==
    ASSUME NEW o \in OutboxRow, o.tries < MaxAttempts
    PROVE  /\ AfterFailure(o) \in OutboxRow /\ AfterFailure(o).status # "delivered"
           /\ AfterFailure(o).status = "pending" => AfterFailure(o).tries < MaxAttempts
<1>1. MaxAttempts \in Nat /\ o.tries \in 0..MaxAttempts
  BY DeliveryAssumption DEF OutboxRow
<1>2. PICK n \in 0..MaxAttempts : n = o.tries + 1
  BY <1>1
<1>3. PICK st \in {"pending", "dead_letter"} : /\ st = IF n >= MaxAttempts THEN "dead_letter" ELSE "pending"
                                               /\ st = "pending" => n < MaxAttempts
  BY <1>1, <1>2
<1>4. AfterFailure(o) = [status |-> st, tries |-> n]
  BY <1>2, <1>3 DEF AfterFailure
<1> QED
  BY <1>3, <1>4 DEF OutboxRow

\* CommitBatch
LEMMA CommitBatchStep ==
    ASSUME IInv, NEW d \in Dispatchers, CommitBatch(d)
    PROVE  IInv' /\ MovesForward
<1>1. /\ Types /\ disp \in [Dispatchers -> Batch(Len(feed))] /\ outbox \in Seq(OutboxRow)
      /\ Len(outbox) = Len(feed) /\ Len(outbox) \in Nat /\ DispatcherFits
      /\ replays \in 0..MaxReplays
      /\ UNCHANGED <<row, feed, started, replays, inflight, seen, ref, archive, launch, boss>>
      /\ disp' = [disp EXCEPT ![d] = IdleDispatcher]
  BY LenProperties DEF IInv, Types, CommitBatch, receiverVars, launcherVars
<1> DEFINE New(e) == IF e \in disp[d].sent THEN [outbox[e] EXCEPT !.status = "delivered"]
                     ELSE IF e \in disp[d].failed THEN AfterFailure(outbox[e])
                     ELSE outbox[e]
           n == Len(outbox)
<1>2. outbox' = [e \in 1..n |-> New(e)]
  BY DEF CommitBatch
<1>3. \A e \in 1..n : /\ New(e) \in OutboxRow
                      /\ New(e).status = "pending" => New(e).tries < MaxAttempts
                      /\ New(e).status = "delivered" => e \in disp[d].sent \/ outbox[e].status = "delivered"
                      /\ e \notin Claimed(d) => New(e) = outbox[e]
  <2> SUFFICES ASSUME NEW e \in 1..n
               PROVE  /\ New(e) \in OutboxRow
                      /\ New(e).status = "pending" => New(e).tries < MaxAttempts
                      /\ New(e).status = "delivered" => e \in disp[d].sent \/ outbox[e].status = "delivered"
                      /\ e \notin Claimed(d) => New(e) = outbox[e]
    OBVIOUS
  <2>1. outbox[e] \in OutboxRow /\ (outbox[e].status = "pending" => outbox[e].tries < MaxAttempts)
    BY <1>1, ElementOfSeq DEF DispatcherFits
  <2>2. CASE e \in disp[d].sent
    BY <2>1, <2>2 DEF OutboxRow, Claimed
  <2>3. CASE e \notin disp[d].sent /\ e \in disp[d].failed
    <3>1. outbox[e].status = "pending"
      BY <1>1, <2>3 DEF DispatcherFits, Claimed
    <3> QED
      BY <2>1, <2>3, <3>1, FailureCounts DEF Claimed
  <2>4. CASE e \notin disp[d].sent /\ e \notin disp[d].failed
    BY <2>1, <2>4
  <2> QED
    BY <2>2, <2>3, <2>4
<1> HIDE DEF New
<1>4. outbox' \in [1..n -> OutboxRow] /\ \A e \in 1..n : outbox'[e] = New(e)
  BY <1>2, <1>3
<1>5. outbox' \in Seq(OutboxRow) /\ Len(outbox') = n
  BY <1>1, <1>4, MadeSeq
<1>6. /\ disp' \in [Dispatchers -> Batch(Len(feed))] /\ disp'[d] = IdleDispatcher
      /\ \A c \in Dispatchers \ {d} : disp'[c] = disp[c]
  BY <1>1, IdleBatch
<1>7. DispatcherFits'
  <2>1. Claimed(d)' = {} /\ \A c \in Dispatchers \ {d} : Claimed(c)' = Claimed(c)
    BY <1>6, IdleBatch DEF Claimed
  <2>2. \A c \in Dispatchers : \A e \in Claimed(c)' : outbox'[e].status = "pending"
    <3> SUFFICES ASSUME NEW c \in Dispatchers \ {d}, NEW e \in Claimed(c)
                 PROVE  outbox'[e].status = "pending"
      BY <2>1
    <3>1. e \in 1..n
      BY <1>1 DEF Claimed, Batch
    <3>2. outbox[e].status = "pending" /\ e \notin Claimed(d)
      BY <1>1 DEF DispatcherFits
    <3> QED
      BY <1>3, <1>4, <3>1, <3>2
  <2>3. \A x, y \in Dispatchers : x # y => Claimed(x)' \cap Claimed(y)' = {}
    BY <1>1, <2>1 DEF DispatcherFits
  <2>4. \A e \in 1..Len(outbox') : outbox'[e].status = "pending" => outbox'[e].tries < MaxAttempts
    BY <1>3, <1>4, <1>5
  <2>5. "expire" \notin Faults =>
          DeliveredWasAccepted' /\ \A c \in Dispatchers : disp'[c].sent \subseteq seen'
    <3> HAVE "expire" \notin Faults
    <3>1. DeliveredWasAccepted /\ \A c \in Dispatchers : disp[c].sent \subseteq seen
      BY <1>1 DEF DispatcherFits
    <3>2. \A c \in Dispatchers : disp'[c].sent \subseteq seen
      BY <1>6, <3>1, IdleBatch
    <3>3. DeliveredWasAccepted'
      BY <1>1, <1>3, <1>4, <1>5, <3>1 DEF DeliveredWasAccepted
    <3> QED
      BY <1>1, <3>2, <3>3
  <2> QED
    BY <2>2, <2>3, <2>4, <2>5 DEF DispatcherFits
<1> QED
  BY <1>1, <1>5, <1>6, <1>7, OutboxStep

\* ReplayDeadLetter
LEMMA ReplayStep ==
    ASSUME IInv, NEW e \in 1..Len(outbox), ReplayDeadLetter(e)
    PROVE  IInv' /\ MovesForward
<1> DEFINE o == [status |-> "pending", tries |-> 0]
           n == Len(outbox)
<1>1. /\ Types /\ disp \in [Dispatchers -> Batch(Len(feed))] /\ outbox \in Seq(OutboxRow)
      /\ Len(outbox) = Len(feed) /\ n \in Nat /\ DispatcherFits
      /\ UNCHANGED <<row, feed, started, disp, inflight, seen, ref, archive, launch, boss>>
  BY LenProperties DEF IInv, Types, ReplayDeadLetter, receiverVars, launcherVars
<1>2. outbox' = [outbox EXCEPT ![e] = o] /\ outbox[e].status = "dead_letter"
  BY DEF ReplayDeadLetter
<1>3. o \in OutboxRow /\ o.status = "pending" /\ o.tries < MaxAttempts
  BY DeliveryAssumption DEF OutboxRow
<1> HIDE DEF o
<1>4. /\ outbox' \in Seq(OutboxRow) /\ Len(outbox') = n /\ outbox'[e] = o
      /\ \A i \in 1..n : i # e => outbox'[i] = outbox[i]
  BY <1>1, <1>2, <1>3, ExceptSeq
<1>5. replays' \in 0..MaxReplays
  BY <1>1, DeliveryAssumption DEF Types, ReplayDeadLetter
<1>6. DispatcherFits'
  <2>1. \A c \in Dispatchers : Claimed(c)' = Claimed(c) /\ Claimed(c) \subseteq 1..n
    BY <1>1 DEF Claimed, Batch
  <2>2. \A c \in Dispatchers : \A i \in Claimed(c)' : outbox'[i].status = "pending"
    BY <1>1, <1>3, <1>4, <2>1 DEF DispatcherFits
  <2>3. \A x, y \in Dispatchers : x # y => Claimed(x)' \cap Claimed(y)' = {}
    BY <1>1, <2>1 DEF DispatcherFits
  <2>4. \A i \in 1..Len(outbox') : outbox'[i].status = "pending" => outbox'[i].tries < MaxAttempts
    BY <1>1, <1>3, <1>4 DEF DispatcherFits
  <2>5. "expire" \notin Faults =>
          DeliveredWasAccepted' /\ \A c \in Dispatchers : disp'[c].sent \subseteq seen'
    BY <1>1, <1>3, <1>4 DEF DispatcherFits, DeliveredWasAccepted
  <2> QED
    BY <2>2, <2>3, <2>4, <2>5 DEF DispatcherFits
<1>7. disp' \in [Dispatchers -> Batch(Len(feed))]
  BY <1>1
<1> QED
  BY <1>1, <1>4, <1>5, <1>6, <1>7, OutboxStep

-----------------------------------------------------------------------------
(* The launcher. *)

\* An idle session has read nothing.
LEMMA IdleSession ==
    /\ IdleBoss \in Boss /\ NewRef \in Ref
    /\ IdleBoss.mine = NewRef /\ IdleBoss.view = NewRef /\ IdleBoss.remote.seq = 0
    /\ IdleBoss.pc = "idle" /\ ~IdleBoss.loaded
<1>1. NewRef \in Ref
  BY DEF NewRef, Ref
<1>2. IdleBoss.remote \in Summary
  BY DEF IdleBoss, Summary, Privacies, Run!RowStatuses
<1>3. IdleBoss \in Boss
  BY <1>1, <1>2 DEF IdleBoss, Boss
<1> QED
  BY <1>1, <1>3 DEF IdleBoss

\* A status differs from the one that was read only by the step of _deliver_start.
StatusFits(b) ==
    b.mine.status # b.view.status =>
        /\ b.view.status = "pending_start" /\ b.mine.status = "pending"
        /\ Careful => ref.status = "pending_start" /\ b.held # {}

\* A step of the session before its commit
LEMMA SessionStep ==
    ASSUME IInv, NEW b \in Boss, boss' = b, started' \in BOOLEAN,
           UNCHANGED <<RunAndDelivery, ref, launch>>,
           b.remote \in {boss.remote, row} \/ b.remote.seq = 0,
           StatusFits(b),
           Careful /\ b.pc \in {"call", "bind"} => ~b.loaded,
           ~b.loaded => b.mine = b.view
    PROVE  IInv' /\ MovesForward
<1>1. UNCHANGED <<row, feed, outbox, replays, disp, inflight, seen, archive, ref, launch>>
  BY DEF RunAndDelivery
<1>2. Types'
  BY <1>1 DEF IInv, Types
<1>3. RefFits' /\ MovesForward /\ DispatcherFits'
  BY <1>1, RefUnmoved, DispatchersUnmoved
<1>4. Tells(row)'
  BY <1>1 DEF IInv, Tells
<1>5. boss'.remote.seq <= Len(feed') /\ Tells(boss.remote)'
  <2>1. boss.remote.seq <= Len(feed) /\ Tells(boss.remote) /\ Tells(row) /\ row.seq = Len(feed)
    BY DEF IInv, LauncherFits, Types
  <2>2. Len(feed) \in Nat /\ row.seq \in Nat
    BY LenProperties DEF IInv, Types
  <2>3. CASE b.remote = boss.remote
    BY <1>1, <2>1, <2>3 DEF Tells
  <2>4. CASE b.remote = row
    BY <1>1, <2>1, <2>2, <2>4 DEF Tells
  <2>5. CASE b.remote.seq = 0
    BY <1>1, <2>2, <2>5 DEF Tells
  <2> QED
    BY <2>3, <2>4, <2>5
<1>6. LauncherFits'
  BY <1>1, <1>5 DEF LauncherFits, StatusFits
<1> QED
  BY <1>2, <1>3, <1>4, <1>6 DEF IInv

\* What a SELECT of the session returns
LEMMA ReadFits ==
    ASSUME IInv
    PROVE  Read \in Ref /\ (Careful => Read = ref) /\ boss \in Boss /\ StatusFits(boss)
BY DEF IInv, Types, Read, Boss, Careful, LauncherFits, StatusFits

\* Loading the reference
LEMMA LoadFits ==
    ASSUME IInv
    PROVE  /\ Loaded(boss) \in Boss /\ Loaded(boss).loaded /\ StatusFits(Loaded(boss))
           /\ Loaded(boss).remote = boss.remote /\ Loaded(boss).path = boss.path
           /\ Loaded(boss).held = boss.held /\ Loaded(boss).pc = boss.pc
           /\ ~boss.loaded => Loaded(boss).mine = Read /\ Loaded(boss).view = Read
<1>1. boss \in Boss /\ Read \in Ref /\ StatusFits(boss)
  BY ReadFits
<1>2. CASE boss.loaded
  BY <1>1, <1>2 DEF Loaded
<1>3. CASE ~boss.loaded
  <2> DEFINE b == [boss EXCEPT !.loaded = TRUE, !.view = Read, !.mine = Read]
  <2>1. /\ b \in Boss /\ b.loaded /\ b.mine = Read /\ b.view = Read /\ b.remote = boss.remote
        /\ b.path = boss.path /\ b.held = boss.held /\ b.pc = boss.pc
    BY <1>1 DEF Boss
  <2>2. Loaded(boss) = b
    BY <1>3 DEF Loaded
  <2> HIDE DEF b
  <2> QED
    BY <2>1, <2>2 DEF StatusFits
<1> QED
  BY <1>2, <1>3

\* What _deliver_start makes of a reference
LEMMA BoundFits ==
    ASSUME NEW r \in Ref
    PROVE  /\ Bound(r) \in Ref
           /\ Bound(r).status = IF r.status = "pending_start" THEN "pending" ELSE r.status
<1>1. PICK st \in Run!RowStatuses \cup {"pending_start"} :
        st = IF r.status = "pending_start" THEN "pending" ELSE r.status
  BY DEF Ref, Run!RowStatuses
<1>2. PICK n \in Nat :
        n = r.rv + (IF r.keyed THEN 0 ELSE 1) + (IF r.status = "pending_start" THEN 1 ELSE 0)
  <2>1. PICK i \in Nat : i = IF r.keyed THEN 0 ELSE 1
    OBVIOUS
  <2>2. PICK j \in Nat : j = IF r.status = "pending_start" THEN 1 ELSE 0
    OBVIOUS
  <2>3. r.rv \in Nat
    BY DEF Ref
  <2> QED
    BY <2>1, <2>2, <2>3
<1>3. Bound(r) = [r EXCEPT !.status = st, !.rv = n, !.keyed = TRUE]
  BY <1>1, <1>2 DEF Bound
<1>4. Bound(r) \in Ref /\ Bound(r).status = st
  BY <1>3 DEF Ref
<1> QED
  BY <1>1, <1>4

\* Bind
LEMMA BindStep ==
    ASSUME IInv, Bind
    PROVE  IInv' /\ MovesForward
<1>1. /\ boss \in Boss /\ StatusFits(boss) /\ boss.pc = "bind" /\ (Careful => Read = ref)
      /\ UNCHANGED <<RunAndDelivery, ref, launch>> /\ started' = started /\ started \in BOOLEAN
  BY ReadFits DEF Bind, IInv, Types
<1>2. (Careful => ~boss.loaded) /\ (~boss.loaded => boss.mine = boss.view)
  BY <1>1 DEF IInv, LauncherFits
<1>3. PICK next \in {"compensate", "reconcile"} :
        next = IF boss.path = "deliver" THEN "compensate" ELSE "reconcile"
  OBVIOUS
<1>4. CASE archive.active
  <2>1. PICK l \in Boss : l = Loaded(boss)
    BY LoadFits
  <2>2. /\ l.loaded /\ StatusFits(l) /\ l.remote = boss.remote /\ l.path = boss.path
        /\ ~boss.loaded => l.mine = Read /\ l.view = Read
    BY <2>1, LoadFits
  <2>3. l.mine \in Ref
    BY DEF Boss
  <2>4. PICK m \in Ref : /\ m = Bound(l.mine)
                         /\ m.status = IF l.mine.status = "pending_start" THEN "pending"
                                       ELSE l.mine.status
    BY <2>3, BoundFits
  <2> DEFINE b == [l EXCEPT !.mine = m, !.start = "delivered", !.held = {"archive"}, !.pc = next]
  <2>5. /\ b \in Boss /\ b.mine = m /\ b.view = l.view /\ b.held = {"archive"} /\ b.pc = next
        /\ b.remote = boss.remote /\ b.loaded
    BY <2>2 DEF Boss
  <2>6. boss' = b
    <3>1. boss' = Returns([l EXCEPT !.mine = m, !.start = "delivered", !.held = {"archive"}])
      BY <1>4, <2>1, <2>4 DEF Bind
    <3> QED
      BY <1>3, <2>2, <3>1 DEF Returns, Boss
  <2> HIDE DEF b
  <2>7. StatusFits(b)
    <3> SUFFICES ASSUME m.status # l.view.status
                 PROVE  /\ l.view.status = "pending_start" /\ m.status = "pending"
                        /\ Careful => ref.status = "pending_start"
      BY <2>5 DEF StatusFits
    <3>1. CASE l.mine.status = l.view.status
      BY <1>1, <1>2, <2>2, <2>4, <3>1
    <3>2. CASE l.mine.status # l.view.status
      BY <2>2, <2>4, <3>2 DEF StatusFits
    <3> QED
      BY <3>1, <3>2
  <2> QED
    BY <1>1, <2>5, <2>6, <2>7, SessionStep
<1>5. CASE ~archive.active
  <2> DEFINE b == [boss EXCEPT !.start = "pending", !.held = {"archive"}, !.pc = next]
  <2>1. /\ b \in Boss /\ b.mine = boss.mine /\ b.view = boss.view /\ b.held = {"archive"}
        /\ b.pc = next /\ b.remote = boss.remote /\ b.loaded = boss.loaded
    BY <1>1 DEF Boss
  <2>2. boss' = b
    BY <1>1, <1>3, <1>5 DEF Bind, Returns, Boss
  <2> HIDE DEF b
  <2>3. StatusFits(b)
    BY <1>1, <2>1 DEF StatusFits
  <2> QED
    BY <1>1, <1>2, <2>1, <2>2, <2>3, SessionStep
<1> QED
  BY <1>4, <1>5

\* The steps of the session in which it keeps what it has read
LEMMA KeepStep ==
    ASSUME IInv, NEW b \in Boss, boss' = b, started' \in BOOLEAN,
           UNCHANGED <<RunAndDelivery, ref, launch>>,
           b.mine = boss.mine, b.view = boss.view, b.loaded = boss.loaded,
           b.held = boss.held \/ b.held = boss.held \cup {"ref"},
           b.remote \in {boss.remote, row},
           b.pc \in {"call", "bind"} => boss.pc \in {"call", "bind"}
    PROVE  IInv' /\ MovesForward
<1>1. StatusFits(boss)
  BY ReadFits
<1>2. StatusFits(b)
  BY <1>1 DEF StatusFits
<1>3. (Careful /\ b.pc \in {"call", "bind"} => ~b.loaded) /\ (~b.loaded => b.mine = b.view)
  BY DEF IInv, LauncherFits
<1> QED
  BY <1>2, <1>3, SessionStep

\* StartAccepted, StartFails, ReadRemote
LEMMA RequestStep ==
    ASSUME IInv, StartAccepted \/ StartFails \/ ReadRemote
    PROVE  IInv' /\ MovesForward
<1>1. boss \in Boss /\ started \in BOOLEAN /\ row \in Summary
  BY DEF IInv, Types
<1>2. CASE StartAccepted
  <2> DEFINE b == [boss EXCEPT !.pc = "bind"]
  <2>1. /\ b \in Boss /\ b.mine = boss.mine /\ b.view = boss.view /\ b.loaded = boss.loaded
        /\ b.held = boss.held /\ b.remote = boss.remote
    BY <1>1 DEF Boss
  <2> HIDE DEF b
  <2>2. /\ boss' = b /\ started' = TRUE /\ boss.pc = "call"
        /\ UNCHANGED <<RunAndDelivery, ref, launch>>
    BY <1>2 DEF StartAccepted, b
  <2> QED
    BY <2>1, <2>2, KeepStep
<1>3. CASE StartFails
  <2>1. PICK next \in {"compensate", "reconcile"} :
          next = IF boss.path = "deliver" THEN "compensate" ELSE "reconcile"
    OBVIOUS
  <2> DEFINE b == [boss EXCEPT !.start = "pending", !.pc = next]
  <2>2. /\ b \in Boss /\ b.mine = boss.mine /\ b.view = boss.view /\ b.loaded = boss.loaded
        /\ b.held = boss.held /\ b.remote = boss.remote /\ b.pc = next
    BY <1>1 DEF Boss
  <2>3. boss' = b
    BY <1>1, <1>3, <2>1 DEF StartFails, Returns, Boss
  <2> HIDE DEF b
  <2>4. started' \in BOOLEAN /\ UNCHANGED <<RunAndDelivery, ref, launch>>
    BY <1>1, <1>3 DEF StartFails, Startable
  <2> QED
    BY <2>2, <2>3, <2>4, KeepStep
<1>4. CASE ReadRemote
  <2> DEFINE b == [boss EXCEPT !.pc = "read", !.held = @ \cup {"ref"}, !.remote = row]
  <2>1. /\ b \in Boss /\ b.mine = boss.mine /\ b.view = boss.view /\ b.loaded = boss.loaded
        /\ b.held = boss.held \cup {"ref"} /\ b.remote = row /\ b.pc = "read"
    BY <1>1 DEF Boss
  <2> HIDE DEF b
  <2>2. boss' = b /\ started' = started /\ UNCHANGED <<RunAndDelivery, ref, launch>>
    BY <1>4 DEF ReadRemote, b
  <2> QED
    BY <1>1, <2>1, <2>2, KeepStep
<1> QED
  BY <1>2, <1>3, <1>4

\* Compensate, ScanRefs
LEMMA QueryStep ==
    ASSUME IInv, Compensate \/ ScanRefs
    PROVE  IInv' /\ MovesForward
<1>1. /\ boss \in Boss /\ started \in BOOLEAN /\ started' = started
      /\ UNCHANGED <<RunAndDelivery, ref, launch>>
  BY DEF IInv, Types, Compensate, ScanRefs
<1>2. PICK l \in Boss : l = Loaded(boss)
  BY LoadFits
<1>3. l.loaded /\ StatusFits(l) /\ l.remote = boss.remote
  BY <1>2, LoadFits
<1>4. ASSUME NEW p \in {"reconcile", "commit"}, boss' = [boss EXCEPT !.pc = p]
      PROVE  IInv' /\ MovesForward
  <2> DEFINE b == [boss EXCEPT !.pc = p]
  <2>1. /\ b \in Boss /\ b.mine = boss.mine /\ b.view = boss.view /\ b.loaded = boss.loaded
        /\ b.held = boss.held /\ b.remote = boss.remote /\ b.pc = p
    BY <1>1 DEF Boss
  <2>2. boss' = b
    BY <1>4
  <2> HIDE DEF b
  <2> QED
    BY <1>1, <2>1, <2>2, KeepStep
<1>5. CASE "overdue" \in Faults /\ boss' = [l EXCEPT !.pc = "call", !.path = "compensate", !.start = "pending"]
  <2> DEFINE b == [l EXCEPT !.pc = "call", !.path = "compensate", !.start = "pending"]
  <2>1. /\ b \in Boss /\ b.mine = l.mine /\ b.view = l.view /\ b.loaded = l.loaded
        /\ b.held = l.held /\ b.remote = l.remote
    BY DEF Boss
  <2>2. boss' = b
    BY <1>5
  <2> HIDE DEF b
  <2>3. StatusFits(b) /\ ~Careful /\ b.loaded
    BY <1>3, <1>5, <2>1 DEF StatusFits, Careful
  <2> QED
    BY <1>1, <1>3, <2>1, <2>2, <2>3, SessionStep
<1>6. CASE boss' = [l EXCEPT !.pc = "scanned"]
  <2> DEFINE b == [l EXCEPT !.pc = "scanned"]
  <2>1. /\ b \in Boss /\ b.mine = l.mine /\ b.view = l.view /\ b.loaded = l.loaded
        /\ b.held = l.held /\ b.remote = l.remote /\ b.pc = "scanned"
    BY DEF Boss
  <2>2. boss' = b
    BY <1>6
  <2> HIDE DEF b
  <2>3. StatusFits(b) /\ b.loaded
    BY <1>3, <2>1 DEF StatusFits
  <2> QED
    BY <1>1, <1>3, <2>1, <2>2, <2>3, SessionStep
<1> QED
  BY <1>2, <1>4, <1>5, <1>6 DEF Compensate, ScanRefs

\* LauncherBegins, RemoteFails, LauncherCrashes
LEMMA FreshStep ==
    ASSUME IInv, LauncherBegins \/ RemoteFails \/ LauncherCrashes
    PROVE  IInv' /\ MovesForward
<1>1. /\ ref \in Ref /\ launch \in {"pending", "delivered"} /\ started \in BOOLEAN
      /\ started' = started /\ UNCHANGED <<RunAndDelivery, ref, launch>>
  BY DEF IInv, Types, LauncherBegins, RemoteFails, LauncherCrashes
<1>2. CASE boss' = IdleBoss
  <2>1. StatusFits(IdleBoss)
    BY IdleSession DEF StatusFits
  <2> QED
    BY <1>1, <1>2, <2>1, IdleSession, SessionStep
<1>3. CASE LauncherBegins
  <2>1. PICK s \in Ref : s = IF SnapshotReads THEN ref ELSE NewRef
    BY <1>1, IdleSession
  <2>2. PICK p \in {"call", "compensate"} : p = IF launch = "pending" THEN "call" ELSE "compensate"
    OBVIOUS
  <2> DEFINE b == [IdleBoss EXCEPT !.pc = p, !.path = "deliver", !.start = launch, !.snap = s]
  <2>3. /\ b \in Boss /\ b.mine = IdleBoss.mine /\ b.view = IdleBoss.view /\ b.loaded = IdleBoss.loaded
        /\ b.remote = IdleBoss.remote
    <3>1. PICK i \in Boss : i = IdleBoss
      BY IdleSession
    <3> QED
      BY <1>1, <3>1 DEF Boss
  <2>4. boss' = b
    BY <1>3, <2>1, <2>2 DEF LauncherBegins
  <2> HIDE DEF b
  <2>5. StatusFits(b)
    BY <2>3, IdleSession DEF StatusFits
  <2> QED
    BY <1>1, <2>3, <2>4, <2>5, IdleSession, SessionStep
<1> QED
  BY <1>2, <1>3 DEF RemoteFails, LauncherCrashes

\* A commit of the session
LEMMA CommitStep ==
    ASSUME IInv, boss' = IdleBoss, launch' = boss.start, ref' \in Ref, RefFits',
           UNCHANGED <<RunAndDelivery, started>>
    PROVE  IInv'
<1>1. UNCHANGED <<row, feed, outbox, replays, disp, inflight, seen, archive, started>>
  BY DEF RunAndDelivery
<1>2. launch' \in {"pending", "delivered"}
  BY DEF IInv, Types, Boss
<1>3. Types'
  BY <1>1, <1>2, IdleSession DEF IInv, Types
<1>4. DispatcherFits' /\ Tells(row)'
  BY <1>1, DispatchersUnmoved DEF IInv, Tells
<1>5. LauncherFits'
  <2>1. boss'.remote.seq = 0 /\ Len(feed') \in Nat
    BY <1>1, IdleSession, LenProperties DEF IInv, Types
  <2>2. boss'.remote.seq <= Len(feed') /\ Tells(boss.remote)'
    BY <2>1 DEF Tells
  <2> QED
    BY <2>2, IdleSession DEF LauncherFits
<1> QED
  BY <1>3, <1>4, <1>5 DEF IInv

\* What the flush writes: a status only over pending_start, and never the numbers.
LEMMA FlushEffect ==
    ASSUME IInv, NEW b \in Boss, b.mine.status = boss.mine.status, b.view = boss.view,
           ref' = FlushRef(b), UNCHANGED <<feed, archive>>
    PROVE  ref' \in Ref /\ RefFits' /\ (Careful => MovesForward)
<1>1. ref \in Ref /\ RefFits /\ StatusFits(boss) /\ b.mine \in Ref /\ b.view \in Ref
  BY ReadFits DEF IInv, Types, Boss
<1>2. PICK st \in Run!RowStatuses \cup {"pending_start"} :
        /\ st = Net(b.mine.status, b.view.status, ref.status)
        /\ (st = ref.status) \/ (st = "pending" /\ (Careful => ref.status = "pending_start"))
  BY <1>1 DEF Net, Ref, StatusFits
<1>3. PICK v \in Nat : v = Net(b.mine.rv, b.view.rv, ref.rv)
  BY <1>1 DEF Net, Ref
<1>4. PICK r \in {"not_needed", "needed"} : r = Net(b.mine.recon, b.view.recon, ref.recon)
  BY <1>1 DEF Net, Ref
<1>5. PICK k \in BOOLEAN : k = Net(b.mine.keyed, b.view.keyed, ref.keyed)
  BY <1>1 DEF Net, Ref
<1>6. PICK p \in BOOLEAN : p = Net(b.mine.purged, b.view.purged, ref.purged)
  BY <1>1 DEF Net, Ref
<1>7. ref' = [ref EXCEPT !.status = st, !.rv = v, !.recon = r, !.keyed = k, !.purged = p]
  BY <1>2, <1>3, <1>4, <1>5, <1>6 DEF FlushRef
<1>8. ref' \in Ref /\ ref'.status = st /\ ref'.seq = ref.seq /\ ref'.sv = ref.sv
  BY <1>1, <1>7 DEF Ref
<1>9. CASE st = ref.status
  BY <1>1, <1>8, <1>9
     DEF RefFits, MovesForward, Tells, PublicationIsShown, SuccessIsPublished, PublishedStays
<1>10. CASE st = "pending" /\ (Careful => ref.status = "pending_start")
  <2>1. Careful => Tells(ref)' /\ MovesForward
    BY <1>1, <1>8, <1>10 DEF RefFits, Tells, MovesForward
  <2>2. PublicationIsShown'
    BY <1>1, <1>8, <1>10 DEF RefFits, PublicationIsShown, SuccessIsPublished, PublishedStays
  <2> QED
    BY <1>1, <1>8, <1>10, <2>1, <2>2 DEF RefFits
<1> QED
  BY <1>2, <1>9, <1>10

\* What reconcile_run writes: the summary it has read, which is newer.
LEMMA ReconciledEffect ==
    ASSUME IInv, NEW b, b.remote = boss.remote, Current(b), ~Unconfirmed(b.remote.status),
           ref' = Reconciled(b), UNCHANGED <<feed, archive>>
    PROVE  ref' \in Ref /\ RefFits' /\ MovesForward
<1>1. ref \in Ref /\ RefFits /\ boss.remote \in Summary /\ LauncherFits /\ Len(feed) \in Nat
  BY LenProperties DEF IInv, Types, Boss
<1>2. PICK st \in Run!RowStatuses : st = b.remote.status /\ st # "pending_start"
  BY <1>1 DEF Summary, Run!RowStatuses, Run!Outcomes
<1>3. PICK n \in Nat, v \in Nat, k \in Nat : n = b.remote.seq /\ v = b.remote.sv /\ k = ref.rv + 1
  BY <1>1 DEF Summary, Ref
<1>4. ref' = [ref EXCEPT !.status = st, !.seq = n, !.sv = v, !.rv = k, !.recon = "not_needed"]
  BY <1>2, <1>3 DEF Reconciled
<1>5. ref' \in Ref /\ ref'.status = st /\ ref'.seq = n /\ ref'.sv = v
  BY <1>1, <1>4 DEF Ref
<1>6. MovesForward
  BY <1>1, <1>3, <1>5 DEF Current, MovesForward, Ref
<1>7. Tells(ref)' /\ n <= Len(feed)
  BY <1>1, <1>2, <1>3, <1>5 DEF LauncherFits, Tells
<1>8. PublicationIsShown'
  BY <1>1, <1>2, <1>5 DEF Unconfirmed, RefFits, PublicationIsShown, SuccessIsPublished, PublishedStays
<1>9. RefFits'
  BY <1>2, <1>5, <1>7, <1>8 DEF RefFits
<1> QED
  BY <1>5, <1>6, <1>9

\* ReconcileAndCommit, LauncherCommits
LEMMA LauncherCommitStep ==
    ASSUME IInv, ReconcileAndCommit \/ LauncherCommits
    PROVE  IInv' /\ (Careful => MovesForward)
<1>1. /\ boss \in Boss /\ boss' = IdleBoss /\ launch' = boss.start
      /\ UNCHANGED <<RunAndDelivery, started>> /\ UNCHANGED <<feed, archive>>
  BY DEF IInv, Types, ReconcileAndCommit, LauncherCommits, RunAndDelivery
<1> SUFFICES ref' \in Ref /\ RefFits' /\ (Careful => MovesForward)
  BY <1>1, CommitStep
<1>2. CASE LauncherCommits
  <2>1. ref' = FlushRef(boss) \/ ref' = ref
    BY <1>2 DEF LauncherCommits
  <2> QED
    BY <1>1, <2>1, FlushEffect, RefUnmoved
<1>3. CASE ReconcileAndCommit
  <2>1. PICK p \in BOOLEAN : p = (boss.mine.purged \/ boss.remote.privacy = "purged")
    OBVIOUS
  <2> DEFINE b == [boss EXCEPT !.mine.purged = p]
             c == [b EXCEPT !.mine.recon = "needed"]
  <2>2. boss.mine \in Ref
    BY <1>1 DEF Boss
  <2>3. b \in Boss /\ b.mine.status = boss.mine.status /\ b.view = boss.view /\ b.remote = boss.remote
    <3>1. PICK m \in Ref : m = [boss.mine EXCEPT !.purged = p]
      BY <2>2 DEF Ref
    <3>2. m.status = boss.mine.status
      BY <2>2, <3>1 DEF Ref
    <3>3. b = [boss EXCEPT !.mine = m]
      BY <1>1, <3>1 DEF Boss
    <3> HIDE DEF b
    <3> QED
      BY <1>1, <3>2, <3>3 DEF Boss
  <2>4. \/ ref' = FlushRef(boss) \/ ref' = FlushRef(b) \/ ref' = FlushRef(c)
        \/ Current(b) /\ ~Unconfirmed(b.remote.status) /\ ref' = Reconciled(b)
    BY <1>3, <2>1 DEF ReconcileAndCommit
  <2> HIDE DEF b
  <2>5. c \in Boss /\ c.mine.status = b.mine.status /\ c.view = b.view
    <3>0. b.mine \in Ref
      BY <2>3 DEF Boss
    <3>1. PICK m \in Ref : m = [b.mine EXCEPT !.recon = "needed"]
      BY <3>0 DEF Ref
    <3>2. m.status = b.mine.status
      BY <3>0, <3>1 DEF Ref
    <3>3. c = [b EXCEPT !.mine = m]
      BY <2>3, <3>1 DEF Boss
    <3> HIDE DEF c
    <3> QED
      BY <2>3, <3>2, <3>3 DEF Boss
  <2> HIDE DEF c
  <2>6. CASE ref' = FlushRef(boss) \/ ref' = FlushRef(b) \/ ref' = FlushRef(c)
    BY <1>1, <2>3, <2>5, <2>6, FlushEffect
  <2>7. CASE Current(b) /\ ~Unconfirmed(b.remote.status) /\ ref' = Reconciled(b)
    BY <1>1, <2>3, <2>7, ReconciledEffect
  <2> QED
    BY <2>4, <2>6, <2>7
<1> QED
  BY <1>2, <1>3

\* The launcher's steps
LEMMA LauncherStep ==
    ASSUME IInv, Launcher
    PROVE  IInv' /\ (Careful => MovesForward)
BY BindStep, RequestStep, QueryStep, FreshStep, LauncherCommitStep DEF Launcher

-----------------------------------------------------------------------------
(* The theorems. *)

\* The initial states
LEMMA Initially ==
    ASSUME Init
    PROVE  IInv
<1>1. /\ row = [status |-> "pending", sv |-> 1, seq |-> 0, privacy |-> "active"] /\ feed = <<>>
      /\ started = FALSE /\ outbox = <<>> /\ replays = 0
      /\ disp = [d \in Dispatchers |-> IdleDispatcher] /\ inflight = {} /\ seen = {} /\ ref = NewRef
      /\ archive = [active |-> TRUE, published |-> FALSE, content |-> "baseline"]
      /\ launch = "pending" /\ boss = IdleBoss
  BY DEF Init, Run!Init
<1>2. Len(feed) = 0 /\ feed \in Seq(Callback) /\ outbox \in Seq(OutboxRow) /\ Len(outbox) = 0
  BY <1>1
<1>3. row \in Summary /\ row.seq = 0 /\ archive \in Archive
  BY <1>1 DEF Summary, Privacies, Archive, Run!RowStatuses
<1>4. \A d \in Dispatchers : /\ disp[d] \in Batch(Len(feed)) /\ disp[d].sent = {}
                             /\ disp[d].failed = {}
  BY <1>1, IdleBatch
<1>5. Types
  <2>1. disp \in [Dispatchers -> Batch(Len(feed))]
    BY <1>1, <1>4
  <2>2. boss \in Boss /\ ref \in Ref
    BY <1>1, IdleSession
  <2>3. replays \in 0..MaxReplays
    BY <1>1, DeliveryAssumption
  <2> QED
    BY <1>1, <1>2, <1>3, <2>1, <2>2, <2>3 DEF Types
<1>6. Tells(row)
  BY <1>3 DEF Tells
<1>7. ref.seq = 0 /\ ref.status = "pending_start" /\ ~archive.published
  BY <1>1 DEF NewRef
<1>8. RefFits
  BY <1>2, <1>7 DEF RefFits, Tells, PublicationIsShown, SuccessIsPublished, PublishedStays
<1>9. LauncherFits
  BY <1>1, <1>2, IdleSession DEF LauncherFits, Tells
<1>10. DispatcherFits
  BY <1>2, <1>4 DEF DispatcherFits, DeliveredWasAccepted, Claimed
<1> QED
  BY <1>5, <1>6, <1>8, <1>9, <1>10 DEF IInv

\* Every step
LEMMA StepKeeps ==
    ASSUME IInv, [Next]_vars
    PROVE  IInv' /\ (Careful => MovesForward)
<1>1. CASE RunStep
  <2>1. IInv'
    BY <1>1, RunAnnouncesStep, RunPendingStep, RunPurgedStep DEF RunStep
  <2>2. ref' = ref
    BY <1>1 DEF RunStep, RunAnnounces, RunRequeued, RunRetried, RunPurged, RunCommits, receiverVars
  <2> QED
    BY <2>1, <2>2 DEF MovesForward
<1>2. ASSUME NEW d \in Dispatchers, Dispatch(d) \/ DispatcherCrashes(d)
      PROVE  IInv' /\ MovesForward
  BY <1>2, DispatcherStep, CommitBatchStep DEF Dispatch
<1>3. CASE Receiver
  BY <1>3, ReceiverStep
<1>4. CASE Launcher
  BY <1>4, LauncherStep
<1>5. ASSUME NEW e \in 1..Len(outbox), ReplayDeadLetter(e)
      PROVE  IInv' /\ MovesForward
  BY <1>5, ReplayStep
<1>6. CASE UNCHANGED vars
  <2>1. UNCHANGED <<row, feed, started, outbox, replays, disp, inflight, seen, ref, archive, launch, boss>>
    BY <1>6 DEF vars
  <2>2. Types' /\ Tells(row)'
    BY <2>1 DEF IInv, Types, Tells
  <2>3. LauncherFits' /\ DispatcherFits' /\ RefFits' /\ MovesForward
    BY <2>1, LauncherUnmoved, DispatchersUnmoved, RefUnmoved
  <2> QED
    BY <2>2, <2>3 DEF IInv
<1> QED
  BY <1>1, <1>2, <1>3, <1>4, <1>5, <1>6 DEF Next

\* The inductive invariant holds in every reachable state.
THEOREM Invariance == Spec => []IInv
<1>1. Init => IInv
  BY Initially
<1>2. IInv /\ [Next]_vars => IInv'
  BY StepKeeps
<1> QED
  BY <1>1, <1>2, PTL DEF Spec

\* Outbox rows, sessions and references keep their types; in particular no row is
\* tried more often than MaxAttempts allows (Dispatcher.dispatch_pending).
THEOREM TypeCorrect == Spec => []TypeOK
<1>1. IInv => TypeOK
  <2> SUFFICES ASSUME IInv PROVE TypeOK
    OBVIOUS
  <2>1. row.status \in Run!RowStatuses /\ row.seq = Len(feed) /\ boss.view \in Ref /\ boss.mine \in Ref
    BY DEF IInv, Types, Summary, Boss
  <2>2. boss.held \subseteq {"archive", "ref"}
    BY DEF IInv, Types, Boss
  <2>3. \A d \in Dispatchers :
          disp[d] \in [todo : SUBSET (1..Len(feed)), sent : SUBSET (1..Len(feed)),
                       failed : SUBSET (1..Len(feed)),
                       privacy : {"unread", "active", "purge_requested", "purged"}]
    <3>1. {"unread"} \cup Privacies = {"unread", "active", "purge_requested", "purged"}
      BY DEF Privacies
    <3> HIDE DEF Privacies
    <3> QED
      BY <3>1 DEF IInv, Types, Batch
  <2> QED
    BY <2>1, <2>2, <2>3 DEF IInv, Types, OutboxRow, TypeOK
<1> QED
  BY <1>1, Invariance, PTL

\* While the receiver keeps its idempotency records, a row is marked delivered only
\* when the receiver has committed its answer: whatever dispatchers crash, time out,
\* race for a row or forget (Dispatcher.dispatch_pending, CommitBatch).
THEOREM AtLeastOnce ==
    ASSUME "expire" \notin Faults
    PROVE  Spec => []DeliveredWasAccepted
<1>1. IInv => DeliveredWasAccepted
  BY DEF IInv, DispatcherFits
<1> QED
  BY <1>1, Invariance, PTL

\* With reads that see the last commit, and no compensation of an overdue start, the
\* reference shows what some callback of the run said, or the requeue that followed
\* it, whatever arrives late, twice or out of order and however often the launcher
\* writes from an outdated session (MemoryAgentCallbackService.apply, reconcile_run).
THEOREM ProjectionTrue ==
    ASSUME "overdue" \notin Faults, SnapshotReads = FALSE
    PROVE  Spec => []ProjectionIsTrue
<1>1. IInv => ProjectionIsTrue
  <2> SUFFICES ASSUME IInv PROVE ProjectionIsTrue
    OBVIOUS
  <2>1. Tells(ref)
    BY DEF IInv, RefFits, Careful
  <2> QED
    BY <2>1 DEF Tells, ProjectionIsTrue
<1> QED
  BY <1>1, Invariance, PTL

\* Under the same conditions the shown status, once it has left pending_start, only
\* moves together with a newer callback number: nothing old is shown again.
THEOREM ShownMovesForward ==
    ASSUME "overdue" \notin Faults, SnapshotReads = FALSE
    PROVE  Spec => StatusOnlyMovesWithNews
<1>1. Careful
  BY DEF Careful
<1>2. IInv /\ [Next]_vars => [ref'.status # ref.status /\ ref.status # "pending_start" => ref'.seq > ref.seq]_ref
  BY <1>1, StepKeeps DEF MovesForward
<1> QED
  BY <1>2, Invariance, PTL DEF Spec, StatusOnlyMovesWithNews

\* A success is shown only for a published archive, and a published archive keeps its
\* status whatever arrives afterwards (MemoryAgentCallbackService.apply).
THEOREM PublicationShown == Spec => []PublicationIsShown
<1>1. IInv => PublicationIsShown
  BY DEF IInv, RefFits
<1> QED
  BY <1>1, Invariance, PTL

=============================================================================
