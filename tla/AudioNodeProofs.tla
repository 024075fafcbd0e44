-------------------------- MODULE AudioNodeProofs --------------------------
(***************************************************************************)
(* Theorems about AudioNode, for every number of scenes, segments, pieces  *)
(* of music and execution attempts, every cost and limit and every choice  *)
(* of faults unless a theorem excludes one.                                *)
(*                                                                         *)
(* The argument about objects: a key that is committed is never replaced,  *)
(* and a task uploads only under a committed key (KeysAgree, TasksFit).    *)
(* The argument about money needs that a commit does what it says: a slot  *)
(* that may have been charged is never open for another purchase           *)
(* (RowsFit), because the one task that holds the row's token is the only  *)
(* one that can say it failed (Tokens, PurchasesFit).  The argument about  *)
(* the budget does not need it: every caller has its price in the          *)
(* committed rows before it calls (Budget).                                *)
(***************************************************************************)
EXTENDS AudioNode, TLAPS, FiniteSetTheorems, WellFoundedInduction

-----------------------------------------------------------------------------
(* The inductive invariant: objects. *)

Pcs == {"todo", "wait", "call", "answered", "limited", "lost", "poll", "source", "fetch", "upload",
        "stored", "unsent", "done", "gone"}
NodeRow == [up : {"absent", "live", "over"}, stop : BOOLEAN, music : Music]
TaskRow == [pc : Pcs, token : Nat, tries : Nat]

\* The slots whose objects a document can name, and those that cost something.
Deliverable == Narrations \cup Music
Paid == Segments \cup PaidMusic

\* A committed key is not replaced by what is being written.
KeysAgree == \A s \in Slots : disk.job[s].key # NoKey => led.job[s].key = disk.job[s].key

OneMusic(jobs) ==
    \A m, n \in Music : jobs[m].state # "absent" /\ jobs[n].state # "absent" => m = n

\* Every object, also one that is still on its way, is named by a committed row.
Tracked == \A k \in store \cup late : \E s \in Slots : disk.job[s].key = k

Stored(s) == disk.job[s].key # NoKey /\ disk.job[s].key \in store

\* What the ledger calls uploaded is there until maintenance begins.
UploadsStand ==
    ~aged => \A s \in Slots : led.job[s].state = "uploaded" \/ disk.job[s].state = "uploaded" => Stored(s)

\* The task has stored its object, or found it.
Reports(p, s) == task[p][s].pc = "stored" \/ (task[p][s].pc = "done" /\ s \in Deliverable)

\* A task uploads under a committed key, and reports what is there.
TaskFits(p, s) ==
    /\ task[p][s].pc \in {"upload", "stored", "unsent"} => disk.job[s].key # NoKey
    /\ ~aged /\ Reports(p, s) => Stored(s)

TasksFit == \A p \in Nodes : \A s \in Slots : TaskFits(p, s)

\* The provider charges for music it has made or is making, and for nothing that
\* is made here.
ChargesFit ==
    /\ \A m \in PaidMusic : song[m] \in {"running", "ok"} => charged[m] >= 1
    /\ \A s \in Slots \ Paid : charged[s] = 0

\* Maintenance begins when no attempt is left.
Rested == aged => \A p \in Nodes : node[p].up # "live"

LedgerFits == KeysAgree /\ OneMusic(led.job) /\ OneMusic(disk.job) /\ Tracked /\ UploadsStand

Objects == TypeOK /\ LedgerFits /\ TasksFit /\ ChargesFit /\ Rested /\ PublishedIsKept

-----------------------------------------------------------------------------
(* The inductive invariant: money, when a commit does what it says. *)

Reliable == "commit" \notin Faults

\* What is being written is at least as new as what is committed.
Ahead ==
    \A s \in Slots :
        /\ disk.job[s].token <= led.job[s].token
        /\ disk.job[s].token = led.job[s].token => disk.job[s].owner = led.job[s].owner
        /\ led.job[s].token = 0 => led.job[s].owner = 0
        /\ disk.job[s].token = 0 => disk.job[s].owner = 0

\* A task has at most the token its row has; who has that token owns the row.
TokenFits(p, s) ==
    /\ task[p][s].token <= View(p)[s].token
    /\ task[p][s].token = View(p)[s].token /\ View(p)[s].token # 0 => View(p)[s].owner = p

Tokens == \A p \in Nodes : \A s \in Slots : node[p].up = "live" => TokenFits(p, s)

\* Of a slot that costs something only the lease is written without a commit.
PaidAgree ==
    \A s \in Paid :
        /\ led.job[s].state = disk.job[s].state /\ led.job[s].token = disk.job[s].token
        /\ led.job[s].owner = disk.job[s].owner /\ led.job[s].settled = disk.job[s].settled
        /\ led.job[s].reserved = disk.job[s].reserved /\ led.job[s].task = disk.job[s].task

\* A slot that is open for a purchase was not charged for.
RowFits(s) ==
    /\ charged[s] <= 1
    /\ led.job[s].state = "absent" => charged[s] = 0
    /\ led.job[s].state # "absent" => led.job[s].reserved > 0 /\ led.job[s].token > 0
    /\ led.job[s].state = "failed" /\ ~aged => charged[s] = 0 \/ led.job[s].settled
    /\ s \in PaidMusic /\ song[s] = "failed" /\ led.job[s].state \in {"submitted", "processing"} =>
         charged[s] = 0

\* What a purchasing task knows of its slot.
Holds(p, s) == task[p][s].token = led.job[s].token

PurchaseFits(p, s) ==
    /\ task[p][s].pc \in {"call", "limited", "answered"} =>
         Holds(p, s) /\ led.job[s].state = "submitting"
    /\ task[p][s].pc \in {"call", "limited"} => charged[s] = 0
    /\ task[p][s].pc = "answered" /\ s \in PaidMusic /\ song[s] = "failed" => charged[s] = 0
    /\ task[p][s].pc = "poll" /\ Holds(p, s) => led.job[s].state \notin {"reserved", "submitting"}
    /\ task[p][s].pc \in {"fetch", "upload", "stored", "unsent"} /\ Holds(p, s) => led.job[s].settled

RowsFit == \A s \in Paid : RowFits(s)
PurchasesFit == \A p \in Nodes : \A s \in Paid : node[p].up = "live" => PurchaseFits(p, s)

Money == Ahead /\ Tokens /\ PaidAgree /\ RowsFit /\ PurchasesFit

IInv == Objects /\ (Reliable => Money)

-----------------------------------------------------------------------------
(* Slots and types. *)

\* The kinds of slots do not overlap, and the paid ones cost something.
LEMMA SlotFacts ==
    /\ Paid \subseteq Slots /\ Deliverable \subseteq Slots /\ PaidMusic \subseteq Music
    /\ Deliverable \cap Segments = {} /\ Narrations \cap Music = {}
    /\ Paid \cap Narrations = {} /\ Paid \cap DefaultMusic = {} /\ Paid \cap Music = PaidMusic
    /\ \A s \in Paid : Cost(s) \in Nat /\ Cost(s) > 0
    /\ \A s \in Slots : Cost(s) \in Nat
<1>1. Segments \subseteq Scenes \X (0..Parts) /\ Narrations \subseteq Scenes \X (0..Parts)
  BY AudioAssumption DEF AudioAssumption, Segments, Narrations
<1>2. Segments \cap Narrations = {}
  BY AudioAssumption DEF AudioAssumption, Segments, Narrations
<1>3. Segments \cap Music = {} /\ Narrations \cap Music = {}
  BY <1>1, AudioAssumption DEF AudioAssumption, Music
<1>4. DefaultMusic \cap PaidMusic = {} /\ Music = DefaultMusic \cup PaidMusic
  BY AudioAssumption DEF AudioAssumption, Music
<1>5. \A s \in Paid : Cost(s) \in Nat /\ Cost(s) > 0
  BY AudioAssumption DEF AudioAssumption, Paid, Cost
<1>6. \A s \in Slots : Cost(s) \in Nat
  BY AudioAssumption DEF AudioAssumption, Cost
<1> QED
  BY <1>2, <1>3, <1>4, <1>5, <1>6 DEF Paid, Deliverable, Slots

\* A slot is one of its unit's.
LEMMA UnitHasSlot ==
    ASSUME NEW s \in Slots
    PROVE  s \in Unit(s) /\ (s \in Deliverable => \A t \in Unit(s) : t \in Deliverable => t = s)
<1>1. CASE s \in Music
  BY <1>1 DEF Unit
<1>2. CASE s \notin Music
  <2>1. s \in Scenes \X (0..Parts)
    BY <1>2, AudioAssumption DEF AudioAssumption, Slots, Segments, Narrations
  <2>2. Unit(s) = {s[1]} \X (0..Parts)
    BY <1>2 DEF Unit
  <2>3. s \in Unit(s)
    BY <2>1, <2>2
  <2>4. ASSUME s \in Deliverable, NEW t \in Unit(s), t \in Deliverable PROVE t = s
    <3>1. s \in Narrations /\ s[2] = 0
      BY <1>2, <2>4 DEF Deliverable, Narrations
    <3>2. t \notin Music
      BY <2>1, <2>2, <2>4, AudioAssumption DEF AudioAssumption, Music
    <3>3. t \in Narrations /\ t[2] = 0 /\ t[1] = s[1]
      BY <2>2, <2>4, <3>2 DEF Deliverable, Narrations
    <3> QED
      BY <3>1, <3>3 DEF Narrations
  <2> QED
    BY <2>3, <2>4
<1> QED
  BY <1>1, <1>2

\* The parts of the state's types.
LEMMA Types ==
    ASSUME TypeOK
    PROVE  /\ run.attempt \in Nodes /\ run.active \in BOOLEAN /\ 0 \notin Nodes /\ Nodes \subseteq Nat
           /\ led \in Ledger /\ disk \in Ledger
           /\ led.job \in [Slots -> Job] /\ disk.job \in [Slots -> Job]
           /\ led.budget \in Nat /\ disk.budget \in Nat
           /\ lock \in {0} \cup Nodes /\ (lock = 0 => led = disk)
           /\ node \in [Nodes -> NodeRow] /\ task \in [Nodes -> [Slots -> TaskRow]]
           /\ charged \in [Slots -> Nat]
           /\ song \in [PaidMusic -> {"none", "running", "ok", "failed"}]
           /\ store \subseteq Nodes \X Slots /\ late \subseteq Nodes \X Slots
           /\ published \in [done : BOOLEAN, keys : SUBSET (Nodes \X Slots)]
           /\ aged \in BOOLEAN
<1>1. 0 \notin Nodes /\ Nodes \subseteq Nat
  BY AudioAssumption DEF Nodes, AudioAssumption
<1>2. run.attempt \in Nodes /\ run.active \in BOOLEAN
  BY DEF TypeOK
<1>3. led \in Ledger /\ disk \in Ledger /\ lock \in {0} \cup Nodes /\ (lock = 0 => led = disk)
  BY DEF TypeOK
<1>4. /\ led.job \in [Slots -> Job] /\ disk.job \in [Slots -> Job]
      /\ led.budget \in Nat /\ disk.budget \in Nat
  BY <1>3 DEF Ledger
<1>5. node \in [Nodes -> NodeRow] /\ task \in [Nodes -> [Slots -> TaskRow]]
  BY DEF TypeOK, NodeRow, TaskRow, Pcs
<1> QED
  BY <1>1, <1>2, <1>3, <1>4, <1>5 DEF TypeOK

\* A row of the ledger by its columns.
LEMMA JobFields ==
    ASSUME NEW j \in Job
    PROVE  /\ j.state \in States /\ j.attempt \in Nat /\ j.token \in Nat /\ j.owner \in Nat
           /\ j.lapsed \in BOOLEAN /\ j.key \in {NoKey} \cup (Nodes \X Slots)
           /\ j.reserved \in Nat /\ j.settled \in BOOLEAN /\ j.task \in BOOLEAN
BY DEF Job

\* Who may write reads what it writes.
LEMMA ViewIsLed ==
    ASSUME TypeOK, NEW p \in Nodes, lock \in {0, p}
    PROVE  View(p) = led.job
BY Types DEF View

\* Objects have keys.
LEMMA KeysAreKeys == NoKey \notin Nodes \X Slots
BY DEF NoKey

-----------------------------------------------------------------------------
(* What a step of task s of process p does to the tasks. *)

\* Another task of the process is left alone or given up with it.
Aside(p, t) ==
    \/ task'[p][t] = task[p][t]
    \/ /\ task'[p][t].token = task[p][t].token
       /\ \/ task'[p][t].pc = "gone"
          \/ task'[p][t].pc = "done" /\ t \notin Deliverable

Moves(p, s, pc, tok) ==
    /\ node' \in [Nodes -> NodeRow] /\ task' \in [Nodes -> [Slots -> TaskRow]]
    /\ \A q \in Nodes : node'[q].up = node[q].up
    /\ \A q \in Nodes \ {p} : task'[q] = task[q]
    /\ task'[p][s].pc = pc /\ task'[p][s].token = tok
    /\ \A t \in Slots \ {s} : Aside(p, t)

\* Goto moves one task.
LEMMA GotoMoves ==
    ASSUME TypeOK, NEW p \in Nodes, NEW s \in Slots, NEW pc \in Pcs, Goto(p, s, pc)
    PROVE  Moves(p, s, pc, task[p][s].token)
<1> DEFINE new == [task[p][s] EXCEPT !.pc = pc]
<1>1. node \in [Nodes -> NodeRow] /\ task \in [Nodes -> [Slots -> TaskRow]] /\ task[p][s] \in TaskRow
  BY Types
<1>2. new \in TaskRow /\ new.pc = pc /\ new.token = task[p][s].token
  BY <1>1 DEF TaskRow
<1>3. task' = [task EXCEPT ![p] = [task[p] EXCEPT ![s] = new]] /\ node' = node
  BY <1>1 DEF Goto
<1> HIDE DEF new
<1>4. task'[p] = [task[p] EXCEPT ![s] = new]
  BY <1>1, <1>3
<1> QED
  BY <1>1, <1>2, <1>3, <1>4 DEF Moves, Aside

\* The token of a row is taken along, and the process may be told to stop.
LEMMA TakeMoves ==
    ASSUME TypeOK, NEW p \in Nodes, NEW s \in Slots, NEW pc \in Pcs, NEW tok \in Nat,
           task' = [task EXCEPT ![p][s].pc = pc, ![p][s].token = tok],
           \/ UNCHANGED node
           \/ node' = [node EXCEPT ![p].stop = TRUE]
    PROVE  Moves(p, s, pc, tok)
<1> DEFINE new == [task[p][s] EXCEPT !.pc = pc, !.token = tok]
<1>1. node \in [Nodes -> NodeRow] /\ task \in [Nodes -> [Slots -> TaskRow]] /\ task[p][s] \in TaskRow
  BY Types
<1>2. new \in TaskRow /\ new.pc = pc /\ new.token = tok
  BY <1>1 DEF TaskRow
<1>3. task' = [task EXCEPT ![p] = [task[p] EXCEPT ![s] = new]]
  BY <1>1
<1> HIDE DEF new
<1>4. task'[p] = [task[p] EXCEPT ![s] = new]
  BY <1>1, <1>3
<1>5. node' \in [Nodes -> NodeRow] /\ \A q \in Nodes : node'[q].up = node[q].up
  <2>1. CASE UNCHANGED node
    BY <1>1, <2>1
  <2>2. CASE node' = [node EXCEPT ![p].stop = TRUE]
    <3> DEFINE row == [node[p] EXCEPT !.stop = TRUE]
    <3>1. node' = [node EXCEPT ![p] = row] /\ row \in NodeRow /\ row.up = node[p].up
      BY <1>1, <2>2 DEF NodeRow
    <3> HIDE DEF row
    <3> QED
      BY <1>1, <3>1
  <2> QED
    BY <2>1, <2>2
<1>6. task' \in [Nodes -> [Slots -> TaskRow]] /\ \A q \in Nodes \ {p} : task'[q] = task[q]
  <2> DEFINE f == [task[p] EXCEPT ![s] = new]
  <2>1. f \in [Slots -> TaskRow] /\ task' = [task EXCEPT ![p] = f]
    BY <1>1, <1>2, <1>3
  <2> HIDE DEF f
  <2> QED
    BY <1>1, <2>1
<1>7. task'[p][s] = new /\ \A t \in Slots \ {s} : task'[p][t] = task[p][t]
  BY <1>1, <1>4
<1> QED
  BY <1>2, <1>5, <1>6, <1>7 DEF Moves, Aside

\* A unit that is given up.
LEMMA GiveUpMoves ==
    ASSUME TypeOK, NEW p \in Nodes, NEW s \in Slots, NEW stop \in BOOLEAN, GiveUp(p, s, stop)
    PROVE  Moves(p, s, "gone", task[p][s].token)
<1> DEFINE new(t) == [task[p][t] EXCEPT !.pc = "gone"]
           all == [t \in Slots |-> IF t \in Unit(s) THEN new(t) ELSE task[p][t]]
<1>1. node \in [Nodes -> NodeRow] /\ task \in [Nodes -> [Slots -> TaskRow]]
      /\ \A t \in Slots : task[p][t] \in TaskRow
  BY Types
<1>2. \A t \in Slots : new(t) \in TaskRow /\ new(t).pc = "gone" /\ new(t).token = task[p][t].token
  BY <1>1 DEF TaskRow, Pcs
<1>3. task' = [task EXCEPT ![p] = all] /\ node' = [node EXCEPT ![p].stop = @ \/ stop]
  BY DEF GiveUp
<1> HIDE DEF new
<1>4. all \in [Slots -> TaskRow]
  BY <1>1, <1>2
<1>5. \A t \in Slots : all[t] = IF t \in Unit(s) THEN new(t) ELSE task[p][t]
  OBVIOUS
<1> HIDE DEF all
<1>6. task'[p] = all /\ task' \in [Nodes -> [Slots -> TaskRow]] /\ \A q \in Nodes \ {p} : task'[q] = task[q]
  BY <1>1, <1>3, <1>4
<1>7. node' \in [Nodes -> NodeRow] /\ \A q \in Nodes : node'[q].up = node[q].up
  <2> DEFINE b == node[p].stop \/ stop
  <2>1. b \in BOOLEAN /\ node' = [node EXCEPT ![p].stop = b]
    BY <1>3
  <2> HIDE DEF b
  <2> QED
    BY <1>1, <2>1 DEF NodeRow
<1>8. task'[p][s].pc = "gone" /\ task'[p][s].token = task[p][s].token
  BY <1>2, <1>5, <1>6, UnitHasSlot
<1>9. \A t \in Slots \ {s} : Aside(p, t)
  BY <1>2, <1>5, <1>6 DEF Aside
<1> QED
  BY <1>6, <1>7, <1>8, <1>9 DEF Moves

-----------------------------------------------------------------------------
(* What a step of task s of process p does to the ledger. *)

Wrote(p, l) == Write(p, l) \/ Commit(p, l) \/ CommitFails(p, l)

\* Only the slot's row and the budget are changed.
SameBut(l, s) == l \in Ledger /\ \A t \in Slots \ {s} : l.job[t] = led.job[t]

\* A key stays, a new piece of music is the only one, an upload is there.
Lawful(l, s) ==
    /\ led.job[s].key # NoKey => l.job[s].key = led.job[s].key
    /\ l.job[s].state # "absent" => led.job[s].state # "absent" \/ Siblings(led.job, s) = {}
    /\ l.job[s].state = "uploaded" /\ ~aged => Stored(s)

\* Committed keys stay.
Persist == \A t \in Slots : disk.job[t].key # NoKey => disk'.job[t].key = disk.job[t].key

\* A lawful write leaves a ledger that fits, committed or not.
LEMMA LedgerStep ==
    ASSUME Objects, NEW p \in Nodes, NEW s \in Slots, NEW l, SameBut(l, s), Lawful(l, s),
           Wrote(p, l), UNCHANGED <<store, late, aged>>
    PROVE  /\ led' \in Ledger /\ disk' \in Ledger /\ lock' \in {0} \cup Nodes
           /\ lock' = 0 => led' = disk'
           /\ LedgerFits' /\ Persist
<1>1. TypeOK /\ led \in Ledger /\ disk \in Ledger /\ l \in Ledger
  BY Types DEF Objects, SameBut
<1>2. \A t \in Slots : led.job[t].key # NoKey => l.job[t].key = led.job[t].key
  BY DEF SameBut, Lawful
<1>3. \A t \in Slots : disk.job[t].key # NoKey => l.job[t].key = disk.job[t].key
  BY <1>2 DEF Objects, LedgerFits, KeysAgree
<1>4. \A t \in Slots : l.job[t].state = "uploaded" /\ ~aged => Stored(t)
  BY DEF SameBut, Lawful, Objects, LedgerFits, UploadsStand
<1>5. OneMusic(l.job)
  <2> SUFFICES ASSUME NEW m \in Music, NEW n \in Music, m # n,
                      l.job[m].state # "absent", l.job[n].state # "absent"
               PROVE  FALSE
    BY DEF OneMusic
  <2>1. m \in Slots /\ n \in Slots
    BY DEF Slots
  <2>2. OneMusic(led.job)
    BY DEF Objects, LedgerFits
  <2>3. CASE s # m /\ s # n
    BY <2>1, <2>2, <2>3 DEF SameBut, OneMusic
  <2>4. CASE s = m
    <3>1. led.job[n].state # "absent"
      BY <2>1, <2>4 DEF SameBut
    <3>2. n \in Siblings(led.job, s)
      BY <2>4, <3>1 DEF Siblings
    <3> QED
      BY <2>2, <2>4, <3>1, <3>2 DEF Lawful, OneMusic
  <2>5. CASE s = n
    <3>1. led.job[m].state # "absent"
      BY <2>1, <2>5 DEF SameBut
    <3>2. m \in Siblings(led.job, s)
      BY <2>5, <3>1 DEF Siblings
    <3> QED
      BY <2>2, <2>5, <3>1, <3>2 DEF Lawful, OneMusic
  <2> QED
    BY <2>3, <2>4, <2>5
<1>6. OneMusic(led.job) /\ OneMusic(disk.job)
  BY DEF Objects, LedgerFits
<1>7. \/ led' = l /\ disk' = disk /\ lock' = p
      \/ led' = l /\ disk' = l /\ lock' = 0
      \/ led' = disk /\ disk' = disk /\ lock' = 0
  BY DEF Wrote, Write, Locked, Commit, CommitFails
<1>8. Persist
  BY <1>3, <1>7 DEF Persist
<1>9. KeysAgree'
  BY <1>3, <1>7 DEF KeysAgree
<1>10. OneMusic(led.job)' /\ OneMusic(disk.job)'
  BY <1>5, <1>6, <1>7 DEF OneMusic
<1>11. store' = store /\ late' = late /\ aged' = aged
  OBVIOUS
<1>12. Tracked'
  <2> SUFFICES ASSUME NEW k \in store \cup late PROVE \E t \in Slots : disk'.job[t].key = k
    BY <1>11 DEF Tracked
  <2>1. PICK t \in Slots : disk.job[t].key = k
    BY DEF Objects, LedgerFits, Tracked
  <2>2. k # NoKey
    BY <1>1, Types, KeysAreKeys
  <2> QED
    BY <1>8, <2>1, <2>2 DEF Persist
<1>13. \A t \in Slots : Stored(t) => Stored(t)'
  BY <1>8, <1>11 DEF Stored, Persist
<1>14. UploadsStand'
  BY <1>4, <1>7, <1>11, <1>13 DEF UploadsStand, Objects, LedgerFits
<1>15. led' \in Ledger /\ disk' \in Ledger /\ lock' \in {0} \cup Nodes /\ (lock' = 0 => led' = disk')
  BY <1>1, <1>7, Types
<1> QED
  BY <1>8, <1>9, <1>10, <1>12, <1>14, <1>15 DEF LedgerFits

\* Tasks that are left alone keep what they have.
LEMMA TasksStep ==
    ASSUME Objects, NEW p \in Nodes, NEW s \in Slots, NEW pc, NEW tok, Moves(p, s, pc, tok),
           Persist, store \subseteq store', UNCHANGED aged, TaskFits(p, s)'
    PROVE  TasksFit'
<1>1. \A t \in Slots : Stored(t) => Stored(t)'
  BY DEF Stored, Persist
<1>2. ASSUME NEW q \in Nodes, NEW t \in Slots, q # p \/ t # s PROVE TaskFits(q, t)'
  <2>1. TaskFits(q, t)
    BY DEF Objects, TasksFit
  <2>2. CASE task'[q][t] = task[q][t]
    BY <1>1, <2>1, <2>2 DEF TaskFits, Reports, Persist
  <2>3. CASE task'[q][t].pc = "gone" \/ (task'[q][t].pc = "done" /\ t \notin Deliverable)
    BY <2>3 DEF TaskFits, Reports
  <2> QED
    BY <1>2, <2>2, <2>3 DEF Moves, Aside
<1> QED
  BY <1>2 DEF TasksFit

\* A step that writes tasks, and the ledger lawfully or not at all.
LEMMA ObjectsStep ==
    ASSUME Objects, NEW p \in Nodes, NEW s \in Slots, NEW pc, NEW tok, Moves(p, s, pc, tok),
           \/ UNCHANGED ledgerVars
           \/ \E l : SameBut(l, s) /\ Lawful(l, s) /\ Wrote(p, l),
           UNCHANGED <<run, charged, song, store, late, published, aged>>,
           pc \in {"upload", "stored", "unsent"} => disk'.job[s].key # NoKey,
           ~aged /\ (pc = "stored" \/ (pc = "done" /\ s \in Deliverable)) => Stored(s)
    PROVE  Objects'
<1>1. /\ led' \in Ledger /\ disk' \in Ledger /\ lock' \in {0} \cup Nodes
      /\ lock' = 0 => led' = disk'
      /\ LedgerFits' /\ Persist
  <2>1. CASE UNCHANGED ledgerVars
    <3>1. led' = led /\ disk' = disk /\ lock' = lock /\ store' = store /\ late' = late /\ aged' = aged
      BY <2>1 DEF ledgerVars
    <3>2. LedgerFits'
      BY <3>1 DEF Objects, LedgerFits, KeysAgree, OneMusic, Tracked, UploadsStand, Stored
    <3> QED
      BY <3>1, <3>2, Types DEF Objects, Persist
  <2>2. CASE \E l : SameBut(l, s) /\ Lawful(l, s) /\ Wrote(p, l)
    BY <2>2, LedgerStep
  <2> QED
    BY <2>1, <2>2
<1>2. TaskFits(p, s)'
  <2>1. Stored(s) => Stored(s)'
    BY <1>1 DEF Stored, Persist
  <2> QED
    BY <2>1 DEF TaskFits, Reports, Moves
<1>3. TasksFit'
  BY <1>1, <1>2, TasksStep
<1>4. TypeOK'
  BY <1>1 DEF Objects, TypeOK, Moves, NodeRow, TaskRow, Pcs
<1>5. Rested'
  BY DEF Objects, Rested, Moves
<1> QED
  BY <1>1, <1>3, <1>4, <1>5 DEF Objects, ChargesFit, PublishedIsKept

-----------------------------------------------------------------------------
(* What such a step does to tokens and purchases, when commits are reliable. *)

\* The row keeps its token and owner, or p gets the next one.
Issues(p, l, s) ==
    \/ l.job[s].token = led.job[s].token /\ l.job[s].owner = led.job[s].owner
    \/ l.job[s].token = led.job[s].token + 1 /\ l.job[s].owner = p

\* What is written is at least as new as what was there.
LEMMA TokensGrow ==
    ASSUME TypeOK, Money, NEW p \in Nodes, NEW s \in Slots, NEW l, SameBut(l, s), Issues(p, l, s),
           NEW t \in Slots
    PROVE  /\ led.job[t].token \in Nat /\ disk.job[t].token \in Nat /\ l.job[t].token \in Nat
           /\ disk.job[t].token <= led.job[t].token /\ led.job[t].token <= l.job[t].token
           /\ l.job[t].token = led.job[t].token => l.job[t].owner = led.job[t].owner
           /\ l.job[t].token = disk.job[t].token =>
                l.job[t].owner = disk.job[t].owner /\ led.job[t].token = disk.job[t].token
           /\ l.job[t].token = 0 => l.job[t].owner = 0
<1>1. led.job[t] \in Job /\ disk.job[t] \in Job /\ l.job[t] \in Job
  BY Types DEF SameBut, Ledger
<1>2. led.job[t].token \in Nat /\ disk.job[t].token \in Nat /\ l.job[t].token \in Nat
  BY <1>1, JobFields
<1>3. /\ disk.job[t].token <= led.job[t].token
      /\ disk.job[t].token = led.job[t].token => disk.job[t].owner = led.job[t].owner
      /\ led.job[t].token = 0 => led.job[t].owner = 0
  BY DEF Money, Ahead
<1>4. /\ led.job[t].token <= l.job[t].token
      /\ l.job[t].token = led.job[t].token => l.job[t].owner = led.job[t].owner
  <2>1. CASE t # s
    BY <1>2, <2>1 DEF SameBut
  <2>2. CASE t = s
    BY <1>2, <2>2 DEF Issues
  <2> QED
    BY <2>1, <2>2
<1>5. l.job[t].token = disk.job[t].token => led.job[t].token = disk.job[t].token
  BY <1>2, <1>3, <1>4
<1>6. l.job[t].token = 0 => led.job[t].token = 0
  BY <1>2, <1>4
<1> QED
  BY <1>2, <1>3, <1>4, <1>5, <1>6

\* Tokens after a write.
LEMMA TokensStep ==
    ASSUME TypeOK, Money, NEW p \in Nodes, NEW s \in Slots, NEW l, SameBut(l, s), Issues(p, l, s),
           Write(p, l) \/ Commit(p, l), node[p].up = "live",
           NEW pc, NEW tok, Moves(p, s, pc, tok),
           tok = task[p][s].token \/ (tok = l.job[s].token /\ l.job[s].owner = p)
    PROVE  Ahead' /\ Tokens'
<1>1. \/ led' = l /\ disk' = disk /\ lock' = p
      \/ led' = l /\ disk' = l /\ lock' = 0
  BY DEF Write, Locked, Commit
<1>2. lock \in {0, p} /\ View(p) = led.job
  BY ViewIsLed DEF Write, Locked, Commit
<1>3. 0 \notin Nodes
  BY Types
<1>4. Ahead'
  BY <1>1, TokensGrow DEF Money, Ahead
<1>5. ASSUME NEW q \in Nodes, NEW t \in Slots, node'[q].up = "live" PROVE TokenFits(q, t)'
  <2>1. node[q].up = "live" /\ TokenFits(q, t)
    BY <1>5 DEF Moves, Money, Tokens
  <2>2. task[q][t].token \in Nat
    BY Types DEF TaskRow
  <2>3. CASE q = p /\ t = s
    <3>1. View(p)' = l.job
      BY <1>1, <1>3 DEF View
    <3>2. task'[q][t].token = tok
      BY <2>3 DEF Moves
    <3>3. CASE tok = task[p][s].token
      <4>1. tok <= led.job[s].token /\ (tok = led.job[s].token /\ led.job[s].token # 0 => led.job[s].owner = p)
        BY <1>2, <2>1, <2>3, <3>3 DEF TokenFits
      <4>2. led.job[s].token \in Nat /\ l.job[s].token \in Nat /\ led.job[s].token <= l.job[s].token
            /\ (l.job[s].token = led.job[s].token => l.job[s].owner = led.job[s].owner)
        BY TokensGrow
      <4>3. tok \in Nat
        BY <2>2, <2>3, <3>3
      <4>4. tok <= l.job[s].token /\ (tok = l.job[s].token => tok = led.job[s].token)
        BY <4>1, <4>2, <4>3
      <4> QED
        BY <2>3, <3>1, <3>2, <4>1, <4>2, <4>4 DEF TokenFits
    <3>4. CASE tok = l.job[s].token /\ l.job[s].owner = p
      <4>1. l.job[s].token \in Nat
        BY TokensGrow
      <4> QED
        BY <2>3, <3>1, <3>2, <3>4, <4>1 DEF TokenFits
    <3> QED
      BY <3>3, <3>4
  <2>4. CASE q = p /\ t # s
    <3>1. View(p)' = l.job
      BY <1>1, <1>3 DEF View
    <3>2. task'[q][t].token = task[q][t].token
      BY <2>4 DEF Moves, Aside
    <3>3. l.job[t] = led.job[t]
      BY <2>4 DEF SameBut
    <3> QED
      BY <1>2, <2>1, <2>4, <3>1, <3>2, <3>3 DEF TokenFits
  <2>5. CASE q # p
    <3>1. task'[q] = task[q] /\ q # 0
      BY <1>3, <2>5 DEF Moves
    <3>2. View(q) = disk.job /\ View(q)' = disk'.job
      BY <1>1, <1>2, <2>5, <3>1 DEF View
    <3>3. CASE disk' = disk
      BY <2>1, <3>1, <3>2, <3>3 DEF TokenFits
    <3>4. CASE disk' = l
      <4>1. task[q][t].token <= disk.job[t].token
            /\ (task[q][t].token = disk.job[t].token /\ disk.job[t].token # 0 => disk.job[t].owner = q)
        BY <2>1, <3>2 DEF TokenFits
      <4>2. /\ led.job[t].token \in Nat /\ disk.job[t].token \in Nat /\ l.job[t].token \in Nat
            /\ disk.job[t].token <= led.job[t].token /\ led.job[t].token <= l.job[t].token
            /\ l.job[t].token = disk.job[t].token => l.job[t].owner = disk.job[t].owner
        BY TokensGrow
      <4>3. task[q][t].token <= l.job[t].token
            /\ (task[q][t].token = l.job[t].token => l.job[t].token = disk.job[t].token)
        BY <2>2, <4>1, <4>2
      <4> QED
        BY <3>1, <3>2, <3>4, <4>1, <4>2, <4>3 DEF TokenFits
    <3> QED
      BY <1>1, <3>3, <3>4
  <2> QED
    BY <2>3, <2>4, <2>5
<1> QED
  BY <1>4, <1>5 DEF Tokens

\* Nobody else holds the row that is written, or what they know of it stays true.
Mine(p, l, s) ==
    \/ Holds(p, s) /\ led.job[s].token # 0
    \/ l.job[s].token = led.job[s].token + 1 /\ led.job[s].state # "submitting"
    \/ /\ l.job[s].token = led.job[s].token /\ l.job[s].state = led.job[s].state
       /\ l.job[s].settled = led.job[s].settled

\* The columns that a paid slot never has uncommitted.
SamePaid(l, s) ==
    /\ l.job[s].token = led.job[s].token /\ l.job[s].owner = led.job[s].owner
    /\ l.job[s].state = led.job[s].state /\ l.job[s].settled = led.job[s].settled
    /\ l.job[s].reserved = led.job[s].reserved /\ l.job[s].task = led.job[s].task

\* The money after a write.
LEMMA MoneyStep ==
    ASSUME TypeOK, Money, NEW p \in Nodes, NEW s \in Slots, NEW l, SameBut(l, s), Issues(p, l, s),
           Write(p, l) \/ Commit(p, l), node[p].up = "live",
           NEW pc, NEW tok, Moves(p, s, pc, tok),
           tok = task[p][s].token \/ (tok = l.job[s].token /\ l.job[s].owner = p),
           UNCHANGED <<charged, song, aged>>,
           s \in Paid => /\ Write(p, l) => SamePaid(l, s)
                         /\ Mine(p, l, s)
                         /\ RowFits(s)' /\ PurchaseFits(p, s)'
    PROVE  Money'
<1>1. Ahead' /\ Tokens'
  BY TokensStep
<1>2. led' = l /\ (disk' = l \/ (disk' = disk /\ Write(p, l)))
  BY DEF Write, Locked, Commit
<1>3. Paid \subseteq Slots
  BY SlotFacts
<1>4. PaidAgree'
  <2>1. CASE disk' = l
    BY <1>2, <2>1 DEF PaidAgree
  <2>2. CASE disk' = disk /\ Write(p, l)
    BY <1>2, <1>3, <2>2 DEF Money, PaidAgree, SameBut, SamePaid
  <2> QED
    BY <1>2, <2>1, <2>2
<1>5. \A t \in Paid : t # s => led'.job[t] = led.job[t]
  BY <1>2, <1>3 DEF SameBut
<1>6. RowsFit'
  <2> SUFFICES ASSUME NEW t \in Paid, t # s PROVE RowFits(t)'
    BY DEF RowsFit
  <2>1. led'.job[t] = led.job[t] /\ RowFits(t)
    BY <1>5 DEF Money, RowsFit
  <2> QED
    BY <2>1 DEF RowFits
<1>7. PurchasesFit'
  <2> SUFFICES ASSUME NEW q \in Nodes, NEW t \in Paid, node'[q].up = "live", q # p \/ t # s
               PROVE  PurchaseFits(q, t)'
    BY DEF PurchasesFit
  <2>1. t \in Slots /\ node[q].up = "live" /\ PurchaseFits(q, t)
    BY <1>3 DEF Moves, Money, PurchasesFit
  <2>2. CASE t # s
    <3>1. led'.job[t] = led.job[t]
      BY <1>5, <2>2
    <3>2. CASE task'[q][t] = task[q][t]
      BY <2>1, <3>1, <3>2 DEF PurchaseFits, Holds
    <3>3. CASE task'[q][t].pc = "gone" \/ task'[q][t].pc = "done"
      BY <3>3 DEF PurchaseFits
    <3> QED
      BY <2>1, <2>2, <3>2, <3>3 DEF Moves, Aside
  <2>3. CASE t = s /\ q # p
    <3>1. task'[q][s] = task[q][s] /\ s \in Paid /\ PurchaseFits(q, s)
      BY <2>1, <2>3 DEF Moves
    <3>2. task[q][s].token \in Nat /\ led.job[s].token \in Nat /\ l.job[s].token \in Nat
      BY Types, TokensGrow DEF TaskRow
    <3>3. /\ task[q][s].token <= led.job[s].token
          /\ task[q][s].token = led.job[s].token /\ led.job[s].token # 0 => led.job[s].owner = q
      <4>1. View(q)[s].token = led.job[s].token /\ View(q)[s].owner = led.job[s].owner
        BY <3>1 DEF View, Money, PaidAgree
      <4>2. TokenFits(q, s)
        BY <2>1, <2>3 DEF Money, Tokens
      <4> QED
        BY <4>1, <4>2 DEF TokenFits
    <3>4. CASE Holds(p, s) /\ led.job[s].token # 0
      <4>1. View(p)[s].token = led.job[s].token /\ View(p)[s].owner = led.job[s].owner
        BY <3>1 DEF View, Money, PaidAgree
      <4>2. TokenFits(p, s)
        BY DEF Money, Tokens
      <4>3. led.job[s].owner = p
        BY <3>4, <4>1, <4>2 DEF TokenFits, Holds
      <4>4. task[q][s].token # led.job[s].token
        BY <2>3, <3>3, <3>4, <4>3
      <4>5. task[q][s].token # l.job[s].token
        BY <3>2, <3>3, <4>4 DEF Issues
      <4> QED
        BY <2>3, <1>2, <3>1, <4>4, <4>5 DEF PurchaseFits, Holds
    <3>5. CASE l.job[s].token = led.job[s].token + 1 /\ led.job[s].state # "submitting"
      <4>1. task[q][s].token # l.job[s].token
        BY <3>2, <3>3, <3>5
      <4> QED
        BY <2>3, <1>2, <3>1, <3>5, <4>1 DEF PurchaseFits, Holds
    <3>6. CASE /\ l.job[s].token = led.job[s].token /\ l.job[s].state = led.job[s].state
               /\ l.job[s].settled = led.job[s].settled
      BY <2>3, <1>2, <3>1, <3>6 DEF PurchaseFits, Holds
    <3> QED
      BY <3>1, <3>4, <3>5, <3>6 DEF Mine
  <2> QED
    BY <2>2, <2>3
<1> QED
  BY <1>1, <1>4, <1>6, <1>7 DEF Money

\* The money after a step that writes tasks only.
LEMMA QuietMoney ==
    ASSUME TypeOK, Money, NEW p \in Nodes, NEW s \in Slots, NEW pc, Moves(p, s, pc, task[p][s].token),
           UNCHANGED <<ledgerVars, charged, song, aged>>,
           s \in Paid /\ node[p].up = "live" => PurchaseFits(p, s)'
    PROVE  Money'
<1>1. led' = led /\ disk' = disk /\ lock' = lock /\ charged' = charged /\ song' = song /\ aged' = aged
  BY DEF ledgerVars
<1>2. Ahead' /\ PaidAgree' /\ RowsFit'
  BY <1>1 DEF Money, Ahead, PaidAgree, RowsFit, RowFits
<1>3. \A q \in Nodes : \A t \in Slots : task'[q][t].token = task[q][t].token
  BY DEF Moves, Aside
<1>4. \A q \in Nodes : View(q)' = View(q)
  BY <1>1 DEF View
<1>5. Tokens'
  BY <1>3, <1>4 DEF Money, Tokens, TokenFits, Moves
<1>6. PurchasesFit'
  <2> SUFFICES ASSUME NEW q \in Nodes, NEW t \in Paid, node'[q].up = "live", q # p \/ t # s
               PROVE  PurchaseFits(q, t)'
    BY DEF PurchasesFit, Moves
  <2>1. t \in Slots /\ PurchaseFits(q, t)
    BY SlotFacts DEF Moves, Money, PurchasesFit
  <2>2. CASE task'[q][t] = task[q][t]
    BY <1>1, <2>1, <2>2 DEF PurchaseFits, Holds
  <2>3. CASE task'[q][t].pc = "gone" \/ task'[q][t].pc = "done"
    BY <2>3 DEF PurchaseFits
  <2> QED
    BY <2>1, <2>2, <2>3 DEF Moves, Aside
<1> QED
  BY <1>2, <1>5, <1>6 DEF Money

-----------------------------------------------------------------------------
(* The kinds of steps a task takes. *)

\* What LateNodeIsFenced says of a step.
Fenced == \A q \in Nodes : task'[q] # task[q] /\ led' # led => q = run.attempt

Good == IInv' /\ (Reliable => Fenced)

\* A task step leaves the run, the provider and the objects alone.
Frame == UNCHANGED <<run, charged, song, store, late, published, aged>>

\* Reliable commits do not fail.
LEMMA WroteReliably ==
    ASSUME Reliable, NEW p, NEW l, Wrote(p, l)
    PROVE  (Write(p, l) \/ Commit(p, l)) /\ led' = l
BY DEF Reliable, Wrote, CommitFails, Write, Commit

\* A live attempt runs before maintenance.
LEMMA LiveIsEarly ==
    ASSUME Objects, NEW p \in Nodes, node[p].up = "live"
    PROVE  aged = FALSE
BY Types DEF Objects, Rested

\* The row stays as it is; the task is given up, goes on without it or reuses its object.
LEMMA StillStep ==
    ASSUME IInv, NEW p \in Nodes, NEW s \in Slots, node[p].up = "live",
           NEW pc, Moves(p, s, pc, task[p][s].token), Frame,
           UNCHANGED ledgerVars \/ Write(p, led) \/ Commit(p, led),
           \/ pc \in {"gone", "todo", "wait", "source"}
           \/ pc = "done" /\ View(p)[s].state = "uploaded"
           \/ pc = task[p][s].pc
    PROVE  Good
<1>1. Objects /\ TypeOK
  BY DEF IInv, Objects
<1>2. SameBut(led, s) /\ Issues(p, led, s) /\ SamePaid(led, s) /\ Mine(p, led, s)
  BY <1>1, Types DEF SameBut, Issues, SamePaid, Mine
<1>3. Lawful(led, s)
  BY <1>1 DEF Lawful, Objects, LedgerFits, UploadsStand
<1>4. pc = "done" /\ s \in Deliverable /\ ~aged => Stored(s)
  <2>1. CASE View(p)[s].state = "uploaded"
    BY <1>1, <2>1 DEF View, Objects, LedgerFits, UploadsStand
  <2>2. CASE pc = task[p][s].pc
    BY <1>1, <2>2 DEF Objects, TasksFit, TaskFits, Reports
  <2> QED
    BY <2>1, <2>2
<1>5. Wrote(p, led) \/ UNCHANGED ledgerVars
  BY DEF Wrote
<1>6. pc = task[p][s].pc /\ pc \in {"upload", "stored", "unsent"} => disk'.job[s].key # NoKey
  <2> SUFFICES ASSUME pc = task[p][s].pc, pc \in {"upload", "stored", "unsent"}
               PROVE  disk'.job[s].key # NoKey
    OBVIOUS
  <2>1. disk.job[s].key # NoKey
    BY <1>1 DEF Objects, TasksFit, TaskFits
  <2>2. disk' = disk \/ disk' = led
    BY DEF ledgerVars, Write, Commit
  <2> QED
    BY <1>1, <2>1, <2>2 DEF Objects, LedgerFits, KeysAgree
<1>7. pc = "stored" /\ ~aged => Stored(s)
  BY <1>1 DEF Objects, TasksFit, TaskFits, Reports
<1>8. Objects'
  BY <1>1, <1>2, <1>3, <1>4, <1>5, <1>6, <1>7, ObjectsStep DEF Frame
<1>9. led' = led
  BY DEF ledgerVars, Write, Commit
<1>10. ASSUME Money PROVE Money'
  <2>1. s \in Paid => PurchaseFits(p, s)'
    <3> SUFFICES ASSUME s \in Paid PROVE PurchaseFits(p, s)'
      OBVIOUS
    <3>1. PurchaseFits(p, s)
      BY <1>10 DEF Money, PurchasesFit
    <3>2. task'[p][s].pc = pc /\ task'[p][s].token = task[p][s].token
      BY DEF Moves
    <3> QED
      BY <1>9, <3>1, <3>2 DEF Frame, PurchaseFits, Holds
  <2>2. s \in Paid => RowFits(s)'
    BY <1>9, <1>10 DEF Money, RowsFit, RowFits, Frame
  <2>3. CASE UNCHANGED ledgerVars
    BY <1>1, <1>10, <2>1, <2>3, QuietMoney DEF Frame
  <2>4. CASE Write(p, led) \/ Commit(p, led)
    BY <1>1, <1>2, <1>10, <2>1, <2>2, <2>4, MoneyStep DEF Frame
  <2> QED
    BY <2>3, <2>4
<1> QED
  BY <1>8, <1>9, <1>10 DEF Good, IInv, Fenced

\* How the holder of a paid row may go on, and what it writes then.
Passes(p, s, l, pc) ==
    LET x == task[p][s].pc  j == led.job[s]  r == l.job[s] IN
    \/ x = "answered" /\ r.state = "submitted" /\ pc \in {"done", "poll", "gone"}
    \/ x = "limited" /\ r.state = "failed" /\ pc \in {"todo", "gone"}
    \/ r.state = "submission_unknown" /\ pc = "gone"
    \/ x = "poll" /\ r.state = j.state /\ r.settled /\ pc = "fetch"
    \/ /\ x = "poll" /\ s \in PaidMusic /\ song[s] = "failed" /\ j.state \in Active
       /\ r.state = "failed" /\ pc = "gone"
    \/ x = "poll" /\ r.state = j.state /\ r.settled = j.settled /\ pc = "poll"
    \/ x \in {"fetch", "stored", "unsent"} /\ r.settled = j.settled /\ r.state = "failed" /\ pc = "gone"
    \/ x = "fetch" /\ r.settled = j.settled /\ r.state = j.state /\ pc \in {"upload", "gone"}
    \/ x = "stored" /\ r.state = "uploaded" /\ pc = "done"

\* The guard let the task write its row.
Admitted(p, s) ==
    /\ led.job[s].owner = run.attempt /\ led.job[s].token = task[p][s].token
    /\ led.job[s].state \in Active \cup {"uploaded"}

\* The row keeps its token, its owner and its money.
Keeps(l, s) ==
    /\ l.job[s].token = led.job[s].token /\ l.job[s].owner = led.job[s].owner
    /\ l.job[s].reserved = led.job[s].reserved
    /\ led.job[s].key # NoKey => l.job[s].key = led.job[s].key
    /\ l.job[s].state # "absent"

\* The holder of a row writes it.
LEMMA UpdateStep ==
    ASSUME IInv, NEW p \in Nodes, NEW s \in Slots, node[p].up = "live",
           NEW pc, Moves(p, s, pc, task[p][s].token), Frame,
           NEW l, SameBut(l, s), Wrote(p, l), Admitted(p, s), Keeps(l, s),
           l.job[s].state = "uploaded" => led.job[s].state = "uploaded" \/ task[p][s].pc = "stored",
           pc \notin {"stored", "unsent"},
           pc = "upload" => disk' = l /\ l.job[s].key # NoKey,
           pc = "done" /\ s \in Deliverable => task[p][s].pc = "stored",
           s \in Paid => Passes(p, s, l, pc) /\ (Write(p, l) => SamePaid(l, s))
    PROVE  Good
<1>1. Objects /\ TypeOK /\ aged = FALSE
  BY LiveIsEarly DEF IInv, Objects
<1>2. task[p][s].pc = "stored" => Stored(s)
  BY <1>1 DEF Objects, TasksFit, TaskFits, Reports
<1>3. led.job[s].state # "absent"
  BY DEF Admitted, Active
<1>4. Lawful(l, s)
  BY <1>1, <1>2, <1>3 DEF Lawful, Keeps, Objects, LedgerFits, UploadsStand
<1>5. Objects'
  BY <1>1, <1>2, <1>4, ObjectsStep DEF Frame
<1>6. ASSUME Reliable PROVE Money' /\ Fenced
  <2>1. Money /\ led' = l /\ (Write(p, l) \/ Commit(p, l))
    BY <1>6, WroteReliably DEF IInv
  <2>2. lock \in {0, p} /\ View(p) = led.job
    BY <1>1, <2>1, ViewIsLed DEF Write, Locked, Commit
  <2>3. TokenFits(p, s) /\ Ahead
    BY <2>1 DEF Money, Tokens
  <2>4. led.job[s].owner # 0 /\ led.job[s].token # 0
    BY <1>1, <2>3, Types DEF Admitted, Ahead
  <2>5. led.job[s].owner = p
    BY <2>2, <2>3, <2>4 DEF TokenFits, Admitted
  <2>6. Fenced
    BY <2>5 DEF Fenced, Moves, Admitted
  <2>7. Issues(p, l, s) /\ Mine(p, l, s)
    BY <2>4 DEF Issues, Mine, Keeps, Admitted, Holds
  <2>8. ASSUME s \in Paid PROVE RowFits(s)' /\ PurchaseFits(p, s)'
    <3>1. RowFits(s) /\ PurchaseFits(p, s) /\ Holds(p, s) /\ Passes(p, s, l, pc)
      BY <2>1, <2>8 DEF Money, RowsFit, PurchasesFit, Holds, Admitted
    <3>2. led.job[s].state \in Active \cup {"uploaded"} /\ l.job[s].reserved = led.job[s].reserved
          /\ l.job[s].state # "absent" /\ l.job[s].token = led.job[s].token
      BY DEF Admitted, Keeps
    <3>3. task'[p][s].pc = pc /\ Holds(p, s)' /\ charged' = charged /\ song' = song /\ aged' = aged
          /\ led'.job[s] = l.job[s]
      BY <2>1, <3>1, <3>2 DEF Moves, Frame, Holds
    <3>4. l.job[s].state = "failed" => charged[s] = 0 \/ l.job[s].settled
      <4> SUFFICES ASSUME l.job[s].state = "failed" PROVE charged[s] = 0 \/ l.job[s].settled
        OBVIOUS
      <4>1. CASE task[p][s].pc = "limited"
        BY <3>1, <4>1 DEF PurchaseFits
      <4>2. CASE task[p][s].pc = "poll" /\ s \in PaidMusic /\ song[s] = "failed" /\ led.job[s].state \in Active
        <5>1. led.job[s].state \in {"submitted", "processing"}
          BY <3>1, <4>2 DEF PurchaseFits, Active
        <5> QED
          BY <3>1, <4>2, <5>1 DEF RowFits
      <4>3. CASE task[p][s].pc \in {"fetch", "stored", "unsent"} /\ l.job[s].settled = led.job[s].settled
        <5>1. led.job[s].settled
          BY <3>1, <4>3 DEF PurchaseFits
        <5> QED
          BY <4>3, <5>1
      <4> QED
        BY <3>1, <3>2, <4>1, <4>2, <4>3 DEF Passes, Active
    <3>5. s \in PaidMusic /\ song[s] = "failed" /\ l.job[s].state \in {"submitted", "processing"} =>
            charged[s] = 0
      BY <3>1, <3>2 DEF Passes, RowFits, PurchaseFits, Active
    <3>6. RowFits(s)'
      BY <3>1, <3>2, <3>3, <3>4, <3>5 DEF RowFits, Active
    <3>7. /\ pc \notin {"call", "limited", "answered"}
          /\ pc = "poll" => l.job[s].state \notin {"reserved", "submitting"}
          /\ pc \in {"fetch", "upload", "stored", "unsent"} => l.job[s].settled
      BY <3>1 DEF Passes, PurchaseFits
    <3> QED
      BY <3>3, <3>6, <3>7 DEF PurchaseFits
  <2>9. Money'
    BY <1>1, <2>1, <2>7, <2>8, MoneyStep DEF Frame
  <2> QED
    BY <2>6, <2>9
<1> QED
  BY <1>5, <1>6 DEF Good, IInv

\* What a reservation writes.
Reserves(p, l, s) ==
    /\ l.job[s].token = led.job[s].token + 1 /\ l.job[s].owner = p
    /\ l.job[s].reserved = led.job[s].reserved + Cost(s)
    /\ led.job[s].key # NoKey => l.job[s].key = led.job[s].key
    /\ l.job[s].state = IF s \in Paid THEN "submitting" ELSE "reserved"

\* The slot is reserved; who goes on with it has its new token.
LEMMA ReserveStep ==
    ASSUME IInv, NEW p \in Nodes, NEW s \in Slots, node[p].up = "live",
           NEW pc, NEW tok, Moves(p, s, pc, tok), Frame,
           NEW l, SameBut(l, s), Wrote(p, l), Reservable(p, s) = "ok", Reserves(p, l, s),
           s \in Paid => /\ led.job[s].state = "absent" \/ Retryable(led.job[s])
                         /\ ~Write(p, l),
           \/ pc = "gone" /\ tok = task[p][s].token
           \/ /\ tok = l.job[s].token
              /\ \/ pc = "call" /\ s \in Paid
                 \/ pc = "upload" /\ s \notin Paid /\ disk' = l /\ l.job[s].key # NoKey
                 \/ pc = "fetch" /\ s \notin Paid
    PROVE  Good
<1>1. Objects /\ TypeOK /\ aged = FALSE
  BY LiveIsEarly DEF IInv, Objects
<1>2. run.attempt = p /\ Siblings(led.job, s) = {} /\ led.job[s].state \notin Active
  BY DEF Reservable
<1>3. l.job[s].state \in {"submitting", "reserved"}
  BY DEF Reserves
<1>4. Lawful(l, s)
  BY <1>2, <1>3 DEF Lawful, Reserves
<1>5. Objects'
  BY <1>1, <1>4, ObjectsStep DEF Frame
<1>6. ASSUME Reliable PROVE Money' /\ Fenced
  <2>1. Money /\ led' = l /\ (Write(p, l) \/ Commit(p, l))
    BY <1>6, WroteReliably DEF IInv
  <2>2. Fenced
    BY <1>2 DEF Fenced, Moves
  <2>3. Issues(p, l, s) /\ Mine(p, l, s)
    BY <1>2 DEF Issues, Mine, Reserves, Active
  <2>4. ASSUME s \in Paid PROVE RowFits(s)' /\ PurchaseFits(p, s)'
    <3>1. RowFits(s)
      BY <2>1, <2>4 DEF Money, RowsFit
    <3>2. led.job[s].reserved \in Nat /\ led.job[s].token \in Nat /\ Cost(s) \in Nat /\ Cost(s) > 0
      BY <1>1, <2>4, Types, JobFields, SlotFacts
    <3>3. charged[s] = 0
      BY <1>1, <2>4, <3>1, <3>2 DEF RowFits, Retryable
    <3>4. l.job[s].state = "submitting" /\ l.job[s].reserved > 0 /\ l.job[s].token > 0
      BY <2>4, <3>2 DEF Reserves
    <3>5. task'[p][s].pc = pc /\ task'[p][s].token = tok /\ led'.job[s] = l.job[s]
          /\ charged' = charged /\ song' = song
      BY <2>1 DEF Moves, Frame
    <3>6. RowFits(s)'
      BY <3>3, <3>4, <3>5 DEF RowFits
    <3> QED
      BY <2>4, <3>3, <3>4, <3>5, <3>6 DEF PurchaseFits, Holds
  <2>5. l.job[s].owner = p
    BY DEF Reserves
  <2>6. Money'
    BY <1>1, <2>1, <2>3, <2>4, <2>5, MoneyStep DEF Frame
  <2> QED
    BY <2>2, <2>6
<1> QED
  BY <1>5, <1>6 DEF Good, IInv

\* What rotate_lease and mark_processing write.
Rotates(p, l, s) ==
    /\ l.job[s].token = led.job[s].token + 1 /\ l.job[s].owner = p
    /\ l.job[s].reserved = led.job[s].reserved
    /\ l.job[s].key = led.job[s].key /\ l.job[s].state = "processing"

\* A running music task is taken over with a new token.
LEMMA RotateStep ==
    ASSUME IInv, NEW p \in Nodes, NEW s \in PaidMusic, node[p].up = "live",
           NEW l, Moves(p, s, "poll", l.job[s].token), Frame,
           SameBut(l, s), Commit(p, l) \/ CommitFails(p, l), run.attempt = p,
           led.job[s].state \in {"submitted", "processing"}, Rotates(p, l, s)
    PROVE  Good
<1>1. Objects /\ TypeOK /\ s \in Slots /\ s \in Paid
  BY SlotFacts DEF IInv, Objects, Paid, Music
<1>2. Lawful(l, s) /\ Wrote(p, l)
  BY DEF Lawful, Rotates, Wrote
<1>3. Objects'
  BY <1>1, <1>2, ObjectsStep DEF Frame
<1>4. ASSUME Reliable PROVE Money' /\ Fenced
  <2>1. Money /\ led' = l /\ Commit(p, l)
    BY <1>4 DEF IInv, Reliable, CommitFails, Commit
  <2>2. Fenced
    BY <1>1 DEF Fenced, Moves
  <2>3. Issues(p, l, s) /\ Mine(p, l, s)
    BY DEF Issues, Mine, Rotates
  <2>4. RowFits(s)
    BY <1>1, <2>1 DEF Money, RowsFit
  <2>5. task'[p][s].pc = "poll" /\ task'[p][s].token = l.job[s].token /\ led'.job[s] = l.job[s]
        /\ charged' = charged /\ song' = song
    BY <2>1 DEF Moves, Frame
  <2>6. led.job[s].token \in Nat
    BY <1>1, Types, JobFields
  <2>7. RowFits(s)'
    BY <2>4, <2>5, <2>6 DEF RowFits, Rotates
  <2>8. PurchaseFits(p, s)'
    BY <2>5 DEF PurchaseFits, Rotates
  <2>9. ~Write(p, l)
    BY <1>1, <2>1, Types DEF Write, Locked, Commit
  <2>10. l.job[s].owner = p
    BY DEF Rotates
  <2>11. Money'
    BY <1>1, <2>1, <2>3, <2>7, <2>8, <2>9, <2>10, MoneyStep DEF Frame
  <2> QED
    BY <2>2, <2>11
<1> QED
  BY <1>3, <1>4 DEF Good, IInv

-----------------------------------------------------------------------------
(* The writes of the model. *)

\* Set changes one row.
LEMMA SetFits ==
    ASSUME TypeOK, NEW s \in Slots, NEW r \in Job
    PROVE  SameBut(Set(s, r), s) /\ Set(s, r).job[s] = r
<1>1. led \in Ledger /\ led.job \in [Slots -> Job]
  BY Types
<1>2. Set(s, r) = [led EXCEPT !.job = [led.job EXCEPT ![s] = r]]
  BY <1>1 DEF Set
<1>3. Set(s, r) \in Ledger /\ Set(s, r).job = [led.job EXCEPT ![s] = r]
  BY <1>1, <1>2 DEF Ledger
<1> QED
  BY <1>1, <1>3 DEF SameBut

\* A row whose state is changed.
LEMMA StateFits ==
    ASSUME NEW j \in Job, NEW st \in States
    PROVE  LET r == [j EXCEPT !.state = st] IN
           /\ r \in Job /\ r.state = st /\ r.token = j.token /\ r.owner = j.owner
           /\ r.reserved = j.reserved /\ r.key = j.key /\ r.settled = j.settled /\ r.task = j.task
BY DEF Job

\* Reserved changes one row and the budget.
LEMMA ReservedFits ==
    ASSUME TypeOK, NEW p \in Nodes, NEW s \in Slots, NEW st \in States
    PROVE  LET l == Reserved(p, s, st) IN
           /\ SameBut(l, s) /\ l.job[s].state = st /\ l.job[s].token = led.job[s].token + 1
           /\ l.job[s].owner = p /\ l.job[s].reserved = led.job[s].reserved + Cost(s)
           /\ l.job[s].key = led.job[s].key
<1> DEFINE j == led.job[s]
           r == [j EXCEPT !.state = st, !.attempt = @ + 1, !.token = @ + 1, !.owner = p,
                          !.lapsed = FALSE, !.task = FALSE, !.reserved = @ + Cost(s)]
           b == led.budget + Cost(s)
           l == Reserved(p, s, st)
<1>1. /\ led \in Ledger /\ led.job \in [Slots -> Job] /\ j \in Job /\ led.budget \in Nat
      /\ Cost(s) \in Nat /\ p \in Nat
  BY Types, SlotFacts
<1>2. b \in Nat
  BY <1>1
<1>3. j.attempt \in Nat /\ j.token \in Nat /\ j.reserved \in Nat
  BY <1>1, JobFields
<1>4. PICK a \in Nat, t \in Nat, c \in Nat : a = j.attempt + 1 /\ t = j.token + 1 /\ c = j.reserved + Cost(s)
  BY <1>1, <1>3
<1>5. r = [j EXCEPT !.state = st, !.attempt = a, !.token = t, !.owner = p, !.lapsed = FALSE,
                    !.task = FALSE, !.reserved = c]
  BY <1>4
<1>6. /\ r \in Job /\ r.state = st /\ r.token = t /\ r.owner = p /\ r.reserved = c /\ r.key = j.key
  BY <1>1, <1>5 DEF Job
<1>7. l = [led EXCEPT !.budget = b, !.job[s] = r]
  BY DEF Reserved
<1> HIDE DEF r, b, l
<1>8. l \in Ledger /\ l.job = [led.job EXCEPT ![s] = r]
  <2>1. PICK f : f = [led.job EXCEPT ![s] = r]
    OBVIOUS
  <2>2. f \in [Slots -> Job]
    BY <1>1, <1>6, <2>1
  <2>3. l = [led EXCEPT !.budget = b, !.job = f]
    BY <1>1, <1>7, <2>1 DEF Ledger
  <2> QED
    BY <1>1, <1>2, <2>1, <2>2, <2>3 DEF Ledger
<1>9. SameBut(l, s) /\ l.job[s] = r
  BY <1>1, <1>8 DEF SameBut
<1> QED
  BY <1>4, <1>6, <1>9 DEF l

\* Keyed gives a row that has none the key that the process made.
LEMMA KeyedFits ==
    ASSUME NEW p \in Nodes, NEW s \in Slots, NEW l \in Ledger
    PROVE  LET k == Keyed(p, l, s) IN
           /\ k \in Ledger /\ \A t \in Slots \ {s} : k.job[t] = l.job[t]
           /\ k.job[s].key # NoKey /\ (l.job[s].key # NoKey => k.job[s].key = l.job[s].key)
           /\ k.job[s].state = l.job[s].state /\ k.job[s].token = l.job[s].token
           /\ k.job[s].owner = l.job[s].owner /\ k.job[s].reserved = l.job[s].reserved
           /\ k.job[s].settled = l.job[s].settled
<1> DEFINE key == IF l.job[s].key = NoKey THEN <<p, s>> ELSE l.job[s].key
           r == [l.job[s] EXCEPT !.key = key]
           k == Keyed(p, l, s)
<1>1. l.job \in [Slots -> Job] /\ l.job[s] \in Job
  BY DEF Ledger
<1>2. key \in Nodes \X Slots /\ key # NoKey
  BY <1>1, JobFields, KeysAreKeys
<1>3. l.job[s].key # NoKey => key = l.job[s].key
  OBVIOUS
<1>4. k = [l EXCEPT !.job = [l.job EXCEPT ![s] = r]]
  BY <1>1 DEF Keyed
<1> HIDE DEF key
<1>5. /\ r \in Job /\ r.key = key /\ r.state = l.job[s].state /\ r.token = l.job[s].token
      /\ r.owner = l.job[s].owner /\ r.reserved = l.job[s].reserved /\ r.settled = l.job[s].settled
  BY <1>1, <1>2 DEF Job
<1> HIDE DEF r, k
<1>6. k \in Ledger /\ k.job = [l.job EXCEPT ![s] = r]
  BY <1>1, <1>4, <1>5 DEF Ledger
<1>7. k.job[s] = r /\ \A t \in Slots \ {s} : k.job[t] = l.job[t]
  BY <1>1, <1>6
<1> QED
  BY <1>2, <1>3, <1>5, <1>6, <1>7 DEF k

-----------------------------------------------------------------------------
(* The endings of the model's task steps. *)

\* A commit leaves the run's row unlocked.
LEMMA CommitIsNoWrite ==
    ASSUME TypeOK, NEW p \in Nodes, NEW l, Commit(p, l) \/ CommitFails(p, l)
    PROVE  ~Write(p, l)
BY Types DEF Commit, CommitFails, Write, Locked

\* A task is given up and the row stays.
LEMMA GivenUp ==
    ASSUME IInv, NEW p \in Nodes, NEW s \in Slots, node[p].up = "live", Frame,
           NEW stop \in BOOLEAN, GiveUp(p, s, stop),
           UNCHANGED ledgerVars \/ Write(p, led) \/ Commit(p, led)
    PROVE  Good
<1>1. Moves(p, s, "gone", task[p][s].token)
  BY GiveUpMoves DEF IInv, Objects
<1> QED
  BY <1>1, StillStep

\* A refusal.
LEMMA RefusedIsGood ==
    ASSUME IInv, NEW p \in Nodes, NEW s \in Slots, node[p].up = "live", Frame,
           NEW v, Refused(p, s, v)
    PROVE  Good
<1>1. (v = "stop") \in BOOLEAN /\ GiveUp(p, s, v = "stop") /\ Write(p, led)
  BY DEF Refused
<1> QED
  BY <1>1, GivenUp

\* A task moves on and the row stays.
LEMMA GoneTo ==
    ASSUME IInv, NEW p \in Nodes, NEW s \in Slots, node[p].up = "live", Frame,
           NEW pc \in Pcs, Goto(p, s, pc),
           UNCHANGED ledgerVars \/ Write(p, led),
           pc \in {"wait", "source"} \/ (pc = "done" /\ View(p)[s].state = "uploaded")
    PROVE  Good
<1>1. Moves(p, s, pc, task[p][s].token)
  BY GotoMoves DEF IInv, Objects
<1> QED
  BY <1>1, StillStep

\* What the guard of a write asks.
LEMMA VerdictAdmits ==
    ASSUME NEW p, NEW s, NEW states \in SUBSET (Active \cup {"uploaded"}), Verdict(p, s, states) = "ok"
    PROVE  Admitted(p, s) /\ led.job[s].state \in states
BY DEF Verdict, Admitted

\* The slot is left behind.
LEMMA LeftBehind ==
    ASSUME IInv, NEW p \in Nodes, NEW s \in Slots, node[p].up = "live", Frame,
           NEW l, SameBut(l, s), Leave(p, s, l), Admitted(p, s), Keeps(l, s),
           l.job[s].state # "uploaded", s \in Paid => Passes(p, s, l, "gone")
    PROVE  Good
<1>1. TypeOK /\ Wrote(p, l) /\ ~Write(p, l)
  BY CommitIsNoWrite DEF IInv, Objects, Leave, Wrote
<1>2. Moves(p, s, "gone", task[p][s].token)
  BY <1>1, GiveUpMoves DEF Leave
<1>3. PICK pc : pc = "gone"
  OBVIOUS
<1>4. pc \notin {"stored", "unsent", "upload", "done"} /\ Moves(p, s, pc, task[p][s].token)
  BY <1>2, <1>3
<1>5. s \in Paid => Passes(p, s, l, pc) /\ (Write(p, l) => SamePaid(l, s))
  BY <1>1, <1>3
<1> QED
  BY <1>1, <1>4, <1>5, UpdateStep

\* The task goes on with its entry committed, or is given up.
LEMMA Proceeded ==
    ASSUME IInv, NEW p \in Nodes, NEW s \in Slots, node[p].up = "live", Frame,
           NEW pc \in Pcs, NEW l, SameBut(l, s), Proceed(p, s, l, pc), Admitted(p, s), Keeps(l, s),
           l.job[s].state # "uploaded", pc \notin {"stored", "unsent"},
           pc = "upload" => l.job[s].key # NoKey,
           ~(pc = "done" /\ s \in Deliverable),
           s \in Paid => Passes(p, s, l, pc) /\ Passes(p, s, l, "gone")
    PROVE  Good
<1>1. TypeOK /\ Wrote(p, l) /\ ~Write(p, l)
  BY CommitIsNoWrite DEF IInv, Objects, Proceed, Wrote
<1>2. CASE /\ Commit(p, l)
           /\ task' = [task EXCEPT ![p][s].pc = pc, ![p][s].token = l.job[s].token]
           /\ UNCHANGED node
  <2>1. l.job[s].token = task[p][s].token /\ task[p][s].token \in Nat
    BY <1>1, Types DEF Keeps, Admitted, TaskRow
  <2>2. Moves(p, s, pc, task[p][s].token) /\ disk' = l
    BY <1>1, <1>2, <2>1, TakeMoves DEF Commit
  <2>3. s \in Paid => Passes(p, s, l, pc) /\ (Write(p, l) => SamePaid(l, s))
    BY <1>1
  <2>4. pc = "upload" => disk' = l /\ l.job[s].key # NoKey
    BY <2>2
  <2>5. pc = "done" /\ s \in Deliverable => task[p][s].pc = "stored"
    OBVIOUS
  <2> QED
    BY <1>1, <2>2, <2>3, <2>4, <2>5, UpdateStep
<1>3. CASE CommitFails(p, l) /\ GiveUp(p, s, TRUE)
  <2>1. PICK x : x = "gone"
    OBVIOUS
  <2>2. x \notin {"stored", "unsent", "upload", "done"} /\ Moves(p, s, x, task[p][s].token)
    BY <1>1, <1>3, <2>1, GiveUpMoves
  <2>3. s \in Paid => Passes(p, s, l, x) /\ (Write(p, l) => SamePaid(l, s))
    BY <1>1, <2>1
  <2> QED
    BY <1>1, <2>2, <2>3, UpdateStep
<1> QED
  BY <1>2, <1>3 DEF Proceed

\* The task goes on whatever the commit says.
LEMMA WentOn ==
    ASSUME IInv, NEW p \in Nodes, NEW s \in Slots, node[p].up = "live", Frame,
           NEW pc \in Pcs, NEW l, SameBut(l, s), GoOn(p, s, l, pc), Admitted(p, s), Keeps(l, s),
           l.job[s].state = "uploaded" => led.job[s].state = "uploaded" \/ task[p][s].pc = "stored",
           pc \notin {"stored", "unsent", "upload"},
           pc = "done" /\ s \in Deliverable => task[p][s].pc = "stored",
           s \in Paid => Passes(p, s, l, pc)
    PROVE  Good
<1>1. TypeOK /\ Wrote(p, l) /\ ~Write(p, l)
  BY CommitIsNoWrite DEF IInv, Objects, GoOn, Wrote
<1>2. l.job[s].token = task[p][s].token /\ task[p][s].token \in Nat
  BY <1>1, Types DEF Keeps, Admitted, TaskRow
<1>3. Moves(p, s, pc, task[p][s].token)
  BY <1>1, <1>2, TakeMoves DEF GoOn
<1> QED
  BY <1>1, <1>3, UpdateStep

-----------------------------------------------------------------------------
(* Purchases. *)

\* Submit reserves the slot and commits before the call.
LEMMA SubmitIsGood ==
    ASSUME IInv, NEW p \in Nodes, NEW s \in Paid, Submit(p, s), Frame
    PROVE  Good
<1>1. s \in Slots /\ TypeOK /\ node[p].up = "live"
  BY SlotFacts DEF IInv, Objects, Submit, At
<1> DEFINE v == Reservable(p, s)
           l == Reserved(p, s, "submitting")
<1>2. CASE GiveUp(p, s, FALSE) /\ UNCHANGED ledgerVars
  BY <1>1, <1>2, GivenUp
<1>3. CASE Refused(p, s, v)
  BY <1>1, <1>3, RefusedIsGood
<1>4. CASE GiveUp(p, s, v = "stop") /\ Commit(p, led)
  BY <1>1, <1>4, GivenUp
<1>5. CASE Free(p, s) /\ v = "ok" /\ Proceed(p, s, l, "call")
  <2>1. /\ SameBut(l, s) /\ l.job[s].state = "submitting" /\ l.job[s].token = led.job[s].token + 1
        /\ l.job[s].owner = p /\ l.job[s].reserved = led.job[s].reserved + Cost(s)
        /\ l.job[s].key = led.job[s].key
    BY <1>1, ReservedFits DEF States, Active
  <2> HIDE DEF l
  <2>2. Reserves(p, l, s)
    BY <2>1 DEF Reserves
  <2>3. Wrote(p, l) /\ ~Write(p, l) /\ lock \in {0, p}
    BY <1>1, <1>5, CommitIsNoWrite DEF Proceed, Wrote, Commit, CommitFails
  <2>4. led.job[s].state = "absent" \/ Retryable(led.job[s])
    BY <1>1, <1>5, <2>3, ViewIsLed DEF Free
  <2>5. CASE /\ task' = [task EXCEPT ![p][s].pc = "call", ![p][s].token = l.job[s].token]
             /\ UNCHANGED node
    <3>1. led.job[s].token \in Nat
      BY <1>1, Types, JobFields
    <3>2. PICK pc \in Pcs, tok \in Nat : pc = "call" /\ tok = l.job[s].token
      BY <2>1, <3>1 DEF Pcs
    <3>3. Moves(p, s, pc, tok)
      BY <1>1, <2>5, <3>2, TakeMoves
    <3> QED
      BY <1>1, <1>5, <2>1, <2>2, <2>3, <2>4, <3>2, <3>3, ReserveStep
  <2>6. CASE GiveUp(p, s, TRUE)
    <3>1. Moves(p, s, "gone", task[p][s].token)
      BY <1>1, <2>6, GiveUpMoves
    <3> QED
      BY <1>1, <1>5, <2>1, <2>2, <2>3, <2>4, <3>1, ReserveStep
  <2> QED
    BY <1>5, <2>5, <2>6 DEF Proceed
<1> QED
  BY <1>2, <1>3, <1>4, <1>5 DEF Submit

\* mark_submitted is written by the holder of the row.
LEMMA AnsweredIsGood ==
    ASSUME IInv, NEW p \in Nodes, NEW s \in Paid, Answered(p, s), Frame
    PROVE  Good
<1>1. s \in Slots /\ TypeOK /\ node[p].up = "live" /\ task[p][s].pc = "answered"
  BY SlotFacts DEF IInv, Objects, Answered, At
<1> DEFINE v == Verdict(p, s, {"submitting", "submitted"})
           l == Submitted(s)
<1>2. CASE Refused(p, s, v)
  BY <1>1, <1>2, RefusedIsGood
<1>3. CASE v = "ok" /\ Proceed(p, s, l, IF s \in Music THEN "poll" ELSE "done")
  <2>1. Admitted(p, s)
    BY <1>3, VerdictAdmits DEF Active
  <2>2. led.job[s] \in Job
    BY <1>1, Types
  <2>3. PICK a \in BOOLEAN : a = (s \in Music)
    <3>1. (s \in Music) \in BOOLEAN
      OBVIOUS
    <3> WITNESS (s \in Music) \in BOOLEAN
    <3> QED
      OBVIOUS
  <2>4. PICK b \in BOOLEAN : b = (led.job[s].settled \/ s \in Segments)
    OBVIOUS
  <2> DEFINE r == [led.job[s] EXCEPT !.state = "submitted", !.task = a, !.settled = b]
  <2>5. l = Set(s, r)
    BY <2>3, <2>4 DEF Submitted
  <2>6. /\ r \in Job /\ r.state = "submitted" /\ r.token = led.job[s].token
        /\ r.owner = led.job[s].owner /\ r.reserved = led.job[s].reserved /\ r.key = led.job[s].key
    BY <2>2 DEF Job, States, Active
  <2> HIDE DEF r, l
  <2>7. SameBut(l, s) /\ l.job[s] = r
    BY <1>1, <2>5, <2>6, SetFits
  <2>8. Keeps(l, s)
    BY <2>6, <2>7 DEF Keeps
  <2>9. PICK pc \in Pcs : pc = IF s \in Music THEN "poll" ELSE "done"
    BY DEF Pcs
  <2>10. Passes(p, s, l, pc) /\ Passes(p, s, l, "gone")
    BY <1>1, <2>6, <2>7, <2>9 DEF Passes
  <2>11. ~(pc = "done" /\ s \in Deliverable)
    BY <2>9, SlotFacts DEF Deliverable
  <2> QED
    BY <1>1, <1>3, <2>1, <2>6, <2>7, <2>8, <2>9, <2>10, <2>11, Proceeded
<1> QED
  BY <1>2, <1>3 DEF Answered

\* A state that the holder of the row writes.
LEMMA Titled ==
    ASSUME TypeOK, NEW s \in Slots, NEW st \in States \ {"absent"}
    PROVE  LET l == Set(s, [led.job[s] EXCEPT !.state = st]) IN
           /\ SameBut(l, s) /\ Keeps(l, s) /\ l.job[s].state = st
           /\ l.job[s].settled = led.job[s].settled
<1>1. led.job[s] \in Job
  BY Types
<1> DEFINE r == [led.job[s] EXCEPT !.state = st]
<1>2. /\ r \in Job /\ r.state = st /\ r.token = led.job[s].token /\ r.owner = led.job[s].owner
      /\ r.reserved = led.job[s].reserved /\ r.key = led.job[s].key /\ r.settled = led.job[s].settled
  BY <1>1, StateFits
<1> HIDE DEF r
<1>3. SameBut(Set(s, r), s) /\ Set(s, r).job[s] = r
  BY <1>2, SetFits
<1>4. Keeps(Set(s, r), s)
  BY <1>2, <1>3 DEF Keeps
<1> QED
  BY <1>2, <1>3, <1>4 DEF r

\* A refused submission fails and may be tried again.
LEMMA LimitedIsGood ==
    ASSUME IInv, NEW p \in Nodes, NEW s \in Paid, Limited(p, s), Frame
    PROVE  Good
<1>1. s \in Slots /\ TypeOK /\ node[p].up = "live" /\ task[p][s].pc = "limited"
  BY SlotFacts DEF IInv, Objects, Limited, At
<1> DEFINE v == Verdict(p, s, Active)
           l == Set(s, [led.job[s] EXCEPT !.state = "failed"])
           again == task[p][s].tries + 1 < MaxSubmits
<1>2. PICK stop \in BOOLEAN :
        /\ IF again
           THEN /\ task' = [task EXCEPT ![p][s].pc = "todo", ![p][s].tries = @ + 1]
                /\ node' = [node EXCEPT ![p].stop = @ \/ stop]
           ELSE GiveUp(p, s, stop)
        /\ \/ v = "ok" /\ ~stop /\ Commit(p, l)
           \/ v = "ok" /\ stop /\ CommitFails(p, l)
           \/ v # "ok" /\ stop = (v = "stop") /\ Write(p, led)
  BY DEF Limited
<1>3. \E pc \in {"todo", "gone"} : Moves(p, s, pc, task[p][s].token)
  <2>1. CASE ~again
    BY <1>1, <1>2, <2>1, GiveUpMoves
  <2>2. CASE again
    <3>1. node \in [Nodes -> NodeRow] /\ task \in [Nodes -> [Slots -> TaskRow]]
          /\ task[p][s] \in TaskRow /\ task[p][s].tries \in Nat
      BY <1>1, Types DEF TaskRow
    <3>2. PICK n \in Nat : n = task[p][s].tries + 1
      BY <3>1
    <3>3. PICK b \in BOOLEAN : b = (node[p].stop \/ stop)
      OBVIOUS
    <3> DEFINE new == [task[p][s] EXCEPT !.pc = "todo", !.tries = n]
               row == [node[p] EXCEPT !.stop = b]
    <3>4. node' = [node EXCEPT ![p].stop = b]
      BY <1>2, <2>2, <3>3
    <3>5. task' = [task EXCEPT ![p][s].pc = "todo", ![p][s].tries = n]
      BY <1>2, <2>2, <3>1, <3>2
    <3>6. node' = [node EXCEPT ![p] = row]
      BY <3>1, <3>4
    <3>7. task' = [task EXCEPT ![p] = [task[p] EXCEPT ![s] = new]]
      BY <3>1, <3>5
    <3>8. /\ new \in TaskRow /\ new.pc = "todo" /\ new.token = task[p][s].token
          /\ row \in NodeRow /\ row.up = node[p].up
      BY <3>1 DEF TaskRow, NodeRow, Pcs
    <3> HIDE DEF new, row
    <3>9. PICK f : f = [task[p] EXCEPT ![s] = new]
      OBVIOUS
    <3>10. f \in [Slots -> TaskRow] /\ task' = [task EXCEPT ![p] = f] /\ f[s] = new
          /\ \A t \in Slots \ {s} : f[t] = task[p][t]
      BY <1>1, <3>1, <3>7, <3>8, <3>9
    <3>11. node' \in [Nodes -> NodeRow] /\ \A q \in Nodes : node'[q].up = node[q].up
      BY <3>1, <3>6, <3>8
    <3>12. task' \in [Nodes -> [Slots -> TaskRow]] /\ task'[p] = f /\ \A q \in Nodes \ {p} : task'[q] = task[q]
      BY <3>1, <3>10
    <3>13. Moves(p, s, "todo", task[p][s].token)
      BY <3>8, <3>10, <3>11, <3>12 DEF Moves, Aside
    <3> QED
      BY <3>13
  <2> QED
    BY <2>1, <2>2
<1>4. PICK pc \in {"todo", "gone"} : Moves(p, s, pc, task[p][s].token)
  BY <1>3
<1>5. CASE v # "ok" /\ Write(p, led)
  BY <1>1, <1>4, <1>5, StillStep
<1>6. CASE v = "ok" /\ (Commit(p, l) \/ CommitFails(p, l))
  <2>1. Admitted(p, s)
    BY <1>6, VerdictAdmits
  <2>2. SameBut(l, s) /\ Keeps(l, s) /\ l.job[s].state = "failed"
    BY <1>1, Titled DEF States, Orphan
  <2> HIDE DEF l
  <2>3. Wrote(p, l) /\ ~Write(p, l)
    BY <1>1, <1>6, CommitIsNoWrite DEF Wrote
  <2>4. Passes(p, s, l, pc)
    BY <1>1, <1>4, <2>2 DEF Passes
  <2>5. pc \notin {"stored", "unsent", "upload", "done"}
    BY <1>4
  <2> QED
    BY <1>1, <1>4, <2>1, <2>2, <2>3, <2>4, <2>5, UpdateStep
<1> QED
  BY <1>2, <1>5, <1>6

\* An unanswered submission is kept as such.
LEMMA LostIsGood ==
    ASSUME IInv, NEW p \in Nodes, NEW s \in Paid, Lost(p, s), Frame
    PROVE  Good
<1>1. s \in Slots /\ TypeOK /\ node[p].up = "live"
  BY SlotFacts DEF IInv, Objects, Lost, At
<1> DEFINE v == Verdict(p, s, {"submitting", "submitted"})
           l == Set(s, [led.job[s] EXCEPT !.state = "submission_unknown"])
<1>2. CASE Refused(p, s, v)
  BY <1>1, <1>2, RefusedIsGood
<1>3. CASE v = "ok" /\ Leave(p, s, l)
  <2>1. Admitted(p, s)
    BY <1>3, VerdictAdmits DEF Active
  <2>2. SameBut(l, s) /\ Keeps(l, s) /\ l.job[s].state = "submission_unknown"
    BY <1>1, Titled DEF States
  <2> HIDE DEF l
  <2>3. Passes(p, s, l, "gone")
    BY <2>2 DEF Passes
  <2> QED
    BY <1>1, <1>3, <2>1, <2>2, <2>3, LeftBehind
<1> QED
  BY <1>2, <1>3 DEF Lost

-----------------------------------------------------------------------------
(* Delivery. *)

\* A narration that is used again ends its scene.
LEMMA BeginSceneIsGood ==
    ASSUME IInv, NEW p \in Nodes, NEW n \in Narrations, BeginScene(p, n), Frame
    PROVE  Good
<1>1. n \in Slots /\ n \in Deliverable /\ TypeOK /\ node[p].up = "live" /\ UNCHANGED ledgerVars
  BY DEF IInv, Objects, BeginScene, At, Slots, Deliverable
<1>2. CASE GiveUp(p, n, FALSE)
  BY <1>1, <1>2, GivenUp
<1>3. CASE Goto(p, n, "wait")
  BY <1>1, <1>3, GoneTo DEF Pcs
<1> DEFINE new(t) == [task[p][t] EXCEPT !.pc = "done"]
           all == [t \in Slots |-> IF t \in Unit(n) THEN new(t) ELSE task[p][t]]
<1>4. CASE Reusable(p, n) /\ task' = [task EXCEPT ![p] = all] /\ UNCHANGED node
  <2>1. node \in [Nodes -> NodeRow] /\ task \in [Nodes -> [Slots -> TaskRow]]
        /\ \A t \in Slots : task[p][t] \in TaskRow
    BY <1>1, Types
  <2>2. \A t \in Slots : new(t) \in TaskRow /\ new(t).pc = "done" /\ new(t).token = task[p][t].token
    BY <2>1 DEF TaskRow, Pcs
  <2> HIDE DEF new
  <2>3. all \in [Slots -> TaskRow]
    BY <2>1, <2>2
  <2>4. \A t \in Slots : all[t] = IF t \in Unit(n) THEN new(t) ELSE task[p][t]
    OBVIOUS
  <2> HIDE DEF all
  <2>5. task'[p] = all /\ task' \in [Nodes -> [Slots -> TaskRow]] /\ \A q \in Nodes \ {p} : task'[q] = task[q]
    BY <1>4, <2>1, <2>3
  <2>6. task'[p][n].pc = "done" /\ task'[p][n].token = task[p][n].token
    BY <1>1, <2>2, <2>4, <2>5, UnitHasSlot
  <2>7. \A t \in Slots \ {n} : Aside(p, t)
    BY <1>1, <2>2, <2>4, <2>5, UnitHasSlot DEF Aside
  <2>8. Moves(p, n, "done", task[p][n].token)
    BY <1>4, <2>1, <2>5, <2>6, <2>7 DEF Moves
  <2> QED
    BY <1>1, <1>4, <2>8, StillStep DEF Reusable
<1> QED
  BY <1>2, <1>3, <1>4 DEF BeginScene

\* A narration is reserved and its key committed before the upload.
LEMMA PlaceNarrationIsGood ==
    ASSUME IInv, NEW p \in Nodes, NEW n \in Narrations, PlaceNarration(p, n), Frame
    PROVE  Good
<1>1. n \in Slots /\ n \notin Paid /\ TypeOK /\ node[p].up = "live"
  BY SlotFacts DEF IInv, Objects, PlaceNarration, At, Slots
<1> DEFINE v == Reservable(p, n)
           l == Reserved(p, n, "reserved")
           k == Keyed(p, l, n)
<1>2. CASE GiveUp(p, n, FALSE) /\ UNCHANGED ledgerVars
  BY <1>1, <1>2, GivenUp
<1>3. CASE Refused(p, n, v)
  BY <1>1, <1>3, RefusedIsGood
<1>4. CASE v = "reused" /\ Goto(p, n, "done") /\ Write(p, led)
  <2>1. led.job[n].state = "uploaded"
    BY <1>4 DEF Reservable
  <2>2. View(p)[n].state = "uploaded"
    BY <1>1, <1>4, <2>1, ViewIsLed DEF Write, Locked
  <2> QED
    BY <1>1, <1>4, <2>2, GoneTo DEF Pcs
<1>5. /\ SameBut(l, n) /\ l.job[n].state = "reserved" /\ l.job[n].token = led.job[n].token + 1
      /\ l.job[n].owner = p /\ l.job[n].reserved = led.job[n].reserved + Cost(n)
      /\ l.job[n].key = led.job[n].key
  BY <1>1, ReservedFits DEF States, Active
<1> HIDE DEF l
<1>6. CASE v = "ok" /\ Write(p, l) /\ GiveUp(p, n, FALSE)
  <2>1. Moves(p, n, "gone", task[p][n].token)
    BY <1>1, <1>6, GiveUpMoves
  <2>2. Reserves(p, l, n) /\ Wrote(p, l)
    BY <1>1, <1>5, <1>6 DEF Reserves, Wrote
  <2> QED
    BY <1>1, <1>5, <1>6, <2>1, <2>2, ReserveStep
<1>7. CASE v = "ok" /\ Proceed(p, n, k, "upload")
  <2>1. /\ k \in Ledger /\ \A t \in Slots \ {n} : k.job[t] = l.job[t]
        /\ k.job[n].key # NoKey /\ (l.job[n].key # NoKey => k.job[n].key = l.job[n].key)
        /\ k.job[n].state = l.job[n].state /\ k.job[n].token = l.job[n].token
        /\ k.job[n].owner = l.job[n].owner /\ k.job[n].reserved = l.job[n].reserved
    BY <1>1, <1>5, KeyedFits DEF SameBut
  <2> HIDE DEF k
  <2>2. SameBut(k, n) /\ Reserves(p, k, n)
    BY <1>1, <1>5, <2>1 DEF SameBut, Reserves
  <2>3. Wrote(p, k)
    BY <1>7 DEF Proceed, Wrote
  <2>4. CASE /\ Commit(p, k)
             /\ task' = [task EXCEPT ![p][n].pc = "upload", ![p][n].token = k.job[n].token]
             /\ UNCHANGED node
    <3>1. led.job[n].token \in Nat
      BY <1>1, Types, JobFields
    <3>2. PICK pc \in Pcs, tok \in Nat : pc = "upload" /\ tok = k.job[n].token
      BY <1>5, <2>1, <3>1 DEF Pcs
    <3>3. Moves(p, n, pc, tok) /\ disk' = k
      BY <1>1, <2>4, <3>2, TakeMoves DEF Commit
    <3> QED
      BY <1>1, <1>7, <2>1, <2>2, <2>3, <3>2, <3>3, ReserveStep
  <2>5. CASE GiveUp(p, n, TRUE)
    <3>1. Moves(p, n, "gone", task[p][n].token)
      BY <1>1, <2>5, GiveUpMoves
    <3> QED
      BY <1>1, <1>7, <2>2, <2>3, <3>1, ReserveStep
  <2> QED
    BY <1>7, <2>4, <2>5 DEF Proceed
<1> QED
  BY <1>2, <1>3, <1>4, <1>6, <1>7 DEF PlaceNarration, l

\* The source of copied music is read.
LEMMA ReadSourceIsGood ==
    ASSUME IInv, NEW p \in Nodes, NEW m \in DefaultMusic, ReadSource(p, m), Frame
    PROVE  Good
<1>1. m \in Slots /\ node[p].up = "live" /\ UNCHANGED ledgerVars
  BY DEF ReadSource, At, Slots, Music
<1>2. CASE GiveUp(p, m, FALSE)
  BY <1>1, <1>2, GivenUp
<1>3. CASE Goto(p, m, "source")
  BY <1>1, <1>3, GoneTo DEF Pcs
<1> QED
  BY <1>2, <1>3 DEF ReadSource

\* Copied music is used again, refused, or reserved in the open transaction.
LEMMA ReserveDefaultIsGood ==
    ASSUME IInv, NEW p \in Nodes, NEW m \in DefaultMusic, ReserveDefault(p, m), Frame
    PROVE  Good
<1>1. m \in Slots /\ m \notin Paid /\ TypeOK /\ node[p].up = "live"
  BY SlotFacts DEF IInv, Objects, ReserveDefault, At, Slots, Music
<1> DEFINE v == Reservable(p, m)
           l == Reserved(p, m, "reserved")
<1>2. CASE Reusable(p, m) /\ Goto(p, m, "done") /\ UNCHANGED ledgerVars
  BY <1>1, <1>2, GoneTo DEF Reusable, Pcs
<1>3. CASE GiveUp(p, m, FALSE) /\ UNCHANGED ledgerVars
  BY <1>1, <1>3, GivenUp
<1>4. CASE GiveUp(p, m, v = "stop") /\ Commit(p, led)
  BY <1>1, <1>4, GivenUp
<1>5. CASE /\ v = "ok" /\ Write(p, l)
           /\ task' = [task EXCEPT ![p][m].pc = "fetch", ![p][m].token = l.job[m].token]
           /\ UNCHANGED node
  <2>1. /\ SameBut(l, m) /\ l.job[m].state = "reserved" /\ l.job[m].token = led.job[m].token + 1
        /\ l.job[m].owner = p /\ l.job[m].reserved = led.job[m].reserved + Cost(m)
        /\ l.job[m].key = led.job[m].key
    BY <1>1, ReservedFits DEF States, Active
  <2> HIDE DEF l
  <2>2. Reserves(p, l, m) /\ Wrote(p, l)
    BY <1>1, <1>5, <2>1 DEF Reserves, Wrote
  <2>3. led.job[m].token \in Nat
    BY <1>1, Types, JobFields
  <2>4. PICK pc \in Pcs, tok \in Nat : pc = "fetch" /\ tok = l.job[m].token
    BY <2>1, <2>3 DEF Pcs
  <2>5. Moves(p, m, pc, tok)
    BY <1>1, <1>5, <2>4, TakeMoves
  <2> QED
    BY <1>1, <1>5, <2>1, <2>2, <2>4, <2>5, ReserveStep
<1> QED
  BY <1>2, <1>3, <1>4, <1>5 DEF ReserveDefault

\* A key that the holder of a row fixes.
LEMMA KeyFixed ==
    ASSUME TypeOK, NEW p \in Nodes, NEW s \in Slots, Admitted(p, s)
    PROVE  LET k == Keyed(p, led, s) IN
           /\ SameBut(k, s) /\ Keeps(k, s) /\ k.job[s].key # NoKey
           /\ k.job[s].state = led.job[s].state /\ k.job[s].settled = led.job[s].settled
<1> DEFINE k == Keyed(p, led, s)
<1>1. /\ k \in Ledger /\ \A t \in Slots \ {s} : k.job[t] = led.job[t]
      /\ k.job[s].key # NoKey /\ (led.job[s].key # NoKey => k.job[s].key = led.job[s].key)
      /\ k.job[s].state = led.job[s].state /\ k.job[s].token = led.job[s].token
      /\ k.job[s].owner = led.job[s].owner /\ k.job[s].reserved = led.job[s].reserved
      /\ k.job[s].settled = led.job[s].settled
  BY Types, KeyedFits
<1> HIDE DEF k
<1>2. led.job[s].state # "absent"
  BY DEF Admitted, Active
<1>3. SameBut(k, s) /\ Keeps(k, s)
  BY <1>1, <1>2 DEF SameBut, Keeps
<1> QED
  BY <1>1, <1>3 DEF k

\* The key of copied music is committed before the upload.
LEMMA PlaceDefaultIsGood ==
    ASSUME IInv, NEW p \in Nodes, NEW m \in DefaultMusic, PlaceDefault(p, m), Frame
    PROVE  Good
<1>1. m \in Slots /\ m \notin Paid /\ TypeOK /\ node[p].up = "live"
  BY SlotFacts DEF IInv, Objects, PlaceDefault, At, Slots, Music
<1> DEFINE k == Keyed(p, led, m)
<1>2. CASE GiveUp(p, m, FALSE) /\ UNCHANGED ledgerVars
  BY <1>1, <1>2, GivenUp
<1>3. CASE Refused(p, m, Verdict(p, m, Active))
  BY <1>1, <1>3, RefusedIsGood
<1>4. CASE Verdict(p, m, Active) = "ok" /\ Proceed(p, m, k, "upload")
  <2>1. Admitted(p, m) /\ led.job[m].state \in Active
    BY <1>4, VerdictAdmits
  <2>2. SameBut(k, m) /\ Keeps(k, m) /\ k.job[m].key # NoKey /\ k.job[m].state = led.job[m].state
    BY <1>1, <2>1, KeyFixed
  <2> HIDE DEF k
  <2>3. k.job[m].state # "uploaded"
    BY <2>1, <2>2 DEF Active
  <2>4. PICK pc \in Pcs : pc = "upload"
    BY DEF Pcs
  <2> QED
    BY <1>1, <1>4, <2>1, <2>2, <2>3, <2>4, Proceeded
<1> QED
  BY <1>2, <1>3, <1>4 DEF PlaceDefault

\* A task stands still and the process may be told to stop.
LEMMA StandMoves ==
    ASSUME TypeOK, NEW p \in Nodes, NEW s \in Slots, UNCHANGED task,
           UNCHANGED node \/ node' = [node EXCEPT ![p].stop = TRUE]
    PROVE  Moves(p, s, task[p][s].pc, task[p][s].token)
<1>1. node \in [Nodes -> NodeRow] /\ task \in [Nodes -> [Slots -> TaskRow]]
  BY Types
<1>2. node' \in [Nodes -> NodeRow] /\ \A q \in Nodes : node'[q].up = node[q].up
  <2>1. CASE UNCHANGED node
    BY <1>1, <2>1
  <2>2. CASE node' = [node EXCEPT ![p].stop = TRUE]
    <3> DEFINE row == [node[p] EXCEPT !.stop = TRUE]
    <3>1. node' = [node EXCEPT ![p] = row] /\ row \in NodeRow /\ row.up = node[p].up
      BY <1>1, <2>2 DEF NodeRow
    <3> HIDE DEF row
    <3> QED
      BY <1>1, <3>1
  <2> QED
    BY <2>1, <2>2
<1> QED
  BY <1>1, <1>2 DEF Moves, Aside

\* A running task of an earlier attempt is resumed with a new token.
LEMMA ResumeIsGood ==
    ASSUME IInv, NEW p \in Nodes, NEW m \in PaidMusic, Resume(p, m), Frame
    PROVE  Good
<1>1. m \in Slots /\ TypeOK /\ node[p].up = "live"
  BY DEF IInv, Objects, Resume, At, Slots, Music
<1> DEFINE l == Rotated(p, m)
<1>2. CASE Write(p, led) /\ GiveUp(p, m, TRUE)
  BY <1>1, <1>2, GivenUp
<1>3. CASE run.attempt = p /\ GoOn(p, m, l, "poll")
  <2>1. led.job[m] \in Job /\ led.job[m].token \in Nat /\ p \in Nat
    BY <1>1, Types, JobFields
  <2>2. PICK t \in Nat : t = led.job[m].token + 1
    BY <2>1
  <2> DEFINE r == [led.job[m] EXCEPT !.token = t, !.owner = p, !.lapsed = FALSE, !.state = "processing"]
  <2>3. l = Set(m, r)
    BY <2>2 DEF Rotated
  <2>4. /\ r \in Job /\ r.token = t /\ r.owner = p /\ r.state = "processing"
        /\ r.reserved = led.job[m].reserved /\ r.key = led.job[m].key
    BY <2>1 DEF Job, States, Active
  <2> HIDE DEF r, l
  <2>5. SameBut(l, m) /\ l.job[m] = r
    BY <1>1, <2>3, <2>4, SetFits
  <2>6. Rotates(p, l, m) /\ l.job[m].token \in Nat
    BY <2>2, <2>4, <2>5 DEF Rotates
  <2>7. Commit(p, l) \/ CommitFails(p, l)
    BY <1>3 DEF GoOn
  <2>8. led.job[m].state \in {"submitted", "processing"}
    BY <1>1, <2>7, ViewIsLed DEF Resume, Pending, Commit, CommitFails
  <2>9. Moves(p, m, "poll", l.job[m].token)
    BY <1>1, <1>3, <2>6, TakeMoves DEF GoOn, Pcs
  <2> QED
    BY <1>1, <1>3, <2>5, <2>6, <2>7, <2>8, <2>9, RotateStep
<1> QED
  BY <1>2, <1>3 DEF Resume

\* Delivery fails and the row says so, unless the ledger refuses.
LEMMA FailedIsGood ==
    ASSUME IInv, NEW p \in Nodes, NEW s \in Slots, node[p].up = "live",
           task[p][s].pc \in {"fetch", "stored", "unsent"}, Failed(p, s), Frame
    PROVE  Good
<1>1. TypeOK
  BY DEF IInv, Objects
<1> DEFINE l == Set(s, [led.job[s] EXCEPT !.state = "failed"])
<1>2. CASE Write(p, led) /\ GiveUp(p, s, FALSE)
  BY <1>2, GivenUp
<1>3. CASE Verdict(p, s, Active) = "ok" /\ Leave(p, s, l)
  <2>1. Admitted(p, s)
    BY <1>3, VerdictAdmits
  <2>2. SameBut(l, s) /\ Keeps(l, s) /\ l.job[s].state = "failed" /\ l.job[s].settled = led.job[s].settled
    BY <1>1, Titled DEF States, Orphan
  <2> HIDE DEF l
  <2>3. Passes(p, s, l, "gone")
    BY <2>2 DEF Passes
  <2> QED
    BY <1>3, <2>1, <2>2, <2>3, LeftBehind
<1> QED
  BY <1>2, <1>3 DEF Failed

\* The music task is asked for: it is settled, failed, renewed or given up.
LEMMA PollIsGood ==
    ASSUME IInv, NEW p \in Nodes, NEW m \in PaidMusic, Poll(p, m), Frame
    PROVE  Good
<1>1. m \in Slots /\ m \in Paid /\ TypeOK /\ node[p].up = "live" /\ task[p][m].pc = "poll"
  BY DEF IInv, Objects, Poll, At, Slots, Music, Paid
<1>2. led.job[m] \in Job
  BY <1>1, Types
<1>3. CASE GiveUp(p, m, FALSE) /\ UNCHANGED ledgerVars
  BY <1>1, <1>3, GivenUp
<1>4. CASE Refused(p, m, Verdict(p, m, {"submitted", "processing", "uploaded"}))
  BY <1>1, <1>4, RefusedIsGood
<1>5. CASE /\ Verdict(p, m, {"submitted", "processing", "uploaded"}) = "ok"
           /\ GoOn(p, m, Settled(m), "fetch")
  <2>1. Admitted(p, m)
    BY <1>5, VerdictAdmits DEF Active
  <2> DEFINE r == [led.job[m] EXCEPT !.settled = TRUE]
             l == Settled(m)
  <2>2. /\ r \in Job /\ r.state = led.job[m].state /\ r.token = led.job[m].token
        /\ r.owner = led.job[m].owner /\ r.reserved = led.job[m].reserved /\ r.key = led.job[m].key
        /\ r.settled = TRUE
    BY <1>2 DEF Job
  <2>3. l = Set(m, r)
    BY DEF Settled
  <2> HIDE DEF r, l
  <2>4. SameBut(l, m) /\ l.job[m] = r
    BY <1>1, <2>2, <2>3, SetFits
  <2>5. Keeps(l, m)
    BY <2>1, <2>2, <2>4 DEF Keeps, Admitted, Active
  <2>6. PICK pc \in Pcs : pc = "fetch"
    BY DEF Pcs
  <2>7. Passes(p, m, l, pc)
    BY <1>1, <2>2, <2>4, <2>6 DEF Passes
  <2>8. GoOn(p, m, l, pc)
    BY <1>5, <2>6 DEF l
  <2>9. l.job[m].state = "uploaded" => led.job[m].state = "uploaded"
    BY <2>2, <2>4
  <2> QED
    BY <1>1, <2>1, <2>4, <2>5, <2>6, <2>7, <2>8, <2>9, WentOn
<1>6. CASE Commit(p, led) /\ GiveUp(p, m, Verdict(p, m, Active) = "stop")
  BY <1>1, <1>6, GivenUp
<1>7. CASE /\ song[m] = "failed" /\ Verdict(p, m, Active) = "ok"
           /\ Leave(p, m, Set(m, [led.job[m] EXCEPT !.state = "failed"]))
  <2> DEFINE l == Set(m, [led.job[m] EXCEPT !.state = "failed"])
  <2>1. Admitted(p, m) /\ led.job[m].state \in Active
    BY <1>7, VerdictAdmits
  <2>2. SameBut(l, m) /\ Keeps(l, m) /\ l.job[m].state = "failed" /\ Leave(p, m, l)
    BY <1>1, <1>7, Titled DEF States, Orphan
  <2> HIDE DEF l
  <2>3. Passes(p, m, l, "gone")
    BY <1>1, <1>7, <2>1, <2>2 DEF Passes
  <2> QED
    BY <1>1, <2>1, <2>2, <2>3, LeftBehind
<1>8. CASE \E stop \in BOOLEAN : Write(p, led) /\ GiveUp(p, m, stop)
  BY <1>1, <1>8, GivenUp
<1> DEFINE new == [led.job[m] EXCEPT !.lapsed = FALSE]
<1>9. CASE /\ led.job[m].owner = run.attempt /\ led.job[m].token = task[p][m].token
           /\ led.job[m].state \in Active
           /\ \/ Commit(p, Set(m, new)) /\ UNCHANGED nodeVars
              \/ Write(p, Set(m, new)) /\ UNCHANGED task /\ node' = [node EXCEPT ![p].stop = TRUE]
  <2>1. Admitted(p, m)
    BY <1>9 DEF Admitted
  <2>2. /\ new \in Job /\ new.state = led.job[m].state /\ new.token = led.job[m].token
        /\ new.owner = led.job[m].owner /\ new.reserved = led.job[m].reserved
        /\ new.key = led.job[m].key /\ new.settled = led.job[m].settled /\ new.task = led.job[m].task
    BY <1>2 DEF Job
  <2> HIDE DEF new
  <2>3. PICK l : l = Set(m, new)
    OBVIOUS
  <2>4. SameBut(l, m) /\ l.job[m] = new
    BY <1>1, <2>2, <2>3, SetFits
  <2>5. Keeps(l, m) /\ SamePaid(l, m)
    BY <1>9, <2>2, <2>4 DEF Keeps, SamePaid, Active
  <2>6. Moves(p, m, task[p][m].pc, task[p][m].token)
    BY <1>1, <1>9, StandMoves DEF nodeVars
  <2>7. PICK pc : pc = task[p][m].pc
    OBVIOUS
  <2>8. Passes(p, m, l, pc)
    BY <1>1, <2>2, <2>4, <2>7 DEF Passes
  <2>9. Wrote(p, l) /\ Moves(p, m, pc, task[p][m].token)
    BY <1>9, <2>3, <2>6, <2>7 DEF Wrote
  <2>10. l.job[m].state = "uploaded" => led.job[m].state = "uploaded"
    BY <2>2, <2>4
  <2>11. pc \notin {"stored", "unsent", "upload", "done"}
    BY <1>1, <2>7
  <2> QED
    BY <1>1, <2>1, <2>4, <2>5, <2>8, <2>9, <2>10, <2>11, UpdateStep
<1> QED
  <2>1. CASE song[m] = "running" /\ ~node[p].stop
    BY <1>3, <1>8, <1>9, <2>1 DEF Poll
  <2>2. CASE ~(song[m] = "running" /\ ~node[p].stop)
    BY <1>3, <1>4, <1>5, <1>6, <1>7, <2>2 DEF Poll
  <2> QED
    BY <2>1, <2>2

\* The key of generated music is new, and committed before the upload.
LEMMA PlacePaidIsGood ==
    ASSUME IInv, NEW p \in Nodes, NEW m \in PaidMusic, PlacePaid(p, m), Frame
    PROVE  Good
<1>1. m \in Slots /\ m \in Paid /\ TypeOK /\ node[p].up = "live" /\ task[p][m].pc = "fetch"
  BY DEF IInv, Objects, PlacePaid, At, Slots, Music, Paid
<1> DEFINE k == Keyed(p, led, m)
<1>2. CASE GiveUp(p, m, FALSE) /\ UNCHANGED ledgerVars
  BY <1>1, <1>2, GivenUp
<1>3. CASE Failed(p, m)
  BY <1>1, <1>3, FailedIsGood
<1>4. CASE Verdict(p, m, Active) = "ok" /\ Proceed(p, m, k, "upload")
  <2>1. Admitted(p, m) /\ led.job[m].state \in Active
    BY <1>4, VerdictAdmits
  <2>2. SameBut(k, m) /\ Keeps(k, m) /\ k.job[m].key # NoKey /\ k.job[m].state = led.job[m].state
        /\ k.job[m].settled = led.job[m].settled
    BY <1>1, <2>1, KeyFixed
  <2> HIDE DEF k
  <2>3. k.job[m].state # "uploaded"
    BY <2>1, <2>2 DEF Active
  <2>4. PICK pc \in Pcs : pc = "upload"
    BY DEF Pcs
  <2>5. Passes(p, m, k, pc) /\ Passes(p, m, k, "gone")
    BY <1>1, <2>2, <2>4 DEF Passes
  <2> QED
    BY <1>1, <1>4, <2>1, <2>2, <2>3, <2>4, <2>5, Proceeded
<1> QED
  BY <1>2, <1>3, <1>4 DEF PlacePaid

\* What was uploaded is recorded, and delivered whatever the commit says.
LEMMA RecordUploadIsGood ==
    ASSUME IInv, NEW p \in Nodes, NEW s \in Slots, RecordUpload(p, s), Frame
    PROVE  Good
<1>1. TypeOK /\ node[p].up = "live" /\ task[p][s].pc = "stored"
  BY DEF IInv, Objects, RecordUpload, At
<1>2. CASE Refused(p, s, Verdict(p, s, Active))
  BY <1>1, <1>2, RefusedIsGood
<1>3. CASE Failed(p, s)
  BY <1>1, <1>3, FailedIsGood
<1>4. CASE Verdict(p, s, Active) = "ok" /\ GoOn(p, s, Uploaded(s), "done")
  <2>1. Admitted(p, s) /\ led.job[s] \in Job
    BY <1>1, <1>4, VerdictAdmits, Types
  <2>2. PICK b \in BOOLEAN : b = (led.job[s].settled \/ s \in DefaultMusic)
    OBVIOUS
  <2> DEFINE r == [led.job[s] EXCEPT !.state = "uploaded", !.settled = b]
             l == Uploaded(s)
  <2>3. /\ r \in Job /\ r.state = "uploaded" /\ r.token = led.job[s].token
        /\ r.owner = led.job[s].owner /\ r.reserved = led.job[s].reserved /\ r.key = led.job[s].key
    BY <2>1 DEF Job, States, Orphan
  <2>4. l = Set(s, r)
    BY <2>2 DEF Uploaded
  <2> HIDE DEF r, l
  <2>5. SameBut(l, s) /\ l.job[s] = r
    BY <1>1, <2>3, <2>4, SetFits
  <2>6. Keeps(l, s)
    BY <2>3, <2>5 DEF Keeps
  <2>7. PICK pc \in Pcs : pc = "done"
    BY DEF Pcs
  <2>8. Passes(p, s, l, pc)
    BY <1>1, <2>3, <2>5, <2>7 DEF Passes
  <2>9. GoOn(p, s, l, pc)
    BY <1>4, <2>7 DEF l
  <2> QED
    BY <1>1, <2>1, <2>5, <2>6, <2>7, <2>8, <2>9, WentOn
<1> QED
  BY <1>2, <1>3, <1>4 DEF RecordUpload

\* Every step of a task but the call and the upload.
LEMMA LedgerTaskIsGood ==
    ASSUME IInv, NEW p \in Nodes, NEW s \in Slots, Frame,
           \/ s \in Paid /\ (Submit(p, s) \/ Answered(p, s) \/ Limited(p, s) \/ Lost(p, s))
           \/ Delivery(p, s)
    PROVE  Good
<1>1. CASE s \in Paid /\ (Submit(p, s) \/ Answered(p, s) \/ Limited(p, s) \/ Lost(p, s))
  BY <1>1, SubmitIsGood, AnsweredIsGood, LimitedIsGood, LostIsGood
<1>2. CASE s \in Narrations /\ (BeginScene(p, s) \/ PlaceNarration(p, s))
  BY <1>2, BeginSceneIsGood, PlaceNarrationIsGood
<1>3. CASE s \in DefaultMusic /\ (ReadSource(p, s) \/ ReserveDefault(p, s) \/ PlaceDefault(p, s))
  BY <1>3, ReadSourceIsGood, ReserveDefaultIsGood, PlaceDefaultIsGood
<1>4. CASE s \in PaidMusic /\ UseMusicAgain(p, s)
  BY <1>4, GoneTo DEF UseMusicAgain, At, Reusable, Pcs
<1>5. CASE s \in PaidMusic /\ (Resume(p, s) \/ Poll(p, s) \/ PlacePaid(p, s))
  BY <1>5, ResumeIsGood, PollIsGood, PlacePaidIsGood
<1>6. CASE RecordUpload(p, s)
  BY <1>6, RecordUploadIsGood
<1>7. CASE UploadFailed(p, s)
  BY <1>7, FailedIsGood DEF UploadFailed, At
<1> QED
  BY <1>1, <1>2, <1>3, <1>4, <1>5, <1>6, <1>7 DEF Delivery

-----------------------------------------------------------------------------
(* Calls and uploads. *)

\* A step that writes a task, the provider and the bucket.
LEMMA OutsideStep ==
    ASSUME Objects, NEW p \in Nodes, NEW s \in Slots, NEW pc, NEW tok, Moves(p, s, pc, tok),
           UNCHANGED <<run, led, disk, lock, published, aged>>,
           charged' \in [Slots -> Nat], song' \in [PaidMusic -> {"none", "running", "ok", "failed"}],
           ChargesFit', store \subseteq store', store' \subseteq Nodes \X Slots,
           late' \subseteq Nodes \X Slots, Tracked', TaskFits(p, s)'
    PROVE  Objects'
<1>1. led' = led /\ disk' = disk /\ lock' = lock /\ run' = run /\ published' = published /\ aged' = aged
  OBVIOUS
<1>2. \A t \in Slots : Stored(t) => Stored(t)'
  BY <1>1 DEF Stored
<1>3. LedgerFits' /\ Persist
  BY <1>1, <1>2 DEF Objects, LedgerFits, KeysAgree, OneMusic, UploadsStand, Persist
<1>4. TasksFit'
  BY <1>1, <1>3, TasksStep
<1>5. TypeOK'
  BY <1>1 DEF Objects, TypeOK, Moves, NodeRow, TaskRow, Pcs
<1>6. Rested' /\ PublishedIsKept'
  BY <1>1 DEF Objects, Rested, Moves, PublishedIsKept
<1> QED
  BY <1>3, <1>4, <1>5, <1>6 DEF Objects

\* Who holds a paid row is the only one that does.
LEMMA OneHolder ==
    ASSUME TypeOK, Money, NEW p \in Nodes, NEW q \in Nodes, NEW s \in Paid,
           node[p].up = "live", node[q].up = "live", Holds(p, s), Holds(q, s), led.job[s].state # "absent"
    PROVE  p = q
<1>1. s \in Slots /\ led.job[s].token \in Nat /\ led.job[s].token > 0
  BY SlotFacts, Types, JobFields DEF Money, RowsFit, RowFits
<1>2. \A x \in {p, q} : View(x)[s].token = led.job[s].token /\ View(x)[s].owner = led.job[s].owner
  BY DEF View, Money, PaidAgree
<1>3. TokenFits(p, s) /\ TokenFits(q, s)
  BY <1>1 DEF Money, Tokens
<1> QED
  BY <1>1, <1>2, <1>3 DEF TokenFits, Holds

\* The provider may take the call, refuse it or leave it unanswered.
LEMMA CallIsGood ==
    ASSUME IInv, NEW p \in Nodes, NEW s \in Paid, Call(p, s),
           UNCHANGED <<ledgerVars, objectVars, run, aged>>
    PROVE  Good
<1>1. s \in Slots /\ Objects /\ TypeOK /\ node[p].up = "live" /\ task[p][s].pc = "call"
  BY SlotFacts DEF IInv, Objects, Call, At
<1>2. /\ led' = led /\ disk' = disk /\ lock' = lock /\ run' = run /\ aged' = aged
      /\ store' = store /\ late' = late /\ published' = published
  BY DEF ledgerVars, objectVars
<1>3. PICK pc \in Pcs, n \in {0, 1} :
        /\ Goto(p, s, pc) /\ charged' = [charged EXCEPT ![s] = @ + n]
        /\ \/ pc = "answered" /\ n = 1 /\ song' = IF s \in PaidMusic THEN [song EXCEPT ![s] = "running"] ELSE song
           \/ pc = "limited" /\ n = 0 /\ song' = song
           \/ pc = "lost" /\ song' = song
  <2>1. charged \in [Slots -> Nat]
    BY <1>1, Types
  <2>2. CASE /\ Goto(p, s, "answered") /\ charged' = [charged EXCEPT ![s] = @ + 1]
             /\ song' = IF s \in PaidMusic THEN [song EXCEPT ![s] = "running"] ELSE song
    BY <2>2 DEF Pcs
  <2>3. CASE Goto(p, s, "limited") /\ UNCHANGED providerVars
    <3>1. charged' = [charged EXCEPT ![s] = @ + 0] /\ song' = song
      BY <1>1, <2>1, <2>3 DEF providerVars
    <3> QED
      BY <2>3, <3>1 DEF Pcs
  <2>4. CASE /\ Goto(p, s, "lost") /\ \E n \in {0, 1} : charged' = [charged EXCEPT ![s] = @ + n]
             /\ UNCHANGED song
    BY <2>4 DEF Pcs
  <2> QED
    BY <2>2, <2>3, <2>4 DEF Call
<1>4. Moves(p, s, pc, task[p][s].token)
  BY <1>1, <1>3, GotoMoves
<1>5. charged \in [Slots -> Nat] /\ song \in [PaidMusic -> {"none", "running", "ok", "failed"}]
      /\ charged[s] \in Nat /\ task \in [Nodes -> [Slots -> TaskRow]]
  BY <1>1, Types
<1>6. /\ charged' \in [Slots -> Nat] /\ charged'[s] = charged[s] + n
      /\ \A t \in Slots \ {s} : charged'[t] = charged[t]
  BY <1>1, <1>3, <1>5
<1>7. /\ song' \in [PaidMusic -> {"none", "running", "ok", "failed"}]
      /\ \A t \in PaidMusic \ {s} : song'[t] = song[t]
      /\ s \in PaidMusic => song'[s] = song[s] \/ (song'[s] = "running" /\ n = 1)
      /\ s \in PaidMusic /\ pc = "answered" => song'[s] = "running"
  BY <1>3, <1>5
<1>8. ChargesFit'
  <2>1. ASSUME NEW m \in PaidMusic, song'[m] \in {"running", "ok"} PROVE charged'[m] >= 1
    <3>1. m \in Slots /\ (song[m] \in {"running", "ok"} => charged[m] >= 1)
      BY <1>1 DEF Objects, ChargesFit, Slots, Music
    <3>2. CASE m = s
      BY <1>3, <1>5, <1>6, <1>7, <2>1, <3>1, <3>2
    <3>3. CASE m # s
      BY <1>6, <1>7, <2>1, <3>1, <3>3
    <3> QED
      BY <3>2, <3>3
  <2>2. \A t \in Slots \ Paid : charged'[t] = 0
    BY <1>1, <1>6 DEF Objects, ChargesFit
  <2> QED
    BY <2>1, <2>2 DEF ChargesFit
<1>9. TaskFits(p, s)'
  BY <1>3, <1>4 DEF Moves, TaskFits, Reports
<1>10. Tracked'
  BY <1>1, <1>2 DEF Objects, LedgerFits, Tracked
<1>11. Objects'
  BY <1>1, <1>2, <1>4, <1>6, <1>7, <1>8, <1>9, <1>10, OutsideStep, Types
<1>12. ASSUME Money PROVE Money'
  <2>1. /\ \A q \in Nodes : \A t \in Slots : task'[q][t].token = task[q][t].token
        /\ \A q \in Nodes : node'[q].up = node[q].up
    BY <1>4 DEF Moves, Aside
  <2>2. \A q \in Nodes : View(q)' = View(q)
    BY <1>2 DEF View
  <2>3. Ahead' /\ PaidAgree'
    BY <1>2, <1>12 DEF Money, Ahead, PaidAgree
  <2>4. Tokens'
    BY <1>12, <2>1, <2>2 DEF Money, Tokens, TokenFits
  <2>5. RowFits(s) /\ PurchaseFits(p, s)
    BY <1>1, <1>12 DEF Money, RowsFit, PurchasesFit
  <2>6. Holds(p, s) /\ led.job[s].state = "submitting" /\ charged[s] = 0
    BY <1>1, <2>5 DEF PurchaseFits
  <2>7. RowFits(s)'
    BY <1>2, <1>3, <1>6, <2>5, <2>6 DEF RowFits
  <2>8. ASSUME NEW t \in Paid, t # s PROVE RowFits(t)'
    <3>1. RowFits(t) /\ t \in Slots
      BY <1>12, SlotFacts DEF Money, RowsFit
    <3> QED
      BY <1>2, <1>6, <1>7, <2>8, <3>1 DEF RowFits
  <2>9. PurchaseFits(p, s)'
    <3>1. task'[p][s].pc = pc /\ Holds(p, s)'
      BY <1>1, <1>2, <1>4, <2>6 DEF Moves, Holds
    <3> QED
      BY <1>2, <1>3, <1>6, <1>7, <2>6, <3>1 DEF PurchaseFits
  <2>10. ASSUME NEW q \in Nodes, NEW t \in Paid, node'[q].up = "live", q # p \/ t # s
         PROVE  PurchaseFits(q, t)'
    <3>1. t \in Slots /\ node[q].up = "live" /\ PurchaseFits(q, t)
      BY <1>12, <2>1, <2>10, SlotFacts DEF Money, PurchasesFit
    <3>2. CASE t # s
      <4>1. charged'[t] = charged[t] /\ led'.job[t] = led.job[t] /\ (t \in PaidMusic => song'[t] = song[t])
        BY <1>2, <1>6, <1>7, <3>1, <3>2
      <4>2. CASE task'[q][t] = task[q][t]
        BY <3>1, <4>1, <4>2 DEF PurchaseFits, Holds
      <4>3. CASE task'[q][t].pc = "gone" \/ task'[q][t].pc = "done"
        BY <4>3 DEF PurchaseFits
      <4> QED
        BY <1>4, <3>1, <3>2, <4>2, <4>3 DEF Moves, Aside
    <3>3. CASE t = s /\ q # p
      <4>1. ~Holds(q, s)
        BY <1>1, <1>12, <2>6, <3>1, <3>3, OneHolder
      <4>2. task'[q][s] = task[q][s] /\ PurchaseFits(q, s)
        BY <1>4, <3>1, <3>3 DEF Moves
      <4>3. task'[q][s].pc \notin {"call", "limited", "answered"} /\ ~Holds(q, s)'
        BY <1>2, <4>1, <4>2 DEF PurchaseFits, Holds
      <4>4. PurchaseFits(q, s)'
        BY <4>3 DEF PurchaseFits
      <4> QED
        BY <3>3, <4>4
    <3> QED
      BY <2>10, <3>2, <3>3
  <2>11. RowsFit'
    BY <2>7, <2>8 DEF RowsFit
  <2>12. PurchasesFit'
    BY <2>9, <2>10 DEF PurchasesFit
  <2> QED
    BY <2>3, <2>4, <2>11, <2>12 DEF Money
<1> QED
  BY <1>2, <1>11, <1>12 DEF Good, IInv, Fenced

\* An object is stored under a committed key, or its upload goes on unwatched.
LEMMA UploadIsGood ==
    ASSUME IInv, NEW p \in Nodes, NEW s \in Slots, Upload(p, s),
           UNCHANGED <<ledgerVars, providerVars, run, aged>>
    PROVE  Good
<1>1. Objects /\ TypeOK /\ node[p].up = "live" /\ task[p][s].pc = "upload"
  BY DEF IInv, Objects, Upload, At
<1>2. /\ led' = led /\ disk' = disk /\ lock' = lock /\ run' = run /\ aged' = aged
      /\ charged' = charged /\ song' = song /\ published' = published
  BY DEF ledgerVars, providerVars, Upload
<1>3. disk.job[s].key # NoKey /\ View(p)[s].key = disk.job[s].key
  BY <1>1 DEF Objects, TasksFit, TaskFits, LedgerFits, KeysAgree, View
<1>4. disk.job[s].key \in Nodes \X Slots
  BY <1>1, <1>3, Types, JobFields
<1>5. PICK k : k = disk.job[s].key
  OBVIOUS
<1>6. /\ store \subseteq store' /\ store' \subseteq store \cup {k} /\ late' \subseteq late \cup {k}
      /\ \/ Goto(p, s, "stored") /\ k \in store'
         \/ Goto(p, s, "unsent")
         \/ GiveUp(p, s, FALSE)
  BY <1>3, <1>5 DEF Upload
<1>7. PICK pc \in {"stored", "unsent", "gone"} :
        Moves(p, s, pc, task[p][s].token) /\ (pc = "stored" => k \in store')
  BY <1>1, <1>6, GotoMoves, GiveUpMoves DEF Pcs
<1>8. Tracked'
  BY <1>1, <1>2, <1>5, <1>6 DEF Objects, LedgerFits, Tracked
<1>9. TaskFits(p, s)'
  BY <1>2, <1>3, <1>5, <1>7 DEF TaskFits, Reports, Stored, Moves
<1>10. /\ store \subseteq Nodes \X Slots /\ late \subseteq Nodes \X Slots /\ charged \in [Slots -> Nat]
       /\ song \in [PaidMusic -> {"none", "running", "ok", "failed"}]
  BY <1>1, Types
<1>11. store' \subseteq Nodes \X Slots /\ late' \subseteq Nodes \X Slots
  BY <1>4, <1>5, <1>6, <1>10
<1>12. ChargesFit'
  BY <1>1, <1>2 DEF Objects, ChargesFit
<1>13. Objects'
  BY <1>1, <1>2, <1>6, <1>7, <1>8, <1>9, <1>10, <1>11, <1>12, OutsideStep
<1>14. ASSUME Money PROVE Money'
  <2>1. ASSUME s \in Paid PROVE PurchaseFits(p, s)'
    <3>1. PurchaseFits(p, s) /\ (Holds(p, s)' => Holds(p, s)) /\ task'[p][s].pc = pc
      BY <1>1, <1>2, <1>7, <1>14, <2>1 DEF Money, PurchasesFit, Holds, Moves
    <3> QED
      BY <1>1, <1>2, <1>7, <3>1 DEF PurchaseFits
  <2> QED
    BY <1>1, <1>2, <1>7, <1>14, <2>1, QuietMoney DEF ledgerVars
<1> QED
  BY <1>2, <1>13, <1>14 DEF Good, IInv, Fenced

\* Every step of a task.
LEMMA TaskIsGood ==
    ASSUME IInv, NEW p \in Nodes, NEW s \in Slots, Task(p, s)
    PROVE  Good
<1>1. CASE s \in Paid /\ Call(p, s) /\ UNCHANGED ledgerVars /\ UNCHANGED objectVars /\ UNCHANGED <<run, aged>>
  BY <1>1, CallIsGood
<1>2. CASE Upload(p, s) /\ UNCHANGED <<ledgerVars, providerVars>> /\ UNCHANGED <<run, aged>>
  BY <1>2, UploadIsGood
<1>3. CASE /\ \/ s \in Paid /\ (Submit(p, s) \/ Answered(p, s) \/ Limited(p, s) \/ Lost(p, s))
              \/ Delivery(p, s)
           /\ UNCHANGED providerVars /\ UNCHANGED objectVars /\ UNCHANGED <<run, aged>>
  <2>1. Frame
    BY <1>3 DEF Frame, providerVars, objectVars
  <2> QED
    BY <1>3, <2>1, LedgerTaskIsGood
<1> QED
  BY <1>1, <1>2, <1>3 DEF Task, Purchase, Paid

-----------------------------------------------------------------------------
(* The run around the node, the provider and the bucket. *)

\* Rows that differ in their lease only.
Like(r, j) ==
    /\ r.state = j.state /\ r.token = j.token /\ r.owner = j.owner /\ r.key = j.key
    /\ r.reserved = j.reserved /\ r.settled = j.settled /\ r.task = j.task

\* The objects when the run, the processes, the leases or the end of the window change.
LEMMA ObjectsStay ==
    ASSUME Objects, TypeOK', \A t \in Slots : Like(led'.job[t], led.job[t]),
           \A t \in Slots : Like(disk'.job[t], disk.job[t]),
           UNCHANGED <<task, charged, song, published>>, store \subseteq store',
           store' \cup late' \subseteq store \cup late, aged => aged', Rested'
    PROVE  Objects'
<1>1. task' = task /\ charged' = charged /\ song' = song /\ published' = published
  OBVIOUS
<1>2. \A t \in Slots : Stored(t) => Stored(t)'
  BY DEF Stored, Like
<1>3. OneMusic(led.job)' /\ OneMusic(disk.job)'
  <2>1. Music \subseteq Slots
    BY DEF Slots
  <2> QED
    BY <2>1 DEF Objects, LedgerFits, OneMusic, Like
<1>4. KeysAgree'
  BY DEF Objects, LedgerFits, KeysAgree, Like
<1>5. Tracked'
  BY DEF Objects, LedgerFits, Tracked, Like
<1>6. UploadsStand'
  BY <1>2 DEF Objects, LedgerFits, UploadsStand, Like
<1>7. TasksFit'
  BY <1>1, <1>2 DEF Objects, TasksFit, TaskFits, Reports, Like
<1>8. ChargesFit' /\ PublishedIsKept'
  BY <1>1 DEF Objects, ChargesFit, PublishedIsKept
<1> QED
  BY <1>3, <1>4, <1>5, <1>6, <1>7, <1>8 DEF Objects, LedgerFits

\* The money when nothing it speaks of changes, and processes end.
LEMMA MoneyStays ==
    ASSUME Money, \A t \in Slots : Like(led'.job[t], led.job[t]),
           \A t \in Slots : Like(disk'.job[t], disk.job[t]),
           UNCHANGED <<lock, task, charged, song>>, aged => aged',
           \A q \in Nodes : node'[q].up = "live" => node[q].up = "live"
    PROVE  Money'
<1>1. task' = task /\ charged' = charged /\ song' = song /\ lock' = lock
  OBVIOUS
<1>2. Paid \subseteq Slots
  BY SlotFacts
<1>3. Ahead'
  BY DEF Money, Ahead, Like
<1>4. PaidAgree'
  BY <1>2 DEF Money, PaidAgree, Like
<1>5. Tokens'
  <2>1. \A q \in Nodes : \A t \in Slots :
          View(q)'[t].token = View(q)[t].token /\ View(q)'[t].owner = View(q)[t].owner
    BY <1>1 DEF View, Like
  <2> QED
    BY <1>1, <2>1 DEF Money, Tokens, TokenFits
<1>6. RowsFit'
  BY <1>1, <1>2 DEF Money, RowsFit, RowFits, Like
<1>7. PurchasesFit'
  <2> SUFFICES ASSUME NEW q \in Nodes, NEW t \in Paid, node'[q].up = "live" PROVE PurchaseFits(q, t)'
    BY DEF PurchasesFit
  <2>1. PurchaseFits(q, t) /\ Like(led'.job[t], led.job[t])
    BY <1>2 DEF Money, PurchasesFit
  <2> QED
    BY <1>1, <2>1 DEF PurchaseFits, Holds, Like
<1> QED
  BY <1>3, <1>4, <1>5, <1>6, <1>7 DEF Money

\* The transaction of process p ends with the process, committed or not.
LEMMA RollMoney ==
    ASSUME TypeOK, Money, NEW p \in Nodes, lock = p, lock' = 0,
           led' = disk', disk' \in {led, disk}, UNCHANGED <<task, charged, song, aged>>,
           \A q \in Nodes : node'[q].up = "live" => node[q].up = "live" /\ q # p
    PROVE  Money'
<1>1. task' = task /\ charged' = charged /\ song' = song /\ aged' = aged
  OBVIOUS
<1>2. Paid \subseteq Slots /\ 0 \notin Nodes
  BY SlotFacts, Types
<1>3. Ahead'
  <2>1. \A t \in Slots : led.job[t].token \in Nat /\ disk.job[t].token \in Nat
    BY Types, JobFields
  <2> QED
    BY <2>1 DEF Money, Ahead
<1>4. PaidAgree'
  BY DEF PaidAgree
<1>5. Tokens'
  <2> SUFFICES ASSUME NEW q \in Nodes, NEW t \in Slots, node'[q].up = "live" PROVE TokenFits(q, t)'
    BY DEF Tokens
  <2>1. View(q) = disk.job /\ View(q)' = disk'.job /\ TokenFits(q, t)
    BY <1>2 DEF View, Money, Tokens
  <2>2. /\ task[q][t].token \in Nat /\ led.job[t].token \in Nat /\ disk.job[t].token \in Nat
    BY Types, JobFields DEF TaskRow
  <2>3. /\ disk.job[t].token <= led.job[t].token
        /\ disk.job[t].token = led.job[t].token => disk.job[t].owner = led.job[t].owner
    BY DEF Money, Ahead
  <2>4. CASE disk' = disk
    BY <1>1, <2>1, <2>4 DEF TokenFits
  <2>5. CASE disk' = led
    <3>1. task[q][t].token <= led.job[t].token
          /\ (task[q][t].token = led.job[t].token =>
                task[q][t].token = disk.job[t].token /\ disk.job[t].token = led.job[t].token)
      BY <2>1, <2>2, <2>3 DEF TokenFits
    <3> QED
      BY <1>1, <2>1, <2>3, <2>5, <3>1 DEF TokenFits
  <2> QED
    BY <2>4, <2>5
<1>6. \A t \in Paid : /\ led'.job[t].state = led.job[t].state /\ led'.job[t].token = led.job[t].token
                      /\ led'.job[t].reserved = led.job[t].reserved
                      /\ led'.job[t].settled = led.job[t].settled
  BY DEF Money, PaidAgree
<1>7. RowsFit'
  BY <1>1, <1>6 DEF Money, RowsFit, RowFits
<1>8. PurchasesFit'
  <2> SUFFICES ASSUME NEW q \in Nodes, NEW t \in Paid, node'[q].up = "live" PROVE PurchaseFits(q, t)'
    BY DEF PurchasesFit
  <2>1. PurchaseFits(q, t)
    BY DEF Money, PurchasesFit
  <2> QED
    BY <1>1, <1>6, <2>1 DEF PurchaseFits, Holds
<1> QED
  BY <1>3, <1>4, <1>5, <1>7, <1>8 DEF Money

\* The objects when a process ends.
LEMMA EndObjects ==
    ASSUME Objects, NEW p \in Nodes, node[p].up = "live", node' = [node EXCEPT ![p].up = "over"],
           \/ UNCHANGED ledgerVars
           \/ lock' = 0 /\ led' = disk' /\ disk' \in {led, disk},
           UNCHANGED <<run, task, charged, song, store, aged>>, late' \subseteq late,
           published' \in [done : BOOLEAN, keys : SUBSET (Nodes \X Slots)], PublishedIsKept'
    PROVE  Objects' /\ \A q \in Nodes : node'[q].up = "live" => node[q].up = "live" /\ q # p
<1>1. TypeOK /\ node \in [Nodes -> NodeRow] /\ led \in Ledger /\ disk \in Ledger
      /\ late \subseteq Nodes \X Slots
  BY Types DEF Objects
<1> DEFINE row == [node[p] EXCEPT !.up = "over"]
<1>2. node' = [node EXCEPT ![p] = row] /\ row \in NodeRow /\ row.up = "over"
  BY <1>1 DEF NodeRow
<1> HIDE DEF row
<1>3. node' \in [Nodes -> NodeRow] /\ \A q \in Nodes : node'[q].up = "live" => node[q].up = "live" /\ q # p
  BY <1>1, <1>2
<1>4. \/ led' = led /\ disk' = disk /\ lock' = lock
      \/ lock' = 0 /\ led' = disk' /\ disk' \in {led, disk}
  BY DEF ledgerVars
<1>5. run' = run /\ task' = task /\ charged' = charged /\ song' = song /\ store' = store /\ aged' = aged
  OBVIOUS
<1>6. TypeOK'
  <2>1. led' \in Ledger /\ disk' \in Ledger /\ lock' \in {0} \cup Nodes /\ (lock' = 0 => led' = disk')
    BY <1>1, <1>4, Types
  <2>2. late' \subseteq Nodes \X Slots
    BY <1>1
  <2> QED
    BY <1>1, <1>3, <1>5, <2>1, <2>2 DEF TypeOK, NodeRow
<1>7. Persist /\ KeysAgree'
  BY <1>4 DEF Persist, KeysAgree, Objects, LedgerFits
<1>8. OneMusic(led.job)' /\ OneMusic(disk.job)'
  BY <1>4 DEF OneMusic, Objects, LedgerFits
<1>9. Tracked'
  <2> SUFFICES ASSUME NEW k \in store \cup late PROVE \E t \in Slots : disk'.job[t].key = k
    BY <1>5 DEF Tracked
  <2>1. PICK t \in Slots : disk.job[t].key = k
    BY DEF Objects, LedgerFits, Tracked
  <2>2. k # NoKey
    BY <1>1, Types, KeysAreKeys
  <2> QED
    BY <1>7, <2>1, <2>2 DEF Persist
<1>10. \A t \in Slots : Stored(t) => Stored(t)'
  BY <1>5, <1>7 DEF Stored, Persist
<1>11. UploadsStand'
  BY <1>4, <1>5, <1>10 DEF UploadsStand, Objects, LedgerFits
<1>12. TasksFit'
  BY <1>5, <1>7, <1>10 DEF Objects, TasksFit, TaskFits, Reports, Persist
<1>13. ChargesFit' /\ Rested'
  BY <1>3, <1>5 DEF Objects, ChargesFit, Rested
<1> QED
  BY <1>3, <1>6, <1>7, <1>8, <1>9, <1>11, <1>12, <1>13 DEF Objects, LedgerFits

\* A process that ends leaves everything in order.
LEMMA EndIsGood ==
    ASSUME IInv, NEW p \in Nodes, node[p].up = "live", node' = [node EXCEPT ![p].up = "over"],
           \/ UNCHANGED ledgerVars
           \/ lock = p /\ lock' = 0 /\ led' = disk' /\ disk' \in {led, disk},
           UNCHANGED <<run, task, charged, song, store, aged>>, late' \subseteq late,
           published' \in [done : BOOLEAN, keys : SUBSET (Nodes \X Slots)], PublishedIsKept'
    PROVE  Good
<1>1. Objects /\ TypeOK
  BY DEF IInv, Objects
<1>2. Objects' /\ \A q \in Nodes : node'[q].up = "live" => node[q].up = "live" /\ q # p
  BY <1>1, EndObjects
<1>3. ASSUME Money PROVE Money'
  <2>1. CASE UNCHANGED ledgerVars
    BY <1>2, <1>3, <2>1, MoneyStays DEF ledgerVars, Like
  <2>2. CASE lock = p /\ lock' = 0 /\ led' = disk' /\ disk' \in {led, disk}
    BY <1>1, <1>2, <1>3, <2>2, RollMoney
  <2> QED
    BY <2>1, <2>2
<1> QED
  BY <1>2, <1>3 DEF Good, IInv, Fenced

\* The node returns; what the document names is there.
LEMMA ReturnIsGood ==
    ASSUME IInv, NEW p \in Nodes, Return(p)
    PROVE  Good
<1>1. Objects /\ TypeOK /\ node[p].up = "live" /\ aged = FALSE
  BY LiveIsEarly DEF IInv, Objects, Return
<1>2. /\ node' = [node EXCEPT ![p].up = "over"] /\ late' \subseteq late
      /\ UNCHANGED <<run, task, charged, song, store, aged>>
  BY DEF Return, providerVars
<1>3. \/ UNCHANGED ledgerVars
      \/ lock = p /\ lock' = 0 /\ led' = disk' /\ disk' \in {led, disk}
  BY DEF Return, Commit
<1>4. published \in [done : BOOLEAN, keys : SUBSET (Nodes \X Slots)] /\ store \subseteq Nodes \X Slots
  BY <1>1, Types
<1> DEFINE keys == {View(p)[s].key : s \in Delivered(p)}
<1>5. keys \subseteq store
  <2> SUFFICES ASSUME NEW s \in Delivered(p) PROVE View(p)[s].key \in store
    OBVIOUS
  <2>1. s \in Slots /\ s \in Deliverable /\ task[p][s].pc = "done"
    BY DEF Delivered, Deliverable, Slots
  <2>2. Stored(s)
    BY <1>1, <2>1 DEF Objects, TasksFit, TaskFits, Reports
  <2> QED
    BY <1>1, <2>1, <2>2 DEF Stored, View, Objects, LedgerFits, KeysAgree
<1> HIDE DEF keys
<1>6. published' = published \/ published' = [done |-> TRUE, keys |-> keys]
  BY DEF Return, keys
<1>7. published' \in [done : BOOLEAN, keys : SUBSET (Nodes \X Slots)] /\ published'.keys \subseteq store
  <2>1. CASE published' = published
    BY <1>1, <1>4, <2>1 DEF Objects, PublishedIsKept
  <2>2. CASE published' = [done |-> TRUE, keys |-> keys]
    <3>1. keys \in SUBSET (Nodes \X Slots)
      BY <1>4, <1>5
    <3> QED
      BY <1>5, <2>2, <3>1
  <2> QED
    BY <1>6, <2>1, <2>2
<1>8. PublishedIsKept'
  BY <1>2, <1>7 DEF PublishedIsKept
<1> QED
  BY <1>1, <1>2, <1>3, <1>7, <1>8, EndIsGood

\* A crash takes the transaction and the uploads of the process along.
LEMMA CrashIsGood ==
    ASSUME IInv, NEW p \in Nodes, Crash(p)
    PROVE  Good
<1>1. Objects /\ TypeOK /\ published \in [done : BOOLEAN, keys : SUBSET (Nodes \X Slots)]
  BY Types DEF IInv, Objects
<1>2. /\ node[p].up = "live" /\ node' = [node EXCEPT ![p].up = "over"] /\ late' \subseteq late
      /\ UNCHANGED <<run, task, charged, song, store, aged>> /\ published' = published
  BY DEF Crash, providerVars
<1>3. \/ UNCHANGED ledgerVars
      \/ lock = p /\ lock' = 0 /\ led' = disk' /\ disk' \in {led, disk}
  BY DEF Crash
<1>4. PublishedIsKept'
  BY <1>1, <1>2 DEF Objects, PublishedIsKept
<1> QED
  BY <1>1, <1>2, <1>3, <1>4, EndIsGood

\* A new attempt begins with tokens nobody has issued.
LEMMA TakeOverIsGood ==
    ASSUME IInv, TakeOver
    PROVE  Good
<1>1. Objects /\ TypeOK
  BY DEF IInv, Objects
<1>2. PICK p \in Nodes : p = run.attempt + 1
  <2>1. run.attempt \in Nodes /\ run.attempt < MaxAttempt
    BY <1>1, Types DEF TakeOver
  <2> QED
    BY <2>1, AudioAssumption DEF Nodes, AudioAssumption
<1>3. PICK m \in Music :
        /\ node' = [node EXCEPT ![p] = [node[p] EXCEPT !.up = "live", !.music = m]]
        /\ task' = [task EXCEPT ![p] = FreshTask(m)]
  BY <1>2 DEF TakeOver
<1>4. /\ led' = led /\ disk' = disk /\ lock' = lock /\ charged' = charged /\ song' = song
      /\ store' = store /\ late' = late /\ published' = published /\ aged' = aged
      /\ run' = [run EXCEPT !.attempt = p] /\ ~aged
  BY <1>2 DEF TakeOver, ledgerVars, providerVars, objectVars
<1>5. node \in [Nodes -> NodeRow] /\ task \in [Nodes -> [Slots -> TaskRow]]
      /\ run \in [attempt : Nodes, active : BOOLEAN]
  BY <1>1, Types DEF TypeOK
<1>6. PICK row \in NodeRow : node' = [node EXCEPT ![p] = row]
  BY <1>3, <1>5 DEF NodeRow
<1>7. PICK f \in [Slots -> TaskRow] :
        /\ task' = [task EXCEPT ![p] = f]
        /\ \A s \in Slots : f[s].pc \in {"gone", "todo"} /\ f[s].token = 0
  <2>1. FreshTask(m) \in [Slots -> TaskRow]
    BY DEF FreshTask, TaskRow, Pcs
  <2>2. \A s \in Slots : FreshTask(m)[s].pc \in {"gone", "todo"} /\ FreshTask(m)[s].token = 0
    BY DEF FreshTask
  <2> QED
    BY <1>3, <2>1, <2>2
<1>8. /\ task'[p] = f /\ (\A q \in Nodes \ {p} : task'[q] = task[q])
      /\ \A q \in Nodes \ {p} : node'[q] = node[q]
      /\ node' \in [Nodes -> NodeRow] /\ task' \in [Nodes -> [Slots -> TaskRow]]
      /\ run' \in [attempt : Nodes, active : BOOLEAN]
  BY <1>4, <1>5, <1>6, <1>7
<1>9. Objects'
  <2>1. TypeOK'
    BY <1>1, <1>4, <1>8 DEF TypeOK, NodeRow, TaskRow, Pcs
  <2>2. LedgerFits'
    BY <1>1, <1>4 DEF Objects, LedgerFits, KeysAgree, OneMusic, Tracked, UploadsStand, Stored
  <2>3. ASSUME NEW q \in Nodes, NEW s \in Slots PROVE TaskFits(q, s)'
    <3>1. CASE q = p
      BY <1>7, <1>8, <3>1 DEF TaskFits, Reports
    <3>2. CASE q # p
      <4>1. task'[q] = task[q] /\ TaskFits(q, s)
        BY <1>1, <1>8, <3>2 DEF Objects, TasksFit
      <4> QED
        BY <1>4, <4>1 DEF TaskFits, Reports, Stored
    <3> QED
      BY <3>1, <3>2
  <2>4. ChargesFit' /\ Rested' /\ PublishedIsKept'
    BY <1>1, <1>4 DEF Objects, ChargesFit, Rested, PublishedIsKept
  <2> QED
    BY <2>1, <2>2, <2>3, <2>4 DEF Objects, TasksFit
<1>10. ASSUME Money PROVE Money'
  <2>1. Ahead' /\ PaidAgree' /\ RowsFit'
    BY <1>4, <1>10 DEF Money, Ahead, PaidAgree, RowsFit, RowFits
  <2>2. ASSUME NEW q \in Nodes, NEW s \in Slots, node'[q].up = "live" PROVE TokenFits(q, s)'
    <3>1. View(q)' = View(q) /\ View(q)[s].token \in Nat
      BY <1>1, <1>4, Types, JobFields DEF View
    <3>2. CASE q = p
      BY <1>7, <1>8, <3>1, <3>2 DEF TokenFits
    <3>3. CASE q # p
      BY <1>8, <1>10, <2>2, <3>1, <3>3 DEF TokenFits, Money, Tokens
    <3> QED
      BY <3>2, <3>3
  <2>3. ASSUME NEW q \in Nodes, NEW s \in Paid, node'[q].up = "live" PROVE PurchaseFits(q, s)'
    <3>1. CASE q = p
      <4>1. task'[q][s].pc \in {"gone", "todo"}
        BY <1>7, <1>8, <3>1, SlotFacts
      <4> QED
        BY <4>1 DEF PurchaseFits
    <3>2. CASE q # p
      <4>1. task'[q] = task[q] /\ PurchaseFits(q, s)
        BY <1>8, <1>10, <2>3, <3>2 DEF Money, PurchasesFit
      <4> QED
        BY <1>4, <4>1 DEF PurchaseFits, Holds
    <3> QED
      BY <3>1, <3>2
  <2> QED
    BY <2>1, <2>2, <2>3 DEF Money, Tokens, PurchasesFit
<1> QED
  BY <1>4, <1>9, <1>10 DEF Good, IInv, Fenced

\* A step that changes the run, a stop flag, a lease or a forgotten upload.
LEMMA AroundIsGood ==
    ASSUME IInv, TypeOK', \A t \in Slots : Like(led'.job[t], led.job[t]),
           \A t \in Slots : Like(disk'.job[t], disk.job[t]),
           UNCHANGED <<lock, task, charged, song, published>>, store \subseteq store',
           store' \cup late' \subseteq store \cup late, aged => aged', Rested',
           \A q \in Nodes : node'[q].up = "live" => node[q].up = "live"
    PROVE  Good
<1>1. Objects'
  BY ObjectsStay DEF IInv
<1>2. Money => Money'
  BY MoneyStays
<1> QED
  BY <1>1, <1>2 DEF Good, IInv, Fenced

\* A cancel request leaves the ledger alone.
LEMMA CancelRunIsGood ==
    ASSUME IInv, CancelRun
    PROVE  Good
<1>1. /\ led' = led /\ disk' = disk /\ lock' = lock /\ node' = node /\ task' = task
      /\ charged' = charged /\ song' = song /\ store' = store /\ late' = late
      /\ published' = published /\ aged' = aged /\ run' = [run EXCEPT !.active = FALSE]
  BY DEF CancelRun, ledgerVars, nodeVars, providerVars, objectVars
<1>2. TypeOK'
  BY <1>1 DEF IInv, Objects, TypeOK
<1>3. Rested'
  BY <1>1 DEF IInv, Objects, Rested
<1> QED
  BY <1>1, <1>2, <1>3, AroundIsGood DEF Like

\* A deadline leaves the ledger alone.
LEMMA NodeDeadlineIsGood ==
    ASSUME IInv, NEW p \in Nodes, NodeDeadline(p)
    PROVE  Good
<1>1. /\ led' = led /\ disk' = disk /\ lock' = lock /\ node' = [node EXCEPT ![p].stop = TRUE]
      /\ task' = task /\ charged' = charged /\ song' = song /\ store' = store /\ late' = late
      /\ published' = published /\ aged' = aged /\ run' = run
  BY DEF NodeDeadline, ledgerVars, providerVars, objectVars
<1>2. TypeOK /\ node \in [Nodes -> NodeRow]
  BY Types DEF IInv, Objects
<1> DEFINE row == [node[p] EXCEPT !.stop = TRUE]
<1>3. node' = [node EXCEPT ![p] = row] /\ row \in NodeRow /\ row.up = node[p].up
  BY <1>1, <1>2 DEF NodeRow
<1> HIDE DEF row
<1>4. node' \in [Nodes -> NodeRow] /\ \A q \in Nodes : node'[q].up = node[q].up
  BY <1>2, <1>3
<1>5. TypeOK'
  BY <1>1, <1>2, <1>4 DEF TypeOK, NodeRow
<1>6. Rested'
  BY <1>1, <1>4 DEF IInv, Objects, Rested
<1> QED
  BY <1>1, <1>4, <1>5, <1>6, AroundIsGood DEF Like

\* A lease of a row runs out.
LEMMA JobLapsesIsGood ==
    ASSUME IInv, NEW s \in Slots, JobLapses(s)
    PROVE  Good
<1>1. /\ lock' = lock /\ node' = node /\ task' = task /\ charged' = charged /\ song' = song
      /\ store' = store /\ late' = late /\ published' = published /\ aged' = aged /\ run' = run
      /\ disk' = [disk EXCEPT !.job[s].lapsed = TRUE] /\ led' = [led EXCEPT !.job[s].lapsed = TRUE]
  BY DEF JobLapses, nodeVars, providerVars, objectVars
<1>2. TypeOK
  BY DEF IInv, Objects
<1>3. ASSUME NEW l \in Ledger
      PROVE  LET n == [l EXCEPT !.job[s].lapsed = TRUE] IN
             n \in Ledger /\ \A t \in Slots : Like(n.job[t], l.job[t])
  <2> DEFINE r == [l.job[s] EXCEPT !.lapsed = TRUE]
             f == [l.job EXCEPT ![s] = r]
             n == [l EXCEPT !.job[s].lapsed = TRUE]
  <2>1. l.job \in [Slots -> Job] /\ l.job[s] \in Job
    BY DEF Ledger
  <2>2. r \in Job /\ Like(r, l.job[s])
    BY <2>1 DEF Job, Like
  <2>3. n = [l EXCEPT !.job = f]
    BY <2>1
  <2> HIDE DEF r, n
  <2>4. f \in [Slots -> Job] /\ f[s] = r /\ \A t \in Slots \ {s} : f[t] = l.job[t]
    BY <2>1, <2>2
  <2>5. \A t \in Slots : Like(f[t], l.job[t])
    BY <2>2, <2>4 DEF Like
  <2> HIDE DEF f
  <2>6. n \in Ledger /\ n.job = f
    BY <2>3, <2>4 DEF Ledger
  <2> QED
    BY <2>5, <2>6 DEF n
<1>4. led \in Ledger /\ disk \in Ledger
  BY <1>2, Types
<1>5. /\ led' \in Ledger /\ \A t \in Slots : Like(led'.job[t], led.job[t])
      /\ disk' \in Ledger /\ \A t \in Slots : Like(disk'.job[t], disk.job[t])
  BY <1>1, <1>3, <1>4
<1>6. lock' = 0 => led' = disk'
  BY <1>1, <1>2 DEF TypeOK
<1>7. TypeOK'
  BY <1>1, <1>2, <1>5, <1>6 DEF TypeOK
<1>8. Rested'
  BY <1>1 DEF IInv, Objects, Rested
<1> QED
  BY <1>1, <1>5, <1>7, <1>8, AroundIsGood

\* A forgotten upload arrives.
LEMMA LateUploadIsGood ==
    ASSUME IInv, NEW k \in late, LateUpload(k)
    PROVE  Good
<1>1. /\ led' = led /\ disk' = disk /\ lock' = lock /\ node' = node /\ task' = task
      /\ charged' = charged /\ song' = song /\ store' = store \cup {k} /\ late' = late \ {k}
      /\ published' = published /\ aged' = aged /\ run' = run
  BY DEF LateUpload, ledgerVars, nodeVars, providerVars
<1>2. TypeOK'
  BY <1>1 DEF IInv, Objects, TypeOK
<1>3. Rested'
  BY <1>1 DEF IInv, Objects, Rested
<1> QED
  BY <1>1, <1>2, <1>3, AroundIsGood DEF Like

\* The retention window passes when no attempt is left.
LEMMA RetentionPassesIsGood ==
    ASSUME IInv, RetentionPasses
    PROVE  Good
<1>1. /\ lock' = lock /\ node' = node /\ task' = task /\ charged' = charged /\ song' = song
      /\ store' = store /\ late' = late /\ published' = published /\ aged' = TRUE /\ run' = run
      /\ disk' = [disk EXCEPT !.job = [s \in Slots |-> [disk.job[s] EXCEPT !.lapsed = TRUE]]]
      /\ led' = disk' /\ lock = 0 /\ \A p \in Nodes : node[p].up # "live"
  BY DEF RetentionPasses, nodeVars, providerVars, objectVars
<1>2. TypeOK /\ led = disk /\ disk \in Ledger /\ \A s \in Slots : disk.job[s] \in Job
  BY <1>1, Types DEF IInv, Objects
<1> DEFINE r(s) == [disk.job[s] EXCEPT !.lapsed = TRUE]
           f == [s \in Slots |-> r(s)]
<1>3. ASSUME NEW s \in Slots PROVE r(s) \in Job /\ Like(r(s), disk.job[s])
  <2>1. PICK j \in Job : j = disk.job[s]
    BY <1>2
  <2>2. [j EXCEPT !.lapsed = TRUE] \in Job /\ Like([j EXCEPT !.lapsed = TRUE], j)
    BY DEF Job, Like
  <2> QED
    BY <2>1, <2>2
<1> HIDE DEF r
<1>4. f \in [Slots -> Job] /\ \A s \in Slots : f[s] = r(s)
  BY <1>3
<1>5. disk' = [disk EXCEPT !.job = f]
  BY <1>1 DEF r
<1> HIDE DEF f
<1>6. disk' \in Ledger /\ disk'.job = f
  BY <1>2, <1>4, <1>5 DEF Ledger
<1>7. \A t \in Slots : Like(disk'.job[t], disk.job[t]) /\ Like(led'.job[t], led.job[t])
  BY <1>1, <1>2, <1>3, <1>4, <1>6
<1>8. TypeOK'
  BY <1>1, <1>2, <1>6 DEF TypeOK
<1>9. Rested'
  BY <1>1 DEF Rested
<1> QED
  BY <1>1, <1>7, <1>8, <1>9, AroundIsGood

\* A piece of music is made, or not made and not charged for.
LEMMA SongEndsIsGood ==
    ASSUME IInv, NEW m \in PaidMusic, SongEnds(m)
    PROVE  Good
<1>1. /\ led' = led /\ disk' = disk /\ lock' = lock /\ node' = node /\ task' = task
      /\ store' = store /\ late' = late /\ published' = published /\ aged' = aged /\ run' = run
  BY DEF SongEnds, ledgerVars, nodeVars, objectVars
<1>2. Objects /\ TypeOK /\ m \in Slots /\ m \in Paid /\ PaidMusic \subseteq Slots
  BY DEF IInv, Objects, Slots, Music, Paid
<1>3. charged \in [Slots -> Nat] /\ song \in [PaidMusic -> {"none", "running", "ok", "failed"}]
      /\ charged[m] \in Nat /\ charged[m] >= 1
  BY <1>2, Types DEF SongEnds, Objects, ChargesFit
<1>4. PICK x \in {"ok", "failed"}, n \in Nat :
        /\ song' = [song EXCEPT ![m] = x] /\ charged' = [charged EXCEPT ![m] = n]
        /\ (x = "ok" /\ n = charged[m]) \/ (x = "failed" /\ n = charged[m] - 1)
  <2>1. CASE song' = [song EXCEPT ![m] = "ok"] /\ UNCHANGED charged
    <3>1. charged' = [charged EXCEPT ![m] = charged[m]]
      BY <1>2, <1>3, <2>1
    <3> QED
      BY <1>3, <2>1, <3>1
  <2>2. CASE song' = [song EXCEPT ![m] = "failed"] /\ charged' = [charged EXCEPT ![m] = @ - 1]
    <3>1. charged[m] - 1 \in Nat
      BY <1>3
    <3> QED
      BY <2>2, <3>1
  <2> QED
    BY <2>1, <2>2 DEF SongEnds
<1>5. /\ charged' \in [Slots -> Nat] /\ song' \in [PaidMusic -> {"none", "running", "ok", "failed"}]
      /\ charged'[m] = n /\ song'[m] = x
      /\ (\A t \in Slots \ {m} : charged'[t] = charged[t]) /\ \A t \in PaidMusic \ {m} : song'[t] = song[t]
  BY <1>2, <1>3, <1>4
<1>6. Objects'
  <2>1. TypeOK'
    BY <1>1, <1>2, <1>5 DEF TypeOK
  <2>2. LedgerFits' /\ TasksFit' /\ Rested' /\ PublishedIsKept'
    BY <1>1, <1>2 DEF Objects, LedgerFits, KeysAgree, OneMusic, Tracked, UploadsStand, Stored,
                      TasksFit, TaskFits, Reports, Rested, PublishedIsKept
  <2>3. ASSUME NEW t \in PaidMusic, song'[t] \in {"running", "ok"} PROVE charged'[t] >= 1
    <3>1. CASE t = m
      BY <1>3, <1>4, <1>5, <2>3, <3>1
    <3>2. CASE t # m
      BY <1>2, <1>5, <2>3, <3>2 DEF Objects, ChargesFit
    <3> QED
      BY <3>1, <3>2
  <2>4. \A t \in Slots \ Paid : charged'[t] = 0
    BY <1>2, <1>5 DEF Objects, ChargesFit
  <2> QED
    BY <2>1, <2>2, <2>3, <2>4 DEF Objects, ChargesFit
<1>7. ASSUME Money PROVE Money'
  <2>1. Ahead' /\ PaidAgree'
    BY <1>1, <1>7 DEF Money, Ahead, PaidAgree
  <2>2. Tokens'
    BY <1>1, <1>7 DEF Money, Tokens, TokenFits, View
  <2>3. charged[m] = 1 /\ RowFits(m)
    BY <1>2, <1>3, <1>7 DEF Money, RowsFit, RowFits
  <2>4. x = "failed" => charged'[m] = 0
    BY <1>4, <1>5, <2>3
  <2>5. charged'[m] <= 1 /\ (charged[m] = 0 => charged'[m] = 0)
    BY <1>4, <1>5, <2>3
  <2>6. ASSUME NEW t \in Paid PROVE RowFits(t)'
    <3>1. CASE t = m
      <4>1. RowFits(m)'
        BY <1>1, <1>5, <2>3, <2>4, <2>5 DEF RowFits
      <4> QED
        BY <3>1, <4>1
    <3>2. CASE t # m
      <4>1. charged'[t] = charged[t] /\ (t \in PaidMusic => song'[t] = song[t]) /\ RowFits(t)
        BY <1>5, <1>7, <3>2, SlotFacts DEF Money, RowsFit
      <4> QED
        BY <1>1, <4>1 DEF RowFits
    <3> QED
      BY <3>1, <3>2
  <2>7. ASSUME NEW q \in Nodes, NEW t \in Paid, node'[q].up = "live" PROVE PurchaseFits(q, t)'
    <3>1. PurchaseFits(q, t)
      BY <1>1, <1>7, <2>7 DEF Money, PurchasesFit
    <3>2. CASE t = m
      <4>1. PurchaseFits(q, m)'
        BY <1>1, <1>5, <2>4, <2>5, <3>1, <3>2 DEF PurchaseFits, Holds
      <4> QED
        BY <3>2, <4>1
    <3>3. CASE t # m
      <4>1. charged'[t] = charged[t] /\ (t \in PaidMusic => song'[t] = song[t])
        BY <1>5, <3>3, SlotFacts
      <4> QED
        BY <1>1, <3>1, <4>1 DEF PurchaseFits, Holds
    <3> QED
      BY <3>2, <3>3
  <2> QED
    BY <2>1, <2>2, <2>6, <2>7 DEF Money, RowsFit, PurchasesFit
<1> QED
  BY <1>1, <1>6, <1>7 DEF Good, IInv, Fenced

-----------------------------------------------------------------------------
(* Maintenance. *)

\* What maintenance does to a row: no new slot, no other key, token or money.
Tidies(r, j) ==
    /\ r \in Job /\ r.key = j.key /\ r.token = j.token /\ r.owner = j.owner /\ r.reserved = j.reserved
    /\ r.state = j.state \/ (j.state # "absent" /\ r.state \in {"failed", "cleaned"})

\* When no attempt is left, maintenance may end rows and delete what no document names.
LEMMA MaintenanceIsGood ==
    ASSUME IInv, aged, disk' \in Ledger, led' = disk', store' \subseteq store,
           \A t \in Slots : Tidies(disk'.job[t], disk.job[t]),
           UNCHANGED <<run, lock, node, task, charged, song, late, published, aged>>,
           published.keys \subseteq store'
    PROVE  Good
<1>1. Objects /\ TypeOK /\ \A p \in Nodes : node[p].up # "live"
  BY DEF IInv, Objects, Rested
<1>2. /\ run' = run /\ lock' = lock /\ node' = node /\ task' = task /\ charged' = charged /\ song' = song
      /\ late' = late /\ published' = published /\ aged' = aged
  OBVIOUS
<1>3. Objects'
  <2>1. TypeOK'
    BY <1>1, <1>2 DEF TypeOK
  <2>2. KeysAgree' /\ Tracked' /\ UploadsStand'
    BY <1>1, <1>2 DEF KeysAgree, Objects, LedgerFits, Tracked, Tidies, UploadsStand
  <2>3. OneMusic(disk.job)' /\ OneMusic(led.job)'
    <3>1. \A t \in Slots : disk'.job[t].state # "absent" => disk.job[t].state # "absent"
      BY DEF Tidies
    <3>2. Music \subseteq Slots /\ OneMusic(disk.job)
      BY <1>1 DEF Slots, Objects, LedgerFits
    <3> QED
      BY <3>1, <3>2 DEF OneMusic
  <2>4. TasksFit'
    BY <1>1, <1>2 DEF Objects, TasksFit, TaskFits, Tidies
  <2>5. ChargesFit' /\ Rested' /\ PublishedIsKept'
    BY <1>1, <1>2 DEF Objects, ChargesFit, Rested, PublishedIsKept
  <2> QED
    BY <2>1, <2>2, <2>3, <2>4, <2>5 DEF Objects, LedgerFits
<1>4. ASSUME Money PROVE Money'
  <2>1. Tokens' /\ PurchasesFit' /\ PaidAgree'
    BY <1>1, <1>2 DEF Tokens, PurchasesFit, PaidAgree
  <2>2. Ahead'
    <3>1. \A t \in Slots : disk.job[t].token \in Nat
      BY <1>1, Types, JobFields
    <3> QED
      BY <1>4, <3>1 DEF Money, Ahead, Tidies
  <2>3. ASSUME NEW t \in Paid PROVE RowFits(t)'
    <3>1. RowFits(t) /\ Tidies(led'.job[t], disk.job[t])
      BY <1>4, SlotFacts DEF Money, RowsFit
    <3>2. led.job[t].state = disk.job[t].state /\ led.job[t].reserved = disk.job[t].reserved
          /\ led.job[t].token = disk.job[t].token
      BY <1>4 DEF Money, PaidAgree
    <3> QED
      BY <1>2, <3>1, <3>2 DEF RowFits, Tidies
  <2> QED
    BY <2>1, <2>2, <2>3 DEF Money, RowsFit
<1> QED
  BY <1>2, <1>3, <1>4 DEF Good, IInv, Fenced

\* Abandoned rows fail.
LEMMA ReapIsGood ==
    ASSUME IInv, Reap
    PROVE  Good
<1> DEFINE r(s) == IF ~Abandoned(s, disk.job[s]) THEN disk.job[s]
                   ELSE [disk.job[s] EXCEPT !.state = "failed",
                                            !.settled = @ \/ disk.job[s].key = NoKey]
           f == [s \in Slots |-> r(s)]
<1>1. /\ run' = run /\ lock' = lock /\ node' = node /\ task' = task /\ charged' = charged /\ song' = song
      /\ store' = store /\ late' = late /\ published' = published /\ aged' = aged /\ aged
      /\ led' = disk' /\ disk' = [disk EXCEPT !.job = f]
  BY DEF Reap, nodeVars, providerVars, objectVars
<1>2. TypeOK /\ disk \in Ledger /\ \A s \in Slots : disk.job[s] \in Job
  BY Types DEF IInv, Objects
<1>3. ASSUME NEW s \in Slots PROVE Tidies(r(s), disk.job[s])
  <2>1. PICK j \in Job : j = disk.job[s]
    BY <1>2
  <2>2. CASE ~Abandoned(s, j)
    BY <2>1, <2>2 DEF Tidies
  <2>3. CASE Abandoned(s, j)
    <3>1. j.state # "absent"
      BY <2>3 DEF Abandoned, Active
    <3>2. PICK b \in BOOLEAN : b = (j.settled \/ j.key = NoKey)
      OBVIOUS
    <3>3. Tidies([j EXCEPT !.state = "failed", !.settled = b], j)
      BY <3>1 DEF Tidies, Job, States, Orphan
    <3>4. r(s) = [j EXCEPT !.state = "failed", !.settled = b]
      BY <2>1, <2>3, <3>2
    <3> QED
      BY <2>1, <3>3, <3>4
  <2> QED
    BY <2>2, <2>3
<1> HIDE DEF r
<1>4. f \in [Slots -> Job] /\ \A s \in Slots : f[s] = r(s)
  BY <1>3 DEF Tidies
<1> HIDE DEF f
<1>5. disk' \in Ledger /\ disk'.job = f
  BY <1>1, <1>2, <1>4 DEF Ledger
<1>6. \A t \in Slots : Tidies(disk'.job[t], disk.job[t])
  BY <1>3, <1>4, <1>5
<1>7. published.keys \subseteq store'
  BY <1>1 DEF IInv, Objects, PublishedIsKept
<1> QED
  BY <1>1, <1>5, <1>6, <1>7, MaintenanceIsGood

\* An object that no document names is deleted.
LEMMA CleanIsGood ==
    ASSUME IInv, NEW s \in Slots, Clean(s)
    PROVE  Good
<1>1. /\ run' = run /\ lock' = lock /\ node' = node /\ task' = task /\ charged' = charged /\ song' = song
      /\ late' = late /\ published' = published /\ aged' = aged /\ aged
      /\ led' = disk' /\ disk' = [disk EXCEPT !.job[s].state = "cleaned"]
      /\ store' = store \ {disk.job[s].key} /\ disk.job[s].key \notin published.keys
      /\ disk.job[s].state \in Orphan
  BY DEF Clean, Unreferenced, nodeVars, providerVars
<1>2. TypeOK /\ disk \in Ledger /\ disk.job \in [Slots -> Job] /\ disk.job[s] \in Job
  BY Types DEF IInv, Objects
<1> DEFINE r == [disk.job[s] EXCEPT !.state = "cleaned"]
           f == [disk.job EXCEPT ![s] = r]
<1>3. r \in Job /\ Tidies(r, disk.job[s])
  BY <1>1, <1>2 DEF Job, States, Tidies, Orphan
<1>4. disk' = [disk EXCEPT !.job = f]
  BY <1>1, <1>2
<1> HIDE DEF r
<1>5. f \in [Slots -> Job] /\ f[s] = r /\ \A t \in Slots \ {s} : f[t] = disk.job[t]
  BY <1>2, <1>3
<1> HIDE DEF f
<1>6. disk' \in Ledger /\ disk'.job = f
  BY <1>2, <1>4, <1>5 DEF Ledger
<1>7. \A t \in Slots : Tidies(disk'.job[t], disk.job[t])
  BY <1>2, <1>3, <1>5, <1>6 DEF Tidies
<1>8. published.keys \subseteq store'
  BY <1>1 DEF IInv, Objects, PublishedIsKept
<1> QED
  BY <1>1, <1>6, <1>7, <1>8, MaintenanceIsGood

-----------------------------------------------------------------------------
(* Every step. *)

\* The invariant holds at first: nothing is reserved, charged or stored.
LEMMA Initially == Init => IInv
<1> SUFFICES ASSUME Init PROVE IInv
  OBVIOUS
<1>1. /\ run = [attempt |-> 1, active |-> TRUE] /\ lock = 0 /\ led = disk
      /\ disk = [job |-> [s \in Slots |-> NoJob], budget |-> 0]
      /\ charged = [s \in Slots |-> 0] /\ song = [s \in PaidMusic |-> "none"]
      /\ store = {} /\ late = {} /\ published = [done |-> FALSE, keys |-> {}] /\ aged = FALSE
  BY DEF Init
<1>2. PICK m \in Music :
        /\ node = [p \in Nodes |-> [up |-> IF p = 1 THEN "live" ELSE "absent", stop |-> FALSE, music |-> m]]
        /\ task = [p \in Nodes |-> FreshTask(m)]
  BY DEF Init
<1>3. 1 \in Nodes
  BY AudioAssumption DEF Nodes, AudioAssumption
<1>4. NoJob \in Job /\ NoJob.state = "absent" /\ NoJob.key = NoKey /\ NoJob.token = 0 /\ NoJob.owner = 0
      /\ NoJob.settled = FALSE /\ NoJob.reserved = 0
  BY DEF NoJob, Job, States
<1>5. \A s \in Slots : led.job[s] = NoJob /\ disk.job[s] = NoJob
  BY <1>1
<1>6. disk \in Ledger
  BY <1>1, <1>4 DEF Ledger
<1>7. FreshTask(m) \in [Slots -> TaskRow]
      /\ \A s \in Slots : FreshTask(m)[s].pc \in {"gone", "todo"} /\ FreshTask(m)[s].token = 0
  BY DEF FreshTask, TaskRow, Pcs
<1>8. \A p \in Nodes : \A s \in Slots : task[p][s].pc \in {"gone", "todo"} /\ task[p][s].token = 0
  BY <1>2, <1>7
<1>9. TypeOK
  <2>1. node \in [Nodes -> NodeRow] /\ task \in [Nodes -> [Slots -> TaskRow]]
    BY <1>2, <1>7 DEF NodeRow
  <2>2. run \in [attempt : Nodes, active : BOOLEAN]
        /\ published \in [done : BOOLEAN, keys : SUBSET (Nodes \X Slots)]
    BY <1>1, <1>3
  <2> QED
    BY <1>1, <1>6, <2>1, <2>2 DEF TypeOK, NodeRow, TaskRow, Pcs
<1>10. LedgerFits
  <2>1. Music \subseteq Slots
    BY DEF Slots
  <2> QED
    BY <1>1, <1>4, <1>5, <2>1 DEF LedgerFits, KeysAgree, OneMusic, Tracked, UploadsStand
<1>11. TasksFit
  BY <1>8 DEF TasksFit, TaskFits, Reports
<1>12. ChargesFit /\ Rested /\ PublishedIsKept
  BY <1>1, SlotFacts DEF ChargesFit, Rested, PublishedIsKept
<1>13. Money
  <2>1. Ahead /\ PaidAgree
    BY <1>1, <1>4, <1>5 DEF Ahead, PaidAgree
  <2>2. Tokens
    BY <1>4, <1>5, <1>8 DEF Tokens, TokenFits, View
  <2>3. RowsFit
    BY <1>1, <1>4, <1>5, SlotFacts DEF RowsFit, RowFits
  <2>4. PurchasesFit
    BY <1>8, SlotFacts DEF PurchasesFit, PurchaseFits
  <2> QED
    BY <2>1, <2>2, <2>3, <2>4 DEF Money
<1> QED
  BY <1>9, <1>10, <1>11, <1>12, <1>13 DEF IInv, Objects

\* Every step keeps the invariant, and what it writes is the current attempt's.
LEMMA EveryStep == IInv /\ [Next]_vars => Good
<1> SUFFICES ASSUME IInv, [Next]_vars PROVE Good
  OBVIOUS
<1>1. ASSUME NEW p \in Nodes, NEW s \in Slots, Task(p, s) PROVE Good
  BY <1>1, TaskIsGood
<1>2. ASSUME NEW p \in Nodes, Return(p) \/ Crash(p) \/ NodeDeadline(p) PROVE Good
  BY <1>2, ReturnIsGood, CrashIsGood, NodeDeadlineIsGood
<1>3. CASE TakeOver \/ CancelRun
  BY <1>3, TakeOverIsGood, CancelRunIsGood
<1>4. CASE \E s \in Slots : JobLapses(s)
  BY <1>4, JobLapsesIsGood
<1>5. CASE \E m \in PaidMusic : SongEnds(m)
  BY <1>5, SongEndsIsGood
<1>6. CASE \E k \in late : LateUpload(k)
  BY <1>6, LateUploadIsGood
<1>7. CASE RetentionPasses \/ Reap
  BY <1>7, RetentionPassesIsGood, ReapIsGood
<1>8. CASE \E s \in Slots : Clean(s)
  BY <1>8, CleanIsGood
<1>9. CASE UNCHANGED vars
  <2>1. TypeOK' /\ Rested'
    BY <1>9 DEF IInv, Objects, TypeOK, Rested, vars
  <2> QED
    BY <1>9, <2>1, AroundIsGood DEF Like, vars
<1> QED
  BY <1>1, <1>2, <1>3, <1>4, <1>5, <1>6, <1>7, <1>8, <1>9 DEF Next

-----------------------------------------------------------------------------
(* The theorems. *)

\* The inductive invariant is one.
THEOREM Invariance == Spec => []IInv
<1>1. IInv /\ [Next]_vars => IInv'
  BY EveryStep DEF Good
<1> QED
  BY Initially, <1>1, PTL DEF Spec

\* Whatever fails, also a commit: every object in the bucket is named by a
\* committed row and a work has one piece of music (`_commit_ledger' before every
\* upload, the mutual exclusion of the music slots).
THEOREM LedgerSound == Spec => []LedgerIsSound
<1>1. IInv => LedgerIsSound
  <2> SUFFICES ASSUME IInv PROVE LedgerIsSound
    OBVIOUS
  <2>1. TypeOK /\ ObjectsAreTracked /\ OneMusic(disk.job)
    BY DEF IInv, Objects, LedgerFits, Tracked, ObjectsAreTracked
  <2>2. OneMusicPerWork
    <3> DEFINE S == {m \in Music : disk.job[m].state # "absent"}
    <3>1. CASE S = {}
      BY <3>1, FS_EmptySet DEF OneMusicPerWork
    <3>2. CASE S # {}
      <4>1. PICK m : m \in S
        BY <3>2
      <4>2. S = {m}
        BY <2>1, <4>1 DEF OneMusic
      <4>3. Cardinality({m}) = 1
        BY FS_Singleton
      <4> QED
        BY <4>2, <4>3 DEF OneMusicPerWork
    <3> QED
      BY <3>1, <3>2
  <2> QED
    BY <2>1, <2>2 DEF LedgerIsSound
<1> QED
  BY Invariance, <1>1, PTL

\* Whatever fails: the objects that the published document names are in the
\* bucket, and no maintenance run (`run_maintenance') deletes them.
THEOREM PublishedKept == Spec => []PublishedIsKept
<1>1. IInv => PublishedIsKept
  BY DEF IInv, Objects
<1> QED
  BY Invariance, <1>1, PTL

\* Where a commit that reports success has happened and one that reports failure
\* does not occur, no slot is paid for twice: reservations, fencing tokens and
\* `submission_unknown' keep every later attempt from buying it again.
THEOREM NeverChargedTwice == ASSUME Reliable PROVE Spec => []ChargedOnce
<1>1. IInv => ChargedOnce
  <2> SUFFICES ASSUME IInv, NEW s \in Slots PROVE charged[s] <= 1
    BY DEF ChargedOnce
  <2>1. CASE s \in Paid
    BY <2>1 DEF IInv, Money, RowsFit, RowFits
  <2>2. CASE s \notin Paid
    BY <2>2 DEF IInv, Objects, ChargesFit
  <2> QED
    BY <2>1, <2>2
<1> QED
  BY Invariance, <1>1, PTL

\* Under the same condition an attempt that was replaced writes nothing to the
\* ledger any more (`_load_for_write', `reserve_job', `rotate_lease').
THEOREM LateIsFenced == ASSUME Reliable PROVE Spec => LateNodeIsFenced
<1>1. IInv /\ [Next]_vars => [\A p \in Nodes : task'[p] # task[p] /\ led' # led => p = run.attempt]_vars
  BY EveryStep DEF Good, Fenced
<1> QED
  BY Invariance, <1>1, PTL DEF Spec, LateNodeIsFenced

-----------------------------------------------------------------------------
(***************************************************************************)
(* The budget.  Charges and reservations are sums over the slots, which    *)
(* MapThenSumSet computes by taking one element out of the set after the   *)
(* other.  What holds of such a sum for every finite set is shown by       *)
(* looking at a smallest subset for which it would not hold.               *)
(***************************************************************************)

\* g[T] is the sum of f over T, for every subset T of S.
Peel(T) == CHOOSE x \in T : TRUE
Layer(f, g, T) == IF T = {} THEN 0 ELSE f[Peel(T)] + g[T \ {Peel(T)}]
Tally(f, S, g) == g = [T \in SUBSET S |-> Layer(f, g, T)]
Sums(f, S, n) == \E g \in [SUBSET S -> Nat] : Tally(f, S, g) /\ g[S] = n

\* Every nonempty set of naturals has a least element.
LEMMA LeastNatural ==
    ASSUME NEW T \in SUBSET Nat, T # {}
    PROVE  \E n \in T : \A m \in T : n <= m
<1>. DEFINE Less == {ss \in Nat \X Nat : ss[1] < ss[2]}
<1>1. IsWellFoundedOn(Less, Nat)
    BY NatLessThanWellFounded DEF OpToRel
<1>. HIDE DEF Less
<1>2. PICK n \in T : \A m \in T : ~ (<<m, n>> \in Less)
    BY <1>1, WFMin
<1>3. \A m \in T : ~ (m < n)
    BY <1>2 DEF Less
<1>. QED  BY <1>3

\* A nonempty subset has a first element to take out, and is smaller without it.
LEMMA Peeled ==
    ASSUME NEW S, IsFiniteSet(S), NEW T \in SUBSET S, T # {}
    PROVE  /\ Peel(T) \in T /\ T \ {Peel(T)} \in SUBSET S
           /\ Cardinality(T) \in Nat /\ Cardinality(T \ {Peel(T)}) \in Nat
           /\ Cardinality(T \ {Peel(T)}) < Cardinality(T)
<1>1. Peel(T) \in T
  BY DEF Peel
<1>2. IsFiniteSet(T)
  BY FS_Subset
<1>3. Cardinality(T) \in Nat
  BY <1>2, FS_CardinalityType
<1>4. IsFiniteSet(T \ {Peel(T)}) /\ Cardinality(T \ {Peel(T)}) = Cardinality(T) - 1
  BY <1>1, <1>2, FS_RemoveElement
<1>5. Cardinality(T \ {Peel(T)}) \in Nat
  BY <1>4, FS_CardinalityType
<1> QED
  BY <1>1, <1>3, <1>4, <1>5

\* In a set of subsets there is a smallest.
LEMMA SmallestSubset ==
    ASSUME NEW S, IsFiniteSet(S), NEW B \in SUBSET (SUBSET S), B # {}
    PROVE  \E T \in B : \A U \in SUBSET S : Cardinality(U) < Cardinality(T) => U \notin B
<1> DEFINE C == {Cardinality(T) : T \in B}
<1>1. C \in SUBSET Nat
  BY FS_Subset, FS_CardinalityType
<1>2. PICK n \in C : \A m \in C : n <= m
  <2>1. C # {}
    OBVIOUS
  <2> HIDE DEF C
  <2> QED
    BY <1>1, <2>1, LeastNatural
<1>3. PICK T \in B : n = Cardinality(T)
  BY <1>2
<1>4. ASSUME NEW U \in SUBSET S, Cardinality(U) < Cardinality(T) PROVE U \notin B
  <2>1. SUFFICES ASSUME U \in B PROVE FALSE
    OBVIOUS
  <2>2. Cardinality(U) \in C /\ Cardinality(T) \in C
    BY <2>1
  <2> HIDE DEF C
  <2>3. Cardinality(U) \in Nat /\ Cardinality(T) \in Nat /\ Cardinality(T) <= Cardinality(U)
    BY <1>1, <1>2, <1>3, <2>2
  <2> QED
    BY <1>4, <2>3
<1> QED
  BY <1>4

\* What a tally holds for one subset.
LEMMA TallyAt ==
    ASSUME NEW S, NEW f, NEW g, Tally(f, S, g), NEW T \in SUBSET S
    PROVE  g[T] = IF T = {} THEN 0 ELSE f[Peel(T)] + g[T \ {Peel(T)}]
<1> DEFINE h == [U \in SUBSET S |-> Layer(f, g, U)]
<1>1. g = h
  BY DEF Tally
<1>2. h[T] = Layer(f, g, T)
  OBVIOUS
<1> HIDE DEF h
<1> QED
  BY <1>1, <1>2 DEF Layer

\* There is only one.
LEMMA TallyUnique ==
    ASSUME NEW S, IsFiniteSet(S), NEW f, NEW g, NEW h, Tally(f, S, g), Tally(f, S, h)
    PROVE  g[S] = h[S]
<1> DEFINE B == {T \in SUBSET S : g[T] # h[T]}
<1>1. SUFFICES ASSUME B # {} PROVE FALSE
  <2>1. S \in SUBSET S
    OBVIOUS
  <2> QED
    BY <2>1
<1>2. PICK T \in B : \A U \in SUBSET S : Cardinality(U) < Cardinality(T) => U \notin B
  <2>1. B \in SUBSET (SUBSET S)
    OBVIOUS
  <2> HIDE DEF B
  <2> QED
    BY <1>1, <2>1, SmallestSubset
<1>3. T \in SUBSET S /\ g[T] # h[T]
  BY <1>2
<1>4. T # {}
  BY <1>3, TallyAt
<1>5. T \ {Peel(T)} \in SUBSET S /\ Cardinality(T \ {Peel(T)}) < Cardinality(T)
  BY <1>3, <1>4, Peeled
<1>6. g[T \ {Peel(T)}] = h[T \ {Peel(T)}]
  BY <1>2, <1>5
<1>7. g[T] = f[Peel(T)] + g[T \ {Peel(T)}]
  BY <1>3, <1>4, TallyAt
<1>8. h[T] = f[Peel(T)] + h[T \ {Peel(T)}]
  BY <1>3, <1>4, TallyAt
<1> QED
  BY ONLY <1>3, <1>6, <1>7, <1>8

\* Larger amounts have a larger sum.
LEMMA SumIsMonotone ==
    ASSUME NEW S, IsFiniteSet(S), NEW f \in [S -> Nat], NEW h \in [S -> Nat],
           \A s \in S : f[s] <= h[s], NEW m, NEW n, Sums(f, S, m), Sums(h, S, n)
    PROVE  m <= n
<1>1. PICK g \in [SUBSET S -> Nat] : Tally(f, S, g) /\ g[S] = m
  BY DEF Sums
<1>2. PICK k \in [SUBSET S -> Nat] : Tally(h, S, k) /\ k[S] = n
  BY DEF Sums
<1> DEFINE B == {T \in SUBSET S : ~(g[T] <= k[T])}
<1>3. SUFFICES ASSUME B # {} PROVE FALSE
  <2>1. S \in SUBSET S
    OBVIOUS
  <2> QED
    BY <1>1, <1>2, <2>1
<1>4. PICK T \in B : \A U \in SUBSET S : Cardinality(U) < Cardinality(T) => U \notin B
  <2>1. B \in SUBSET (SUBSET S)
    OBVIOUS
  <2> HIDE DEF B
  <2> QED
    BY <1>3, <2>1, SmallestSubset
<1>5. T \in SUBSET S /\ ~(g[T] <= k[T])
  BY <1>4
<1>6. T # {}
  <2>1. ASSUME T = {} PROVE FALSE
    <3>1. g[T] = 0 /\ k[T] = 0
      BY <1>1, <1>2, <1>5, <2>1, TallyAt
    <3> QED
      BY <1>5, <3>1
  <2> QED
    BY <2>1
<1>7. Peel(T) \in T /\ T \ {Peel(T)} \in SUBSET S /\ Cardinality(T \ {Peel(T)}) < Cardinality(T)
  BY <1>5, <1>6, Peeled
<1>8. g[T \ {Peel(T)}] <= k[T \ {Peel(T)}]
  BY <1>4, <1>7
<1>9. g[T] = f[Peel(T)] + g[T \ {Peel(T)}] /\ k[T] = h[Peel(T)] + k[T \ {Peel(T)}]
  BY <1>1, <1>2, <1>5, <1>6, TallyAt
<1>10. PICK a \in Nat, b \in Nat, c \in Nat, d \in Nat :
          a = f[Peel(T)] /\ b = h[Peel(T)] /\ c = g[T \ {Peel(T)}] /\ d = k[T \ {Peel(T)}]
  <2>1. Peel(T) \in S
    BY <1>5, <1>7
  <2> QED
    BY <1>7, <2>1
<1>11. a <= b /\ c <= d
  <2>1. Peel(T) \in S
    BY <1>5, <1>7
  <2> QED
    BY <1>8, <1>10, <2>1
<1>12. g[T] = a + c /\ k[T] = b + d
  BY <1>9, <1>10
<1> QED
  BY <1>5, <1>11, <1>12

\* One amount more in one place is that much more in the sum.
LEMMA SumGrows ==
    ASSUME NEW S, IsFiniteSet(S), NEW f \in [S -> Nat], NEW n \in Nat, Sums(f, S, n),
           NEW a \in S, NEW d \in Nat, NEW h \in [S -> Nat],
           h[a] = f[a] + d, \A s \in S \ {a} : h[s] = f[s]
    PROVE  Sums(h, S, n + d)
<1>1. PICK g \in [SUBSET S -> Nat] : Tally(f, S, g) /\ g[S] = n
  BY DEF Sums
<1> DEFINE k == [T \in SUBSET S |-> g[T] + (IF a \in T THEN d ELSE 0)]
<1>2. k \in [SUBSET S -> Nat]
  OBVIOUS
<1>3. k[S] = n + d
  <2>1. S \in SUBSET S
    OBVIOUS
  <2> QED
    BY <1>1, <2>1
<1>4. ASSUME NEW T \in SUBSET S PROVE k[T] = Layer(h, k, T)
  <2>1. CASE T = {}
    <3>1. g[T] = 0
      BY <1>1, <2>1, TallyAt
    <3> QED
      BY <2>1, <3>1 DEF Layer
  <2>2. CASE T # {}
    <3>1. Peel(T) \in T /\ T \ {Peel(T)} \in SUBSET S
      BY <2>2, Peeled
    <3>2. g[T] = f[Peel(T)] + g[T \ {Peel(T)}]
      BY <1>1, <2>2, TallyAt
    <3>3. PICK x \in S, R \in SUBSET S : x = Peel(T) /\ R = T \ {Peel(T)}
      BY <3>1
    <3>4. PICK u \in Nat, v \in Nat : u = f[x] /\ v = g[R]
      BY <1>1
    <3>5. g[T] = u + v
      BY <3>2, <3>3, <3>4
    <3>6. CASE x = a
      <4>1. h[x] = u + d
        BY <3>4, <3>6
      <4>2. k[R] = v + 0
        BY <3>3, <3>4, <3>6
      <4>3. k[T] = (u + v) + d
        BY <3>1, <3>3, <3>5, <3>6
      <4>4. Layer(h, k, T) = h[x] + k[R]
        BY ONLY <2>2, <3>3 DEF Layer
      <4> HIDE DEF k
      <4>5. h[x] + k[R] = (u + v) + d
        BY <4>1, <4>2
      <4> QED
        BY <4>3, <4>4, <4>5
    <3>7. CASE x # a
      <4>1. h[x] = u
        BY <3>4, <3>7
      <4>2. PICK e \in Nat : e = IF a \in T THEN d ELSE 0
        OBVIOUS
      <4>3. (a \in R) <=> (a \in T)
        BY <3>3, <3>7
      <4>4. k[R] = v + e
        BY <3>4, <4>2, <4>3
      <4>5. k[T] = (u + v) + e
        BY <3>5, <4>2
      <4>6. Layer(h, k, T) = h[x] + k[R]
        BY ONLY <2>2, <3>3 DEF Layer
      <4> HIDE DEF k
      <4>7. h[x] + k[R] = (u + v) + e
        BY <4>1, <4>4
      <4> QED
        BY <4>5, <4>6, <4>7
    <3> QED
      BY <3>6, <3>7
  <2> QED
    BY <2>1, <2>2
<1>5. Tally(h, S, k)
  <2> HIDE DEF k
  <2>1. k = [T \in SUBSET S |-> k[T]]
    BY <1>2
  <2> QED
    BY <1>4, <2>1 DEF Tally
<1> HIDE DEF k
<1> QED
  BY <1>2, <1>3, <1>5 DEF Sums

\* Nothing adds up to nothing.
LEMMA SumOfZeros ==
    ASSUME NEW S, NEW f \in [S -> Nat], \A s \in S : f[s] = 0, IsFiniteSet(S)
    PROVE  Sums(f, S, 0)
<1> DEFINE k == [T \in SUBSET S |-> 0]
<1>1. ASSUME NEW T \in SUBSET S PROVE k[T] = Layer(f, k, T)
  <2>1. CASE T = {}
    BY <2>1 DEF Layer
  <2>2. CASE T # {}
    <3>1. Peel(T) \in T /\ T \ {Peel(T)} \in SUBSET S
      BY <2>2, Peeled
    <3>2. f[Peel(T)] = 0 /\ k[T \ {Peel(T)}] = 0 /\ k[T] = 0
      BY <3>1
    <3> HIDE DEF k
    <3> QED
      BY <2>2, <3>2 DEF Layer
  <2> QED
    BY <2>1, <2>2
<1>2. k \in [SUBSET S -> Nat] /\ k[S] = 0
  <2>1. S \in SUBSET S
    OBVIOUS
  <2> QED
    BY <2>1
<1> HIDE DEF k
<1>3. k = [T \in SUBSET S |-> k[T]]
  BY <1>2
<1>4. Tally(f, S, k)
  BY <1>1, <1>3 DEF Tally
<1> QED
  BY <1>2, <1>4 DEF Sums

\* Every set of amounts has a sum: the tally is built up from the smaller subsets to the
\* larger ones.
LEMMA SumExists ==
    ASSUME NEW S, IsFiniteSet(S), NEW f \in [S -> Nat]
    PROVE  \E n \in Nat : Sums(f, S, n)
<1> DEFINE Fits(g, n) == \A T \in SUBSET S : Cardinality(T) <= n => g[T] = Layer(f, g, T)
           Upto(n) == \E g \in [SUBSET S -> Nat] : Fits(g, n)
           B == {n \in Nat : ~Upto(n)}
<1>1. ASSUME NEW n \in Nat, NEW g \in [SUBSET S -> Nat], Fits(g, n)
      PROVE  Upto(n + 1)
  <2> DEFINE k == [T \in SUBSET S |-> Layer(f, g, T)]
  <2>1. ASSUME NEW T \in SUBSET S PROVE Layer(f, g, T) \in Nat
    <3>1. CASE T = {}
      BY <3>1 DEF Layer
    <3>2. CASE T # {}
      <4>1. Peel(T) \in S /\ T \ {Peel(T)} \in SUBSET S
        BY <3>2, Peeled
      <4>2. f[Peel(T)] \in Nat /\ g[T \ {Peel(T)}] \in Nat
        BY <4>1
      <4> QED
        BY <3>2, <4>2 DEF Layer
    <3> QED
      BY <3>1, <3>2
  <2>2. k \in [SUBSET S -> Nat]
    BY <2>1
  <2>3. ASSUME NEW T \in SUBSET S, Cardinality(T) <= n + 1 PROVE k[T] = Layer(f, k, T)
    <3>1. k[T] = Layer(f, g, T)
      OBVIOUS
    <3>2. CASE T = {}
      BY <3>1, <3>2 DEF Layer
    <3>3. CASE T # {}
      <4>1. PICK R \in SUBSET S : R = T \ {Peel(T)} /\ Cardinality(T) \in Nat /\ Cardinality(R) \in Nat
                                  /\ Cardinality(R) < Cardinality(T)
        BY <3>3, Peeled
      <4>2. Cardinality(R) <= n
        BY <2>3, <4>1
      <4>3. g[R] = Layer(f, g, R)
        BY <1>1, <4>2
      <4>4. k[R] = g[R]
        BY <4>3
      <4> HIDE DEF k
      <4> QED
        BY <3>1, <3>3, <4>1, <4>4 DEF Layer
    <3> QED
      BY <3>2, <3>3
  <2> HIDE DEF k
  <2> QED
    BY <2>2, <2>3
<1>2. Upto(0)
  <2> DEFINE k == [T \in SUBSET S |-> 0]
  <2>1. ASSUME NEW T \in SUBSET S, Cardinality(T) <= 0 PROVE k[T] = Layer(f, k, T)
    <3>1. T = {}
      <4>1. SUFFICES ASSUME T # {} PROVE FALSE
        OBVIOUS
      <4>2. PICK c \in Nat, d \in Nat : c = Cardinality(T) /\ d < c
        BY <4>1, Peeled
      <4> QED
        BY <2>1, <4>2
    <3> QED
      BY <3>1 DEF Layer
  <2>2. k \in [SUBSET S -> Nat]
    OBVIOUS
  <2> HIDE DEF k
  <2> QED
    BY <2>1, <2>2
<1>3. B = {}
  <2>1. SUFFICES ASSUME B # {} PROVE FALSE
    OBVIOUS
  <2>2. PICK n \in B : \A m \in B : n <= m
    <3>1. B \in SUBSET Nat
      OBVIOUS
    <3> HIDE DEF B
    <3> QED
      BY <2>1, <3>1, LeastNatural
  <2> HIDE DEF Upto
  <2>3. n \in Nat /\ ~Upto(n)
    BY <2>2
  <2>4. n # 0
    BY <1>2, <2>3
  <2>5. PICK m \in Nat : n = m + 1
    <3>1. n - 1 \in Nat /\ n = (n - 1) + 1
      BY <2>3, <2>4
    <3> QED
      BY <3>1
  <2>6. m \notin B
    BY <2>2, <2>5
  <2>7. Upto(m)
    BY <2>6
  <2>8. PICK g \in [SUBSET S -> Nat] : Fits(g, m)
    BY <2>7 DEF Upto
  <2>9. Upto(m + 1)
    <3> HIDE DEF Fits
    <3> QED
      BY <1>1, <2>8
  <2> QED
    BY <2>3, <2>5, <2>9
<1>4. PICK c \in Nat : c = Cardinality(S)
  BY FS_CardinalityType
<1>5. PICK g \in [SUBSET S -> Nat] : Fits(g, c)
  <2>1. Upto(c)
    <3> HIDE DEF Upto
    <3> QED
      BY <1>3
  <2> QED
    BY <2>1
<1>6. ASSUME NEW T \in SUBSET S PROVE g[T] = Layer(f, g, T)
  <2>1. Cardinality(T) <= Cardinality(S)
    BY FS_Subset
  <2> QED
    BY <1>4, <1>5, <2>1
<1>7. Tally(f, S, g)
  <2>1. g = [T \in SUBSET S |-> g[T]]
    OBVIOUS
  <2> QED
    BY <1>6, <2>1 DEF Tally
<1>8. g[S] \in Nat
  <2>1. S \in SUBSET S
    OBVIOUS
  <2> QED
    BY <2>1
<1> QED
  BY <1>7, <1>8 DEF Sums

\* What the rows of a ledger have reserved, and what the provider has charged.
Amounts(l) == [s \in Slots |-> l.job[s].reserved]
Dues == [s \in Slots |-> charged[s] * Cost(s)]

\* ReservedTotal is that sum over what the committed rows have reserved.
LEMMA ReservedTotalSums ==
    ASSUME IsFiniteSet(Slots), NEW n, Sums(Amounts(disk), Slots, n)
    PROVE  ReservedTotal = n
<1> DEFINE Once(g) == [T \in SUBSET Slots |-> IF T = {} THEN 0
                          ELSE disk.job[CHOOSE x \in T : TRUE].reserved
                               + g[T \ {CHOOSE x \in T : TRUE}]]
           it == CHOOSE g : g = Once(g)
<1>1. ReservedTotal = it[Slots]
  BY DEF ReservedTotal, MapThenSumSet, MapThenFoldSet
<1>2. ASSUME NEW g PROVE Once(g) = [T \in SUBSET Slots |-> Layer(Amounts(disk), g, T)]
  <2>1. ASSUME NEW T \in SUBSET Slots
        PROVE  Layer(Amounts(disk), g, T) = IF T = {} THEN 0
                          ELSE disk.job[CHOOSE x \in T : TRUE].reserved
                               + g[T \ {CHOOSE x \in T : TRUE}]
    <3>1. CASE T = {}
      BY <3>1 DEF Layer
    <3>2. CASE T # {}
      <4>1. Peel(T) \in Slots
        BY <3>2 DEF Peel
      <4> QED
        BY <3>2, <4>1 DEF Layer, Amounts, Peel
    <3> QED
      BY <3>1, <3>2
  <2> QED
    BY <2>1
<1>3. PICK g \in [SUBSET Slots -> Nat] : Tally(Amounts(disk), Slots, g) /\ g[Slots] = n
  BY DEF Sums
<1>4. g = Once(g)
  <2> HIDE DEF Once
  <2> QED
    BY <1>2, <1>3 DEF Tally
<1>5. it = Once(it)
  <2> HIDE DEF Once
  <2> QED
    BY <1>4
<1>6. Tally(Amounts(disk), Slots, it)
  <2> HIDE DEF Once
  <2> HIDE DEF it
  <2> QED
    BY <1>2, <1>5 DEF Tally
<1> HIDE DEF it
<1>7. it[Slots] = g[Slots]
  BY <1>3, <1>6, TallyUnique
<1> QED
  BY <1>1, <1>3, <1>7

\* Charges is that sum over what the provider has charged.
LEMMA ChargesSum ==
    ASSUME IsFiniteSet(Slots), NEW n, Sums(Dues, Slots, n)
    PROVE  Charges = n
<1> DEFINE Once(g) == [T \in SUBSET Slots |-> IF T = {} THEN 0
                          ELSE charged[CHOOSE x \in T : TRUE] * Cost(CHOOSE x \in T : TRUE)
                               + g[T \ {CHOOSE x \in T : TRUE}]]
           it == CHOOSE g : g = Once(g)
<1>1. Charges = it[Slots]
  BY DEF Charges, MapThenSumSet, MapThenFoldSet
<1>2. ASSUME NEW g PROVE Once(g) = [T \in SUBSET Slots |-> Layer(Dues, g, T)]
  <2>1. ASSUME NEW T \in SUBSET Slots
        PROVE  Layer(Dues, g, T) = IF T = {} THEN 0
                          ELSE charged[CHOOSE x \in T : TRUE] * Cost(CHOOSE x \in T : TRUE)
                               + g[T \ {CHOOSE x \in T : TRUE}]
    <3>1. CASE T = {}
      BY <3>1 DEF Layer
    <3>2. CASE T # {}
      <4>1. Peel(T) \in Slots
        BY <3>2 DEF Peel
      <4> QED
        BY <3>2, <4>1 DEF Layer, Dues, Peel
    <3> QED
      BY <3>1, <3>2
  <2> QED
    BY <2>1
<1>3. PICK g \in [SUBSET Slots -> Nat] : Tally(Dues, Slots, g) /\ g[Slots] = n
  BY DEF Sums
<1>4. g = Once(g)
  <2> HIDE DEF Once
  <2> QED
    BY <1>2, <1>3 DEF Tally
<1>5. it = Once(it)
  <2> HIDE DEF Once
  <2> QED
    BY <1>4
<1>6. Tally(Dues, Slots, it)
  <2> HIDE DEF Once
  <2> HIDE DEF it
  <2> QED
    BY <1>2, <1>5 DEF Tally
<1> HIDE DEF it
<1>7. it[Slots] = g[Slots]
  BY <1>3, <1>6, TallyUnique
<1> QED
  BY <1>1, <1>3, <1>7


-----------------------------------------------------------------------------
(* The budget: what the ledgers say of money. *)

\* A ledger's budget is the sum of what its rows have reserved, and within the cap.
Books(l) == Sums(Amounts(l), Slots, l.budget) /\ l.budget <= Cap

\* Processes that have reserved slot s and are about to call the provider.
Callers(s) == {p \in Nodes : task[p][s].pc = "call"}

\* What was charged and what may be charged next is reserved in the committed ledger.
Covers(s) == (charged[s] + Cardinality(Callers(s))) * Cost(s) <= disk.job[s].reserved

Budget ==
    /\ Books(led) /\ Books(disk)
    /\ \A t \in Slots : disk.job[t].reserved <= led.job[t].reserved
    /\ \A t \in Slots : Covers(t)

\* A document has finitely many slots, a run finitely many attempts.
LEMMA Finite == IsFiniteSet(Slots) /\ IsFiniteSet(Nodes)
<1>1. IsFiniteSet(Scenes) /\ IsFiniteSet(DefaultMusic) /\ IsFiniteSet(PaidMusic)
      /\ Parts \in Int /\ MaxAttempt \in Int /\ 0 \in Int /\ 1 \in Int
  BY AudioAssumption DEF AudioAssumption
<1>2. IsFiniteSet(1..Parts) /\ IsFiniteSet(1..MaxAttempt) /\ IsFiniteSet({0})
  BY <1>1, FS_Interval, FS_Singleton
<1>3. IsFiniteSet(Segments) /\ IsFiniteSet(Narrations)
  BY <1>1, <1>2, FS_Product DEF Segments, Narrations
<1>4. IsFiniteSet(Music)
  BY <1>1, FS_Union DEF Music
<1>5. IsFiniteSet(Segments \cup Narrations)
  BY <1>3, FS_Union
<1>6. IsFiniteSet(Slots)
  BY <1>4, <1>5, FS_Union DEF Slots
<1> QED
  BY <1>2, <1>6 DEF Nodes

\* Callers are counted.
LEMMA CallersCounted == ASSUME NEW s PROVE IsFiniteSet(Callers(s)) /\ Cardinality(Callers(s)) \in Nat
<1>1. Callers(s) \in SUBSET Nodes
  BY DEF Callers
<1> QED
  BY <1>1, Finite, FS_Subset, FS_CardinalityType

\* The amounts of a ledger.
LEMMA AmountsType ==
    ASSUME NEW l \in Ledger
    PROVE  /\ Amounts(l) \in [Slots -> Nat] /\ l.budget \in Nat
           /\ \A s \in Slots : Amounts(l)[s] = l.job[s].reserved /\ l.job[s].reserved \in Nat
<1>1. l.budget \in Nat /\ \A s \in Slots : l.job[s] \in Job
  BY DEF Ledger
<1>2. \A s \in Slots : l.job[s].reserved \in Nat
  BY <1>1, JobFields
<1> QED
  BY <1>1, <1>2 DEF Amounts

\* Ledgers that agree on the money have the same books.
Equal(l, k) == l.budget = k.budget /\ \A t \in Slots : l.job[t].reserved = k.job[t].reserved

\* Books depend on the budget and the amounts only.
LEMMA SameBooks ==
    ASSUME NEW l, NEW k, Equal(l, k), Books(k)
    PROVE  Books(l)
<1>1. Amounts(l) = Amounts(k)
  BY DEF Amounts, Equal
<1> QED
  BY <1>1 DEF Books, Equal

\* A reservation: the row and the budget grow by the price, which the cap allows.
Pays(l, s) ==
    /\ l.budget = led.budget + Cost(s) /\ l.budget <= Cap
    /\ l.job[s].reserved = led.job[s].reserved + Cost(s)
    /\ \A t \in Slots \ {s} : l.job[t].reserved = led.job[t].reserved

\* A reservation keeps the books in order.
LEMMA PaidBooks ==
    ASSUME NEW l \in Ledger, NEW s \in Slots, led \in Ledger, Pays(l, s), Books(led)
    PROVE  Books(l)
<1>1. PICK f \in [Slots -> Nat] : f = Amounts(led) /\ Sums(f, Slots, led.budget) /\ led.budget \in Nat
  BY AmountsType DEF Books
<1>2. PICK h \in [Slots -> Nat] : h = Amounts(l)
  BY AmountsType
<1>3. Cost(s) \in Nat
  BY SlotFacts
<1>4. h[s] = f[s] + Cost(s) /\ \A t \in Slots \ {s} : h[t] = f[t]
  BY <1>1, <1>2, AmountsType DEF Pays
<1>5. Sums(h, Slots, led.budget + Cost(s))
  BY <1>1, <1>3, <1>4, Finite, SumGrows
<1> QED
  BY <1>2, <1>5 DEF Books, Pays

\* What a task step may do with the ledger.
Spends(p, s) ==
    \/ UNCHANGED <<led, disk>>
    \/ \E l \in Ledger : (Equal(l, led) \/ Pays(l, s)) /\ Wrote(p, l)

\* Nobody comes to be about to call.
NoNewCalls == \A q \in Nodes : \A t \in Slots : task'[q][t].pc = "call" => task[q][t].pc = "call"

Grows == \A t \in Slots : disk.job[t].reserved <= disk'.job[t].reserved

\* The books stay in order and the committed reservations do not shrink.
Orderly ==
    /\ Books(led)' /\ Books(disk)' /\ Grows
    /\ \A t \in Slots : disk'.job[t].reserved <= led'.job[t].reserved

\* Written, committed, rolled back or committed without an answer: the books stay in order.
LEMMA SpendsIsOrderly ==
    ASSUME TypeOK, Budget, NEW p \in Nodes, NEW s \in Slots, Spends(p, s)
    PROVE  Orderly
<1>1. led \in Ledger /\ disk \in Ledger
  BY Types
<1>2. \A t \in Slots : led.job[t].reserved \in Nat /\ disk.job[t].reserved \in Nat
  BY <1>1, AmountsType
<1>3. CASE UNCHANGED <<led, disk>>
  BY <1>2, <1>3 DEF Orderly, Grows, Budget, Books, Amounts
<1>4. CASE \E l \in Ledger : (Equal(l, led) \/ Pays(l, s)) /\ Wrote(p, l)
  <2>1. PICK l \in Ledger : (Equal(l, led) \/ Pays(l, s)) /\ Wrote(p, l)
    BY <1>4
  <2>2. Books(l) /\ Books(led) /\ Books(disk)
    BY <1>1, <2>1, SameBooks, PaidBooks DEF Budget
  <2>3. \A t \in Slots : l.job[t].reserved \in Nat
    BY AmountsType
  <2>4. Cost(s) \in Nat
    BY SlotFacts
  <2>5. \A t \in Slots : led.job[t].reserved <= l.job[t].reserved
    BY <1>2, <2>1, <2>3, <2>4 DEF Equal, Pays
  <2>6. \A t \in Slots : disk.job[t].reserved <= l.job[t].reserved
    BY <1>2, <2>3, <2>5 DEF Budget
  <2>7. \/ led' = l /\ disk' = disk
        \/ led' = l /\ disk' = l
        \/ led' = disk /\ disk' = disk
    BY <2>1 DEF Wrote, Write, Commit, CommitFails
  <2> QED
    BY <1>2, <2>2, <2>3, <2>6, <2>7 DEF Orderly, Grows, Budget, Books, Amounts
<1> QED
  BY <1>3, <1>4 DEF Spends

\* The price is monotone.
LEMMA Times ==
    ASSUME NEW a \in Nat, NEW b \in Nat, NEW c \in Nat, a <= b
    PROVE  a * c <= b * c /\ a * c \in Nat /\ b * c \in Nat
<1>1. PICK d \in Nat : b = a + d
  <2>1. b - a \in Nat /\ b = a + (b - a)
    OBVIOUS
  <2> QED
    BY <2>1
<1>2. b * c = a * c + d * c
  BY <1>1
<1>3. a * c \in Nat /\ d * c \in Nat
  OBVIOUS
<1> QED
  BY <1>2, <1>3

\* The callers of a slot after the step.
LEMMA CallersNext ==
    ASSUME NEW t
    PROVE  /\ Callers(t)' = {q \in Nodes : task'[q][t].pc = "call"}
           /\ Callers(t)' \in SUBSET Nodes /\ IsFiniteSet(Callers(t)') /\ Cardinality(Callers(t)') \in Nat
<1>1. Callers(t)' = {q \in Nodes : task'[q][t].pc = "call"}
  BY DEF Callers
<1>2. PICK C \in SUBSET Nodes : C = Callers(t)'
  BY <1>1
<1>3. IsFiniteSet(C) /\ Cardinality(C) \in Nat
  BY Finite, FS_Subset, FS_CardinalityType
<1> QED
  BY <1>1, <1>2, <1>3

\* A slot stays covered when its charges and callers grow by no more than is paid for.
LEMMA CoversStep ==
    ASSUME TypeOK, TypeOK', NEW t \in Slots, Covers(t), NEW d \in Nat,
           charged'[t] + Cardinality(Callers(t)') <= charged[t] + Cardinality(Callers(t)) + d,
           disk.job[t].reserved + d * Cost(t) <= disk'.job[t].reserved
    PROVE  Covers(t)'
<1>1. PICK a \in Nat, b \in Nat : a = charged'[t] /\ b = charged[t]
  BY DEF TypeOK
<1>2. PICK x \in Nat, y \in Nat : x = Cardinality(Callers(t)') /\ y = Cardinality(Callers(t))
  BY CallersNext, CallersCounted
<1>3. PICK c \in Nat : c = Cost(t)
  BY SlotFacts
<1>4. PICK r \in Nat, q \in Nat : r = disk.job[t].reserved /\ q = disk'.job[t].reserved
  <2>1. disk \in Ledger /\ disk' \in Ledger
    BY DEF TypeOK
  <2> QED
    BY <2>1, AmountsType
<1>5. PICK m \in Nat, n \in Nat : m = a + x /\ n = b + y
  OBVIOUS
<1>6. n * c <= r
  BY <1>1, <1>2, <1>3, <1>4, <1>5 DEF Covers
<1>7. m <= n + d /\ n + d \in Nat
  BY <1>1, <1>2, <1>5
<1>8. m * c <= (n + d) * c /\ m * c \in Nat /\ (n + d) * c \in Nat
  BY <1>7, Times
<1>9. (n + d) * c = n * c + d * c
  OBVIOUS
<1>10. r + d * c <= q
  BY <1>3, <1>4
<1>11. n * c \in Nat /\ d * c \in Nat
  OBVIOUS
<1>12. m * c <= q
  BY <1>6, <1>8, <1>9, <1>10, <1>11
<1> QED
  BY <1>1, <1>2, <1>3, <1>4, <1>5, <1>12 DEF Covers

\* A slot whose charges and callers do not grow.
LEMMA CoversStays ==
    ASSUME TypeOK, TypeOK', NEW t \in Slots, Covers(t), charged'[t] <= charged[t],
           \A q \in Nodes : task'[q][t].pc = "call" => task[q][t].pc = "call",
           disk.job[t].reserved <= disk'.job[t].reserved
    PROVE  Covers(t)'
<1>1. PICK C \in SUBSET Nodes, D \in SUBSET Nodes : C = Callers(t)' /\ D = Callers(t)
  BY CallersNext DEF Callers
<1>2. C \subseteq D /\ IsFiniteSet(D)
  <2>1. C = {q \in Nodes : task'[q][t].pc = "call"} /\ D = {q \in Nodes : task[q][t].pc = "call"}
    BY <1>1, CallersNext DEF Callers
  <2> QED
    BY <1>1, <2>1, CallersCounted
<1>3. Cardinality(C) <= Cardinality(D)
  BY <1>2, FS_Subset
<1>4. Cardinality(C) \in Nat /\ Cardinality(D) \in Nat
  BY <1>1, CallersNext, CallersCounted
<1>5. charged'[t] \in Nat /\ charged[t] \in Nat /\ Cost(t) \in Nat
  BY SlotFacts DEF TypeOK
<1>6. charged'[t] + Cardinality(C) <= charged[t] + Cardinality(D) + 0
  BY <1>3, <1>4, <1>5
<1>7. disk.job[t].reserved + 0 * Cost(t) <= disk'.job[t].reserved
  <2>1. disk \in Ledger
    BY DEF TypeOK
  <2>2. disk.job[t].reserved \in Nat
    BY <2>1, AmountsType
  <2>3. 0 * Cost(t) = 0
    BY <1>5
  <2> QED
    BY <2>2, <2>3
<1>8. charged'[t] + Cardinality(Callers(t)') <= charged[t] + Cardinality(Callers(t)) + 0
  BY <1>1, <1>6
<1> QED
  BY <1>7, <1>8, CoversStep

\* Charges that do not grow stay covered.
LEMMA StaysCovered ==
    ASSUME TypeOK, TypeOK', Budget, Orderly, NoNewCalls, \A t \in Slots : charged'[t] <= charged[t]
    PROVE  Budget'
<1>1. ASSUME NEW t \in Slots PROVE Covers(t)'
  BY CoversStays DEF NoNewCalls, Orderly, Grows, Budget
<1> QED
  BY <1>1 DEF Budget, Orderly

-----------------------------------------------------------------------------
(* The task steps that make no call keep the books. *)

\* A move to anything but the call makes nobody a caller.
LEMMA MovesCallNobody ==
    ASSUME NEW p \in Nodes, NEW s \in Slots, NEW pc, NEW tok, pc # "call", Moves(p, s, pc, tok)
    PROVE  NoNewCalls
<1> SUFFICES ASSUME NEW q \in Nodes, NEW t \in Slots, task'[q][t].pc = "call"
             PROVE  task[q][t].pc = "call"
  BY DEF NoNewCalls
<1>1. CASE q # p
  BY <1>1 DEF Moves
<1>2. CASE q = p /\ t # s
  BY <1>2 DEF Moves, Aside
<1>3. CASE q = p /\ t = s
  BY <1>3 DEF Moves
<1> QED
  BY <1>1, <1>2, <1>3

\* A step of task s of process p that keeps the books and calls nobody.
Steady(p, s) == Spends(p, s) /\ NoNewCalls

\* The rows stay as they are.
LEMMA StillSpends ==
    ASSUME TypeOK, NEW p, NEW s, UNCHANGED ledgerVars \/ Write(p, led) \/ Commit(p, led)
    PROVE  Spends(p, s)
<1>1. led \in Ledger /\ Equal(led, led)
  BY Types DEF Equal
<1>2. CASE UNCHANGED ledgerVars
  BY <1>2 DEF Spends, ledgerVars
<1>3. CASE Write(p, led) \/ Commit(p, led)
  BY <1>1, <1>3 DEF Spends, Wrote
<1> QED
  BY <1>2, <1>3

\* A task that is given up spends nothing.
LEMMA GiveUpSteady ==
    ASSUME TypeOK, NEW p \in Nodes, NEW s \in Slots, NEW stop \in BOOLEAN, GiveUp(p, s, stop),
           UNCHANGED ledgerVars \/ Write(p, led) \/ Commit(p, led)
    PROVE  Steady(p, s)
<1>1. Spends(p, s)
  BY StillSpends
<1>2. Moves(p, s, "gone", task[p][s].token)
  BY GiveUpMoves
<1>3. NoNewCalls
  BY <1>2, MovesCallNobody
<1> QED
  BY <1>1, <1>3 DEF Steady

\* A refused write spends nothing.
LEMMA RefusedSteady ==
    ASSUME TypeOK, NEW p \in Nodes, NEW s \in Slots, NEW v, Refused(p, s, v)
    PROVE  Steady(p, s)
<1>1. (v = "stop") \in BOOLEAN /\ GiveUp(p, s, v = "stop") /\ Write(p, led)
  BY DEF Refused
<1> QED
  BY <1>1, GiveUpSteady

\* A task that moves on without writing spends nothing.
LEMMA GotoSteady ==
    ASSUME TypeOK, NEW p \in Nodes, NEW s \in Slots, NEW pc \in Pcs \ {"call"}, Goto(p, s, pc),
           UNCHANGED ledgerVars \/ Write(p, led) \/ Commit(p, led)
    PROVE  Steady(p, s)
<1>1. Spends(p, s)
  BY StillSpends
<1>2. Moves(p, s, pc, task[p][s].token)
  BY GotoMoves
<1>3. NoNewCalls
  BY <1>2, MovesCallNobody
<1> QED
  BY <1>1, <1>3 DEF Steady

\* What a task may write.
Bill(l, s) == l \in Ledger /\ (Equal(l, led) \/ Pays(l, s))

\* A slot that is left behind.
LEMMA LeaveSteady ==
    ASSUME TypeOK, NEW p \in Nodes, NEW s \in Slots, NEW l, Bill(l, s), Leave(p, s, l)
    PROVE  Steady(p, s)
<1>1. Spends(p, s)
  BY DEF Leave, Spends, Bill, Wrote
<1>2. \E stop \in BOOLEAN : GiveUp(p, s, stop)
  BY DEF Leave
<1>3. Moves(p, s, "gone", task[p][s].token)
  BY <1>2, GiveUpMoves
<1>4. NoNewCalls
  BY <1>3, MovesCallNobody
<1> QED
  BY <1>1, <1>4 DEF Steady

\* A task that goes on with its entry committed, or is given up.
LEMMA ProceedSteady ==
    ASSUME TypeOK, NEW p \in Nodes, NEW s \in Slots, NEW l, Bill(l, s), NEW pc \in Pcs \ {"call"},
           Proceed(p, s, l, pc)
    PROVE  Steady(p, s)
<1>1. Spends(p, s)
  BY DEF Proceed, Spends, Bill, Wrote
<1>2. l.job[s] \in Job
  BY DEF Bill, Ledger
<1>3. PICK tok \in Nat : tok = l.job[s].token
  BY <1>2, JobFields
<1>4. CASE GiveUp(p, s, TRUE)
  <2>1. Moves(p, s, "gone", task[p][s].token)
    BY <1>4, GiveUpMoves
  <2> QED
    BY <1>1, <2>1, MovesCallNobody DEF Steady
<1>5. CASE task' = [task EXCEPT ![p][s].pc = pc, ![p][s].token = l.job[s].token] /\ UNCHANGED node
  <2>1. Moves(p, s, pc, tok)
    BY <1>3, <1>5, TakeMoves
  <2> QED
    BY <1>1, <2>1, MovesCallNobody DEF Steady
<1> QED
  BY <1>4, <1>5 DEF Proceed

\* A task that goes on whatever the commit says.
LEMMA GoOnSteady ==
    ASSUME TypeOK, NEW p \in Nodes, NEW s \in Slots, NEW l, Bill(l, s), NEW pc \in Pcs \ {"call"},
           GoOn(p, s, l, pc)
    PROVE  Steady(p, s)
<1>1. Spends(p, s)
  BY DEF GoOn, Spends, Bill, Wrote
<1>2. l.job[s] \in Job
  BY DEF Bill, Ledger
<1>3. PICK tok \in Nat : tok = l.job[s].token
  BY <1>2, JobFields
<1>4. task' = [task EXCEPT ![p][s].pc = pc, ![p][s].token = tok]
      /\ (UNCHANGED node \/ node' = [node EXCEPT ![p].stop = TRUE])
  BY <1>3 DEF GoOn
<1>5. Moves(p, s, pc, tok)
  BY <1>4, TakeMoves
<1> QED
  BY <1>1, <1>5, MovesCallNobody DEF Steady

\* A row that keeps its amount.
LEMMA SetBill ==
    ASSUME TypeOK, NEW s \in Slots, NEW r \in Job, r.reserved = led.job[s].reserved
    PROVE  Bill(Set(s, r), s)
<1>1. led \in Ledger /\ led.job \in [Slots -> Job]
  BY Types
<1>2. PICK f \in [Slots -> Job] : f = [led.job EXCEPT ![s] = r]
  BY <1>1
<1>3. Set(s, r) = [led EXCEPT !.job = f]
  BY <1>1, <1>2 DEF Set
<1>4. Set(s, r) \in Ledger /\ Set(s, r).job = f /\ Set(s, r).budget = led.budget
  BY <1>1, <1>3 DEF Ledger
<1>5. \A t \in Slots : f[t].reserved = led.job[t].reserved
  BY <1>1, <1>2
<1> QED
  BY <1>4, <1>5 DEF Bill, Equal

\* A change of state costs nothing.
LEMMA StateBill ==
    ASSUME TypeOK, NEW s \in Slots, NEW st \in States
    PROVE  Bill(Set(s, [led.job[s] EXCEPT !.state = st]), s)
<1>1. PICK j \in Job : j = led.job[s]
  BY Types
<1>2. PICK r \in Job : r = [j EXCEPT !.state = st] /\ r.reserved = j.reserved
  BY StateFits
<1> QED
  BY <1>1, <1>2, SetBill

\* A reservation pays, and only within the cap.
LEMMA ReservedBill ==
    ASSUME TypeOK, Budget, NEW p \in Nodes, NEW s \in Slots, NEW st \in States, Reservable(p, s) = "ok"
    PROVE  Reserved(p, s, st) \in Ledger /\ Pays(Reserved(p, s, st), s)
<1>1. PICK l : l = Reserved(p, s, st)
  OBVIOUS
<1>2. SameBut(l, s) /\ l.job[s].reserved = led.job[s].reserved + Cost(s)
  BY <1>1, ReservedFits
<1>3. led \in Ledger /\ led.budget \in Nat /\ Cost(s) \in Nat /\ Cap \in Nat
  BY Types, SlotFacts, AudioAssumption DEF AudioAssumption
<1>4. l.budget = led.budget + Cost(s)
  <2>1. PICK b \in Nat : b = led.budget + Cost(s)
    BY <1>3
  <2>2. PICK r : l = [led EXCEPT !.budget = b, !.job[s] = r]
    BY <1>1, <2>1 DEF Reserved
  <2> QED
    BY <1>3, <2>1, <2>2 DEF Ledger
<1>5. led.budget <= Cap
  BY DEF Budget, Books
<1>6. l.budget <= Cap
  <2>1. ~(Cost(s) > 0 /\ led.budget + Cost(s) > Cap)
    BY DEF Reservable
  <2> QED
    BY <1>3, <1>4, <1>5, <2>1
<1> QED
  BY <1>1, <1>2, <1>4, <1>6 DEF SameBut, Pays

\* A key costs nothing.
LEMMA KeyedBill ==
    ASSUME NEW p \in Nodes, NEW s \in Slots, NEW l, Bill(l, s)
    PROVE  Bill(Keyed(p, l, s), s)
<1>1. l \in Ledger
  BY DEF Bill
<1>2. PICK k : k = Keyed(p, l, s)
  OBVIOUS
<1>3. k \in Ledger /\ (\A t \in Slots \ {s} : k.job[t] = l.job[t]) /\ k.job[s].reserved = l.job[s].reserved
  BY <1>1, <1>2, KeyedFits
<1>4. k.budget = l.budget
  <2>1. PICK x : x = IF l.job[s].key = NoKey THEN <<p, s>> ELSE l.job[s].key
    OBVIOUS
  <2>2. k = [l EXCEPT !.job[s].key = x]
    BY <1>1, <1>2, <2>1 DEF Keyed, Ledger
  <2> QED
    BY <1>1, <2>2 DEF Ledger
<1>5. Equal(k, l)
  BY <1>3, <1>4 DEF Equal
<1> QED
  BY <1>2, <1>3, <1>5 DEF Bill, Equal, Pays

\* Everything of a purchase but the reservation and the call.
LEMMA AnsweredSteady ==
    ASSUME TypeOK, NEW p \in Nodes, NEW s \in Slots, Answered(p, s)
    PROVE  Steady(p, s)
<1> DEFINE v == Verdict(p, s, {"submitting", "submitted"})
<1>1. CASE Refused(p, s, v)
  BY <1>1, RefusedSteady
<1>2. CASE Proceed(p, s, Submitted(s), IF s \in Music THEN "poll" ELSE "done")
  <2>1. PICK j \in Job : j = led.job[s]
    BY Types
  <2>2. PICK a \in BOOLEAN : a = (s \in Music)
    <3>1. (s \in Music) \in BOOLEAN
      OBVIOUS
    <3> WITNESS (s \in Music) \in BOOLEAN
    <3> QED
      OBVIOUS
  <2>3. PICK b \in BOOLEAN : b = (led.job[s].settled \/ s \in Segments)
    OBVIOUS
  <2>4. PICK r \in Job : r = [j EXCEPT !.state = "submitted", !.task = a, !.settled = b]
                         /\ r.reserved = j.reserved
    <3>1. [j EXCEPT !.state = "submitted", !.task = a, !.settled = b] \in Job /\ [j EXCEPT !.state = "submitted", !.task = a, !.settled = b].reserved = j.reserved
      BY DEF Job, States, Active
    <3> QED
      BY <3>1
  <2>5. Submitted(s) = Set(s, r)
    BY <2>1, <2>2, <2>3, <2>4 DEF Submitted
  <2>6. Bill(Submitted(s), s)
    BY <2>1, <2>4, <2>5, SetBill
  <2>7. PICK pc \in Pcs \ {"call"} : pc = IF s \in Music THEN "poll" ELSE "done"
    BY DEF Pcs
  <2> QED
    BY <1>2, <2>6, <2>7, ProceedSteady
<1> QED
  BY <1>1, <1>2 DEF Answered

\* A submission refused for the rate keeps what it has reserved.
LEMMA LimitedSteady ==
    ASSUME TypeOK, NEW p \in Nodes, NEW s \in Slots, Limited(p, s)
    PROVE  Steady(p, s)
<1> DEFINE v == Verdict(p, s, Active)
           l == Set(s, [led.job[s] EXCEPT !.state = "failed"])
           again == task[p][s].tries + 1 < MaxSubmits
<1>1. PICK stop \in BOOLEAN :
        /\ IF again
           THEN /\ task' = [task EXCEPT ![p][s].pc = "todo", ![p][s].tries = @ + 1]
                /\ node' = [node EXCEPT ![p].stop = @ \/ stop]
           ELSE GiveUp(p, s, stop)
        /\ \/ v = "ok" /\ ~stop /\ Commit(p, l)
           \/ v = "ok" /\ stop /\ CommitFails(p, l)
           \/ v # "ok" /\ stop = (v = "stop") /\ Write(p, led)
  BY DEF Limited
<1>2. Bill(l, s)
  BY StateBill DEF States, Orphan
<1>3. Spends(p, s)
  <2> HIDE DEF l
  <2>1. CASE Write(p, led)
    BY <2>1, StillSpends
  <2>2. CASE Commit(p, l) \/ CommitFails(p, l)
    BY <1>2, <2>2 DEF Spends, Bill, Wrote
  <2> QED
    BY <1>1, <2>1, <2>2
<1>4. CASE ~again
  <2>1. Moves(p, s, "gone", task[p][s].token)
    BY <1>1, <1>4, GiveUpMoves
  <2> QED
    BY <1>3, <2>1, MovesCallNobody DEF Steady
<1>5. CASE again
  <2>1. task \in [Nodes -> [Slots -> TaskRow]] /\ task[p][s] \in TaskRow /\ task[p][s].tries \in Nat
    BY Types DEF TaskRow
  <2>2. PICK n \in Nat : n = task[p][s].tries + 1
    BY <2>1
  <2>3. PICK r : r = [task[p][s] EXCEPT !.pc = "todo", !.tries = n] /\ r.pc = "todo"
    <3>1. [task[p][s] EXCEPT !.pc = "todo", !.tries = n].pc = "todo"
      BY <2>1 DEF TaskRow
    <3> QED
      BY <3>1
  <2>4. task' = [task EXCEPT ![p][s].pc = "todo", ![p][s].tries = n]
    BY <1>1, <1>5, <2>1, <2>2
  <2>5. task' = [task EXCEPT ![p] = [task[p] EXCEPT ![s] = r]]
    BY <2>1, <2>3, <2>4
  <2>6. PICK f : f = [task[p] EXCEPT ![s] = r]
    OBVIOUS
  <2>7. f[s] = r /\ (\A t \in Slots \ {s} : f[t] = task[p][t]) /\ task' = [task EXCEPT ![p] = f]
    BY <2>1, <2>5, <2>6
  <2>8. task'[p] = f /\ \A q \in Nodes \ {p} : task'[q] = task[q]
    BY <2>1, <2>7
  <2>9. NoNewCalls
    <3> SUFFICES ASSUME NEW q \in Nodes, NEW t \in Slots, task'[q][t].pc = "call"
                 PROVE  task[q][t].pc = "call"
      BY DEF NoNewCalls
    <3>1. CASE q # p
      BY <2>8, <3>1
    <3>2. CASE q = p
      <4>1. f[t].pc = "call" /\ "todo" # "call"
        BY <2>8, <3>2
      <4>2. t # s
        BY <2>3, <2>7, <4>1
      <4> QED
        BY <2>7, <3>2, <4>1, <4>2
    <3> QED
      BY <3>1, <3>2
  <2> QED
    BY <1>3, <2>9 DEF Steady
<1> QED
  BY <1>4, <1>5

\* So does one that was not answered.
LEMMA LostSteady ==
    ASSUME TypeOK, NEW p \in Nodes, NEW s \in Slots, Lost(p, s)
    PROVE  Steady(p, s)
<1> DEFINE l == Set(s, [led.job[s] EXCEPT !.state = "submission_unknown"])
<1>1. CASE Refused(p, s, Verdict(p, s, {"submitting", "submitted"}))
  BY <1>1, RefusedSteady
<1>2. CASE Leave(p, s, l)
  <2>1. Bill(l, s)
    BY StateBill DEF States
  <2> HIDE DEF l
  <2> QED
    BY <1>2, <2>1, LeaveSteady
<1> QED
  BY <1>1, <1>2 DEF Lost

\* A narration costs nothing of its own.
LEMMA BeginSceneSteady ==
    ASSUME TypeOK, NEW p \in Nodes, NEW n \in Slots, BeginScene(p, n)
    PROVE  Steady(p, n)
<1>1. UNCHANGED ledgerVars
  BY DEF BeginScene
<1>2. CASE GiveUp(p, n, FALSE)
  BY <1>1, <1>2, GiveUpSteady
<1>3. CASE Goto(p, n, "wait")
  BY <1>1, <1>3, GotoSteady DEF Pcs
<1> DEFINE new(t) == [task[p][t] EXCEPT !.pc = "done"]
           all == [t \in Slots |-> IF t \in Unit(n) THEN new(t) ELSE task[p][t]]
<1>4. CASE task' = [task EXCEPT ![p] = all]
  <2>1. task \in [Nodes -> [Slots -> TaskRow]] /\ \A t \in Slots : task[p][t] \in TaskRow
    BY Types
  <2>2. \A t \in Slots : new(t).pc = "done"
    BY <2>1 DEF TaskRow
  <2> HIDE DEF new
  <2>3. \A t \in Slots : all[t] = new(t) \/ all[t] = task[p][t]
    OBVIOUS
  <2> HIDE DEF all
  <2>4. task'[p] = all /\ \A q \in Nodes \ {p} : task'[q] = task[q]
    BY <1>4, <2>1
  <2>5. NoNewCalls
    BY <2>2, <2>3, <2>4 DEF NoNewCalls
  <2> QED
    BY <1>1, <2>5, StillSpends DEF Steady
<1> QED
  BY <1>2, <1>3, <1>4 DEF BeginScene

\* The reservation of a narration adds its price, which is nothing.
LEMMA PlaceNarrationSteady ==
    ASSUME TypeOK, Budget, NEW p \in Nodes, NEW n \in Slots, PlaceNarration(p, n)
    PROVE  Steady(p, n)
<1> DEFINE v == Reservable(p, n)
           l == Reserved(p, n, "reserved")
           k == Keyed(p, l, n)
<1>1. CASE GiveUp(p, n, FALSE) /\ UNCHANGED ledgerVars
  BY <1>1, GiveUpSteady
<1>2. CASE Refused(p, n, v)
  BY <1>2, RefusedSteady
<1>3. CASE Goto(p, n, "done") /\ Write(p, led)
  BY <1>3, GotoSteady DEF Pcs
<1>4. v = "ok" => Bill(l, n)
  BY ReservedBill DEF Bill, States, Active
<1>5. v = "ok" => Bill(k, n)
  <2> HIDE DEF l
  <2> QED
    BY <1>4, KeyedBill
<1> HIDE DEF l, k
<1>6. CASE v = "ok" /\ Write(p, l) /\ GiveUp(p, n, FALSE)
  <2>1. Moves(p, n, "gone", task[p][n].token)
    BY <1>6, GiveUpMoves
  <2>2. NoNewCalls
    BY <2>1, MovesCallNobody
  <2>3. Spends(p, n)
    BY <1>4, <1>6 DEF Spends, Bill, Wrote
  <2> QED
    BY <2>2, <2>3 DEF Steady
<1>7. CASE v = "ok" /\ Proceed(p, n, k, "upload")
  BY <1>5, <1>7, ProceedSteady DEF Pcs
<1> QED
  BY <1>1, <1>2, <1>3, <1>6, <1>7 DEF PlaceNarration, l, k

\* Copied music.
LEMMA DefaultSteady ==
    ASSUME TypeOK, Budget, NEW p \in Nodes, NEW m \in Slots,
           ReadSource(p, m) \/ ReserveDefault(p, m) \/ PlaceDefault(p, m)
    PROVE  Steady(p, m)
<1> DEFINE v == Reservable(p, m)
           l == Reserved(p, m, "reserved")
           k == Keyed(p, led, m)
<1>1. CASE ReadSource(p, m)
  <2>1. UNCHANGED ledgerVars /\ (GiveUp(p, m, FALSE) \/ Goto(p, m, "source"))
    BY <1>1 DEF ReadSource
  <2> QED
    BY <2>1, GiveUpSteady, GotoSteady DEF Pcs
<1>2. CASE ReserveDefault(p, m)
  <2>1. CASE Goto(p, m, "done") /\ UNCHANGED ledgerVars
    BY <2>1, GotoSteady DEF Pcs
  <2>2. CASE GiveUp(p, m, FALSE) /\ UNCHANGED ledgerVars
    BY <2>2, GiveUpSteady
  <2>3. CASE GiveUp(p, m, v = "stop") /\ Commit(p, led)
    BY <2>3, GiveUpSteady
  <2>4. v = "ok" => Bill(l, m)
    BY ReservedBill DEF Bill, States, Active
  <2> HIDE DEF l
  <2>5. CASE /\ v = "ok" /\ Write(p, l)
             /\ task' = [task EXCEPT ![p][m].pc = "fetch", ![p][m].token = l.job[m].token]
             /\ UNCHANGED node
    <3>1. l.job[m] \in Job
      BY <2>4, <2>5 DEF Bill, Ledger
    <3>2. PICK tok \in Nat, pc \in Pcs : tok = l.job[m].token /\ pc = "fetch"
      BY <3>1, JobFields DEF Pcs
    <3>3. Moves(p, m, pc, tok)
      BY <2>5, <3>2, TakeMoves
    <3>4. NoNewCalls
      BY <3>2, <3>3, MovesCallNobody
    <3>5. Spends(p, m)
      BY <2>4, <2>5 DEF Spends, Bill, Wrote
    <3> QED
      BY <3>4, <3>5 DEF Steady
  <2> QED
    BY <1>2, <2>1, <2>2, <2>3, <2>5 DEF ReserveDefault, l
<1>3. CASE PlaceDefault(p, m)
  <2>1. CASE GiveUp(p, m, FALSE) /\ UNCHANGED ledgerVars
    BY <2>1, GiveUpSteady
  <2>2. CASE Refused(p, m, Verdict(p, m, Active))
    BY <2>2, RefusedSteady
  <2>3. CASE Proceed(p, m, k, "upload")
    <3>1. Bill(led, m)
      BY Types DEF Bill, Equal
    <3>2. Bill(k, m)
      BY <3>1, KeyedBill
    <3> HIDE DEF k
    <3> QED
      BY <2>3, <3>2, ProceedSteady DEF Pcs
  <2> QED
    BY <1>3, <2>1, <2>2, <2>3 DEF PlaceDefault
<1> QED
  BY <1>1, <1>2, <1>3

\* A failed delivery.
LEMMA FailedSteady ==
    ASSUME TypeOK, NEW p \in Nodes, NEW s \in Slots, Failed(p, s)
    PROVE  Steady(p, s)
<1> DEFINE l == Set(s, [led.job[s] EXCEPT !.state = "failed"])
<1>1. CASE Write(p, led) /\ GiveUp(p, s, FALSE)
  BY <1>1, GiveUpSteady
<1>2. CASE Leave(p, s, l)
  <2>1. Bill(l, s)
    BY StateBill DEF States, Orphan
  <2> HIDE DEF l
  <2> QED
    BY <1>2, <2>1, LeaveSteady
<1> QED
  BY <1>1, <1>2 DEF Failed

\* Generated music after its submission.
LEMMA ResumeSteady ==
    ASSUME TypeOK, NEW p \in Nodes, NEW m \in Slots, Resume(p, m)
    PROVE  Steady(p, m)
<1>1. CASE Write(p, led) /\ GiveUp(p, m, TRUE)
  BY <1>1, GiveUpSteady
<1>2. CASE GoOn(p, m, Rotated(p, m), "poll")
  <2>1. PICK j \in Job : j = led.job[m] /\ p \in Nat
    BY Types
  <2>2. PICK t \in Nat : t = j.token + 1
    BY JobFields
  <2>3. PICK r \in Job : r = [j EXCEPT !.token = t, !.owner = p, !.lapsed = FALSE, !.state = "processing"]
                         /\ r.reserved = j.reserved
    <3>1. [j EXCEPT !.token = t, !.owner = p, !.lapsed = FALSE, !.state = "processing"] \in Job /\ [j EXCEPT !.token = t, !.owner = p, !.lapsed = FALSE, !.state = "processing"].reserved = j.reserved
      BY <2>1 DEF Job, States, Active
    <3> QED
      BY <3>1
  <2>4. Rotated(p, m) = Set(m, r)
    BY <2>1, <2>2, <2>3 DEF Rotated
  <2>5. Bill(Rotated(p, m), m)
    BY <2>1, <2>3, <2>4, SetBill
  <2> QED
    BY <1>2, <2>5, GoOnSteady DEF Pcs
<1> QED
  BY <1>1, <1>2 DEF Resume

\* Settling, failing and renewing leave the amounts alone.
LEMMA PollSteady ==
    ASSUME TypeOK, NEW p \in Nodes, NEW m \in Slots, Poll(p, m)
    PROVE  Steady(p, m)
<1>1. PICK j \in Job : j = led.job[m]
  BY Types
<1>2. CASE GiveUp(p, m, FALSE) /\ UNCHANGED ledgerVars
  BY <1>2, GiveUpSteady
<1>3. CASE Refused(p, m, Verdict(p, m, {"submitted", "processing", "uploaded"}))
  BY <1>3, RefusedSteady
<1>4. CASE GoOn(p, m, Settled(m), "fetch")
  <2>1. PICK r \in Job : r = [j EXCEPT !.settled = TRUE] /\ r.reserved = j.reserved
    <3>1. [j EXCEPT !.settled = TRUE] \in Job /\ [j EXCEPT !.settled = TRUE].reserved = j.reserved
      BY DEF Job
    <3> QED
      BY <3>1
  <2>2. Bill(Settled(m), m)
    BY <1>1, <2>1, SetBill DEF Settled
  <2> QED
    BY <1>4, <2>2, GoOnSteady DEF Pcs
<1>5. CASE Commit(p, led) /\ GiveUp(p, m, Verdict(p, m, Active) = "stop")
  BY <1>5, GiveUpSteady
<1>6. CASE Leave(p, m, Set(m, [led.job[m] EXCEPT !.state = "failed"]))
  <2>1. PICK l : l = Set(m, [led.job[m] EXCEPT !.state = "failed"])
    OBVIOUS
  <2>2. Bill(l, m)
    BY <2>1, StateBill DEF States, Orphan
  <2> QED
    BY <1>6, <2>1, <2>2, LeaveSteady
<1>7. CASE \E stop \in BOOLEAN : Write(p, led) /\ GiveUp(p, m, stop)
  BY <1>7, GiveUpSteady
<1> DEFINE new == [led.job[m] EXCEPT !.lapsed = FALSE]
<1>8. CASE \/ Commit(p, Set(m, new)) /\ UNCHANGED nodeVars
           \/ Write(p, Set(m, new)) /\ UNCHANGED task /\ node' = [node EXCEPT ![p].stop = TRUE]
  <2>1. PICK r \in Job : r = [j EXCEPT !.lapsed = FALSE] /\ r.reserved = j.reserved
    <3>1. [j EXCEPT !.lapsed = FALSE] \in Job /\ [j EXCEPT !.lapsed = FALSE].reserved = j.reserved
      BY DEF Job
    <3> QED
      BY <3>1
  <2>2. PICK l : l = Set(m, new)
    OBVIOUS
  <2>3. Bill(l, m)
    BY <1>1, <2>1, <2>2, SetBill
  <2> HIDE DEF new
  <2>4. Spends(p, m)
    BY <1>8, <2>2, <2>3 DEF Spends, Bill, Wrote
  <2>5. NoNewCalls
    BY <1>8 DEF NoNewCalls, nodeVars
  <2> QED
    BY <2>4, <2>5 DEF Steady
<1> QED
  <2>1. CASE song[m] = "running" /\ ~node[p].stop
    BY <1>2, <1>7, <1>8, <2>1 DEF Poll
  <2>2. CASE ~(song[m] = "running" /\ ~node[p].stop)
    BY <1>2, <1>3, <1>4, <1>5, <1>6, <2>2 DEF Poll
  <2> QED
    BY <2>1, <2>2

\* So does fixing the key.
LEMMA PlacePaidSteady ==
    ASSUME TypeOK, NEW p \in Nodes, NEW m \in Slots, PlacePaid(p, m)
    PROVE  Steady(p, m)
<1>1. CASE GiveUp(p, m, FALSE) /\ UNCHANGED ledgerVars
  BY <1>1, GiveUpSteady
<1>2. CASE Failed(p, m)
  BY <1>2, FailedSteady
<1>3. CASE Proceed(p, m, Keyed(p, led, m), "upload")
  <2>1. Bill(led, m)
    BY Types DEF Bill, Equal
  <2>2. PICK k : k = Keyed(p, led, m)
    OBVIOUS
  <2>3. Bill(k, m)
    BY <2>1, <2>2, KeyedBill
  <2> QED
    BY <1>3, <2>2, <2>3, ProceedSteady DEF Pcs
<1> QED
  BY <1>1, <1>2, <1>3 DEF PlacePaid

\* The upload is recorded.
LEMMA RecordSteady ==
    ASSUME TypeOK, NEW p \in Nodes, NEW s \in Slots, RecordUpload(p, s)
    PROVE  Steady(p, s)
<1>1. CASE Refused(p, s, Verdict(p, s, Active))
  BY <1>1, RefusedSteady
<1>2. CASE Failed(p, s)
  BY <1>2, FailedSteady
<1>3. CASE GoOn(p, s, Uploaded(s), "done")
  <2>1. PICK j \in Job : j = led.job[s]
    BY Types
  <2>2. PICK b \in BOOLEAN : b = (led.job[s].settled \/ s \in DefaultMusic)
    OBVIOUS
  <2>3. PICK r \in Job : r = [j EXCEPT !.state = "uploaded", !.settled = b] /\ r.reserved = j.reserved
    <3>1. [j EXCEPT !.state = "uploaded", !.settled = b] \in Job /\ [j EXCEPT !.state = "uploaded", !.settled = b].reserved = j.reserved
      BY DEF Job, States, Orphan
    <3> QED
      BY <3>1
  <2>4. Uploaded(s) = Set(s, r)
    BY <2>1, <2>2, <2>3 DEF Uploaded
  <2>5. Bill(Uploaded(s), s)
    BY <2>1, <2>3, <2>4, SetBill
  <2> QED
    BY <1>3, <2>5, GoOnSteady DEF Pcs
<1> QED
  BY <1>1, <1>2, <1>3 DEF RecordUpload

\* Every step of the delivery.
LEMMA DeliverySteady ==
    ASSUME TypeOK, Budget, NEW p \in Nodes, NEW s \in Slots, Delivery(p, s)
    PROVE  Steady(p, s)
<1>1. CASE UseMusicAgain(p, s)
  BY <1>1, GotoSteady DEF UseMusicAgain, Pcs
<1>2. CASE UploadFailed(p, s)
  BY <1>2, FailedSteady DEF UploadFailed
<1>3. CASE BeginScene(p, s) \/ PlaceNarration(p, s)
  BY <1>3, BeginSceneSteady, PlaceNarrationSteady
<1>4. CASE ReadSource(p, s) \/ ReserveDefault(p, s) \/ PlaceDefault(p, s)
  BY <1>4, DefaultSteady
<1>5. CASE Resume(p, s) \/ Poll(p, s) \/ PlacePaid(p, s)
  BY <1>5, ResumeSteady, PollSteady, PlacePaidSteady
<1>6. CASE RecordUpload(p, s)
  BY <1>6, RecordSteady
<1> QED
  BY <1>1, <1>2, <1>3, <1>4, <1>5, <1>6 DEF Delivery

\* The upload writes no row.
LEMMA UploadSteady ==
    ASSUME TypeOK, NEW p \in Nodes, NEW s \in Slots, Upload(p, s), UNCHANGED ledgerVars
    PROVE  Steady(p, s)
<1>1. GiveUp(p, s, FALSE) \/ \E pc \in {"stored", "unsent"} : Goto(p, s, pc)
  BY DEF Upload
<1>2. CASE GiveUp(p, s, FALSE)
  BY <1>2, GiveUpSteady
<1>3. CASE \E pc \in {"stored", "unsent"} : Goto(p, s, pc)
  <2>1. PICK pc \in Pcs \ {"call"} : Goto(p, s, pc)
    BY <1>3 DEF Pcs
  <2> QED
    BY <2>1, GotoSteady
<1> QED
  BY <1>1, <1>2, <1>3

-----------------------------------------------------------------------------
(* The reservation and the call. *)

\* The price of a call is committed before the task may call.
LEMMA SubmitBudget ==
    ASSUME TypeOK, TypeOK', Budget, NEW p \in Nodes, NEW s \in Slots, Submit(p, s), charged' = charged
    PROVE  Budget'
<1> DEFINE v == Reservable(p, s)
           l == Reserved(p, s, "submitting")
<1>1. ASSUME Steady(p, s) PROVE Budget'
  <2>1. Orderly
    BY <1>1, SpendsIsOrderly DEF Steady
  <2>2. \A t \in Slots : charged'[t] <= charged[t]
    BY DEF TypeOK
  <2> QED
    BY <1>1, <2>1, <2>2, StaysCovered DEF Steady
<1>2. CASE GiveUp(p, s, FALSE) /\ UNCHANGED ledgerVars
  BY <1>1, <1>2, GiveUpSteady
<1>3. CASE Refused(p, s, v)
  BY <1>1, <1>3, RefusedSteady
<1>4. CASE GiveUp(p, s, v = "stop") /\ Commit(p, led)
  <2>1. (v = "stop") \in BOOLEAN
    OBVIOUS
  <2> QED
    BY <1>1, <1>4, <2>1, GiveUpSteady
<1>5. v = "ok" => l \in Ledger /\ Pays(l, s)
  BY ReservedBill DEF States, Active
<1> HIDE DEF l, v
<1>6. CASE v = "ok" /\ CommitFails(p, l) /\ GiveUp(p, s, TRUE)
  <2>1. Spends(p, s)
    BY <1>5, <1>6 DEF Spends, Wrote
  <2>2. Moves(p, s, "gone", task[p][s].token)
    BY <1>6, GiveUpMoves
  <2> QED
    BY <1>1, <2>1, <2>2, MovesCallNobody DEF Steady
<1>7. CASE /\ v = "ok" /\ Commit(p, l)
           /\ task' = [task EXCEPT ![p][s].pc = "call", ![p][s].token = l.job[s].token]
           /\ UNCHANGED node
  <2>1. Spends(p, s)
    BY <1>5, <1>7 DEF Spends, Wrote
  <2>2. Orderly
    BY <2>1, SpendsIsOrderly
  <2>3. l.job[s] \in Job
    BY <1>5, <1>7 DEF Ledger
  <2>4. PICK tok \in Nat, pc \in Pcs : tok = l.job[s].token /\ pc = "call"
    BY <2>3, JobFields DEF Pcs
  <2>5. Moves(p, s, pc, tok)
    BY <1>7, <2>4, TakeMoves
  <2>6. \A q \in Nodes : \A t \in Slots : task'[q][t].pc = "call" => task[q][t].pc = "call" \/ (q = p /\ t = s)
    <3> SUFFICES ASSUME NEW q \in Nodes, NEW t \in Slots, task'[q][t].pc = "call", ~(q = p /\ t = s)
                 PROVE  task[q][t].pc = "call"
      OBVIOUS
    <3>1. CASE q # p
      BY <2>5, <3>1 DEF Moves
    <3>2. CASE q = p /\ t # s
      BY <2>5, <3>2 DEF Moves, Aside
    <3> QED
      BY <3>1, <3>2
  <2>7. ASSUME NEW t \in Slots, t # s PROVE Covers(t)'
    <3>1. charged'[t] <= charged[t]
      BY DEF TypeOK
    <3>2. \A q \in Nodes : task'[q][t].pc = "call" => task[q][t].pc = "call"
      BY <2>6, <2>7
    <3> QED
      BY <2>2, <3>1, <3>2, CoversStays DEF Orderly, Grows, Budget
  <2>8. Covers(s)'
    <3>1. PICK C \in SUBSET Nodes, D \in SUBSET Nodes : C = Callers(s)' /\ D = Callers(s)
      BY CallersNext DEF Callers
    <3>2. C \subseteq D \cup {p} /\ IsFiniteSet(D)
      <4>1. C = {q \in Nodes : task'[q][s].pc = "call"} /\ D = {q \in Nodes : task[q][s].pc = "call"}
        BY <3>1, CallersNext DEF Callers
      <4> QED
        BY <2>6, <3>1, <4>1, CallersCounted
    <3>3. IsFiniteSet(D \cup {p}) /\ Cardinality(D \cup {p}) \in {Cardinality(D), Cardinality(D) + 1}
      BY <3>2, FS_AddElement
    <3>4. Cardinality(C) <= Cardinality(D \cup {p})
      BY <3>2, <3>3, FS_Subset
    <3>5. Cardinality(C) \in Nat /\ Cardinality(D) \in Nat
      BY <3>1, CallersNext, CallersCounted
    <3>6. charged'[s] = charged[s] /\ charged[s] \in Nat /\ Cost(s) \in Nat
      BY SlotFacts DEF TypeOK
    <3>7. charged'[s] + Cardinality(C) <= charged[s] + Cardinality(D) + 1
      BY <3>3, <3>4, <3>5, <3>6
    <3>8. disk.job[s].reserved + 1 * Cost(s) <= disk'.job[s].reserved
      <4>1. disk \in Ledger /\ led \in Ledger
        BY DEF TypeOK
      <4>2. PICK a \in Nat, b \in Nat : a = disk.job[s].reserved /\ b = led.job[s].reserved
        BY <4>1, AmountsType
      <4>3. disk'.job[s].reserved = b + Cost(s) /\ a <= b
        BY <1>5, <1>7, <4>2 DEF Commit, Pays, Budget
      <4> QED
        BY <3>6, <4>2, <4>3
    <3>9. charged'[s] + Cardinality(Callers(s)') <= charged[s] + Cardinality(Callers(s)) + 1
      BY <3>1, <3>7
    <3>10. Covers(s)
      BY DEF Budget
    <3> QED
      BY <3>8, <3>9, <3>10, CoversStep
  <2>9. \A t \in Slots : Covers(t)'
    BY <2>7, <2>8
  <2> QED
    BY <2>2, <2>9 DEF Budget, Orderly
<1> QED
  BY <1>2, <1>3, <1>4, <1>6, <1>7 DEF Submit, Proceed, l, v

\* A caller that has called is no caller any more, whatever the provider made of it.
LEMMA CallBudget ==
    ASSUME TypeOK, TypeOK', Budget, NEW p \in Nodes, NEW s \in Slots, Call(p, s), UNCHANGED ledgerVars
    PROVE  Budget'
<1>1. led' = led /\ disk' = disk /\ task[p][s].pc = "call" /\ charged \in [Slots -> Nat]
  BY DEF Call, At, ledgerVars, TypeOK
<1>2. PICK pc \in Pcs \ {"call"}, n \in {0, 1} : Goto(p, s, pc) /\ charged' = [charged EXCEPT ![s] = @ + n]
  <2>1. CASE Goto(p, s, "answered") /\ charged' = [charged EXCEPT ![s] = @ + 1]
    BY <2>1 DEF Pcs
  <2>2. CASE Goto(p, s, "limited") /\ UNCHANGED providerVars
    <3>1. charged' = [charged EXCEPT ![s] = @ + 0]
      BY <1>1, <2>2 DEF providerVars
    <3> QED
      BY <2>2, <3>1 DEF Pcs
  <2>3. CASE Goto(p, s, "lost") /\ \E n \in {0, 1} : charged' = [charged EXCEPT ![s] = @ + n]
    BY <2>3 DEF Pcs
  <2> QED
    BY <2>1, <2>2, <2>3 DEF Call
<1>3. Moves(p, s, pc, task[p][s].token)
  BY <1>2, GotoMoves
<1>4. NoNewCalls /\ task'[p][s].pc # "call"
  BY <1>2, <1>3, MovesCallNobody DEF Moves
<1>5. Orderly
  BY <1>1, SpendsIsOrderly DEF Spends
<1>6. ASSUME NEW t \in Slots, t # s PROVE Covers(t)'
  <2>1. charged'[t] <= charged[t]
    BY <1>1, <1>2, <1>6
  <2> QED
    BY <1>4, <1>5, <2>1, CoversStays DEF NoNewCalls, Orderly, Grows, Budget
<1>7. Covers(s)'
  <2>1. PICK C \in SUBSET Nodes, D \in SUBSET Nodes : C = Callers(s)' /\ D = Callers(s)
    BY CallersNext DEF Callers
  <2>2. C \subseteq D \ {p} /\ IsFiniteSet(D) /\ p \in D
    <3>1. C = {q \in Nodes : task'[q][s].pc = "call"} /\ D = {q \in Nodes : task[q][s].pc = "call"}
      BY <2>1, CallersNext DEF Callers
    <3> QED
      BY <1>1, <1>4, <2>1, <3>1, CallersCounted DEF NoNewCalls
  <2>3. IsFiniteSet(D \ {p}) /\ Cardinality(D \ {p}) = Cardinality(D) - 1
    BY <2>2, FS_RemoveElement
  <2>4. Cardinality(C) <= Cardinality(D \ {p})
    BY <2>2, <2>3, FS_Subset
  <2>5. Cardinality(C) \in Nat /\ Cardinality(D) \in Nat
    BY <2>1, CallersNext, CallersCounted
  <2>6. charged[s] \in Nat /\ charged'[s] = charged[s] + n /\ Cost(s) \in Nat
    BY <1>1, <1>2, SlotFacts
  <2>7. charged'[s] + Cardinality(C) <= charged[s] + Cardinality(D) + 0
    BY <2>3, <2>4, <2>5, <2>6
  <2>8. disk.job[s].reserved + 0 * Cost(s) <= disk'.job[s].reserved
    <3>1. disk \in Ledger
      BY DEF TypeOK
    <3>2. disk.job[s].reserved \in Nat
      BY <3>1, AmountsType
    <3>3. 0 * Cost(s) = 0
      BY <2>6
    <3> QED
      BY <1>1, <3>2, <3>3
  <2>9. charged'[s] + Cardinality(Callers(s)') <= charged[s] + Cardinality(Callers(s)) + 0
    BY <2>1, <2>7
  <2>10. Covers(s)
    BY DEF Budget
  <2> QED
    BY <2>8, <2>9, <2>10, CoversStep
<1>8. \A t \in Slots : Covers(t)'
  BY <1>6, <1>7
<1> QED
  BY <1>5, <1>8 DEF Budget, Orderly

\* A task step that is not a reservation or a call.
LEMMA SteadyBudget ==
    ASSUME TypeOK, TypeOK', Budget, NEW p \in Nodes, NEW s \in Slots, Steady(p, s), charged' = charged
    PROVE  Budget'
<1>1. Orderly
  BY SpendsIsOrderly DEF Steady
<1>2. \A t \in Slots : charged'[t] <= charged[t]
  BY DEF TypeOK
<1> QED
  BY <1>1, <1>2, StaysCovered DEF Steady

\* Every step of a task keeps the budget.
LEMMA TaskBudget ==
    ASSUME TypeOK, TypeOK', Budget, NEW p \in Nodes, NEW s \in Slots, Task(p, s)
    PROVE  Budget'
<1>1. CASE Submit(p, s) /\ UNCHANGED providerVars
  BY <1>1, SubmitBudget DEF providerVars
<1>2. CASE (Answered(p, s) \/ Limited(p, s) \/ Lost(p, s)) /\ UNCHANGED providerVars
  <2>1. Steady(p, s)
    BY <1>2, AnsweredSteady, LimitedSteady, LostSteady
  <2> QED
    BY <1>2, <2>1, SteadyBudget DEF providerVars
<1>3. CASE Call(p, s) /\ UNCHANGED ledgerVars
  BY <1>3, CallBudget
<1>4. CASE Delivery(p, s) /\ UNCHANGED providerVars
  <2>1. Steady(p, s)
    BY <1>4, DeliverySteady
  <2> QED
    BY <1>4, <2>1, SteadyBudget DEF providerVars
<1>5. CASE Upload(p, s) /\ UNCHANGED <<ledgerVars, providerVars>>
  <2>1. Steady(p, s)
    BY <1>5, UploadSteady DEF ledgerVars
  <2> QED
    BY <1>5, <2>1, SteadyBudget DEF providerVars
<1> QED
  BY <1>1, <1>2, <1>3, <1>4, <1>5 DEF Task, Purchase

-----------------------------------------------------------------------------
(* The run around the node, the provider and the maintenance. *)

\* Nothing is reserved, at most something is rolled back or voided.
LEMMA AroundBudget ==
    ASSUME TypeOK, TypeOK', Budget, NoNewCalls, \A t \in Slots : charged'[t] <= charged[t],
           Equal(disk', disk), Equal(led', led) \/ Equal(led', disk)
    PROVE  Budget'
<1>1. Books(disk') /\ Books(led')
  BY SameBooks DEF Budget
<1>2. Books(disk)' /\ Books(led)'
  BY <1>1 DEF Books, Amounts
<1>3. \A t \in Slots : disk.job[t].reserved \in Nat
  <2>1. disk \in Ledger
    BY DEF TypeOK
  <2> QED
    BY <2>1, AmountsType
<1>4. Orderly
  BY <1>2, <1>3 DEF Orderly, Grows, Equal, Budget
<1> QED
  BY <1>4, StaysCovered

\* The same when tasks and charges stay.
LEMMA StillBudget ==
    ASSUME TypeOK, TypeOK', Budget, task' = task, charged' = charged,
           Equal(disk', disk), Equal(led', led) \/ Equal(led', disk)
    PROVE  Budget'
<1>1. NoNewCalls
  BY DEF NoNewCalls
<1>2. \A t \in Slots : charged'[t] <= charged[t]
  BY DEF TypeOK
<1> QED
  BY <1>1, <1>2, AroundBudget

\* What an ending session has not committed is committed or dropped as a whole.
LEMMA EndBudget ==
    ASSUME TypeOK, TypeOK', Budget, NEW p \in Nodes, Return(p) \/ Crash(p)
    PROVE  Budget'
<1>1. task' = task /\ charged' = charged
  BY DEF Return, Crash, providerVars
<1>2. \/ led' = led /\ disk' = disk
      \/ Commit(p, led)
      \/ led' = disk /\ disk' = disk
  BY DEF Return, Crash, Commit, ledgerVars
<1>3. CASE disk' = disk /\ led' \in {led, disk}
  BY <1>1, <1>3, StillBudget DEF Equal
<1>4. CASE Commit(p, led)
  <2>1. node[p] \in NodeRow
    BY Types
  <2>2. PICK s \in Slots : s = node[p].music
    BY <2>1 DEF NodeRow, Slots
  <2>3. Steady(p, s)
    BY <1>1, <1>4, StillSpends DEF Steady, NoNewCalls
  <2> QED
    BY <1>1, <2>3, SteadyBudget
<1> QED
  BY <1>2, <1>3, <1>4

\* A new attempt begins with no caller.
LEMMA TakeOverBudget ==
    ASSUME TypeOK, TypeOK', Budget, TakeOver
    PROVE  Budget'
<1>1. led' = led /\ disk' = disk /\ charged' = charged
  BY DEF TakeOver, ledgerVars, providerVars
<1>2. PICK m \in Music : task' = [task EXCEPT ![run.attempt + 1] = FreshTask(m)]
  BY DEF TakeOver
<1>3. task \in [Nodes -> [Slots -> TaskRow]]
  BY Types
<1>4. \A t \in Slots : FreshTask(m)[t].pc # "call"
  BY DEF FreshTask
<1>5. \A q \in Nodes : task'[q] = task[q] \/ task'[q] = FreshTask(m)
  BY <1>2, <1>3
<1>6. NoNewCalls
  BY <1>4, <1>5 DEF NoNewCalls
<1>7. \A t \in Slots : charged'[t] <= charged[t]
  BY <1>1 DEF TypeOK
<1>8. Equal(disk', disk) /\ Equal(led', led)
  BY <1>1 DEF Equal
<1> QED
  BY <1>6, <1>7, <1>8, AroundBudget

\* A column other than the amount.
LEMMA LapseIsEqual ==
    ASSUME NEW l \in Ledger, NEW s \in Slots
    PROVE  /\ Equal([l EXCEPT !.job[s].lapsed = TRUE], l)
           /\ Equal([l EXCEPT !.job[s].state = "cleaned"], l)
<1>1. PICK j \in Job : j = l.job[s]
  BY DEF Ledger
<1>2. l.job \in [Slots -> Job]
  BY DEF Ledger
<1>3. ASSUME NEW r, r.reserved = j.reserved PROVE Equal([l EXCEPT !.job[s] = r], l)
  <2>1. PICK f : f = [l.job EXCEPT ![s] = r]
    OBVIOUS
  <2>2. \A t \in Slots : f[t].reserved = l.job[t].reserved
    BY <1>1, <1>2, <1>3, <2>1
  <2>3. PICK k : k = [l EXCEPT !.job = f]
    OBVIOUS
  <2>4. k.job = f /\ k.budget = l.budget
    BY <2>3 DEF Ledger
  <2>5. [l EXCEPT !.job[s] = r] = k
    BY <2>1, <2>3
  <2> QED
    BY <2>2, <2>4, <2>5 DEF Equal
<1>4. [j EXCEPT !.lapsed = TRUE].reserved = j.reserved /\ [j EXCEPT !.state = "cleaned"].reserved = j.reserved
  BY DEF Job
<1>5. /\ [l EXCEPT !.job[s].lapsed = TRUE] = [l EXCEPT !.job[s] = [j EXCEPT !.lapsed = TRUE]]
      /\ [l EXCEPT !.job[s].state = "cleaned"] = [l EXCEPT !.job[s] = [j EXCEPT !.state = "cleaned"]]
  BY <1>1
<1> QED
  BY <1>3, <1>4, <1>5

\* A lapsed row keeps its amount.
LEMMA JobLapsesBudget ==
    ASSUME TypeOK, TypeOK', Budget, NEW s \in Slots, JobLapses(s)
    PROVE  Budget'
<1>1. /\ task' = task /\ charged' = charged /\ led \in Ledger /\ disk \in Ledger
      /\ disk' = [disk EXCEPT !.job[s].lapsed = TRUE] /\ led' = [led EXCEPT !.job[s].lapsed = TRUE]
  BY DEF JobLapses, nodeVars, providerVars, TypeOK
<1>2. Equal(disk', disk) /\ Equal(led', led)
  BY <1>1, LapseIsEqual
<1> QED
  BY <1>1, <1>2, StillBudget

\* A rewritten ledger with the same amounts.
LEMMA RewriteIsEqual ==
    ASSUME NEW l \in Ledger, NEW f, \A t \in Slots : f[t].reserved = l.job[t].reserved
    PROVE  Equal([l EXCEPT !.job = f], l)
<1>1. PICK k : k = [l EXCEPT !.job = f]
  OBVIOUS
<1>2. k.job = f /\ k.budget = l.budget
  BY <1>1 DEF Ledger
<1> QED
  BY <1>1, <1>2 DEF Equal

\* Maintenance changes states, never amounts.
LEMMA MaintenanceBudget ==
    ASSUME TypeOK, TypeOK', Budget, RetentionPasses \/ Reap \/ \E s \in Slots : Clean(s)
    PROVE  Budget'
<1>1. task' = task /\ charged' = charged /\ led' = disk' /\ disk \in Ledger
      /\ \A s \in Slots : disk.job[s] \in Job
  BY Types DEF RetentionPasses, Reap, Clean, nodeVars, providerVars
<1>2. Equal(disk', disk)
  <2>1. CASE RetentionPasses
    <3> DEFINE f == [s \in Slots |-> [disk.job[s] EXCEPT !.lapsed = TRUE]]
    <3>1. ASSUME NEW s \in Slots PROVE f[s].reserved = disk.job[s].reserved
      <4>1. PICK j \in Job : j = disk.job[s]
        BY <1>1
      <4>2. [j EXCEPT !.lapsed = TRUE].reserved = j.reserved
        BY DEF Job
      <4> QED
        BY <4>1, <4>2
    <3>2. disk' = [disk EXCEPT !.job = f]
      BY <2>1 DEF RetentionPasses
    <3> HIDE DEF f
    <3> QED
      BY <1>1, <3>1, <3>2, RewriteIsEqual
  <2>2. CASE Reap
    <3> DEFINE f == [s \in Slots |->
                       IF ~Abandoned(s, disk.job[s]) THEN disk.job[s]
                       ELSE [disk.job[s] EXCEPT !.state = "failed",
                                                !.settled = @ \/ disk.job[s].key = NoKey]]
    <3>1. ASSUME NEW s \in Slots PROVE f[s].reserved = disk.job[s].reserved
      <4>1. PICK j \in Job : j = disk.job[s]
        BY <1>1
      <4>2. PICK b : b = (j.settled \/ j.key = NoKey)
        OBVIOUS
      <4>3. [j EXCEPT !.state = "failed", !.settled = b].reserved = j.reserved
        BY DEF Job
      <4>4. f[s] = disk.job[s] \/ f[s] = [j EXCEPT !.state = "failed", !.settled = b]
        BY <4>1, <4>2
      <4> QED
        BY <4>1, <4>3, <4>4
    <3>2. disk' = [disk EXCEPT !.job = f]
      BY <2>2 DEF Reap
    <3> HIDE DEF f
    <3> QED
      BY <1>1, <3>1, <3>2, RewriteIsEqual
  <2>3. CASE \E s \in Slots : Clean(s)
    BY <1>1, <2>3, LapseIsEqual DEF Clean
  <2> QED
    BY <2>1, <2>2, <2>3
<1>3. Equal(led', disk)
  BY <1>1, <1>2
<1> QED
  BY <1>1, <1>2, <1>3, StillBudget

\* A failed generation takes its charge back.
LEMMA SongEndsBudget ==
    ASSUME TypeOK, TypeOK', Budget, NEW m \in PaidMusic, SongEnds(m)
    PROVE  Budget'
<1>1. led' = led /\ disk' = disk /\ task' = task
  BY DEF SongEnds, ledgerVars, nodeVars
<1>2. charged \in [Slots -> Nat] /\ m \in Slots
  BY DEF TypeOK, Slots, Music
<1>3. charged' = charged \/ charged' = [charged EXCEPT ![m] = @ - 1]
  BY DEF SongEnds
<1>4. \A t \in Slots : charged'[t] <= charged[t]
  BY <1>2, <1>3
<1>5. NoNewCalls /\ Equal(disk', disk) /\ Equal(led', led)
  BY <1>1 DEF NoNewCalls, Equal
<1> QED
  BY <1>4, <1>5, AroundBudget

\* At first nothing is reserved and nothing charged.
LEMMA BudgetInitially == Init => Budget
<1> SUFFICES ASSUME Init PROVE Budget
  OBVIOUS
<1>1. TypeOK /\ led = disk /\ disk = [job |-> [s \in Slots |-> NoJob], budget |-> 0]
      /\ charged = [s \in Slots |-> 0]
  BY Initially DEF Init, IInv, Objects
<1>2. NoJob.reserved = 0
  BY DEF NoJob
<1>3. disk \in Ledger /\ disk.budget = 0 /\ \A s \in Slots : disk.job[s].reserved = 0
  BY <1>1, <1>2 DEF TypeOK
<1>4. Books(disk)
  <2>1. PICK f \in [Slots -> Nat] : f = Amounts(disk) /\ \A s \in Slots : f[s] = 0
    BY <1>3, AmountsType
  <2>2. Sums(f, Slots, 0)
    BY <2>1, Finite, SumOfZeros
  <2>3. Cap \in Nat
    BY AudioAssumption DEF AudioAssumption
  <2> QED
    BY <1>3, <2>1, <2>2, <2>3 DEF Books
<1>5. ASSUME NEW s \in Slots PROVE Covers(s)
  <2>1. PICK m \in Music : task = [p \in Nodes |-> FreshTask(m)]
    BY DEF Init
  <2>2. \A p \in Nodes : task[p][s].pc # "call"
    BY <2>1 DEF FreshTask
  <2>3. Callers(s) = {}
    BY <2>2 DEF Callers
  <2>4. Cardinality(Callers(s)) = 0
    BY <2>3, FS_EmptySet
  <2>5. charged[s] = 0 /\ Cost(s) \in Nat
    BY <1>1, SlotFacts
  <2>6. (0 + 0) * Cost(s) = 0
    BY <2>5
  <2> QED
    BY <1>3, <2>4, <2>5, <2>6 DEF Covers
<1> QED
  BY <1>1, <1>3, <1>4, <1>5 DEF Budget

\* Every step keeps the budget.
LEMMA BudgetStep == IInv /\ Budget /\ [Next]_vars => Budget'
<1> SUFFICES ASSUME IInv, Budget, [Next]_vars PROVE Budget'
  OBVIOUS
<1>1. TypeOK /\ TypeOK'
  BY EveryStep DEF Good, IInv, Objects
<1>2. ASSUME NEW p \in Nodes, NEW s \in Slots, Task(p, s) PROVE Budget'
  BY <1>1, <1>2, TaskBudget
<1>3. ASSUME NEW p \in Nodes, Return(p) \/ Crash(p) PROVE Budget'
  BY <1>1, <1>3, EndBudget
<1>4. CASE task' = task /\ charged' = charged /\ led' = led /\ disk' = disk
  BY <1>1, <1>4, StillBudget DEF Equal
<1>5. CASE (\E p \in Nodes : NodeDeadline(p)) \/ CancelRun \/ (\E k \in late : LateUpload(k)) \/ UNCHANGED vars
  BY <1>4, <1>5 DEF NodeDeadline, CancelRun, LateUpload, vars, ledgerVars, nodeVars, providerVars
<1>6. CASE TakeOver
  BY <1>1, <1>6, TakeOverBudget
<1>7. CASE \E s \in Slots : JobLapses(s)
  BY <1>1, <1>7, JobLapsesBudget
<1>8. CASE \E m \in PaidMusic : SongEnds(m)
  BY <1>1, <1>8, SongEndsBudget
<1>9. CASE RetentionPasses \/ Reap \/ \E s \in Slots : Clean(s)
  BY <1>1, <1>9, MaintenanceBudget
<1> QED
  BY <1>2, <1>3, <1>5, <1>6, <1>7, <1>8, <1>9 DEF Next

\* Whatever fails, also a commit that reached the database and reported failure: before a
\* provider is called its price is in the committed budget (`reserve_job' and
\* `_commit_ledger' before the submission), so all charges together stay within the
\* budget, the budget within `max_cost_per_run', and the budget row is the sum of the rows.
THEOREM ChargesReserved == Spec => []ChargesAreReserved
<1>1. IInv /\ Budget => ChargesAreReserved
  <2> SUFFICES ASSUME IInv, Budget PROVE ChargesAreReserved
    OBVIOUS
  <2>1. disk \in Ledger /\ charged \in [Slots -> Nat]
    BY DEF IInv, Objects, TypeOK
  <2>2. Sums(Amounts(disk), Slots, disk.budget) /\ disk.budget <= Cap
    BY DEF Budget, Books
  <2>3. ReservedTotal = disk.budget
    BY <2>2, Finite, ReservedTotalSums
  <2>4. Amounts(disk) \in [Slots -> Nat]
    BY <2>1, AmountsType
  <2>5. ASSUME NEW s \in Slots PROVE Dues[s] \in Nat /\ Dues[s] <= Amounts(disk)[s]
    <3>1. PICK a \in Nat, y \in Nat, c \in Nat : a = charged[s] /\ y = Cardinality(Callers(s)) /\ c = Cost(s)
      BY <2>1, CallersCounted, SlotFacts
    <3>2. PICK r \in Nat : r = Amounts(disk)[s] /\ r = disk.job[s].reserved
      BY <2>1, AmountsType
    <3>3. (a + y) * c <= r
      BY <3>1, <3>2 DEF Budget, Covers
    <3>4. a + y \in Nat /\ a <= a + y
      OBVIOUS
    <3>5. a * c <= (a + y) * c /\ a * c \in Nat /\ (a + y) * c \in Nat
      BY <3>4, Times
    <3>6. Dues[s] = a * c
      BY <3>1 DEF Dues
    <3> QED
      BY <3>2, <3>3, <3>5, <3>6
  <2>6. Dues \in [Slots -> Nat]
    <3>1. Dues = [s \in Slots |-> Dues[s]]
      BY DEF Dues
    <3> QED
      BY <2>5, <3>1
  <2>7. PICK n \in Nat : Sums(Dues, Slots, n)
    BY <2>6, Finite, SumExists
  <2>8. n <= disk.budget
    BY <2>2, <2>4, <2>5, <2>6, <2>7, Finite, SumIsMonotone
  <2>9. Charges = n
    BY <2>7, Finite, ChargesSum
  <2> QED
    BY <2>2, <2>3, <2>8, <2>9 DEF ChargesAreReserved
<1>2. IInv /\ Budget /\ [Next]_vars => IInv' /\ Budget'
  BY EveryStep, BudgetStep DEF Good
<1> QED
  BY Initially, BudgetInitially, <1>1, <1>2, PTL DEF Spec

=============================================================================
