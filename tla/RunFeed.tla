------------------------------- MODULE RunFeed -------------------------------
(***************************************************************************)
(* What one AgentRun promises to those who only watch it: the summary that *)
(* GET /agent-runs/{id} returns and the feed of its callbacks.  RunLedger  *)
(* implements this specification; CallbackDelivery relies on nothing else. *)
(*                                                                         *)
(* The promise is about one committed transaction at a time.  It may       *)
(* append any number of callbacks; which transaction it is, and who runs   *)
(* it, is the ledger's business.                                           *)
(***************************************************************************)
EXTENDS Integers, Sequences

VARIABLES
    row,   \* status, status_version, last_event_seq and privacy_state
    feed   \* the callbacks, in event_seq order

Outcomes == {"succeeded", "partial", "failed", "cancelled"}

RowStatuses == {"pending", "running", "waiting_human"} \cup Outcomes

\* Each callback carries the status it announces.
StatusOf(type) ==
    IF type \in {"run_started", "step_changed"} THEN "running" ELSE type

NewCallbacks == SubSeq(feed', Len(feed) + 1, Len(feed'))

Init ==
    /\ row = [status |-> "pending", sv |-> 1, seq |-> 0, privacy |-> "active"]
    /\ feed = <<>>

\* Callbacks are only added, are numbered without a gap and carry versions that
\* the row has really had.
FeedGrows ==
    /\ Len(feed') >= Len(feed)
    /\ SubSeq(feed', 1, Len(feed)) = feed
    /\ row'.seq = Len(feed')
    /\ row'.sv >= row.sv
    /\ \A i \in 1..Len(NewCallbacks) : NewCallbacks[i].sv \in row.sv .. row'.sv

\* A run that becomes or stays anything but pending or running says so last.
ChangeIsAnnounced ==
    LET added == NewCallbacks IN
    IF added = <<>>
    THEN row'.status # row.status => row'.status \in {"pending", "running"}
    ELSE /\ StatusOf(added[Len(added)].type) = row'.status
         /\ \A i \in 1..(Len(added) - 1) : added[i].type \notin Outcomes

\* succeeded and cancelled are final; failed and partial may only be retried.  An
\* outcome may be announced again (a second cancel), never changed.
OutcomeStands ==
    row.status \in Outcomes =>
        \/ /\ row'.status = row.status
           /\ \A i \in 1..Len(NewCallbacks) : NewCallbacks[i].type = row.status
        \/ /\ row.status \in {"failed", "partial"} /\ row'.status = "pending"
           /\ NewCallbacks = <<>>

\* Private data, once withdrawn, does not come back.
PrivacyStands ==
    /\ row.privacy = "purge_requested" => row'.privacy # "active"
    /\ row.privacy = "purged" => row'.privacy = "purged"

Next == FeedGrows /\ ChangeIsAnnounced /\ OutcomeStands /\ PrivacyStands

Spec == Init /\ [][Next]_<<row, feed>>

=============================================================================
