----------------------------- MODULE OutboxAbs -----------------------------
(***************************************************************************)
(* What the transactional outbox promises: an event is delivered only      *)
(* after the change it tells of is committed, possibly more than once, and *)
(* in the end at least once.                                               *)
(***************************************************************************)
CONSTANT Event

VARIABLES committed, delivered

Init == committed = {} /\ delivered = {}

Commit(e) ==
    /\ e \notin committed
    /\ committed' = committed \cup {e}
    /\ UNCHANGED delivered

Deliver(e) ==
    /\ e \in committed
    /\ delivered' = delivered \cup {e}
    /\ UNCHANGED committed

Next == \E e \in Event : Commit(e) \/ Deliver(e)

Safety == Init /\ [][Next]_<<committed, delivered>>

Spec ==
    /\ Safety
    /\ \A e \in Event : WF_<<committed, delivered>>(Deliver(e))
=============================================================================
