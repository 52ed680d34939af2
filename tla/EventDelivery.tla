---------------------------- MODULE EventDelivery ----------------------------
(***************************************************************************)
(* What the outbox promises those who consume its events: nothing goes to  *)
(* the broker that was not committed, a row is marked only when its event  *)
(* was sent, and an event is sent again only until its row is marked.      *)
(***************************************************************************)
CONSTANT Events

VARIABLES
  committed,
  marked,    \* the events that are done with
  handed,    \* those that were sent, once or more
  onTheWay,
  taken      \* those the broker has

vars == <<committed, marked, handed, onTheWay, taken>>

Init == committed = {} /\ marked = {} /\ handed = {} /\ onTheWay = {} /\ taken = {}

Commit(e) ==
  /\ e \notin committed
  /\ committed' = committed \cup {e}
  /\ UNCHANGED <<marked, handed, onTheWay, taken>>

Send(e) ==
  /\ e \in committed \ marked
  /\ handed' = handed \cup {e} /\ onTheWay' = onTheWay \cup {e}
  /\ UNCHANGED <<committed, marked, taken>>

Mark(e) ==
  /\ e \in handed \ marked
  /\ marked' = marked \cup {e}
  /\ UNCHANGED <<committed, handed, onTheWay, taken>>

Take(e) ==
  /\ e \in onTheWay
  /\ onTheWay' = onTheWay \ {e} /\ taken' = taken \cup {e}
  /\ UNCHANGED <<committed, marked, handed>>

\* The broker goes down.
Lose ==
  /\ onTheWay' = {}
  /\ UNCHANGED <<committed, marked, handed, taken>>

Next ==
  \/ \E e \in Events : Commit(e) \/ Send(e) \/ Mark(e) \/ Take(e)
  \/ Lose

Spec == Init /\ [][Next]_vars

=============================================================================
