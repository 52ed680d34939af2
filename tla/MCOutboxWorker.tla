--------------------------- MODULE MCOutboxWorker ---------------------------
(* OutboxWorker on small instances. *)
EXTENDS OutboxWorker

CONSTANTS e1, e2, e3

TwoEvents == {e1, e2}
ThreeEvents == {e1, e2, e3}
AllFaults == {"kill", "stop", "db", "broker"}
BrokerFault == {"broker"}

=============================================================================
