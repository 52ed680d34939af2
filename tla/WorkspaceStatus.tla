---------------------------- MODULE WorkspaceStatus ----------------------------
(***************************************************************************)
(* The status of the services as a browser tab shows it.  The effect that  *)
(* checks it depends on a function that is new after every rendering, so   *)
(* each snapshot that is set and rendered makes the effect run again: it   *)
(* checks at once, in a hidden tab too, and starts its interval of five    *)
(* seconds anew.  A check is given up after four seconds and its outcome   *)
(* is a snapshot, so that one check follows from another.  Events of the   *)
(* browser make checks besides, from which further ones follow.  Nothing   *)
(* tells a late answer from a new one, and nothing is given up when the    *)
(* browser goes offline.                                                   *)
(***************************************************************************)
CONSTANTS
  Checks  \* the requests that may be under way at once

VARIABLES
  shown,       \* the snapshot: status of the workspace and of the worker
  unrendered,  \* whether the effect has to run again
  visible,     \* document.visibilityState
  onLine,      \* navigator.onLine
  checks       \* the requests: unanswered, lost, or answered with the worker's status

vars == <<shown, unrendered, visible, onLine, checks>>

WorkerStatus == {"online", "offline", "unknown"}
None == [state |-> "none", outlived |-> FALSE]
Sent == [state |-> "sent", outlived |-> FALSE]

OfflineState == [status |-> "offline", worker |-> "unknown"]

\* The provider is mounted, and its effect is to run.
Init ==
  /\ shown = [status |-> "checking", worker |-> "checking"]
  /\ unrendered = TRUE
  /\ visible = TRUE /\ onLine = TRUE
  /\ checks = [c \in Checks |-> None]

-----------------------------------------------------------------------------
\* Snapshots set before the next rendering are rendered together.
SetSnapshot(snapshot) == shown' = snapshot /\ unrendered' = TRUE

\* A check in the browser state to come; rerun: whether the effect has to run
\* again whatever the check does.
CheckWorkspaceStatus(c, rerun) ==
  IF onLine'
  THEN /\ checks[c] = None
       /\ checks' = [checks EXCEPT ![c] = Sent]
       /\ unrendered' = rerun /\ UNCHANGED shown
  ELSE SetSnapshot(OfflineState) /\ UNCHANGED checks

\* The effect runs, for the first time or again.  Without a network this goes
\* on and on.
RunEffect(c) ==
  /\ unrendered
  /\ UNCHANGED <<visible, onLine>>
  /\ CheckWorkspaceStatus(c, FALSE)

\* The interval fires.  The check that the effect made when it started it is
\* over by then, so this is before the rendering of that check's outcome.
Poll(c) ==
  /\ unrendered /\ visible
  /\ UNCHANGED <<visible, onLine>>
  /\ CheckWorkspaceStatus(c, unrendered)

Resolve(c) == checks' = [checks EXCEPT ![c] = None]

\* The server answers c.
Answer(c, worker) ==
  /\ checks[c].state = "sent"
  /\ checks' = [checks EXCEPT ![c].state = worker]
  /\ UNCHANGED <<shown, unrendered, visible, onLine>>

\* The answer arrives.
Deliver(c) ==
  /\ checks[c].state \in WorkerStatus
  /\ SetSnapshot([status |-> "online", worker |-> checks[c].state])
  /\ Resolve(c)
  /\ UNCHANGED <<visible, onLine>>

\* Its header arrives, but its body is cut off.
DeliverHeader(c) ==
  /\ checks[c].state \in WorkerStatus
  /\ SetSnapshot([status |-> "online", worker |-> "unknown"])
  /\ Resolve(c)
  /\ UNCHANGED <<visible, onLine>>

MutantErrorIgnored(c) ==
  /\ checks[c].state \in {"sent", "lost"}
  /\ Resolve(c)
  /\ UNCHANGED <<shown, unrendered, visible, onLine>>

\* The request is refused, cut off or given up.
Fails(c) ==
  /\ checks[c].state \in {"sent", "lost"}
  /\ SetSnapshot(OfflineState)
  /\ Resolve(c)
  /\ UNCHANGED <<visible, onLine>>

\* The requests the server has not answered are lost with it.
Lose ==
  checks' = [c \in Checks |-> IF checks[c].state = "sent"
                              THEN [checks[c] EXCEPT !.state = "lost"]
                              ELSE checks[c]]

-----------------------------------------------------------------------------
(* Events of the browser *)

Hide ==
  /\ visible
  /\ visible' = FALSE
  /\ UNCHANGED <<shown, unrendered, onLine, checks>>

Show(c) ==
  /\ ~visible
  /\ visible' = TRUE
  /\ UNCHANGED onLine
  /\ CheckWorkspaceStatus(c, unrendered)

GoOffline ==
  /\ onLine
  /\ onLine' = FALSE
  /\ SetSnapshot(OfflineState)
  /\ UNCHANGED <<visible, checks>>

GoOnline(c) ==
  /\ ~onLine
  /\ onLine' = TRUE
  /\ UNCHANGED visible
  /\ CheckWorkspaceStatus(c, unrendered)

\* Another language renders the provider, with what it shows.
Translate ==
  /\ unrendered' = TRUE
  /\ UNCHANGED <<shown, visible, onLine, checks>>

\* Five seconds are over.  In a visible tab no check lasts that long and the
\* effect runs as soon as it has to; a hidden one's timers may be held back.
Pass ==
  /\ visible =>
       /\ \A c \in Checks : ~checks[c].outlived
       /\ IF onLine THEN ~unrendered ELSE shown = OfflineState
  /\ checks' = [c \in Checks |-> IF checks[c] = None THEN None
                                 ELSE [checks[c] EXCEPT !.outlived = TRUE]]
  /\ UNCHANGED <<shown, unrendered, visible, onLine>>

TypeOK ==
  /\ shown \in [status : {"checking", "online", "offline"},
                worker : {"checking"} \cup WorkerStatus]
  /\ unrendered \in BOOLEAN /\ visible \in BOOLEAN /\ onLine \in BOOLEAN
  /\ checks \in [Checks -> [state : {"none", "sent", "lost"} \cup WorkerStatus,
                            outlived : BOOLEAN]]

=============================================================================
