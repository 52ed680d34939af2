------------------------------ MODULE Deployment ------------------------------
(***************************************************************************)
(* The API and the worker as docker-compose runs them, and a browser tab   *)
(* that shows how they are: both processes migrate the database when they  *)
(* start, the worker reports to Redis, the API reports from Redis, and the *)
(* tab checks the API.                                                     *)
(***************************************************************************)
EXTENDS Naturals, FiniteSets

CONSTANTS Files, Tables, MaxKills, TTL, MaxBatch, Checks,
          StatusSettles, WorkerSettles  \* intervals without a disturbance

VARIABLES created, registered, stage, file, statement, kills,
          worker, due, busy, redis, age,
          shown, unrendered, visible, onLine, checks,
          calm  \* the intervals of a visible tab since the last disturbance,
                \* counted up to WorkerSettles

Processes == {"api", "worker"}

M == INSTANCE Migrations
H == INSTANCE Heartbeat
W == INSTANCE WorkspaceStatus

ASSUME DeploymentAssumption ==
  /\ M!MigrationsConstants /\ H!HeartbeatConstants
  /\ StatusSettles \in Nat /\ WorkerSettles \in Nat

migrations == <<created, registered, stage, file, statement, kills>>
heartbeat == <<worker, due, busy, redis, age>>
tab == <<shown, unrendered, visible, onLine, checks>>
vars == <<migrations, heartbeat, tab, calm>>

Init == M!Init /\ H!Init /\ W!Init /\ calm = 0

-----------------------------------------------------------------------------
Disturbed == calm' = 0

\* The processes come up, or fail to.
MigrateStep ==
  /\ \E p \in Processes : M!Migrate(p)
  /\ Disturbed
  /\ UNCHANGED <<heartbeat, tab>>

Kill(p) ==
  /\ M!Kill(p)
  /\ IF p = "worker"
     THEN H!Die /\ UNCHANGED checks
     ELSE W!Lose /\ UNCHANGED heartbeat
  /\ Disturbed
  /\ UNCHANGED <<shown, unrendered, visible, onLine>>

\* The worker goes on; a heartbeat that is not recorded is a disturbance.
WorkerStep ==
  /\ stage["worker"] = "ready"
  /\ \/ H!Launch /\ Disturbed
     \/ \E ok \in BOOLEAN : H!Connect(ok) /\ Disturbed
     \/ H!StartBatch(TRUE) /\ UNCHANGED calm
     \/ H!StartBatch(FALSE) /\ Disturbed
     \/ H!EndBatch /\ UNCHANGED calm
  /\ UNCHANGED <<migrations, tab>>

RedisStep ==
  /\ \/ H!Expire /\ UNCHANGED calm
     \/ (H!RedisStops \/ H!RedisStarts) /\ Disturbed
  /\ UNCHANGED <<migrations, tab>>

APIReady == stage["api"] = "ready"

\* What the browser and the API do for a check.  A check that fails although
\* the API and its Redis can be reached, and half an answer, are disturbances.
CheckStep ==
  /\ \E c \in Checks :
       \/ (W!RunEffect(c) \/ W!Poll(c)) /\ UNCHANGED calm
       \/ APIReady /\ W!Answer(c, H!Snapshot) /\ UNCHANGED calm
       \/ W!Deliver(c) /\ UNCHANGED calm
       \/ W!DeliverHeader(c) /\ Disturbed
       \/ /\ W!Fails(c)
          /\ IF checks[c].state = "sent" /\ onLine /\ APIReady /\ redis
             THEN Disturbed ELSE UNCHANGED calm
  /\ UNCHANGED <<migrations, heartbeat>>

\* What is shown stays true when the tab is hidden or shown.
BrowserEvent ==
  /\ \/ (W!Hide \/ W!Translate) /\ UNCHANGED calm
     \/ W!GoOffline /\ Disturbed
     \/ \E c \in Checks : W!Show(c) /\ UNCHANGED calm
     \/ \E c \in Checks : W!GoOnline(c) /\ Disturbed
  /\ UNCHANGED <<migrations, heartbeat>>

\* An interval is over.  A batch that has lasted as long as the heartbeat
\* lives is a disturbance, and so is a hidden tab.
Interval ==
  /\ H!Pass
  /\ W!Pass
  /\ calm' = IF ~visible \/ busy' >= TTL THEN 0
             ELSE IF calm < WorkerSettles THEN calm + 1 ELSE calm
  /\ UNCHANGED migrations

Next ==
  \/ MigrateStep
  \/ \E p \in Processes : Kill(p)
  \/ WorkerStep
  \/ RedisStep
  \/ CheckStep
  \/ BrowserEvent
  \/ Interval

\* docker-compose's restart: unless-stopped
Fairness == \A p \in Processes :
  WF_vars(M!Migrate(p) /\ Disturbed /\ UNCHANGED <<heartbeat, tab>>)

Spec == Init /\ [][Next]_vars
FairSpec == Spec /\ Fairness

-----------------------------------------------------------------------------
TypeOK ==
  M!TypeOK /\ H!TypeOK /\ W!TypeOK /\ calm \in 0..WorkerSettles

ReadyMeansMigrated == M!ReadyMeansMigrated
EventuallyReady == M!EventuallyReady

\* Checks overlap, outlive an offline event and are answered in any order, so a
\* late answer may show what is no longer so, but not for long: each answer,
\* right or wrong, makes the tab check again, and once the system has been left
\* alone for StatusSettles intervals the tab shows whether the API can be
\* reached.  (While Redis cannot, the health endpoint may be too slow.)
StatusIsTrue ==
  calm >= StatusSettles =>
    /\ shown.status = "online" => onLine /\ APIReady
    /\ onLine /\ APIReady /\ redis => shown.status = "online"

\* What the tab shows of the worker is so, too, once the last heartbeat of a
\* worker that is gone has expired.  A worker that runs is not shown offline,
\* not even while it is busy with a batch, unless the batch lasts as long as
\* its heartbeat lives.
WorkerIsTrue ==
  calm >= WorkerSettles =>
    shown.worker = IF ~onLine \/ ~APIReady \/ ~redis THEN "unknown"
                   ELSE IF H!Running THEN "online" ELSE "offline"

=============================================================================
