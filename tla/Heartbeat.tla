------------------------------- MODULE Heartbeat -------------------------------
(***************************************************************************)
(* The worker's heartbeat in Redis and what the health endpoint makes of   *)
(* it.  The worker records it when it has its broker connection and then   *)
(* in front of each batch, so that a long batch, a broker that cannot be   *)
(* reached or a failed command leaves the last one to age.                 *)
(*                                                                         *)
(* Time is counted in intervals of five seconds, the period of the         *)
(* worker's ticker.  The order of what happens within one is open, so an   *)
(* age of TTL intervals is about, but not exactly, the TTL of the key.     *)
(***************************************************************************)
EXTENDS Naturals

CONSTANTS
  TTL,      \* workerHeartbeatTTL, in intervals
  MaxBatch  \* bound on the intervals a batch lasts

HeartbeatConstants == TTL \in Nat \ {0} /\ MaxBatch \in Nat

VARIABLES
  worker,  \* down, dialing the broker, waiting for its ticker or in a batch
  due,     \* whether its ticker has fired (a channel of one)
  busy,    \* the intervals its batch has lasted
  redis,   \* whether Redis can be reached
  age      \* the intervals since the heartbeat was recorded, Gone if it is not there

vars == <<worker, due, busy, redis, age>>

Gone == TTL + 1

Init ==
  /\ worker = "down" /\ due = FALSE /\ busy = 0
  /\ redis = TRUE /\ age = Gone

-----------------------------------------------------------------------------
(* RecordWorkerHeartbeat: a command that fails is logged. *)

Record(ok) == age' = IF redis /\ ok THEN 0 ELSE age

\* The process is past its migrations and waits for its broker.
Launch ==
  /\ worker = "down"
  /\ worker' = "dialing"
  /\ UNCHANGED <<due, busy, redis, age>>

Connect(ok) ==
  /\ worker = "dialing"
  /\ worker' = "waiting"
  /\ Record(ok)
  /\ UNCHANGED <<due, busy, redis>>

MutantStartBatch(ok) ==
  /\ worker = "waiting" /\ due
  /\ worker' = "batch"
  /\ due' = FALSE
  /\ UNCHANGED <<busy, redis, age>>

StartBatch(ok) ==
  /\ worker = "waiting" /\ due
  /\ worker' = "batch"
  /\ due' = FALSE
  /\ Record(ok)
  /\ UNCHANGED <<busy, redis>>

EndBatch ==
  /\ worker = "batch"
  /\ worker' = "waiting"
  /\ busy' = 0
  /\ UNCHANGED <<due, redis, age>>

Die ==
  /\ worker' = "down" /\ due' = FALSE /\ busy' = 0
  /\ UNCHANGED <<redis, age>>

-----------------------------------------------------------------------------
(* Redis, which keeps nothing over a restart *)

Expire ==
  /\ age = TTL
  /\ age' = Gone
  /\ UNCHANGED <<worker, due, busy, redis>>

RedisStops ==
  /\ redis
  /\ redis' = FALSE /\ age' = Gone
  /\ UNCHANGED <<worker, due, busy>>

RedisStarts ==
  /\ ~redis
  /\ redis' = TRUE
  /\ UNCHANGED <<worker, due, busy, age>>

-----------------------------------------------------------------------------
Running == worker \in {"waiting", "batch"}

\* An interval ends: a worker that waits has served its ticker by then.
Pass ==
  /\ ~(worker = "waiting" /\ due)
  /\ busy < MaxBatch
  /\ due' = Running
  /\ busy' = IF worker = "batch" THEN busy + 1 ELSE 0
  /\ age' = IF age >= TTL THEN Gone ELSE age + 1
  /\ UNCHANGED <<worker, redis>>

\* Reporter.Snapshot's word on the worker
Snapshot ==
  IF ~redis THEN "unknown" ELSE IF age <= TTL THEN "online" ELSE "offline"

TypeOK ==
  /\ worker \in {"down", "dialing", "waiting", "batch"}
  /\ due \in BOOLEAN /\ redis \in BOOLEAN
  /\ busy \in 0..MaxBatch /\ age \in 0..Gone

=============================================================================
