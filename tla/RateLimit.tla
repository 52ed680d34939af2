------------------------------ MODULE RateLimit ------------------------------
(***************************************************************************)
(* The webhook's rate limit of one tenant and address: CheckRateLimit, its *)
(* Redis key, and AllowWebhook, which lets a request in when Redis fails.  *)
(*                                                                         *)
(* A window is Window ticks of the clock; INCR and EXPIRE are two steps,   *)
(* and the process may die between them.                                   *)
(***************************************************************************)
EXTENDS Integers

CONSTANTS
  Requests,   \* concurrent webhook requests, each sent over and over
  Limit,      \* 30 in the code
  Window,     \* 1 minute in the code, in ticks
  MaxFaults   \* bound on failed commands, crashes and Redis restarts

ASSUME ConstantsAssumption ==
  Limit \in Nat \ {0} /\ Window \in Nat \ {0} /\ MaxFaults \in Nat

VARIABLES
  count,    \* the key's value, 0 when there is no key
  ttl,      \* ticks until it expires
  pc,       \* where each request stands
  recent,   \* recent[n]: how many were let in in the last n ticks, this one included
  faults

vars == <<count, ttl, pc, recent, faults>>

NoTTL == -1
Spans == 1..Window

\* Every variable has its type.
TypeOK ==
  /\ count \in Nat /\ ttl \in -1..Window
  /\ count = 0 => ttl = NoTTL
  /\ pc \in [Requests -> {"idle", "expire"}]
  /\ recent \in [Spans -> Nat]
  /\ faults \in 0..MaxFaults

Init ==
  /\ count = 0 /\ ttl = NoTTL /\ faults = 0
  /\ pc = [r \in Requests |-> "idle"]
  /\ recent = [n \in Spans |-> 0]

Fault == faults < MaxFaults /\ faults' = faults + 1
NoFault == UNCHANGED faults

LetIn == recent' = [n \in Spans |-> recent[n] + 1]

\* A count beyond Limit + 1 is refused like Limit + 1.
Incremented == IF count > Limit THEN count ELSE count + 1

MutantOneMore == IF Incremented <= Limit + 1 THEN LetIn ELSE UNCHANGED recent

Answer == IF Incremented <= Limit THEN LetIn ELSE UNCHANGED recent

MutantNeverExpires(r) ==
  /\ pc[r] = "idle" /\ count' = Incremented /\ Answer
  /\ UNCHANGED <<ttl, pc, faults>>
MutantExpiresAlways(r) ==
  /\ pc[r] = "idle" /\ count' = Incremented /\ NoFault
  /\ ttl' = Window /\ Answer /\ UNCHANGED pc

\* The INCR: the first of a window has the EXPIRE to do before it is let in,
\* an error lets the request in, whether the key was incremented or not.
Increment(r) ==
  /\ pc[r] = "idle"
  /\ \/ /\ count' = Incremented /\ NoFault
        /\ IF count = 0 THEN pc' = [pc EXCEPT ![r] = "expire"] /\ UNCHANGED recent
                        ELSE UNCHANGED pc /\ Answer
     \/ count' \in {count, Incremented} /\ UNCHANGED pc /\ LetIn /\ Fault
  /\ UNCHANGED ttl

MutantWrongUnit(r) ==
  /\ pc[r] = "expire"
  /\ ttl' = (IF count = 0 THEN NoTTL ELSE 60 * Window) /\ NoFault
  /\ LetIn
  /\ pc' = [pc EXCEPT ![r] = "idle"]
  /\ UNCHANGED count

\* The EXPIRE, of no effect when the key is gone; an error lets the request
\* in all the same.
Expire(r) ==
  /\ pc[r] = "expire"
  /\ \/ ttl' = (IF count = 0 THEN NoTTL ELSE Window) /\ NoFault
     \/ UNCHANGED ttl /\ Fault
  /\ LetIn
  /\ pc' = [pc EXCEPT ![r] = "idle"]
  /\ UNCHANGED count

\* A key whose time has run out is gone.
Tick ==
  /\ recent' = [n \in Spans |-> IF n = 1 THEN 0 ELSE recent[n - 1]]
  /\ ttl' = (IF ttl \in {NoTTL, 1} THEN NoTTL ELSE ttl - 1)
  /\ count' = (IF ttl = 1 THEN 0 ELSE count)
  /\ UNCHANGED <<pc, faults>>

\* The API process dies with the requests it was handling.
Crash ==
  /\ \E r \in Requests : pc[r] # "idle"
  /\ pc' = [r \in Requests |-> "idle"]
  /\ Fault
  /\ UNCHANGED <<count, ttl, recent>>

RestartRedis ==
  /\ count' = 0 /\ ttl' = NoTTL
  /\ Fault
  /\ UNCHANGED <<pc, recent>>

Next ==
  \/ \E r \in Requests : Increment(r) \/ Expire(r)
  \/ Tick \/ Crash \/ RestartRedis

Spec == Init /\ [][Next]_vars

\* Time passes, and a request that has its EXPIRE to do does it or fails.
FairSpec == Spec /\ WF_vars(Tick) /\ \A r \in Requests : WF_vars(Expire(r))

-----------------------------------------------------------------------------
\* In any Window ticks, aligned with the key's windows or not, fewer than
\* twice the limit are let in; each fault adds at most another limit.
AdmissionBound == recent[Window] <= Limit * (2 + faults) - 1

\* A key that no EXPIRE is coming for.
Stuck == count > 0 /\ ttl = NoTTL /\ \A r \in Requests : pc[r] = "idle"

\* A key is left without a TTL only by a crash between INCR and EXPIRE, by an
\* EXPIRE that failed or by an INCR that was done and whose reply was lost.
StuckNeedsAFault == Stuck => faults > 0

\* An address over the limit is let in again however fast it goes on sending,
\* unless its key is stuck: then it stays refused until Redis restarts.
LimitLifts == count > Limit ~> count = 0 \/ Stuck

=============================================================================
