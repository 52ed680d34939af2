---------------------------- MODULE RateLimitProofs ----------------------------
(***************************************************************************)
(* What is proved of the webhook's rate limit, for any requests, limit,    *)
(* window and number of faults.                                            *)
(***************************************************************************)
EXTENDS RateLimit, FiniteSetTheorems, TLAPS

\* While nothing has failed, a key without a TTL has a request that will set
\* it.  No TTL is kept at 0, or Tick would take it to NoTTL, key and all.
IInv ==
  /\ TypeOK
  /\ ttl # 0
  /\ faults = 0 /\ count > 0 /\ ttl = NoTTL => \E r \in Requests : pc[r] = "expire"

LEMMA InitIInv == Init => IInv
BY ConstantsAssumption DEF Init, IInv, TypeOK, NoTTL, Spans

LEMMA LetInType ==
  ASSUME recent \in [Spans -> Nat], LetIn
  PROVE  recent' \in [Spans -> Nat]
BY DEF LetIn

\* The first of a window leaves itself to set the TTL.
LEMMA IncrementKeeps ==
  ASSUME IInv, NEW r \in Requests, Increment(r)
  PROVE  IInv'
<1>1. recent' \in [Spans -> Nat]
  BY LetInType DEF IInv, TypeOK, Increment, Answer
<1>2. CASE count' = Incremented /\ NoFault
  <2>1. count' \in Nat /\ count' > 0
    BY <1>2, ConstantsAssumption DEF IInv, TypeOK, Incremented
  <2>2. CASE count = 0
    BY <1>1, <1>2, <2>1, <2>2
       DEF IInv, TypeOK, Increment, NoFault, Fault
  <2>3. CASE count # 0
    BY <1>1, <1>2, <2>1, <2>3
       DEF IInv, TypeOK, Increment, NoFault, Fault
  <2>4. QED
    BY <2>2, <2>3
<1>3. CASE count' \in {count, Incremented} /\ UNCHANGED pc /\ Fault
  <2>1. count' \in Nat /\ (count > 0 => count' > 0) /\ faults' > 0
    BY <1>3, ConstantsAssumption DEF IInv, TypeOK, Incremented, Fault
  <2>2. QED
    BY <1>1, <1>3, <2>1, ConstantsAssumption DEF IInv, TypeOK, Increment, Fault
<1>4. QED
  BY <1>2, <1>3 DEF Increment

LEMMA ExpireKeeps ==
  ASSUME IInv, NEW r \in Requests, Expire(r)
  PROVE  IInv'
<1>1. recent' \in [Spans -> Nat]
  BY LetInType DEF IInv, TypeOK, Expire
<1>2. pc' \in [Requests -> {"idle", "expire"}] /\ count' = count
  BY DEF IInv, TypeOK, Expire
<1>3. CASE ttl' = (IF count = 0 THEN NoTTL ELSE Window) /\ NoFault
  BY <1>1, <1>2, <1>3, ConstantsAssumption DEF IInv, TypeOK, NoTTL, NoFault
<1>4. CASE UNCHANGED ttl /\ Fault
  BY <1>1, <1>2, <1>4, ConstantsAssumption DEF IInv, TypeOK, Fault
<1>5. QED
  BY <1>3, <1>4 DEF Expire

LEMMA TickKeeps ==
  ASSUME IInv, Tick
  PROVE  IInv'
<1>1. recent' \in [Spans -> Nat]
  BY ConstantsAssumption DEF IInv, TypeOK, Tick, Spans
<1>2. /\ count' \in Nat /\ ttl' \in -1..Window /\ ttl' # 0
      /\ count' = 0 => ttl' = NoTTL
  BY ConstantsAssumption DEF IInv, TypeOK, Tick, NoTTL
<1>3. count' > 0 /\ ttl' = NoTTL => count > 0 /\ ttl = NoTTL
  BY ConstantsAssumption DEF IInv, TypeOK, Tick, NoTTL
<1>4. QED
  BY <1>1, <1>2, <1>3 DEF IInv, TypeOK, Tick

LEMMA NextKeeps ==
  ASSUME IInv, [Next]_vars
  PROVE  IInv'
<1>1. CASE \E r \in Requests : Increment(r) \/ Expire(r)
  BY <1>1, IncrementKeeps, ExpireKeeps
<1>2. CASE Tick
  BY <1>2, TickKeeps
<1>3. CASE Crash
  BY <1>3, ConstantsAssumption DEF IInv, TypeOK, Crash, Fault
<1>4. CASE RestartRedis
  BY <1>4, ConstantsAssumption DEF IInv, TypeOK, RestartRedis, Fault, NoTTL
<1>5. CASE UNCHANGED vars
  BY <1>5 DEF IInv, TypeOK, vars
<1>6. QED
  BY <1>1, <1>2, <1>3, <1>4, <1>5 DEF Next

LEMMA Invariance == Spec => []IInv
<1>1. Init => IInv
  BY InitIInv
<1>2. IInv /\ [Next]_vars => IInv'
  BY NextKeeps
<1>3. QED
  BY <1>1, <1>2, PTL DEF Spec

\* Every variable has its type, and a key that is gone has no TTL.
THEOREM TypeCorrect == Spec => []TypeOK
<1>1. IInv => TypeOK
  BY DEF IInv
<1>2. QED
  BY <1>1, Invariance, PTL

\* While no command fails and no process dies, no key is left without a TTL
\* for good: whichever requests share it, one of them still has the EXPIRE of
\* CheckRateLimit to do.
THEOREM NeverStuckByItself == Spec => []StuckNeedsAFault
<1>1. IInv => StuckNeedsAFault
  BY DEF IInv, TypeOK, StuckNeedsAFault, Stuck
<1>2. QED
  BY <1>1, Invariance, PTL

-----------------------------------------------------------------------------
(* How many are let in *)

\* The requests between their INCR and their EXPIRE, which will be let in.
Waiting == {r \in Requests : pc[r] = "expire"}
Waits == Cardinality(Waiting)

\* What the faults so far may have let in besides.
Extra == Limit * faults

\* How many the key has counted and not refused.
Counted == IF count <= Limit THEN count ELSE Limit

\* The ticks since the key's TTL was set, or this one alone without a TTL.
Since == IF ttl = NoTTL THEN 1 ELSE Window - ttl + 1

\* Only a fault leaves a request waiting for a key that is not its own.
WaitingInv ==
  /\ IsFiniteSet(Waiting)
  /\ Waits <= faults + (IF count > 0 /\ ttl = NoTTL THEN 1 ELSE 0)

Grows == \A m, n \in Spans : m <= n => recent[m] <= recent[n]

\* What was let in since the TTL was set, and what is waiting, was counted by
\* the key; before that its predecessor let in at most the rest of its limit,
\* since the request that set its TTL is as old as the predecessor's end.
KeyInv ==
  /\ recent[Since] + Waits <= Counted + Extra
  /\ recent[Window] + Waits <= Limit - 1 + Counted + Extra

\* Somebody was let in when the TTL was set.
SetterInv ==
  ttl # NoTTL => recent[Since] > 0 /\ (Since > 1 => recent[Since - 1] < recent[Since])

AdmissionInv == IInv /\ WaitingInv /\ Grows /\ KeyInv /\ SetterInv

LEMMA TypedState ==
  ASSUME IInv
  PROVE  /\ Limit \in Nat /\ Limit > 0 /\ Window \in Nat /\ Window > 0
         /\ count \in Nat /\ ttl \in -1..Window /\ ttl # 0 /\ faults \in Nat
         /\ Since \in Spans /\ 1 \in Spans /\ Window \in Spans
         /\ Counted \in 0..Limit
         /\ \A n \in Spans : recent[n] \in Nat
BY ConstantsAssumption DEF IInv, TypeOK, Since, Spans, Counted, NoTTL

LEMMA ExtraType == ASSUME IInv PROVE Extra \in Nat /\ faults <= Extra
<1>1. Limit \in Nat \ {0} /\ faults \in Nat
  BY TypedState
<1>2. \A l \in Nat \ {0}, f \in Nat : l * f \in Nat /\ f <= l * f
  OBVIOUS
<1>3. QED
  BY <1>1, <1>2 DEF Extra

LEMMA ExtraStep ==
  ASSUME IInv
  PROVE  /\ NoFault => Extra' = Extra
         /\ Fault => Extra' = Extra + Limit /\ faults' = faults + 1
<1>1. Limit \in Nat /\ faults \in Nat
  BY TypedState
<1>2. \A l \in Nat, f \in Nat : l * (f + 1) = l * f + l
  OBVIOUS
<1>3. QED
  BY <1>1, <1>2 DEF Extra, NoFault, Fault

LEMMA WaitsType == WaitingInv => Waits \in Nat
BY FS_CardinalityType DEF WaitingInv, Waits

LEMMA Comes ==
  ASSUME IInv, WaitingInv, NEW r \in Requests, pc[r] = "idle",
         pc' = [pc EXCEPT ![r] = "expire"]
  PROVE  IsFiniteSet(Waiting') /\ Waits' = Waits + 1
<1>1. Waiting' = Waiting \cup {r} /\ r \notin Waiting
  BY DEF Waiting, IInv, TypeOK
<1>2. QED
  BY <1>1, FS_AddElement DEF WaitingInv, Waits

LEMMA Leaves ==
  ASSUME IInv, WaitingInv, NEW r \in Requests, pc[r] = "expire",
         pc' = [pc EXCEPT ![r] = "idle"]
  PROVE  IsFiniteSet(Waiting') /\ Waits' = Waits - 1
<1>1. Waiting' = Waiting \ {r} /\ r \in Waiting
  BY DEF Waiting, IInv, TypeOK
<1>2. QED
  BY <1>1, FS_RemoveElement DEF WaitingInv, Waits

LEMMA Stay ==
  ASSUME WaitingInv, UNCHANGED pc
  PROVE  IsFiniteSet(Waiting') /\ Waits' = Waits
BY DEF WaitingInv, Waiting, Waits

\* One more in every span: what grew still does.
LEMMA LetInGrows ==
  ASSUME IInv, Grows, LetIn
  PROVE  /\ Grows' /\ \A n \in Spans : recent'[n] = recent[n] + 1
BY TypedState DEF LetIn, Grows

LEMMA InitAdmission == Init => AdmissionInv
<1> SUFFICES ASSUME Init PROVE AdmissionInv
  OBVIOUS
<1>1. IInv
  BY InitIInv
<1>2. Waiting = {}
  BY DEF Init, Waiting
<1>3. WaitingInv /\ Waits = 0
  BY <1>2, FS_EmptySet DEF Init, WaitingInv, Waits
<1>4. \A n \in Spans : recent[n] = 0
  BY DEF Init
<1>5. Grows
  BY <1>4 DEF Grows
<1>6. count = 0 /\ faults = 0 /\ ttl = NoTTL
  BY DEF Init
<1>7. KeyInv /\ SetterInv
  BY <1>1, <1>3, <1>4, <1>6, TypedState, ExtraType DEF KeyInv, SetterInv, Counted
<1>8. QED
  BY <1>1, <1>3, <1>5, <1>7 DEF AdmissionInv

\* The TTL stays, and the spans grow together or not at all.
LEMMA SetterStays ==
  ASSUME AdmissionInv, UNCHANGED ttl, LetIn \/ UNCHANGED recent
  PROVE  Grows' /\ SetterInv' /\ Since' = Since
<1>1. Since' = Since /\ (ttl' # NoTTL <=> ttl # NoTTL)
  BY DEF Since
<1>2. CASE LetIn
  <2>1. Grows' /\ \A n \in Spans : recent'[n] = recent[n] + 1
    BY <1>2, LetInGrows DEF AdmissionInv
  <2>2. Since > 1 => Since - 1 \in Spans
    BY TypedState DEF AdmissionInv, Spans
  <2>3. SetterInv'
    BY <1>1, <2>1, <2>2, TypedState DEF AdmissionInv, SetterInv
  <2>4. QED
    BY <1>1, <2>1, <2>3
<1>3. CASE UNCHANGED recent
  BY <1>1, <1>3 DEF AdmissionInv, Grows, SetterInv
<1>4. QED
  BY <1>2, <1>3

LEMMA IncrementAdmits ==
  ASSUME AdmissionInv, NEW r \in Requests, Increment(r) PROVE AdmissionInv'
<1>1. IInv' /\ pc[r] = "idle" /\ UNCHANGED ttl
  BY IncrementKeeps DEF AdmissionInv, Increment
<1>2. Waits \in Nat /\ Extra \in Nat /\ IInv /\ Waits <= faults + (IF count > 0 /\ ttl = NoTTL THEN 1 ELSE 0)
  BY WaitsType, ExtraType DEF AdmissionInv, WaitingInv
<1>3. CASE count = 0 /\ count' = Incremented /\ NoFault
           /\ pc' = [pc EXCEPT ![r] = "expire"] /\ UNCHANGED recent
  <2>1. IsFiniteSet(Waiting') /\ Waits' = Waits + 1
    BY <1>1, <1>3, Comes DEF AdmissionInv
  <2>2. count' = 1 /\ ttl' = NoTTL /\ faults' = faults
    BY <1>1, <1>2, <1>3, TypedState DEF Incremented, IInv, TypeOK, NoFault
  <2>3. WaitingInv'
    BY <1>2, <1>3, <2>1, <2>2, TypedState DEF WaitingInv
  <2>4. Counted = 0 /\ Counted' = 1 /\ Extra' = Extra
    BY <1>2, <1>3, <2>2, TypedState, ExtraStep DEF Counted
  <2>5. Grows' /\ SetterInv' /\ Since' = Since
    BY <1>1, <1>3, SetterStays
  <2>6. KeyInv'
    BY <1>2, <1>3, <2>1, <2>4, <2>5, TypedState DEF AdmissionInv, KeyInv
  <2>7. QED
    BY <1>1, <2>3, <2>5, <2>6 DEF AdmissionInv
<1>4. CASE count # 0 /\ count' = Incremented /\ NoFault /\ UNCHANGED pc /\ Answer
  <2>1. IsFiniteSet(Waiting') /\ Waits' = Waits
    BY <1>4, Stay DEF AdmissionInv
  <2>2. count' > 0 /\ faults' = faults
    BY <1>2, <1>4, TypedState DEF Incremented, NoFault
  <2>3. WaitingInv'
    BY <1>1, <1>2, <1>4, <2>1, <2>2, TypedState DEF WaitingInv
  <2>4. Grows' /\ SetterInv' /\ Since' = Since
    BY <1>1, <1>4, SetterStays DEF Answer
  <2>5. \/ Counted' = Counted + 1 /\ LetIn
        \/ Counted' = Counted /\ UNCHANGED recent
    BY <1>2, <1>4, TypedState DEF Counted, Answer, Incremented
  <2>6. Extra' = Extra
    BY <1>2, <1>4, ExtraStep
  <2>7. LetIn => \A n \in Spans : recent'[n] = recent[n] + 1
    BY LetInGrows DEF AdmissionInv
  <2>8. Counted \in Nat /\ Since \in Spans /\ Window \in Spans /\ Limit \in Nat
        /\ \A n \in Spans : recent[n] \in Nat
    BY <1>2, TypedState
  <2>9. KeyInv'
    <3>1. CASE Counted' = Counted + 1 /\ LetIn
      BY <1>2, <2>1, <2>4, <2>6, <2>7, <2>8, <3>1 DEF AdmissionInv, KeyInv
    <3>2. CASE Counted' = Counted /\ UNCHANGED recent
      BY <2>1, <2>4, <2>6, <3>2 DEF AdmissionInv, KeyInv
    <3>3. QED
      BY <2>5, <3>1, <3>2
  <2>10. QED
    BY <1>1, <2>3, <2>4, <2>9 DEF AdmissionInv
<1>5. CASE count' \in {count, Incremented} /\ UNCHANGED pc /\ LetIn /\ Fault
  <2>1. IsFiniteSet(Waiting') /\ Waits' = Waits
    BY <1>5, Stay DEF AdmissionInv
  <2>2. Extra' = Extra + Limit /\ faults' = faults + 1
    BY <1>2, <1>5, ExtraStep
  <2>3. WaitingInv'
    BY <1>1, <1>2, <1>5, <2>1, <2>2, TypedState DEF WaitingInv
  <2>4. Grows' /\ SetterInv' /\ Since' = Since
    BY <1>1, <1>5, SetterStays
  <2>5. /\ Counted \in Nat /\ Counted' \in {Counted, Counted + 1}
        /\ \A n \in Spans : recent'[n] = recent[n] + 1
    BY <1>2, <1>5, LetInGrows, TypedState DEF AdmissionInv, Counted, Incremented
  <2>6. KeyInv'
    BY <1>2, <2>1, <2>2, <2>4, <2>5, TypedState DEF AdmissionInv, KeyInv
  <2>7. QED
    BY <1>1, <2>3, <2>4, <2>6 DEF AdmissionInv
<1>6. QED
  BY <1>3, <1>4, <1>5 DEF Increment

LEMMA ExpireAdmits ==
  ASSUME AdmissionInv, NEW r \in Requests, Expire(r) PROVE AdmissionInv'
<1>1. IInv' /\ pc[r] = "expire" /\ LetIn /\ UNCHANGED count
      /\ pc' = [pc EXCEPT ![r] = "idle"]
  BY ExpireKeeps DEF AdmissionInv, Expire
<1>2. Waits \in Nat /\ Extra \in Nat /\ IInv /\ Waits <= faults + (IF count > 0 /\ ttl = NoTTL THEN 1 ELSE 0)
  BY WaitsType, ExtraType DEF AdmissionInv, WaitingInv
<1>3. IsFiniteSet(Waiting') /\ Waits' = Waits - 1 /\ Waits' \in Nat
  <2>1. IsFiniteSet(Waiting') /\ Waits' = Waits - 1
    BY <1>1, Leaves DEF AdmissionInv
  <2>2. QED
    BY <2>1, FS_CardinalityType DEF Waits
<1>4. Grows' /\ \A n \in Spans : recent'[n] = recent[n] + 1
  BY <1>1, LetInGrows DEF AdmissionInv
<1>5. Counted' = Counted
  BY <1>1 DEF Counted
<1>6. CASE ttl' = Window /\ count # 0 /\ NoFault
  <2>1. Extra' = Extra /\ faults' = faults
    BY <1>2, <1>6, ExtraStep DEF NoFault
  <2>2. Since' = 1 /\ ttl' # NoTTL
    BY <1>2, <1>6, TypedState DEF Since, NoTTL
  <2>3. WaitingInv'
    BY <1>2, <1>3, <2>1, <2>2, TypedState DEF WaitingInv
  <2>4. recent[1] <= recent[Since]
    BY <1>2, TypedState DEF AdmissionInv, Grows, Spans
  <2>5. KeyInv'
    BY <1>2, <1>3, <1>4, <1>5, <2>1, <2>2, <2>4, TypedState DEF AdmissionInv, KeyInv
  <2>6. SetterInv'
    BY <1>2, <1>4, <2>2, TypedState DEF SetterInv
  <2>7. QED
    BY <1>1, <1>4, <2>3, <2>5, <2>6 DEF AdmissionInv
<1>7. CASE UNCHANGED ttl /\ (NoFault \/ Fault)
  <2>1. \/ Extra' = Extra /\ faults' = faults
        \/ Extra' = Extra + Limit /\ faults' = faults + 1
    BY <1>2, <1>7, ExtraStep DEF NoFault
  <2>2. Grows' /\ SetterInv' /\ Since' = Since
    BY <1>1, <1>7, SetterStays
  <2>3. WaitingInv'
    BY <1>1, <1>2, <1>3, <1>7, <2>1, TypedState DEF WaitingInv
  <2>4. KeyInv'
    BY <1>2, <1>3, <1>4, <1>5, <2>1, <2>2, TypedState DEF AdmissionInv, KeyInv
  <2>5. QED
    BY <1>1, <2>2, <2>3, <2>4 DEF AdmissionInv
<1>8. QED
  BY <1>2, <1>6, <1>7 DEF Expire, IInv, TypeOK

LEMMA TickAdmits == ASSUME AdmissionInv, Tick PROVE AdmissionInv'
<1>1. IInv' /\ UNCHANGED <<pc, faults>>
  BY TickKeeps DEF AdmissionInv, Tick
<1>2. Waits \in Nat /\ Extra \in Nat /\ faults <= Extra /\ IInv
      /\ Waits <= faults + (IF count > 0 /\ ttl = NoTTL THEN 1 ELSE 0)
  BY WaitsType, ExtraType DEF AdmissionInv, WaitingInv
<1>3. IsFiniteSet(Waiting') /\ Waits' = Waits /\ Extra' = Extra
  BY <1>1, Stay DEF AdmissionInv, Extra
<1>4. \A n \in Spans : recent'[n] = IF n = 1 THEN 0 ELSE recent[n - 1]
  BY DEF Tick
<1>5. Grows'
  <2>1. \A n \in Spans : n = 1 \/ n - 1 \in Spans
    BY <1>2, TypedState DEF Spans
  <2>2. \A m, n \in Spans : m <= n /\ m # 1 => n # 1 /\ m - 1 <= n - 1
    BY DEF Spans
  <2>3. ASSUME NEW m \in Spans, NEW n \in Spans, m <= n PROVE recent'[m] <= recent'[n]
    BY <1>2, <1>4, <2>1, <2>2, <2>3, TypedState DEF AdmissionInv, Grows
  <2>4. QED
    BY <2>3 DEF Grows
<1>6. /\ recent'[1] = 0 /\ recent'[Window] <= recent[Window]
      /\ \A n \in Spans : recent'[n] \in Nat
  <2>1. Window = 1 \/ (Window - 1 \in Spans /\ Window - 1 <= Window)
    BY <1>2, TypedState DEF Spans
  <2>2. QED
    BY <1>1, <1>2, <1>4, <2>1, TypedState DEF AdmissionInv, Grows, IInv, TypeOK
<1>7. CASE ttl = 1
  <2>1. ttl' = NoTTL /\ count' = 0 /\ Since = Window
    BY <1>2, <1>7, TypedState DEF Tick, Since, NoTTL
  <2>2. Waits <= faults
    BY <1>2, <1>7, TypedState DEF NoTTL
  <2>3. WaitingInv'
    BY <1>1, <1>2, <1>3, <2>1, <2>2, TypedState DEF WaitingInv
  <2>4. Since' = 1 /\ Counted' = 0
    BY <1>2, <2>1, TypedState DEF Since, Counted
  <2>5. recent'[Window] < recent[Window]
    BY <1>2, <1>4, <1>7, <2>1, TypedState DEF AdmissionInv, SetterInv, NoTTL
  <2>6. KeyInv'
    BY <1>2, <1>3, <1>6, <2>1, <2>2, <2>4, <2>5, TypedState DEF AdmissionInv, KeyInv
  <2>7. SetterInv'
    BY <2>1 DEF SetterInv
  <2>8. QED
    BY <1>1, <1>5, <2>3, <2>6, <2>7 DEF AdmissionInv
<1>8. CASE ttl = NoTTL
  <2>1. ttl' = NoTTL /\ count' = count /\ Since = 1 /\ Since' = 1 /\ Counted' = Counted
    BY <1>8 DEF Tick, Since, NoTTL, Counted
  <2>2. WaitingInv'
    BY <1>1, <1>2, <1>3, <1>8, <2>1 DEF WaitingInv
  <2>3. KeyInv'
    BY <1>2, <1>3, <1>6, <2>1, TypedState DEF AdmissionInv, KeyInv
  <2>4. SetterInv'
    BY <2>1 DEF SetterInv
  <2>5. QED
    BY <1>1, <1>5, <2>2, <2>3, <2>4 DEF AdmissionInv
<1>9. CASE ttl \notin {1, NoTTL}
  <2>1. ttl' = ttl - 1 /\ ttl' # NoTTL /\ count' = count /\ Counted' = Counted
    BY <1>2, <1>9, TypedState DEF Tick, NoTTL, Counted
  <2>2. Since' = Since + 1 /\ Since + 1 \in Spans /\ Since \in Spans /\ Since >= 1
    BY <1>2, <1>9, <2>1, TypedState DEF Since, NoTTL, Spans
  <2>3. recent'[Since'] = recent[Since]
    BY <1>4, <2>2 DEF Spans
  <2>4. WaitingInv'
    BY <1>1, <1>2, <1>3, <1>9, <2>1 DEF WaitingInv
  <2>5. KeyInv'
    BY <1>2, <1>3, <1>6, <2>1, <2>3, TypedState DEF AdmissionInv, KeyInv
  <2>6. SetterInv'
    <3>1. recent[Since] > 0 /\ (Since > 1 => recent[Since - 1] < recent[Since])
      BY <1>9 DEF AdmissionInv, SetterInv
    <3>2. recent'[Since] = IF Since = 1 THEN 0 ELSE recent[Since - 1]
      BY <1>4, <2>2
    <3>3. Since' - 1 = Since
      BY <2>2 DEF Spans
    <3>4. recent'[Since' - 1] < recent'[Since']
      BY <2>2, <2>3, <3>1, <3>2, <3>3 DEF Spans
    <3>5. QED
      BY <2>3, <3>1, <3>4 DEF SetterInv
  <2>7. QED
    BY <1>1, <1>5, <2>4, <2>5, <2>6 DEF AdmissionInv
<1>10. QED
  BY <1>7, <1>8, <1>9

LEMMA CrashAdmits == ASSUME AdmissionInv, Crash PROVE AdmissionInv'
<1>1. IInv /\ IInv' /\ Fault /\ UNCHANGED <<count, ttl, recent>>
  BY NextKeeps DEF AdmissionInv, Crash, Next
<1>2. Waiting' = {}
  BY DEF Crash, Waiting
<1>3. IsFiniteSet(Waiting') /\ Waits' = 0
  BY <1>2, FS_EmptySet DEF Waits
<1>4. Extra' = Extra + Limit /\ faults' = faults + 1 /\ Extra \in Nat
  BY <1>1, ExtraStep, ExtraType
<1>5. WaitingInv'
  BY <1>1, <1>3, <1>4, TypedState DEF WaitingInv
<1>6. Grows' /\ SetterInv' /\ Since' = Since /\ Counted' = Counted
  BY <1>1, SetterStays DEF Counted
<1>7. KeyInv'
  BY <1>1, <1>3, <1>4, <1>6, TypedState, WaitsType DEF AdmissionInv, KeyInv
<1>8. QED
  BY <1>1, <1>5, <1>6, <1>7 DEF AdmissionInv

LEMMA RestartAdmits == ASSUME AdmissionInv, RestartRedis PROVE AdmissionInv'
<1>1. IInv /\ IInv' /\ Fault /\ UNCHANGED <<pc, recent>> /\ count' = 0 /\ ttl' = NoTTL
  BY NextKeeps DEF AdmissionInv, RestartRedis, Next
<1>2. IsFiniteSet(Waiting') /\ Waits' = Waits /\ Waits \in Nat
  BY <1>1, Stay, WaitsType DEF AdmissionInv
<1>3. Extra' = Extra + Limit /\ faults' = faults + 1 /\ Extra \in Nat
  BY <1>1, ExtraStep, ExtraType
<1>4. WaitingInv'
  BY <1>1, <1>2, <1>3, TypedState DEF AdmissionInv, WaitingInv
<1>5. Grows' /\ SetterInv' /\ Since' = 1 /\ Counted' = 0
  BY <1>1, TypedState DEF AdmissionInv, Grows, SetterInv, Since, Counted
<1>6. recent[1] <= recent[Since]
  BY <1>1, TypedState DEF AdmissionInv, Grows, Spans
<1>7. KeyInv'
  BY <1>1, <1>2, <1>3, <1>5, <1>6, TypedState DEF AdmissionInv, KeyInv
<1>8. QED
  BY <1>1, <1>4, <1>5, <1>7 DEF AdmissionInv

LEMMA NextAdmits == ASSUME AdmissionInv, [Next]_vars PROVE AdmissionInv'
<1>1. CASE UNCHANGED vars
  BY <1>1, NextKeeps
  DEF AdmissionInv, vars, WaitingInv, Grows, KeyInv, SetterInv, Waiting, Waits, Extra,
      Counted, Since
<1>2. QED
  BY <1>1, IncrementAdmits, ExpireAdmits, TickAdmits, CrashAdmits, RestartAdmits DEF Next

\* The fixed window of CheckRateLimit, and AllowWebhook's choice to let requests
\* in when Redis fails, let fewer than twice the limit in during any span as
\* long as a window, and another limit for each fault, whichever way requests,
\* their INCR and EXPIRE, crashes and Redis restarts interleave.
THEOREM AdmissionBounded == Spec => []AdmissionBound
<1>1. AdmissionInv => AdmissionBound
  <2> SUFFICES ASSUME AdmissionInv PROVE AdmissionBound
    OBVIOUS
  <2>1. Waits \in Nat /\ Extra \in Nat /\ IInv
    BY WaitsType, ExtraType DEF AdmissionInv
  <2>2. recent[Window] <= 2 * Limit + Extra - 1
    BY <2>1, TypedState DEF AdmissionInv, KeyInv
  <2>3. \A l, f \in Nat : l * (2 + f) = 2 * l + l * f
    OBVIOUS
  <2>4. QED
    BY <2>1, <2>2, <2>3, TypedState DEF Extra, AdmissionBound
<1>2. AdmissionInv /\ [Next]_vars => AdmissionInv'
  BY NextAdmits
<1>3. QED
  BY <1>1, <1>2, InitAdmission, PTL DEF Spec

=============================================================================
