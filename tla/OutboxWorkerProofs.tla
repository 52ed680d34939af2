------------------------- MODULE OutboxWorkerProofs -------------------------
(***************************************************************************)
(* The safety of the outbox worker for any set of events, any batch size   *)
(* and any number of faults.  The induction rests on the batch: what the   *)
(* worker holds is not marked, is held once, and has been sent no more     *)
(* often than there were faults before it was read.                        *)
(***************************************************************************)
EXTENDS OutboxWorker, FiniteSetTheorems, SequenceTheorems, TLAPS

Held == {batch[n] : n \in 1..Len(batch)}

BatchSound ==
  /\ IsFiniteSet(outbox)
  /\ pc \in {"publish", "published", "failed"} => batch # <<>>
  /\ Held \cap published = {}
  /\ \A m, n \in 1..Len(batch) : batch[m] = batch[n] => m = n
  /\ pc = "published" => sent[Head(batch)] > 0

\* A fault that is still to show: SIGTERM was received, and what the worker
\* sends from now on stays unmarked.
Pardoned == IF stopping THEN 1 ELSE 0

InFlight(e) == pc = "published" /\ e = Head(batch)

SentSound ==
  /\ stopping => faults > 0
  /\ \A e \in Events :
       /\ sent[e] <= 1 + faults
       /\ e \notin published /\ ~InFlight(e) => sent[e] <= faults
       /\ e \in Held /\ ~InFlight(e) => sent[e] <= faults - Pardoned
       /\ InFlight(e) => sent[e] <= 1 + faults - Pardoned

IInv == TypeOK /\ BatchSound /\ PublishedWasSent /\ FailedIsPending /\ SentSound

-----------------------------------------------------------------------------
\* What the worker reads is not empty, not marked, and no row twice.
LEMMA BatchRead ==
  ASSUME IsFiniteSet(Pending), Pending # {}, NEW b \in PendingBatches
  PROVE  /\ b \in Seq(Pending) /\ b # <<>>
         /\ \A m, n \in 1..Len(b) : b[m] = b[n] => m = n
<1> DEFINE size == IF Cardinality(Pending) < BatchSize THEN Cardinality(Pending)
                   ELSE BatchSize
<1>1. size \in Nat /\ size >= 1
  <2>1. Cardinality(Pending) \in Nat /\ Cardinality(Pending) # 0
    BY FS_CardinalityType, FS_EmptySet
  <2> QED
    BY <2>1, ConstantsAssumption
<1>2. b \in [1..size -> Pending] /\ \A m, n \in 1..size : m < n => b[m] # b[n]
  BY DEF PendingBatches
<1> HIDE DEF size
<1>3. b \in Seq(Pending) /\ Len(b) = size
  BY <1>1, <1>2
<1> QED
  BY <1>1, <1>2, <1>3

\* What is left when the row at the head is dealt with.
LEMMA BatchTail ==
  ASSUME NEW S, NEW b \in Seq(S), b # <<>>,
         \A m, n \in 1..Len(b) : b[m] = b[n] => m = n
  PROVE  /\ Head(b) \in S /\ Head(b) = b[1] /\ 1 \in 1..Len(b)
         /\ Tail(b) \in Seq(S)
         /\ \A n \in 1..Len(Tail(b)) :
              n + 1 \in 1..Len(b) /\ Tail(b)[n] = b[n + 1] /\ Tail(b)[n] # Head(b)
         /\ \A m, n \in 1..Len(Tail(b)) : Tail(b)[m] = Tail(b)[n] => m = n
<1>1. Len(b) \in Nat /\ Len(b) >= 1
  BY EmptySeq, LenProperties
<1>2. Head(b) = b[1] /\ Head(b) \in S
  BY <1>1, HeadTailProperties
<1>3. Tail(b) \in Seq(S) /\ Len(Tail(b)) = Len(b) - 1
      /\ \A n \in 1..Len(Tail(b)) : Tail(b)[n] = b[n + 1]
  BY <1>1, HeadTailProperties
<1> QED
  BY <1>1, <1>2, <1>3

\* The row at the head, while there is one.
LEMMA HeadHeld ==
  ASSUME IInv, batch # <<>>
  PROVE  Head(batch) \in Held /\ Head(batch) \in outbox /\ Head(batch) \in Events
<1>1. batch \in Seq(outbox) /\ outbox \subseteq Events
  BY DEF IInv, TypeOK
<1> QED
  BY <1>1, BatchTail DEF IInv, BatchSound, Held

\* Going on to the next row: the head is held no more, the others still are.
LEMMA NextHeld ==
  ASSUME IInv, batch # <<>>, NextOfBatch
  PROVE  /\ batch' \in Seq(outbox)
         /\ Held' = Held \ {Head(batch)}
         /\ \A m, n \in 1..Len(batch') : batch'[m] = batch'[n] => m = n
         /\ pc' \in {"idle", "publish"}
         /\ pc' = "publish" => batch' # <<>>
<1>1. batch \in Seq(outbox) /\ \A m, n \in 1..Len(batch) : batch[m] = batch[n] => m = n
  BY DEF IInv, TypeOK, BatchSound
<1>2. /\ Tail(batch) \in Seq(outbox) /\ Head(batch) = batch[1]
      /\ \A n \in 1..Len(Tail(batch)) :
           n + 1 \in 1..Len(batch) /\ Tail(batch)[n] = batch[n + 1]
           /\ Tail(batch)[n] # Head(batch)
      /\ \A m, n \in 1..Len(Tail(batch)) : Tail(batch)[m] = Tail(batch)[n] => m = n
  BY <1>1, BatchTail
<1>3. Len(batch) \in Nat /\ Len(Tail(batch)) = Len(batch) - 1
  BY <1>1, LenProperties, HeadTailProperties
<1>4. batch' = Tail(batch)
  BY DEF NextOfBatch
<1>5. Held' = Held \ {Head(batch)}
  <2>1. ASSUME NEW n \in 1..Len(batch), batch[n] # Head(batch)
        PROVE  n - 1 \in 1..Len(Tail(batch)) /\ Tail(batch)[n - 1] = batch[n]
    BY <2>1, <1>2, <1>3
  <2>2. Held' = {Tail(batch)[n] : n \in 1..Len(Tail(batch))}
    BY <1>4 DEF Held
  <2>3. ASSUME NEW e \in Held' PROVE e \in Held \ {Head(batch)}
    <3>1. PICK n \in 1..Len(Tail(batch)) : e = Tail(batch)[n]
      BY <2>2, <2>3
    <3> QED
      BY <3>1, <1>2 DEF Held
  <2>4. ASSUME NEW e \in Held \ {Head(batch)} PROVE e \in Held'
    <3>1. PICK n \in 1..Len(batch) : e = batch[n]
      BY <2>4 DEF Held
    <3> QED
      BY <3>1, <2>1, <2>2, <2>4
  <2> QED
    BY <2>3, <2>4
<1> QED
  BY <1>2, <1>4, <1>5 DEF NextOfBatch

-----------------------------------------------------------------------------
(* The steps *)

LEMMA InitSound == Init => IInv
<1> SUFFICES ASSUME Init PROVE IInv
  OBVIOUS
<1> USE DEF Init
<1>1. TypeOK
  <2>1. batch \in Seq(outbox)
    BY EmptySeq
  <2>2. faults \in 0..MaxFaults /\ now \in 0..MaxSecond
    BY ConstantsAssumption
  <2> QED
    BY <2>1, <2>2 DEF TypeOK
<1>2. Held = {} /\ Len(batch) = 0
  BY DEF Held
<1>3. BatchSound
  BY <1>2, FS_EmptySet DEF BatchSound
<1>4. PublishedWasSent /\ FailedIsPending
  BY DEF PublishedWasSent, FailedIsPending
<1>5. SentSound
  BY <1>2 DEF SentSound, InFlight
<1> QED
  BY <1>1, <1>3, <1>4, <1>5 DEF IInv

LEMMA CommitEventStep ==
  ASSUME IInv, NEW e \in Events, CommitEvent(e) PROVE IInv'
<1> USE DEF IInv, CommitEvent, worker, channel
<1>1. batch' \in Seq(outbox')
  BY SeqMonotonic DEF TypeOK
<1>2. TypeOK'
  BY <1>1 DEF TypeOK
<1>3. BatchSound'
  BY FS_AddElement DEF BatchSound, Held
<1>4. PublishedWasSent' /\ FailedIsPending'
  BY DEF PublishedWasSent, FailedIsPending
<1>5. SentSound'
  BY DEF SentSound, InFlight, Held, Pardoned
<1> QED
  BY <1>2, <1>3, <1>4, <1>5

\* Steps that leave the rows, the batch and what was sent.
LEMMA OtherSteps ==
  ASSUME IInv,
         \/ UNCHANGED vars \/ Tick \/ Start \/ Dial \/ PollNothing \/ Exit
         \/ Stop \/ BrokerStops \/ BrokerStarts
         \/ \E e \in Events : BrokerTakes(e)
  PROVE  IInv'
<1> USE ConstantsAssumption
    DEF IInv, vars, Tick, Start, Dial, PollNothing, Exit, Stop, BrokerStops,
        BrokerStarts, BrokerTakes, Fault, rows, worker, channel
<1>1. UNCHANGED <<outbox, created_at, published, failed, batch, sent>>
  OBVIOUS
<1>2. TypeOK'
  <2>1. faults' \in 0..MaxFaults /\ now' \in 0..MaxSecond
    BY DEF TypeOK
  <2>2. wire' \subseteq outbox /\ arrived' \subseteq outbox
    BY DEF TypeOK
  <2>3. /\ pc' \in {"down", "dialing", "idle", "publish", "published", "failed"}
        /\ link' \in {"none", "up", "lost"}
        /\ stopping' \in BOOLEAN /\ broker' \in BOOLEAN
    BY DEF TypeOK
  <2> QED
    BY <1>1, <2>1, <2>2, <2>3 DEF TypeOK
<1>3. BatchSound'
  BY <1>1 DEF BatchSound, Held
<1>4. PublishedWasSent' /\ FailedIsPending'
  BY <1>1 DEF PublishedWasSent, FailedIsPending
<1>5. SentSound'
  BY <1>1 DEF TypeOK, SentSound, InFlight, Held, Pardoned
<1> QED
  BY <1>2, <1>3, <1>4, <1>5

LEMMA KillStep == ASSUME IInv, Kill PROVE IInv'
<1> USE ConstantsAssumption DEF IInv, Kill, Fault, rows, channel
<1>1. batch' \in Seq(outbox) /\ Held' = {} /\ Len(batch') = 0
  BY DEF Held
<1>2. TypeOK'
  <2>1. faults' \in 0..MaxFaults
    BY DEF TypeOK
  <2> QED
    BY <1>1, <2>1 DEF TypeOK
<1>3. BatchSound' /\ PublishedWasSent' /\ FailedIsPending'
  BY <1>1 DEF BatchSound, PublishedWasSent, FailedIsPending
<1>4. SentSound'
  BY <1>1 DEF TypeOK, SentSound, InFlight
<1> QED
  BY <1>2, <1>3, <1>4

LEMMA PollStep == ASSUME IInv, Poll PROVE IInv'
<1> USE DEF IInv, Poll, rows, channel
<1>1. IsFiniteSet(Pending)
  BY FS_Subset DEF BatchSound, Pending
<1>2. /\ batch' \in Seq(Pending) /\ batch' # <<>>
      /\ \A m, n \in 1..Len(batch') : batch'[m] = batch'[n] => m = n
  BY <1>1, BatchRead
<1>3. Held' \subseteq Pending /\ Head(batch') \in Pending
  BY <1>2, ElementOfSeq, HeadTailProperties DEF Held
<1>4. batch' \in Seq(outbox)
  BY <1>2, SeqMonotonic DEF Pending
<1>5. TypeOK'
  BY <1>4 DEF TypeOK
<1>6. BatchSound'
  BY <1>2, <1>3 DEF BatchSound, Pending
<1>7. PublishedWasSent' /\ FailedIsPending'
  BY DEF PublishedWasSent, FailedIsPending
<1>8. SentSound'
  BY <1>3 DEF TypeOK, SentSound, InFlight, Pardoned, Pending
<1> QED
  BY <1>5, <1>6, <1>7, <1>8

LEMMA PublishStep == ASSUME IInv, Publish PROVE IInv'
<1> USE DEF IInv, Publish, rows
<1>1. batch # <<>> /\ Head(batch) \in Held \cap Events
  BY HeadHeld DEF BatchSound
<1>2. Head(batch) \in outbox /\ Head(batch) \notin published
  BY <1>1, HeadHeld DEF BatchSound
<1>3. TypeOK'
  <2>1. sent' \in [Events -> Nat] /\ wire' \subseteq outbox
    BY <1>1, <1>2 DEF TypeOK
  <2>2. pc' \in {"published", "failed"}
    OBVIOUS
  <2> QED
    BY <2>1, <2>2 DEF TypeOK
<1>4. BatchSound'
  BY <1>1 DEF BatchSound, Held, TypeOK
<1>5. PublishedWasSent' /\ FailedIsPending'
  BY <1>1, <1>2 DEF PublishedWasSent, FailedIsPending, TypeOK
<1>6. SentSound'
  BY <1>1, <1>2 DEF TypeOK, SentSound, InFlight, Pardoned, Held
<1> QED
  BY <1>3, <1>4, <1>5, <1>6

\* The three ways to deal with a row.
LEMMA MarkSteps ==
  ASSUME IInv, MarkOutboxPublished \/ MarkOutboxFailed \/ MarkFails
  PROVE  IInv'
<1> USE DEF IInv, MarkOutboxPublished, MarkOutboxFailed, MarkFails, Fault, rows, channel
<1>1. batch # <<>> /\ NextOfBatch
  BY DEF BatchSound
<1>2. Head(batch) \in Held \cap outbox \cap Events
  BY <1>1, HeadHeld
<1>3. /\ batch' \in Seq(outbox) /\ Held' = Held \ {Head(batch)}
      /\ \A m, n \in 1..Len(batch') : batch'[m] = batch'[n] => m = n
      /\ pc' \in {"idle", "publish"} /\ (pc' = "publish" => batch' # <<>>)
  BY <1>1, NextHeld
<1>4. TypeOK'
  BY <1>2, <1>3, ConstantsAssumption DEF TypeOK
<1>5. BatchSound'
  BY <1>2, <1>3 DEF BatchSound
<1>6. PublishedWasSent' /\ FailedIsPending'
  BY <1>2 DEF PublishedWasSent, FailedIsPending, BatchSound
<1>7. SentSound'
  <2>1. /\ faults \in Nat /\ faults' \in Nat /\ faults' >= faults
        /\ sent \in [Events -> Nat] /\ sent' = sent /\ stopping' = stopping
        /\ stopping => faults > 0
    BY DEF TypeOK, SentSound
  <2>2. ASSUME NEW e \in Events, e # Head(batch)
        PROVE  /\ sent[e] <= 1 + faults
               /\ e \notin published' => sent[e] <= faults
               /\ e \in Held' => sent[e] <= faults - Pardoned
    BY <2>2, <1>3 DEF SentSound, InFlight
  <2>3. Head(batch) \notin published' => sent[Head(batch)] <= faults'
    <3>1. CASE MarkOutboxPublished
      BY <3>1
    <3>2. CASE MarkOutboxFailed
      BY <3>2, <1>2 DEF SentSound, InFlight, BatchSound
    <3>3. CASE MarkFails /\ pc = "published"
      BY <3>3, <1>2, <2>1 DEF SentSound, InFlight, Pardoned
    <3>4. CASE MarkFails /\ pc = "failed"
      BY <3>4, <1>2, <2>1 DEF SentSound, InFlight, BatchSound
    <3> QED
      BY <3>1, <3>2, <3>3, <3>4
  <2>4. sent[Head(batch)] <= 1 + faults /\ Head(batch) \notin Held'
    BY <1>2, <1>3 DEF SentSound
  <2>5. \A e \in Events : ~InFlight(e)'
    BY <1>3 DEF InFlight
  <2>6. Pardoned' = Pardoned /\ Pardoned \in {0, 1}
    BY <2>1 DEF Pardoned
  <2> QED
    BY <2>1, <2>2, <2>3, <2>4, <2>5, <2>6 DEF SentSound
<1> QED
  BY <1>4, <1>5, <1>6, <1>7

THEOREM Invariance == Spec => []IInv
<1>1. IInv /\ [Next]_vars => IInv'
  BY CommitEventStep, OtherSteps, KillStep, PollStep, PublishStep, MarkSteps DEF Next
<1> QED
  BY InitSound, <1>1, PTL DEF Spec

-----------------------------------------------------------------------------
\* Every variable keeps its type.
THEOREM TypeCorrect == Spec => []TypeOK
<1>1. IInv => TypeOK
  BY DEF IInv
<1> QED
  BY <1>1, Invariance, PTL

\* A row is marked published only after its event was handed to the broker's
\* connection.
THEOREM PublishedSent == Spec => []PublishedWasSent
<1>1. IInv => PublishedWasSent
  BY DEF IInv
<1> QED
  BY <1>1, Invariance, PTL

\* An event is sent once, and once more for each fault at the most.
THEOREM Duplicates == Spec => []DuplicatesNeedAFault
<1>1. IInv => DuplicatesNeedAFault
  BY DEF IInv, SentSound, DuplicatesNeedAFault
<1> QED
  BY <1>1, Invariance, PTL

\* No published row tells of a failure.
THEOREM FailedPending == Spec => []FailedIsPending
<1>1. IInv => FailedIsPending
  BY DEF IInv
<1> QED
  BY <1>1, Invariance, PTL

-----------------------------------------------------------------------------
(* The refinement *)

\* The worker's own steps with an event: the row at the head is one of the
\* events, is not marked yet, and was sent when it is marked.
LEMMA WorkerDelivers ==
  ASSUME IInv, Poll \/ Publish \/ MarkOutboxPublished \/ MarkOutboxFailed \/ MarkFails
  PROVE  [Delivery!Next]_Delivery!vars
<1>1. CASE Publish /\ link = "up"
  <2>1. Head(batch) \in Events /\ Head(batch) \in outbox \ published
    BY <1>1, HeadHeld DEF IInv, BatchSound, Publish
  <2>2. Handed' = Handed \cup {Head(batch)}
    BY <1>1, <2>1 DEF Publish, Handed, IInv, TypeOK
  <2>3. Delivery!Send(Head(batch))
    BY <1>1, <2>1, <2>2 DEF Publish, rows, Delivery!Send
  <2>4. QED
    BY <2>1, <2>3 DEF Delivery!Next
<1>2. CASE MarkOutboxPublished
  <2>1. Head(batch) \in Events /\ Head(batch) \notin published /\ sent[Head(batch)] > 0
    BY <1>2, HeadHeld DEF IInv, BatchSound, MarkOutboxPublished
  <2>2. Head(batch) \in Handed /\ Handed' = Handed
    BY <1>2, <2>1 DEF MarkOutboxPublished, channel, Handed
  <2>3. Delivery!Mark(Head(batch))
    BY <1>2, <2>1, <2>2 DEF MarkOutboxPublished, channel, Delivery!Mark
  <2>4. QED
    BY <2>1, <2>3 DEF Delivery!Next
<1>3. CASE (Publish /\ link # "up") \/ Poll \/ MarkOutboxFailed \/ MarkFails
  BY <1>3 DEF Publish, Poll, MarkOutboxFailed, MarkFails, rows, channel, Handed, Delivery!vars
<1>4. QED
  BY <1>1, <1>2, <1>3

\* What happens around it.
LEMMA OthersDeliver ==
  ASSUME IInv,
         \/ UNCHANGED vars \/ Tick \/ Start \/ Dial \/ PollNothing \/ Exit
         \/ Stop \/ Kill \/ BrokerStops \/ BrokerStarts
         \/ \E e \in Events : CommitEvent(e) \/ BrokerTakes(e)
  PROVE  [Delivery!Next]_Delivery!vars
<1>1. Handed' = Handed
  BY DEF vars, Tick, Start, Dial, PollNothing, Exit, Stop, Kill, BrokerStops, BrokerStarts,
     CommitEvent, BrokerTakes, channel, Handed
<1>2. CASE UNCHANGED vars \/ Tick \/ Start \/ Dial \/ PollNothing \/ Exit \/ Stop \/ Kill
           \/ BrokerStarts
  BY <1>1, <1>2
  DEF vars, Tick, Start, Dial, PollNothing, Exit, Stop, Kill, BrokerStarts, rows, channel,
      Delivery!vars
<1>3. CASE BrokerStops
  BY <1>1, <1>3 DEF BrokerStops, rows, Delivery!Next, Delivery!Lose
<1>4. ASSUME NEW e \in Events, CommitEvent(e) PROVE Delivery!Next
  BY <1>1, <1>4 DEF CommitEvent, channel, Delivery!Next, Delivery!Commit
<1>5. ASSUME NEW e \in Events, BrokerTakes(e) PROVE Delivery!Next
  BY <1>1, <1>5 DEF BrokerTakes, rows, Delivery!Next, Delivery!Take
<1>6. QED
  BY <1>2, <1>3, <1>4, <1>5

\* The worker implements the delivery its consumers may rely on, for any number
\* of events, any batch size and any faults: it takes each event through commit,
\* send, mark, in this order, however stale its batch and whatever dies between.
THEOREM Refinement == Spec => ImplementsDelivery
<1>1. Init => Delivery!Init
  BY DEF Init, Delivery!Init, Handed
<1>2. IInv /\ [Next]_vars => [Delivery!Next]_Delivery!vars
  BY WorkerDelivers, OthersDeliver DEF Next
<1>3. QED
  BY <1>1, <1>2, Invariance, PTL DEF Spec, ImplementsDelivery, Delivery!Spec

=============================================================================
