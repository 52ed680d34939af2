---------------------------- MODULE OutboxWorker ----------------------------
(***************************************************************************)
(* The outbox worker (cmd/worker): it polls the rows of outbox_events that *)
(* are not marked published, hands each to RabbitMQ over the one           *)
(* connection it opened at its start, and marks the row.  The API commits  *)
(* rows meanwhile; the process may be stopped or killed and is started     *)
(* again, statements may fail, the broker may restart.                     *)
(***************************************************************************)
EXTENDS Naturals, FiniteSets, Sequences

CONSTANTS
  Events,     \* the rows the API commits
  BatchSize,  \* the limit of ListPendingOutbox, 50 in the code
  Faults,     \* which of "kill", "stop", "db" and "broker" may happen
  MaxFaults,  \* bound on how many do
  MaxSecond   \* bound on the clock

ASSUME ConstantsAssumption ==
  /\ BatchSize \in Nat \ {0}
  /\ Faults \subseteq {"kill", "stop", "db", "broker"}
  /\ MaxFaults \in Nat
  /\ MaxSecond \in Nat

VARIABLES
  outbox,      \* the committed rows
  created_at,  \* the second of each
  published,   \* rows whose published_at is set
  failed,      \* rows whose failed_at is set
  pc,          \* where the worker stands
  batch,       \* the rows it has read and not dealt with
  link,        \* its connection to the broker
  stopping,    \* SIGTERM has cancelled its context
  broker,      \* the broker is up
  wire,        \* rows handed to the connection, not yet taken by the broker
  arrived,     \* rows the broker has taken
  sent,        \* how often each row was handed to the connection
  faults,      \* the faults so far
  now

rows == <<outbox, created_at, published, failed>>
worker == <<pc, batch, link, stopping>>
channel == <<wire, arrived, sent>>
vars == <<rows, worker, broker, channel, faults, now>>

TypeOK ==
  /\ outbox \subseteq Events
  /\ created_at \in [Events -> Nat]
  /\ published \subseteq outbox /\ failed \subseteq outbox
  /\ pc \in {"down", "dialing", "idle", "publish", "published", "failed"}
  /\ batch \in Seq(outbox)
  /\ link \in {"none", "up", "lost"}
  /\ stopping \in BOOLEAN /\ broker \in BOOLEAN
  /\ wire \subseteq outbox /\ arrived \subseteq outbox
  /\ sent \in [Events -> Nat]
  /\ faults \in 0..MaxFaults /\ now \in 0..MaxSecond

Init ==
  /\ outbox = {} /\ created_at = [e \in Events |-> 0]
  /\ published = {} /\ failed = {}
  /\ pc = "down" /\ batch = <<>> /\ link = "none" /\ stopping = FALSE
  /\ broker = TRUE
  /\ wire = {} /\ arrived = {} /\ sent = [e \in Events |-> 0]
  /\ faults = 0 /\ now = 0

Fault(kind) ==
  /\ kind \in Faults
  /\ faults < MaxFaults
  /\ faults' = faults + 1

-----------------------------------------------------------------------------
(* The API and the clock *)

\* A request commits an event; created_at, in seconds, is the time of the
\* insert: an event may appear behind younger ones that are published already.
CommitEvent(e) ==
  /\ e \notin outbox
  /\ outbox' = outbox \cup {e}
  /\ \E second \in 0..now : created_at' = [created_at EXCEPT ![e] = second]
  /\ UNCHANGED <<published, failed, worker, broker, channel, faults, now>>

Tick ==
  /\ now < MaxSecond
  /\ now' = now + 1
  /\ UNCHANGED <<rows, worker, broker, channel, faults>>

-----------------------------------------------------------------------------
(* The worker *)

\* run() up to waitForPublisher
Start ==
  /\ pc = "down"
  /\ pc' = "dialing"
  /\ UNCHANGED <<rows, batch, link, stopping, broker, channel, faults, now>>

\* waitForPublisher tries every two seconds until the broker answers; this is
\* the only place that opens a connection.
Dial ==
  /\ pc = "dialing" /\ broker
  /\ pc' = "idle" /\ link' = "up"
  /\ UNCHANGED <<rows, batch, stopping, broker, channel, faults, now>>

MutantPending == outbox

Pending == outbox \ published

\* ListPendingOutbox: the oldest BatchSize rows, oldest first, rows of one
\* second in any order.
PendingBatches ==
  LET size == IF Cardinality(Pending) < BatchSize THEN Cardinality(Pending)
              ELSE BatchSize
  IN  {b \in [1..size -> Pending] :
         /\ \A m, n \in 1..size :
              m < n => b[m] # b[n] /\ created_at[b[m]] <= created_at[b[n]]
         /\ \A e \in Pending \ {b[n] : n \in 1..size}, n \in 1..size :
              created_at[b[n]] <= created_at[e]}

\* A tick that finds nothing
PollNothing ==
  /\ pc = "idle" /\ ~stopping /\ Pending = {}
  /\ UNCHANGED vars

MutantMarkedFirst ==
  /\ pc = "idle" /\ ~stopping /\ Pending # {}
  /\ batch' \in PendingBatches
  /\ published' = published \cup {batch'[n] : n \in 1..Len(batch')}
  /\ pc' = "publish"
  /\ UNCHANGED <<outbox, created_at, failed, link, stopping, broker, channel,
                 faults, now>>

\* A tick with its context alive; a read that fails waits for the next tick.
Poll ==
  /\ pc = "idle" /\ ~stopping /\ Pending # {}
  /\ batch' \in PendingBatches
  /\ pc' = "publish"
  /\ UNCHANGED <<rows, link, stopping, broker, channel, faults, now>>

MutantPublishErrorDropped ==
  /\ pc = "publish"
  /\ IF link = "up" THEN /\ wire' = wire \cup {Head(batch)}
                         /\ sent' = [sent EXCEPT ![Head(batch)] = @ + 1]
                    ELSE UNCHANGED <<wire, sent>>
  /\ pc' = "published"
  /\ UNCHANGED <<rows, batch, link, stopping, broker, arrived, faults, now>>

\* Publish hands the event to the connection without waiting for a confirm,
\* and does not look at the context; on a connection that is gone it fails.
Publish ==
  /\ pc = "publish"
  /\ IF link = "up" THEN /\ wire' = wire \cup {Head(batch)}
                         /\ sent' = [sent EXCEPT ![Head(batch)] = @ + 1]
                         /\ pc' = "published"
                    ELSE /\ pc' = "failed"
                         /\ UNCHANGED <<wire, sent>>
  /\ UNCHANGED <<rows, batch, link, stopping, broker, arrived, faults, now>>

NextOfBatch ==
  /\ batch' = Tail(batch)
  /\ pc' = IF Tail(batch) = <<>> THEN "idle" ELSE "publish"

MutantFailedKept ==
  /\ pc = "published" /\ ~stopping
  /\ published' = published \cup {Head(batch)}
  /\ NextOfBatch
  /\ UNCHANGED <<outbox, created_at, failed, link, stopping, broker, channel,
                 faults, now>>

MutantRowDeleted ==
  /\ pc = "published" /\ ~stopping
  /\ outbox' = outbox \ {Head(batch)}
  /\ published' = published \cup {Head(batch)}
  /\ NextOfBatch
  /\ UNCHANGED <<created_at, failed, link, stopping, broker, channel, faults,
                 now>>

MarkOutboxPublished ==
  /\ pc = "published" /\ ~stopping
  /\ published' = published \cup {Head(batch)}
  /\ failed' = failed \ {Head(batch)}
  /\ NextOfBatch
  /\ UNCHANGED <<outbox, created_at, link, stopping, broker, channel, faults,
                 now>>

MarkOutboxFailed ==
  /\ pc = "failed" /\ ~stopping
  /\ failed' = failed \cup {Head(batch)}
  /\ NextOfBatch
  /\ UNCHANGED <<outbox, created_at, published, link, stopping, broker,
                 channel, faults, now>>

\* Either mark fails when the context is cancelled or the statement does; the
\* row is left as it is and the batch goes on.
MarkFails ==
  /\ pc \in {"published", "failed"}
  /\ \/ stopping /\ UNCHANGED faults
     \/ ~stopping /\ Fault("db")
  /\ NextOfBatch
  /\ UNCHANGED <<rows, link, stopping, broker, channel, now>>

MutantNeverExits == FALSE /\ UNCHANGED vars

\* The loop sees the cancelled context between batches, waitForPublisher
\* between its tries; Close waits for the broker to take what is on the wire.
Exit ==
  /\ stopping /\ pc \in {"dialing", "idle"}
  /\ link = "up" => wire = {}
  /\ pc' = "down" /\ link' = "none" /\ stopping' = FALSE
  /\ UNCHANGED <<rows, batch, broker, channel, faults, now>>

-----------------------------------------------------------------------------
(* What happens to it *)

\* SIGTERM
Stop ==
  /\ pc # "down" /\ ~stopping
  /\ stopping' = TRUE
  /\ Fault("stop")
  /\ UNCHANGED <<rows, pc, batch, link, broker, channel, now>>

\* SIGKILL: what was handed to the connection is the kernel's and still goes out.
Kill ==
  /\ pc # "down"
  /\ pc' = "down" /\ batch' = <<>> /\ link' = "none" /\ stopping' = FALSE
  /\ Fault("kill")
  /\ UNCHANGED <<rows, broker, channel, now>>

\* The broker goes down and with it its connections and what is on the wire.
BrokerStops ==
  /\ broker /\ broker' = FALSE
  /\ link' = IF link = "up" THEN "lost" ELSE link
  /\ wire' = {}
  /\ Fault("broker")
  /\ UNCHANGED <<rows, pc, batch, stopping, arrived, sent, now>>

BrokerStarts ==
  /\ ~broker /\ broker' = TRUE
  /\ UNCHANGED <<rows, worker, channel, faults, now>>

BrokerTakes(e) ==
  /\ e \in wire
  /\ wire' = wire \ {e} /\ arrived' = arrived \cup {e}
  /\ UNCHANGED <<rows, worker, broker, sent, faults, now>>

Next ==
  \/ \E e \in Events : CommitEvent(e) \/ BrokerTakes(e)
  \/ Tick
  \/ Start \/ Dial \/ PollNothing \/ Poll \/ Publish
  \/ MarkOutboxPublished \/ MarkOutboxFailed \/ MarkFails \/ Exit
  \/ Stop \/ Kill \/ BrokerStops \/ BrokerStarts

\* The container is restarted when it exits, its loop and its ticker go on,
\* and a broker that went down comes back; nothing obliges the API to commit
\* or a fault to happen.
Fairness ==
  /\ WF_vars(Start) /\ WF_vars(Dial) /\ WF_vars(Poll) /\ WF_vars(Publish)
  /\ WF_vars(MarkOutboxPublished) /\ WF_vars(MarkOutboxFailed)
  /\ WF_vars(MarkFails) /\ WF_vars(Exit)
  /\ WF_vars(BrokerStarts) /\ \A e \in Events : WF_vars(BrokerTakes(e))

Spec == Init /\ [][Next]_vars
FairSpec == Spec /\ Fairness

-----------------------------------------------------------------------------
\* A row is marked published only after its event was handed to the
\* connection, at whichever point the worker stops, dies or fails.
PublishedWasSent == \A e \in published : sent[e] > 0

\* An event goes out twice only for a fault: a kill or a cancelled context
\* between publish and mark, or a mark that failed.
DuplicatesNeedAFault == \A e \in Events : sent[e] <= 1 + faults

\* failed_at tells of a row that is still to be published.
FailedIsPending == failed \cap published = {}

Handed == {e \in Events : sent[e] > 0}

Delivery == INSTANCE EventDelivery
  WITH committed <- outbox, marked <- published, handed <- Handed,
       onTheWay <- wire, taken <- arrived

\* Kills, cancelled contexts, failing marks and broker restarts may each send an
\* event again, but the worker's batch, which it read a while ago, never has it
\* send one whose row is marked, or mark a row of which nothing was sent.
ImplementsDelivery == Delivery!Spec

\* Every committed event is published.
EventuallyPublished == \A e \in Events : e \in outbox ~> e \in published

\* However often the worker is stopped or killed and whichever marks fail, a
\* pending event is published unless the broker cuts the connection.
PublishedUnlessCutOff ==
  \A e \in Events : e \in Pending ~> e \in published \/ link = "lost"

\* And it reaches the broker, although nothing confirms it, unless the broker
\* goes down after the event was committed or has cut the connection before.
ArrivesUnlessCutOff ==
  \A e \in Events : e \in Pending ~> e \in arrived \/ ~broker \/ link = "lost"

=============================================================================
