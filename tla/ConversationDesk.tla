-------------------------- MODULE ConversationDesk --------------------------
(***************************************************************************)
(* Conversations against SupportDesk.  No read of a request locks a row,   *)
(* so a transaction may be overtaken: before it commits, a conversation it *)
(* relies on is changed by another commit, or by loading the demo data.    *)
(* Two history variables say which were, and where the overtaken ones left *)
(* their mark; whatever else is under way, and on however many             *)
(* connections, every other request keeps the desk's promise.              *)
(***************************************************************************)
EXTENDS Conversations

\* A conversation that does not exist has no thread.
ASSUME ThreadAssumption == NoOne \notin Ids \X Channels

VARIABLES
  overtaken,  \* the open transactions that rely on what is no longer so
  raced       \* the threads changed by an overtaken commit or by a reload

Row(table, i) == CHOOSE row \in table : row.id = i
Has(table, i) == \E row \in table : row.id = i
TicketsOf(i) == {k \in tickets : k.conversation = i}

deskStatus ==
  [i \in Ids |-> IF Has(conversations, i) THEN Row(conversations, i).status
                 ELSE "none"]
deskThread ==
  [i \in Ids |-> IF Has(conversations, i)
                 THEN <<Row(conversations, i).customer, Row(conversations, i).channel>>
                 ELSE NoOne]
deskHolder ==
  [i \in Ids |-> IF Has(conversations, i)
                 THEN Row(conversations, i).assigned_agent_id ELSE NoOne]
deskTicket ==
  [i \in Ids |-> IF TicketsOf(i) = {} THEN "none"
                 ELSE (CHOOSE k \in TicketsOf(i) : TRUE).status]

Desk == INSTANCE SupportDesk
          WITH Threads <- Ids \X Channels, Admins <- Users \ Agents,
               status <- deskStatus, thread <- deskThread,
               holder <- deskHolder, ticket <- deskTicket

-----------------------------------------------------------------------------
(* Overtaking *)

deskVars == <<vars, overtaken, raced>>

\* The conversations that show something else after the step; one that is
\* only touched (updated_at) shows the same.
Changed ==
  {i \in Ids : \/ deskStatus'[i] # deskStatus[i]
               \/ deskThread'[i] # deskThread[i]
               \/ deskHolder'[i] # deskHolder[i]}

\* The transaction of q writes what it made of conversation i, or opens one
\* because it found none active on the thread i is on.
ReliesOn(q, i) ==
  \/ call[q].conversation = i
  \/ \E c \in tx[q].conversations :
       c.id = q /\ deskThread'[i] = <<c.customer, c.channel>>

\* The step is the commit of a transaction that read the latest.
CommitInTime == \E r \in Requests \ overtaken : Commits(r)

Watch ==
  /\ overtaken' =
       {q \in Requests : /\ pc[q] = "tx" /\ pc'[q] = "tx"
                         /\ q \in overtaken \/ \E i \in Changed : ReliesOn(q, i)}
  /\ raced' = IF CommitInTime THEN raced
              ELSE raced \cup {deskThread'[i] : i \in Changed}

DeskInit == Init /\ overtaken = {} /\ raced = {}
DeskNext == Next /\ Watch
DeskSpec == DeskInit /\ [][DeskNext]_deskVars

-----------------------------------------------------------------------------
(* Properties *)

\* A customer has at most one active conversation on a channel (a webhook
\* reuses it), unless this very thread was changed by an overtaken commit or
\* by loading the demo data.
OneActiveUnlessRaced ==
  \A c, d \in conversations :
    /\ c.status \in OpenOrAssigned /\ d.status \in OpenOrAssigned
    /\ c.customer = d.customer /\ c.channel = d.channel
    /\ <<c.customer, c.channel>> \notin raced
    => c.id = d.id

\* A conversation that was closed is closed for good: it is not assigned,
\* replied to, escalated or reopened by a message, unless its thread was
\* changed by an overtaken commit or by loading the demo data.
ClosedUnlessRaced ==
  \A e \in outbox, c \in conversations :
    /\ e.type = "conversation.closed" /\ e.entity = c.id
    /\ <<c.customer, c.channel>> \notin raced
    => c.status = "closed"

\* From its first state on the desk moves by its own steps only, except when
\* the demo data is loaded again (no request moves) or the commit is of an
\* overtaken transaction.
ImplementsDesk ==
  /\ Desk!Init
  /\ [][pc' # pc /\ (\A r \in overtaken : ~Commits(r)) => Desk!Next]_(Desk!vars)

\* What request r asked for, done on the desk.  An assignment of a conversation
\* that has an agent is answered and not done (AssignTakesEffect).
Performs(r) ==
  LET i == call[r].conversation
      agent == call[r].agent
      op == call[r].op
  IN  \/ op = "webhook" /\ (Desk!Receive(i) \/ \E th \in Ids \X Channels : Desk!Open(i, th))
      \/ op = "assign" /\ \/ Desk!Assign(i, agent)
                          \/ i \in Desk!Active /\ deskHolder[i] \notin {NoOne, agent}
                             /\ UNCHANGED Desk!vars
      \/ op = "reply" /\ Desk!Reply(i, agent)
      \/ op = "close" /\ Desk!Close(i, agent)
      \/ op = "escalate" /\ Desk!Escalate(i, agent)
      \/ op = "status" /\ \E s \in TicketStatus : Desk!Triage(i, s)

\* A commit that was not overtaken does the operation its request asked for, on
\* the conversation the request named and with the caller it came from: a
\* reply, close or escalation finds the conversation free or the caller's own
\* at the commit, not only at the check, and takes it from nobody.
CommitsPerform ==
  [][\A r \in Requests \ overtaken : Commits(r) => Performs(r)]_deskVars

=============================================================================
