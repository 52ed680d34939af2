------------------------------ MODULE AuditProofs ------------------------------
(***************************************************************************)
(* What is proved of the traces that the services' writes leave: the       *)
(* events that tell of them, the lists they invalidate, and the agent they *)
(* are made for.  The tables themselves are ConversationsProofs' matter.   *)
(***************************************************************************)
EXTENDS ConversationsProofs

-----------------------------------------------------------------------------
(* The inductive invariant *)

EventOf(events, r, type, entity) ==
  \E e \in events : e.request = r /\ e.type = type /\ e.entity = entity

\* The events of w, a write set of request r, tell of its rows and no others.
Accounts(r, w) ==
  /\ \A m \in w.messages :
       /\ m.id = r
       /\ EventOf(w.outbox, r, IF m.sender = NoOne THEN "channel.message.received"
                               ELSE "conversation.replied", m.conversation)
  /\ \A c \in w.conversations :
       /\ c.id = r => EventOf(w.outbox, r, "conversation.created", r)
       /\ c.status = "closed" => EventOf(w.outbox, r, "conversation.closed", c.id)
  /\ \A k \in w.tickets : k.id = r =>
       /\ EventOf(w.outbox, r, "ticket.created", r)
       /\ EventOf(w.outbox, r, "conversation.escalated", k.conversation)
  /\ \A e \in w.outbox :
       /\ e.request = r
       /\ e.type \in {"channel.message.received", "conversation.replied"} =>
            \E m \in w.messages : m.conversation = e.entity
       /\ e.type = "conversation.created" => \E c \in w.conversations : c.id = r
       /\ e.type \in {"conversation.escalated", "ticket.created"} =>
            \E k \in w.tickets : k.id = r

Names(list, lists) == \E n \in 1..Len(lists) : lists[n] = list

\* The lists that operation c will bump are those that w changes, and w changes
\* those of one tenant.
Announces(c, w) ==
  /\ \A row \in w.conversations : row.tenant = c.tenant
  /\ \A row \in w.tickets : row.tenant = c.tenant
  /\ w.conversations # {} => Names("conversations", BumpsOf(c.op))
  /\ w.tickets # {} => Names("tickets", BumpsOf(c.op))

\* A reply or close by an agent writes the row of the conversation it names,
\* with that agent.
ActsFor(c, w) ==
  c.op \in {"reply", "close"} /\ c.agent \in Agents =>
    \A row \in w.conversations :
      row.id = c.conversation /\ row.assigned_agent_id = c.agent

WriteSet(r, c, w) == Accounts(r, w) /\ Announces(c, w) /\ ActsFor(c, w)

\* It says nothing of the tables, so no other request can disturb it.
Prepared ==
  \A r \in Requests :
    pc[r] = "tx" => WriteSet(r, call[r], tx[r]) /\ bumps[r] = BumpsOf(call[r].op)

AInv == IInv /\ Prepared /\ AuditTrail

-----------------------------------------------------------------------------
(* What the operations write *)

LEMMA EventsTell ==
  ASSUME NEW r, NEW t, NEW i, NEW types
  PROVE  /\ \A type \in types : EventOf(DomainEvents(r, t, i, types), r, type, i)
         /\ \A e \in DomainEvents(r, t, i, types) :
              e.request = r /\ e.type \in types /\ e.entity = i
<1>1. ASSUME NEW type \in types
      PROVE  EventOf(DomainEvents(r, t, i, types), r, type, i)
  <2>1. [request |-> r, type |-> type, tenant |-> t, entity |-> i]
          \in DomainEvents(r, t, i, types)
    BY DEF DomainEvents
  <2>2. QED
    BY <2>1 DEF EventOf
<1>2. ASSUME NEW e \in DomainEvents(r, t, i, types)
      PROVE  e.request = r /\ e.type \in types /\ e.entity = i
  BY DEF DomainEvents
<1>3. QED
  BY <1>1, <1>2

LEMMA SavedRow ==
  ASSUME NEW loaded \in Conversation, NEW row \in Conversation,
         NEW c \in SaveConversation(loaded, row)
  PROVE  /\ c.id = row.id /\ c.tenant = row.tenant /\ c.status = row.status
         /\ c.customer = row.customer /\ c.channel = row.channel
         /\ c.assigned_agent_id = IF loaded.assigned_agent_id = NoOne
                                  THEN row.assigned_agent_id
                                  ELSE loaded.assigned_agent_id
BY DEF SaveConversation, Conversation

\* A request that has not begun has no row in the tables.
LEMMA NotYetThere ==
  ASSUME TablesSound, NEW r \in Requests, pc[r] = "idle"
  PROVE  /\ \A c \in conversations : c.id # r
         /\ \A k \in tickets : k.id # r
BY DEF TablesSound, KeysSound

LEMMA ListsNamed ==
  ASSUME NEW op
  PROVE  /\ op # "status" => Names("conversations", BumpsOf(op))
         /\ op \in {"escalate", "status"} => Names("tickets", BumpsOf(op))
<1>1. CASE op = "escalate"
  <2>1. BumpsOf(op) = <<"conversations", "tickets">>
    BY <1>1 DEF BumpsOf
  <2>2. 1 \in 1..Len(BumpsOf(op)) /\ 2 \in 1..Len(BumpsOf(op))
    BY <2>1
  <2>3. QED
    BY <2>1, <2>2 DEF Names
<1>2. CASE op = "status"
  <2>1. BumpsOf(op) = <<"tickets">>
    BY <1>2 DEF BumpsOf
  <2>2. 1 \in 1..Len(BumpsOf(op))
    BY <2>1
  <2>3. QED
    BY <1>2, <2>1, <2>2 DEF Names
<1>3. CASE op \notin {"escalate", "status"}
  <2>1. BumpsOf(op) = <<"conversations">>
    BY <1>3 DEF BumpsOf
  <2>2. 1 \in 1..Len(BumpsOf(op))
    BY <2>1
  <2>3. QED
    BY <1>3, <2>1, <2>2 DEF Names
<1>4. QED
  BY <1>1, <1>2, <1>3

LEMMA WebhookPrepares ==
  ASSUME TypeOK, TablesSound, NEW r \in Requests, NEW channel \in Channels,
         NEW external \in Externals, HandleWebhook(r, channel, external)
  PROVE  \E c, w : Begin(r, c, w) /\ WriteSet(r, c, w)
<1> DEFINE t == TenantOf[channel]
<1>1. PICK customer \in GetOrCreateCustomer(r, t, external) :
        LET active == FindActiveConversation(t, customer.id, channel)
            new == [id |-> r, tenant |-> t, customer |-> customer.id,
                    channel |-> channel, status |-> "open",
                    assigned_agent_id |-> NoOne, updated_at |-> now]
            created == IF active = {} THEN {"conversation.created"} ELSE {}
        IN  \E c \in IF active = {} THEN {new} ELSE active :
              Begin(r, [op |-> "webhook", tenant |-> t,
                        conversation |-> c.id, agent |-> NoOne],
                    [NoWrites EXCEPT
                       !.customers = {customer},
                       !.conversations = SaveConversation(c, c),
                       !.messages = {[id |-> r, conversation |-> c.id,
                                      sender |-> NoOne]},
                       !.outbox = DomainEvents(r, t, c.id,
                         {"channel.message.received"} \cup created)])
  BY DEF HandleWebhook
<1> DEFINE active == FindActiveConversation(t, customer.id, channel)
           new == [id |-> r, tenant |-> t, customer |-> customer.id,
                   channel |-> channel, status |-> "open",
                   assigned_agent_id |-> NoOne, updated_at |-> now]
           created == IF active = {} THEN {"conversation.created"} ELSE {}
           types == {"channel.message.received"} \cup created
<1>2. PICK c \in IF active = {} THEN {new} ELSE active :
              Begin(r, [op |-> "webhook", tenant |-> t,
                        conversation |-> c.id, agent |-> NoOne],
                    [NoWrites EXCEPT
                       !.customers = {customer},
                       !.conversations = SaveConversation(c, c),
                       !.messages = {[id |-> r, conversation |-> c.id,
                                      sender |-> NoOne]},
                       !.outbox = DomainEvents(r, t, c.id, types)])
  BY <1>1
<1>3. customer.id \in Ids
  BY DEF TypeOK, GetOrCreateCustomer, Customer, Ids
<1>4. /\ c \in Conversation /\ c.tenant = t /\ c.status # "closed"
      /\ c.id = r <=> "conversation.created" \in types
      /\ "conversation.replied" \notin types
      /\ {"conversation.escalated", "ticket.created"} \cap types = {}
  <2>1. CASE active = {}
    <3>1. c = new /\ new \in Conversation
      BY <1>3, <2>1, TenantOfType
      DEF TypeOK, Conversation, Ids, ConversationStatus
    <3>2. QED
      BY <2>1, <3>1
  <2>2. CASE active # {}
    <3>1. c \in conversations /\ c.tenant = t /\ c.status \in OpenOrAssigned
      BY <2>2 DEF FindActiveConversation
    <3>2. pc[r] = "idle"
      BY <1>2 DEF Begin
    <3>3. c.id # r
      BY <3>1, <3>2, NotYetThere
    <3>4. QED
      BY <2>2, <3>1, <3>3 DEF TypeOK, OpenOrAssigned
  <2>3. QED
    BY <2>1, <2>2
<1>5. "channel.message.received" \in types
  OBVIOUS
<1> HIDE DEF t, new, active, created, types
<1> DEFINE events == DomainEvents(r, t, c.id, types)
           rows == SaveConversation(c, c)
<1>6. /\ \A d \in rows : d.id = c.id /\ d.tenant = t /\ d.status # "closed"
      /\ \E d \in rows : d.id = c.id
  <2>1. \A d \in rows : d.id = c.id /\ d.tenant = t /\ d.status # "closed"
    BY <1>4, SavedRow
  <2>2. QED
    BY <2>1 DEF SaveConversation
<1>7. /\ \A type \in types : EventOf(events, r, type, c.id)
      /\ \A e \in events : e.request = r /\ e.type \in types /\ e.entity = c.id
  BY EventsTell
<1>8. Names("conversations", BumpsOf("webhook"))
  BY ListsNamed
<1> HIDE DEF events, rows
<1> DEFINE w == [NoWrites EXCEPT
                   !.customers = {customer}, !.conversations = rows,
                   !.messages = {[id |-> r, conversation |-> c.id,
                                  sender |-> NoOne]},
                   !.outbox = events]
<1>9. /\ w.conversations = rows /\ w.tickets = {} /\ w.outbox = events
      /\ w.messages = {[id |-> r, conversation |-> c.id, sender |-> NoOne]}
  BY DEF NoWrites
<1> HIDE DEF w
<1>10. Accounts(r, w)
  <2>1. \A m \in w.messages :
          m.id = r /\ m.conversation = c.id /\ m.sender = NoOne
    BY <1>9
  <2>2. \E m \in w.messages : m.conversation = c.id
    BY <1>9
  <2>3. QED
    BY <1>4, <1>5, <1>6, <1>7, <1>9, <2>1, <2>2 DEF Accounts
<1>11. WriteSet(r, [op |-> "webhook", tenant |-> t, conversation |-> c.id,
                    agent |-> NoOne], w)
  BY <1>6, <1>8, <1>9, <1>10 DEF WriteSet, Announces, ActsFor
<1>12. QED
  BY <1>2, <1>11 DEF events, rows, w

LEMMA AssignPrepares ==
  ASSUME TypeOK, TablesSound, NEW r \in Requests, NEW actor \in Users,
         NEW i \in Ids, NEW agent \in Users, AssignConversation(r, actor, i, agent)
  PROVE  \E c, w : Begin(r, c, w) /\ WriteSet(r, c, w)
<1> DEFINE t == TenantOf[actor]
           events == DomainEvents(r, t, i, {"conversation.assigned"})
           row(c) == [c EXCEPT !.assigned_agent_id = agent, !.status = "assigned"]
           op == [op |-> "assign", tenant |-> t, conversation |-> i, agent |-> agent]
           w(c) == [NoWrites EXCEPT !.conversations = SaveConversation(c, row(c)),
                                    !.outbox = events]
<1>1. PICK c \in GetConversationByID(t, i) : Begin(r, op, w(c))
  BY DEF AssignConversation
<1>2. c \in conversations /\ c \in Conversation /\ c.tenant = t /\ c.id = i
  BY DEF TypeOK, GetConversationByID
<1>3. i # r
  BY <1>1, <1>2, NotYetThere DEF Begin
<1>4. ASSUME NEW d \in SaveConversation(c, row(c))
      PROVE  d.id = i /\ d.tenant = t /\ d.status = "assigned"
  <2> HIDE DEF t
  <2>1. row(c) \in Conversation
    BY <1>2 DEF Conversation, ConversationStatus
  <2>2. row(c).id = i /\ row(c).tenant = t /\ row(c).status = "assigned"
    BY <1>2 DEF Conversation
  <2>3. QED
    BY <1>2, <2>1, <2>2, SavedRow
<1>5. /\ w(c).conversations = SaveConversation(c, row(c))
      /\ w(c).messages = {} /\ w(c).tickets = {} /\ w(c).outbox = events
  BY DEF NoWrites
<1>6. \A e \in events : e.request = r /\ e.type = "conversation.assigned"
  BY EventsTell
<1>7. Names("conversations", BumpsOf("assign"))
  BY ListsNamed
<1> HIDE DEF t, events, w, row
<1>8. Accounts(r, w(c))
  BY <1>3, <1>4, <1>5, <1>6 DEF Accounts
<1>9. QED
  BY <1>1, <1>4, <1>5, <1>7, <1>8 DEF WriteSet, Announces, ActsFor

\* Who may reply to a conversation or escalate it, is its agent afterwards.
LEMMA TakenRow ==
  ASSUME NEW c \in Conversation, NEW agent \in Users, OpenTo(c, agent),
         NEW d \in SaveConversation(c, TakenBy(c, agent))
  PROVE  /\ d.id = c.id /\ d.tenant = c.tenant /\ d.status # "closed"
         /\ d.assigned_agent_id = agent
<1>1. TakenBy(c, agent) \in Conversation
  BY TakenType
<1>2. /\ TakenBy(c, agent).id = c.id /\ TakenBy(c, agent).tenant = c.tenant
      /\ TakenBy(c, agent).status # "closed"
      /\ TakenBy(c, agent).assigned_agent_id = agent
  BY DEF TakenBy, OpenTo, Conversation
<1>3. QED
  BY <1>1, <1>2, SavedRow DEF OpenTo

LEMMA ReplyPrepares ==
  ASSUME TypeOK, TablesSound, NEW r \in Requests, NEW agent \in Users,
         NEW i \in Ids, ReplyToConversation(r, agent, i)
  PROVE  \E c, w : Begin(r, c, w) /\ WriteSet(r, c, w)
<1> DEFINE t == TenantOf[agent]
           events == DomainEvents(r, t, i, {"conversation.replied"})
           message == [id |-> r, conversation |-> i, sender |-> agent]
           op == [op |-> "reply", tenant |-> t, conversation |-> i, agent |-> agent]
           rows(c) == SaveConversation(c, TakenBy(c, agent))
           w(c) == [NoWrites EXCEPT !.conversations = rows(c),
                                    !.messages = {message}, !.outbox = events]
<1>1. PICK c \in GetConversationByID(t, i) : OpenTo(c, agent) /\ Begin(r, op, w(c))
  BY DEF ReplyToConversation
<1>2. c \in conversations /\ c \in Conversation /\ c.tenant = t /\ c.id = i
  BY DEF TypeOK, GetConversationByID
<1>3. i # r
  BY <1>1, <1>2, NotYetThere DEF Begin
<1>4. \A d \in rows(c) : /\ d.id = i /\ d.tenant = t /\ d.status # "closed"
                         /\ d.assigned_agent_id = agent
  BY <1>1, <1>2, TakenRow
<1>5. /\ w(c).conversations = rows(c) /\ w(c).messages = {message}
      /\ w(c).tickets = {} /\ w(c).outbox = events
  BY DEF NoWrites
<1>6. /\ EventOf(events, r, "conversation.replied", i)
      /\ \A e \in events :
           e.request = r /\ e.type = "conversation.replied" /\ e.entity = i
  BY EventsTell
<1>7. message.id = r /\ message.conversation = i /\ message.sender # NoOne
  BY ConstantsAssumption
<1>8. Names("conversations", BumpsOf("reply"))
  BY ListsNamed
<1> HIDE DEF t, events, message, rows, w
<1>9. Accounts(r, w(c))
  BY <1>3, <1>4, <1>5, <1>6, <1>7 DEF Accounts
<1>10. QED
  BY <1>1, <1>4, <1>5, <1>8, <1>9 DEF WriteSet, Announces, ActsFor

\* A conversation that is closed already is left alone, and so are its lists.
LEMMA ClosePrepares ==
  ASSUME TypeOK, TablesSound, NEW r \in Requests, NEW actor \in Users,
         NEW i \in Ids, CloseConversation(r, actor, i)
  PROVE  \E c, w : Begin(r, c, w) /\ WriteSet(r, c, w)
<1> DEFINE t == TenantOf[actor]
           events == DomainEvents(r, t, i, {"conversation.closed"})
           op == [op |-> "close", tenant |-> t, conversation |-> i, agent |-> actor]
           rows(c) == SaveConversation(c, [c EXCEPT !.status = "closed"])
           w(c) == [NoWrites EXCEPT !.conversations = rows(c), !.outbox = events]
<1>1. PICK c \in GetConversationByID(t, i) :
        /\ RoleOf[actor] = "agent" => c.assigned_agent_id = actor
        /\ Begin(r, op, IF c.status = "closed" THEN NoWrites ELSE w(c))
  BY DEF CloseConversation
<1>2. c \in conversations /\ c \in Conversation /\ c.tenant = t /\ c.id = i
  BY DEF TypeOK, GetConversationByID
<1>3. i # r
  BY <1>1, <1>2, NotYetThere DEF Begin
<1>4. \A d \in rows(c) :
        /\ d.id = i /\ d.tenant = t /\ d.status = "closed"
        /\ d.assigned_agent_id = c.assigned_agent_id
  <2> HIDE DEF t
  <2> DEFINE row == [c EXCEPT !.status = "closed"]
  <2>1. /\ row \in Conversation /\ row.id = i /\ row.tenant = t
        /\ row.status = "closed" /\ row.assigned_agent_id = c.assigned_agent_id
    BY <1>2 DEF Conversation, ConversationStatus
  <2>2. QED
    BY <1>2, <2>1, SavedRow
<1>5. /\ w(c).conversations = rows(c) /\ w(c).messages = {}
      /\ w(c).tickets = {} /\ w(c).outbox = events
  BY DEF NoWrites
<1>6. /\ EventOf(events, r, "conversation.closed", i)
      /\ \A e \in events : e.request = r /\ e.type = "conversation.closed"
  BY EventsTell
<1>7. Names("conversations", BumpsOf("close"))
  BY ListsNamed
<1>8. WriteSet(r, op, NoWrites)
  BY DEF WriteSet, Accounts, Announces, ActsFor, NoWrites
<1> HIDE DEF t, events, rows, w
<1>9. WriteSet(r, op, w(c))
  <2>1. Accounts(r, w(c))
    BY <1>3, <1>4, <1>5, <1>6 DEF Accounts
  <2>2. QED
    BY <1>1, <1>4, <1>5, <1>7, <2>1 DEF WriteSet, Announces, ActsFor, Agents
<1>10. QED
  BY <1>1, <1>8, <1>9

LEMMA EscalatePrepares ==
  ASSUME TypeOK, TablesSound, NEW r \in Requests, NEW agent \in Users,
         NEW i \in Ids, EscalateConversation(r, agent, i)
  PROVE  \E c, w : Begin(r, c, w) /\ WriteSet(r, c, w)
<1> DEFINE t == TenantOf[agent]
           escalated == DomainEvents(r, t, i, {"conversation.escalated"})
           created == DomainEvents(r, t, r, {"ticket.created"})
           ticket == [id |-> r, tenant |-> t, conversation |-> i,
                      status |-> "open", assigned_agent_id |-> agent]
           op == [op |-> "escalate", tenant |-> t, conversation |-> i,
                  agent |-> agent]
           rows(c) == IF c.assigned_agent_id = NoOne
                      THEN SaveConversation(c, TakenBy(c, agent)) ELSE {}
           w(c) == [NoWrites EXCEPT !.conversations = rows(c),
                                    !.tickets = {ticket},
                                    !.outbox = escalated \cup created]
<1>1. PICK c \in GetConversationByID(t, i) : OpenTo(c, agent) /\ Begin(r, op, w(c))
  BY DEF EscalateConversation
<1>2. c \in conversations /\ c \in Conversation /\ c.tenant = t /\ c.id = i
  BY DEF TypeOK, GetConversationByID
<1>3. i # r
  BY <1>1, <1>2, NotYetThere DEF Begin
<1>4. \A d \in rows(c) : d.id = i /\ d.tenant = t /\ d.status # "closed"
  BY <1>1, <1>2, TakenRow
<1>5. /\ w(c).conversations = rows(c) /\ w(c).messages = {}
      /\ w(c).tickets = {ticket} /\ w(c).outbox = escalated \cup created
  BY DEF NoWrites
<1>6. /\ EventOf(escalated, r, "conversation.escalated", i)
      /\ EventOf(created, r, "ticket.created", r)
      /\ \A e \in escalated \cup created :
           e.request = r /\ e.type \in {"conversation.escalated", "ticket.created"}
  BY EventsTell
<1>7. ticket.id = r /\ ticket.conversation = i /\ ticket.tenant = t
  OBVIOUS
<1>8. /\ Names("conversations", BumpsOf("escalate"))
      /\ Names("tickets", BumpsOf("escalate"))
  BY ListsNamed
<1> HIDE DEF t, escalated, created, ticket, rows, w
<1>9. /\ EventOf(w(c).outbox, r, "conversation.escalated", i)
      /\ EventOf(w(c).outbox, r, "ticket.created", r)
  BY <1>5, <1>6 DEF EventOf
<1>10. Accounts(r, w(c))
  BY <1>3, <1>4, <1>5, <1>6, <1>7, <1>9 DEF Accounts
<1>11. QED
  BY <1>1, <1>4, <1>5, <1>7, <1>8, <1>10 DEF WriteSet, Announces, ActsFor

LEMMA StatusPrepares ==
  ASSUME TypeOK, TablesSound, NEW r \in Requests, NEW actor \in Users,
         NEW ticket \in tickets, NEW status \in TicketStatus,
         UpdateStatus(r, actor, ticket, status)
  PROVE  \E c, w : Begin(r, c, w) /\ WriteSet(r, c, w)
<1> DEFINE t == TenantOf[actor]
           events == DomainEvents(r, t, ticket.id, {"ticket.status.updated"})
           row == [ticket EXCEPT !.status = status]
           op == [op |-> "status", tenant |-> t,
                  conversation |-> ticket.conversation, agent |-> NoOne]
           w == [NoWrites EXCEPT !.tickets = {row}, !.outbox = events]
<1>1. Begin(r, op, w) /\ ticket.tenant = t
  BY DEF UpdateStatus
<1>2. row.id # r /\ row.tenant = t
  <2>1. row.id = ticket.id /\ row.tenant = ticket.tenant
    BY DEF TypeOK, Ticket
  <2>2. QED
    BY <1>1, <2>1, NotYetThere DEF Begin
<1>3. /\ w.conversations = {} /\ w.messages = {} /\ w.tickets = {row}
      /\ w.outbox = events
  BY DEF NoWrites
<1>4. \A e \in events : e.request = r /\ e.type = "ticket.status.updated"
  BY EventsTell
<1>5. Names("tickets", BumpsOf("status"))
  BY ListsNamed
<1> HIDE DEF t, events, row, w
<1>6. Accounts(r, w)
  BY <1>2, <1>3, <1>4 DEF Accounts
<1>7. QED
  BY <1>1, <1>2, <1>3, <1>5, <1>6 DEF WriteSet, Announces, ActsFor

LEMMA OperationPrepares ==
  ASSUME TypeOK, TablesSound, NEW r \in Requests, Operation(r)
  PROVE  \E c, w : Begin(r, c, w) /\ WriteSet(r, c, w)
BY WebhookPrepares, AssignPrepares, ReplyPrepares, ClosePrepares,
   EscalatePrepares, StatusPrepares DEF Operation

-----------------------------------------------------------------------------
(* Every step keeps the invariant *)

LEMMA SamePrepared ==
  ASSUME Prepared, UNCHANGED <<pc, call, tx, bumps>>
  PROVE  Prepared'
BY DEF Prepared

LEMMA SameTrail ==
  ASSUME AuditTrail, UNCHANGED tables
  PROVE  AuditTrail'
BY DEF AuditTrail, HasEvent, tables

LEMMA BeginPrepared ==
  ASSUME TypeOK, Prepared, NEW r \in Requests, NEW c, NEW w,
         Begin(r, c, w), WriteSet(r, c, w)
  PROVE  Prepared'
<1> SUFFICES ASSUME NEW q \in Requests, pc'[q] = "tx"
             PROVE  /\ WriteSet(q, call'[q], tx'[q])
                    /\ bumps'[q] = BumpsOf(call'[q].op)
  BY DEF Prepared
<1>1. CASE q = r
  BY <1>1 DEF TypeOK, Begin
<1>2. CASE q # r
  BY <1>2 DEF TypeOK, Begin, Prepared
<1>3. QED
  BY <1>1, <1>2

LEMMA CommitPrepared ==
  ASSUME TypeOK, Prepared, NEW r \in Requests, Commit(r)
  PROVE  Prepared'
BY DEF TypeOK, Prepared, Commit

LEMMA BumpPrepared ==
  ASSUME TypeOK, Prepared, NEW r \in Requests, Bump(r)
  PROVE  Prepared'
BY DEF TypeOK, Prepared, Bump

LEMMA FailPrepared ==
  ASSUME TypeOK, Prepared, NEW who \in SUBSET Requests, Fail(who)
  PROVE  Prepared'
BY DEF TypeOK, Prepared, Fail

\* The rows and the events of a transaction come in one commit; what it writes
\* over is told of already.
LEMMA CommitTrail ==
  ASSUME AInv, NEW r \in Requests, Commit(r)
  PROVE  AuditTrail'
<1> DEFINE w == tx[r]
<1>1. Accounts(r, w) /\ Fits(r, w) /\ w \in Writes /\ AuditTrail
  BY DEF AInv, IInv, TypeOK, Prepared, WriteSet, Commit
<1>2. /\ messages' = messages \cup w.messages
      /\ outbox' = outbox \cup w.outbox
      /\ \A k \in tickets' : k \in tickets \/ k \in w.tickets
      /\ \A k \in w.tickets : k \in tickets'
  BY DEF Commit, Upsert
<1>3. /\ \A i, t : OfTenant(conversations, i, t) => OfTenant(conversations', i, t)
      /\ \A d \in w.conversations : OfTenant(conversations', d.id, d.tenant)
      /\ \A i, c : TicketIs(tickets, i, c) => TicketIs(tickets', i, c)
  BY CommitTables, CommitTickets DEF AInv
<1>4. ASSUME NEW c \in conversations'
      PROVE  \/ c \in conversations
             \/ \E d \in w.conversations : c.id = d.id /\ c.status = d.status
  <2>1. CASE \E d \in w.conversations, second \in Nat :
               c = [d EXCEPT !.updated_at = second]
    BY <1>1, <2>1 DEF Writes, Conversation
  <2>2. QED
    BY <2>1, CommitTables DEF AInv
<1> HIDE DEF w
<1>5. ASSUME NEW q, NEW type, NEW entity,
             EventOf(outbox, q, type, entity) \/ EventOf(w.outbox, q, type, entity)
      PROVE  EventOf(outbox', q, type, entity)
  BY <1>2, <1>5 DEF EventOf
<1>6. /\ \A m \in messages :
           EventOf(outbox, m.id, IF m.sender = NoOne THEN "channel.message.received"
                                 ELSE "conversation.replied", m.conversation)
      /\ \A c \in conversations :
           c.id \in Requests => EventOf(outbox, c.id, "conversation.created", c.id)
      /\ \A k \in tickets : k.id \in Requests =>
           /\ EventOf(outbox, k.id, "ticket.created", k.id)
           /\ EventOf(outbox, k.id, "conversation.escalated", k.conversation)
  BY <1>1 DEF AuditTrail, HasEvent, EventOf
<1>7. ASSUME NEW m \in messages'
      PROVE  EventOf(outbox', m.id, IF m.sender = NoOne THEN "channel.message.received"
                                    ELSE "conversation.replied", m.conversation)
  <2>1. CASE m \in messages
    BY <1>5, <1>6, <2>1
  <2>2. CASE m \in w.messages
    BY <1>1, <1>5, <2>2 DEF Accounts
  <2>3. QED
    BY <1>2, <2>1, <2>2
<1>8. ASSUME NEW c \in conversations', c.id \in Requests
      PROVE  EventOf(outbox', c.id, "conversation.created", c.id)
  <2>1. CASE OfTenant(conversations, c.id, c.tenant)
    BY <1>5, <1>6, <1>8, <2>1 DEF OfTenant
  <2>2. CASE c.id = r /\ \E d \in w.conversations : d.id = r
    BY <1>1, <1>5, <2>2 DEF Accounts
  <2>3. CASE \E d \in w.conversations : c.id = d.id /\ c.id # r
    <3>1. \E d \in conversations : d.id = c.id
      BY <1>1, <2>3 DEF Fits, OfTenant
    <3>2. QED
      BY <1>5, <1>6, <1>8, <3>1
  <2>4. QED
    BY <1>4, <2>1, <2>2, <2>3 DEF OfTenant
<1>9. ASSUME NEW k \in tickets', k.id \in Requests
      PROVE  /\ EventOf(outbox', k.id, "ticket.created", k.id)
             /\ EventOf(outbox', k.id, "conversation.escalated", k.conversation)
  <2>1. CASE TicketIs(tickets, k.id, k.conversation)
    BY <1>5, <1>6, <1>9, <2>1 DEF TicketIs
  <2>2. CASE k \in w.tickets /\ k.id = r
    BY <1>1, <1>5, <2>2 DEF Accounts
  <2>3. k \in tickets \/ k \in w.tickets
    BY <1>2
  <2>4. QED
    BY <1>1, <2>1, <2>2, <2>3 DEF Fits, TicketIs
<1>10. ASSUME NEW e \in outbox'
      PROVE  /\ e.type \in {"channel.message.received", "conversation.replied"} =>
                  \E m \in messages' : m.id = e.request /\ m.conversation = e.entity
             /\ e.type = "conversation.created" =>
                  \E c \in conversations' : c.id = e.request
             /\ e.type \in {"conversation.escalated", "ticket.created"} =>
                  \E k \in tickets' : k.id = e.request
  <2>1. CASE e \in outbox
    BY <1>1, <1>2, <1>3, <2>1 DEF AuditTrail, OfTenant, TicketIs
  <2>2. CASE e \in w.outbox
    BY <1>1, <1>2, <1>3, <2>2 DEF Accounts, OfTenant
  <2>3. QED
    BY <1>2, <2>1, <2>2
<1>11. ASSUME NEW c \in conversations', c.status = "closed"
       PROVE  \E e \in outbox' : e.type = "conversation.closed" /\ e.entity = c.id
  <2>1. CASE c \in conversations
    BY <1>1, <1>2, <1>11, <2>1 DEF AuditTrail
  <2>2. CASE \E d \in w.conversations : c.id = d.id /\ c.status = d.status
    BY <1>1, <1>2, <1>11, <2>2 DEF Accounts, EventOf
  <2>3. QED
    BY <1>4, <2>1, <2>2
<1>12. QED
  BY <1>7, <1>8, <1>9, <1>10, <1>11 DEF AuditTrail, HasEvent, EventOf

\* The demo rows are no request's, and none of them is closed.
LEMMA ReseedTrail ==
  ASSUME AInv, ReseedConversations \/ ReseedTickets
  PROVE  AuditTrail'
<1>1. /\ AuditTrail /\ UNCHANGED <<messages, outbox>>
      /\ \A d \in Demo : d.id \notin Requests
  BY DemoAssumption DEF AInv, ReseedConversations, ReseedTickets, DemoIds
<1>2. CASE ReseedConversations
  <2>1. /\ conversations' = Upsert(conversations, DemoConversations)
        /\ tickets' = tickets
    BY <1>2 DEF ReseedConversations
  <2>2. \A c \in DemoConversations : c.id \notin Requests /\ c.status # "closed"
    BY <1>1 DEF DemoConversations
  <2>3. \A c \in conversations : c.id \in Requests => c \in conversations'
    BY <1>1, <2>1, DemoRows DEF Upsert
  <2>4. \A c \in conversations' : c \in conversations \/ c \in DemoConversations
    BY <2>1 DEF Upsert
  <2>5. \A e \in outbox : e.request \in Requests
    BY DEF AInv, IInv, TypeOK, Event
  <2>6. QED
    BY <1>1, <2>1, <2>2, <2>3, <2>4, <2>5 DEF AuditTrail, HasEvent
<1>3. CASE ReseedTickets
  <2>1. /\ tickets' = Upsert(tickets, DemoTickets)
        /\ conversations' = conversations
    BY <1>3 DEF ReseedTickets
  <2>2. \A k \in DemoTickets : k.id \notin Requests
    BY <1>1 DEF DemoTickets
  <2>3. \A k \in tickets : k.id \in Requests => k \in tickets'
    BY <1>1, <2>1, DemoRows DEF Upsert
  <2>4. \A k \in tickets' : k \in tickets \/ k \in DemoTickets
    BY <2>1 DEF Upsert
  <2>5. \A e \in outbox : e.request \in Requests
    BY DEF AInv, IInv, TypeOK, Event
  <2>6. QED
    BY <1>1, <2>1, <2>2, <2>3, <2>4, <2>5 DEF AuditTrail, HasEvent
<1>4. QED
  BY <1>2, <1>3

LEMMA NextKeepsAudit ==
  ASSUME AInv, [Next]_vars
  PROVE  AInv'
<1>1. TypeOK /\ TablesSound /\ Prepared /\ AuditTrail
  BY DEF AInv, IInv
<1>2. Prepared' /\ AuditTrail'
  <2>1. ASSUME NEW r \in Requests, Operation(r) PROVE Prepared' /\ AuditTrail'
    <3>1. PICK c, w : Begin(r, c, w) /\ WriteSet(r, c, w)
      BY <1>1, <2>1, OperationPrepares
    <3>2. UNCHANGED tables
      BY <3>1 DEF Begin
    <3>3. QED
      BY <1>1, <3>1, <3>2, BeginPrepared, SameTrail
  <2>2. ASSUME NEW r \in Requests, Commit(r) PROVE Prepared' /\ AuditTrail'
    BY <1>1, <2>2, CommitPrepared, CommitTrail
  <2>3. ASSUME NEW r \in Requests, Bump(r) PROVE Prepared' /\ AuditTrail'
    <3>1. UNCHANGED tables
      BY <2>3 DEF Bump
    <3>2. QED
      BY <1>1, <2>3, <3>1, BumpPrepared, SameTrail
  <2>4. ASSUME NEW who \in SUBSET Requests, Fail(who) PROVE Prepared' /\ AuditTrail'
    <3>1. UNCHANGED tables
      BY <2>4 DEF Fail
    <3>2. QED
      BY <1>1, <2>4, <3>1, FailPrepared, SameTrail
  <2>5. CASE \E r \in Requests : Reject(r) \/ Abort(r)
    BY <2>4, <2>5 DEF Reject, Abort
  <2>6. CASE Crash
    BY <2>4, <2>6 DEF Crash
  <2>7. CASE ReseedConversations \/ ReseedTickets
    <3>1. UNCHANGED <<pc, call, tx, bumps>>
      BY <2>7 DEF ReseedConversations, ReseedTickets
    <3>2. QED
      BY <1>1, <2>7, <3>1, SamePrepared, ReseedTrail
  <2>8. CASE UNCHANGED vars
    <3>1. UNCHANGED <<tables, pc, call, tx, bumps>>
      BY <2>8 DEF vars, tables
    <3>2. QED
      BY <1>1, <3>1, SamePrepared, SameTrail
  <2>9. QED
    BY <2>1, <2>2, <2>3, <2>5, <2>6, <2>7, <2>8 DEF Next, AllAnswered
<1>3. QED
  BY <1>2, NextKeeps DEF AInv

LEMMA InitAInv == Init => AInv
<1> SUFFICES ASSUME Init PROVE AInv
  OBVIOUS
<1>1. Prepared
  BY DEF Init, Prepared
<1>2. AuditTrail
  <2>1. /\ \A c \in conversations : c.id \notin Requests /\ c.status # "closed"
        /\ \A k \in tickets : k.id \notin Requests
    BY DemoAssumption DEF Init, DemoConversations, DemoTickets, DemoIds
  <2>2. messages = {} /\ outbox = {}
    BY DEF Init
  <2>3. QED
    BY <2>1, <2>2 DEF AuditTrail
<1>3. QED
  BY <1>1, <1>2, InitIInv DEF AInv

LEMMA AuditInvariance == Spec => []AInv
<1>1. AInv /\ [Next]_vars => AInv'
  BY NextKeepsAudit
<1>2. QED
  BY <1>1, InitAInv, PTL DEF Spec

-----------------------------------------------------------------------------
(* What a commit does *)

LEMMA OnlyCommitCommits ==
  ASSUME IInv, [Next]_vars, NEW r \in Requests, Commits(r)
  PROVE  Commit(r)
<1>1. TypeOK /\ TablesSound
  BY DEF IInv
<1>2. ASSUME NEW q \in Requests, Operation(q) PROVE FALSE
  <2>1. PICK c, w : Begin(q, c, w)
    BY <1>1, <1>2, OperationPrepares
  <2>2. QED
    BY <1>1, <2>1 DEF TypeOK, Begin, Commits
<1>3. ASSUME NEW q \in Requests, Commit(q) PROVE Commit(r)
  BY <1>1, <1>3 DEF TypeOK, Commit, Commits
<1>4. ASSUME NEW q \in Requests, Bump(q) PROVE FALSE
  BY <1>1, <1>4 DEF TypeOK, Bump, Commits
<1>5. ASSUME NEW who \in SUBSET Requests, Fail(who) PROVE FALSE
  BY <1>1, <1>5 DEF TypeOK, Fail, Commits
<1>6. ASSUME UNCHANGED pc PROVE FALSE
  BY <1>6 DEF Commits
<1>7. CASE Next
  BY <1>2, <1>3, <1>4, <1>5, <1>6, <1>7
  DEF Next, Reject, Abort, Crash, ReseedConversations, ReseedTickets,
      AllAnswered, vars
<1>8. QED
  BY <1>6, <1>7 DEF vars

LEMMA CommitActsFor ==
  ASSUME AInv, NEW r \in Requests, Commit(r), tx[r].conversations # {},
         call[r].op \in {"reply", "close"}, call[r].agent \in Agents,
         NEW c \in conversations', c.id = call[r].conversation
  PROVE  c.assigned_agent_id = call[r].agent
<1> DEFINE w == tx[r]
<1>1. ActsFor(call[r], w) /\ w \in Writes
  BY DEF AInv, IInv, TypeOK, Prepared, WriteSet, Commit
<1>2. \A d \in w.conversations :
        d.id = call[r].conversation /\ d.assigned_agent_id = call[r].agent
  BY <1>1 DEF ActsFor
<1>3. CASE \A d \in w.conversations : d.id # c.id
  BY <1>2, <1>3
<1>4. CASE \E d \in w.conversations, second \in Nat :
             c = [d EXCEPT !.updated_at = second]
  BY <1>1, <1>2, <1>4 DEF Writes, Conversation
<1>5. QED
  BY <1>3, <1>4, CommitTables DEF AInv

\* An upsert by rows of one tenant that take the places of rows of that tenant
\* shows in no other tenant's list.
LEMMA UpsertOfTenant ==
  ASSUME NEW table, NEW rows, NEW t, NEW u, t # u,
         \A row \in rows : row.tenant = t,
         \A old \in table, row \in rows : old.id = row.id => old.tenant = t
  PROVE  RowsOf(u, Upsert(table, rows)) = RowsOf(u, table)
BY DEF RowsOf, Upsert

\* The rows a commit replaces are its tenant's.
LEMMA CommitChanges ==
  ASSUME AInv, NEW r \in Requests, Commit(r), NEW t \in Tenants
  PROVE  /\ RowsOf(t, conversations') # RowsOf(t, conversations) =>
              t = call[r].tenant /\ Names("conversations", bumps[r])
         /\ RowsOf(t, tickets') # RowsOf(t, tickets) =>
              t = call[r].tenant /\ Names("tickets", bumps[r])
<1> DEFINE w == tx[r]
           u == call[r].tenant
<1>1. /\ Announces(call[r], w) /\ bumps[r] = BumpsOf(call[r].op)
      /\ w \in Writes /\ Fits(r, w) /\ TablesSound /\ pc[r] = "tx"
  BY DEF AInv, IInv, TypeOK, Prepared, WriteSet, Commit
<1>2. PICK second \in 0..now :
        conversations' = Upsert(conversations,
          {[row EXCEPT !.updated_at = second] : row \in w.conversations})
  BY DEF Commit
<1> DEFINE rows == {[row EXCEPT !.updated_at = second] : row \in w.conversations}
<1>3. tickets' = Upsert(tickets, w.tickets)
  BY DEF Commit
<1>4. \A row \in rows : \E d \in w.conversations :
        row.id = d.id /\ row.tenant = d.tenant
  BY <1>1 DEF Writes, Conversation
<1>5. \A old \in conversations, d \in w.conversations :
        old.id = d.id => old.tenant = d.tenant
  BY <1>1 DEF TablesSound, KeysSound, Fits, OfTenant
<1>6. \A old \in tickets, k \in w.tickets : old.id = k.id => old.tenant = k.tenant
  <2> TAKE old \in tickets, k \in w.tickets
  <2> HAVE old.id = k.id
  <2>1. old.conversation = k.conversation
    BY <1>1 DEF TablesSound, KeysSound, Fits, TicketIs
  <2>2. /\ OfTenant(conversations, old.conversation, old.tenant)
        /\ OfTenant(conversations, k.conversation, k.tenant)
    BY <1>1 DEF TablesSound, TenantIsolation, Fits, OfTenant
  <2>3. QED
    BY <1>1, <2>1, <2>2 DEF TablesSound, KeysSound, OfTenant
<1>7. /\ \A row \in w.conversations : row.tenant = u
      /\ \A row \in w.tickets : row.tenant = u
      /\ w.conversations # {} => Names("conversations", bumps[r])
      /\ w.tickets # {} => Names("tickets", bumps[r])
  BY <1>1 DEF Announces
<1> HIDE DEF w, u, rows
<1>8. /\ t # u => RowsOf(t, conversations') = RowsOf(t, conversations)
      /\ t # u => RowsOf(t, tickets') = RowsOf(t, tickets)
  <2>1. ASSUME t # u PROVE RowsOf(t, Upsert(conversations, rows)) = RowsOf(t, conversations)
    <3>1. /\ \A row \in rows : row.tenant = u
          /\ \A old \in conversations, row \in rows :
               old.id = row.id => old.tenant = u
      BY <1>4, <1>5, <1>7
    <3>2. QED
      BY <2>1, <3>1, UpsertOfTenant
  <2>2. ASSUME t # u PROVE RowsOf(t, Upsert(tickets, w.tickets)) = RowsOf(t, tickets)
    <3>1. \A old \in tickets, row \in w.tickets :
            old.id = row.id => old.tenant = u
      BY <1>6, <1>7
    <3>2. QED
      BY <1>7, <2>2, <3>1, UpsertOfTenant
  <2>3. QED
    BY <1>2, <1>3, <2>1, <2>2 DEF rows
<1>9. /\ w.conversations = {} => conversations' = conversations
      /\ w.tickets = {} => tickets' = tickets
  <2>1. w.conversations = {} => rows = {}
    BY DEF rows
  <2>2. QED
    BY <1>2, <1>3, <2>1 DEF Upsert, rows
<1>10. QED
  BY <1>7, <1>8, <1>9 DEF u

LEMMA CommitOwes ==
  ASSUME AInv, NEW r \in Requests, Commit(r), NEW t, t = call[r].tenant,
         NEW list, Names(list, bumps[r])
  PROVE  Owed(t, list)'
<1>1. pc'[r] = "committed" /\ call' = call /\ bumps' = bumps
  BY DEF AInv, IInv, TypeOK, Commit
<1>2. QED
  BY <1>1 DEF Owed, Names

-----------------------------------------------------------------------------
(* The theorems *)

\* Whatever overlaps, fails or crashes, and whenever the demo data is loaded
\* again: each message, conversation and ticket made by a request has its
\* events, each such event its row, and each closed conversation its closing.
THEOREM Audited == Spec => []AuditTrail
<1>1. AInv => AuditTrail
  BY DEF AInv
<1>2. QED
  BY <1>1, AuditInvariance, PTL

\* However stale the row an agent's reply or close was prepared from, the one it
\* commits is assigned to that agent: an assignment to another agent that came
\* in between is overwritten, not joined.
THEOREM ActsAsAssignee == Spec => ActingAgentIsAssignee
<1>1. ASSUME AInv, [Next]_vars, NEW r \in Requests,
             Commits(r), tx[r].conversations # {},
             call[r].op \in {"reply", "close"}, call[r].agent \in Agents,
             NEW c \in conversations', c.id = call[r].conversation
      PROVE  c.assigned_agent_id = call[r].agent
  <2>1. Commit(r)
    BY <1>1, OnlyCommitCommits DEF AInv
  <2>2. QED
    BY <1>1, <2>1, CommitActsFor
<1>2. AInv /\ [Next]_vars =>
        [\A r \in Requests :
           /\ Commits(r) /\ tx[r].conversations # {}
           /\ call[r].op \in {"reply", "close"} /\ call[r].agent \in Agents
           => \A c \in conversations' : c.id = call[r].conversation =>
                c.assigned_agent_id = call[r].agent]_vars
  BY <1>1
<1>3. QED
  BY <1>2, AuditInvariance, PTL DEF Spec, ActingAgentIsAssignee

\* Whatever list of whichever tenant a request changes, and however many
\* commit at once, the change still has its version counter to bump.
THEOREM ChangesOweBumps == Spec => ListChangesAreOwedABump
<1> DEFINE Changes(t) ==
             /\ RowsOf(t, conversations)' # RowsOf(t, conversations)
                  => Owed(t, "conversations")'
             /\ RowsOf(t, tickets)' # RowsOf(t, tickets) => Owed(t, "tickets")'
<1>1. ASSUME AInv, [Next]_vars, pc' # pc, NEW t \in Tenants
      PROVE  Changes(t)
  <2>1. TypeOK /\ TablesSound
    BY <1>1 DEF AInv, IInv
  <2>2. CASE UNCHANGED tables
    BY <2>2 DEF tables, RowsOf
  <2>3. ASSUME NEW r \in Requests, Commit(r) PROVE Changes(t)
    <3>1. /\ RowsOf(t, conversations)' # RowsOf(t, conversations) =>
               t = call[r].tenant /\ Names("conversations", bumps[r])
          /\ RowsOf(t, tickets)' # RowsOf(t, tickets) =>
               t = call[r].tenant /\ Names("tickets", bumps[r])
      BY <1>1, <2>3, CommitChanges DEF RowsOf
    <3>2. ASSUME t = call[r].tenant, NEW list, Names(list, bumps[r])
          PROVE  Owed(t, list)'
      BY <1>1, <2>3, <3>2, CommitOwes
    <3>3. QED
      BY <3>1, <3>2
  <2>4. ASSUME NEW r \in Requests, Operation(r) PROVE UNCHANGED tables
    BY <2>1, <2>4, OperationPrepares DEF Begin
  <2>5. ASSUME NEW who, Fail(who) PROVE UNCHANGED tables
    BY <2>5 DEF Fail
  <2>6. ASSUME NEW r \in Requests, Bump(r) PROVE UNCHANGED tables
    BY <2>6 DEF Bump
  <2>7. CASE ReseedConversations \/ ReseedTickets \/ UNCHANGED vars
    BY <1>1, <2>7 DEF ReseedConversations, ReseedTickets, vars
  <2>8. QED
    BY <1>1, <2>2, <2>3, <2>4, <2>5, <2>6, <2>7
    DEF Next, Reject, Abort, Crash, AllAnswered
<1>2. AInv /\ [Next]_vars => [pc' # pc => \A t \in Tenants : Changes(t)]_vars
  BY <1>1
<1>3. QED
  BY <1>2, AuditInvariance, PTL DEF Spec, ListChangesAreOwedABump

=============================================================================
