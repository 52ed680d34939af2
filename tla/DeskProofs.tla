------------------------------ MODULE DeskProofs ------------------------------
(***************************************************************************)
(* That every transaction that is not overtaken carries SupportDesk from   *)
(* one of its states to the next, for any requests, tenants, staff and     *)
(* demo data, any size of the connection pool and any reloads.             *)
(***************************************************************************)
EXTENDS ConversationDesk, AuditProofs, WellFoundedInduction

-----------------------------------------------------------------------------
(* The inductive invariant *)

\* d opens a conversation on a thread where none is active.
Opens(r, d) ==
  /\ d.id = r /\ d.status = "open" /\ d.assigned_agent_id = NoOne
  /\ \A c \in conversations :
       c.customer = d.customer /\ c.channel = d.channel => c.status = "closed"

\* The conversation b, as it is when operation c is checked, and the status s
\* and agent a the operation leaves it with.
Asked(c, b, s, a) ==
  \/ /\ c.op = "webhook" /\ b.status # "closed"
     /\ s = b.status /\ a = b.assigned_agent_id
  \/ /\ c.op = "assign" /\ b.status # "closed" /\ s = "assigned"
     /\ a = IF b.assigned_agent_id = NoOne THEN c.agent ELSE b.assigned_agent_id
  \/ /\ c.op \in {"reply", "escalate"} /\ b.status # "closed"
     /\ b.assigned_agent_id \in {NoOne, c.agent} /\ s = "assigned" /\ a = c.agent
  \/ /\ c.op = "close"
     /\ c.agent \in Agents => b.assigned_agent_id = c.agent
     /\ s = "closed" /\ a = b.assigned_agent_id

\* w leaves b with status s and agent a, if need be by writing nothing.
Rewrites(w, b, s, a) ==
  /\ \A d \in w.conversations :
       /\ d.id = b.id /\ d.customer = b.customer /\ d.channel = b.channel
       /\ d.status = s /\ d.assigned_agent_id = a
  /\ w.conversations = {} => b.status = s /\ b.assigned_agent_id = a

\* What the transaction of r found for its operation c is still so.
Current(r, c, w) ==
  \/ c.op = "status" /\ w.conversations = {}
  \/ /\ c.op = "webhook" /\ w.conversations # {}
     /\ \A d \in w.conversations : Opens(r, d)
  \/ \E b \in conversations :
       b.id = c.conversation /\ \E s, a : Asked(c, b, s, a) /\ Rewrites(w, b, s, a)

\* What w looks like whatever becomes of the tables.
Shaped(r, c, w) ==
  /\ \A d \in w.conversations : d.id = c.conversation
  /\ c.op \in {"assign", "reply", "escalate"} => c.agent \in Agents
  /\ c.op = "close" => c.agent \in Users
  /\ \A e \in w.outbox : e.type = "conversation.closed" =>
       \E d \in w.conversations : d.id = e.entity /\ d.status = "closed"
  /\ c.op \notin {"escalate", "status"} => w.tickets = {}
  /\ c.op = "escalate" =>
       /\ w.tickets # {}
       /\ \A k \in w.tickets :
            k.id = r /\ k.conversation = c.conversation /\ k.status = "open"
  /\ c.op = "status" =>
       /\ w.tickets # {}
       /\ \A k \in w.tickets : k.id # r /\ k.conversation = c.conversation

\* Of a conversation that was closed there is a row, and of a ticket one.
Kept ==
  /\ \A e \in outbox : e.type = "conversation.closed" =>
       \E c \in conversations : c.id = e.entity
  /\ \A k, l \in tickets : k.id = l.id => k = l

Timely == \A c \in conversations : c.updated_at <= now

Underway ==
  \A r \in Requests : pc[r] = "tx" =>
    /\ Shaped(r, call[r], tx[r])
    /\ r \in overtaken \/ Current(r, call[r], tx[r])

DInv ==
  IInv /\ Kept /\ Timely /\ Underway /\ OneActiveUnlessRaced /\ ClosedUnlessRaced

-----------------------------------------------------------------------------
(* What a transaction finds and writes *)

\* Of rows updated by now there is a latest.
LEMMA LatestExists ==
  ASSUME NEW rows, rows # {}, NEW n \in Nat, \A c \in rows : c.updated_at \in 0..n
  PROVE  \E c \in rows : \A d \in rows : d.updated_at <= c.updated_at
<1> DEFINE ages == {n - c.updated_at : c \in rows}
<1>1. ages \subseteq Nat /\ ages # {}
  OBVIOUS
<1>2. PICK x \in ages : \A y \in ages : <<y, x>> \notin OpToRel(<, Nat)
  BY <1>1, NatLessThanWellFounded, WFMin
<1>3. \A y \in ages : x <= y
  <2> TAKE y \in ages
  <2>1. x \in Nat /\ y \in Nat
    BY <1>1
  <2>2. ~(y < x)
    BY <1>2, <2>1 DEF OpToRel
  <2>3. QED
    BY <2>1, <2>2
<1>4. PICK c \in rows : x = n - c.updated_at
  OBVIOUS
<1>5. \A d \in rows : d.updated_at <= c.updated_at
  <2> TAKE d \in rows
  <2>1. n - c.updated_at <= n - d.updated_at
    BY <1>3, <1>4
  <2>2. QED
    BY <2>1
<1>6. QED
  BY <1>5

\* A webhook that finds no active conversation finds that there is none.
LEMMA NoActiveFound ==
  ASSUME TypeOK, TablesSound, Timely, NEW customer, NEW channel \in Channels,
         FindActiveConversation(TenantOf[channel], customer, channel) = {},
         NEW c \in conversations, c.customer = customer, c.channel = channel
  PROVE  c.status = "closed"
<1> DEFINE active == {d \in conversations :
                        /\ d.tenant = TenantOf[channel] /\ d.customer = customer
                        /\ d.channel = channel /\ d.status \in OpenOrAssigned}
<1>1. \A d \in active : d.updated_at \in 0..now
  BY DEF TypeOK, Timely, Conversation
<1>2. now \in Nat
  BY DEF TypeOK
<1>3. active = {}
  <2>1. ~\E d \in active : \A e \in active : e.updated_at <= d.updated_at
    BY DEF FindActiveConversation
  <2> HIDE DEF active
  <2>2. QED
    BY <1>1, <1>2, <2>1, LatestExists
<1>4. c.tenant = TenantOf[channel]
  BY DEF TablesSound, TenantIsolation
<1>5. c.status \in ConversationStatus
  BY DEF TypeOK, Conversation
<1>6. QED
  BY <1>3, <1>4, <1>5 DEF ConversationStatus, OpenOrAssigned

LEMMA WebhookCurrent ==
  ASSUME TypeOK, TablesSound, Timely, NEW r \in Requests, NEW channel \in Channels,
         NEW external \in Externals, HandleWebhook(r, channel, external)
  PROVE  \E c, w : Begin(r, c, w) /\ Shaped(r, c, w) /\ Current(r, c, w)
<1> DEFINE t == TenantOf[channel]
<1>1. PICK customer \in GetOrCreateCustomer(r, t, external) :
        LET active == FindActiveConversation(t, customer.id, channel)
            new == [id |-> r, tenant |-> t, customer |-> customer.id,
                    channel |-> channel, status |-> "open",
                    assigned_agent_id |-> NoOne, updated_at |-> now]
            created == IF active = {} THEN {"conversation.created"} ELSE {}
        IN  \E c \in IF active = {} THEN {new} ELSE active :
              Begin(r, [op |-> "webhook", tenant |-> t,
                        conversation |-> c.id, agent |-> NoOne],
                    [NoWrites EXCEPT
                       !.customers = {customer},
                       !.conversations = SaveConversation(c, c),
                       !.messages = {[id |-> r, conversation |-> c.id,
                                      sender |-> NoOne]},
                       !.outbox = DomainEvents(r, t, c.id,
                         {"channel.message.received"} \cup created)])
  BY DEF HandleWebhook
<1> DEFINE active == FindActiveConversation(t, customer.id, channel)
           new == [id |-> r, tenant |-> t, customer |-> customer.id,
                   channel |-> channel, status |-> "open",
                   assigned_agent_id |-> NoOne, updated_at |-> now]
           types == {"channel.message.received"} \cup
                      IF active = {} THEN {"conversation.created"} ELSE {}
           op(c) == [op |-> "webhook", tenant |-> t, conversation |-> c.id,
                     agent |-> NoOne]
           w(c) == [NoWrites EXCEPT
                      !.customers = {customer},
                      !.conversations = SaveConversation(c, c),
                      !.messages = {[id |-> r, conversation |-> c.id,
                                     sender |-> NoOne]},
                      !.outbox = DomainEvents(r, t, c.id, types)]
<1>2. PICK c \in IF active = {} THEN {new} ELSE active : Begin(r, op(c), w(c))
  BY <1>1
<1>3. /\ w(c).conversations = SaveConversation(c, c) /\ w(c).tickets = {}
      /\ \A e \in w(c).outbox : e.type # "conversation.closed"
      /\ op(c).op = "webhook" /\ op(c).conversation = c.id
  <2>1. \A e \in DomainEvents(r, t, c.id, types) : e.type # "conversation.closed"
    BY DEF DomainEvents
  <2>2. QED
    BY <2>1 DEF NoWrites
<1>4. SaveConversation(c, c) # {}
  BY DEF SaveConversation
<1>5. CASE active = {}
  <2>1. c = new /\ new \in Conversation
    <3>1. customer.id \in Ids
      BY DEF TypeOK, GetOrCreateCustomer, Customer, Ids
    <3>2. QED
      BY <1>5, <3>1, TenantOfType DEF TypeOK, Conversation, Ids, ConversationStatus
  <2>2. ASSUME NEW d \in SaveConversation(c, c) PROVE Opens(r, d) /\ d.id = c.id
    <3>1. /\ d.id = r /\ d.status = "open" /\ d.assigned_agent_id = NoOne
          /\ d.customer = customer.id /\ d.channel = channel
      BY <2>1, SavedRow
    <3>2. QED
      BY <1>5, <2>1, <3>1, NoActiveFound DEF Opens
  <2> HIDE DEF w, op
  <2>3. Shaped(r, op(c), w(c)) /\ Current(r, op(c), w(c))
    BY <1>3, <1>4, <2>2 DEF Shaped, Current
  <2>4. QED
    BY <1>2, <2>3
<1>6. CASE active # {}
  <2>1. c \in conversations /\ c.status \in OpenOrAssigned /\ c \in Conversation
    BY <1>6 DEF FindActiveConversation, TypeOK
  <2>2. ASSUME NEW d \in SaveConversation(c, c)
        PROVE  /\ d.id = c.id /\ d.customer = c.customer /\ d.channel = c.channel
               /\ d.status = c.status /\ d.assigned_agent_id = c.assigned_agent_id
    BY <2>1, SavedRow
  <2> HIDE DEF w, op
  <2>3. Rewrites(w(c), c, c.status, c.assigned_agent_id)
    BY <1>3, <1>4, <2>2 DEF Rewrites
  <2>4. Asked(op(c), c, c.status, c.assigned_agent_id)
    BY <1>3, <2>1 DEF Asked, OpenOrAssigned
  <2>5. Shaped(r, op(c), w(c))
    BY <1>3, <2>2 DEF Shaped
  <2>6. QED
    BY <1>2, <1>3, <2>1, <2>3, <2>4, <2>5 DEF Current
<1>7. QED
  BY <1>5, <1>6

LEMMA AssignCurrent ==
  ASSUME TypeOK, TablesSound, NEW r \in Requests, NEW actor \in Users,
         NEW i \in Ids, NEW agent \in Users, AssignConversation(r, actor, i, agent)
  PROVE  \E c, w : Begin(r, c, w) /\ Shaped(r, c, w) /\ Current(r, c, w)
<1> DEFINE t == TenantOf[actor]
           events == DomainEvents(r, t, i, {"conversation.assigned"})
           row(c) == [c EXCEPT !.assigned_agent_id = agent, !.status = "assigned"]
           op == [op |-> "assign", tenant |-> t, conversation |-> i, agent |-> agent]
           w(c) == [NoWrites EXCEPT !.conversations = SaveConversation(c, row(c)),
                                    !.outbox = events]
<1>1. PICK c \in GetConversationByID(t, i) :
        c.status # "closed" /\ Begin(r, op, w(c))
  BY DEF AssignConversation
<1>2. /\ c \in conversations /\ c \in Conversation /\ c.id = i
      /\ agent \in Agents /\ SaveConversation(c, row(c)) # {}
  BY DEF TypeOK, GetConversationByID, AssignConversation, Agents, SaveConversation
<1> DEFINE a == IF c.assigned_agent_id = NoOne THEN agent ELSE c.assigned_agent_id
<1>3. ASSUME NEW d \in SaveConversation(c, row(c))
      PROVE  /\ d.id = c.id /\ d.customer = c.customer /\ d.channel = c.channel
             /\ d.status = "assigned" /\ d.assigned_agent_id = a
  <2>1. /\ row(c) \in Conversation /\ row(c).id = c.id
        /\ row(c).customer = c.customer /\ row(c).channel = c.channel
        /\ row(c).status = "assigned" /\ row(c).assigned_agent_id = agent
    BY <1>2 DEF Conversation, ConversationStatus
  <2> HIDE DEF row
  <2>2. QED
    BY <1>2, <2>1, SavedRow
<1>4. /\ w(c).conversations = SaveConversation(c, row(c)) /\ w(c).tickets = {}
      /\ w(c).outbox = events
      /\ op.op = "assign" /\ op.conversation = i /\ op.agent = agent
  BY DEF NoWrites
<1>5. \A e \in events : e.type # "conversation.closed"
  BY EventsTell
<1>6. Asked(op, c, "assigned", a)
  BY <1>1, <1>4 DEF Asked
<1> HIDE DEF events, w, row, op, a
<1>7. Shaped(r, op, w(c))
  BY <1>2, <1>3, <1>4, <1>5 DEF Shaped
<1>8. Rewrites(w(c), c, "assigned", a)
  BY <1>2, <1>3, <1>4 DEF Rewrites
<1>9. QED
  BY <1>1, <1>2, <1>4, <1>6, <1>7, <1>8 DEF Current

\* Who replies to a conversation or escalates it takes it over or has it.
LEMMA TakenRewrites ==
  ASSUME TypeOK, TablesSound, NEW c \in conversations, NEW agent \in Agents,
         OpenTo(c, agent), NEW d \in SaveConversation(c, TakenBy(c, agent))
  PROVE  /\ d.id = c.id /\ d.customer = c.customer /\ d.channel = c.channel
         /\ d.assigned_agent_id = agent /\ d.status = "assigned"
<1>1. c \in Conversation /\ agent \in Users /\ agent # NoOne
  BY ConstantsAssumption DEF TypeOK, Agents
<1>2. /\ c.status = "open" => c.assigned_agent_id = NoOne
      /\ c.status = "assigned" => c.assigned_agent_id # NoOne
      /\ c.status \in {"open", "assigned"}
  BY <1>1 DEF TablesSound, StatusAgreesWithAgent, OpenTo, Conversation,
              ConversationStatus
<1>3. TakenBy(c, agent) \in Conversation
  BY <1>1, TakenType
<1>4. /\ TakenBy(c, agent).id = c.id /\ TakenBy(c, agent).customer = c.customer
      /\ TakenBy(c, agent).channel = c.channel
      /\ TakenBy(c, agent).status = "assigned"
      /\ TakenBy(c, agent).assigned_agent_id = agent
  BY <1>1, <1>2 DEF TakenBy, OpenTo, Conversation
<1>5. QED
  BY <1>1, <1>3, <1>4, SavedRow DEF OpenTo

LEMMA ReplyCurrent ==
  ASSUME TypeOK, TablesSound, NEW r \in Requests, NEW agent \in Users,
         NEW i \in Ids, ReplyToConversation(r, agent, i)
  PROVE  \E c, w : Begin(r, c, w) /\ Shaped(r, c, w) /\ Current(r, c, w)
<1> DEFINE t == TenantOf[agent]
           events == DomainEvents(r, t, i, {"conversation.replied"})
           message == [id |-> r, conversation |-> i, sender |-> agent]
           op == [op |-> "reply", tenant |-> t, conversation |-> i, agent |-> agent]
           rows(c) == SaveConversation(c, TakenBy(c, agent))
           w(c) == [NoWrites EXCEPT !.conversations = rows(c),
                                    !.messages = {message}, !.outbox = events]
<1>1. PICK c \in GetConversationByID(t, i) : OpenTo(c, agent) /\ Begin(r, op, w(c))
  BY DEF ReplyToConversation
<1>2. c \in conversations /\ c.id = i /\ agent \in Agents /\ rows(c) # {}
  BY DEF GetConversationByID, ReplyToConversation, Agents, SaveConversation
<1>3. ASSUME NEW d \in rows(c)
      PROVE  /\ d.id = c.id /\ d.customer = c.customer /\ d.channel = c.channel
             /\ d.assigned_agent_id = agent /\ d.status = "assigned"
  BY <1>1, <1>2, TakenRewrites
<1>4. /\ w(c).conversations = rows(c) /\ w(c).tickets = {} /\ w(c).outbox = events
      /\ op.op = "reply" /\ op.conversation = i /\ op.agent = agent
  BY DEF NoWrites
<1>5. \A e \in events : e.type # "conversation.closed"
  BY EventsTell
<1>6. Asked(op, c, "assigned", agent)
  BY <1>1, <1>4 DEF Asked, OpenTo
<1> HIDE DEF events, w, rows, op
<1>7. Shaped(r, op, w(c))
  BY <1>2, <1>3, <1>4, <1>5 DEF Shaped
<1>8. Rewrites(w(c), c, "assigned", agent)
  BY <1>2, <1>3, <1>4 DEF Rewrites
<1>9. QED
  BY <1>1, <1>2, <1>4, <1>6, <1>7, <1>8 DEF Current

LEMMA CloseCurrent ==
  ASSUME TypeOK, TablesSound, NEW r \in Requests, NEW actor \in Users,
         NEW i \in Ids, CloseConversation(r, actor, i)
  PROVE  \E c, w : Begin(r, c, w) /\ Shaped(r, c, w) /\ Current(r, c, w)
<1> DEFINE t == TenantOf[actor]
           events == DomainEvents(r, t, i, {"conversation.closed"})
           row(c) == [c EXCEPT !.status = "closed"]
           op == [op |-> "close", tenant |-> t, conversation |-> i, agent |-> actor]
           rows(c) == SaveConversation(c, row(c))
           w(c) == IF c.status = "closed" THEN NoWrites
                   ELSE [NoWrites EXCEPT !.conversations = rows(c), !.outbox = events]
<1>1. PICK c \in GetConversationByID(t, i) :
        /\ RoleOf[actor] = "agent" => c.assigned_agent_id = actor
        /\ Begin(r, op, w(c))
  BY DEF CloseConversation
<1>2. c \in conversations /\ c \in Conversation /\ c.id = i /\ rows(c) # {}
  BY DEF TypeOK, GetConversationByID, SaveConversation
<1>3. ASSUME NEW d \in rows(c)
      PROVE  /\ d.id = c.id /\ d.customer = c.customer /\ d.channel = c.channel
             /\ d.status = "closed" /\ d.assigned_agent_id = c.assigned_agent_id
  <2>1. /\ row(c) \in Conversation /\ row(c).id = c.id
        /\ row(c).customer = c.customer /\ row(c).channel = c.channel
        /\ row(c).status = "closed"
        /\ row(c).assigned_agent_id = c.assigned_agent_id
    BY <1>2 DEF Conversation, ConversationStatus
  <2> HIDE DEF row
  <2>2. QED
    BY <1>2, <2>1, SavedRow
<1>4. /\ w(c).tickets = {}
      /\ IF c.status = "closed" THEN w(c).conversations = {} /\ w(c).outbox = {}
         ELSE w(c).conversations = rows(c) /\ w(c).outbox = events
      /\ op.op = "close" /\ op.conversation = i /\ op.agent = actor
  BY DEF NoWrites
<1>5. \A e \in events : e.entity = i
  BY EventsTell
<1>6. Asked(op, c, "closed", c.assigned_agent_id)
  BY <1>1, <1>4 DEF Asked, Agents
<1> HIDE DEF events, w, rows, op
<1>7. Shaped(r, op, w(c))
  BY <1>2, <1>3, <1>4, <1>5 DEF Shaped
<1>8. Rewrites(w(c), c, "closed", c.assigned_agent_id)
  BY <1>2, <1>3, <1>4 DEF Rewrites
<1>9. QED
  BY <1>1, <1>2, <1>4, <1>6, <1>7, <1>8 DEF Current

LEMMA EscalateCurrent ==
  ASSUME TypeOK, TablesSound, NEW r \in Requests, NEW agent \in Users,
         NEW i \in Ids, EscalateConversation(r, agent, i)
  PROVE  \E c, w : Begin(r, c, w) /\ Shaped(r, c, w) /\ Current(r, c, w)
<1> DEFINE t == TenantOf[agent]
           events == DomainEvents(r, t, i, {"conversation.escalated"})
                       \cup DomainEvents(r, t, r, {"ticket.created"})
           ticket == [id |-> r, tenant |-> t, conversation |-> i,
                      status |-> "open", assigned_agent_id |-> agent]
           op == [op |-> "escalate", tenant |-> t, conversation |-> i,
                  agent |-> agent]
           rows(c) == IF c.assigned_agent_id = NoOne
                      THEN SaveConversation(c, TakenBy(c, agent)) ELSE {}
           w(c) == [NoWrites EXCEPT !.conversations = rows(c),
                                    !.tickets = {ticket}, !.outbox = events]
<1>1. PICK c \in GetConversationByID(t, i) : OpenTo(c, agent) /\ Begin(r, op, w(c))
  BY DEF EscalateConversation
<1>2. c \in conversations /\ c.id = i /\ agent \in Agents /\ c \in Conversation
  BY DEF TypeOK, GetConversationByID, EscalateConversation, Agents
<1>3. ASSUME NEW d \in rows(c)
      PROVE  /\ d.id = c.id /\ d.customer = c.customer /\ d.channel = c.channel
             /\ d.assigned_agent_id = agent /\ d.status = "assigned"
  BY <1>1, <1>2, TakenRewrites
<1>4. rows(c) = {} => c.status = "assigned" /\ c.assigned_agent_id = agent
  <2>1. rows(c) = {} => c.assigned_agent_id = agent /\ agent # NoOne
    BY <1>1, <1>2, ConstantsAssumption DEF SaveConversation, OpenTo, Agents
  <2>2. c.assigned_agent_id # NoOne => c.status = "assigned"
    BY <1>1, <1>2
    DEF TablesSound, StatusAgreesWithAgent, OpenTo, Conversation, ConversationStatus
  <2>3. QED
    BY <2>1, <2>2
<1>5. /\ w(c).conversations = rows(c) /\ w(c).tickets = {ticket}
      /\ w(c).outbox = events
      /\ op.op = "escalate" /\ op.conversation = i /\ op.agent = agent
  BY DEF NoWrites
<1>6. \A e \in events : e.type # "conversation.closed"
  BY DEF DomainEvents
<1>7. ticket.id = r /\ ticket.conversation = i /\ ticket.status = "open"
  OBVIOUS
<1>8. Asked(op, c, "assigned", agent)
  BY <1>1, <1>5 DEF Asked, OpenTo
<1> HIDE DEF events, ticket, rows, w, op
<1>9. Shaped(r, op, w(c))
  BY <1>2, <1>3, <1>5, <1>6, <1>7 DEF Shaped
<1>10. Rewrites(w(c), c, "assigned", agent)
  BY <1>2, <1>3, <1>4, <1>5 DEF Rewrites
<1>11. QED
  BY <1>1, <1>2, <1>5, <1>8, <1>9, <1>10 DEF Current

LEMMA StatusCurrent ==
  ASSUME TypeOK, TablesSound, NEW r \in Requests, NEW actor \in Users,
         NEW ticket \in tickets, NEW status \in TicketStatus,
         UpdateStatus(r, actor, ticket, status)
  PROVE  \E c, w : Begin(r, c, w) /\ Shaped(r, c, w) /\ Current(r, c, w)
<1> DEFINE t == TenantOf[actor]
           events == DomainEvents(r, t, ticket.id, {"ticket.status.updated"})
           row == [ticket EXCEPT !.status = status]
           op == [op |-> "status", tenant |-> t,
                  conversation |-> ticket.conversation, agent |-> NoOne]
           w == [NoWrites EXCEPT !.tickets = {row}, !.outbox = events]
<1>1. Begin(r, op, w) /\ ticket.id # r
  BY DEF UpdateStatus, Begin, TablesSound, KeysSound
<1>2. row.id = ticket.id /\ row.conversation = ticket.conversation
  BY DEF TypeOK, Ticket
<1>3. /\ w.conversations = {} /\ w.tickets = {row} /\ w.outbox = events
      /\ op.op = "status" /\ op.conversation = ticket.conversation
  BY DEF NoWrites
<1>4. \A e \in events : e.type # "conversation.closed"
  BY EventsTell
<1> HIDE DEF events, row, w, op
<1>5. Shaped(r, op, w) /\ Current(r, op, w)
  BY <1>1, <1>2, <1>3, <1>4 DEF Shaped, Current
<1>6. QED
  BY <1>1, <1>5

LEMMA OperationCurrent ==
  ASSUME TypeOK, TablesSound, Timely, NEW r \in Requests, Operation(r)
  PROVE  \E c, w : Begin(r, c, w) /\ Shaped(r, c, w) /\ Current(r, c, w)
BY WebhookCurrent, AssignCurrent, ReplyCurrent, CloseCurrent, EscalateCurrent,
   StatusCurrent DEF Operation

-----------------------------------------------------------------------------
(* What the desk shows of the tables *)

DeskShows ==
  /\ deskStatus = [i \in Ids |-> deskStatus[i]]
  /\ deskThread = [i \in Ids |-> deskThread[i]]
  /\ deskHolder = [i \in Ids |-> deskHolder[i]]
  /\ deskTicket = [i \in Ids |-> deskTicket[i]]
  /\ \A c \in conversations :
       /\ c.id \in Ids
       /\ deskStatus[c.id] = c.status
       /\ deskThread[c.id] = <<c.customer, c.channel>>
       /\ deskHolder[c.id] = c.assigned_agent_id
  /\ \A i \in Ids : (\A c \in conversations : c.id # i) =>
       deskStatus[i] = "none" /\ deskThread[i] = NoOne /\ deskHolder[i] = NoOne
  /\ \A k \in tickets :
       k.conversation \in Ids /\ deskTicket[k.conversation] = k.status
  /\ \A i \in Ids :
       (\A k \in tickets : k.conversation # i) => deskTicket[i] = "none"

LEMMA RowFound ==
  ASSUME NEW table, \A c, d \in table : c.id = d.id => c = d, NEW c \in table
  PROVE  Has(table, c.id) /\ Row(table, c.id) = c
<1>1. Has(table, c.id)
  BY DEF Has
<1>2. Row(table, c.id) \in table /\ Row(table, c.id).id = c.id
  BY DEF Row
<1>3. QED
  BY <1>1, <1>2

LEMMA TablesShown == IInv /\ Kept => DeskShows
<1> SUFFICES ASSUME IInv, Kept PROVE DeskShows
  OBVIOUS
<1>1. TypeOK /\ TablesSound /\ KeysSound /\ OneTicketPerConversation
  BY DEF IInv, TablesSound
<1>2. /\ deskStatus = [i \in Ids |-> deskStatus[i]]
      /\ deskThread = [i \in Ids |-> deskThread[i]]
      /\ deskHolder = [i \in Ids |-> deskHolder[i]]
      /\ deskTicket = [i \in Ids |-> deskTicket[i]]
  BY DEF deskStatus, deskThread, deskHolder, deskTicket
<1>3. ASSUME NEW c \in conversations
      PROVE  /\ c.id \in Ids
             /\ deskStatus[c.id] = c.status
             /\ deskThread[c.id] = <<c.customer, c.channel>>
             /\ deskHolder[c.id] = c.assigned_agent_id
  <2>1. c.id \in Ids
    BY <1>1 DEF TypeOK, Conversation
  <2>2. Has(conversations, c.id) /\ Row(conversations, c.id) = c
    BY <1>1, RowFound DEF KeysSound
  <2>3. QED
    BY <2>1, <2>2 DEF deskStatus, deskThread, deskHolder
<1>4. ASSUME NEW i \in Ids, \A c \in conversations : c.id # i
      PROVE  deskStatus[i] = "none" /\ deskThread[i] = NoOne /\ deskHolder[i] = NoOne
  BY <1>4 DEF deskStatus, deskThread, deskHolder, Has
<1>5. ASSUME NEW k \in tickets
      PROVE  k.conversation \in Ids /\ deskTicket[k.conversation] = k.status
  <2>1. k.conversation \in Ids
    BY <1>1 DEF TypeOK, Ticket
  <2>2. TicketsOf(k.conversation) = {k}
    BY <1>1 DEF TicketsOf, OneTicketPerConversation, Kept
  <2>3. (CHOOSE l \in TicketsOf(k.conversation) : TRUE) = k
    BY <2>2
  <2>4. QED
    BY <2>1, <2>2, <2>3 DEF deskTicket
<1>6. ASSUME NEW i \in Ids, \A k \in tickets : k.conversation # i
      PROVE  deskTicket[i] = "none"
  BY <1>6 DEF deskTicket, TicketsOf
<1>7. QED
  BY <1>2, <1>3, <1>4, <1>5, <1>6 DEF DeskShows

LEMMA NextTablesShown == IInv' /\ Kept' => DeskShows'
BY TablesShown, PTL

\* Two rows of a conversation that show the same.
Shows(c, d) ==
  /\ c.id = d.id /\ c.customer = d.customer /\ c.channel = d.channel
  /\ c.status = d.status /\ c.assigned_agent_id = d.assigned_agent_id

\* A conversation that did not change is shown by a row before and after.
LEMMA UnchangedShown ==
  ASSUME TypeOK, TypeOK', DeskShows, DeskShows', NEW i \in Ids, i \notin Changed
  PROVE  /\ \A c \in conversations : c.id = i =>
              \E d \in conversations' : Shows(c, d)
         /\ \A d \in conversations' : d.id = i =>
              \E c \in conversations : Shows(c, d)
<1>1. /\ deskStatus'[i] = deskStatus[i] /\ deskThread'[i] = deskThread[i]
      /\ deskHolder'[i] = deskHolder[i]
  BY DEF Changed
<1>2. /\ \A c \in conversations : c.status # "none"
      /\ \A d \in conversations' : d.status # "none"
  BY DEF TypeOK, Conversation, ConversationStatus
<1>3. ASSUME NEW c \in conversations, c.id = i
      PROVE  \E d \in conversations' : Shows(c, d)
  <2>1. PICK d \in conversations' : d.id = i
    BY <1>1, <1>2, <1>3 DEF DeskShows
  <2>2. QED
    BY <1>1, <1>3, <2>1 DEF DeskShows, Shows
<1>4. ASSUME NEW d \in conversations', d.id = i
      PROVE  \E c \in conversations : Shows(c, d)
  <2>1. PICK c \in conversations : c.id = i
    BY <1>1, <1>2, <1>4 DEF DeskShows
  <2>2. QED
    BY <1>1, <1>4, <2>1 DEF DeskShows, Shows
<1>5. QED
  BY <1>3, <1>4

\* What a transaction found is still so as long as nothing it relies on changes.
LEMMA CurrentStays ==
  ASSUME TypeOK, TypeOK', DeskShows, DeskShows', NEW q \in Requests, NEW c, NEW w,
         c = call[q], w = tx[q], Current(q, c, w),
         \A i \in Changed : ~ReliesOn(q, i)
  PROVE  Current(q, c, w)'
<1>1. \A d \in conversations' : d.id \in Ids
  BY DEF TypeOK, Conversation
<1>2. CASE c.op = "status" /\ w.conversations = {}
  BY <1>2 DEF Current
<1>3. CASE /\ c.op = "webhook" /\ w.conversations # {}
           /\ \A d \in w.conversations : Opens(q, d)
  <2>1. ASSUME NEW d \in w.conversations, NEW e \in conversations',
               e.customer = d.customer, e.channel = d.channel
        PROVE  e.status = "closed"
    <3>1. deskThread'[e.id] = <<d.customer, d.channel>>
      BY <2>1 DEF DeskShows
    <3>2. e.id \notin Changed
      BY <1>3, <3>1 DEF ReliesOn, Opens
    <3>3. PICK b \in conversations : Shows(b, e)
      BY <1>1, <3>2, UnchangedShown
    <3>4. QED
      BY <1>3, <2>1, <3>3 DEF Opens, Shows
  <2>2. QED
    BY <1>3, <2>1 DEF Current, Opens
<1>4. ASSUME NEW b \in conversations, b.id = c.conversation, NEW s, NEW a,
             Asked(c, b, s, a), Rewrites(w, b, s, a)
      PROVE  Current(q, c, w)'
  <2>1. b.id \in Ids /\ b.id \notin Changed
    BY <1>4 DEF ReliesOn, TypeOK, Conversation
  <2>2. PICK d \in conversations' : Shows(b, d)
    BY <2>1, UnchangedShown
  <2>3. d.id = c.conversation /\ Asked(c, d, s, a) /\ Rewrites(w, d, s, a)
    BY <1>4, <2>2 DEF Asked, Rewrites, Shows
  <2>4. QED
    BY <2>3 DEF Current
<1>5. QED
  BY <1>2, <1>3, <1>4 DEF Current

-----------------------------------------------------------------------------
(* Every step keeps the invariant *)

\* What a commit finds.
LEMMA CommitFinds ==
  ASSUME DInv, NEW r \in Requests, Commit(r)
  PROVE  /\ TypeOK /\ TablesSound /\ Fits(r, tx[r]) /\ Shaped(r, call[r], tx[r])
         /\ r \notin overtaken => Current(r, call[r], tx[r])
         /\ UniqueKeysAllow(tx[r]) /\ Commits(r)
         /\ outbox' = outbox \cup tx[r].outbox
         /\ tickets' = Upsert(tickets, tx[r].tickets)
         /\ \A c \in conversations : c.id # r
         /\ \A k \in tickets : k.id # r
         /\ \A q \in Requests \ {r} :
              pc'[q] = pc[q] /\ call'[q] = call[q] /\ tx'[q] = tx[q]
<1>1. TypeOK /\ TablesSound /\ pc[r] = "tx"
  BY DEF DInv, IInv, Commit
<1>2. /\ \A c \in conversations : c.id # r
      /\ \A k \in tickets : k.id # r
  BY <1>1 DEF TablesSound, KeysSound
<1>3. /\ Commits(r)
      /\ \A q \in Requests \ {r} :
           pc'[q] = pc[q] /\ call'[q] = call[q] /\ tx'[q] = tx[q]
  BY <1>1 DEF TypeOK, Commit, Commits
<1>4. QED
  BY <1>1, <1>2, <1>3 DEF DInv, IInv, Underway, Commit

\* A conversation after a commit is one that was left alone, or shows what the
\* transaction wrote.
LEMMA CommitRows ==
  ASSUME TypeOK, Timely, NEW r \in Requests, Commit(r)
  PROVE  /\ \A c \in conversations' :
              \/ c \in conversations /\ \A d \in tx[r].conversations : d.id # c.id
              \/ \E d \in tx[r].conversations : Shows(c, d)
         /\ \A d \in tx[r].conversations : \E c \in conversations' : Shows(c, d)
         /\ \A c \in conversations :
              (\A d \in tx[r].conversations : d.id # c.id) => c \in conversations'
         /\ \A c \in conversations' : c.updated_at <= now
<1> DEFINE w == tx[r]
<1>1. w \in Writes /\ now \in Nat
  BY DEF TypeOK
<1>2. PICK second \in 0..now :
        conversations' = Upsert(conversations,
          {[d EXCEPT !.updated_at = second] : d \in w.conversations})
  BY DEF Commit
<1> DEFINE stamped(d) == [d EXCEPT !.updated_at = second]
           rows == {stamped(d) : d \in w.conversations}
<1>3. ASSUME NEW d \in w.conversations
      PROVE  Shows(stamped(d), d) /\ stamped(d).updated_at = second
  BY <1>1 DEF Writes, Conversation, Shows
<1>4. /\ \A c \in rows : \E d \in w.conversations :
           Shows(c, d) /\ c.id = d.id /\ c.updated_at = second
      /\ \A d \in w.conversations : \E c \in rows : Shows(c, d) /\ c.id = d.id
  <2>1. \A c, d : Shows(c, d) => c.id = d.id
    BY DEF Shows
  <2> HIDE DEF w, stamped
  <2>2. \A c \in rows : \E d \in w.conversations : c = stamped(d)
    OBVIOUS
  <2>3. \A d \in w.conversations : stamped(d) \in rows
    OBVIOUS
  <2> HIDE DEF rows
  <2>4. QED
    BY <1>3, <2>1, <2>2, <2>3
<1>5. conversations' = Upsert(conversations, rows)
  BY <1>2
<1> HIDE DEF w, stamped, rows
<1>6. \A c \in conversations' :
        \/ c \in conversations /\ \A d \in w.conversations : d.id # c.id
        \/ \E d \in w.conversations : Shows(c, d) /\ c.updated_at = second
  BY <1>4, <1>5 DEF Upsert
<1>7. \A d \in w.conversations : \E c \in conversations' : Shows(c, d)
  BY <1>4, <1>5 DEF Upsert
<1>8. \A c \in conversations :
        (\A d \in w.conversations : d.id # c.id) => c \in conversations'
  BY <1>4, <1>5 DEF Upsert
<1>9. \A c \in conversations' : c.updated_at <= now
  BY <1>1, <1>6 DEF Timely
<1>10. QED
  BY <1>6, <1>7, <1>8, <1>9 DEF w

LEMMA CommitKept ==
  ASSUME DInv, NEW r \in Requests, Commit(r)
  PROVE  Kept' /\ Timely'
<1> DEFINE w == tx[r]
<1>1. /\ Fits(r, w) /\ Shaped(r, call[r], w) /\ Kept /\ TypeOK /\ Timely
      /\ outbox' = outbox \cup w.outbox /\ tickets' = Upsert(tickets, w.tickets)
  BY CommitFinds DEF DInv
<1>2. Timely'
  <2>1. now' = now
    BY DEF Commit
  <2>2. QED
    BY <1>1, <2>1, CommitRows DEF Timely
<1>3. ASSUME NEW e \in outbox', e.type = "conversation.closed"
      PROVE  \E c \in conversations' : c.id = e.entity
  <2>1. CASE e \in outbox
    BY <1>1, <1>3, <2>1, CommitRows DEF Kept, Shows
  <2>2. CASE e \in w.outbox
    BY <1>1, <1>3, <2>2, CommitRows DEF Shaped, Shows
  <2>3. QED
    BY <1>1, <2>1, <2>2
<1>4. \A k, l \in tickets' : k.id = l.id => k = l
  <2> HIDE DEF w
  <2>1. QED
    BY <1>1 DEF Kept, Fits, Upsert
<1>5. QED
  BY <1>2, <1>3, <1>4 DEF Kept

LEMMA ReseedKept ==
  ASSUME DInv, ReseedConversations \/ ReseedTickets
  PROVE  Kept' /\ Timely'
<1>1. Kept /\ Timely /\ outbox' = outbox /\ now' = now /\ now \in Nat
  BY DEF DInv, IInv, TypeOK, ReseedConversations, ReseedTickets
<1>2. CASE ReseedConversations
  <2>1. /\ conversations' = Upsert(conversations, DemoConversations)
        /\ tickets' = tickets
    BY <1>2 DEF ReseedConversations
  <2>2. \A c \in DemoConversations : c.updated_at = now
    BY DEF DemoConversations
  <2>3. \A c \in conversations : \E d \in conversations' : d.id = c.id
    BY <2>1 DEF Upsert
  <2>4. \A c \in conversations' : c \in conversations \/ c \in DemoConversations
    BY <2>1 DEF Upsert
  <2>5. QED
    BY <1>1, <2>1, <2>2, <2>3, <2>4 DEF Kept, Timely
<1>3. CASE ReseedTickets
  <2>1. /\ tickets' = Upsert(tickets, DemoTickets)
        /\ conversations' = conversations
    BY <1>3 DEF ReseedTickets
  <2>2. \A k, l \in DemoTickets : k.id = l.id => k = l
    BY DemoAssumption DEF DemoTickets
  <2>3. \A k, l \in tickets' : k.id = l.id => k = l
    BY <1>1, <2>1, <2>2 DEF Kept, Upsert
  <2>4. QED
    BY <1>1, <2>1, <2>3 DEF Kept, Timely
<1>4. QED
  BY <1>2, <1>3

LEMMA QuietKept ==
  ASSUME DInv, UNCHANGED <<conversations, tickets, outbox>>,
         now' = now \/ now' \in now..MaxSecond
  PROVE  Kept' /\ Timely'
BY ConstantsAssumption DEF DInv, IInv, TypeOK, Conversation, Kept, Timely

\* What every other open transaction found is still so, or it is overtaken.
LEMMA OthersStay ==
  ASSUME DInv, IInv', Kept', Watch, NEW q \in Requests, pc[q] = "tx",
         pc'[q] = "tx", call'[q] = call[q], tx'[q] = tx[q]
  PROVE  Shaped(q, call[q], tx[q])' /\ (q \in overtaken \/ Current(q, call[q], tx[q]))'
<1>1. PICK c, w : c = call[q] /\ w = tx[q]
  OBVIOUS
<1>2. TypeOK /\ TypeOK' /\ DeskShows /\ DeskShows'
  BY TablesShown, NextTablesShown DEF DInv, IInv
<1>3. Shaped(q, c, w) /\ (q \in overtaken \/ Current(q, c, w))
  BY <1>1 DEF DInv, Underway
<1>4. Shaped(q, c, w)'
  BY <1>3 DEF Shaped
<1>5. ASSUME q \notin overtaken' PROVE Current(q, c, w)'
  <2>1. q \notin overtaken /\ \A i \in Changed : ~ReliesOn(q, i)
    BY <1>5 DEF Watch
  <2>2. QED
    BY <1>1, <1>2, <1>3, <2>1, CurrentStays
<1>6. c = call'[q] /\ w = tx'[q]
  BY <1>1
<1>7. QED
  BY <1>4, <1>5, <1>6

LEMMA BeginUnderway ==
  ASSUME DInv, IInv', Kept', Watch, NEW r \in Requests, NEW c, NEW w,
         Begin(r, c, w), Shaped(r, c, w), Current(r, c, w)
  PROVE  Underway'
<1>1. TypeOK /\ UNCHANGED conversations
  BY DEF DInv, IInv, Begin, tables
<1> SUFFICES ASSUME NEW q \in Requests, pc'[q] = "tx"
             PROVE  /\ Shaped(q, call[q], tx[q])'
                    /\ (q \in overtaken \/ Current(q, call[q], tx[q]))'
  BY DEF Underway
<1>2. CASE q = r
  <2>1. call'[q] = c /\ tx'[q] = w
    BY <1>1, <1>2 DEF TypeOK, Begin
  <2>2. Shaped(r, c, w)' /\ Current(r, c, w)'
    BY <1>1 DEF Shaped, Current, Opens
  <2>3. QED
    BY <1>2, <2>1, <2>2
<1>3. CASE q # r
  <2>1. pc[q] = "tx" /\ call'[q] = call[q] /\ tx'[q] = tx[q]
    BY <1>1, <1>3 DEF TypeOK, Begin
  <2>2. QED
    BY <2>1, OthersStay
<1>4. QED
  BY <1>2, <1>3

\* A step that opens no transaction.
LEMMA OtherUnderway ==
  ASSUME DInv, IInv', Kept', Watch,
         \A q \in Requests : pc'[q] = "tx" =>
           pc[q] = "tx" /\ call'[q] = call[q] /\ tx'[q] = tx[q]
  PROVE  Underway'
BY OthersStay DEF Underway

\* A conversation on a thread that is not raced shows what it showed, unless
\* the step is a commit in time.
LEMMA NotRacedShown ==
  ASSUME DInv, IInv', Kept', Watch, ~CommitInTime, NEW c \in conversations',
         <<c.customer, c.channel>> \notin raced'
  PROVE  \E b \in conversations : Shows(b, c) /\ <<b.customer, b.channel>> \notin raced
<1>1. TypeOK /\ TypeOK' /\ DeskShows /\ DeskShows'
  BY TablesShown, NextTablesShown DEF DInv, IInv
<1>2. c.id \in Ids /\ deskThread'[c.id] = <<c.customer, c.channel>>
  BY <1>1 DEF DeskShows
<1>3. raced' = raced \cup {deskThread'[i] : i \in Changed}
  BY DEF Watch
<1>4. c.id \notin Changed
  BY <1>2, <1>3
<1>5. PICK b \in conversations : Shows(b, c)
  BY <1>1, <1>2, <1>4, UnchangedShown
<1>6. <<b.customer, b.channel>> = <<c.customer, c.channel>>
  BY <1>5 DEF Shows
<1>7. QED
  BY <1>3, <1>5, <1>6

LEMMA RulesOutOfTime ==
  ASSUME DInv, IInv', Kept', Watch, ~CommitInTime,
         \A e \in outbox' : e.type = "conversation.closed" =>
           \/ e \in outbox
           \/ \A c \in conversations' : c.id = e.entity => c.status = "closed"
  PROVE  OneActiveUnlessRaced' /\ ClosedUnlessRaced'
<1>1. OneActiveUnlessRaced /\ ClosedUnlessRaced
  BY DEF DInv
<1>2. OneActiveUnlessRaced'
  <2> SUFFICES ASSUME NEW c \in conversations', NEW d \in conversations',
                      c.status \in OpenOrAssigned, d.status \in OpenOrAssigned,
                      c.customer = d.customer, c.channel = d.channel,
                      <<c.customer, c.channel>> \notin raced'
               PROVE  c.id = d.id
    BY DEF OneActiveUnlessRaced
  <2>1. PICK a \in conversations :
          Shows(a, c) /\ <<a.customer, a.channel>> \notin raced
    BY NotRacedShown
  <2>2. <<d.customer, d.channel>> \notin raced'
    OBVIOUS
  <2>3. PICK b \in conversations : Shows(b, d)
    BY <2>2, NotRacedShown
  <2>4. QED
    BY <1>1, <2>1, <2>3 DEF OneActiveUnlessRaced, Shows
<1>3. ClosedUnlessRaced'
  <2> SUFFICES ASSUME NEW e \in outbox', NEW c \in conversations',
                      e.type = "conversation.closed", e.entity = c.id,
                      <<c.customer, c.channel>> \notin raced'
               PROVE  c.status = "closed"
    BY DEF ClosedUnlessRaced
  <2>1. PICK a \in conversations :
          Shows(a, c) /\ <<a.customer, a.channel>> \notin raced
    BY NotRacedShown
  <2>2. QED
    BY <1>1, <2>1 DEF ClosedUnlessRaced, Shows
<1>4. QED
  BY <1>2, <1>3

\* The row that a commit in time writes, against the one it found.
LEMMA WrittenInTime ==
  ASSUME DInv, NEW r \in Requests, Commit(r), r \notin overtaken,
         NEW d \in tx[r].conversations
  PROVE  \/ Opens(r, d)
         \/ \E b \in conversations :
              /\ b.id = d.id /\ b.customer = d.customer /\ b.channel = d.channel
              /\ d.status # "closed" => b.status # "closed"
<1>1. PICK c, w : c = call[r] /\ w = tx[r]
  OBVIOUS
<1>2. Current(r, c, w) /\ d \in w.conversations
  BY <1>1, CommitFinds
<1>3. ASSUME NEW b \in conversations, NEW s, NEW a, Asked(c, b, s, a),
             Rewrites(w, b, s, a)
      PROVE  /\ b.id = d.id /\ b.customer = d.customer /\ b.channel = d.channel
             /\ d.status # "closed" => b.status # "closed"
  BY <1>2, <1>3 DEF Asked, Rewrites
<1>4. QED
  BY <1>2, <1>3 DEF Current

LEMMA RulesInTime ==
  ASSUME DInv, NEW r \in Requests, Commit(r), r \notin overtaken, raced' = raced
  PROVE  OneActiveUnlessRaced' /\ ClosedUnlessRaced'
<1>1. PICK w : w = tx[r]
  OBVIOUS
<1>2. /\ TypeOK /\ Kept /\ OneActiveUnlessRaced /\ ClosedUnlessRaced
      /\ Fits(r, w) /\ Shaped(r, call[r], w) /\ outbox' = outbox \cup w.outbox
      /\ \A b \in conversations : b.id # r
  BY <1>1, CommitFinds DEF DInv
<1>3. \A d \in w.conversations :
        \/ Opens(r, d)
        \/ \E b \in conversations :
             /\ b.id = d.id /\ b.customer = d.customer /\ b.channel = d.channel
             /\ d.status # "closed" => b.status # "closed"
  BY <1>1, WrittenInTime
<1>4. \A c \in conversations' :
        \/ c \in conversations /\ \A d \in w.conversations : d.id # c.id
        \/ \E d \in w.conversations : Shows(c, d)
  BY <1>1, <1>2, CommitRows DEF DInv
<1>5. \A b \in conversations : b.status # "closed" <=> b.status \in OpenOrAssigned
  BY <1>2 DEF TypeOK, Conversation, ConversationStatus, OpenOrAssigned
<1>6. OneActiveUnlessRaced'
  <2> SUFFICES ASSUME NEW c \in conversations', NEW d \in conversations',
                      c.status \in OpenOrAssigned, d.status \in OpenOrAssigned,
                      c.customer = d.customer, c.channel = d.channel,
                      <<c.customer, c.channel>> \notin raced
               PROVE  c.id = d.id
    BY DEF OneActiveUnlessRaced
  \* An active one that was left alone and the one the transaction writes.
  <2>1. ASSUME NEW a \in conversations, NEW b, NEW row \in w.conversations,
               Shows(b, row), a.status \in OpenOrAssigned,
               b.status \in OpenOrAssigned, a.customer = b.customer,
               a.channel = b.channel, <<a.customer, a.channel>> \notin raced
        PROVE  a.id = b.id
    <3>1. ~Opens(r, row)
      BY <2>1 DEF Opens, Shows, OpenOrAssigned
    <3>2. PICK e \in conversations :
            /\ e.id = row.id /\ e.customer = row.customer
            /\ e.channel = row.channel
            /\ row.status # "closed" => e.status # "closed"
      BY <1>3, <3>1
    <3>3. e.status \in OpenOrAssigned
      BY <1>5, <2>1, <3>2 DEF Shows, OpenOrAssigned
    <3>4. QED
      BY <1>2, <2>1, <3>2, <3>3 DEF OneActiveUnlessRaced, Shows
  <2>2. <<d.customer, d.channel>> \notin raced
    OBVIOUS
  <2>3. CASE c \in conversations /\ d \in conversations
    BY <1>2, <2>3 DEF OneActiveUnlessRaced
  <2>4. CASE \E row \in w.conversations : Shows(c, row)
    <3>1. CASE d \in conversations
      BY <2>1, <2>2, <2>4, <3>1
    <3>2. CASE \E row \in w.conversations : Shows(d, row)
      BY <1>2, <2>4, <3>2 DEF Fits, Shows
    <3>3. QED
      BY <1>4, <3>1, <3>2
  <2>5. CASE c \in conversations /\ \E row \in w.conversations : Shows(d, row)
    BY <2>1, <2>5
  <2>6. QED
    BY <1>4, <2>3, <2>4, <2>5
<1>7. ClosedUnlessRaced'
  <2> SUFFICES ASSUME NEW e \in outbox', NEW c \in conversations',
                      e.type = "conversation.closed", e.entity = c.id,
                      <<c.customer, c.channel>> \notin raced
               PROVE  c.status = "closed"
    BY DEF ClosedUnlessRaced
  <2>1. CASE e \in outbox /\ c \in conversations
    BY <1>2, <2>1 DEF ClosedUnlessRaced
  <2>2. ASSUME e \in outbox, NEW d \in w.conversations, Shows(c, d)
        PROVE  c.status = "closed"
    <3>1. ~Opens(r, d)
      BY <1>2, <2>2 DEF Kept, Opens, Shows
    <3>2. PICK b \in conversations :
            /\ b.id = d.id /\ b.customer = d.customer /\ b.channel = d.channel
            /\ d.status # "closed" => b.status # "closed"
      BY <1>3, <3>1
    <3>3. b.status = "closed"
      BY <1>2, <2>2, <3>2 DEF ClosedUnlessRaced, Shows
    <3>4. QED
      BY <2>2, <3>2, <3>3 DEF Shows
  <2>3. CASE e \in w.outbox
    <3>1. PICK d \in w.conversations : d.id = c.id /\ d.status = "closed"
      BY <1>2, <2>3 DEF Shaped
    <3>2. QED
      BY <1>2, <1>4, <3>1 DEF Fits, Shows
  <2>4. QED
    BY <1>2, <1>4, <2>1, <2>2, <2>3
<1>8. QED
  BY <1>6, <1>7

LEMMA CommitDInv ==
  ASSUME DInv, IInv', Watch, NEW r \in Requests, Commit(r)
  PROVE  DInv'
<1>1. Kept' /\ Timely'
  BY CommitKept
<1>2. /\ Commits(r) /\ Shaped(r, call[r], tx[r]) /\ Fits(r, tx[r])
      /\ outbox' = outbox \cup tx[r].outbox
      /\ \A q \in Requests \ {r} :
           pc'[q] = pc[q] /\ call'[q] = call[q] /\ tx'[q] = tx[q]
  BY CommitFinds
<1>3. Underway'
  BY <1>1, <1>2, OtherUnderway DEF Commits
<1>4. CASE r \notin overtaken
  <2>1. raced' = raced
    BY <1>2, <1>4 DEF Watch, CommitInTime
  <2>2. QED
    BY <1>1, <1>3, <1>4, <2>1, RulesInTime DEF DInv
<1>5. CASE r \in overtaken
  <2>1. ~CommitInTime
    BY <1>2, <1>5 DEF CommitInTime, Commits
  <2>2. ASSUME NEW e \in tx[r].outbox, e.type = "conversation.closed",
               NEW c \in conversations', c.id = e.entity
        PROVE  c.status = "closed"
    <3>1. PICK d \in tx[r].conversations : d.id = c.id /\ d.status = "closed"
      BY <1>2, <2>2 DEF Shaped
    <3>2. PICK b \in tx[r].conversations : Shows(c, b)
      BY <3>1, CommitRows DEF DInv, IInv
    <3>3. QED
      BY <1>2, <3>1, <3>2 DEF Fits, Shows
  <2>3. QED
    BY <1>1, <1>2, <1>3, <2>1, <2>2, RulesOutOfTime DEF DInv
<1>6. QED
  BY <1>4, <1>5

\* A step that commits nothing.
LEMMA OtherDInv ==
  ASSUME DInv, IInv', Kept', Timely', Underway', Watch, UNCHANGED outbox,
         \A q \in Requests : ~Commits(q)
  PROVE  DInv'
BY RulesOutOfTime DEF DInv, CommitInTime

LEMMA NextDInv ==
  ASSUME DInv, [DeskNext]_deskVars
  PROVE  DInv'
<1>1. IInv /\ IInv' /\ TypeOK /\ TypeOK' /\ TablesSound /\ Timely
  <2>1. [Next]_vars
    BY DEF DeskNext, deskVars
  <2>2. QED
    BY <2>1, NextKeeps DEF DInv, IInv
<1>2. CASE UNCHANGED deskVars
  <2>1. UNCHANGED <<conversations, tickets, outbox, now, pc, call, tx, overtaken,
                    raced>>
    BY <1>2 DEF deskVars, vars
  <2>2. Kept' /\ Timely'
    BY <2>1, QuietKept
  <2>3. Underway'
    BY <2>1 DEF DInv, Underway, Shaped, Current, Opens
  <2>4. OneActiveUnlessRaced' /\ ClosedUnlessRaced'
    BY <2>1 DEF DInv, OneActiveUnlessRaced, ClosedUnlessRaced
  <2>5. QED
    BY <1>1, <2>2, <2>3, <2>4 DEF DInv
<1>3. ASSUME Next, Watch PROVE DInv'
  <2>1. ASSUME NEW r \in Requests, Operation(r) PROVE DInv'
    <3>1. PICK c, w : Begin(r, c, w) /\ Shaped(r, c, w) /\ Current(r, c, w)
      BY <1>1, <2>1, OperationCurrent
    <3>2. /\ UNCHANGED <<conversations, tickets, outbox>>
          /\ now' \in now..MaxSecond
          /\ \A q \in Requests : ~Commits(q)
      BY <1>1, <3>1 DEF TypeOK, Begin, tables, Commits
    <3>3. Kept' /\ Timely'
      BY <3>2, QuietKept
    <3>4. QED
      BY <1>1, <1>3, <3>1, <3>2, <3>3, BeginUnderway, OtherDInv
  <2>2. ASSUME NEW r \in Requests, Commit(r) PROVE DInv'
    BY <1>1, <1>3, <2>2, CommitDInv
  <2>3. ASSUME UNCHANGED outbox, Kept', Timely',
               \A q \in Requests : pc'[q] # "committed" \/ pc[q] = "committed",
               \A q \in Requests : pc'[q] = "tx" =>
                 pc[q] = "tx" /\ call'[q] = call[q] /\ tx'[q] = tx[q]
        PROVE  DInv'
    BY <1>1, <1>3, <2>3, OtherUnderway, OtherDInv DEF Commits
  <2>4. ASSUME NEW r \in Requests, Bump(r) PROVE DInv'
    <3>1. /\ UNCHANGED <<conversations, tickets, outbox, now, tx>>
          /\ \A q \in Requests : pc'[q] # "committed" \/ pc[q] = "committed"
          /\ \A q \in Requests : pc'[q] = "tx" => pc[q] = "tx" /\ call'[q] = call[q]
      BY <1>1, <2>4 DEF TypeOK, Bump, tables
    <3>2. QED
      BY <2>3, <3>1, QuietKept
  <2>5. ASSUME NEW who \in SUBSET Requests, Fail(who) PROVE DInv'
    <3>1. /\ UNCHANGED <<conversations, tickets, outbox, now>>
          /\ \A q \in Requests : pc'[q] # "committed" \/ pc[q] = "committed"
          /\ \A q \in Requests : pc'[q] = "tx" =>
               pc[q] = "tx" /\ call'[q] = call[q] /\ tx'[q] = tx[q]
      BY <1>1, <2>5 DEF TypeOK, Fail, tables
    <3>2. QED
      BY <2>3, <3>1, QuietKept
  <2>6. CASE UNCHANGED vars
    <3>1. UNCHANGED <<conversations, tickets, outbox, now, pc, call, tx>>
      BY <2>6 DEF vars, tables
    <3>2. QED
      BY <2>3, <3>1, QuietKept
  <2>7. CASE ReseedConversations \/ ReseedTickets
    <3>1. UNCHANGED <<outbox, pc, call, tx>>
      BY <2>7 DEF ReseedConversations, ReseedTickets
    <3>2. QED
      BY <2>3, <2>7, <3>1, ReseedKept
  <2>8. QED
    BY <1>3, <2>1, <2>2, <2>4, <2>5, <2>6, <2>7
    DEF Next, Reject, Abort, Crash, AllAnswered
<1>4. QED
  BY <1>2, <1>3 DEF DeskNext

LEMMA InitDInv == DeskInit => DInv
<1> SUFFICES ASSUME DeskInit PROVE DInv
  OBVIOUS
<1>1. Init /\ IInv
  BY InitIInv DEF DeskInit
<1> USE DEF DemoConversations, DemoTickets
<1>2. Kept /\ Timely
  BY <1>1, DemoAssumption DEF Init, Kept, Timely
<1>3. Underway
  BY <1>1 DEF Init, Underway
<1>4. OneActiveUnlessRaced /\ ClosedUnlessRaced
  BY <1>1 DEF Init, OneActiveUnlessRaced, ClosedUnlessRaced
<1>5. QED
  BY <1>1, <1>2, <1>3, <1>4 DEF DInv

-----------------------------------------------------------------------------
(* What a step does to the desk *)

LEMMA QuietDesk ==
  ASSUME DInv, DInv', UNCHANGED <<conversations, tickets>>
  PROVE  UNCHANGED Desk!vars
<1>1. DeskShows /\ DeskShows'
  BY TablesShown, NextTablesShown DEF DInv
<1>2. ASSUME NEW i \in Ids
      PROVE  /\ deskStatus'[i] = deskStatus[i] /\ deskThread'[i] = deskThread[i]
             /\ deskHolder'[i] = deskHolder[i] /\ deskTicket'[i] = deskTicket[i]
  <2>1. ASSUME \A c \in conversations : c.id # i
        PROVE  /\ deskStatus'[i] = deskStatus[i] /\ deskThread'[i] = deskThread[i]
               /\ deskHolder'[i] = deskHolder[i]
    BY <1>1, <2>1 DEF DeskShows
  <2>2. ASSUME \A k \in tickets : k.conversation # i
        PROVE  deskTicket'[i] = deskTicket[i]
    BY <1>1, <2>2 DEF DeskShows
  <2>3. ASSUME NEW c \in conversations, c.id = i
        PROVE  /\ deskStatus'[i] = deskStatus[i] /\ deskThread'[i] = deskThread[i]
               /\ deskHolder'[i] = deskHolder[i]
    BY <1>1, <2>3 DEF DeskShows
  <2>4. ASSUME NEW k \in tickets, k.conversation = i
        PROVE  deskTicket'[i] = deskTicket[i]
    BY <1>1, <2>4 DEF DeskShows
  <2>5. QED
    BY <2>1, <2>2, <2>3, <2>4
<1>3. QED
  BY <1>1, <1>2 DEF DeskShows, Desk!vars

\* A commit shows on the desk what its transaction wrote, and no more.
LEMMA CommitShows ==
  ASSUME DInv, DInv', NEW r \in Requests, Commit(r)
  PROVE  /\ tx[r].conversations = {} =>
              UNCHANGED <<deskStatus, deskThread, deskHolder>>
         /\ \A d \in tx[r].conversations :
              /\ d.id \in Ids
              /\ deskStatus' = [deskStatus EXCEPT ![d.id] = d.status]
              /\ deskThread' = [deskThread EXCEPT ![d.id] = <<d.customer, d.channel>>]
              /\ deskHolder' = [deskHolder EXCEPT ![d.id] = d.assigned_agent_id]
<1> DEFINE w == tx[r]
<1>1. DeskShows /\ DeskShows'
  BY TablesShown, NextTablesShown DEF DInv
<1>2. Fits(r, w) /\ w \in Writes
  BY CommitFinds DEF TypeOK
<1>3. /\ \A c \in conversations' :
           \/ c \in conversations /\ \A d \in w.conversations : d.id # c.id
           \/ \E d \in w.conversations : Shows(c, d)
      /\ \A d \in w.conversations : \E c \in conversations' : Shows(c, d)
      /\ \A c \in conversations :
           (\A d \in w.conversations : d.id # c.id) => c \in conversations'
  BY CommitRows DEF DInv, IInv
<1> HIDE DEF w
<1>4. ASSUME NEW i \in Ids, \A d \in w.conversations : d.id # i
      PROVE  /\ deskStatus'[i] = deskStatus[i] /\ deskThread'[i] = deskThread[i]
             /\ deskHolder'[i] = deskHolder[i]
  <2>1. CASE \E c \in conversations : c.id = i
    <3>1. PICK c \in conversations : c.id = i
      BY <2>1
    <3>2. c \in conversations'
      BY <1>3, <1>4, <3>1
    <3>3. QED
      BY <1>1, <3>1, <3>2 DEF DeskShows
  <2>2. CASE \A c \in conversations : c.id # i
    <3>1. \A c \in conversations' : c.id # i
      BY <1>3, <1>4, <2>2 DEF Shows
    <3>2. QED
      BY <1>1, <2>2, <3>1 DEF DeskShows
  <2>3. QED
    BY <2>1, <2>2
<1>5. ASSUME NEW d \in w.conversations
      PROVE  /\ d.id \in Ids /\ deskStatus'[d.id] = d.status
             /\ deskThread'[d.id] = <<d.customer, d.channel>>
             /\ deskHolder'[d.id] = d.assigned_agent_id
             /\ \A i \in Ids \ {d.id} : \A e \in w.conversations : e.id # i
  <2>1. PICK c \in conversations' : Shows(c, d)
    BY <1>3
  <2>2. d.id \in Ids
    BY <1>2 DEF Writes, Conversation
  <2>3. \A e \in w.conversations : e = d
    BY <1>2 DEF Fits
  <2>4. QED
    BY <1>1, <2>1, <2>2, <2>3 DEF DeskShows, Shows
<1>6. ASSUME w.conversations = {}
      PROVE  UNCHANGED <<deskStatus, deskThread, deskHolder>>
  BY <1>1, <1>4, <1>6 DEF DeskShows
<1>7. ASSUME NEW d \in w.conversations
      PROVE  /\ deskStatus' = [deskStatus EXCEPT ![d.id] = d.status]
             /\ deskThread' = [deskThread EXCEPT ![d.id] = <<d.customer, d.channel>>]
             /\ deskHolder' = [deskHolder EXCEPT ![d.id] = d.assigned_agent_id]
  BY <1>1, <1>4, <1>5 DEF DeskShows
<1>8. QED
  BY <1>5, <1>6, <1>7 DEF w

LEMMA CommitShowsTicket ==
  ASSUME DInv, DInv', NEW r \in Requests, Commit(r)
  PROVE  /\ tx[r].tickets = {} => UNCHANGED deskTicket
         /\ \A k \in tx[r].tickets :
              /\ k.conversation \in Ids
              /\ deskTicket' = [deskTicket EXCEPT ![k.conversation] = k.status]
<1> DEFINE w == tx[r]
<1>1. DeskShows /\ DeskShows'
  BY TablesShown, NextTablesShown DEF DInv
<1>2. /\ Fits(r, w) /\ w \in Writes /\ Kept /\ tickets' = Upsert(tickets, w.tickets)
      /\ \A k \in tickets : k.id # r
  BY CommitFinds DEF TypeOK, DInv
<1> HIDE DEF w
<1>3. ASSUME NEW i \in Ids, \A k \in w.tickets : k.conversation # i
      PROVE  deskTicket'[i] = deskTicket[i]
  <2>1. CASE \E l \in tickets : l.conversation = i
    <3>1. PICK l \in tickets : l.conversation = i
      BY <2>1
    <3>2. \A k \in w.tickets : k.id # l.id
      BY <1>2, <1>3, <3>1 DEF Fits, Kept, TicketIs
    <3>3. l \in tickets'
      BY <1>2, <3>2 DEF Upsert
    <3>4. QED
      BY <1>1, <3>1, <3>3 DEF DeskShows
  <2>2. CASE \A l \in tickets : l.conversation # i
    <3>1. \A l \in tickets' : l.conversation # i
      BY <1>2, <1>3, <2>2 DEF Upsert
    <3>2. QED
      BY <1>1, <2>2, <3>1 DEF DeskShows
  <2>3. QED
    BY <2>1, <2>2
<1>4. ASSUME NEW k \in w.tickets
      PROVE  /\ k.conversation \in Ids /\ deskTicket'[k.conversation] = k.status
             /\ \A i \in Ids \ {k.conversation} :
                  \A l \in w.tickets : l.conversation # i
  <2>1. k \in tickets'
    BY <1>2 DEF Upsert
  <2>2. \A l \in w.tickets : l = k
    BY <1>2 DEF Fits
  <2>3. QED
    BY <1>1, <2>1, <2>2 DEF DeskShows
<1>5. ASSUME w.tickets = {} PROVE UNCHANGED deskTicket
  BY <1>1, <1>3, <1>5 DEF DeskShows
<1>6. ASSUME NEW k \in w.tickets
      PROVE  deskTicket' = [deskTicket EXCEPT ![k.conversation] = k.status]
  BY <1>1, <1>3, <1>4 DEF DeskShows
<1>7. QED
  BY <1>4, <1>5, <1>6 DEF w

\* What the desk shows of the conversation of a given row.
LEMMA RowShown ==
  ASSUME DInv, NEW c \in conversations
  PROVE  /\ c.id \in Ids /\ deskStatus[c.id] = c.status
         /\ deskThread[c.id] = <<c.customer, c.channel>>
         /\ deskHolder[c.id] = c.assigned_agent_id
         /\ deskStatus \in [Ids -> {deskStatus[i] : i \in Ids}]
         /\ deskThread \in [Ids -> {deskThread[i] : i \in Ids}]
         /\ deskHolder \in [Ids -> {deskHolder[i] : i \in Ids}]
         /\ c.status # "closed" => c.id \in Desk!Active
<1>1. DeskShows /\ TypeOK
  BY TablesShown DEF DInv, IInv
<1>2. c.status # "closed" => deskStatus[c.id] \in {"open", "assigned"}
  BY <1>1 DEF DeskShows, TypeOK, Conversation, ConversationStatus
<1>3. QED
  BY <1>1, <1>2 DEF DeskShows, Desk!Active

\* The desk shows of a conversation what a commit makes of it, and nothing else
\* moves.
LEMMA RewritesShown ==
  ASSUME DInv, DInv', NEW r \in Requests, Commit(r), NEW b \in conversations,
         NEW s, NEW a, Rewrites(tx[r], b, s, a)
  PROVE  /\ deskStatus' = [deskStatus EXCEPT ![b.id] = s]
         /\ deskHolder' = [deskHolder EXCEPT ![b.id] = a]
         /\ deskThread' = deskThread
<1>1. CASE tx[r].conversations = {}
  BY <1>1, CommitShows, RowShown DEF Rewrites
<1>2. ASSUME NEW d \in tx[r].conversations
      PROVE  /\ deskStatus' = [deskStatus EXCEPT ![b.id] = s]
             /\ deskHolder' = [deskHolder EXCEPT ![b.id] = a]
             /\ deskThread' = deskThread
  <2>1. /\ d.id = b.id /\ d.customer = b.customer /\ d.channel = b.channel
        /\ d.status = s /\ d.assigned_agent_id = a
    BY <1>2 DEF Rewrites
  <2>2. /\ deskStatus' = [deskStatus EXCEPT ![b.id] = s]
        /\ deskHolder' = [deskHolder EXCEPT ![b.id] = a]
        /\ deskThread' = [deskThread EXCEPT ![b.id] = <<b.customer, b.channel>>]
    BY <1>2, <2>1, CommitShows
  <2>3. QED
    BY <2>2, RowShown
<1>3. QED
  BY <1>1, <1>2

LEMMA WebhookOpens ==
  ASSUME DInv, DInv', NEW r \in Requests, Commit(r), call[r].op = "webhook",
         NEW d \in tx[r].conversations, Opens(r, d)
  PROVE  Performs(r)
<1> DEFINE th == <<d.customer, d.channel>>
<1>1. /\ d.id \in Ids /\ call[r].conversation = r /\ tx[r].tickets = {}
      /\ d \in Conversation /\ d.id = r /\ \A c \in conversations : c.id # r
  <2>1. /\ Shaped(r, call[r], tx[r]) /\ tx[r] \in Writes
        /\ \A c \in conversations : c.id # r
    BY CommitFinds DEF TypeOK
  <2>2. d.id = r /\ d.id = call[r].conversation
    BY <2>1 DEF Opens, Shaped
  <2>3. tx[r].tickets = {} /\ d \in Conversation
    BY <2>1 DEF Shaped, Writes
  <2>4. QED
    BY <2>1, <2>2, <2>3 DEF Ids
<1>2. /\ deskStatus' = [deskStatus EXCEPT ![r] = "open"]
      /\ deskThread' = [deskThread EXCEPT ![r] = th]
      /\ deskHolder' = [deskHolder EXCEPT ![r] = NoOne]
      /\ deskTicket' = deskTicket
  BY <1>1, CommitShows, CommitShowsTicket DEF Opens
<1>3. DeskShows
  BY TablesShown DEF DInv
<1>4. th \in Ids \X Channels
  BY <1>1 DEF Conversation
<1>5. deskStatus[r] = "none" /\ deskHolder[r] = NoOne
  BY <1>1, <1>3 DEF DeskShows
<1>6. deskHolder' = deskHolder
  BY <1>2, <1>3, <1>5 DEF DeskShows
<1>7. ASSUME NEW j \in Desk!Active PROVE deskThread[j] # th
  <2>1. PICK c \in conversations : c.id = j
    BY <1>3 DEF DeskShows, Desk!Active
  <2>2. c.status # "closed"
    BY <1>3, <2>1 DEF DeskShows, Desk!Active
  <2>3. ~(c.customer = d.customer /\ c.channel = d.channel)
    BY <2>2 DEF Opens
  <2>4. QED
    BY <1>3, <2>1, <2>3 DEF DeskShows
<1> HIDE DEF th
<1>8. Desk!Open(r, th)
  BY <1>2, <1>5, <1>6, <1>7 DEF Desk!Open
<1>9. QED
  BY <1>1, <1>4, <1>8 DEF Performs

LEMMA TicketPerforms ==
  ASSUME DInv, DInv', NEW r \in Requests, Commit(r), call[r].op = "status",
         tx[r].conversations = {}
  PROVE  Performs(r)
<1> DEFINE i == call[r].conversation
<1>1. /\ TypeOK /\ DeskShows /\ Fits(r, tx[r]) /\ Shaped(r, call[r], tx[r])
      /\ tx[r] \in Writes
  BY TablesShown, CommitFinds DEF TypeOK, DInv
<1>2. PICK k \in tx[r].tickets : k.id # r /\ k.conversation = i
  BY <1>1 DEF Shaped
<1>3. PICK l \in tickets : l.conversation = i
  BY <1>1, <1>2 DEF Fits, TicketIs
<1>4. k.status \in TicketStatus /\ l.status \in TicketStatus
  BY <1>1, <1>2, <1>3 DEF TypeOK, Writes, Ticket
<1>5. deskTicket[i] # "none"
  BY <1>1, <1>3, <1>4 DEF DeskShows, TicketStatus
<1>6. /\ deskTicket' = [deskTicket EXCEPT ![i] = k.status]
      /\ UNCHANGED <<deskStatus, deskThread, deskHolder>>
  BY <1>2, CommitShowsTicket, CommitShows
<1>7. Desk!Triage(i, k.status)
  BY <1>5, <1>6 DEF Desk!Triage
<1>8. QED
  BY <1>4, <1>7 DEF Performs

LEMMA RewritePerforms ==
  ASSUME DInv, DInv', NEW r \in Requests, Commit(r), NEW b \in conversations,
         b.id = call[r].conversation, NEW s, NEW a, Asked(call[r], b, s, a),
         Rewrites(tx[r], b, s, a)
  PROVE  Performs(r)
<1> DEFINE agent == call[r].agent
           op == call[r].op
           i == call[r].conversation
<1>1. /\ TypeOK /\ TablesSound /\ Fits(r, tx[r]) /\ UniqueKeysAllow(tx[r])
      /\ Shaped(r, call[r], tx[r]) /\ DeskShows
      /\ \A l \in tickets : l.id # r
  BY TablesShown, CommitFinds DEF DInv
<1>2. /\ deskStatus' = [deskStatus EXCEPT ![i] = s]
      /\ deskHolder' = [deskHolder EXCEPT ![i] = a]
      /\ deskThread' = deskThread
  <2>1. /\ deskStatus' = [deskStatus EXCEPT ![b.id] = s]
        /\ deskHolder' = [deskHolder EXCEPT ![b.id] = a]
        /\ deskThread' = deskThread
    BY RewritesShown
  <2>2. QED
    BY <2>1
<1>3. /\ i \in Ids /\ deskStatus[i] = b.status /\ deskHolder[i] = b.assigned_agent_id
      /\ deskStatus \in [Ids -> {deskStatus[j] : j \in Ids}]
      /\ deskHolder \in [Ids -> {deskHolder[j] : j \in Ids}]
      /\ b.status # "closed" => i \in Desk!Active
      /\ b.status # "none"
  BY <1>1, RowShown DEF TypeOK, Conversation, ConversationStatus
<1>4. tx[r].tickets = {} => deskTicket' = deskTicket
  BY CommitShowsTicket
<1>5. CASE op = "webhook"
  <2>1. b.status # "closed" /\ s = b.status /\ a = b.assigned_agent_id
    BY <1>5 DEF Asked
  <2>2. UNCHANGED Desk!vars
    BY <1>1, <1>2, <1>3, <1>4, <1>5, <2>1 DEF Desk!vars, Shaped
  <2>3. QED
    BY <1>3, <1>5, <2>1, <2>2 DEF Performs, Desk!Receive
<1>6. CASE op = "assign"
  <2>1. /\ b.status # "closed" /\ s = "assigned"
        /\ a = IF b.assigned_agent_id = NoOne THEN agent ELSE b.assigned_agent_id
        /\ deskTicket' = deskTicket
    BY <1>1, <1>4, <1>6 DEF Asked, Shaped
  <2>2. CASE a = agent
    <3>1. Desk!Assign(i, agent)
      BY <1>2, <1>3, <2>1, <2>2 DEF Desk!Assign
    <3>2. QED
      BY <1>6, <3>1 DEF Performs
  <2>3. CASE a # agent
    <3>1. a = b.assigned_agent_id /\ a \notin {NoOne, agent}
      BY <2>1, <2>3
    <3>2. b.status = "assigned"
      BY <1>1, <2>1, <3>1
      DEF TypeOK, Conversation, ConversationStatus, TablesSound,
          StatusAgreesWithAgent
    <3>3. UNCHANGED Desk!vars
      BY <1>2, <1>3, <2>1, <3>1, <3>2 DEF Desk!vars
    <3>4. QED
      BY <1>3, <1>6, <2>1, <3>1, <3>3 DEF Performs
  <2>4. QED
    BY <2>2, <2>3
<1>7. CASE op = "reply"
  <2>1. /\ b.status # "closed" /\ b.assigned_agent_id \in {NoOne, agent}
        /\ s = "assigned" /\ a = agent /\ deskTicket' = deskTicket
    BY <1>1, <1>4, <1>7 DEF Asked, Shaped
  <2>2. Desk!Reply(i, agent)
    BY <1>2, <1>3, <2>1 DEF Desk!Reply, Desk!Assign
  <2>3. QED
    BY <1>7, <2>2 DEF Performs
<1>8. CASE op = "close"
  <2>1. /\ agent \in Agents => b.assigned_agent_id = agent
        /\ s = "closed" /\ a = b.assigned_agent_id /\ deskTicket' = deskTicket
        /\ agent \in Users
    BY <1>1, <1>4, <1>8 DEF Asked, Shaped
  <2>2. deskHolder' = deskHolder
    BY <1>2, <1>3, <2>1
  <2>3. Desk!Close(i, agent)
    BY <1>2, <1>3, <2>1, <2>2 DEF Desk!Close
  <2>4. QED
    BY <1>8, <2>3 DEF Performs
<1>9. CASE op = "escalate"
  <2>1. /\ b.status # "closed" /\ b.assigned_agent_id \in {NoOne, agent}
        /\ s = "assigned" /\ a = agent
    BY <1>9 DEF Asked
  <2>2. PICK k \in tx[r].tickets : k.id = r /\ k.conversation = i /\ k.status = "open"
    BY <1>1, <1>9 DEF Shaped
  <2>3. deskTicket' = [deskTicket EXCEPT ![i] = "open"]
    BY <2>2, CommitShowsTicket
  <2>4. \A l \in tickets : l.conversation # i
    BY <1>1, <2>2 DEF UniqueKeysAllow
  <2>5. deskTicket[i] = "none"
    BY <1>1, <1>3, <2>4 DEF DeskShows
  <2>6. Desk!Escalate(i, agent)
    BY <1>2, <1>3, <2>1, <2>3, <2>5 DEF Desk!Escalate
  <2>7. QED
    BY <1>9, <2>6 DEF Performs
<1>10. QED
  BY <1>5, <1>6, <1>7, <1>8, <1>9 DEF Asked

LEMMA CommitPerforms ==
  ASSUME DInv, DInv', NEW r \in Requests, Commit(r), r \notin overtaken
  PROVE  Performs(r)
<1>1. PICK c, w : c = call[r] /\ w = tx[r]
  OBVIOUS
<1>2. Current(r, c, w)
  BY <1>1, CommitFinds
<1>3. CASE c.op = "status" /\ w.conversations = {}
  BY <1>1, <1>3, TicketPerforms
<1>4. CASE /\ c.op = "webhook" /\ w.conversations # {}
           /\ \A d \in w.conversations : Opens(r, d)
  BY <1>1, <1>4, WebhookOpens
<1>5. ASSUME NEW b \in conversations, b.id = c.conversation, NEW s, NEW a,
             Asked(c, b, s, a), Rewrites(w, b, s, a)
      PROVE  Performs(r)
  BY <1>1, <1>5, RewritePerforms
<1>6. QED
  BY <1>2, <1>3, <1>4, <1>5 DEF Current

\* Doing what was asked is a step of the desk, or leaves it as it is.
LEMMA PerformsDesk ==
  ASSUME DInv, NEW r \in Requests, Commit(r), Performs(r)
  PROVE  Desk!Next \/ UNCHANGED Desk!vars
<1> DEFINE agent == call[r].agent
           op == call[r].op
           i == call[r].conversation
<1>1. /\ i \in Ids
      /\ op \in {"assign", "reply", "escalate"} => agent \in Agents
      /\ op = "close" => agent \in Agents \cup (Users \ Agents)
  <2>1. call[r] \in Call /\ Shaped(r, call[r], tx[r])
    BY CommitFinds DEF DInv, IInv, CallsKnown, Commit
  <2>2. QED
    BY <2>1 DEF Call, Shaped
<1> HIDE DEF agent, op, i
<1>2. \/ op = "webhook" /\ (Desk!Receive(i) \/ \E th \in Ids \X Channels : Desk!Open(i, th))
      \/ op = "assign" /\ (Desk!Assign(i, agent) \/ UNCHANGED Desk!vars)
      \/ op = "reply" /\ Desk!Reply(i, agent)
      \/ op = "close" /\ Desk!Close(i, agent)
      \/ op = "escalate" /\ Desk!Escalate(i, agent)
      \/ op = "status" /\ \E s \in TicketStatus : Desk!Triage(i, s)
  BY DEF Performs, agent, op, i
<1>3. QED
  BY <1>1, <1>2 DEF Desk!Next

\* No other request moves a row that the desk shows.
LEMMA OtherStepsQuiet ==
  ASSUME IInv, Next, pc' # pc, \A r \in Requests : ~Commit(r)
  PROVE  UNCHANGED <<conversations, tickets>>
<1>1. TypeOK /\ TablesSound
  BY DEF IInv
<1>2. ASSUME NEW r \in Requests, Operation(r)
      PROVE  UNCHANGED <<conversations, tickets>>
  <2>1. PICK c, w : Begin(r, c, w)
    BY <1>1, <1>2, OperationPrepares
  <2>2. QED
    BY <2>1 DEF Begin, tables
<1>3. ASSUME NEW who, Fail(who) PROVE UNCHANGED <<conversations, tickets>>
  BY <1>3 DEF Fail, tables
<1>4. ASSUME NEW r \in Requests, Bump(r) PROVE UNCHANGED <<conversations, tickets>>
  BY <1>4 DEF Bump, tables
<1>5. ~UNCHANGED vars /\ ~ReseedConversations /\ ~ReseedTickets
  BY DEF vars, ReseedConversations, ReseedTickets
<1>6. QED
  BY <1>2, <1>3, <1>4, <1>5 DEF Next, Reject, Abort, Crash, AllAnswered

LEMMA StepDesk ==
  ASSUME DInv, DInv', [DeskNext]_deskVars
  PROVE  [pc' # pc /\ (\A r \in overtaken : ~Commits(r)) => Desk!Next]_(Desk!vars)
<1>1. CASE UNCHANGED deskVars
  <2>1. pc' = pc
    BY <1>1 DEF deskVars, vars
  <2>2. QED
    BY <2>1
<1>2. ASSUME DeskNext, pc' # pc, \A r \in overtaken : ~Commits(r)
      PROVE  Desk!Next \/ UNCHANGED Desk!vars
  <2>1. Next /\ IInv
    BY <1>2 DEF DeskNext, DInv
  <2>2. ASSUME NEW r \in Requests, Commit(r)
        PROVE  Desk!Next \/ UNCHANGED Desk!vars
    <3>1. r \notin overtaken
      BY <1>2, <2>2, CommitFinds
    <3>2. QED
      BY <2>2, <3>1, CommitPerforms, PerformsDesk
  <2>3. CASE \A r \in Requests : ~Commit(r)
    BY <1>2, <2>1, <2>3, OtherStepsQuiet, QuietDesk
  <2>4. QED
    BY <2>2, <2>3
<1>3. QED
  BY <1>1, <1>2

LEMMA StepPerforms ==
  ASSUME DInv, DInv', [DeskNext]_deskVars
  PROVE  [\A r \in Requests \ overtaken : Commits(r) => Performs(r)]_deskVars
<1> SUFFICES ASSUME NEW r \in Requests \ overtaken, Commits(r) PROVE Performs(r)
  OBVIOUS
<1>1. IInv /\ [Next]_vars
  BY DEF DInv, DeskNext, deskVars
<1>2. QED
  BY <1>1, OnlyCommitCommits, CommitPerforms

LEMMA InitDesk == DeskInit => Desk!Init
<1> SUFFICES ASSUME DeskInit PROVE Desk!Init
  OBVIOUS
<1>1. Init /\ DInv /\ DeskShows
  BY InitDInv, TablesShown DEF DeskInit, DInv
<1>2. TypeOK /\ TablesSound
  BY <1>1 DEF DInv, IInv
<1>3. \A c \in conversations : c.status \in {"open", "assigned"}
  BY <1>1 DEF Init, DemoConversations
<1>4. ASSUME NEW c \in conversations
      PROVE  /\ deskThread[c.id] \in Ids \X Channels
             /\ deskStatus[c.id] \in {"open", "assigned"}
             /\ deskHolder[c.id] \in Agents \cup {NoOne}
             /\ deskStatus[c.id] = "assigned" <=> deskHolder[c.id] # NoOne
  <2>1. c.customer \in Ids /\ c.channel \in Channels
    BY <1>2 DEF TypeOK, Conversation
  <2>2. c.assigned_agent_id \in Agents \cup {NoOne}
    BY <1>2 DEF TablesSound, TenantIsolation, ServesTenant
  <2>3. c.status = "assigned" <=> c.assigned_agent_id # NoOne
    BY <1>2, <1>3 DEF TablesSound, StatusAgreesWithAgent
  <2>4. /\ deskStatus[c.id] = c.status /\ deskThread[c.id] = <<c.customer, c.channel>>
        /\ deskHolder[c.id] = c.assigned_agent_id
    BY <1>1 DEF DeskShows
  <2>5. QED
    BY <1>3, <2>1, <2>2, <2>3, <2>4
<1>5. ASSUME NEW i \in Ids
      PROVE  /\ deskStatus[i] \in {"none", "open", "assigned"}
             /\ deskThread[i] \in (Ids \X Channels) \cup {NoOne}
             /\ deskHolder[i] \in Agents \cup {NoOne}
             /\ deskStatus[i] = "assigned" <=> deskHolder[i] # NoOne
             /\ deskStatus[i] = "none" <=> deskThread[i] = NoOne
  <2>1. CASE \E c \in conversations : c.id = i
    BY <1>4, <2>1, ThreadAssumption
  <2>2. CASE \A c \in conversations : c.id # i
    BY <1>1, <2>2 DEF DeskShows
  <2>3. QED
    BY <2>1, <2>2
<1>6. ASSUME NEW i \in Ids
      PROVE  /\ deskTicket[i] \in TicketStatus \cup {"none"}
             /\ deskHolder[i] = NoOne => deskTicket[i] = "none"
  <2>1. CASE \A k \in tickets : k.conversation # i
    BY <1>1, <2>1 DEF DeskShows
  <2>2. CASE \E k \in tickets : k.conversation = i
    <3>1. PICK k \in tickets : k.conversation = i
      BY <2>2
    <3>2. PICK d \in Demo : d.id = i /\ d.agent # NoOne
      BY <1>1, <3>1 DEF Init, DemoTickets
    <3>3. PICK c \in conversations : c.id = i /\ c.assigned_agent_id # NoOne
      <4> DEFINE c == [id |-> d.id, tenant |-> TenantOf[d.channel],
                       customer |-> d.id, channel |-> d.channel,
                       assigned_agent_id |-> d.agent,
                       status |-> IF d.agent = NoOne THEN "open" ELSE "assigned",
                       updated_at |-> now]
      <4>1. c \in conversations
        BY <1>1 DEF Init, DemoConversations
      <4>2. c.id = i /\ c.assigned_agent_id # NoOne
        BY <3>2
      <4>3. QED
        BY <4>1, <4>2
    <3>4. deskHolder[i] # NoOne /\ deskTicket[i] \in TicketStatus
      BY <1>1, <1>2, <3>1, <3>3 DEF DeskShows, TypeOK, Ticket
    <3>5. QED
      BY <3>4
  <2>3. QED
    BY <2>1, <2>2
<1>7. ASSUME NEW i \in Desk!Active, NEW j \in Desk!Active,
             deskThread[i] = deskThread[j]
      PROVE  i = j
  <2>1. PICK c \in conversations, d \in conversations : c.id = i /\ d.id = j
    BY <1>1 DEF DeskShows, Desk!Active
  <2>2. c.customer = d.customer /\ c.channel = d.channel
    BY <1>1, <1>7, <2>1 DEF DeskShows
  <2>3. QED
    BY <1>1, <1>3, <2>1, <2>2
    DEF DeskInit, DInv, OneActiveUnlessRaced, OpenOrAssigned
<1>8. QED
  BY <1>1, <1>5, <1>6, <1>7 DEF DeskShows, Desk!Init

-----------------------------------------------------------------------------
(* Results *)

\* The invariant: what an open transaction found is still so, or it is
\* overtaken.
THEOREM DeskInvariance == DeskSpec => []DInv
<1>1. DeskInit => DInv
  BY InitDInv
<1>2. DInv /\ [DeskNext]_deskVars => DInv'
  BY NextDInv
<1>3. QED
  BY <1>1, <1>2, PTL DEF DeskSpec

\* With any number of connections, a customer gets a second active conversation
\* on a channel only if an overtaken commit or a reload changed that thread: a
\* webhook reuses the active one however it is assigned, closed and opened.
THEOREM OneActive == DeskSpec => []OneActiveUnlessRaced
<1>1. DInv => OneActiveUnlessRaced
  BY DEF DInv
<1>2. QED
  BY <1>1, DeskInvariance, PTL

\* With any number of connections, a closed conversation is woken only by an
\* overtaken commit or a reload.
THEOREM ClosedForGood == DeskSpec => []ClosedUnlessRaced
<1>1. DInv => ClosedUnlessRaced
  BY DEF DInv
<1>2. QED
  BY <1>1, DeskInvariance, PTL

\* Whatever is served, overtaken, reloaded or dies with the process, a commit
\* that was not overtaken does what its request asked for.
THEOREM InTimePerforms == DeskSpec => CommitsPerform
<1>1. DInv /\ DInv' /\ [DeskNext]_deskVars
        => [\A r \in Requests \ overtaken : Commits(r) => Performs(r)]_deskVars
  BY StepPerforms
<1>2. QED
  BY <1>1, DeskInvariance, PTL DEF DeskSpec, CommitsPerform

\* The tables start as a state of SupportDesk, and every step of a request but
\* the commit of an overtaken one is a step of SupportDesk or none.
THEOREM Refinement == DeskSpec => ImplementsDesk
<1>1. DeskInit => Desk!Init
  BY InitDesk
<1>2. DInv /\ DInv' /\ [DeskNext]_deskVars
        => [pc' # pc /\ (\A r \in overtaken : ~Commits(r)) => Desk!Next]_(Desk!vars)
  BY StepDesk
<1>3. QED
  BY <1>1, <1>2, DeskInvariance, PTL DEF DeskSpec, ImplementsDesk

=============================================================================
