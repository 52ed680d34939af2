------------------------ MODULE ConversationsProofs ------------------------
(***************************************************************************)
(* Theorems about Conversations, for any requests, tenants, staff and      *)
(* demo data, and any size of the connection pool.                         *)
(***************************************************************************)
EXTENDS Conversations, TLAPS

-----------------------------------------------------------------------------
(* Requests *)

\* What the types leave open about a request between its Begin and its answer.
CallsKnown ==
  \A r \in Requests :
    /\ pc[r] \in {"tx", "committed"} => call[r] \in Call /\ bumps[r] # <<>>
    /\ pc[r] # "tx" => tx[r] = NoWrites

-----------------------------------------------------------------------------
(* The inductive invariant *)

OfTenant(table, i, t) == \E row \in table : row.id = i /\ row.tenant = t
TicketIs(table, i, c) == \E k \in table : k.id = i /\ k.conversation = c

\* A conversation row that needs no other row to be judged.
SoundRow(c) ==
  /\ c.status = "open" => c.assigned_agent_id = NoOne
  /\ c.status = "assigned" => c.assigned_agent_id # NoOne
  /\ TenantOf[c.channel] = c.tenant
  /\ c.assigned_agent_id = NoOne \/ ServesTenant(c.assigned_agent_id, c.tenant)

\* The write set w of request r, still uncommitted, fits the tables as they
\* are now: it inserts rows named r or replaces rows by rows of their tenant.
Fits(r, w) ==
  /\ \A x, y \in w.customers : x = y
  /\ \A x, y \in w.conversations : x = y
  /\ \A x, y \in w.tickets : x = y
  /\ \A x \in w.customers : x.id = r \/ x \in customers
  /\ \A c \in w.conversations :
       /\ SoundRow(c)
       /\ c.id = r \/ OfTenant(conversations, c.id, c.tenant)
       /\ OfTenant(customers \cup w.customers, c.customer, c.tenant)
  /\ \A k \in w.tickets :
       /\ OfTenant(conversations, k.conversation, k.tenant)
       /\ ServesTenant(k.assigned_agent_id, k.tenant)
       /\ k.id = r \/ TicketIs(tickets, k.id, k.conversation)
  /\ \A m \in w.messages : \E c \in w.conversations :
       /\ c.id = m.conversation
       /\ m.sender = NoOne \/ ServesTenant(m.sender, c.tenant)

\* Ids are primary keys, and a row named by a request is not there before
\* the request commits.
KeysSound ==
  /\ \A x, y \in customers : x.id = y.id => x = y
  /\ \A c, d \in conversations : c.id = d.id => c = d
  /\ \A x \in customers : x.id \in Requests => pc[x.id] \notin {"idle", "tx"}
  /\ \A c \in conversations :
       c.id \in Requests => pc[c.id] \notin {"idle", "tx"}
  /\ \A k, l \in tickets : k.id = l.id => k.conversation = l.conversation
  /\ \A k \in tickets : k.id \in Requests => pc[k.id] \notin {"idle", "tx"}

\* What loading the demo data again finds: the demo rows, whatever became of
\* their other columns.
SeedsKept ==
  \A d \in Demo :
    /\ OfTenant(customers, d.id, TenantOf[d.channel])
    /\ OfTenant(conversations, d.id, TenantOf[d.channel])
    /\ d.agent # NoOne => TicketIs(tickets, d.id, d.id)

TablesSound ==
  KeysSound /\ SeedsKept /\ StatusAgreesWithAgent /\ TenantIsolation
    /\ OneCustomerPerExternalID /\ OneTicketPerConversation

IInv ==
  TypeOK /\ CallsKnown /\ TablesSound /\ \A r \in Requests : Fits(r, tx[r])

-----------------------------------------------------------------------------
(* Types of the parts *)

LEMMA NoWritesType == NoWrites \in Writes
BY DEF NoWrites, Writes

LEMMA BumpsType == ASSUME NEW op PROVE BumpsOf(op) \in Seq(Lists)
<1>1. CASE op = "escalate"
  BY <1>1 DEF BumpsOf, Lists
<1>2. CASE op = "status"
  BY <1>2 DEF BumpsOf, Lists
<1>3. CASE op # "escalate" /\ op # "status"
  BY <1>3 DEF BumpsOf, Lists
<1>4. QED
  BY <1>1, <1>2, <1>3

LEMMA RowOfDemo ==
  ASSUME NEW d \in Demo
  PROVE  /\ d.id \in Ids /\ TenantOf[d.channel] \in Tenants
         /\ d.channel \in Channels /\ d.external \in Externals
         /\ d.agent \in Users \cup {NoOne}
BY ConstantsAssumption, DemoAssumption DEF DemoIds, Ids, Agents

LEMMA InitType == Init => TypeOK
<1> SUFFICES ASSUME Init PROVE TypeOK
  OBVIOUS
<1> USE DEF Init, DemoConversations, DemoTickets
<1>1. customers \subseteq Customer
  BY RowOfDemo DEF Customer
<1>2. conversations \subseteq Conversation
  BY RowOfDemo DEF Conversation, ConversationStatus
<1>3. tickets \subseteq Ticket
  BY RowOfDemo DEF Ticket, TicketStatus
<1>4. version \in [Tenants -> [Lists -> Nat]]
  OBVIOUS
<1>5. tx \in [Requests -> Writes]
  BY NoWritesType
<1>6. bumps \in [Requests -> Seq(Lists)]
  OBVIOUS
<1>7. QED
  BY <1>1, <1>2, <1>3, <1>4, <1>5, <1>6 DEF TypeOK

LEMMA BeginType ==
  ASSUME TypeOK, NEW r \in Requests, NEW c \in Call, NEW w \in Writes,
         Begin(r, c, w)
  PROVE  TypeOK'
BY BumpsType, ConstantsAssumption DEF TypeOK, Begin, tables

LEMMA SaveType ==
  ASSUME TypeOK, NEW loaded \in Conversation, NEW row \in Conversation
  PROVE  SaveConversation(loaded, row) \subseteq Conversation
<1>1. now \in Nat /\ loaded.assigned_agent_id \in Users \cup {NoOne}
  BY DEF TypeOK, Conversation
<1>2. [row EXCEPT !.updated_at = now,
                  !.assigned_agent_id = IF loaded.assigned_agent_id = NoOne
                                        THEN @ ELSE loaded.assigned_agent_id]
        \in Conversation
  BY <1>1 DEF Conversation
<1>3. QED
  BY <1>2 DEF SaveConversation

LEMMA TakenType ==
  ASSUME NEW c \in Conversation, NEW agent \in Users
  PROVE  TakenBy(c, agent) \in Conversation
BY DEF TakenBy, Conversation, ConversationStatus

LEMMA EventsType ==
  ASSUME NEW r \in Requests, NEW t \in Tenants, NEW i \in Ids,
         NEW types \in SUBSET EventType
  PROVE  DomainEvents(r, t, i, types) \subseteq Event
BY DEF DomainEvents, Event

\* The types every write set is built from.
LEMMA TenantOfType ==
  ASSUME NEW u \in Users \cup Channels PROVE TenantOf[u] \in Tenants
BY ConstantsAssumption

-----------------------------------------------------------------------------
(* What an operation's write set is made of *)

\* A conversation found in the table is sound, and so is what it refers to.
LEMMA FoundSound ==
  ASSUME TablesSound, NEW c \in conversations
  PROVE  /\ SoundRow(c)
         /\ OfTenant(conversations, c.id, c.tenant)
         /\ OfTenant(customers, c.customer, c.tenant)
BY DEF TablesSound, StatusAgreesWithAgent, TenantIsolation, SoundRow, OfTenant

\* Saving a sound row over the sound row it was loaded as writes one sound row,
\* even though the loaded agent wins over the new one.
LEMMA SavedSound ==
  ASSUME NEW loaded \in Conversation, NEW row \in Conversation,
         SoundRow(loaded), SoundRow(row), row.tenant = loaded.tenant,
         row.status = "open" => loaded.assigned_agent_id = NoOne
  PROVE  /\ \A x, y \in SaveConversation(loaded, row) : x = y
         /\ \A c \in SaveConversation(loaded, row) :
              /\ SoundRow(c) /\ c.id = row.id /\ c.tenant = row.tenant
              /\ c.customer = row.customer
<1>1. CASE loaded.assigned_agent_id = NoOne
  BY <1>1 DEF SaveConversation, SoundRow, Conversation
<1>2. CASE loaded.assigned_agent_id # NoOne
  BY <1>2 DEF SaveConversation, SoundRow, Conversation
<1>3. QED
  BY <1>1, <1>2

LEMMA TakenSound ==
  ASSUME NEW c \in Conversation, SoundRow(c), NEW agent \in Users,
         ServesTenant(agent, c.tenant)
  PROVE  /\ SoundRow(TakenBy(c, agent))
         /\ TakenBy(c, agent).id = c.id /\ TakenBy(c, agent).tenant = c.tenant
         /\ TakenBy(c, agent).customer = c.customer
         /\ TakenBy(c, agent).status = "open" => c.assigned_agent_id = NoOne
BY ConstantsAssumption DEF TakenBy, SoundRow, Conversation, ServesTenant

LEMMA WebhookBegins ==
  ASSUME TypeOK, TablesSound, NEW r \in Requests, NEW channel \in Channels,
         NEW external \in Externals, HandleWebhook(r, channel, external)
  PROVE  \E call0 \in Call, w0 \in Writes : Begin(r, call0, w0) /\ Fits(r, w0)
<1> DEFINE t == TenantOf[channel]
<1>1. PICK customer \in GetOrCreateCustomer(r, t, external) :
        LET active == FindActiveConversation(t, customer.id, channel)
            new == [id |-> r, tenant |-> t, customer |-> customer.id,
                    channel |-> channel, status |-> "open",
                    assigned_agent_id |-> NoOne, updated_at |-> now]
            created == IF active = {} THEN {"conversation.created"} ELSE {}
        IN  \E c \in IF active = {} THEN {new} ELSE active :
              Begin(r, [op |-> "webhook", tenant |-> t,
                        conversation |-> c.id, agent |-> NoOne],
                    [NoWrites EXCEPT
                       !.customers = {customer},
                       !.conversations = SaveConversation(c, c),
                       !.messages = {[id |-> r, conversation |-> c.id,
                                      sender |-> NoOne]},
                       !.outbox = DomainEvents(r, t, c.id,
                         {"channel.message.received"} \cup created)])
  BY DEF HandleWebhook
<1> DEFINE active == FindActiveConversation(t, customer.id, channel)
           new == [id |-> r, tenant |-> t, customer |-> customer.id,
                   channel |-> channel, status |-> "open",
                   assigned_agent_id |-> NoOne, updated_at |-> now]
           created == IF active = {} THEN {"conversation.created"} ELSE {}
           types == {"channel.message.received"} \cup created
<1>2. PICK c \in IF active = {} THEN {new} ELSE active :
              Begin(r, [op |-> "webhook", tenant |-> t,
                        conversation |-> c.id, agent |-> NoOne],
                    [NoWrites EXCEPT
                       !.customers = {customer},
                       !.conversations = SaveConversation(c, c),
                       !.messages = {[id |-> r, conversation |-> c.id,
                                      sender |-> NoOne]},
                       !.outbox = DomainEvents(r, t, c.id, types)])
  BY <1>1
<1>3. t \in Tenants
  BY TenantOfType
<1>4. customer \in Customer
  BY <1>3 DEF TypeOK, GetOrCreateCustomer, Customer, Ids
<1>5. c \in Conversation
  <2>1. new \in Conversation
    BY <1>3, <1>4 DEF TypeOK, Conversation, Customer, Ids, ConversationStatus
  <2>2. active \subseteq Conversation
    BY DEF TypeOK, FindActiveConversation
  <2>3. QED
    BY <2>1, <2>2
<1>6. SaveConversation(c, c) \subseteq Conversation
  BY <1>5, SaveType
<1>7. c.id \in Ids
  BY <1>5 DEF Conversation
<1>8. DomainEvents(r, t, c.id, types) \subseteq Event
  <2>1. types \in SUBSET EventType
    BY DEF EventType
  <2>2. QED
    BY <2>1, <1>3, <1>7, EventsType
<1> HIDE DEF t, new, active, created, types
<1>9. [op |-> "webhook", tenant |-> t, conversation |-> c.id,
       agent |-> NoOne] \in Call
  BY <1>3, <1>7 DEF Call
<1>10. [NoWrites EXCEPT
          !.customers = {customer},
          !.conversations = SaveConversation(c, c),
          !.messages = {[id |-> r, conversation |-> c.id, sender |-> NoOne]},
          !.outbox = DomainEvents(r, t, c.id, types)] \in Writes
  <2>1. [id |-> r, conversation |-> c.id, sender |-> NoOne] \in Message
    BY <1>7 DEF Message
  <2>2. QED
    BY <1>4, <1>6, <1>8, <2>1, NoWritesType DEF Writes
<1>11. Fits(r, [NoWrites EXCEPT
                  !.customers = {customer},
                  !.conversations = SaveConversation(c, c),
                  !.messages = {[id |-> r, conversation |-> c.id,
                                 sender |-> NoOne]},
                  !.outbox = DomainEvents(r, t, c.id, types)])
  <2>1. customer.tenant = t /\ (customer.id = r \/ customer \in customers)
    BY DEF GetOrCreateCustomer
  <2>2. /\ SoundRow(c)
        /\ c.id = r \/ OfTenant(conversations, c.id, c.tenant)
        /\ OfTenant(customers \cup {customer}, c.customer, c.tenant)
    <3>1. CASE c \in active
      BY <3>1, FoundSound DEF active, FindActiveConversation, OfTenant
    <3>2. CASE c = new
      BY <3>2, <2>1 DEF new, t, SoundRow, OfTenant
    <3>3. QED
      BY <3>1, <3>2
  <2>3. c.status = "open" => c.assigned_agent_id = NoOne
    BY <2>2 DEF SoundRow
  <2>4. /\ \A x, y \in SaveConversation(c, c) : x = y
        /\ \A d \in SaveConversation(c, c) :
             /\ SoundRow(d) /\ d.id = c.id /\ d.tenant = c.tenant
             /\ d.customer = c.customer
    BY <1>5, <2>2, <2>3, SavedSound
  <2>5. \E d \in SaveConversation(c, c) : d.id = c.id
    BY <2>4 DEF SaveConversation
  <2>6. QED
    BY <2>1, <2>2, <2>4, <2>5 DEF Fits, NoWrites
<1>12. QED
  BY <1>2, <1>9, <1>10, <1>11

LEMMA AssignBegins ==
  ASSUME TypeOK, TablesSound, NEW r \in Requests, NEW actor \in Users, NEW i \in Ids,
         NEW agent \in Users, AssignConversation(r, actor, i, agent)
  PROVE  \E call0 \in Call, w0 \in Writes : Begin(r, call0, w0) /\ Fits(r, w0)
<1> DEFINE t == TenantOf[actor]
<1>1. PICK c \in GetConversationByID(t, i) :
        Begin(r, [op |-> "assign", tenant |-> t, conversation |-> i,
                  agent |-> agent],
              [NoWrites EXCEPT
                 !.conversations = SaveConversation(c,
                   [c EXCEPT !.assigned_agent_id = agent,
                             !.status = "assigned"]),
                 !.outbox = DomainEvents(r, t, i, {"conversation.assigned"})])
  BY DEF AssignConversation
<1>2. t \in Tenants /\ c \in Conversation
  BY TenantOfType DEF TypeOK, GetConversationByID
<1> HIDE DEF t
<1>3. SaveConversation(c, [c EXCEPT !.assigned_agent_id = agent,
                                    !.status = "assigned"])
        \subseteq Conversation
  <2>1. [c EXCEPT !.assigned_agent_id = agent, !.status = "assigned"]
          \in Conversation
    BY <1>2 DEF Conversation, ConversationStatus
  <2>2. QED
    BY <1>2, <2>1, SaveType
<1>4. DomainEvents(r, t, i, {"conversation.assigned"}) \subseteq Event
  BY <1>2, EventsType DEF EventType
<1>5. [op |-> "assign", tenant |-> t, conversation |-> i, agent |-> agent]
        \in Call
  BY <1>2 DEF Call
<1>6. [NoWrites EXCEPT
         !.conversations = SaveConversation(c,
           [c EXCEPT !.assigned_agent_id = agent, !.status = "assigned"]),
         !.outbox = DomainEvents(r, t, i, {"conversation.assigned"})] \in Writes
  BY <1>3, <1>4, NoWritesType DEF Writes
<1>7. Fits(r, [NoWrites EXCEPT
         !.conversations = SaveConversation(c,
           [c EXCEPT !.assigned_agent_id = agent, !.status = "assigned"]),
         !.outbox = DomainEvents(r, t, i, {"conversation.assigned"})])
  <2>1. c \in conversations /\ c.tenant = t
    BY DEF GetConversationByID
  <2>2. ServesTenant(agent, c.tenant)
    BY <2>1 DEF AssignConversation, ServesTenant, Agents, t
  <2> DEFINE row == [c EXCEPT !.assigned_agent_id = agent,
                              !.status = "assigned"]
  <2>3. /\ SoundRow(row) /\ row \in Conversation /\ row.status = "assigned"
        /\ row.id = c.id /\ row.tenant = c.tenant /\ row.customer = c.customer
    BY <1>2, <2>1, <2>2, FoundSound, ConstantsAssumption
    DEF SoundRow, Conversation, ConversationStatus, ServesTenant
  <2> HIDE DEF row
  <2>4. /\ \A x, y \in SaveConversation(c, row) : x = y
        /\ \A d \in SaveConversation(c, row) :
             /\ SoundRow(d) /\ d.id = c.id /\ d.tenant = c.tenant
             /\ d.customer = c.customer
    BY <1>2, <2>1, <2>3, FoundSound, SavedSound
  <2>5. Fits(r, [NoWrites EXCEPT
                   !.conversations = SaveConversation(c, row),
                   !.outbox = DomainEvents(r, t, i, {"conversation.assigned"})])
    BY <2>1, <2>4, FoundSound DEF Fits, NoWrites, OfTenant
  <2>6. QED
    BY <2>5 DEF row
<1>8. QED
  BY <1>1, <1>5, <1>6, <1>7

LEMMA ReplyBegins ==
  ASSUME TypeOK, TablesSound, NEW r \in Requests, NEW agent \in Users, NEW i \in Ids,
         ReplyToConversation(r, agent, i)
  PROVE  \E call0 \in Call, w0 \in Writes : Begin(r, call0, w0) /\ Fits(r, w0)
<1> DEFINE t == TenantOf[agent]
<1>1. PICK c \in GetConversationByID(t, i) :
        Begin(r, [op |-> "reply", tenant |-> t, conversation |-> i,
                  agent |-> agent],
              [NoWrites EXCEPT
                 !.conversations = SaveConversation(c, TakenBy(c, agent)),
                 !.messages = {[id |-> r, conversation |-> i,
                                sender |-> agent]},
                 !.outbox = DomainEvents(r, t, i, {"conversation.replied"})])
  BY DEF ReplyToConversation
<1>2. t \in Tenants /\ c \in Conversation
  BY TenantOfType DEF TypeOK, GetConversationByID
<1> HIDE DEF t
<1>3. SaveConversation(c, TakenBy(c, agent)) \subseteq Conversation
  BY <1>2, SaveType, TakenType
<1>4. DomainEvents(r, t, i, {"conversation.replied"}) \subseteq Event
  BY <1>2, EventsType DEF EventType
<1>5. [op |-> "reply", tenant |-> t, conversation |-> i, agent |-> agent]
        \in Call
  BY <1>2 DEF Call
<1>6. [id |-> r, conversation |-> i, sender |-> agent] \in Message
  BY DEF Message
<1>7. [NoWrites EXCEPT
         !.conversations = SaveConversation(c, TakenBy(c, agent)),
         !.messages = {[id |-> r, conversation |-> i, sender |-> agent]},
         !.outbox = DomainEvents(r, t, i, {"conversation.replied"})] \in Writes
  BY <1>3, <1>4, <1>6, NoWritesType DEF Writes
<1>8. Fits(r, [NoWrites EXCEPT
         !.conversations = SaveConversation(c, TakenBy(c, agent)),
         !.messages = {[id |-> r, conversation |-> i, sender |-> agent]},
         !.outbox = DomainEvents(r, t, i, {"conversation.replied"})])
  <2>1. c \in conversations /\ c.tenant = t /\ c.id = i
    BY DEF GetConversationByID
  <2>2. ServesTenant(agent, c.tenant)
    BY <2>1 DEF ReplyToConversation, ServesTenant, Agents, t
  <2>3. /\ \A x, y \in SaveConversation(c, TakenBy(c, agent)) : x = y
        /\ \A d \in SaveConversation(c, TakenBy(c, agent)) :
             /\ SoundRow(d) /\ d.id = c.id /\ d.tenant = c.tenant
             /\ d.customer = c.customer
    BY <1>2, <2>1, <2>2, FoundSound, TakenSound, TakenType, SavedSound
  <2>4. \E d \in SaveConversation(c, TakenBy(c, agent)) :
          d.id = i /\ d.tenant = c.tenant
    BY <2>1, <2>3 DEF SaveConversation
  <2>5. QED
    BY <2>1, <2>2, <2>3, <2>4, FoundSound DEF Fits, NoWrites, OfTenant
<1>9. QED
  BY <1>1, <1>5, <1>7, <1>8

LEMMA CloseBegins ==
  ASSUME TypeOK, TablesSound, NEW r \in Requests, NEW actor \in Users, NEW i \in Ids,
         CloseConversation(r, actor, i)
  PROVE  \E call0 \in Call, w0 \in Writes : Begin(r, call0, w0) /\ Fits(r, w0)
<1> DEFINE t == TenantOf[actor]
           w(c) == IF c.status = "closed" THEN NoWrites
                   ELSE [NoWrites EXCEPT
                           !.conversations = SaveConversation(c,
                             [c EXCEPT !.status = "closed"]),
                           !.outbox = DomainEvents(r, t, i,
                             {"conversation.closed"})]
<1>1. PICK c \in GetConversationByID(t, i) :
        Begin(r, [op |-> "close", tenant |-> t, conversation |-> i,
                  agent |-> actor], w(c))
  BY DEF CloseConversation
<1>2. t \in Tenants /\ c \in Conversation
  BY TenantOfType DEF TypeOK, GetConversationByID
<1>3. w(c) \in Writes
  <2> HIDE DEF t
  <2>1. [c EXCEPT !.status = "closed"] \in Conversation
    BY <1>2 DEF Conversation, ConversationStatus
  <2>2. SaveConversation(c, [c EXCEPT !.status = "closed"])
          \subseteq Conversation
    BY <1>2, <2>1, SaveType
  <2>3. DomainEvents(r, t, i, {"conversation.closed"}) \subseteq Event
    BY <1>2, EventsType DEF EventType
  <2>4. QED
    BY <2>2, <2>3, NoWritesType DEF Writes
<1>4. [op |-> "close", tenant |-> t, conversation |-> i, agent |-> actor]
        \in Call
  BY <1>2 DEF Call
<1>5. Fits(r, w(c))
  <2>1. c \in conversations
    BY DEF GetConversationByID
  <2>2. CASE c.status = "closed"
    BY <2>2 DEF Fits, NoWrites
  <2>3. CASE c.status # "closed"
    <3> DEFINE row == [c EXCEPT !.status = "closed"]
    <3>1. /\ SoundRow(row) /\ row \in Conversation /\ row.status = "closed"
          /\ row.id = c.id /\ row.tenant = c.tenant /\ row.customer = c.customer
      BY <1>2, <2>1, FoundSound
      DEF SoundRow, Conversation, ConversationStatus
    <3> HIDE DEF row
    <3>2. /\ \A x, y \in SaveConversation(c, row) : x = y
          /\ \A d \in SaveConversation(c, row) :
               /\ SoundRow(d) /\ d.id = c.id /\ d.tenant = c.tenant
               /\ d.customer = c.customer
      BY <1>2, <2>1, <3>1, FoundSound, SavedSound
    <3>3. Fits(r, [NoWrites EXCEPT
                     !.conversations = SaveConversation(c, row),
                     !.outbox = DomainEvents(r, t, i, {"conversation.closed"})])
      BY <2>1, <3>2, FoundSound DEF Fits, NoWrites, OfTenant
    <3>4. QED
      BY <2>3, <3>3 DEF row
  <2>4. QED
    BY <2>2, <2>3
<1>6. QED
  BY <1>1, <1>3, <1>4, <1>5

LEMMA EscalateBegins ==
  ASSUME TypeOK, TablesSound, NEW r \in Requests, NEW agent \in Users, NEW i \in Ids,
         EscalateConversation(r, agent, i)
  PROVE  \E call0 \in Call, w0 \in Writes : Begin(r, call0, w0) /\ Fits(r, w0)
<1> DEFINE t == TenantOf[agent]
           rows(c) == IF c.assigned_agent_id = NoOne
                      THEN SaveConversation(c, TakenBy(c, agent)) ELSE {}
           ticket == [id |-> r, tenant |-> t, conversation |-> i,
                      status |-> "open", assigned_agent_id |-> agent]
           events == DomainEvents(r, t, i, {"conversation.escalated"})
                       \cup DomainEvents(r, t, r, {"ticket.created"})
<1>1. PICK c \in GetConversationByID(t, i) :
        Begin(r, [op |-> "escalate", tenant |-> t, conversation |-> i,
                  agent |-> agent],
              [NoWrites EXCEPT !.conversations = rows(c),
                               !.tickets = {ticket},
                               !.outbox = events])
  BY DEF EscalateConversation
<1>2. t \in Tenants /\ c \in Conversation
  BY TenantOfType DEF TypeOK, GetConversationByID
<1>3. rows(c) \subseteq Conversation
  BY <1>2, SaveType, TakenType
<1>4. ticket \in Ticket
  BY <1>2 DEF Ticket, TicketStatus, Ids
<1>5. events \subseteq Event
  <2>1. DomainEvents(r, t, i, {"conversation.escalated"}) \subseteq Event
    BY <1>2, EventsType DEF EventType
  <2>2. DomainEvents(r, t, r, {"ticket.created"}) \subseteq Event
    BY <1>2, EventsType DEF EventType, Ids
  <2>3. QED
    BY <2>1, <2>2
<1>6. [op |-> "escalate", tenant |-> t, conversation |-> i, agent |-> agent]
        \in Call
  BY <1>2 DEF Call
<1> HIDE DEF t, rows, ticket, events
<1>7. [NoWrites EXCEPT !.conversations = rows(c), !.tickets = {ticket},
                       !.outbox = events] \in Writes
  BY <1>3, <1>4, <1>5, NoWritesType DEF Writes
<1>8. Fits(r, [NoWrites EXCEPT !.conversations = rows(c),
                               !.tickets = {ticket}, !.outbox = events])
  <2>1. c \in conversations /\ c.tenant = t /\ c.id = i
    BY DEF GetConversationByID
  <2>2. ServesTenant(agent, c.tenant)
    BY <2>1 DEF EscalateConversation, ServesTenant, Agents, t
  <2>3. /\ \A x, y \in rows(c) : x = y
        /\ \A d \in rows(c) :
             /\ SoundRow(d) /\ d.id = c.id /\ d.tenant = c.tenant
             /\ d.customer = c.customer
    BY <1>2, <2>1, <2>2, FoundSound, TakenSound, TakenType, SavedSound DEF rows
  <2>4. /\ ticket.conversation = c.id /\ ticket.tenant = c.tenant
        /\ ticket.assigned_agent_id = agent /\ ticket.id = r
    BY <2>1 DEF ticket
  <2>5. QED
    BY <2>1, <2>2, <2>3, <2>4, FoundSound DEF Fits, NoWrites, OfTenant
<1>9. QED
  BY <1>1, <1>6, <1>7, <1>8

LEMMA StatusBegins ==
  ASSUME TypeOK, TablesSound, NEW r \in Requests, NEW actor \in Users,
         NEW ticket \in tickets, NEW status \in TicketStatus,
         UpdateStatus(r, actor, ticket, status)
  PROVE  \E call0 \in Call, w0 \in Writes : Begin(r, call0, w0) /\ Fits(r, w0)
<1> DEFINE t == TenantOf[actor]
<1>1. t \in Tenants /\ ticket \in Ticket
  BY TenantOfType DEF TypeOK
<1>2. ticket.id \in Ids /\ ticket.conversation \in Ids
  BY <1>1 DEF Ticket
<1>3. [ticket EXCEPT !.status = status] \in Ticket
  BY <1>1 DEF Ticket
<1>4. DomainEvents(r, t, ticket.id, {"ticket.status.updated"}) \subseteq Event
  BY <1>1, <1>2, EventsType DEF EventType
<1>5. [op |-> "status", tenant |-> t, conversation |-> ticket.conversation,
       agent |-> NoOne] \in Call
  BY <1>1, <1>2 DEF Call
<1>6. [NoWrites EXCEPT
         !.tickets = {[ticket EXCEPT !.status = status]},
         !.outbox = DomainEvents(r, t, ticket.id, {"ticket.status.updated"})]
        \in Writes
  BY <1>3, <1>4, NoWritesType DEF Writes
<1>7. Fits(r, [NoWrites EXCEPT
         !.tickets = {[ticket EXCEPT !.status = status]},
         !.outbox = DomainEvents(r, t, ticket.id, {"ticket.status.updated"})])
  <2> DEFINE saved == [ticket EXCEPT !.status = status]
  <2>1. /\ saved.conversation = ticket.conversation
        /\ saved.tenant = ticket.tenant
        /\ saved.assigned_agent_id = ticket.assigned_agent_id
        /\ saved.id = ticket.id
    BY <1>1 DEF Ticket
  <2>2. /\ OfTenant(conversations, ticket.conversation, ticket.tenant)
        /\ ServesTenant(ticket.assigned_agent_id, ticket.tenant)
    BY DEF TablesSound, TenantIsolation, OfTenant
  <2> HIDE DEF saved
  <2>3. Fits(r, [NoWrites EXCEPT
                   !.tickets = {saved},
                   !.outbox = DomainEvents(r, t, ticket.id,
                     {"ticket.status.updated"})])
    BY <2>1, <2>2 DEF Fits, NoWrites, TicketIs
  <2>4. QED
    BY <2>3 DEF saved
<1>8. QED
  BY <1>5, <1>6, <1>7 DEF UpdateStatus

LEMMA CommitType ==
  ASSUME TypeOK, NEW r \in Requests, Commit(r) PROVE TypeOK'
<1> DEFINE w == tx[r]
<1>1. w \in Writes
  BY DEF TypeOK
<1>2. /\ w.customers \subseteq Customer /\ w.conversations \subseteq Conversation
      /\ w.messages \subseteq Message /\ w.tickets \subseteq Ticket
      /\ w.outbox \subseteq Event
  BY <1>1 DEF Writes
<1>3. customers' \subseteq Customer
  BY <1>2 DEF TypeOK, Commit, Upsert
<1>4. conversations' \subseteq Conversation
  <2>1. PICK second \in 0..now :
          conversations' = Upsert(conversations,
            {[row EXCEPT !.updated_at = second] : row \in w.conversations})
    BY DEF Commit
  <2>2. second \in Nat
    BY DEF TypeOK
  <2>3. \A row \in w.conversations :
          [row EXCEPT !.updated_at = second] \in Conversation
    BY <1>2, <2>2 DEF Conversation
  <2>4. QED
    BY <2>1, <2>3 DEF TypeOK, Upsert
<1>5. tickets' \subseteq Ticket
  BY <1>2 DEF TypeOK, Commit, Upsert
<1>6. messages' \subseteq Message /\ outbox' \subseteq Event
  BY <1>2 DEF TypeOK, Commit
<1>7. /\ pc' \in [Requests -> {"idle", "tx", "committed", "done", "failed"}]
      /\ tx' \in [Requests -> Writes]
      /\ UNCHANGED <<version, now, call, bumps>>
  BY NoWritesType DEF TypeOK, Commit
<1>8. QED
  BY <1>3, <1>4, <1>5, <1>6, <1>7 DEF TypeOK

\* Only a request that has committed has a call and version counters to bump.
LEMMA BumpType ==
  ASSUME TypeOK, CallsKnown, NEW r \in Requests, Bump(r) PROVE TypeOK'
<1>1. bumps[r] \in Seq(Lists) /\ bumps[r] # <<>> /\ call[r] \in Call
  BY DEF TypeOK, CallsKnown, Bump
<1>2. Tail(bumps[r]) \in Seq(Lists) /\ Head(bumps[r]) \in Lists
  BY <1>1
<1>3. call[r].tenant \in Tenants
  BY <1>1 DEF Call
<1>4. version' \in [Tenants -> [Lists -> Nat]]
  <2>1. CASE UNCHANGED version
    BY <2>1 DEF TypeOK
  <2>2. CASE version' =
          [version EXCEPT ![call[r].tenant][Head(bumps[r])] = @ + 1]
    BY <2>2, <1>2, <1>3 DEF TypeOK
  <2>3. QED
    BY <2>1, <2>2 DEF Bump
<1>5. bumps' \in [Requests -> Seq(Lists)]
  BY <1>2 DEF TypeOK, Bump
<1>6. /\ pc' \in [Requests -> {"idle", "tx", "committed", "done", "failed"}]
      /\ call' \in [Requests -> Call \cup {NoCall}]
  BY DEF TypeOK, Bump
<1>7. UNCHANGED <<tables, now, tx>>
  BY DEF Bump
<1>8. QED
  BY <1>4, <1>5, <1>6, <1>7 DEF TypeOK, tables

LEMMA FailType ==
  ASSUME TypeOK, NEW who, Fail(who) PROVE TypeOK'
BY NoWritesType DEF TypeOK, Fail, tables

LEMMA OperationBegins ==
  ASSUME TypeOK, TablesSound, NEW r \in Requests, Operation(r)
  PROVE  \E c \in Call, w \in Writes : Begin(r, c, w) /\ Fits(r, w)
BY WebhookBegins, AssignBegins, ReplyBegins, CloseBegins, EscalateBegins,
   StatusBegins DEF Operation

-----------------------------------------------------------------------------
(* Every step keeps the invariant *)

LEMMA FitsNothing == \A r \in Requests : Fits(r, NoWrites)
BY DEF Fits, NoWrites

\* The table invariants speak of the tables and of who has not committed.
LEMMA SameTables ==
  ASSUME TablesSound, UNCHANGED tables,
         \A r \in Requests : pc'[r] \in {"idle", "tx"} => pc[r] \in {"idle", "tx"}
  PROVE  TablesSound'
BY DEF TablesSound, KeysSound, SeedsKept, OfTenant, TicketIs,
       StatusAgreesWithAgent, TenantIsolation, OneCustomerPerExternalID, OneTicketPerConversation, tables, ServesTenant

LEMMA BeginKeeps ==
  ASSUME IInv, NEW r \in Requests, NEW c \in Call, NEW w \in Writes,
         Begin(r, c, w), Fits(r, w)
  PROVE  IInv'
<1>1. BumpsOf(c.op) # <<>>
  <2>1. CASE c.op = "escalate"
    BY <2>1 DEF BumpsOf
  <2>2. CASE c.op = "status"
    BY <2>2 DEF BumpsOf
  <2>3. CASE c.op # "escalate" /\ c.op # "status"
    BY <2>3 DEF BumpsOf
  <2>4. QED
    BY <2>1, <2>2, <2>3
<1>2. TypeOK'
  BY BeginType DEF IInv
<1>3. CallsKnown'
  BY <1>1 DEF IInv, TypeOK, CallsKnown, Begin
<1>4. TablesSound'
  <2>1. \A q \in Requests :
          pc'[q] \in {"idle", "tx"} => pc[q] \in {"idle", "tx"}
    BY DEF IInv, TypeOK, Begin
  <2>2. QED
    BY <2>1, SameTables DEF IInv, Begin
<1>5. \A q \in Requests : Fits(q, tx[q])'
  BY DEF IInv, TypeOK, Begin, Fits, OfTenant, TicketIs, tables
<1>6. QED
  BY <1>2, <1>3, <1>4, <1>5 DEF IInv

LEMMA FailKeeps ==
  ASSUME IInv, NEW who \in SUBSET Requests, Fail(who) PROVE IInv'
<1>1. TypeOK'
  BY FailType DEF IInv
<1>2. CallsKnown'
  BY DEF IInv, TypeOK, CallsKnown, Fail
<1>3. TablesSound'
  BY SameTables DEF IInv, TypeOK, Fail
<1>4. ASSUME NEW q \in Requests PROVE Fits(q, tx[q])'
  <2>1. Fits(q, NoWrites)'
    BY DEF Fits, NoWrites
  <2>2. CASE q \in who
    BY <2>1, <2>2 DEF Fail
  <2>3. CASE q \notin who
    BY <2>3 DEF IInv, Fail, Fits, OfTenant, TicketIs, tables
  <2>4. QED
    BY <2>2, <2>3
<1>5. QED
  BY <1>1, <1>2, <1>3, <1>4 DEF IInv

LEMMA BumpKeeps ==
  ASSUME IInv, NEW r \in Requests, Bump(r) PROVE IInv'
<1>1. TypeOK'
  BY BumpType DEF IInv
<1>2. CallsKnown'
  BY DEF IInv, TypeOK, CallsKnown, Bump
<1>3. TablesSound'
  <2>1. \A q \in Requests :
          pc'[q] \in {"idle", "tx"} => pc[q] \in {"idle", "tx"}
    BY DEF IInv, TypeOK, Bump
  <2>2. QED
    BY <2>1, SameTables DEF IInv, Bump
<1>4. \A q \in Requests : Fits(q, tx[q])'
  BY DEF IInv, Bump, Fits, OfTenant, TicketIs, tables
<1>5. QED
  BY <1>1, <1>2, <1>3, <1>4 DEF IInv

\* What a commit does to the tables, in the terms of the invariant: customers
\* only grow, a conversation keeps its tenant, and a conversation row is an
\* old one or, but for the time of its update, one the transaction wrote.
LEMMA CommitTables ==
  ASSUME IInv, NEW r \in Requests, Commit(r)
  PROVE  /\ customers' = customers \cup tx[r].customers
         /\ \A x \in tx[r].customers : x \in customers \/ x.id = r
         /\ \A i, t : OfTenant(conversations, i, t)
                        => OfTenant(conversations', i, t)
         /\ \A c \in conversations' :
              \/ c \in conversations /\ \A d \in tx[r].conversations : d.id # c.id
              \/ \E d \in tx[r].conversations, second \in Nat :
                   c = [d EXCEPT !.updated_at = second]
         /\ \A d \in tx[r].conversations : OfTenant(conversations', d.id, d.tenant)
         /\ \A c, d \in conversations' : c.id = d.id => c = d
<1> DEFINE w == tx[r]
<1>1. Fits(r, w) /\ w \in Writes /\ pc[r] = "tx"
  BY DEF IInv, TypeOK, Commit
<1>2. KeysSound
  BY DEF IInv, TablesSound
<1>3. \A x \in w.customers : x \in customers \/ x.id = r
  BY <1>1 DEF Fits
<1>4. customers' = customers \cup w.customers
  <2>1. \A x \in w.customers, y \in customers : x.id = y.id => x = y
    BY <1>1, <1>2, <1>3 DEF KeysSound
  <2>2. QED
    BY <2>1 DEF Commit, Upsert
<1>5. PICK second \in 0..now :
        conversations' = Upsert(conversations,
          {[d EXCEPT !.updated_at = second] : d \in w.conversations})
  BY DEF Commit
<1>6. second \in Nat
  BY DEF IInv, TypeOK
<1>7. \A d \in w.conversations :
        /\ d \in Conversation
        /\ [d EXCEPT !.updated_at = second].id = d.id
        /\ [d EXCEPT !.updated_at = second].tenant = d.tenant
  BY <1>1 DEF Writes, Conversation
<1>8. \A d \in w.conversations, c \in conversations :
        c.id = d.id => c.tenant = d.tenant
  BY <1>1, <1>2 DEF Fits, KeysSound, OfTenant
<1>9. \A d \in w.conversations : OfTenant(conversations', d.id, d.tenant)
  BY <1>5, <1>7 DEF OfTenant, Upsert
<1>10. ASSUME NEW i, NEW t, OfTenant(conversations, i, t)
       PROVE  OfTenant(conversations', i, t)
  <2>1. PICK c \in conversations : c.id = i /\ c.tenant = t
    BY <1>10 DEF OfTenant
  <2>2. CASE \E d \in w.conversations : d.id = i
    <3>1. PICK d \in w.conversations : d.id = i
      BY <2>2
    <3>2. d.tenant = t
      BY <2>1, <3>1, <1>8
    <3>3. QED
      BY <3>1, <3>2, <1>9
  <2>3. CASE \A d \in w.conversations : d.id # i
    <3>1. \A d \in {[e EXCEPT !.updated_at = second] : e \in w.conversations} :
            d.id # c.id
      BY <2>1, <2>3, <1>7
    <3>2. c \in conversations'
      BY <3>1, <1>5 DEF Upsert
    <3>3. QED
      BY <2>1, <3>2 DEF OfTenant
  <2>4. QED
    BY <2>2, <2>3
<1>11. \A c \in conversations' :
         \/ c \in conversations /\ \A d \in w.conversations : d.id # c.id
         \/ \E d \in w.conversations, s \in Nat : c = [d EXCEPT !.updated_at = s]
  BY <1>5, <1>6, <1>7 DEF Upsert
<1>12. \A c, d \in conversations' : c.id = d.id => c = d
  BY <1>1, <1>2, <1>5, <1>7 DEF Upsert, KeysSound, Fits
<1>13. QED
  BY <1>3, <1>4, <1>9, <1>10, <1>11, <1>12

\* A ticket keeps its conversation.
LEMMA CommitTickets ==
  ASSUME IInv, NEW r \in Requests, Commit(r)
  PROVE  /\ \A i, c : TicketIs(tickets, i, c) => TicketIs(tickets', i, c)
         /\ \A k \in tickets' :
              k.id = r \/ TicketIs(tickets, k.id, k.conversation)
         /\ \A k, l \in tickets' : k.id = l.id => k.conversation = l.conversation
<1> DEFINE w == tx[r]
<1>1. Fits(r, w) /\ pc[r] = "tx" /\ KeysSound
  BY DEF IInv, TypeOK, TablesSound, Commit
<1>2. tickets' = Upsert(tickets, w.tickets)
  BY DEF Commit
<1> HIDE DEF w
<1>3. ASSUME NEW k \in tickets, NEW l \in w.tickets, k.id = l.id
      PROVE  k.conversation = l.conversation
  BY <1>1, <1>3 DEF Fits, KeysSound, TicketIs
<1>4. ASSUME NEW i, NEW c, TicketIs(tickets, i, c) PROVE TicketIs(tickets', i, c)
  <2>1. PICK k \in tickets : k.id = i /\ k.conversation = c
    BY <1>4 DEF TicketIs
  <2>2. CASE \E l \in w.tickets : k.id = l.id
    BY <2>1, <2>2, <1>2, <1>3 DEF Upsert, TicketIs
  <2>3. CASE \A l \in w.tickets : l.id # k.id
    BY <2>1, <2>3, <1>2 DEF Upsert, TicketIs
  <2>4. QED
    BY <2>2, <2>3
<1>5. \A k \in tickets' : k.id = r \/ TicketIs(tickets, k.id, k.conversation)
  BY <1>1, <1>2 DEF Upsert, Fits, TicketIs
<1>6. \A k, l \in tickets' : k.id = l.id => k.conversation = l.conversation
  BY <1>1, <1>2, <1>3 DEF Upsert, Fits, KeysSound
<1>7. QED
  BY <1>4, <1>5, <1>6

\* The time of its update says nothing of a row's soundness.
LEMMA StampedSound ==
  ASSUME NEW d \in Conversation, SoundRow(d), NEW second \in Nat
  PROVE  /\ SoundRow([d EXCEPT !.updated_at = second])
         /\ [d EXCEPT !.updated_at = second].id = d.id
         /\ [d EXCEPT !.updated_at = second].tenant = d.tenant
         /\ [d EXCEPT !.updated_at = second].customer = d.customer
BY DEF SoundRow, Conversation

LEMMA CommitTablesSound ==
  ASSUME IInv, NEW r \in Requests, Commit(r) PROVE TablesSound'
<1> DEFINE w == tx[r]
<1>1. Fits(r, w) /\ w \in Writes /\ pc[r] = "tx" /\ UniqueKeysAllow(w)
  BY DEF IInv, TypeOK, Commit
<1>2. TablesSound
  BY DEF IInv
<1>3. /\ customers' = customers \cup w.customers
      /\ \A x \in w.customers : x \in customers \/ x.id = r
      /\ \A i, t : OfTenant(conversations, i, t) => OfTenant(conversations', i, t)
      /\ \A d \in w.conversations : OfTenant(conversations', d.id, d.tenant)
      /\ \A c, d \in conversations' : c.id = d.id => c = d
      /\ \A i, c : TicketIs(tickets, i, c) => TicketIs(tickets', i, c)
      /\ \A k \in tickets' :
           k.id = r \/ TicketIs(tickets, k.id, k.conversation)
      /\ \A k, l \in tickets' : k.id = l.id => k.conversation = l.conversation
  BY CommitTables, CommitTickets
\* Each conversation is sound and its customer is there.
<1>4. ASSUME NEW c \in conversations'
      PROVE  /\ SoundRow(c) /\ OfTenant(customers', c.customer, c.tenant)
             /\ \/ c \in conversations
                \/ c.id = r
                \/ OfTenant(conversations, c.id, c.tenant)
  <2>1. CASE c \in conversations
    BY <2>1, <1>2, <1>3, FoundSound DEF OfTenant
  <2>2. CASE \E d \in w.conversations, s \in Nat :
               c = [d EXCEPT !.updated_at = s]
    <3>1. PICK d \in w.conversations, s \in Nat :
            c = [d EXCEPT !.updated_at = s]
      BY <2>2
    <3>2. d \in Conversation /\ SoundRow(d)
      BY <1>1 DEF Writes, Fits
    <3>3. /\ SoundRow(c) /\ c.id = d.id /\ c.tenant = d.tenant
          /\ c.customer = d.customer
      BY <3>1, <3>2, StampedSound
    <3>4. /\ d.id = r \/ OfTenant(conversations, d.id, d.tenant)
          /\ OfTenant(customers \cup w.customers, d.customer, d.tenant)
      BY <1>1 DEF Fits
    <3>5. QED
      BY <3>3, <3>4, <1>3
  <2>3. QED
    BY <2>1, <2>2, CommitTables
<1>5. StatusAgreesWithAgent'
  BY <1>4 DEF StatusAgreesWithAgent, SoundRow
<1>6. \A k \in tickets' : k \in tickets \/ k \in w.tickets
  BY DEF Commit, Upsert
<1>7. \A k \in tickets' : /\ OfTenant(conversations', k.conversation, k.tenant)
                          /\ ServesTenant(k.assigned_agent_id, k.tenant)
  <2>1. \A k \in tickets : /\ OfTenant(conversations, k.conversation, k.tenant)
                           /\ ServesTenant(k.assigned_agent_id, k.tenant)
    BY <1>2 DEF TablesSound, TenantIsolation, OfTenant
  <2>2. \A k \in w.tickets : /\ OfTenant(conversations, k.conversation, k.tenant)
                             /\ ServesTenant(k.assigned_agent_id, k.tenant)
    BY <1>1 DEF Fits
  <2>3. QED
    BY <1>3, <1>6, <2>1, <2>2
<1>8. ASSUME NEW m \in messages'
      PROVE  \E t : /\ OfTenant(conversations', m.conversation, t)
                    /\ m.sender = NoOne \/ ServesTenant(m.sender, t)
  <2>1. CASE m \in messages
    <3>1. PICK c \in conversations :
            /\ c.id = m.conversation
            /\ m.sender = NoOne \/ ServesTenant(m.sender, c.tenant)
      BY <2>1, <1>2 DEF TablesSound, TenantIsolation
    <3>2. OfTenant(conversations', m.conversation, c.tenant)
      BY <3>1, <1>3 DEF OfTenant
    <3>3. QED
      BY <3>1, <3>2
  <2>2. CASE m \in w.messages
    BY <2>2, <1>1, <1>3 DEF Fits
  <2>3. QED
    BY <2>1, <2>2 DEF Commit
<1>9. TenantIsolation'
  BY <1>4, <1>7, <1>8 DEF TenantIsolation, SoundRow, OfTenant, ServesTenant
<1>10. KeysSound'
  <2>1. \A x, y \in customers' : x.id = y.id => x = y
    BY <1>1, <1>2, <1>3 DEF TablesSound, KeysSound, Fits
  <2>2. \A q \in Requests : /\ pc[q] \notin {"idle", "tx"} => pc'[q] \notin {"idle", "tx"}
                           /\ pc'[r] = "committed"
    BY DEF IInv, TypeOK, Commit
  <2>3. \A x \in customers' :
          x.id \in Requests => pc'[x.id] \notin {"idle", "tx"}
    BY <1>2, <1>3, <2>2 DEF TablesSound, KeysSound
  <2>4. \A c \in conversations' :
          c.id \in Requests => pc'[c.id] \notin {"idle", "tx"}
    BY <1>2, <1>4, <2>2 DEF TablesSound, KeysSound, OfTenant
  <2>5. \A k \in tickets' :
          k.id \in Requests => pc'[k.id] \notin {"idle", "tx"}
    BY <1>2, <1>3, <2>2 DEF TablesSound, KeysSound, TicketIs
  <2>6. QED
    BY <1>3, <2>1, <2>3, <2>4, <2>5 DEF KeysSound
<1>11. OneCustomerPerExternalID'
  BY <1>1, <1>2, <1>3
  DEF TablesSound, OneCustomerPerExternalID, UniqueKeysAllow, Fits
<1>12. OneTicketPerConversation'
  BY <1>1, <1>2, <1>6
  DEF TablesSound, OneTicketPerConversation, UniqueKeysAllow, Fits
<1>13. SeedsKept'
  BY <1>2, <1>3 DEF TablesSound, SeedsKept, OfTenant
<1>14. QED
  BY <1>5, <1>9, <1>10, <1>11, <1>12, <1>13 DEF TablesSound

LEMMA CommitKeeps ==
  ASSUME IInv, NEW r \in Requests, Commit(r) PROVE IInv'
<1>1. TypeOK'
  BY CommitType DEF IInv
<1>2. CallsKnown'
  BY DEF IInv, TypeOK, CallsKnown, Commit
<1>3. TablesSound'
  BY CommitTablesSound
<1>4. ASSUME NEW q \in Requests PROVE Fits(q, tx[q])'
  <2>1. Fits(q, NoWrites)'
    BY DEF Fits, NoWrites
  <2>2. CASE q = r
    BY <2>1, <2>2 DEF IInv, TypeOK, Commit
  <2>3. CASE q # r
    <3>1. tx'[q] = tx[q] /\ Fits(q, tx[q])
      BY <2>3 DEF IInv, TypeOK, Commit
    <3>2. /\ \A x : x \in customers => x \in customers'
          /\ \A i, t : OfTenant(conversations, i, t)
                         => OfTenant(conversations', i, t)
          /\ \A i, c : TicketIs(tickets, i, c) => TicketIs(tickets', i, c)
      BY CommitTables, CommitTickets
    <3>3. QED
      BY <3>1, <3>2 DEF Fits, OfTenant
  <2>4. QED
    BY <2>2, <2>3
<1>5. QED
  BY <1>1, <1>2, <1>3, <1>4 DEF IInv

\* The demo rows, once in the tables or on their way into them again.
LEMMA DemoRows ==
  /\ \A c \in DemoConversations : \E d \in Demo :
       /\ c.id = d.id /\ c.customer = d.id /\ c.tenant = TenantOf[d.channel]
       /\ SoundRow(c)
  /\ \A c, d \in DemoConversations : c.id = d.id => c = d
  /\ \A k \in DemoTickets : \E d \in Demo :
       /\ d.agent # NoOne /\ k.id = d.id /\ k.conversation = d.id
       /\ k.tenant = TenantOf[d.channel]
       /\ ServesTenant(k.assigned_agent_id, k.tenant)
  /\ \A d \in Demo :
       /\ OfTenant(DemoConversations, d.id, TenantOf[d.channel])
       /\ d.agent # NoOne => TicketIs(DemoTickets, d.id, d.id)
<1>1. ASSUME NEW c \in DemoConversations
      PROVE  \E d \in Demo :
               /\ c.id = d.id /\ c.customer = d.id
               /\ c.tenant = TenantOf[d.channel] /\ SoundRow(c)
  <2>1. PICK d \in Demo :
          /\ c.id = d.id /\ c.customer = d.id /\ c.channel = d.channel
          /\ c.tenant = TenantOf[d.channel] /\ c.assigned_agent_id = d.agent
          /\ c.status = IF d.agent = NoOne THEN "open" ELSE "assigned"
    BY DEF DemoConversations
  <2>2. SoundRow(c)
    BY <2>1, DemoAssumption DEF SoundRow, ServesTenant
  <2>3. QED
    BY <2>1, <2>2
<1>2. \A c, d \in DemoConversations : c.id = d.id => c = d
  BY DemoAssumption DEF DemoConversations
<1>3. ASSUME NEW k \in DemoTickets
      PROVE  \E d \in Demo :
               /\ d.agent # NoOne /\ k.id = d.id /\ k.conversation = d.id
               /\ k.tenant = TenantOf[d.channel]
               /\ ServesTenant(k.assigned_agent_id, k.tenant)
  <2>1. PICK d \in Demo :
          /\ d.agent # NoOne /\ k.id = d.id /\ k.conversation = d.id
          /\ k.tenant = TenantOf[d.channel] /\ k.assigned_agent_id = d.agent
    BY DEF DemoTickets
  <2>2. QED
    BY <2>1, DemoAssumption DEF ServesTenant
<1>4. ASSUME NEW d \in Demo
      PROVE  /\ OfTenant(DemoConversations, d.id, TenantOf[d.channel])
             /\ d.agent # NoOne => TicketIs(DemoTickets, d.id, d.id)
  <2>1. [id |-> d.id, tenant |-> TenantOf[d.channel], customer |-> d.id,
         channel |-> d.channel, assigned_agent_id |-> d.agent,
         status |-> IF d.agent = NoOne THEN "open" ELSE "assigned",
         updated_at |-> now] \in DemoConversations
    BY DEF DemoConversations
  <2>2. ASSUME d.agent # NoOne
        PROVE  [id |-> d.id, tenant |-> TenantOf[d.channel],
                conversation |-> d.id, status |-> "in_progress",
                assigned_agent_id |-> d.agent] \in DemoTickets
    BY <2>2 DEF DemoTickets
  <2>3. QED
    BY <2>1, <2>2 DEF OfTenant, TicketIs
<1>5. QED
  BY <1>1, <1>2, <1>3, <1>4

LEMMA DemoType ==
  ASSUME TypeOK
  PROVE  DemoConversations \subseteq Conversation /\ DemoTickets \subseteq Ticket
<1>1. now \in Nat
  BY DEF TypeOK
<1>2. DemoConversations \subseteq Conversation
  BY <1>1, RowOfDemo DEF DemoConversations, Conversation, ConversationStatus
<1>3. DemoTickets \subseteq Ticket
  BY RowOfDemo DEF DemoTickets, Ticket, TicketStatus
<1>4. QED
  BY <1>2, <1>3

\* A demo conversation written back has the tenant and the customer of the
\* one it replaces.
LEMMA ReseedConversationsKeeps ==
  ASSUME IInv, ReseedConversations PROVE IInv'
<1>1. /\ conversations' = Upsert(conversations, DemoConversations)
      /\ UNCHANGED <<customers, messages, tickets, outbox, version, now, pc,
                     call, tx, bumps>>
  BY DEF ReseedConversations
<1>2. TablesSound /\ TypeOK
  BY DEF IInv
<1>3. TypeOK'
  BY <1>1, <1>2, DemoType DEF TypeOK, Upsert
<1>4. ASSUME NEW i, NEW t, OfTenant(conversations, i, t)
      PROVE  OfTenant(conversations', i, t)
  <2>1. PICK c \in conversations : c.id = i /\ c.tenant = t
    BY <1>4 DEF OfTenant
  <2>2. CASE \E d \in Demo : d.id = i
    <3>1. PICK d \in Demo : d.id = i
      BY <2>2
    <3>2. OfTenant(conversations, i, TenantOf[d.channel])
      BY <1>2, <3>1 DEF TablesSound, SeedsKept
    <3>3. t = TenantOf[d.channel]
      BY <1>2, <2>1, <3>2 DEF TablesSound, KeysSound, OfTenant
    <3>4. QED
      BY <1>1, <3>1, <3>3, DemoRows DEF OfTenant, Upsert
  <2>3. CASE \A d \in Demo : d.id # i
    <3>1. \A d \in DemoConversations : d.id # c.id
      BY <2>1, <2>3, DemoRows
    <3>2. QED
      BY <1>1, <2>1, <3>1 DEF OfTenant, Upsert
  <2>4. QED
    BY <2>2, <2>3
<1>5. ASSUME NEW c \in conversations'
      PROVE  /\ SoundRow(c) /\ OfTenant(customers, c.customer, c.tenant)
             /\ OfTenant(conversations, c.id, c.tenant)
  <2>1. CASE c \in conversations
    BY <2>1, <1>2, FoundSound
  <2>2. CASE c \in DemoConversations
    BY <2>2, <1>2, DemoRows DEF TablesSound, SeedsKept
  <2>3. QED
    BY <1>1, <2>1, <2>2 DEF Upsert
<1>6. \A c, d \in conversations' : c.id = d.id => c = d
  BY <1>1, <1>2, DemoRows DEF TablesSound, KeysSound, Upsert
<1>7. KeysSound'
  BY <1>1, <1>2, <1>5, <1>6 DEF TablesSound, KeysSound, OfTenant
<1>8. SeedsKept'
  BY <1>1, <1>2, <1>4 DEF TablesSound, SeedsKept
<1>9. StatusAgreesWithAgent'
  BY <1>5 DEF StatusAgreesWithAgent, SoundRow
<1>10. TenantIsolation'
  <2>1. \A k \in tickets : /\ OfTenant(conversations', k.conversation, k.tenant)
                           /\ ServesTenant(k.assigned_agent_id, k.tenant)
    BY <1>2, <1>4 DEF TablesSound, TenantIsolation, OfTenant
  <2>2. ASSUME NEW m \in messages
        PROVE  \E t : /\ OfTenant(conversations', m.conversation, t)
                      /\ m.sender = NoOne \/ ServesTenant(m.sender, t)
    <3>1. PICK c \in conversations :
            /\ c.id = m.conversation
            /\ m.sender = NoOne \/ ServesTenant(m.sender, c.tenant)
      BY <1>2 DEF TablesSound, TenantIsolation
    <3>2. QED
      BY <3>1, <1>4 DEF OfTenant
  <2>3. QED
    BY <1>1, <1>5, <2>1, <2>2
    DEF TenantIsolation, SoundRow, OfTenant, ServesTenant
<1>11. OneCustomerPerExternalID' /\ OneTicketPerConversation'
  BY <1>1, <1>2
  DEF TablesSound, OneCustomerPerExternalID, OneTicketPerConversation
<1>12. CallsKnown'
  BY <1>1 DEF IInv, CallsKnown
<1>13. ASSUME NEW q \in Requests PROVE Fits(q, tx[q])'
  <2>1. Fits(q, tx[q])
    BY DEF IInv
  <2>2. QED
    BY <2>1, <1>1, <1>4 DEF Fits, TicketIs
<1>14. QED
  BY <1>3, <1>7, <1>8, <1>9, <1>10, <1>11, <1>12, <1>13 DEF IInv, TablesSound

\* A demo ticket written back takes the place of the one ticket its
\* conversation has.
LEMMA ReseedTicketsKeeps ==
  ASSUME IInv, ReseedTickets PROVE IInv'
<1>1. /\ tickets' = Upsert(tickets, DemoTickets)
      /\ UNCHANGED <<customers, conversations, messages, outbox, version, now,
                     pc, call, tx, bumps>>
  BY DEF ReseedTickets
<1>2. TablesSound /\ TypeOK
  BY DEF IInv
<1>3. TypeOK'
  BY <1>1, <1>2, DemoType DEF TypeOK, Upsert
<1>4. ASSUME NEW k \in tickets, NEW l \in DemoTickets
      PROVE  k.id = l.id <=> k.conversation = l.conversation
  <2>1. PICK d \in Demo : d.agent # NoOne /\ l.id = d.id /\ l.conversation = d.id
    BY DemoRows
  <2>2. TicketIs(tickets, d.id, d.id)
    BY <1>2, <2>1 DEF TablesSound, SeedsKept
  <2>3. QED
    BY <1>2, <2>1, <2>2
    DEF TablesSound, KeysSound, OneTicketPerConversation, TicketIs
<1>5. \A k \in DemoTickets : TicketIs(tickets, k.id, k.conversation)
  BY <1>2, DemoRows DEF TablesSound, SeedsKept
<1>6. \A k \in tickets' : TicketIs(tickets, k.id, k.conversation)
  BY <1>1, <1>5 DEF Upsert, TicketIs
<1>7. ASSUME NEW i, NEW c, TicketIs(tickets, i, c) PROVE TicketIs(tickets', i, c)
  <2>1. PICK k \in tickets : k.id = i /\ k.conversation = c
    BY <1>7 DEF TicketIs
  <2>2. CASE \E l \in DemoTickets : l.id = i
    BY <2>1, <2>2, <1>1, <1>4 DEF Upsert, TicketIs
  <2>3. CASE \A l \in DemoTickets : l.id # i
    BY <2>1, <2>3, <1>1 DEF Upsert, TicketIs
  <2>4. QED
    BY <2>2, <2>3
<1>8. KeysSound'
  BY <1>1, <1>2, <1>6 DEF TablesSound, KeysSound, TicketIs
<1>9. SeedsKept'
  BY <1>1, <1>2, <1>7 DEF TablesSound, SeedsKept
<1>10. \A k \in tickets' : /\ OfTenant(conversations, k.conversation, k.tenant)
                           /\ ServesTenant(k.assigned_agent_id, k.tenant)
  <2>1. \A k \in DemoTickets :
          /\ OfTenant(conversations, k.conversation, k.tenant)
          /\ ServesTenant(k.assigned_agent_id, k.tenant)
    BY <1>2, DemoRows DEF TablesSound, SeedsKept
  <2>2. QED
    BY <1>1, <1>2, <2>1 DEF TablesSound, TenantIsolation, OfTenant, Upsert
<1>11. TenantIsolation'
  BY <1>1, <1>2, <1>10 DEF TablesSound, TenantIsolation, OfTenant, ServesTenant
<1>12. OneTicketPerConversation'
  <2>1. \A k, l \in DemoTickets : k.conversation = l.conversation => k.id = l.id
    BY DemoRows
  <2>2. QED
    BY <1>1, <1>2, <1>4, <2>1
    DEF TablesSound, OneTicketPerConversation, Upsert
<1>13. StatusAgreesWithAgent' /\ OneCustomerPerExternalID'
  BY <1>1, <1>2 DEF TablesSound, StatusAgreesWithAgent, OneCustomerPerExternalID
<1>14. CallsKnown'
  BY <1>1 DEF IInv, CallsKnown
<1>15. ASSUME NEW q \in Requests PROVE Fits(q, tx[q])'
  <2>1. Fits(q, tx[q])
    BY DEF IInv
  <2>2. QED
    BY <2>1, <1>1, <1>7 DEF Fits, OfTenant
<1>16. QED
  BY <1>3, <1>8, <1>9, <1>11, <1>12, <1>13, <1>14, <1>15 DEF IInv, TablesSound

LEMMA InitIInv == Init => IInv
<1> SUFFICES ASSUME Init PROVE IInv
  OBVIOUS
<1>1. TypeOK
  BY InitType
<1>2. CallsKnown
  BY DEF Init, CallsKnown
<1>3. \A d \in Demo :
        /\ d.id \notin Requests
        /\ \/ d.agent = NoOne
           \/ ServesTenant(d.agent, TenantOf[d.channel])
        /\ \A e \in Demo :
             \/ d.id = e.id
             \/ d.external = e.external /\ TenantOf[d.channel] = TenantOf[e.channel]
             => d = e
  BY DemoAssumption DEF DemoIds, ServesTenant
<1>4. KeysSound /\ SeedsKept
  <2>1. KeysSound
    <3>1. \A k \in DemoTickets : k.id = k.conversation /\ k.id \in DemoIds
      BY DEF DemoTickets, DemoIds
    <3>2. QED
      BY <1>3, <3>1, DemoAssumption DEF Init, KeysSound, DemoConversations
  <2>2. ASSUME NEW d \in Demo
        PROVE  /\ OfTenant(customers, d.id, TenantOf[d.channel])
               /\ OfTenant(conversations, d.id, TenantOf[d.channel])
               /\ d.agent # NoOne => TicketIs(tickets, d.id, d.id)
    <3>1. [id |-> d.id, tenant |-> TenantOf[d.channel],
           external |-> d.external] \in customers
      BY DEF Init
    <3>2. OfTenant(customers, d.id, TenantOf[d.channel])
      BY <3>1 DEF OfTenant
    <3>3. QED
      BY <3>2, DemoRows DEF Init
  <2>3. QED
    BY <2>1, <2>2 DEF SeedsKept
<1> USE DEF DemoConversations, DemoTickets
<1>5. StatusAgreesWithAgent
  BY DEF Init, StatusAgreesWithAgent
<1>6. TenantIsolation
  <2>1. ASSUME NEW c \in conversations
        PROVE  /\ TenantOf[c.channel] = c.tenant
               /\ \E x \in customers : x.id = c.customer /\ x.tenant = c.tenant
               /\ \/ c.assigned_agent_id = NoOne
                  \/ ServesTenant(c.assigned_agent_id, c.tenant)
    <3>1. PICK d \in Demo :
            /\ c.customer = d.id /\ c.channel = d.channel
            /\ c.tenant = TenantOf[d.channel] /\ c.assigned_agent_id = d.agent
      BY DEF Init
    <3>2. [id |-> d.id, tenant |-> TenantOf[d.channel],
           external |-> d.external] \in customers
      BY DEF Init
    <3>3. QED
      BY <1>3, <3>1, <3>2
  <2>2. ASSUME NEW k \in tickets
        PROVE  /\ \E c \in conversations :
                    c.id = k.conversation /\ c.tenant = k.tenant
               /\ ServesTenant(k.assigned_agent_id, k.tenant)
    <3>1. PICK d \in Demo :
            /\ d.agent # NoOne
            /\ k.conversation = d.id /\ k.tenant = TenantOf[d.channel]
            /\ k.assigned_agent_id = d.agent
      BY DEF Init
    <3>2. [id |-> d.id, tenant |-> TenantOf[d.channel], customer |-> d.id,
           channel |-> d.channel, assigned_agent_id |-> d.agent,
           status |-> IF d.agent = NoOne THEN "open" ELSE "assigned",
           updated_at |-> 0] \in conversations
      BY DEF Init
    <3>3. QED
      BY <1>3, <3>1, <3>2
  <2>3. QED
    BY <2>1, <2>2 DEF Init, TenantIsolation
<1>7. OneCustomerPerExternalID
  BY <1>3 DEF Init, OneCustomerPerExternalID
<1>8. OneTicketPerConversation
  BY DEF Init, OneTicketPerConversation
<1>9. \A r \in Requests : Fits(r, tx[r])
  BY FitsNothing DEF Init
<1>10. QED
  BY <1>1, <1>2, <1>4, <1>5, <1>6, <1>7, <1>8, <1>9 DEF IInv, TablesSound

LEMMA NextKeeps == ASSUME IInv, [Next]_vars PROVE IInv'
<1>1. ASSUME NEW r \in Requests, Operation(r) PROVE IInv'
  <2>1. PICK c \in Call, w \in Writes : Begin(r, c, w) /\ Fits(r, w)
    BY <1>1, OperationBegins DEF IInv
  <2>2. QED
    BY <2>1, BeginKeeps
<1>2. ASSUME NEW r \in Requests, Commit(r) PROVE IInv'
  BY <1>2, CommitKeeps
<1>3. ASSUME NEW r \in Requests, Bump(r) PROVE IInv'
  BY <1>3, BumpKeeps
<1>4. ASSUME NEW r \in Requests, Reject(r) \/ Abort(r) PROVE IInv'
  BY <1>4, FailKeeps DEF Reject, Abort
<1>5. CASE Crash
  BY <1>5, FailKeeps DEF Crash
<1>6. CASE ReseedConversations \/ ReseedTickets
  BY <1>6, ReseedConversationsKeeps, ReseedTicketsKeeps
<1>7. CASE UNCHANGED vars
  <2>1. TypeOK'
    BY <1>7 DEF IInv, TypeOK, vars
  <2>2. CallsKnown' /\ TablesSound'
    BY <1>7, SameTables DEF IInv, CallsKnown, vars, tables
  <2>3. \A r \in Requests : Fits(r, tx[r])'
    BY <1>7 DEF IInv, vars, Fits, OfTenant, TicketIs
  <2>4. QED
    BY <2>1, <2>2, <2>3 DEF IInv
<1>8. QED
  BY <1>1, <1>2, <1>3, <1>4, <1>5, <1>6, <1>7 DEF Next, AllAnswered

-----------------------------------------------------------------------------
(* The theorems *)

\* The inductive invariant: the tables are sound, and what the open
\* transactions hold would keep them so whenever they commit.
THEOREM Invariance == Spec => []IInv
<1>1. Init => IInv
  BY InitIInv
<1>2. IInv /\ [Next]_vars => IInv'
  BY NextKeeps
<1>3. QED
  BY <1>1, <1>2, PTL DEF Spec

\* Every variable keeps its type.
THEOREM TypeCorrect == Spec => []TypeOK
<1>1. IInv => TypeOK
  BY DEF IInv
<1>2. QED
  BY <1>1, Invariance, PTL

\* Stale whole-row writes by concurrent webhooks, assignments, replies,
\* escalations and closes never leave an open conversation with an agent or
\* an assigned one without.
THEOREM StatusAgreement == Spec => []StatusAgreesWithAgent
<1>1. IInv => StatusAgreesWithAgent
  BY DEF IInv, TablesSound
<1>2. QED
  BY <1>1, Invariance, PTL

\* Whatever ids the requests of one tenant name, no row ever refers to a row
\* or to a member of the staff of another tenant.
THEOREM TenantsIsolated == Spec => []TenantIsolation
<1>1. IInv => TenantIsolation
  BY DEF IInv, TablesSound
<1>2. QED
  BY <1>1, Invariance, PTL

\* Concurrent first messages of a customer leave one customer row.
THEOREM CustomersUnique == Spec => []OneCustomerPerExternalID
<1>1. IInv => OneCustomerPerExternalID
  BY DEF IInv, TablesSound
<1>2. QED
  BY <1>1, Invariance, PTL

\* Concurrent escalations of a conversation leave one ticket.
THEOREM TicketsUnique == Spec => []OneTicketPerConversation
<1>1. IInv => OneTicketPerConversation
  BY DEF IInv, TablesSound
<1>2. QED
  BY <1>1, Invariance, PTL

=============================================================================
