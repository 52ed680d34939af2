---------------------------- MODULE Conversations ----------------------------
(***************************************************************************)
(* The conversation and ticket services of the backend: every operation    *)
(* that writes the customers, conversations, messages, tickets and outbox  *)
(* tables, run by concurrent HTTP requests over one MySQL database.        *)
(*                                                                         *)
(* A table is a set of rows.  A request runs one database transaction at   *)
(* REPEATABLE READ: its reads see the tables as they were at its first     *)
(* SELECT (step Begin) and none of them locks, its writes reach the tables *)
(* together (step Commit), and it then bumps the version counters of the   *)
(* cached lists one after the other (step Bump).  Between those steps any  *)
(* other request may run.                                                  *)
(*                                                                         *)
(* A request writes at most one row of each table, so the row a request    *)
(* inserts is named by the request.                                        *)
(***************************************************************************)
EXTENDS Naturals, FiniteSets, Sequences

CONSTANTS
  Requests,      \* the write requests the API receives, each handled once
  Tenants,
  Channels,      \* rows of the channels table; TenantOf their tenant
  Users,         \* rows of the users table; TenantOf and RoleOf
  Externals,     \* the customers' external ids
  TenantOf,
  RoleOf,
  NoOne,         \* SQL NULL in assigned_agent_id and sender_id
  Demo,          \* what the database holds at the start (seeds/default.go)
  Reseeding,     \* whether the demo data may be loaded again later
  MaxOpenConns,  \* size of the connection pool
  MaxSecond      \* bound on the clock

DemoIds == {d.id : d \in Demo}
Ids == Requests \cup DemoIds
Agents == {u \in Users : RoleOf[u] = "agent"}

ASSUME ConstantsAssumption ==
  /\ TenantOf \in [Channels \cup Users -> Tenants]
  /\ RoleOf \in [Users -> {"admin", "agent"}]
  /\ NoOne \notin Users
  /\ MaxOpenConns \in Nat \ {0}
  /\ MaxSecond \in Nat
  /\ Reseeding \in BOOLEAN

\* A demo conversation: its id, which is also its customer's and its ticket's,
\* its channel and customer, and its agent; an assigned one has a ticket.
ASSUME DemoAssumption ==
  /\ DemoIds \cap Requests = {}
  /\ \A d \in Demo :
       /\ d.channel \in Channels
       /\ d.external \in Externals
       /\ \/ d.agent = NoOne
          \/ d.agent \in Agents /\ TenantOf[d.agent] = TenantOf[d.channel]
  /\ \A d, e \in Demo :
       \/ d.id = e.id
       \/ d.external = e.external /\ TenantOf[d.channel] = TenantOf[e.channel]
       => d = e

VARIABLES
  customers, conversations, messages, tickets, outbox,  \* the tables
  version,   \* the cached lists' version counters, per tenant and list
  now,       \* the second the servers' clocks show
  pc,        \* where each request stands
  call,      \* the operation a request asked for
  tx,        \* what its open transaction will have written
  bumps      \* the version counters it has yet to bump

tables == <<customers, conversations, messages, tickets, outbox>>
vars == <<customers, conversations, messages, tickets, outbox, version, now,
          pc, call, tx, bumps>>

-----------------------------------------------------------------------------
(* Rows *)

Lists == {"conversations", "tickets"}
ConversationStatus == {"open", "assigned", "closed"}
TicketStatus == {"open", "in_progress", "resolved", "closed"}
EventType == {"conversation.created", "channel.message.received",
              "conversation.assigned", "conversation.replied",
              "conversation.closed", "conversation.escalated",
              "ticket.created", "ticket.status.updated"}
OpenOrAssigned == {"open", "assigned"}

Customer == [id : Ids, tenant : Tenants, external : Externals]
Conversation == [id : Ids, tenant : Tenants, customer : Ids,
                 channel : Channels, status : ConversationStatus,
                 assigned_agent_id : Users \cup {NoOne}, updated_at : Nat]
Message == [id : Requests, conversation : Ids, sender : Users \cup {NoOne}]
Ticket == [id : Ids, tenant : Tenants, conversation : Ids,
           status : TicketStatus, assigned_agent_id : Users \cup {NoOne}]
\* appendDomainEvent writes the same row to activity_logs and outbox_events.
Event == [request : Requests, type : EventType, tenant : Tenants, entity : Ids]

Writes == [customers : SUBSET Customer, conversations : SUBSET Conversation,
           messages : SUBSET Message, tickets : SUBSET Ticket,
           outbox : SUBSET Event]
NoWrites == [customers |-> {}, conversations |-> {}, messages |-> {},
             tickets |-> {}, outbox |-> {}]

Call == [op : {"webhook", "assign", "reply", "close", "escalate", "status"},
         tenant : Tenants, conversation : Ids, agent : Users \cup {NoOne}]
NoCall == [op |-> "none", tenant |-> NoOne, conversation |-> NoOne,
           agent |-> NoOne]

-----------------------------------------------------------------------------
(* The store *)

\* The writes of a transaction replace the rows with the same primary key.
Upsert(table, rows) ==
  {old \in table : \A row \in rows : row.id # old.id} \cup rows

MutantAnyTenant(t, i) == {c \in conversations : c.id = i}

\* Scoped to the tenant: another tenant's id finds nothing.
GetConversationByID(t, i) == {c \in conversations : c.tenant = t /\ c.id = i}

FindTicketByConversation(t, i) ==
  {k \in tickets : k.tenant = t /\ k.conversation = i}

MutantOpenOnly(t, customer, channel) ==
  {c \in conversations : /\ c.tenant = t /\ c.customer = customer
                         /\ c.channel = channel /\ c.status = "open"}

\* The newest; rows updated within one second come in no particular order,
\* since their ids are random.
FindActiveConversation(t, customer, channel) ==
  LET active == {c \in conversations :
                   /\ c.tenant = t /\ c.customer = customer
                   /\ c.channel = channel /\ c.status \in OpenOrAssigned}
  IN  {c \in active : \A d \in active : d.updated_at <= c.updated_at}

GetOrCreateCustomer(r, t, external) ==
  LET known == {c \in customers : c.tenant = t /\ c.external = external}
  IN  IF known # {} THEN known
                    ELSE {[id |-> r, tenant |-> t, external |-> external]}

MutantStatusNotSaved(loaded, row) ==
  {[row EXCEPT !.status = loaded.status, !.updated_at = now]}

\* gorm's Save writes every column of the row as it was read and changed in
\* memory, and takes the foreign key of a preloaded association from the
\* association: an agent that was loaded with the row replaces whatever the
\* caller put in assigned_agent_id.
SaveConversation(loaded, row) ==
  {[row EXCEPT !.updated_at = now,
               !.assigned_agent_id = IF loaded.assigned_agent_id = NoOne
                                     THEN @ ELSE loaded.assigned_agent_id]}

DomainEvents(r, t, entity, types) ==
  {[request |-> r, type |-> type, tenant |-> t, entity |-> entity] :
     type \in types}

MutantNoTicketKey(w) ==
  \A old \in customers, row \in w.customers :
    old.tenant = row.tenant /\ old.external = row.external => old.id = row.id
MutantNoCustomerKey(w) ==
  \A old \in tickets, row \in w.tickets :
    old.conversation = row.conversation => old.id = row.id

\* uk_customers_tenant_external and uk_tickets_conversation
UniqueKeysAllow(w) ==
  /\ \A old \in customers, row \in w.customers :
       old.tenant = row.tenant /\ old.external = row.external
         => old.id = row.id
  /\ \A old \in tickets, row \in w.tickets :
       old.conversation = row.conversation => old.id = row.id

MutantEscalateBumpsTickets(op) ==
  IF op \in {"escalate", "status"} THEN <<"tickets">> ELSE <<"conversations">>
MutantListMisnamed(op) ==
  IF op \in {"escalate", "status"} THEN <<"ticket">> ELSE <<"conversations">>

\* The version counters an operation bumps, in order, after its commit.
BumpsOf(op) ==
  CASE op = "escalate" -> <<"conversations", "tickets">>
    [] op = "status"   -> <<"tickets">>
    [] OTHER           -> <<"conversations">>

-----------------------------------------------------------------------------
(* The demo data *)

DemoConversations ==
  {[id |-> d.id, tenant |-> TenantOf[d.channel], customer |-> d.id,
    channel |-> d.channel, assigned_agent_id |-> d.agent,
    status |-> IF d.agent = NoOne THEN "open" ELSE "assigned",
    updated_at |-> now] : d \in Demo}

DemoTickets ==
  {[id |-> d.id, tenant |-> TenantOf[d.channel], conversation |-> d.id,
    status |-> "in_progress", assigned_agent_id |-> d.agent] :
      d \in {e \in Demo : e.agent # NoOne}}

Init ==
  /\ now = 0
  /\ customers = {[id |-> d.id, tenant |-> TenantOf[d.channel],
                   external |-> d.external] : d \in Demo}
  /\ conversations = DemoConversations
  /\ messages = {}
  /\ tickets = DemoTickets
  /\ outbox = {}
  /\ version = [t \in Tenants |-> [l \in Lists |-> 1]]
  /\ pc = [r \in Requests |-> "idle"]
  /\ call = [r \in Requests |-> NoCall]
  /\ tx = [r \in Requests |-> NoWrites]
  /\ bumps = [r \in Requests |-> <<>>]

-----------------------------------------------------------------------------
(* A request: Begin, then Commit or Abort, then its Bumps. *)

\* WithinTransaction takes a connection of the pool and opens a transaction;
\* the reads of w are those of the current state.  The clock may go on while it
\* is open; how late it is matters to no other step.
Begin(r, c, w) ==
  /\ pc[r] = "idle"
  /\ Cardinality({q \in Requests : pc[q] = "tx"}) < MaxOpenConns
  /\ pc' = [pc EXCEPT ![r] = "tx"]
  /\ call' = [call EXCEPT ![r] = c]
  /\ tx' = [tx EXCEPT ![r] = w]
  /\ bumps' = [bumps EXCEPT ![r] = BumpsOf(c.op)]
  /\ now' \in now..MaxSecond
  /\ UNCHANGED <<tables, version>>

HandleWebhook(r, channel, external) ==
  LET t == TenantOf[channel]
  IN  \E customer \in GetOrCreateCustomer(r, t, external) :
        LET active == FindActiveConversation(t, customer.id, channel)
            new == [id |-> r, tenant |-> t, customer |-> customer.id,
                    channel |-> channel, status |-> "open",
                    assigned_agent_id |-> NoOne, updated_at |-> now]
            created == IF active = {} THEN {"conversation.created"} ELSE {}
        IN  \E c \in IF active = {} THEN {new} ELSE active :
              Begin(r, [op |-> "webhook", tenant |-> t,
                        conversation |-> c.id, agent |-> NoOne],
                    [NoWrites EXCEPT
                       !.customers = {customer},
                       !.conversations = SaveConversation(c, c),
                       !.messages = {[id |-> r, conversation |-> c.id,
                                      sender |-> NoOne]},
                       !.outbox = DomainEvents(r, t, c.id,
                         {"channel.message.received"} \cup created)])

MutantOpenToClosed(c, agent) == c.assigned_agent_id \in {NoOne, agent}
MutantOpenToAll(c, agent) == c.status # "closed"

\* What reply and escalate ask of the conversation.
OpenTo(c, agent) ==
  c.status # "closed" /\ c.assigned_agent_id \in {NoOne, agent}

MutantTakenStatusKept(c, agent) ==
  IF c.assigned_agent_id = NoOne
  THEN [c EXCEPT !.assigned_agent_id = agent] ELSE c
MutantNotTaken(c, agent) == c

\* The row with the agent put in when it has none: what reply and escalate do.
TakenBy(c, agent) ==
  IF c.assigned_agent_id = NoOne
  THEN [c EXCEPT !.assigned_agent_id = agent, !.status = "assigned"]
  ELSE c

AssignConversation(r, actor, i, agent) ==
  LET t == TenantOf[actor]
  IN  /\ RoleOf[actor] = "admin"
      /\ RoleOf[agent] = "agent" /\ TenantOf[agent] = t
      /\ \E c \in GetConversationByID(t, i) :
           /\ c.status # "closed"
           /\ Begin(r, [op |-> "assign", tenant |-> t, conversation |-> i,
                        agent |-> agent],
                    [NoWrites EXCEPT
                       !.conversations = SaveConversation(c,
                         [c EXCEPT !.assigned_agent_id = agent,
                                   !.status = "assigned"]),
                       !.outbox = DomainEvents(r, t, i,
                         {"conversation.assigned"})])

ReplyToConversation(r, agent, i) ==
  LET t == TenantOf[agent]
  IN  /\ RoleOf[agent] = "agent"
      /\ \E c \in GetConversationByID(t, i) :
           /\ OpenTo(c, agent)
           /\ Begin(r, [op |-> "reply", tenant |-> t, conversation |-> i,
                        agent |-> agent],
                    [NoWrites EXCEPT
                       !.conversations = SaveConversation(c, TakenBy(c, agent)),
                       !.messages = {[id |-> r, conversation |-> i,
                                      sender |-> agent]},
                       !.outbox = DomainEvents(r, t, i,
                         {"conversation.replied"})])

\* Closing a closed conversation succeeds and writes nothing.
CloseConversation(r, actor, i) ==
  LET t == TenantOf[actor]
  IN  \E c \in GetConversationByID(t, i) :
        /\ RoleOf[actor] = "agent" => c.assigned_agent_id = actor
        /\ Begin(r, [op |-> "close", tenant |-> t, conversation |-> i,
                     agent |-> actor],
                 IF c.status = "closed" THEN NoWrites
                 ELSE [NoWrites EXCEPT
                         !.conversations = SaveConversation(c,
                           [c EXCEPT !.status = "closed"]),
                         !.outbox = DomainEvents(r, t, i,
                           {"conversation.closed"})])

EscalateConversation(r, agent, i) ==
  LET t == TenantOf[agent]
  IN  /\ RoleOf[agent] = "agent"
      /\ \E c \in GetConversationByID(t, i) :
           /\ OpenTo(c, agent)
           /\ FindTicketByConversation(t, i) = {}
           /\ Begin(r, [op |-> "escalate", tenant |-> t, conversation |-> i,
                        agent |-> agent],
                    [NoWrites EXCEPT
                       !.conversations =
                         IF c.assigned_agent_id = NoOne
                         THEN SaveConversation(c, TakenBy(c, agent)) ELSE {},
                       !.tickets =
                         {[id |-> r, tenant |-> t, conversation |-> i,
                           status |-> "open", assigned_agent_id |-> agent]},
                       !.outbox =
                         DomainEvents(r, t, i, {"conversation.escalated"})
                           \cup DomainEvents(r, t, r, {"ticket.created"})])

UpdateStatus(r, actor, ticket, status) ==
  LET t == TenantOf[actor]
  IN  /\ RoleOf[actor] = "admin"
      /\ ticket.tenant = t
      /\ Begin(r, [op |-> "status", tenant |-> t,
                   conversation |-> ticket.conversation, agent |-> NoOne],
               [NoWrites EXCEPT
                  !.tickets = {[ticket EXCEPT !.status = status]},
                  !.outbox = DomainEvents(r, t, ticket.id,
                    {"ticket.status.updated"})])

Commit(r) ==
  LET w == tx[r]
  IN  /\ pc[r] = "tx"
      /\ UniqueKeysAllow(w)
      /\ customers' = Upsert(customers, w.customers)
      /\ \E second \in 0..now :
           \* updated_at is read off the clock between Begin and Commit
           /\ \A row \in w.conversations : row.updated_at <= second
           /\ conversations' = Upsert(conversations,
                {[row EXCEPT !.updated_at = second] : row \in w.conversations})
      /\ messages' = messages \cup w.messages
      /\ tickets' = Upsert(tickets, w.tickets)
      /\ outbox' = outbox \cup w.outbox
      /\ pc' = [pc EXCEPT ![r] = "committed"]
      /\ tx' = [tx EXCEPT ![r] = NoWrites]
      /\ UNCHANGED <<version, now, call, bumps>>

\* BumpVersion is an INCR whose error is ignored; after the last the request
\* is answered.
Bump(r) ==
  /\ pc[r] = "committed"
  /\ \/ version' = [version EXCEPT ![call[r].tenant][Head(bumps[r])] = @ + 1]
     \/ UNCHANGED version
  /\ bumps' = [bumps EXCEPT ![r] = Tail(@)]
  /\ IF Tail(bumps[r]) # <<>> THEN UNCHANGED <<pc, call>>
     ELSE /\ pc' = [pc EXCEPT ![r] = "done"]
          /\ call' = [call EXCEPT ![r] = NoCall]
  /\ UNCHANGED <<tables, now, tx>>

\* The requests in who end in an error, or with the process, unanswered.
Fail(who) ==
  /\ pc' = [r \in Requests |-> IF r \in who THEN "failed" ELSE pc[r]]
  /\ call' = [r \in Requests |-> IF r \in who THEN NoCall ELSE call[r]]
  /\ tx' = [r \in Requests |-> IF r \in who THEN NoWrites ELSE tx[r]]
  /\ bumps' = [r \in Requests |-> IF r \in who THEN <<>> ELSE bumps[r]]
  /\ UNCHANGED <<tables, version, now>>

\* Rejected by a check before the transaction or by a guard inside it.
Reject(r) == pc[r] = "idle" /\ Fail({r})

\* Events written outside the transaction survive it.
MutantEventsOutsideTx(r) ==
  /\ pc[r] = "tx"
  /\ pc' = [pc EXCEPT ![r] = "failed"]
  /\ call' = [call EXCEPT ![r] = NoCall]
  /\ tx' = [tx EXCEPT ![r] = NoWrites]
  /\ bumps' = [bumps EXCEPT ![r] = <<>>]
  /\ outbox' = outbox \cup tx[r].outbox
  /\ UNCHANGED <<customers, conversations, messages, tickets, version, now>>

\* Any statement of the transaction fails (a duplicate key, a deadlock, a
\* lost connection): the transaction is rolled back and not tried again.
Abort(r) == pc[r] = "tx" /\ Fail({r})

\* The API process dies: the open transactions are rolled back, the version
\* counters it still had to bump are not.
Crash ==
  LET alive == {r \in Requests : pc[r] \in {"tx", "committed"}}
  IN  alive # {} /\ Fail(alive)

\* LoadDemoData (make seed, or a restart in development) writes the demo rows
\* back over whatever became of them, table by table, each statement a
\* transaction of its own: no event tells of it and no list is invalidated.
ReseedConversations ==
  /\ Reseeding
  /\ conversations' = Upsert(conversations, DemoConversations)
  /\ UNCHANGED <<customers, messages, tickets, outbox, version, now, pc, call,
                 tx, bumps>>

ReseedTickets ==
  /\ Reseeding
  /\ tickets' = Upsert(tickets, DemoTickets)
  /\ UNCHANGED <<customers, conversations, messages, outbox, version, now, pc,
                 call, tx, bumps>>

AllAnswered ==
  /\ \A r \in Requests : pc[r] \in {"done", "failed"}
  /\ UNCHANGED vars

\* The routes that write, with the caller's tenant and role taken from the
\* token and the ids it names unchecked.
Operation(r) ==
  \/ \E channel \in Channels, external \in Externals :
       HandleWebhook(r, channel, external)
  \/ \E actor \in Users, agent \in Users, i \in Ids :
       AssignConversation(r, actor, i, agent)
  \/ \E agent \in Users, i \in Ids : ReplyToConversation(r, agent, i)
  \/ \E actor \in Users, i \in Ids : CloseConversation(r, actor, i)
  \/ \E agent \in Users, i \in Ids : EscalateConversation(r, agent, i)
  \/ \E actor \in Users, ticket \in tickets, status \in TicketStatus :
       UpdateStatus(r, actor, ticket, status)

Next ==
  \/ \E r \in Requests : Operation(r) \/ Commit(r) \/ Bump(r) \/ Reject(r)
                          \/ Abort(r)
  \/ Crash
  \/ ReseedConversations
  \/ ReseedTickets
  \/ AllAnswered

Spec == Init /\ [][Next]_vars

-----------------------------------------------------------------------------
(* What holds under any interleaving *)

\* Every variable has its type.
TypeOK ==
  /\ customers \subseteq Customer
  /\ conversations \subseteq Conversation
  /\ messages \subseteq Message
  /\ tickets \subseteq Ticket
  /\ outbox \subseteq Event
  /\ version \in [Tenants -> [Lists -> Nat]]
  /\ now \in Nat
  /\ pc \in [Requests -> {"idle", "tx", "committed", "done", "failed"}]
  /\ call \in [Requests -> Call \cup {NoCall}]
  /\ tx \in [Requests -> Writes]
  /\ bumps \in [Requests -> Seq(Lists)]

\* Status and agent are two columns that four operations write from rows that
\* may be stale; whichever writes last, an open conversation has no agent and
\* an assigned one has one.
StatusAgreesWithAgent ==
  \A c \in conversations :
    /\ c.status = "open" => c.assigned_agent_id = NoOne
    /\ c.status = "assigned" => c.assigned_agent_id # NoOne

ServesTenant(agent, t) == agent \in Agents /\ TenantOf[agent] = t

\* No row leads to a row of another tenant: a conversation's channel, customer
\* and agent, a ticket's conversation and agent and the author of a reply are
\* of the tenant of the row, and only agents are assigned or reply, whatever
\* ids of other tenants the requests name.
TenantIsolation ==
  /\ \A c \in conversations :
       /\ TenantOf[c.channel] = c.tenant
       /\ \E x \in customers : x.id = c.customer /\ x.tenant = c.tenant
       /\ c.assigned_agent_id = NoOne \/ ServesTenant(c.assigned_agent_id, c.tenant)
  /\ \A k \in tickets :
       /\ \E c \in conversations : c.id = k.conversation /\ c.tenant = k.tenant
       /\ ServesTenant(k.assigned_agent_id, k.tenant)
  /\ \A m \in messages : \E c \in conversations :
       /\ c.id = m.conversation
       /\ m.sender = NoOne \/ ServesTenant(m.sender, c.tenant)

\* Two webhooks that both find no customer insert it once: the second insert
\* meets uk_customers_tenant_external and its request fails.
OneCustomerPerExternalID ==
  \A x, y \in customers :
    x.tenant = y.tenant /\ x.external = y.external => x.id = y.id

\* Two escalations that both find no ticket create one: the check before the
\* insert sees its own snapshot only, uk_tickets_conversation settles it.
OneTicketPerConversation ==
  \A k, l \in tickets : k.conversation = l.conversation => k.id = l.id

HasEvent(r, type, entity) ==
  \E e \in outbox : e.request = r /\ e.type = type /\ e.entity = entity

\* The activity log and the outbox tell what the other tables show, nothing
\* less and nothing more: each message, conversation and ticket made by a
\* request has its events, and each such event its row.
AuditTrail ==
  /\ \A m \in messages :
       HasEvent(m.id, IF m.sender = NoOne THEN "channel.message.received"
                      ELSE "conversation.replied", m.conversation)
  /\ \A c \in conversations :
       c.id \in Requests => HasEvent(c.id, "conversation.created", c.id)
  /\ \A k \in tickets : k.id \in Requests =>
       /\ HasEvent(k.id, "ticket.created", k.id)
       /\ HasEvent(k.id, "conversation.escalated", k.conversation)
  /\ \A e \in outbox :
       /\ e.type \in {"channel.message.received", "conversation.replied"} =>
            \E m \in messages : m.id = e.request /\ m.conversation = e.entity
       /\ e.type = "conversation.created" =>
            \E c \in conversations : c.id = e.request
       /\ e.type \in {"conversation.escalated", "ticket.created"} =>
            \E k \in tickets : k.id = e.request
  /\ \A c \in conversations :
       c.status = "closed" =>
         \E e \in outbox : e.type = "conversation.closed" /\ e.entity = c.id

Commits(r) == pc[r] = "tx" /\ pc'[r] = "committed"

\* Whatever happened since it read the conversation, when an agent's reply or
\* close commits, that agent is the one the conversation is assigned to.
ActingAgentIsAssignee ==
  [][\A r \in Requests :
       /\ Commits(r) /\ tx[r].conversations # {}
       /\ call[r].op \in {"reply", "close"} /\ call[r].agent \in Agents
       => \A c \in conversations' : c.id = call[r].conversation =>
            c.assigned_agent_id = call[r].agent]_vars

RowsOf(t, table) == {row \in table : row.tenant = t}

Owed(t, list) ==
  \E r \in Requests :
    /\ pc[r] = "committed" /\ call[r].tenant = t
    /\ \E n \in 1..Len(bumps[r]) : bumps[r][n] = list

\* A commit that changes what a tenant's conversation or ticket list shows
\* still has that list's version counter to bump: no change a request makes to
\* a list goes without its invalidation, unless the process dies in between.
\* (Loading the demo data again is no request, and invalidates nothing.)
ListChangesAreOwedABump ==
  [][pc' # pc => \A t \in Tenants :
       /\ RowsOf(t, conversations)' # RowsOf(t, conversations)
            => Owed(t, "conversations")'
       /\ RowsOf(t, tickets)' # RowsOf(t, tickets) => Owed(t, "tickets")']_vars

-----------------------------------------------------------------------------
(* What the API's description says of it, and overlapping transactions or   *)
(* one sequence of requests break; ConversationDesk says what is left.      *)

\* A customer has at most one active conversation on a channel: a webhook
\* reuses it.
OneActiveConversation ==
  \A c, d \in conversations :
    /\ c.status \in OpenOrAssigned /\ d.status \in OpenOrAssigned
    /\ c.customer = d.customer /\ c.channel = d.channel
    => c.id = d.id

\* A conversation that was closed is closed for good: it is not assigned,
\* replied to or reopened by a message that was under way.
ClosedStaysClosed ==
  \A e \in outbox, c \in conversations :
    e.type = "conversation.closed" /\ e.entity = c.id => c.status = "closed"

\* An assignment that succeeds leaves the conversation with the agent the
\* admin chose.
AssignTakesEffect ==
  [][\A r \in Requests :
       Commits(r) /\ call[r].op = "assign" =>
         \E c \in conversations' : c.id = call[r].conversation
                                   /\ c.assigned_agent_id = call[r].agent]_vars

=============================================================================
