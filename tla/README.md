# Sociomile, specified in TLA+

Sociomile is a multi-tenant support desk: customers write on a channel, agents
answer, escalate to tickets and close. A Go API (`backend/cmd/api`) works on MySQL
through gorm, caches lists and counts webhooks in Redis and writes its events to an
outbox table; a Go worker (`backend/cmd/worker`) publishes the outbox to RabbitMQ; a
React frontend (`frontend/`) shows conversations and tickets. This directory holds
TLA+ models of the parts that run concurrently, the TLC runs that check them and
TLAPS proofs about them.

## 1. Inventory

| Component | State | Operations | What makes it hard | What makes it correct |
|---|---|---|---|---|
| Conversation and ticket services, store (`internal/service`, `internal/repository`) | MySQL tables customers, conversations, messages, tickets, activity_logs, outbox_events | webhook, assign, reply, close, escalate, update status; each one transaction, then cache bumps | REPEATABLE READ snapshots without locks, whole-row saves, unique keys on some rules only, crashes between commit and bump | tenants are isolated, one agent, one ticket, one active conversation, closed is final, events and rows agree, lists are invalidated |
| Demo data (`seeds`) | rows with fixed ids | upsert at a start in development and by `make seed` | runs again under the services' transactions, table by table, tells nobody | does not make rows disagree |
| Outbox worker (`cmd/worker`, `internal/events`) | published_at and failed_at of each row, one AMQP connection, the current batch | dial, poll, publish, mark, stop | kill between publish and mark, cancelled context in mid-batch, no confirms, no second dial | nothing is marked unsent, everything is delivered, duplicates only by a fault |
| List cache (`internal/cache`, list operations) | a version counter per tenant and list, cached pages with a TTL | Version, GetJSON, query, SetJSON; BumpVersion | every Redis command interleaves with writers; errors are ignored; Redis persists nothing | a list shows the writes answered before it; staleness ends with the TTL |
| Webhook rate limit (`CheckRateLimit`, `AllowWebhook`) | a counter with TTL per tenant and address | INCR, EXPIRE | two commands, lost replies, fail-open | bounded admission, the limit lifts |
| Migrations (`internal/platform/database.go`) | schema_migrations, the tables | ApplyMigrations in API and worker | check, DDL (commits implicitly) and insert by two processes that may be killed | who gets past them works on the whole schema, and both get past them |
| Health (`internal/health`) | the heartbeat key | record in front of batches, Snapshot | long batches, Redis restarts, TTL | says online only of a worker that runs |
| Workspace status (`frontend/src/lib/workspace-status.tsx`) | the snapshot shown | the effect, which each snapshot runs again; its interval; visibility and network events | checks follow from one another, overlap and are answered in any order, and nothing gives them up | what is shown is so, soon |
| Session (`lib/auth.tsx`, `ProtectedRoute`, `LoginPage`) | token and user in localStorage | login, logout, redirect, reload | answers of one session arrive in the next | logout forgets |
| List and detail pages (`features/*`, `AnimatedOutlet`, `lib/api.ts`) | rows, record, loading flags, the page on the screen, its stage and the timer that swaps it | loads, actions, escalation, filters, navigation, fade | answers out of order, navigation during requests and fades, pages that stay mounted, answers that navigate | the page is the address's, can be seen and shows what was asked for last |
| Authentication (`internal/auth`, middleware) | none: the token holds role and tenant | login, check, roles | a token outlives changes to its user | role and tenant are the caller's |
| Config, logging, responses, user list | none after start | | | |

The services call the store inside `WithinTransaction`, the cache after it. The
outbox table is the only channel from the API to the worker. The list operations
share the counters with the services. The worker reports to the API's health
endpoint through Redis, and the frontend checks that endpoint. The pages call the
services' routes with the session's token.

## 2. Modules

```
SupportDesk          what the services promise, one operation at a time
Conversations        services + store + schema + demo data, requests interleaved
  ConversationsProofs  <- AuditProofs (extends it),  MCConversations
ConversationDesk     Conversations against SupportDesk, watching who overtakes whom
  DeskProofs,  MCConversationDesk
EventDelivery        what the outbox promises its consumers
OutboxWorker         worker + publisher + broker;  OutboxWorkerProofs, MCOutboxWorker
ListCache            versioned cache of one list;  ListCacheProofs, MCListCache
RateLimit            the webhook's limit;          RateLimitProofs, MCRateLimit
Migrations  Heartbeat  WorkspaceStatus             composed by
Deployment           API + worker + Redis + a tab; DeploymentProofs, MCDeployment
Pages                a tab: its session and pages;  PagesProofs, MCPages
```

Operators named `Mutant...` stand next to a definition they could be mistaken for: a
plausible bug in the same code. No specification uses them; putting one in the place
of its definition makes TLC report the property named with it in `PROJECT.json`.

### Conversations

A table is a set of rows (records); the row a request inserts is named by the
request, since a request inserts at most one row into each table and the code's ids
are random. Texts, titles, priorities and names are left out, and so are the
messages of the demo data, which no operation looks at.

* `Begin` is `WithinTransaction` up to the reads: under REPEATABLE READ all plain
  SELECTs see the state at the first of them, so the reads and the computation of
  the writes are one step, whose result is kept in `tx`. Guards and early returns of
  the operation are conjuncts of the operation's action.
  The clock, up to `MaxSecond`, may go on while a transaction is open; only the order
  of the times in `updated_at` matters.
* `Commit` makes the writes visible; `UniqueKeysAllow` is the two unique keys.
  `Abort` is any failing statement (a duplicate key, a deadlock, a lost connection).
  The pool's size, `MaxOpenConns`, bounds the open transactions.
* `SaveConversation` is gorm's `Save`: all columns of the row as read, and the
  foreign key re-derived from a preloaded `AssignedAgent`. This is external code,
  modelled from how `store.go` uses it.
* `Bump` is one `INCR` whose error is ignored. `Crash` takes the process down with
  all open requests: transactions are rolled back, owed bumps are lost.
* `Operation` is the routing table: role and tenant are the token's, ids named in a
  request are arbitrary.
* `ReseedConversations` and `ReseedTickets` are the two statements of `LoadDemoData`
  that write over columns the services changed, each a transaction of its own and
  possible at any time while `Reseeding`. Its other statements write back what no
  operation changes.

### SupportDesk and ConversationDesk

`SupportDesk` is what the services' checks and `openapi.yaml` promise, one operation
at a time: a message opens a conversation only on a thread (customer and channel)
that has no active one, an agent replies to and escalates what is free or the
agent's own, an admin assigns any active conversation to anybody, and closed is
final. `Conversations` does not implement it. No read locks a row, so a transaction
may be overtaken: `SaveConversation` then writes back a row another commit has
changed, and a webhook inserts beside a conversation it could not see. The demo data
resets rows at any time. `ConversationDesk` says how far this reaches. It adds two
history variables, kept by `Watch`, which constrains nothing:

* `overtaken`: the open transactions for which a commit or a reload has changed the
  conversation they read, or has changed one on the thread they are opening one on.
  A commit that changes what the desk shows of a row counts; one that only moves
  `updated_at` does not.
* `raced`: the threads that were changed by an overtaken commit or by a reload.

`ImplementsDesk` maps the tables to the desk, a row for a conversation, and exempts
only the commits of overtaken transactions and reloads. In it a desk step may also
be a stutter, as in any refinement, so it cannot show that an operation takes
effect: `CommitsPerform` says which one each commit that was not overtaken is, for
the request's conversation and its caller. Its disjunct for assignment names the one
known deviation: of a conversation another agent holds it changes nothing, which the
run `reassign` reports. `OneActiveUnlessRaced` and `ClosedUnlessRaced` bound the
damage of overtaken commits: it stays on the threads they touched, also for the
requests that come later.

### OutboxWorker

`pc` is the position in `run`: dialing, idle in the `select`, and, for the row at
the head of `batch`, before `Publish` or before one of the two marks. `link` is the
connection `waitForPublisher` made, which only a new process makes again. `Publish`
puts the event on the `wire`; the broker takes it from there some time later.
SIGTERM only cancels the context: the batch goes on, the marks fail. After SIGKILL
what was written to the socket still arrives. The `attempts` column is written and
never read, `failed` stands for both. `created_at` is the time of the insert, so a
late commit may put a row behind younger ones that are published already; the code
promises no order of events. `EventDelivery` is what is left to promise: commit,
send, mark, in this order for each event, and no send after the mark. `Delivery`
maps `published` to its marks and the history variable `sent` to what was handed
over.

### ListCache

The table is counted, not stored: a page is what its count and its rows have seen of
the committed writes. One list under one filter is modelled, other filters have keys
of their own and share only the counter. `floor[r]` is a history variable: the last
write that was answered when the reader came.

### RateLimit

One key. Above `Limit + 1` counts are equal for the code and are one value. `recent`
is a history variable: how many were let in during the last n ticks, for each n up
to `Window`. `Increment` and `Expire` are separate, `Crash` may fall between.

### Deployment: Migrations, Heartbeat, WorkspaceStatus

`Migrations` runs `ApplyMigrations` statement by statement in the API and the
worker. The code wraps a file in a transaction, but each CREATE TABLE commits on its
own, so a kill leaves the tables made so far and a file that is not registered; of
two processes that apply the same file, the second fails on the primary key of
`schema_migrations`, exits and is started again.

`Heartbeat` is the worker's loop seen by the health endpoint: recorded after dialing
and in front of each batch, expiring after `TTL` intervals, lost with Redis. Time
goes by in intervals of 5 s, the period of the worker's ticker and of the frontend's
interval, so the 20 s of the key are 4; the order within an interval is open.
`Snapshot` is `Reporter.Snapshot`. The clocks of API and worker are taken to agree.

`WorkspaceStatus` is the provider in the browser. Its effect depends on
`checkWorkspaceStatus`, which comes from `useEffectEvent`; in React 19.2.4, the
locked version, that is a new function after each rendering. So every `setSnapshot`
(each makes a new object) renders and has the effect run again: `unrendered`, then
`RunEffect`. The effect checks at once, in a hidden tab too, and starts its interval
anew. Lines 34 and 128 read as one check in five seconds of a visible tab; what
happens is that each check's outcome, right or wrong, makes the next. Hence

* offline the loop goes on without a request, since a check then sets the offline
  state itself (`SetSnapshot(OfflineState)`, `unrendered` again);
* each check of `Poll`, `Show` or `GoOnline` is one more chain that feeds the
  effect, and checks overlap and are answered in any order. `Checks` are the
  requests that may be under way at once; a step that would need one more waits;
* `GoOffline` gives up nothing: a check whose answer is in, or comes all the same,
  shows it afterwards (`Deliver`, or `DeliverHeader` when its body is cut off),
  until the loop, which runs on, sets the offline state again;
* `Poll`, the interval's own check, is rare: a check ends within 4 s and its outcome
  restarts the interval, so it fires only in front of a rendering that is due;
* `Translate`: another language renders the provider too.

`Pass` ends an interval. In a visible tab every check of the interval before has
ended by then (`outlived`: they are given up after 4 s) and effects have run;
browsers hold back the timers of a hidden tab, so there nothing is assumed. The
effects that `StrictMode` runs twice in development, and the toast on reconnection,
are left out.

`Deployment` composes them: the worker's loop runs once it is past its migrations, a
kill of the API loses the checks it has not answered, an interval passes for all at
once. `calm` is a history variable: the intervals of a visible tab since the last
disturbance. Disturbances are a step of a start, a kill, a heartbeat not recorded,
Redis going or coming, the browser going offline or online, half an answer, a check
that fails although API and Redis can be reached, and a batch that lasts as long as
the TTL. What a tab may claim is claimed after `StatusSettles` = 3 and
`WorkerSettles` = TTL + 3 calm intervals, which are the least (with 2 or TTL + 2 TLC
finds a check of the interval before that is still to end). While Redis cannot be
reached the health endpoint may take longer than the tab waits, so that status is
claimed only with Redis up. A worker that the broker cut off goes on with its
heartbeats and is shown online: it runs, and `outbox_broker_restart` shows what that
is worth.

### Pages

One tab. `address` is the router's location and `view` the page that is mounted.
`AnimatedOutlet` swaps them: its effect puts the page into the stage `exit` and sets
a timer with the page to come (`FadeOut`, `fadingTo`), and the timer shows that page
(`Settle`). Another pathname runs the cleanup, which clears the timer, and the
effect again; if it is the pathname of the page that is fading, the effect does
nothing, and the page stays in `exit`, which `motion.css` makes invisible and out of
the pointer's reach. `returned` is a history variable: the address came back to the
page while it was fading. The stage after a swap, `enter`, and `idle` look alike and
are one (`"shown"`); the shortcut for reduced motion is left out. The outlet that
fades keeps the route parameters of its own page, while search parameters are those
of the address of the moment (`Filter`).

A render and its effects are two steps: React flushes the effects of a render before
the next one, so `pending` guards all that renders again, and `RunEffects` compares
the dependencies with those the effect last ran for (`asked`). What comes in waits
for them too, the timer included: React may run the effects of a navigation in a
task of their own, and that a timer of the browser gets in between, a moment after
the rendering, is left out. It would show the page of the former address for one
more fade. A list's effect sets the `cancelled` flag of its request, which stays
under way and is ignored when it is answered (`live`); a detail page cancels none,
and stays the same instance from one record to the next. Its effect depends on
`navigate`, which React Router renews with the pathname, hence the reload while it
fades. The answers to an unmounted detail page show nothing any more, but its load
that fails still navigates to the list (`DetailFails`), and its escalation that
succeeds to the tickets (`Escalated`; it sets no record). `LoginAnswered` includes
`navigate("/")`: only microtasks are between. `loggedOut` and `outOfOrder` are
history variables: tokens somebody logged out with, and whether what is shown came
after the answer to a newer request.

Both lists are modelled, that of the tickets without filters. The detail page is a
conversation's; a ticket's has the same code with the lists exchanged and nothing to
escalate. Forms, pagination and the select boxes' agents are left out.

## 3. Runs

| Run | Instance | Shows |
|---|---|---|
| `races` | 3 requests, pool of 3, 2 tenants with 3 users and 1 user, a customer each, 2 demo conversations, reseeding at any time, ids of either tenant in every request | under any overlap: status agrees with agent; one ticket; one customer per external id, first contacts included; tenants are isolated; events agree with rows; the acting agent is the assignee when its reply or close commits; each list change owes its bump |
| `overtaking` | 3 requests, pool of 3, clock 0..1, 1 tenant, an admin and 2 agents, 2 customers, an open demo conversation, reseeding at any time | the desk is left only by commits that were overtaken and by reloads; every other commit does what its request asked for; a second active conversation or a closed one that is open needs an overtaken commit or a reload on its own thread |
| `duplicate` (violation) | 3 requests, pool of 2 | two active conversations of one customer on one channel |
| `reopened` (violation) | 2 requests, pool of 2 | a closed conversation is written back open or assigned |
| `reassign` (violation) | 2 requests, pool of 1 | assigning an assigned conversation has no effect |
| `outbox` | 3 events, batches of 2, 2 faults of any kind, clock 0..1 | marks and sends agree, as EventDelivery has them; every event is published and arrives, unless the broker cut the worker off |
| `outbox_broker_restart` (violation) | 2 events, 1 broker restart | nothing is published after it |
| `cache` | 2 writers, 2 readers, warm, 1 fault | freshness before a fault, and that staleness ends after one |
| `cache_cold` (violation) | 2 writers, 2 readers, cold, no fault | Version undoes an INCR |
| `rate_limit` | 3 requests, limit 2, window of 3 ticks, 2 faults | admission, keys without TTL, and that the limit lifts |
| `deployment` | 1 file of 2 tables, 1 kill of a process on its way up until both are up again and any number of others, TTL 3, batches up to 4 intervals, 2 checks under way | whoever gets past the migrations has the whole schema, and both do; what the tab shows of API and worker is so after 3 and 6 calm intervals |
| `pages` | 1 user, 2 records, 2 filters, 2 logins, the user waits at 2 requests | lists show what is asked for now; a wrong record on a detail page needs an overtaking; logout forgets; loading ends; a swap is to the address of the moment; the address's page is shown, and can be seen unless the user came back to it while it faded |

Why these bounds are enough to be interesting. Every race in Conversations is
between two transactions on a row; three requests allow a third operation to prepare
the state (assign, then two replies) or a third competitor, and the demo data starts
them in the middle of a history (an open, an assigned and an escalated
conversation). The clock matters only for the order of `updated_at`: two seconds
give all orders, and `races`, where reseeding multiplies the states, does with one,
since rows of one second come in every order. The VIEW of `races` and `overtaking`
leaves out `version`, which no step of a request reads; none of their properties but
`TypeOK` mentions it.

In the cache two readers suffice for one to undo what another relies on, two writers
for the counter to pass a slow reader between any two of its commands; the fault may
be a Redis restart, after which the instance is cold. In the worker a batch of two
of three rows exercises the limit and the rest of a batch; two faults allow a fault
during recovery from a fault. The repository has one migration file; with two tables
either process may find it half done, and the proof is for any number of files and
tables. Two checks under way overlap and pass one another; a third adds a chain that
does what they do, and the proofs are for any number. A TTL of 3 and batches of 4
have batches shorter and longer than the key lives. In a tab two records, two
filters and two logins are one change of each. Pages tell sessions apart by their
token, and the records of another tenant only take answers away, while any request
may fail; so a second user would add nothing. At two requests the user waits,
redirects and effects add up to two more.

`MaxFaults`, `MaxKills`, `MaxSecond`, `MaxBatch`, `MaxLogins`, `MaxRequests` and
`MaxOpenConns` are the only bounds of the models; the proofs are for all values.
Requests are interchangeable, and so are the two agents of `overtaking`, hence the
symmetry sets in the runs of Conversations, whose properties are invariants and
steps. So are the checks of `deployment`, and neither its fairness nor
`EventuallyReady`, its one liveness property, mentions them: both are about
migrations, which a permutation of checks leaves alone. No other run with a liveness
property uses symmetry, and none a VIEW.

The pool of the code has 20 connections (`platform/database.go:48`). Nothing that is
checked or proved assumes one; `reassign` has one because its finding needs no
overlap. What the code's own checks promise (one active conversation, closed is
final) does not hold of it: `duplicate` and `reopened` are the counterexamples, and
`overtaking` checks what is left of the promise. What holds with overlapping
transactions without exception is checked in `races`.

Fairness. In OutboxWorker: the loop and its ticker go on, the container is restarted
when it exits (`docker-compose.yml:98`), the broker comes back and takes what is on
the wire. Failures are bounded, the API is not obliged to commit anything. In
ListCache only `Expire` is fair: Redis expires keys. In RateLimit time passes and a
request between INCR and EXPIRE goes on or fails. In Deployment a container that is
down is started (`restart: unless-stopped`) and a process that migrates gets on;
nothing obliges the broker to let the worker connect, or a check to be answered. In
Pages renders and fetches come to an end, with an answer or an error; fairness of
`Settle` is strong, because it waits for the effects of each render while its timer
runs on: only another pathname restarts that. The user owes nothing. Conversations
needs no fairness: all its properties are safety.

## 4. Findings

1. **Two active conversations** (`duplicate`). `FindActiveConversation` does not
   lock and no unique key covers customer and channel.
2. **Closed conversations come back** (`reopened`). `SaveConversation` writes the
   status it read.
3. **Reassignment has no effect** (`reassign`). The row is loaded with
   `Preload("AssignedAgent")`; gorm's `Save` restores the old foreign key. Needs no
   concurrency; the tests assign only unassigned conversations.
4. **A broker restart stops delivery** (`outbox_broker_restart`). The worker neither
   dials again nor exits.
5. **Counters set back** (`cache_cold`). `Version`'s SET on a missing counter is not
   conditional (no SETNX).

The worker asks for no publisher confirms, so an event on the wire when the broker
goes down is lost although its row is marked; `ArrivesUnlessCutOff` therefore
excepts it.

Behaviour the models show and no doc or test contradicts, so that no run calls it
wrong: loading the demo data again opens closed demo conversations and resets their
tickets; the answer for a former record stays on a detail page when it comes last
(`outOfOrder`), and replies then go to the record of the address; the failing load
of a detail page the user has left takes the user to the list, and its escalation to
the tickets; a list whose load failed keeps the rows of the former filter; an
expired token does not log out; a page that the user comes back to while it fades
out stays in the stage `exit`, invisible, until another is shown (`returned`, which
`AddressIsShown` excepts; without the exception TLC finds it); health checks follow
one another without a pause, in hidden tabs too, and while the browser is offline
the provider renders without end.

## 5. Proofs

All theorems are for arbitrary constants that satisfy the modules' named assumptions
(`ConstantsAssumption`, `DemoAssumption`, `ThreadAssumption`,
`DeploymentAssumption`, `PagesAssumption`), which TLC evaluates in the runs.

* `ConversationsProofs`. The invariant `IInv` says that the tables are sound (keys
  are unique, references lead to rows of the same tenant, status agrees with agent)
  and that what every open transaction will write fits (`Fits`): it may be stale,
  but each of its rows is of the transaction's tenant, refers to rows that are there
  or come with it, and has a status that agrees with its agent. Rows are never
  deleted and never change tenant, customer or channel, so `Fits` survives the
  commits of others; this is why the properties hold although the reads are stale.
  `SeedsKept` adds that the demo rows are still there under their keys, so that
  loading them again replaces and never adds. Theorems: `TypeCorrect`,
  `StatusAgreement`, `TenantsIsolated`, `CustomersUnique`, `TicketsUnique`.
* `AuditProofs`. `Prepared` says of each open transaction that its events account
  for its rows and no others, that it will bump the lists it changes, and that a
  reply or close writes its agent's row. It mentions no table, so no other request
  can disturb it, and a commit turns it into `AuditTrail`. Theorems: `Audited`,
  `ActsAsAssignee`, `ChangesOweBumps`.
* `DeskProofs`, for any number of connections and with reseeding. The invariant
  `DInv` says of every open transaction that what it found is still so, or it is
  overtaken (`Underway`): `Current` gives its writes relative to the tables of the
  moment, either a row on a thread without an active one (`Opens`) or what was asked
  of one row that is still as it was read (`Asked`, `Rewrites`). Another commit
  either leaves that row as it shows, or `Watch` puts the transaction among the
  overtaken. With `Kept` (rows of closed conversations and of tickets stay) and
  `Timely` (no row is of the future, so the latest active row exists and a webhook
  that finds none may open one) the two rules follow: an overtaken commit or a
  reload marks the threads it changes, and one that was not overtaken cannot break
  them. Theorems: `DeskInvariance`, `OneActive`, `ClosedForGood`. `DeskShows` then
  describes the refinement mapping row by row, without its CHOOSE; a commit changes
  the desk at one conversation. Theorems: `InTimePerforms`, that each commit that
  was not overtaken is the desk's operation its request asked for; and `Refinement`,
  that Conversations implements SupportDesk but for overtaken commits and reloads.
* `OutboxWorkerProofs`. The batch holds unmarked rows, each once; what it holds was
  sent at most as often as there were faults before it was read, one less while a
  SIGTERM is pending (that fault still excuses one unmarked send). Theorems:
  `TypeCorrect`, `PublishedSent`, `Duplicates`, `FailedPending`, and `Refinement`,
  that OutboxWorker implements EventDelivery: that the batch holds unmarked rows is
  what keeps a stale read from sending a marked one.
* `ListCacheProofs`. All that is read or cached under one version belongs to the
  same acknowledged write, and pages of the current version are as new as the last
  one; the invariant is conditional on `faults = 0`, and a step that ends without
  faults is not a fault. Theorems: `TypeCorrect`, and `Freshness`, which assumes a
  warm start (`~Cold`): `cache_cold` shows that it is needed.
* `RateLimitProofs`. While nothing has failed, a key without a TTL has a request
  that will set it; no TTL is kept at 0. For the admissions, a request between INCR
  and EXPIRE counts as let in already (`Waits`). What was let in since the TTL was
  set is bounded by the key's count, up to the limit, plus a limit for each fault
  (`KeyInv`). When the key expires, the span since its TTL was set is the whole
  window, and its first tick, in which the request that set it was let in, falls out
  of it (`SetterInv`): less than a limit is left to the next key. A request may wait
  for a key that is not its own only after a fault (`WaitingInv`). Requests need not
  be finitely many. Theorems: `TypeCorrect`, `NeverStuckByItself`,
  `AdmissionBounded`.
* `DeploymentProofs`. `SchemaInv`: registered files have all their tables, and a
  process at statement n of file f has found or made the files before f and the
  tables before n. Kills take a process back to the start and tables only come.
  Theorem: `SchemaReady`. `TabInv` is about time as `calm` counts it. The tab never
  stops checking: either the effect has to run or a check is under way whose outcome
  will make it (`AlwaysInv`). In a batch the heartbeat is as old as the batch,
  unless the batch is older than the last disturbance, and that of a worker that is
  gone grows old with the calm (`BeatInv`). A check made after an interval of calm
  is not lost and finds the API; one made after TTL + 1 is told the truth about the
  worker (`CheckInv`), and such a check is made in each interval and over in the
  next, whichever chain it belongs to, after which nothing older is under way that
  could be shown over it (`ShownInv`). Theorems: `TypeCorrect`; `StatusSettled`, for
  3 <= StatusSettles; `WorkerSettled`, for 2 <= TTL and TTL + 3 <= WorkerSettles;
  all for any number of checks under way. The hypotheses are the claim: the code
  names no time after which its display is right, and TLC refutes both properties
  one interval earlier. The code's values (a TTL of four intervals) satisfy them.
* `PagesProofs`. Whatever is live on a list was asked for by the last run of its
  effect, and what it shows too, unless an answer is still to come (`ListInv`). On a
  detail page either the load of the last run is still under way, with nothing newer
  answered (`LastLoad`), or it was answered, and nothing came after it but what was
  asked for since or what is known to be late (`Answered`). A page that is mounted
  has nothing live, whatever stays under way; logging out mounts the login page.
  Once the effects have run the timer is set for the address of the moment, if that
  is not on the screen, and not set if it is (`OutletInv`). `RoomInv` counts the
  requests that renders can still add beyond those at which the user waits.
  Theorems: `TypeCorrect`, `ListsShowWhatIsAsked`, `OnlyAnOvertakingMisleads`,
  `LogoutForgotten`, `SwapsAreToTheAddress`.

Flags of the code are Boolean variables; their type is an invariant of its own
(`Flags`) where the SMT solver cannot carry it.

With these, every invariant that a passing run checks is proved, and so are the
action properties and the two refinements. Only model-checked are the liveness
properties: `PublishedUnlessCutOff`, `ArrivesUnlessCutOff`, `StalePagesExpire`,
`LimitLifts`, `EventuallyReady`, `LoadingEnds`, `AddressIsShown` (fairness and
ENABLED are out of the prover's reach).

## 6. Not modelled, and what could come next

Not modelled: deadlocks of row locks in MySQL (they appear as `Abort`; that of two
transactions one always gets on is MySQL's), messages a broker refuses, several
worker replicas (the deployment has one), deactivated users (no operation of the
code sets `active`), clock skew between API and worker, several tabs that share a
localStorage, pagination, forms, the select boxes' agents, dictionaries, theme and
the update monitor, the shortcut of `AnimatedOutlet` for reduced motion, the doubled
effects of `StrictMode`, the toast on reconnection, and the components of
`PROJECT.json` marked so: the user list is one query over rows nothing writes,
configuration, logging and responses keep no state.

What could come next:

1. A composition of Conversations with OutboxWorker, from a commit to its arrival at
   the broker, and of Conversations with ListCache, that the services' bumps are the
   cache's. `ListChangesAreOwedABump` and `AuditTrail` are the two interfaces as
   they stand.
2. A model of row locks, to replace `Abort` by the deadlocks that can happen, and to
   check a repair: which locks of the services' reads leave nothing overtaken.
3. Pages with several tabs, and list pagination against a reference definition.
