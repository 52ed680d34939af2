------------------------------ MODULE ListCache ------------------------------
(***************************************************************************)
(* The versioned cache of one list of one tenant: ListConversations or     *)
(* ListTickets for one filter, the writes that bump the list's version     *)
(* counter, and the Redis that holds the counter and the cached pages.     *)
(*                                                                         *)
(* The table is the number of writes committed to it; what a page shows is *)
(* how many of them its count and its rows have seen.  Every Redis command *)
(* and every query is a step of its own, so that requests interleave       *)
(* between any two.                                                        *)
(***************************************************************************)
EXTENDS Naturals, FiniteSets

CONSTANTS
  Writers,    \* the write requests, each handled once
  Readers,    \* the list requests, each handled over and over
  Cold,       \* TRUE: Redis holds no counter at the start
  MaxFaults   \* bound on failed commands and Redis restarts

ASSUME ConstantsAssumption == Cold \in BOOLEAN /\ MaxFaults \in Nat

Absent == 0   \* redis.Nil, of which INCR makes 1

\* The counter starts at 1 and each write bumps it once.
Versions == 1..Cardinality(Writers) + 1

VARIABLES
  table,           \* the writes committed
  counter,         \* the version counter
  cached,          \* the cached pages, by version
  wpc, wrote,      \* each writer's step, and the table its commit made
  rpc, key, page,  \* each reader's step, version and page
  acked,           \* the last write whose request has bumped and is answered
  floor,           \* acked when the reader came
  faults

redis == <<counter, cached>>
writers == <<table, wpc, wrote, acked>>
readers == <<rpc, key, page, floor>>
vars == <<redis, writers, readers, faults>>

Page == [total : Nat, rows : Nat]

\* Every variable has its type, and no version is cached twice.
TypeOK ==
  /\ table \in Nat /\ acked \in Nat /\ counter \in Nat /\ faults \in Nat
  /\ cached \subseteq [version : Nat, page : Page]
  /\ \A d, e \in cached : d.version = e.version => d = e
  /\ wpc \in [Writers -> {"idle", "committed", "answered"}]
  /\ wrote \in [Writers -> Nat]
  /\ rpc \in [Readers -> {"idle", "init", "get", "count", "find", "set",
                          "answered"}]
  /\ key \in [Readers -> Nat] /\ page \in [Readers -> Page]
  /\ floor \in [Readers -> Nat]

Init ==
  /\ table = 0 /\ acked = 0 /\ faults = 0
  /\ counter = (IF Cold THEN Absent ELSE 1)
  /\ cached = {}
  /\ wpc = [w \in Writers |-> "idle"] /\ wrote = [w \in Writers |-> 0]
  /\ rpc = [r \in Readers |-> "idle"] /\ key = [r \in Readers |-> 1]
  /\ page = [r \in Readers |-> [total |-> 0, rows |-> 0]]
  /\ floor = [r \in Readers |-> 0]

Fault == faults < MaxFaults /\ faults' = faults + 1
NoFault == UNCHANGED faults

-----------------------------------------------------------------------------
(* A write: its transaction commits, then it bumps the counter. *)

CommitWrite(w) ==
  /\ wpc[w] = "idle"
  /\ table' = table + 1
  /\ wpc' = [wpc EXCEPT ![w] = "committed"]
  /\ wrote' = [wrote EXCEPT ![w] = table + 1]
  /\ UNCHANGED <<redis, acked, readers, faults>>

\* An INCR whose error is ignored; the request is answered either way.
BumpVersion(w) ==
  /\ wpc[w] = "committed"
  /\ \/ counter' = counter + 1 /\ NoFault
     \/ UNCHANGED counter /\ Fault
  /\ wpc' = [wpc EXCEPT ![w] = "answered"]
  /\ acked' = IF wrote[w] > acked THEN wrote[w] ELSE acked
  /\ UNCHANGED <<cached, table, wrote, readers>>

-----------------------------------------------------------------------------
(* A list request *)

At(r, from, to) == rpc[r] = from /\ rpc' = [rpc EXCEPT ![r] = to]

\* The GET of Version: a missing counter leads to its SET, an error to 1.
Version(r) ==
  /\ rpc[r] \in {"idle", "answered"}
  /\ floor' = [floor EXCEPT ![r] = acked]
  /\ \/ /\ counter # Absent /\ NoFault
        /\ rpc' = [rpc EXCEPT ![r] = "get"]
        /\ key' = [key EXCEPT ![r] = counter]
     \/ /\ counter = Absent /\ NoFault
        /\ rpc' = [rpc EXCEPT ![r] = "init"]
        /\ key' = [key EXCEPT ![r] = 1]
     \/ /\ Fault
        /\ rpc' = [rpc EXCEPT ![r] = "get"]
        /\ key' = [key EXCEPT ![r] = 1]
  /\ UNCHANGED <<redis, writers, page>>

\* The SET of Version: it writes 1 whatever the counter is by now.
InitVersion(r) ==
  /\ At(r, "init", "get")
  /\ \/ counter' = 1 /\ NoFault
     \/ UNCHANGED counter /\ Fault
  /\ UNCHANGED <<cached, writers, key, page, floor>>

Hits(r) == {e \in cached : e.version = key[r]}

\* A hit is answered as it is; a miss and an error go to the database.
GetJSON(r) ==
  /\ \/ \E e \in Hits(r) : /\ At(r, "get", "answered") /\ NoFault
                           /\ page' = [page EXCEPT ![r] = e.page]
     \/ /\ At(r, "get", "count")
        /\ (Hits(r) = {} /\ NoFault) \/ Fault
        /\ UNCHANGED page
  /\ UNCHANGED <<redis, writers, key, floor>>

\* The count and the rows are two queries outside any transaction.
CountRows(r) ==
  /\ At(r, "count", "find")
  /\ page' = [page EXCEPT ![r].total = table]
  /\ UNCHANGED <<redis, writers, key, floor, faults>>

FindRows(r) ==
  /\ At(r, "find", "set")
  /\ page' = [page EXCEPT ![r].rows = table]
  /\ UNCHANGED <<redis, writers, key, floor, faults>>

MutantKeyReadAgain(r) ==
  /\ At(r, "set", "answered") /\ NoFault
  /\ cached' = {e \in cached : e.version # counter}
                 \cup {[version |-> counter, page |-> page[r]]}
  /\ UNCHANGED <<counter, writers, key, page, floor>>

MutantNotReplaced(r) ==
  /\ At(r, "set", "answered") /\ NoFault
  /\ cached' = cached \cup {[version |-> key[r], page |-> page[r]]}
  /\ UNCHANGED <<counter, writers, key, page, floor>>

\* The page is stored under the version that was read before the queries.
SetJSON(r) ==
  /\ At(r, "set", "answered")
  /\ \/ /\ cached' = {e \in cached : e.version # key[r]}
                       \cup {[version |-> key[r], page |-> page[r]]}
        /\ NoFault
     \/ UNCHANGED cached /\ Fault
  /\ UNCHANGED <<counter, writers, key, page, floor>>

-----------------------------------------------------------------------------
(* Redis *)

MutantNoTTL(v) == FALSE /\ UNCHANGED vars

\* A page lives five minutes, counters have no TTL.
Expire(v) ==
  /\ \E e \in cached : e.version = v /\ cached' = cached \ {e}
  /\ UNCHANGED <<counter, writers, readers, faults>>

\* A restart that loses what Redis held.
RestartRedis ==
  /\ counter' = Absent /\ cached' = {}
  /\ Fault
  /\ UNCHANGED <<writers, readers>>

Next ==
  \/ \E w \in Writers : CommitWrite(w) \/ BumpVersion(w)
  \/ \E r \in Readers : \/ Version(r) \/ InitVersion(r) \/ GetJSON(r)
                        \/ CountRows(r) \/ FindRows(r) \/ SetJSON(r)
  \/ \E v \in Versions : Expire(v)
  \/ RestartRedis

Spec == Init /\ [][Next]_vars

\* Redis expires what has a TTL; no request is obliged to come or to go on.
FairSpec == Spec /\ \A v \in Versions : WF_vars(Expire(v))

-----------------------------------------------------------------------------
\* While no Redis command fails and the counter is not lost, a list that is
\* asked for after a write was answered shows that write: neither a page
\* cached before it nor one queried before it and stored after it is served.
FreshReads ==
  faults = 0 => \A r \in Readers :
    rpc[r] = "answered" => page[r].total >= floor[r] /\ page[r].rows >= floor[r]

\* Whatever failed and whatever Redis lost, no page stays wrong: once the
\* writes end, the cache comes to hold pages of the table as it is, and only
\* those.
StalePagesExpire ==
  <>[](\A e \in cached : e.page = [total |-> table, rows |-> table])

=============================================================================
