--------------------------- MODULE ListCacheProofs ---------------------------
(***************************************************************************)
(* FreshReads for any number of writers and readers.  Its induction rests  *)
(* on what a version stands for: all that is read or cached under one      *)
(* version was queried after the same acknowledged write, and a page of    *)
(* the current version after the last one.                                 *)
(***************************************************************************)
EXTENDS ListCache, TLAPS

Came(r) == rpc[r] # "idle"

CounterSound ==
  /\ counter >= 1
  /\ acked <= table
  /\ \A w \in Writers : wrote[w] <= table

KeysSound ==
  \A r \in Readers :
    /\ rpc[r] # "init"
    /\ Came(r) => /\ key[r] <= counter
                  /\ floor[r] <= acked
                  /\ key[r] = counter => floor[r] = acked

OneFloorPerKey ==
  \A q, r \in Readers : Came(q) /\ Came(r) /\ key[q] = key[r] => floor[q] = floor[r]

CacheSound ==
  \A e \in cached :
    /\ e.version <= counter
    /\ e.version = counter => e.page.total >= acked /\ e.page.rows >= acked
    /\ \A r \in Readers : Came(r) /\ key[r] = e.version =>
         e.page.total >= floor[r] /\ e.page.rows >= floor[r]

PagesSound ==
  \A r \in Readers :
    /\ rpc[r] \in {"find", "set", "answered"} => page[r].total >= floor[r]
    /\ rpc[r] \in {"set", "answered"} => page[r].rows >= floor[r]

Sound == CounterSound /\ KeysSound /\ OneFloorPerKey /\ CacheSound /\ PagesSound

IInv == TypeOK /\ (faults = 0 => Sound)

\* The types, and that SetJSON keeps one page a version.
LEMMA TypeInductive == TypeOK /\ [Next]_vars => TypeOK'
<1> SUFFICES ASSUME TypeOK, [Next]_vars PROVE TypeOK'
  OBVIOUS
<1> USE DEF TypeOK, Page
<1>1. CASE UNCHANGED vars
  BY <1>1 DEF vars, redis, writers, readers
<1>2. ASSUME NEW w \in Writers, CommitWrite(w) PROVE TypeOK'
  BY <1>2 DEF CommitWrite, redis, readers
<1>3. ASSUME NEW w \in Writers, BumpVersion(w) PROVE TypeOK'
  BY <1>3, ConstantsAssumption DEF BumpVersion, readers, Fault, NoFault
<1>4. ASSUME NEW r \in Readers, Version(r) PROVE TypeOK'
  <2>1. /\ floor' = [floor EXCEPT ![r] = acked]
        /\ key' \in [Readers -> Nat]
        /\ rpc' \in {[rpc EXCEPT ![r] = "get"], [rpc EXCEPT ![r] = "init"]}
    BY <1>4 DEF Version
  <2>2. UNCHANGED <<redis, writers, page>> /\ faults' \in Nat
    BY <1>4 DEF Version, Fault, NoFault
  <2> QED
    BY <2>1, <2>2 DEF redis, writers
<1>5. ASSUME NEW r \in Readers, InitVersion(r) PROVE TypeOK'
  <2>1. rpc' = [rpc EXCEPT ![r] = "get"] /\ counter' \in {1, counter}
    BY <1>5 DEF InitVersion, At
  <2>2. UNCHANGED <<cached, writers, key, page, floor>> /\ faults' \in Nat
    BY <1>5 DEF InitVersion, Fault, NoFault
  <2> QED
    BY <2>1, <2>2 DEF writers
<1>6. ASSUME NEW r \in Readers, GetJSON(r) PROVE TypeOK'
  <2>1. UNCHANGED <<redis, writers, key, floor>> /\ faults' \in Nat
    BY <1>6 DEF GetJSON, Fault, NoFault
  <2>2. page' \in [Readers -> Page]
    BY <1>6 DEF GetJSON, Hits
  <2>3. rpc' \in {[rpc EXCEPT ![r] = "answered"], [rpc EXCEPT ![r] = "count"]}
    BY <1>6 DEF GetJSON, At
  <2> QED
    BY <2>1, <2>2, <2>3 DEF redis, writers
<1>7. ASSUME NEW r \in Readers, CountRows(r) PROVE TypeOK'
  BY <1>7 DEF CountRows, At, redis, writers
<1>8. ASSUME NEW r \in Readers, FindRows(r) PROVE TypeOK'
  BY <1>8 DEF FindRows, At, redis, writers
<1>9. ASSUME NEW r \in Readers, SetJSON(r) PROVE TypeOK'
  BY <1>9, ConstantsAssumption DEF SetJSON, At, writers, Fault, NoFault
<1>10. ASSUME NEW v \in Versions, Expire(v) PROVE TypeOK'
  BY <1>10 DEF Expire, writers, readers
<1>11. ASSUME RestartRedis PROVE TypeOK'
  BY <1>11, ConstantsAssumption DEF RestartRedis, Absent, writers, readers, Fault
<1> QED
  BY <1>1, <1>2, <1>3, <1>4, <1>5, <1>6, <1>7, <1>8, <1>9, <1>10, <1>11 DEF Next

\* A step after which there was no fault is one of these, and not a fault.
LEMMA FaultsCount ==
  ASSUME TypeOK, [Next]_vars, faults' = 0 PROVE faults = 0 /\ ~Fault
BY DEF TypeOK, Next, vars, Fault, NoFault, CommitWrite, BumpVersion, Version,
       InitVersion, GetJSON, CountRows, FindRows, SetJSON, Expire, RestartRedis

LEMMA SoundInductive ==
  ASSUME TypeOK, TypeOK', [Next]_vars, faults' = 0, Sound PROVE Sound'
<1>0. ~Fault
  BY FaultsCount
<1> USE <1>0 DEF TypeOK, Page, Sound, CounterSound, KeysSound, OneFloorPerKey,
                 CacheSound, PagesSound, Came
<1>1. CASE UNCHANGED vars
  BY <1>1 DEF vars, redis, writers, readers
<1>2. ASSUME NEW w \in Writers, CommitWrite(w) PROVE Sound'
  BY <1>2 DEF CommitWrite, redis, readers
<1>3. ASSUME NEW w \in Writers, BumpVersion(w) PROVE Sound'
  <2>1. counter' = counter + 1 /\ acked' >= acked
    BY <1>3 DEF BumpVersion
  <2>2. UNCHANGED <<cached, table, wrote, readers>>
    BY <1>3 DEF BumpVersion
  <2>3. CounterSound'
    BY <1>3, <2>1, <2>2 DEF BumpVersion
  <2>4. KeysSound' /\ OneFloorPerKey' /\ CacheSound' /\ PagesSound'
    BY <2>1, <2>2 DEF readers
  <2> QED
    BY <2>3, <2>4
<1>4. ASSUME NEW r \in Readers, Version(r) PROVE Sound'
  <2>1. key' = [key EXCEPT ![r] = counter] /\ floor' = [floor EXCEPT ![r] = acked]
    BY <1>4 DEF Version, Absent
  <2>2. rpc' = [rpc EXCEPT ![r] = "get"]
    BY <1>4 DEF Version, Absent
  <2>3. UNCHANGED <<redis, writers, page>>
    BY <1>4 DEF Version
  <2>4. CounterSound' /\ KeysSound' /\ OneFloorPerKey' /\ PagesSound'
    BY <2>1, <2>2, <2>3 DEF redis, writers
  <2>5. CacheSound'
    BY <2>1, <2>2, <2>3 DEF redis, writers
  <2> QED
    BY <2>4, <2>5
<1>5. ASSUME NEW r \in Readers, InitVersion(r) PROVE Sound'
  BY <1>5 DEF InitVersion, At
<1>6. ASSUME NEW r \in Readers, GetJSON(r) PROVE Sound'
  <2>1. UNCHANGED <<redis, writers, key, floor>>
    BY <1>6 DEF GetJSON
  <2>2. rpc[r] = "get" /\ rpc' \in {[rpc EXCEPT ![r] = "answered"],
                                   [rpc EXCEPT ![r] = "count"]}
    BY <1>6 DEF GetJSON, At
  <2>3. CounterSound' /\ KeysSound' /\ OneFloorPerKey' /\ CacheSound'
    BY <2>1, <2>2 DEF redis, writers
  <2>4. PagesSound'
    BY <1>6, <2>1 DEF GetJSON, At, Hits
  <2> QED
    BY <2>3, <2>4
<1>7. ASSUME NEW r \in Readers, CountRows(r) PROVE Sound'
  BY <1>7 DEF CountRows, At, redis, writers
<1>8. ASSUME NEW r \in Readers, FindRows(r) PROVE Sound'
  BY <1>8 DEF FindRows, At, redis, writers
<1>9. ASSUME NEW r \in Readers, SetJSON(r) PROVE Sound'
  <2>1. cached' \subseteq cached \cup {[version |-> key[r], page |-> page[r]]}
    BY <1>9 DEF SetJSON
  <2>2. rpc[r] = "set" /\ rpc' = [rpc EXCEPT ![r] = "answered"]
    BY <1>9 DEF SetJSON, At
  <2>3. UNCHANGED <<counter, writers, key, page, floor>>
    BY <1>9 DEF SetJSON
  <2>4. CounterSound' /\ KeysSound' /\ OneFloorPerKey' /\ PagesSound'
    BY <2>2, <2>3 DEF writers
  <2>5. CacheSound'
    BY <2>1, <2>2, <2>3 DEF writers
  <2> QED
    BY <2>4, <2>5
<1>10. ASSUME NEW v \in Versions, Expire(v) PROVE Sound'
  BY <1>10 DEF Expire, writers, readers
<1>11. ASSUME RestartRedis PROVE Sound'
  BY <1>11 DEF RestartRedis
<1> QED
  BY <1>1, <1>2, <1>3, <1>4, <1>5, <1>6, <1>7, <1>8, <1>9, <1>10, <1>11 DEF Next

\* Every variable keeps its type and no version has two pages, whatever fails.
THEOREM TypeCorrect == Spec => []TypeOK
<1>1. Init => TypeOK
  BY DEF Init, TypeOK, Page, Absent
<1>2. TypeOK /\ [Next]_vars => TypeOK'
  BY TypeInductive
<1> QED
  BY <1>1, <1>2, PTL DEF Spec

\* While no Redis command fails and Redis starts with the counter, a list
\* asked for after a write was answered shows that write.
THEOREM Freshness == ASSUME ~Cold PROVE Spec => []FreshReads
<1>1. Init => IInv
  BY ConstantsAssumption DEF Init, IInv, TypeOK, Page, Absent, Sound, CounterSound,
     KeysSound, OneFloorPerKey, CacheSound, PagesSound, Came
<1>2. IInv /\ [Next]_vars => IInv'
  BY TypeInductive, FaultsCount, SoundInductive DEF IInv
<1>3. IInv => FreshReads
  BY DEF IInv, Sound, PagesSound, FreshReads
<1> QED
  BY <1>1, <1>2, <1>3, PTL DEF Spec

=============================================================================
