------------------------------ MODULE Migrations ------------------------------
(***************************************************************************)
(* ApplyMigrations, which the API and the worker both run when they start. *)
(*                                                                         *)
(* A migration file is a list of CREATE TABLE IF NOT EXISTS statements.    *)
(* Each of them commits on its own, although the code wraps the file in a  *)
(* transaction: a process that dies half way leaves the tables made so     *)
(* far.  The last step of a file inserts its name into schema_migrations,  *)
(* whose primary key refuses a name that is there: of two processes that   *)
(* both found the file missing, the second fails and exits, and its        *)
(* container is started again.                                             *)
(***************************************************************************)
EXTENDS Naturals, FiniteSets

CONSTANTS
  Processes,  \* the processes that migrate when they start
  Files,      \* how many migration files there are, in the order of their names
  Tables,     \* how many tables a file creates
  MaxKills    \* bound on the kills of processes on their way up, until both are

MigrationsConstants == Files \in Nat /\ Tables \in Nat /\ MaxKills \in Nat

VARIABLES
  created,     \* the tables that exist: those of file f are <<f, 1>>, <<f, 2>>...
  registered,  \* the rows of schema_migrations
  stage,       \* whether a process is down, migrating or past its migrations
  file,        \* the file a migrating process is at
  statement,   \* its next statement: 0 the SELECT, Tables + 1 the INSERT
  kills        \* of processes on their way up, since both were up

vars == <<created, registered, stage, file, statement, kills>>

Init ==
  /\ created = {}
  /\ registered = {}
  /\ stage = [p \in Processes |-> "down"]
  /\ file = [p \in Processes |-> 1]
  /\ statement = [p \in Processes |-> 0]
  /\ kills = 0

-----------------------------------------------------------------------------
\* The count of kills starts anew when both are past their migrations.
SpareKills == kills' = IF \A p \in Processes : stage'[p] = "ready" THEN 0 ELSE kills

MutantStopsEarly(p, f) ==
  /\ file' = [file EXCEPT ![p] = f]
  /\ statement' = [statement EXCEPT ![p] = 0]
  /\ stage' = [stage EXCEPT ![p] = IF f < Files THEN "migrating" ELSE "ready"]
  /\ SpareKills
MutantStopsLate(p, f) ==
  /\ file' = [file EXCEPT ![p] = f]
  /\ statement' = [statement EXCEPT ![p] = 0]
  /\ stage' = [stage EXCEPT ![p] = IF f <= Files + 1 THEN "migrating" ELSE "ready"]
  /\ SpareKills

\* The process goes on with file f, or is past its migrations.
GoTo(p, f) ==
  /\ file' = [file EXCEPT ![p] = f]
  /\ statement' = [statement EXCEPT ![p] = 0]
  /\ stage' = [stage EXCEPT ![p] = IF f <= Files THEN "migrating" ELSE "ready"]
  /\ SpareKills

Down(p) ==
  /\ stage' = [stage EXCEPT ![p] = "down"]
  /\ file' = [file EXCEPT ![p] = 1]
  /\ statement' = [statement EXCEPT ![p] = 0]

\* The container is started, for the first time or again.
Start(p) ==
  /\ stage[p] = "down"
  /\ GoTo(p, 1)
  /\ UNCHANGED <<created, registered>>

\* Whether the file is applied is read once, before its statements.
Check(p) ==
  /\ stage[p] = "migrating" /\ statement[p] = 0
  /\ IF file[p] \in registered
     THEN GoTo(p, file[p] + 1)
     ELSE /\ statement' = [statement EXCEPT ![p] = 1]
          /\ UNCHANGED <<stage, file, kills>>
  /\ UNCHANGED <<created, registered>>

MutantCreateTable(p) ==
  /\ stage[p] = "migrating" /\ statement[p] \in 1..Tables
  /\ IF <<file[p], statement[p]>> \in created
     THEN Down(p) /\ UNCHANGED created
     ELSE /\ created' = created \cup {<<file[p], statement[p]>>}
          /\ statement' = [statement EXCEPT ![p] = @ + 1]
          /\ UNCHANGED <<stage, file>>
  /\ UNCHANGED <<registered, kills>>

CreateTable(p) ==
  /\ stage[p] = "migrating" /\ statement[p] \in 1..Tables
  /\ created' = created \cup {<<file[p], statement[p]>>}
  /\ statement' = [statement EXCEPT ![p] = @ + 1]
  /\ UNCHANGED <<registered, stage, file, kills>>

\* A name that is registered by now is a duplicate key: the process exits.
Register(p) ==
  /\ stage[p] = "migrating" /\ statement[p] = Tables + 1
  /\ registered' = registered \cup {file[p]}
  /\ IF file[p] \in registered THEN Down(p) /\ UNCHANGED kills
     ELSE GoTo(p, file[p] + 1)
  /\ UNCHANGED created

\* A process dies or exits on an error at any time; the statements of its file
\* the server already has may still be run.
Kill(p) ==
  /\ stage[p] # "down"
  /\ IF stage[p] = "ready" THEN UNCHANGED kills
     ELSE kills < MaxKills /\ kills' = kills + 1
  /\ \/ UNCHANGED created
     \/ /\ stage[p] = "migrating" /\ statement[p] > 0
        /\ \E last \in statement[p]..Tables :
             created' = created \cup {<<file[p], n>> : n \in statement[p]..last}
  /\ Down(p)
  /\ UNCHANGED registered

Migrate(p) == Start(p) \/ Check(p) \/ CreateTable(p) \/ Register(p)

Next == \E p \in Processes : Migrate(p) \/ Kill(p)

\* docker-compose's restart: unless-stopped, and a process that is running
\* gets on.
Fairness == \A p \in Processes : WF_vars(Migrate(p))

Spec == Init /\ [][Next]_vars /\ Fairness

-----------------------------------------------------------------------------
TypeOK ==
  /\ created \subseteq (1..Files) \X (1..Tables)
  /\ registered \subseteq 1..Files
  /\ stage \in [Processes -> {"down", "migrating", "ready"}]
  /\ file \in [Processes -> 1..Files + 1]
  /\ statement \in [Processes -> 0..Tables + 1]
  /\ kills \in 0..MaxKills

\* A process that got past ApplyMigrations, with or without applying anything
\* itself, works on the whole schema: a file that another process is still
\* applying is not taken for applied.
ReadyMeansMigrated ==
  \A p \in Processes : stage[p] = "ready" =>
    /\ registered = 1..Files
    /\ created = (1..Files) \X (1..Tables)

\* However often a process loses the registration to another or dies between
\* a table and its registration, it gets past its migrations again.
EventuallyReady == \A p \in Processes : []<>(stage[p] = "ready")

=============================================================================
