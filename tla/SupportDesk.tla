----------------------------- MODULE SupportDesk -----------------------------
(***************************************************************************)
(* What the conversation and ticket services promise, one operation at a   *)
(* time: a conversation is opened on a thread (a customer on a channel)    *)
(* that has no other active one; it is worked on by the agent who holds it *)
(* and by nobody else, but an admin may give it to another; closed, it     *)
(* stays closed; and it carries at most one ticket.                        *)
(***************************************************************************)
CONSTANTS
  Ids,           \* conversations, opened or not
  Threads,       \* a customer on a channel
  Agents,
  Admins,
  NoOne,
  TicketStatus

VARIABLES
  status,  \* of each conversation; "none" before it is opened
  thread,  \* the thread of each conversation
  holder,  \* its agent
  ticket   \* the status of its ticket; "none" when it has none

vars == <<status, thread, holder, ticket>>

Active == {i \in Ids : status[i] \in {"open", "assigned"}}

\* A conversation that exists at the start is active, and has a ticket only
\* when it has an agent.
Init ==
  /\ status \in [Ids -> {"none", "open", "assigned"}]
  /\ thread \in [Ids -> Threads \cup {NoOne}]
  /\ holder \in [Ids -> Agents \cup {NoOne}]
  /\ ticket \in [Ids -> TicketStatus \cup {"none"}]
  /\ \A i \in Ids :
       /\ (status[i] = "assigned") = (holder[i] # NoOne)
       /\ (status[i] = "none") = (thread[i] = NoOne)
       /\ holder[i] = NoOne => ticket[i] = "none"
  /\ \A i, j \in Active : thread[i] = thread[j] => i = j

\* A message of the customer opens a conversation, or goes to the active one.
Open(i, th) ==
  /\ status[i] = "none"
  /\ \A j \in Active : thread[j] # th
  /\ status' = [status EXCEPT ![i] = "open"]
  /\ thread' = [thread EXCEPT ![i] = th]
  /\ UNCHANGED <<holder, ticket>>

Receive(i) == i \in Active /\ UNCHANGED vars

\* An admin gives the conversation to an agent, whoever holds it.
Assign(i, agent) ==
  /\ i \in Active
  /\ status' = [status EXCEPT ![i] = "assigned"]
  /\ holder' = [holder EXCEPT ![i] = agent]
  /\ UNCHANGED <<thread, ticket>>

\* An agent replies to a conversation that is free, and so takes it, or its own.
Reply(i, agent) ==
  /\ holder[i] \in {NoOne, agent}
  /\ Assign(i, agent)

\* Its agent closes it, or an admin; once more does nothing.
Close(i, actor) ==
  /\ status[i] # "none"
  /\ actor \in Admins \/ holder[i] = actor
  /\ status' = [status EXCEPT ![i] = "closed"]
  /\ UNCHANGED <<thread, holder, ticket>>

Escalate(i, agent) ==
  /\ i \in Active
  /\ holder[i] \in {NoOne, agent}
  /\ ticket[i] = "none"
  /\ status' = [status EXCEPT ![i] = "assigned"]
  /\ holder' = [holder EXCEPT ![i] = agent]
  /\ ticket' = [ticket EXCEPT ![i] = "open"]
  /\ UNCHANGED thread

Triage(i, s) ==
  /\ ticket[i] # "none"
  /\ ticket' = [ticket EXCEPT ![i] = s]
  /\ UNCHANGED <<status, thread, holder>>

Next ==
  \E i \in Ids :
    \/ \E th \in Threads : Open(i, th)
    \/ Receive(i)
    \/ \E agent \in Agents : Assign(i, agent) \/ Reply(i, agent) \/ Escalate(i, agent)
    \/ \E actor \in Agents \cup Admins : Close(i, actor)
    \/ \E s \in TicketStatus : Triage(i, s)

Spec == Init /\ [][Next]_vars

=============================================================================
