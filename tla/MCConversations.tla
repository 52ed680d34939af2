--------------------------- MODULE MCConversations ---------------------------
(* Conversations on small instances. *)
EXTENDS Conversations, TLC

CONSTANTS r1, r2, r3, t1, t2, whatsapp, whatsapp2, admin,
          aaron, ada, gina, lena, rafi, d1, d2

\* One tenant, two agents.
OneTenant == {t1}
OneChannel == {whatsapp}
Staff == {admin, aaron, ada}
StaffTenant == [x \in Staff \cup OneChannel |-> t1]
StaffRole == [u \in Staff |-> IF u = admin THEN "admin" ELSE "agent"]
OneCustomer == {lena}
OpenDemo ==
  {[id |-> d1, channel |-> whatsapp, external |-> lena, agent |-> NoOne]}

\* Two tenants, each with a channel and agents; the demo data has
\* an open conversation in one and an assigned, escalated one in the other.
TwoTenants == {t1, t2}
TwoChannels == {whatsapp, whatsapp2}
AllStaff == Staff \cup {gina}
AllTenantOf ==
  [x \in AllStaff \cup TwoChannels |->
     IF x \in OneChannel \cup Staff THEN t1 ELSE t2]
AllRoleOf == [u \in AllStaff |-> IF u = admin THEN "admin" ELSE "agent"]
TwoDemos ==
  {[id |-> d1, channel |-> whatsapp, external |-> lena, agent |-> NoOne],
   [id |-> d2, channel |-> whatsapp2, external |-> rafi, agent |-> gina]}
TwoCustomers == {lena, rafi}

ThreeRequests == {r1, r2, r3}
TwoRequests == {r1, r2}

\* What the version counters have come to is read by no step of a request, so
\* states that differ in nothing else are one state to the races.
Unversioned == <<tables, now, pc, call, tx, bumps>>

\* Requests differ in nothing but their names.
RequestSymmetry == Permutations(Requests)

=============================================================================
