-------------------------- MODULE Organizations_proofs --------------------------
(***************************************************************************)
(* Theorems about Organizations, for any organizations, users and calls.   *)
(*                                                                         *)
(* Any number of calls interleave throughout.  What carries over from one  *)
(* statement of a call to a later one is of two kinds: facts about tables  *)
(* that nobody takes back (GoneIsEmpty, Recorded, ListedExisted), and what *)
(* the call was told before it went on (Informed), which stays what it was *)
(* told however stale it is.                                               *)
(***************************************************************************)
EXTENDS Organizations, FiniteSetTheorems, TLAPS

\* No member, former ones included, and no join request without an organization.
GoneIsEmpty ==
  \A o \in Orgs : o \notin Existing =>
    \A u \in Users : role[o][u] = "none" /\ join[o][u] = "none" /\ <<o, u>> \notin granted

\* The disjuncts of Next that a call takes.
Step(c) ==
  \/ \E o \in Orgs, u \in Users :
       \/ InsertOrganization(c, o, u)
       \/ LookupJoinCode(c, o, u)
       \/ ApproveJoinRequest(c, o, u)
       \/ RejectJoinRequest(c, o, u)
       \/ \E r \in Roles : AddMember(c, o, u, r) \/ ReadRoleFails(c, o, u, r)
       \/ \E r \in Roles \cup {"none"} : ReadRole(c, o, u, r)
  \/ \E o \in Orgs : EnableOrganization(c, o) \/ CountEnabled(c, o) \/ ListOrganizations(c, o)
  \/ GrantOwner(c) \/ RequestJoin(c) \/ MarkApproved(c)
  \/ CountOwners(c) \/ ChangeMember(c)
  \/ GetOrganization(c) \/ DisableOrganization(c) \/ DeleteOrganization(c)
  \/ Abort(c)

-----------------------------------------------------------------------------
(* Type correctness.                                                       *)

MemberStatements == {"grant owner", "request", "mark approved", "count owners", "change"}

\* A call has the arguments of the statement it is at.
LEMMA CallShape ==
  ASSUME TypeOK, NEW c \in Calls
  PROVE  /\ call[c].at \in MemberStatements =>
              /\ call[c].org \in Orgs
              /\ call[c].user \in Users
              /\ call[c].role \in Roles \cup {"none"}
              /\ call[c].seen \in SUBSET Users
         /\ call[c].at \in {"get", "disable", "delete"} =>
              /\ call[c].org \in Orgs
              /\ call[c].listed \in SUBSET Orgs
<1>1. call[c] \in AnyCall
  BY DEF TypeOK
<1>2. CASE call[c] = IdleCall
  BY <1>2 DEF IdleCall, MemberStatements
<1>3. CASE call[c] \in MemberCall
  BY <1>3 DEF MemberCall, MemberStatements
<1>4. CASE call[c] \in OrgCall
  BY <1>4 DEF OrgCall, MemberStatements
<1> QED BY <1>1, <1>2, <1>3, <1>4 DEF AnyCall

\* However a call goes on, the calls keep their type.
LEMMA CallTypes ==
  ASSUME TypeOK, NEW c \in Calls
  PROVE  /\ Return(c) => call' \in [Calls -> AnyCall]
         /\ \A s \in MemberStatements, o \in Orgs, u \in Users, r \in Roles \cup {"none"},
               seen \in SUBSET Users :
              Goto(c, s, o, u, r, seen) => call' \in [Calls -> AnyCall]
<1>1. IdleCall \in AnyCall
  BY DEF AnyCall
<1>2. ASSUME NEW new \in AnyCall
      PROVE  [call EXCEPT ![c] = new] \in [Calls -> AnyCall]
  BY DEF TypeOK
<1>3. Return(c) => call' \in [Calls -> AnyCall]
  BY <1>1, <1>2 DEF Return
<1>4. ASSUME NEW s \in MemberStatements, NEW o \in Orgs, NEW u \in Users,
             NEW r \in Roles \cup {"none"}, NEW seen \in SUBSET Users,
             Goto(c, s, o, u, r, seen)
      PROVE  call' \in [Calls -> AnyCall]
  <2> DEFINE new == [at |-> s, org |-> o, user |-> u, role |-> r, seen |-> seen]
  <2>1. new \in AnyCall
    BY DEF AnyCall, MemberCall, MemberStatements
  <2>2. call' = [call EXCEPT ![c] = new]
    BY <1>4 DEF Goto
  <2> HIDE DEF new
  <2> QED BY <1>2, <2>1, <2>2
<1> QED BY <1>3, <1>4

\* One cell of a table is overwritten.
LEMMA CellUpdate ==
  ASSUME NEW A, NEW B, NEW V, NEW f \in [A -> [B -> V]], NEW a \in A, NEW b \in B,
         NEW v \in V
  PROVE  [f EXCEPT ![a][b] = v] \in [A -> [B -> V]]
<1>1. [f[a] EXCEPT ![b] = v] \in [B -> V]
  OBVIOUS
<1> QED BY <1>1

\* The statements of the model keep the types of the tables.
LEMMA StatementTypes ==
  ASSUME TypeOK, NEW o \in Orgs, NEW u \in Users
  PROVE  /\ \A r \in Roles : UpsertMember(o, u, r) =>
              /\ role' \in [Orgs -> [Users -> Roles \cup {"none"}]]
              /\ granted' \subseteq Orgs \X Users
         /\ \A s \in {"approved", "rejected"} : SetStatus(o, u, s) =>
              join' \in [Orgs -> [Users -> {"none", "pending", "approved", "rejected"}]]
<1>1. \A r \in Roles \cup {"none"} :
        [role EXCEPT ![o][u] = r] \in [Orgs -> [Users -> Roles \cup {"none"}]]
  BY CellUpdate DEF TypeOK
<1>2. \A s \in {"none", "pending", "approved", "rejected"} :
        [join EXCEPT ![o][u] = s] \in
          [Orgs -> [Users -> {"none", "pending", "approved", "rejected"}]]
  BY CellUpdate DEF TypeOK
<1>3. \A r \in Roles : UpsertMember(o, u, r) =>
        /\ role' \in [Orgs -> [Users -> Roles \cup {"none"}]]
        /\ granted' \subseteq Orgs \X Users
  BY <1>1 DEF TypeOK, UpsertMember, members
<1>4. \A s \in {"approved", "rejected"} : SetStatus(o, u, s) =>
        join' \in [Orgs -> [Users -> {"none", "pending", "approved", "rejected"}]]
  BY <1>2 DEF TypeOK, SetStatus
<1> QED BY <1>3, <1>4

LEMMA TypeInit == Init => TypeOK
BY OrganizationAssumption DEF Init, TypeOK, AnyCall

LEMMA TypeStep == TypeOK /\ [Next]_vars => TypeOK'
<1> SUFFICES ASSUME TypeOK, [Next]_vars PROVE TypeOK'
  OBVIOUS
<1>1. CASE UNCHANGED vars
  BY <1>1 DEF TypeOK, vars, tables, members
<1>2. CASE Next
  <2> PICK c \in Calls : Step(c)
    BY <1>2 DEF Next, Step
  <2>a. TypeOK' <=> /\ org' \in [Orgs -> {"unused", "enabled", "disabled", "deleted"}]
                    /\ role' \in [Orgs -> [Users -> Roles \cup {"none"}]]
                    /\ join' \in [Orgs -> [Users -> {"none", "pending", "approved", "rejected"}]]
                    /\ granted' \subseteq Orgs \X Users
                    /\ call' \in [Calls -> AnyCall]
    BY DEF TypeOK, AnyCall, IdleCall, MemberCall, OrgCall
  <2>b. \A s \in {"get", "delete"}, o \in Orgs, listed \in SUBSET Orgs :
          [at |-> s, org |-> o, listed |-> listed] \in AnyCall
    BY DEF AnyCall, OrgCall
  <2>c. \A s \in MemberStatements, o \in Orgs, u \in Users, r \in Roles \cup {"none"} :
          /\ Goto(c, s, o, u, r, {}) => call' \in [Calls -> AnyCall]
          /\ Goto(c, s, o, u, r, Owners(o)) => call' \in [Calls -> AnyCall]
    BY CallTypes DEF Owners
  <2>d. "grant owner" \in MemberStatements /\ "request" \in MemberStatements
        /\ "mark approved" \in MemberStatements /\ "count owners" \in MemberStatements
        /\ "change" \in MemberStatements
    BY DEF MemberStatements
  <2>1. ASSUME NEW o \in Orgs, NEW u \in Users, InsertOrganization(c, o, u) PROVE TypeOK'
    BY <2>1, <2>a, <2>c, <2>d, OrganizationAssumption DEF InsertOrganization, TypeOK, members
  <2>2. ASSUME NEW o \in Orgs, NEW u \in Users, LookupJoinCode(c, o, u) PROVE TypeOK'
    BY <2>2, <2>a, <2>c, <2>d DEF LookupJoinCode, TypeOK, tables, members
  <2>3. ASSUME NEW o \in Orgs, NEW u \in Users, ApproveJoinRequest(c, o, u) PROVE TypeOK'
    BY <2>3, <2>a, <2>c, <2>d, StatementTypes, OrganizationAssumption
       DEF ApproveJoinRequest, TypeOK
  <2>4. ASSUME NEW o \in Orgs, NEW u \in Users, RejectJoinRequest(c, o, u) PROVE TypeOK'
    BY <2>4, <2>a, StatementTypes DEF RejectJoinRequest, TypeOK, members
  <2>5. ASSUME NEW o \in Orgs, NEW u \in Users, NEW r \in Roles, AddMember(c, o, u, r)
        PROVE TypeOK'
    BY <2>5, <2>a, StatementTypes DEF AddMember, TypeOK
  <2>6. ASSUME NEW o \in Orgs, NEW u \in Users, NEW r \in Roles \cup {"none"},
               ReadRole(c, o, u, r)
        PROVE TypeOK'
    <3>1. call' \in [Calls -> AnyCall]
      BY <2>6, <2>c, <2>d DEF ReadRole
    <3> QED BY <2>6, <3>1, <2>a DEF ReadRole, TypeOK, tables, members
  <2>7. ASSUME NEW o \in Orgs, EnableOrganization(c, o) PROVE TypeOK'
    BY <2>7, <2>a DEF EnableOrganization, TypeOK, members
  <2>8. ASSUME NEW o \in Orgs, CountEnabled(c, o) PROVE TypeOK'
    BY <2>8, <2>a, <2>b DEF CountEnabled, Enabled, TypeOK, tables, members
  <2>9. ASSUME NEW o \in Orgs, ListOrganizations(c, o) PROVE TypeOK'
    BY <2>9, <2>a, <2>b DEF ListOrganizations, Existing, TypeOK, tables, members
  <2>10. CASE GrantOwner(c)
    BY <2>10, <2>a, CallShape, CallTypes, StatementTypes, OrganizationAssumption
       DEF GrantOwner, MemberStatements, TypeOK
  <2>11. CASE RequestJoin(c)
    BY <2>11, <2>a, CallShape, CallTypes DEF RequestJoin, MemberStatements, TypeOK, members
  <2>12. CASE MarkApproved(c)
    BY <2>12, <2>a, CallShape, CallTypes, StatementTypes
       DEF MarkApproved, MemberStatements, TypeOK, members
  <2>13. CASE CountOwners(c)
    <3>1. call' \in [Calls -> AnyCall]
      BY <2>13, <2>c, <2>d, CallShape, CallTypes DEF CountOwners
    <3> QED BY <2>13, <3>1, <2>a DEF CountOwners, TypeOK, tables, members
  <2>14. CASE ChangeMember(c)
    <3>1. /\ call[c].org \in Orgs
          /\ call[c].user \in Users
          /\ call[c].role \in Roles \cup {"none"}
      BY <2>14, CallShape DEF ChangeMember, MemberStatements
    <3>2. /\ role' \in [Orgs -> [Users -> Roles \cup {"none"}]]
          /\ granted' \subseteq Orgs \X Users
      <4>1. CASE call[c].role = "none"
        <5>1. role' = [role EXCEPT ![call[c].org][call[c].user] = "none"]
          BY <2>14, <4>1 DEF ChangeMember
        <5>2. /\ role \in [Orgs -> [Users -> Roles \cup {"none"}]]
              /\ "none" \in Roles \cup {"none"}
          BY DEF TypeOK
        <5>3. role' \in [Orgs -> [Users -> Roles \cup {"none"}]]
          BY ONLY <3>1, <5>1, <5>2, CellUpdate
        <5> QED BY <2>14, <4>1, <5>3 DEF ChangeMember, TypeOK
      <4>2. CASE call[c].role # "none"
        BY <2>14, <3>1, <4>2, StatementTypes DEF ChangeMember
      <4> QED BY <4>1, <4>2
    <3> QED BY <2>14, <3>2, <2>a, CallTypes DEF ChangeMember, TypeOK
  <2>15. CASE GetOrganization(c)
    <3>1. call[c].org \in Orgs /\ call[c].listed \in SUBSET Orgs
      BY <2>15, CallShape DEF GetOrganization
    <3>2. [at |-> "disable", org |-> call[c].org, listed |-> call[c].listed,
           enabled |-> call[c].org \in Enabled] \in AnyCall
      BY <3>1 DEF AnyCall, OrgCall
    <3>3. call' \in [Calls -> AnyCall]
      BY <2>15, <3>2, CallTypes DEF GetOrganization, GotoDisable, TypeOK
    <3> QED BY <2>15, <3>3, <2>a DEF GetOrganization, TypeOK, tables, members
  <2>16. CASE DisableOrganization(c)
    BY <2>16, <2>a, CallTypes, CallShape DEF DisableOrganization, TypeOK, members
  <2>17. CASE DeleteOrganization(c)
    BY <2>17, <2>a, CallTypes, CallShape DEF DeleteOrganization, TypeOK
  <2>18. CASE Abort(c)
    BY <2>18, <2>a, CallTypes DEF Abort, TypeOK, tables, members
  <2>19. ASSUME NEW o \in Orgs, NEW u \in Users, NEW r \in Roles, ReadRoleFails(c, o, u, r)
         PROVE  TypeOK'
    BY <2>19, <2>a, <2>c, <2>d DEF ReadRoleFails, TypeOK, tables, members
  <2> QED
    BY <2>1, <2>2, <2>3, <2>4, <2>5, <2>6, <2>7, <2>8, <2>9, <2>10, <2>11, <2>12,
       <2>13, <2>14, <2>15, <2>16, <2>17, <2>18, <2>19 DEF Step
<1> QED BY <1>1, <1>2

\* Every table and every call in flight keeps its type.
THEOREM OrganizationTypes == Spec => []TypeOK
BY TypeInit, TypeStep, PTL DEF Spec
-----------------------------------------------------------------------------
(* A deletion is final.                                                    *)

LEMMA GoneInit == Init => GoneIsEmpty
BY DEF Init, GoneIsEmpty

\* A step that touches no row of a table, and lets no organization go.
LEMMA GoneUntouched ==
  ASSUME TypeOK, GoneIsEmpty, UNCHANGED <<members, join>>, Existing \subseteq Existing'
  PROVE  GoneIsEmpty'
BY DEF GoneIsEmpty, members

\* A role is written only where there is an organization.
LEMMA GoneUpsert ==
  ASSUME TypeOK, GoneIsEmpty, NEW o \in Orgs, NEW u \in Users, NEW r,
         UpsertMember(o, u, r), UNCHANGED <<org, join>>
  PROVE  GoneIsEmpty'
<1>1. Existing' = Existing
  BY DEF Existing
<1>2. ASSUME NEW p \in Orgs, p \notin Existing, NEW v \in Users
      PROVE  role'[p][v] = "none" /\ join'[p][v] = "none" /\ <<p, v>> \notin granted'
  <2>1. role[p][v] = "none" /\ join[p][v] = "none" /\ <<p, v>> \notin granted
    BY <1>2 DEF GoneIsEmpty
  <2>2. CASE o \in Existing
    <3>1. role' = [role EXCEPT ![o][u] = r] /\ granted' = granted \cup {<<o, u>>}
      BY <2>2 DEF UpsertMember
    <3>2. role'[p][v] = role[p][v]
      BY <1>2, <2>2, <3>1 DEF TypeOK
    <3>3. <<p, v>> \notin granted'
      BY <1>2, <2>1, <2>2, <3>1
    <3> QED BY <2>1, <3>2, <3>3
  <2>3. CASE o \notin Existing
    BY <2>1, <2>3 DEF UpsertMember, members
  <2> QED BY <2>2, <2>3
<1> QED BY <1>1, <1>2 DEF GoneIsEmpty

\* The status of a join request changes only where there is a request.
LEMMA GoneStatus ==
  ASSUME TypeOK, GoneIsEmpty, NEW o \in Orgs, NEW u \in Users, NEW s,
         SetStatus(o, u, s), UNCHANGED <<org, members>>
  PROVE  GoneIsEmpty'
<1>1. Existing' = Existing
  BY DEF Existing
<1>2. ASSUME NEW p \in Orgs, p \notin Existing, NEW v \in Users
      PROVE  role'[p][v] = "none" /\ join'[p][v] = "none" /\ <<p, v>> \notin granted'
  <2>1. role[p][v] = "none" /\ join[p][v] = "none" /\ <<p, v>> \notin granted
    BY <1>2 DEF GoneIsEmpty
  <2>2. CASE join[o][u] = "none"
    BY <2>1, <2>2 DEF SetStatus, members
  <2>3. CASE join[o][u] # "none"
    <3>1. join' = [join EXCEPT ![o][u] = s]
      BY <2>3 DEF SetStatus
    <3>2. ~(p = o /\ v = u)
      BY <2>1, <2>3
    <3>3. join'[p][v] = join[p][v]
      BY <3>1, <3>2 DEF TypeOK
    <3> QED BY <2>1, <3>3 DEF members
  <2> QED BY <2>2, <2>3
<1> QED BY <1>1, <1>2 DEF GoneIsEmpty

LEMMA GoneStep == TypeOK /\ GoneIsEmpty /\ [Next]_vars => GoneIsEmpty'
<1> SUFFICES ASSUME TypeOK, GoneIsEmpty, [Next]_vars PROVE GoneIsEmpty'
  OBVIOUS
<1>1. CASE UNCHANGED vars
  BY <1>1 DEF GoneIsEmpty, Existing, vars, tables, members
<1>2. CASE Next
  <2> PICK c \in Calls : Step(c)
    BY <1>2 DEF Next, Step
  <2>a. UNCHANGED tables => GoneIsEmpty'
    BY GoneUntouched DEF Existing, tables
  <2>1. ASSUME NEW o \in Orgs, NEW u \in Users, InsertOrganization(c, o, u) PROVE GoneIsEmpty'
    BY <2>1, GoneUntouched DEF InsertOrganization, Existing, TypeOK
  <2>2. ASSUME NEW o \in Orgs, NEW u \in Users, LookupJoinCode(c, o, u) PROVE GoneIsEmpty'
    BY <2>2, <2>a DEF LookupJoinCode
  <2>3. ASSUME NEW o \in Orgs, NEW u \in Users, ApproveJoinRequest(c, o, u) PROVE GoneIsEmpty'
    BY <2>3, GoneUpsert DEF ApproveJoinRequest
  <2>4. ASSUME NEW o \in Orgs, NEW u \in Users, RejectJoinRequest(c, o, u) PROVE GoneIsEmpty'
    BY <2>4, GoneStatus DEF RejectJoinRequest
  <2>5. ASSUME NEW o \in Orgs, NEW u \in Users, NEW r \in Roles, AddMember(c, o, u, r)
        PROVE  GoneIsEmpty'
    BY <2>5, GoneUpsert DEF AddMember
  <2>6. ASSUME NEW o \in Orgs, NEW u \in Users, NEW r \in Roles \cup {"none"},
               ReadRole(c, o, u, r) \/ ReadRoleFails(c, o, u, r)
        PROVE  GoneIsEmpty'
    BY <2>6, <2>a DEF ReadRole, ReadRoleFails
  <2>7. ASSUME NEW o \in Orgs, EnableOrganization(c, o) PROVE GoneIsEmpty'
    BY <2>7, GoneUntouched DEF EnableOrganization, Existing, TypeOK
  <2>8. ASSUME NEW o \in Orgs, CountEnabled(c, o) \/ ListOrganizations(c, o) PROVE GoneIsEmpty'
    BY <2>8, <2>a DEF CountEnabled, ListOrganizations
  <2>9. CASE GrantOwner(c)
    BY <2>9, CallShape, GoneUpsert DEF GrantOwner, MemberStatements
  <2>10. CASE RequestJoin(c)
    <3>1. /\ call[c].org \in Orgs
          /\ call[c].user \in Users
      BY <2>10, CallShape DEF RequestJoin, MemberStatements
    <3>2. Existing' = Existing
      BY <2>10 DEF RequestJoin, Existing
    <3>3. ASSUME NEW p \in Orgs, p \notin Existing, NEW v \in Users
          PROVE  role'[p][v] = "none" /\ join'[p][v] = "none" /\ <<p, v>> \notin granted'
      <4>1. role[p][v] = "none" /\ join[p][v] = "none" /\ <<p, v>> \notin granted
        BY <3>3 DEF GoneIsEmpty
      <4>2. join'[p][v] = join[p][v]
        BY <2>10, <3>1, <3>3 DEF RequestJoin, TypeOK
      <4> QED BY <2>10, <4>1, <4>2 DEF RequestJoin, members
    <3> QED BY <3>2, <3>3 DEF GoneIsEmpty
  <2>11. CASE MarkApproved(c)
    BY <2>11, CallShape, GoneStatus DEF MarkApproved, MemberStatements
  <2>12. CASE CountOwners(c) \/ GetOrganization(c) \/ Abort(c)
    BY <2>12, <2>a DEF CountOwners, GetOrganization, Abort
  <2>13. CASE ChangeMember(c)
    <3>1. /\ call[c].org \in Orgs
          /\ call[c].user \in Users
      BY <2>13, CallShape DEF ChangeMember, MemberStatements
    <3>2. CASE call[c].role # "none"
      BY <2>13, <3>1, <3>2, GoneUpsert DEF ChangeMember
    <3>3. CASE call[c].role = "none"
      <4>1. role' = [role EXCEPT ![call[c].org][call[c].user] = "none"]
        BY <2>13, <3>3 DEF ChangeMember
      <4>2. Existing' = Existing /\ join' = join /\ granted' = granted
        BY <2>13, <3>3 DEF ChangeMember, Existing
      <4>3. \A p \in Orgs, v \in Users : role[p][v] = "none" => role'[p][v] = "none"
        BY <3>1, <4>1 DEF TypeOK
      <4> QED BY <4>2, <4>3 DEF GoneIsEmpty
    <3> QED BY <3>2, <3>3
  <2>14. CASE DisableOrganization(c)
    BY <2>14, GoneUntouched DEF DisableOrganization, Existing, TypeOK
  <2>15. CASE DeleteOrganization(c)
    <3>1. call[c].org \in Orgs
      BY <2>15, CallShape DEF DeleteOrganization
    <3>2. ASSUME NEW p \in Orgs, p \notin Existing', NEW v \in Users
          PROVE  role'[p][v] = "none" /\ join'[p][v] = "none" /\ <<p, v>> \notin granted'
      <4>1. CASE p = call[c].org
        BY <2>15, <3>1, <4>1 DEF DeleteOrganization, TypeOK
      <4>2. CASE p # call[c].org
        <5>1. /\ org'[p] = org[p] /\ role'[p] = role[p] /\ join'[p] = join[p]
              /\ <<p, v>> \in granted' => <<p, v>> \in granted
          BY <2>15, <3>1, <4>2 DEF DeleteOrganization, TypeOK
        <5>2. p \notin Existing
          BY <3>2, <5>1 DEF Existing
        <5> QED BY <5>1, <5>2 DEF GoneIsEmpty
      <4> QED BY <4>1, <4>2
    <3> QED BY <3>2 DEF GoneIsEmpty
  <2> QED
    BY <2>1, <2>2, <2>3, <2>4, <2>5, <2>6, <2>7, <2>8, <2>9, <2>10, <2>11, <2>12,
       <2>13, <2>14, <2>15 DEF Step
<1> QED BY <1>1, <1>2

\* No statement writes to the row of an organization that was deleted.
LEMMA DeletedStays ==
  ASSUME TypeOK, [Next]_vars, NEW o \in Orgs, org[o] = "deleted"
  PROVE  org'[o] = "deleted"
<1>1. CASE UNCHANGED vars
  BY <1>1 DEF vars, tables
<1>2. CASE Next
  <2> PICK c \in Calls : Step(c)
    BY <1>2 DEF Next, Step
  <2>1. ASSUME NEW p \in Orgs, NEW u \in Users, InsertOrganization(c, p, u)
        PROVE  org'[o] = "deleted"
    BY <2>1 DEF InsertOrganization, TypeOK
  <2>2. ASSUME NEW p \in Orgs, EnableOrganization(c, p) PROVE org'[o] = "deleted"
    BY <2>2 DEF EnableOrganization, Existing, TypeOK
  <2>3. CASE DisableOrganization(c)
    BY <2>3 DEF DisableOrganization, Existing, TypeOK
  <2>4. CASE DeleteOrganization(c)
    BY <2>4 DEF DeleteOrganization, Existing, TypeOK
  <2>5. UNCHANGED org => org'[o] = "deleted"
    OBVIOUS
  <2> QED
    BY <2>1, <2>2, <2>3, <2>4, <2>5
       DEF Step, tables, LookupJoinCode, ApproveJoinRequest, RejectJoinRequest, AddMember,
           ReadRole, ReadRoleFails, CountEnabled, ListOrganizations, GrantOwner, RequestJoin,
           MarkApproved, CountOwners, ChangeMember, GetOrganization, Abort
<1> QED BY <1>1, <1>2

\* Whatever calls are under way when an organization is deleted, none brings it
\* back or leaves it a member or a join request.
THEOREM DeletionStands == Spec => DeletionIsFinal
<1>1. TypeOK /\ GoneIsEmpty' /\ [Next]_vars =>
        [\A o \in Orgs : org[o] = "deleted" =>
           /\ org'[o] = "deleted"
           /\ \A u \in Users : role'[o][u] = "none" /\ join'[o][u] = "none"]_vars
  <2> SUFFICES ASSUME TypeOK, GoneIsEmpty', [Next]_vars, NEW o \in Orgs, org[o] = "deleted"
               PROVE  /\ org'[o] = "deleted"
                      /\ \A u \in Users : role'[o][u] = "none" /\ join'[o][u] = "none"
    OBVIOUS
  <2>1. org'[o] = "deleted"
    BY DeletedStays
  <2> QED BY <2>1 DEF GoneIsEmpty, Existing
<1>2. Spec => [](TypeOK /\ GoneIsEmpty)
  BY TypeInit, TypeStep, GoneInit, GoneStep, PTL DEF Spec
<1> QED BY <1>1, <1>2, PTL DEF Spec, DeletionIsFinal
-----------------------------------------------------------------------------
(* What a call was told before it went on.                                 *)

\* Of two elements one is not this one.
LEMMA AnotherOne ==
  ASSUME NEW S, NEW x, IsFiniteSet(S), Cardinality(S) > 1
  PROVE  \E y \in S : y # x
<1>1. IsFiniteSet({x}) /\ Cardinality({x}) = 1
  BY FS_Singleton
<1>2. SUFFICES ASSUME S \subseteq {x} PROVE FALSE
  OBVIOUS
<1>3. Cardinality(S) <= 1
  BY <1>1, <1>2, FS_Subset
<1>4. Cardinality(S) \in Nat
  BY FS_CardinalityType
<1> QED BY <1>3, <1>4

\* The guard a call has passed: it saw another owner, was told of another
\* organization, or of another enabled one.
SawAnotherOwner(k) ==
  k.at = "change" /\ k.role # "owner" /\ k.user \in k.seen => \E v \in k.seen : v # k.user

ToldOfAnother(k) ==
  \/ k.at = "delete"
  \/ k.at = "disable" /\ k.enabled = TRUE
  => \E p \in k.listed : p # k.org

Informed == \A c \in Calls : SawAnotherOwner(call[c]) /\ ToldOfAnother(call[c])

LEMMA InformedInit == Init => Informed
BY DEF Init, Informed, SawAnotherOwner, ToldOfAnother, IdleCall

\* Only the call that goes on has something to show.
LEMMA InformedGoesOn ==
  ASSUME TypeOK, Informed, NEW c \in Calls, NEW k,
         call' = [call EXCEPT ![c] = k], SawAnotherOwner(k), ToldOfAnother(k)
  PROVE  Informed'
<1>1. ASSUME NEW d \in Calls PROVE SawAnotherOwner(call'[d]) /\ ToldOfAnother(call'[d])
  <2>1. d = c => call'[d] = k
    BY DEF TypeOK
  <2>2. d # c => call'[d] = call[d]
    BY DEF TypeOK
  <2> QED BY <2>1, <2>2 DEF Informed
<1> QED BY <1>1 DEF Informed, SawAnotherOwner, ToldOfAnother

LEMMA InformedStep == TypeOK /\ Informed /\ [Next]_vars => Informed'
<1> SUFFICES ASSUME TypeOK, Informed, [Next]_vars PROVE Informed'
  OBVIOUS
<1>a. UNCHANGED call => Informed'
  BY DEF Informed, SawAnotherOwner, ToldOfAnother
<1>1. CASE UNCHANGED vars
  BY <1>1, <1>a DEF vars
<1>2. CASE Next
  <2> PICK c \in Calls : Step(c)
    BY <1>2 DEF Next, Step
  <2>a. Return(c) => Informed'
    BY InformedGoesOn DEF Return, IdleCall, SawAnotherOwner, ToldOfAnother
  <2>b. ASSUME NEW s \in MemberStatements, NEW o, NEW u, NEW r, NEW seen,
               Goto(c, s, o, u, r, seen),
               s = "change" /\ r # "owner" /\ u \in seen => \E v \in seen : v # u
        PROVE  Informed'
    <3> DEFINE k == [at |-> s, org |-> o, user |-> u, role |-> r, seen |-> seen]
    <3>1. call' = [call EXCEPT ![c] = k]
      BY <2>b DEF Goto
    <3>2. SawAnotherOwner(k) /\ ToldOfAnother(k)
      BY <2>b DEF SawAnotherOwner, ToldOfAnother, MemberStatements
    <3> HIDE DEF k
    <3> QED BY <3>1, <3>2, InformedGoesOn
  <2>1. ASSUME NEW o \in Orgs, NEW u \in Users,
               \/ InsertOrganization(c, o, u)
               \/ LookupJoinCode(c, o, u)
               \/ ApproveJoinRequest(c, o, u)
        PROVE  Informed'
    BY <2>1, <2>b
       DEF InsertOrganization, LookupJoinCode, ApproveJoinRequest, MemberStatements
  <2>2. ASSUME NEW o \in Orgs, NEW u \in Users, NEW r \in Roles, ReadRoleFails(c, o, u, r)
        PROVE  Informed'
    BY <2>2, <2>b DEF ReadRoleFails, MemberStatements
  <2>3. ASSUME NEW o \in Orgs, NEW u \in Users, NEW r \in Roles \cup {"none"},
               ReadRole(c, o, u, r)
        PROVE  Informed'
    <3>1. CASE r # "owner" /\ role[o][u] = "owner"
      BY <2>3, <2>b, <3>1 DEF ReadRole, MemberStatements
    <3>2. CASE ~(r # "owner" /\ role[o][u] = "owner")
      <4>1. Goto(c, "change", o, u, r, IF r = "owner" THEN {} ELSE Owners(o))
        BY <2>3, <3>2 DEF ReadRole
      <4>2. r # "owner" => u \notin Owners(o)
        BY <3>2 DEF Owners
      <4> QED BY <2>b, <4>1, <4>2 DEF MemberStatements
    <3> QED BY <3>1, <3>2
  <2>4. ASSUME NEW o \in Orgs, CountEnabled(c, o) PROVE Informed'
    <3> DEFINE k == [at |-> "get", org |-> o, listed |-> Enabled]
    <3>1. call' = [call EXCEPT ![c] = k]
      BY <2>4 DEF CountEnabled
    <3>2. SawAnotherOwner(k) /\ ToldOfAnother(k)
      BY DEF SawAnotherOwner, ToldOfAnother
    <3> HIDE DEF k
    <3> QED BY <3>1, <3>2, InformedGoesOn
  <2>5. ASSUME NEW o \in Orgs, ListOrganizations(c, o) PROVE Informed'
    <3> DEFINE k == [at |-> "delete", org |-> o, listed |-> Existing]
    <3>1. call' = [call EXCEPT ![c] = k]
      BY <2>5 DEF ListOrganizations
    <3>2. IsFiniteSet(Existing)
      BY OrganizationAssumption, FS_Subset DEF Existing
    <3>3. \E p \in Existing : p # o
      BY <2>5, <3>2, AnotherOne DEF ListOrganizations
    <3>4. SawAnotherOwner(k) /\ ToldOfAnother(k)
      BY <3>3 DEF SawAnotherOwner, ToldOfAnother
    <3> HIDE DEF k
    <3> QED BY <3>1, <3>4, InformedGoesOn
  <2>6. CASE CountOwners(c) /\ ~Return(c)
    <3> DEFINE o == call[c].org
    <3>1. /\ ~(Cardinality(Owners(o)) <= 1)
          /\ Goto(c, "change", o, call[c].user, call[c].role, Owners(o))
      BY <2>6 DEF CountOwners
    <3>2. IsFiniteSet(Owners(o)) /\ Cardinality(Owners(o)) \in Nat
      BY OrganizationAssumption, FS_Subset, FS_CardinalityType DEF Owners
    <3>3. \E v \in Owners(o) : v # call[c].user
      BY <3>1, <3>2, AnotherOne
    <3> QED BY <2>b, <3>1, <3>3 DEF MemberStatements
  <2>7. CASE GetOrganization(c) /\ ~Return(c)
    <3> DEFINE o == call[c].org
               k == [at |-> "disable", org |-> o, listed |-> call[c].listed,
                     enabled |-> o \in Enabled]
    <3>1. call' = [call EXCEPT ![c] = k] /\ call[c].at = "get"
      BY <2>7 DEF GetOrganization, GotoDisable
    <3>2. IsFiniteSet(call[c].listed) /\ Cardinality(call[c].listed) \in Nat
      BY <3>1, CallShape, OrganizationAssumption, FS_Subset, FS_CardinalityType
    <3>3. o \in Enabled => \E p \in call[c].listed : p # o
      BY <2>7, <3>2, AnotherOne DEF GetOrganization
    <3>4. SawAnotherOwner(k) /\ ToldOfAnother(k)
      BY <3>3 DEF SawAnotherOwner, ToldOfAnother
    <3> HIDE DEF k
    <3> QED BY <3>1, <3>4, InformedGoesOn
  <2> QED
    BY <1>a, <2>a, <2>1, <2>2, <2>3, <2>4, <2>5, <2>6, <2>7
       DEF Step, RejectJoinRequest, AddMember, EnableOrganization, GrantOwner, RequestJoin,
           MarkApproved, ChangeMember, DisableOrganization, DeleteOrganization, Abort
<1> QED BY <1>1, <1>2

LEMMA InformedAlways == Spec => [](TypeOK /\ Informed)
BY InformedInit, InformedStep, TypeInit, TypeStep, PTL DEF Spec
-----------------------------------------------------------------------------
(* The last owner.                                                         *)

\* Whose role was written is the one who no longer is an owner.
LEMMA LostByTheUser ==
  ASSUME TypeOK, NEW c \in Calls, ChangeMember(c), NEW o \in Orgs, NEW w \in Users,
         role[o][w] = "owner", role'[o][w] # "owner"
  PROVE  call[c].org = o /\ call[c].user = w /\ call[c].role # "owner"
<1>1. call[c].org \in Orgs /\ call[c].user \in Users
  BY CallShape DEF ChangeMember, MemberStatements
<1>2. role' = [role EXCEPT ![call[c].org][call[c].user] = call[c].role]
  BY DEF ChangeMember, UpsertMember, members
<1> QED BY <1>1, <1>2 DEF TypeOK

\* However many calls interleave, UpdateMemberRole and RemoveMember take the
\* last owner away only when another owner they saw is none any more, or when
\* they did not see that their user was one.
THEOREM LastOwnerIsGuarded == Spec => LastOwnerGuard
<1>1. TypeOK /\ Informed /\ [Next]_vars =>
        [\A c \in Calls, o \in Orgs :
           ChangeMember(c) /\ OwnerLost(o) =>
             \/ call[c].user \notin call[c].seen
             \/ \E v \in call[c].seen : role[o][v] # "owner"]_vars
  <2> SUFFICES ASSUME TypeOK, Informed, NEW c \in Calls, NEW o \in Orgs, ChangeMember(c),
                      OwnerLost(o), call[c].user \in call[c].seen
               PROVE  \E v \in call[c].seen : role[o][v] # "owner"
    OBVIOUS
  <2>1. PICK w \in Users : role[o][w] = "owner"
    BY DEF OwnerLost, Owners
  <2>2. \A v \in Users : role'[o][v] # "owner"
    BY DEF OwnerLost, Owners
  <2>3. call[c].org = o /\ call[c].user = w /\ call[c].role # "owner"
    BY <2>1, <2>2, LostByTheUser
  <2>4. PICK v \in call[c].seen : v # w
    BY <2>3 DEF Informed, SawAnotherOwner, ChangeMember
  <2>5. v \in Users
    BY CallShape DEF ChangeMember, MemberStatements
  <2>6. role[o][v] # "owner"
    BY <2>2, <2>3, <2>4, <2>5, LostByTheUser
  <2> QED BY <2>6
<1> QED BY <1>1, InformedAlways, PTL DEF Spec, LastOwnerGuard
-----------------------------------------------------------------------------
(* The last organization.                                                  *)

\* Only a deletion takes an organization away, and only its own.
LEMMA OnlyDeletionTakes ==
  ASSUME TypeOK, [Next]_vars, NEW o \in Existing, o \notin Existing'
  PROVE  \E c \in Calls : call[c].at = "delete" /\ call[c].org = o
                            /\ \A p \in Existing : p # o => p \in Existing'
<1>1. ~UNCHANGED org
  BY DEF Existing
<1>2. PICK c \in Calls : Step(c)
  BY <1>1 DEF Next, Step, vars, tables
<1>3. ASSUME NEW p \in Orgs, NEW u \in Users, InsertOrganization(c, p, u) PROVE FALSE
  BY <1>3 DEF InsertOrganization, Existing, TypeOK
<1>4. ASSUME NEW p \in Orgs, EnableOrganization(c, p) PROVE FALSE
  BY <1>4 DEF EnableOrganization, Existing, TypeOK
<1>5. CASE DisableOrganization(c)
  BY <1>5 DEF DisableOrganization, Existing, TypeOK
<1>6. CASE DeleteOrganization(c)
  <2>1. call[c].at = "delete"
    BY <1>6 DEF DeleteOrganization
  <2>2. org' = [org EXCEPT ![call[c].org] = "deleted"]
    BY <1>1, <1>6 DEF DeleteOrganization
  <2>3. call[c].org = o /\ \A p \in Existing : p # o => p \in Existing'
    BY <2>2 DEF Existing, TypeOK
  <2> QED BY <2>1, <2>3
<1> QED
  BY <1>1, <1>2, <1>3, <1>4, <1>5, <1>6
     DEF Step, tables, LookupJoinCode, ApproveJoinRequest, RejectJoinRequest, AddMember,
         ReadRole, ReadRoleFails, CountEnabled, ListOrganizations, GrantOwner, RequestJoin,
         MarkApproved, CountOwners, ChangeMember, GetOrganization, Abort

\* An organization that was created was created for good.
LEMMA NeverUnused ==
  ASSUME TypeOK, [Next]_vars, NEW o \in Orgs, org[o] # "unused"
  PROVE  org'[o] # "unused"
<1>1. CASE o \in Existing /\ o \notin Existing'
  <2>1. CASE UNCHANGED org
    BY <2>1
  <2>2. PICK c \in Calls : Step(c)
    BY <1>1 DEF Next, Step, vars, tables, Existing
  <2>3. CASE DeleteOrganization(c)
    BY <1>1, <2>3 DEF DeleteOrganization, Existing, TypeOK
  <2>4. ASSUME NEW p \in Orgs, NEW u \in Users, InsertOrganization(c, p, u)
        PROVE  org'[o] # "unused"
    BY <2>4 DEF InsertOrganization, TypeOK
  <2>5. ASSUME NEW p \in Orgs, EnableOrganization(c, p) PROVE org'[o] # "unused"
    BY <2>5 DEF EnableOrganization, TypeOK
  <2>6. CASE DisableOrganization(c)
    BY <2>6 DEF DisableOrganization, TypeOK
  <2> QED
    BY <2>1, <2>2, <2>3, <2>4, <2>5, <2>6
       DEF Step, tables, LookupJoinCode, ApproveJoinRequest, RejectJoinRequest, AddMember,
           ReadRole, ReadRoleFails, CountEnabled, ListOrganizations, GrantOwner, RequestJoin,
           MarkApproved, CountOwners, ChangeMember, GetOrganization, Abort
<1>2. CASE org[o] = "deleted"
  BY <1>2, DeletedStays
<1> QED BY <1>1, <1>2 DEF Existing, TypeOK

\* Only the call that takes the step goes on, and to what the step says.
LEMMA WhoMoved ==
  ASSUME TypeOK, NEW c \in Calls, NEW d \in Calls, call'[c] # call[c]
  PROVE  /\ Return(d) => call'[c].at = "idle"
         /\ \A s, o, u, r, seen : Goto(d, s, o, u, r, seen) => call'[c].at = s
         /\ GotoDisable(d) => call'[c].at = "disable"
         /\ \A o : CountEnabled(d, o) => call'[c].at = "get"
         /\ \A o : ListOrganizations(d, o) => call'[c].at = "delete"
<1>1. ASSUME NEW k, call' = [call EXCEPT ![d] = k] PROVE call'[c] = k
  BY <1>1 DEF TypeOK
<1>2. Return(d) => call'[c].at = "idle"
  BY <1>1 DEF Return, IdleCall
<1>3. ASSUME NEW s, NEW o, NEW u, NEW r, NEW seen, Goto(d, s, o, u, r, seen)
      PROVE  call'[c].at = s
  <2>1. call'[c] = [at |-> s, org |-> o, user |-> u, role |-> r, seen |-> seen]
    BY <1>1, <1>3 DEF Goto
  <2> QED BY <2>1
<1>4. GotoDisable(d) => call'[c].at = "disable"
  BY <1>1 DEF GotoDisable
<1>5. \A o : CountEnabled(d, o) => call'[c].at = "get"
  BY <1>1 DEF CountEnabled
<1>6. \A o : ListOrganizations(d, o) => call'[c].at = "delete"
  BY <1>1 DEF ListOrganizations
<1> QED BY <1>2, <1>3, <1>4, <1>5, <1>6

\* What ListOrganizations told a call did exist.
ListedExisted ==
  \A c \in Calls : call[c].at = "delete" => \A p \in call[c].listed : org[p] # "unused"

LEMMA ListedStep == TypeOK /\ ListedExisted /\ [Next]_vars => ListedExisted'
<1> SUFFICES ASSUME TypeOK, ListedExisted, [Next]_vars, NEW c \in Calls,
                    call'[c].at = "delete", NEW p \in call'[c].listed
             PROVE  org'[p] # "unused"
  BY DEF ListedExisted
<1>1. CASE call'[c] = call[c]
  <2>1. org[p] # "unused" /\ p \in Orgs
    BY <1>1, CallShape DEF ListedExisted
  <2> QED BY <2>1, NeverUnused
<1>2. CASE call'[c] # call[c]
  <2>1. PICK d \in Calls : Step(d)
    BY <1>2 DEF Next, Step, vars
  <2>2. ~Return(d)
    BY <1>2, WhoMoved
  <2>3. \A s \in MemberStatements : \A o, u, r, seen : ~Goto(d, s, o, u, r, seen)
    BY <1>2, WhoMoved DEF MemberStatements
  <2>4. ~GotoDisable(d)
    BY <1>2, WhoMoved
  <2>5. \A o \in Orgs : ~CountEnabled(d, o)
    BY <1>2, WhoMoved
  <2>6. ASSUME NEW o \in Orgs, ListOrganizations(d, o) PROVE org'[p] # "unused"
    <3>1. call' = [call EXCEPT ![d] = [at |-> "delete", org |-> o, listed |-> Existing]]
      BY <2>6 DEF ListOrganizations
    <3>2. p \in Existing
      BY <1>2, <3>1 DEF TypeOK
    <3> QED BY <2>6, <3>2 DEF ListOrganizations, Existing, tables
  <2> QED
    BY <1>2, <2>1, <2>2, <2>3, <2>4, <2>5, <2>6
       DEF Step, MemberStatements, InsertOrganization, LookupJoinCode, ApproveJoinRequest,
           RejectJoinRequest, AddMember, ReadRole, ReadRoleFails, EnableOrganization,
           GrantOwner, RequestJoin, MarkApproved, CountOwners, ChangeMember, GetOrganization,
           DisableOrganization, DeleteOrganization, Abort
<1> QED BY <1>1, <1>2

\* However many calls interleave, DeleteOrganization deletes the last
\* organization only when another one it was told of has been deleted since.
THEOREM LastOrganizationIsGuarded == Spec => LastOrganizationGuard
<1>1. TypeOK /\ Informed /\ ListedExisted /\ [Next]_vars =>
        [Existing # {} /\ Existing' = {} =>
           \E c \in Calls :
             /\ call[c].at = "delete"
             /\ \E p \in call[c].listed : org[p] = "deleted"]_vars
  <2> SUFFICES ASSUME TypeOK, Informed, ListedExisted, [Next]_vars,
                      NEW o \in Existing, Existing' = {}
               PROVE  \E c \in Calls :
                        /\ call[c].at = "delete"
                        /\ \E p \in call[c].listed : org[p] = "deleted"
    OBVIOUS
  <2>1. PICK c \in Calls : /\ call[c].at = "delete"
                           /\ call[c].org = o
                           /\ \A p \in Existing : p # o => p \in Existing'
    BY OnlyDeletionTakes
  <2>2. PICK p \in call[c].listed : p # o
    BY <2>1 DEF Informed, ToldOfAnother
  <2>3. p \in Orgs /\ org[p] # "unused"
    BY <2>1, CallShape DEF ListedExisted
  <2>4. org[p] = "deleted"
    BY <2>1, <2>2, <2>3 DEF Existing, TypeOK
  <2> QED BY <2>1, <2>4
<1>2. Init => ListedExisted
  BY DEF Init, ListedExisted, IdleCall
<1>3. Spec => []ListedExisted
  BY <1>2, ListedStep, TypeInit, TypeStep, PTL DEF Spec
<1> QED BY <1>1, <1>3, InformedAlways, PTL DEF Spec, LastOrganizationGuard
-----------------------------------------------------------------------------
(* The last enabled organization.                                          *)

\* However many calls interleave, SetOrganizationEnabled disables the only
\* enabled organization only when another one it was told of is not enabled any
\* more, or when it found this one disabled.
THEOREM LastEnabledIsGuarded == Spec => LastEnabledGuard
<1>1. TypeOK /\ Informed /\ [Next]_vars =>
        [\A o \in Enabled : org'[o] = "disabled" /\ Enabled' = {} =>
           \E c \in Calls :
             /\ call[c].at = "disable" /\ call[c].org = o
             /\ call[c].enabled => \E p \in call[c].listed : p \notin Enabled]_vars
  <2> SUFFICES ASSUME TypeOK, Informed, [Next]_vars, NEW o \in Enabled, org'[o] = "disabled",
                      Enabled' = {}
               PROVE  \E c \in Calls :
                        /\ call[c].at = "disable" /\ call[c].org = o
                        /\ call[c].enabled => \E p \in call[c].listed : p \notin Enabled
    OBVIOUS
  <2>1. ~UNCHANGED org
    BY DEF Enabled
  <2>2. PICK c \in Calls : Step(c)
    BY <2>1 DEF Next, Step, vars, tables
  <2>3. CASE DisableOrganization(c)
    <3>1. /\ call[c].at = "disable"
          /\ org' = [org EXCEPT ![call[c].org] = "disabled"]
      BY <2>1, <2>3 DEF DisableOrganization
    <3>2. call[c].org = o
      BY <3>1 DEF Enabled, TypeOK
    <3>3. ASSUME call[c].enabled PROVE \E p \in call[c].listed : p \notin Enabled
      <4>1. PICK p \in call[c].listed : p # o
        BY <3>1, <3>2, <3>3 DEF Informed, ToldOfAnother
      <4>2. p \in Enabled => p \in Enabled'
        BY <3>1, <3>2, <4>1 DEF Enabled, TypeOK
      <4> QED BY <4>1, <4>2
    <3> QED BY <3>1, <3>2, <3>3
  <2>4. ASSUME NEW p \in Orgs, NEW u \in Users, InsertOrganization(c, p, u) PROVE FALSE
    BY <2>4 DEF InsertOrganization, Enabled, TypeOK
  <2>5. ASSUME NEW p \in Orgs, EnableOrganization(c, p) PROVE FALSE
    BY <2>5 DEF EnableOrganization, Enabled, TypeOK
  <2>6. CASE DeleteOrganization(c)
    BY <2>6 DEF DeleteOrganization, Enabled, TypeOK
  <2> QED
    BY <2>1, <2>2, <2>3, <2>4, <2>5, <2>6
       DEF Step, tables, LookupJoinCode, ApproveJoinRequest, RejectJoinRequest, AddMember,
           ReadRole, ReadRoleFails, CountEnabled, ListOrganizations, GrantOwner, RequestJoin,
           MarkApproved, CountOwners, ChangeMember, GetOrganization, Abort
<1> QED BY <1>1, InformedAlways, PTL DEF Spec, LastEnabledGuard
-----------------------------------------------------------------------------
(* Approved requests.                                                      *)

\* Before a request is marked approved its requester has been a member, unless
\* the organization is gone since.
Recorded ==
  \A c \in Calls : call[c].at = "mark approved" =>
    \/ <<call[c].org, call[c].user>> \in granted
    \/ org[call[c].org] = "deleted"

\* Who has been a member is forgotten only with the organization.
LEMMA GrantedStays ==
  ASSUME TypeOK, GoneIsEmpty, [Next]_vars, NEW o \in Orgs, NEW u \in Users,
         <<o, u>> \in granted
  PROVE  <<o, u>> \in granted' \/ org'[o] = "deleted"
<1>1. o \in Existing
  BY DEF GoneIsEmpty
<1>2. CASE UNCHANGED granted
  BY <1>2
<1>3. CASE ~UNCHANGED granted
  <2>1. PICK c \in Calls : Step(c)
    BY <1>3 DEF Next, Step, vars, tables, members
  <2>2. \A p, v, r : UpsertMember(p, v, r) => <<o, u>> \in granted'
    BY DEF UpsertMember, members
  <2>3. CASE DeleteOrganization(c)
    <3>1. call[c].org = o => org'[o] = "deleted"
      BY <1>1, <2>3 DEF DeleteOrganization, TypeOK
    <3>2. call[c].org # o => <<o, u>> \in granted'
      BY <2>3 DEF DeleteOrganization
    <3> QED BY <3>1, <3>2
  <2>4. CASE ChangeMember(c)
    BY <1>3, <2>2, <2>4 DEF ChangeMember
  <2> QED
    BY <1>3, <2>1, <2>2, <2>3, <2>4
       DEF Step, tables, members, InsertOrganization, LookupJoinCode, ApproveJoinRequest,
           RejectJoinRequest, AddMember, ReadRole, ReadRoleFails, EnableOrganization,
           CountEnabled, ListOrganizations, GrantOwner, RequestJoin, MarkApproved,
           CountOwners, GetOrganization, DisableOrganization, Abort
<1> QED BY <1>2, <1>3

LEMMA RecordedStep == TypeOK /\ GoneIsEmpty /\ Recorded /\ [Next]_vars => Recorded'
<1> SUFFICES ASSUME TypeOK, GoneIsEmpty, Recorded, [Next]_vars, NEW c \in Calls,
                    call'[c].at = "mark approved"
             PROVE  \/ <<call'[c].org, call'[c].user>> \in granted'
                    \/ org'[call'[c].org] = "deleted"
  BY DEF Recorded
<1>1. CASE call'[c] = call[c]
  <2>1. call[c].org \in Orgs /\ call[c].user \in Users
    BY <1>1, CallShape DEF MemberStatements
  <2> QED BY <1>1, <2>1, GrantedStays, DeletedStays DEF Recorded
<1>2. CASE call'[c] # call[c]
  <2>1. PICK d \in Calls : Step(d)
    BY <1>2 DEF Next, Step, vars
  <2>2. ~Return(d)
    BY <1>2, WhoMoved
  <2>3. \A s \in MemberStatements \ {"mark approved"} : \A o, u, r, seen :
          ~Goto(d, s, o, u, r, seen)
    BY <1>2, WhoMoved DEF MemberStatements
  <2>4. ~GotoDisable(d)
    BY <1>2, WhoMoved
  <2>5. \A o \in Orgs : ~CountEnabled(d, o) /\ ~ListOrganizations(d, o)
    BY <1>2, WhoMoved
  <2>6. ASSUME NEW o \in Orgs, NEW u \in Users, ApproveJoinRequest(d, o, u)
        PROVE  <<call'[c].org, call'[c].user>> \in granted'
    <3>1. call'[c].org = o /\ call'[c].user = u
      <4>1. Goto(d, "mark approved", o, u, "member", {})
        BY <2>6 DEF ApproveJoinRequest
      <4> QED BY <1>2, <4>1 DEF Goto, TypeOK
    <3>2. <<o, u>> \in granted'
      BY <2>6 DEF ApproveJoinRequest, UpsertMember
    <3> QED BY <3>1, <3>2
  <2> QED
    BY <1>2, <2>1, <2>2, <2>3, <2>4, <2>5, <2>6
       DEF Step, MemberStatements, InsertOrganization, LookupJoinCode, RejectJoinRequest,
           AddMember, ReadRole, ReadRoleFails, EnableOrganization, GrantOwner, RequestJoin,
           MarkApproved, CountOwners, ChangeMember, GetOrganization, DisableOrganization,
           DeleteOrganization, Abort
<1> QED BY <1>1, <1>2

\* Only MarkApproved approves.
LEMMA OnlyMarkApproves ==
  ASSUME TypeOK, [Next]_vars, NEW o \in Orgs, NEW u \in Users,
         join'[o][u] = "approved", join[o][u] # "approved"
  PROVE  \E c \in Calls : MarkApproved(c) /\ call[c].org = o /\ call[c].user = u
<1>1. ~UNCHANGED join
  OBVIOUS
<1>2. PICK c \in Calls : Step(c)
  BY <1>1 DEF Next, Step, vars, tables
<1>3. CASE MarkApproved(c)
  <2>1. join' = [join EXCEPT ![call[c].org][call[c].user] = "approved"]
    BY <1>1, <1>3 DEF MarkApproved, SetStatus
  <2>2. call[c].org = o /\ call[c].user = u
    BY <2>1 DEF TypeOK
  <2> QED BY <1>3, <2>2
<1>4. CASE RequestJoin(c)
  <2>1. join' = [join EXCEPT ![call[c].org][call[c].user] = "pending"]
    BY <1>1, <1>4 DEF RequestJoin
  <2> QED BY <2>1 DEF TypeOK
<1>5. ASSUME NEW p \in Orgs, NEW v \in Users, RejectJoinRequest(c, p, v) PROVE FALSE
  <2>1. join' = [join EXCEPT ![p][v] = "rejected"]
    BY <1>1, <1>5 DEF RejectJoinRequest, SetStatus
  <2> QED BY <2>1 DEF TypeOK
<1>6. CASE DeleteOrganization(c)
  BY <1>6 DEF DeleteOrganization, TypeOK
<1> QED
  BY <1>1, <1>2, <1>3, <1>4, <1>5, <1>6
     DEF Step, tables, InsertOrganization, LookupJoinCode, ApproveJoinRequest, AddMember,
         ReadRole, ReadRoleFails, EnableOrganization, CountEnabled, ListOrganizations,
         GrantOwner, CountOwners, ChangeMember, GetOrganization, DisableOrganization, Abort

LEMMA ApprovedStep ==
  TypeOK /\ GoneIsEmpty /\ GoneIsEmpty' /\ Recorded /\ ApprovedWereMembers /\ [Next]_vars
    => ApprovedWereMembers'
<1> SUFFICES ASSUME TypeOK, GoneIsEmpty, GoneIsEmpty', Recorded, ApprovedWereMembers,
                    [Next]_vars, NEW o \in Orgs, NEW u \in Users, join'[o][u] = "approved"
             PROVE  <<o, u>> \in granted'
  BY DEF ApprovedWereMembers
<1>1. o \in Existing'
  BY DEF GoneIsEmpty
<1>2. org'[o] # "deleted"
  BY <1>1 DEF Existing
<1>3. CASE join[o][u] = "approved"
  BY <1>2, <1>3, GrantedStays DEF ApprovedWereMembers
<1>4. CASE join[o][u] # "approved"
  <2>1. PICK c \in Calls : MarkApproved(c) /\ call[c].org = o /\ call[c].user = u
    BY <1>4, OnlyMarkApproves
  <2>2. org[o] # "deleted"
    BY <1>2, DeletedStays
  <2> QED BY <2>1, <2>2 DEF Recorded, MarkApproved, members
<1> QED BY <1>3, <1>4

\* However many calls interleave and wherever they end, ApproveJoinRequest marks
\* no request approved before its requester was made a member.
THEOREM ApprovedHaveBeenMembers == Spec => []ApprovedWereMembers
<1>1. Init => Recorded
  <2>1. Init => \A c \in Calls : call[c].at = "idle"
    BY DEF Init, IdleCall
  <2> QED BY <2>1 DEF Recorded
<1>2. Init => ApprovedWereMembers
  BY DEF Init, ApprovedWereMembers
<1> QED
  BY <1>1, <1>2, TypeInit, TypeStep, GoneInit, GoneStep, RecordedStep, ApprovedStep, PTL DEF Spec
=============================================================================
