----------------------------- MODULE Organizations -----------------------------
(***************************************************************************)
(* Organizations, their members and their join requests                    *)
(* (app/services/organization_management.go over the tables organizations, *)
(* organization_members and organization_join_requests).                   *)
(*                                                                         *)
(* A service call is a sequence of SQL statements, each of them a          *)
(* transaction of its own; what a call read may be stale by the time it    *)
(* writes.  A call is served by the goroutine of one HTTP request, so any  *)
(* number of calls interleave between statements.  Names, tokens and join  *)
(* codes are left out: a call names its organization and its user.         *)
(***************************************************************************)
EXTENDS Integers, FiniteSets

CONSTANTS
  Orgs,        \* organization ids; AUTOINCREMENT never gives one out twice
  Users,       \* users that have logged in
  Roles,       \* the roles that are given: all but "owner" are alike here
  Calls,       \* how many service calls may be in flight, as a set of names
  Operations,  \* the operations callers use
  ReadsMayFail \* whether reading a role may fail and the next statement succeed

AllOperations == {"create", "join", "approve", "reject", "add", "role", "remove",
                  "enable", "disable", "delete"}

ASSUME OrganizationAssumption ==
  /\ IsFiniteSet(Users)
  /\ IsFiniteSet(Orgs)
  /\ {"owner", "member"} \subseteq Roles /\ Roles \subseteq {"owner", "admin", "member"}
  /\ Operations \subseteq AllOperations
  /\ ReadsMayFail \in BOOLEAN

VARIABLES
  org,     \* org[o]: "unused", "enabled", "disabled" or "deleted"
  role,    \* role[o][u]: the role in organization_members, or "none"
  join,    \* join[o][u]: the status of the join request, or "none"
  granted, \* history: <<o, u>> for whoever has been a member of o
  call     \* call[c]: the statement call c executes next, and its arguments

members == <<role, granted>>
tables == <<org, members, join>>
vars == <<tables, call>>

\* at is the statement a call executes next, role the role it sets ("none" to
\* remove the member), listed what ListOrganizations told it.
\* History: the owners that were seen when the role was read or they were
\* counted, and whether GetOrganizationByID found the organization enabled.
IdleCall == [at |-> "idle"]

MemberCall ==
  [at : {"grant owner", "request", "mark approved", "count owners", "change"},
   org : Orgs, user : Users, role : Roles \cup {"none"}, seen : SUBSET Users]

OrgCall ==
  [at : {"get", "delete"}, org : Orgs, listed : SUBSET Orgs]
    \cup [at : {"disable"}, org : Orgs, listed : SUBSET Orgs, enabled : BOOLEAN]

AnyCall == {IdleCall} \cup MemberCall \cup OrgCall

TypeOK ==
  /\ org \in [Orgs -> {"unused", "enabled", "disabled", "deleted"}]
  /\ role \in [Orgs -> [Users -> Roles \cup {"none"}]]
  /\ join \in [Orgs -> [Users -> {"none", "pending", "approved", "rejected"}]]
  /\ granted \subseteq Orgs \X Users
  /\ call \in [Calls -> AnyCall]

Existing == {o \in Orgs : org[o] \in {"enabled", "disabled"}}
Enabled  == {o \in Orgs : org[o] = "enabled"}
Owners(o) == {u \in Users : role[o][u] = "owner"}

Idle(c) == call[c].at = "idle"

Return(c) == call' = [call EXCEPT ![c] = IdleCall]

\* The call goes on to statement s with these arguments.
Goto(c, s, o, u, r, seen) ==
  call' = [call EXCEPT ![c] = [at |-> s, org |-> o, user |-> u, role |-> r, seen |-> seen]]

\* UpsertOrganizationMember: the row refers to its organization, so the
\* statement fails, and changes nothing, when the organization is gone.
UpsertMember(o, u, r) ==
  IF o \in Existing
  THEN /\ role' = [role EXCEPT ![o][u] = r]
       /\ granted' = granted \cup {<<o, u>>}
  ELSE UNCHANGED members

\* SetOrganizationJoinRequestStatus is an UPDATE: no row, no effect.
SetStatus(o, u, status) ==
  join' = IF join[o][u] = "none" THEN join ELSE [join EXCEPT ![o][u] = status]

Init ==
  /\ org = [o \in Orgs |-> "unused"]
  /\ role = [o \in Orgs |-> [u \in Users |-> "none"]]
  /\ join = [o \in Orgs |-> [u \in Users |-> "none"]]
  /\ granted = {}
  /\ call = [c \in Calls |-> IdleCall]

-----------------------------------------------------------------------------
(* CreateOrganization.                                                     *)

InsertOrganization(c, o, u) ==
  /\ Idle(c)
  /\ "create" \in Operations
  /\ org[o] = "unused"
  /\ org' = [org EXCEPT ![o] = "enabled"]
  /\ Goto(c, "grant owner", o, u, "owner", {})
  /\ UNCHANGED <<members, join>>

\* The creator becomes the owner, in a statement of its own.
GrantOwner(c) ==
  /\ call[c].at = "grant owner"
  /\ UpsertMember(call[c].org, call[c].user, "owner")
  /\ Return(c)
  /\ UNCHANGED <<org, join>>

-----------------------------------------------------------------------------
(* Join requests.                                                          *)

\* RequestJoinByCode finds the organization that has the code.
LookupJoinCode(c, o, u) ==
  /\ Idle(c)
  /\ "join" \in Operations
  /\ o \in Existing
  /\ Goto(c, "request", o, u, "none", {})
  /\ UNCHANGED tables

\* UpsertOrganizationJoinRequest: whatever the request was, it is pending now.
RequestJoin(c) ==
  LET o == call[c].org IN
  /\ call[c].at = "request"
  /\ join' = IF o \in Existing THEN [join EXCEPT ![o][call[c].user] = "pending"] ELSE join
  /\ Return(c)
  /\ UNCHANGED <<org, members>>

\* Mutant: the request is marked first and the membership granted afterwards.
ApproveJoinRequest_MarksFirst(c, o, u) ==
  /\ Idle(c)
  /\ "approve" \in Operations
  /\ o \in Existing
  /\ SetStatus(o, u, "approved")
  /\ Goto(c, "change", o, u, "member", {})
  /\ UNCHANGED <<org, members>>

\* ApproveJoinRequest: the role becomes "member", whatever it was and whatever
\* the request says; a failed statement ends the call.
ApproveJoinRequest(c, o, u) ==
  /\ Idle(c)
  /\ "approve" \in Operations
  /\ o \in Existing
  /\ UpsertMember(o, u, "member")
  /\ Goto(c, "mark approved", o, u, "member", {})
  /\ UNCHANGED <<org, join>>

MarkApproved(c) ==
  /\ call[c].at = "mark approved"
  /\ SetStatus(call[c].org, call[c].user, "approved")
  /\ Return(c)
  /\ UNCHANGED <<org, members>>

\* RejectJoinRequest is a single statement, and does not ask for the status.
RejectJoinRequest(c, o, u) ==
  /\ Idle(c)
  /\ "reject" \in Operations
  /\ SetStatus(o, u, "rejected")
  /\ UNCHANGED <<org, members, call>>

-----------------------------------------------------------------------------
(* Members.                                                                *)

\* AddMemberByLookup upserts any role for a known user.
AddMember(c, o, u, r) ==
  /\ Idle(c)
  /\ "add" \in Operations
  /\ UpsertMember(o, u, r)
  /\ UNCHANGED <<org, join, call>>

\* The first statement of UpdateMemberRole (r a role) and of RemoveMember (r is
\* "none"): an owner who is to lose the role has the owners counted first.  An
\* owner's promotion reads nothing, and nobody is removed who is no member.
ReadRole(c, o, u, r) ==
  /\ Idle(c)
  /\ IF r = "none" THEN "remove" \in Operations ELSE "role" \in Operations
  /\ r = "none" => role[o][u] # "none"
  /\ IF r # "owner" /\ role[o][u] = "owner"
     THEN Goto(c, "count owners", o, u, r, {})
     ELSE Goto(c, "change", o, u, r, IF r = "owner" THEN {} ELSE Owners(o))
  /\ UNCHANGED tables

\* UpdateMemberRole takes any error of that read for "not an owner".
ReadRoleFails(c, o, u, r) ==
  /\ Idle(c)
  /\ ReadsMayFail
  /\ "role" \in Operations
  /\ r # "owner"
  /\ Goto(c, "change", o, u, r, {})
  /\ UNCHANGED tables

\* Mutant: the guard lets the last owner go.
CountOwners_OffByOne(c) ==
  /\ call[c].at = "count owners"
  /\ IF Cardinality(Owners(call[c].org)) < 1 THEN Return(c)
     ELSE Goto(c, "change", call[c].org, call[c].user, call[c].role, Owners(call[c].org))
  /\ UNCHANGED tables

\* The guard against losing the last owner.
CountOwners(c) ==
  /\ call[c].at = "count owners"
  /\ IF Cardinality(Owners(call[c].org)) <= 1 THEN Return(c)
     ELSE Goto(c, "change", call[c].org, call[c].user, call[c].role, Owners(call[c].org))
  /\ UNCHANGED tables

\* Mutant: foreign keys are not enforced on this connection.
ChangeMember_NoForeignKey(c) ==
  /\ call[c].at = "change"
  /\ role' = [role EXCEPT ![call[c].org][call[c].user] = call[c].role]
  /\ Return(c)
  /\ UNCHANGED <<org, join, granted>>

\* The last statement: the upsert of the role, or the DELETE.
ChangeMember(c) ==
  LET o == call[c].org
      u == call[c].user
      r == call[c].role
  IN
  /\ call[c].at = "change"
  /\ IF r = "none"
     THEN role' = [role EXCEPT ![o][u] = "none"] /\ UNCHANGED granted
     ELSE UpsertMember(o, u, r)
  /\ Return(c)
  /\ UNCHANGED <<org, join>>

-----------------------------------------------------------------------------
(* SetOrganizationEnabled and DeleteOrganization.                          *)

EnableOrganization(c, o) ==
  /\ Idle(c)
  /\ "enable" \in Operations
  /\ o \in Existing
  /\ org' = [org EXCEPT ![o] = "enabled"]
  /\ UNCHANGED <<members, join, call>>

\* ListOrganizations, from which the enabled ones are counted.
CountEnabled(c, o) ==
  /\ Idle(c)
  /\ "disable" \in Operations
  /\ call' = [call EXCEPT ![c] = [at |-> "get", org |-> o, listed |-> Enabled]]
  /\ UNCHANGED tables

GotoDisable(c) ==
  LET o == call[c].org IN
  call' = [call EXCEPT ![c] =
    [at |-> "disable", org |-> o, listed |-> call[c].listed, enabled |-> o \in Enabled]]

\* Mutant: the count is compared before asking whether this one is enabled.
GetOrganization_AnyEnabled(c) ==
  LET o == call[c].org IN
  /\ call[c].at = "get"
  /\ IF o \notin Existing \/ call[c].listed = {} THEN Return(c)
     ELSE GotoDisable(c)
  /\ UNCHANGED tables

\* GetOrganizationByID: the call ends when the organization is gone, or is the
\* only enabled one.
GetOrganization(c) ==
  LET o == call[c].org IN
  /\ call[c].at = "get"
  /\ IF o \notin Existing \/ (o \in Enabled /\ Cardinality(call[c].listed) <= 1) THEN Return(c)
     ELSE GotoDisable(c)
  /\ UNCHANGED tables

DisableOrganization(c) ==
  LET o == call[c].org IN
  /\ call[c].at = "disable"
  /\ org' = IF o \in Existing THEN [org EXCEPT ![o] = "disabled"] ELSE org
  /\ Return(c)
  /\ UNCHANGED <<members, join>>

\* Mutant: the deleted organizations are still counted.
ListOrganizations_CountsDeleted(c, o) ==
  /\ Idle(c)
  /\ "delete" \in Operations
  /\ Cardinality({p \in Orgs : org[p] # "unused"}) > 1
  /\ call' = [call EXCEPT ![c] = [at |-> "delete", org |-> o, listed |-> Existing]]
  /\ UNCHANGED tables

\* ListOrganizations: the only organization is not deleted.
ListOrganizations(c, o) ==
  /\ Idle(c)
  /\ "delete" \in Operations
  /\ Cardinality(Existing) > 1
  /\ call' = [call EXCEPT ![c] = [at |-> "delete", org |-> o, listed |-> Existing]]
  /\ UNCHANGED tables

\* The members and the join requests cascade.
DeleteOrganization(c) ==
  LET o == call[c].org IN
  /\ call[c].at = "delete"
  /\ org' = IF o \in Existing THEN [org EXCEPT ![o] = "deleted"] ELSE org
  /\ role' = [role EXCEPT ![o] = [u \in Users |-> "none"]]
  /\ join' = [join EXCEPT ![o] = [u \in Users |-> "none"]]
  /\ granted' = {m \in granted : m[1] # o}
  /\ Return(c)

-----------------------------------------------------------------------------

\* A call ends between two statements: its request is canceled, a statement
\* waits too long for the write lock, or the process dies.
Abort(c) ==
  /\ ~Idle(c)
  /\ Return(c)
  /\ UNCHANGED tables

Next ==
  \E c \in Calls :
    \/ \E o \in Orgs, u \in Users :
         \/ InsertOrganization(c, o, u)
         \/ LookupJoinCode(c, o, u)
         \/ ApproveJoinRequest(c, o, u)
         \/ RejectJoinRequest(c, o, u)
         \/ \E r \in Roles : AddMember(c, o, u, r) \/ ReadRoleFails(c, o, u, r)
         \/ \E r \in Roles \cup {"none"} : ReadRole(c, o, u, r)
    \/ \E o \in Orgs : EnableOrganization(c, o) \/ CountEnabled(c, o) \/ ListOrganizations(c, o)
    \/ GrantOwner(c) \/ RequestJoin(c) \/ MarkApproved(c)
    \/ CountOwners(c) \/ ChangeMember(c)
    \/ GetOrganization(c) \/ DisableOrganization(c) \/ DeleteOrganization(c)
    \/ Abort(c)

Spec == Init /\ [][Next]_vars
-----------------------------------------------------------------------------
(* Properties.                                                             *)

OwnerLost(o) == o \in Existing \cap Existing' /\ Owners(o) # {} /\ Owners(o)' = {}

\* An organization that has an owner keeps one for as long as it exists: no
\* change of its members takes the last owner away.
OwnerIsKept == [][\A o \in Orgs : ~OwnerLost(o)]_vars

\* The last organization is never deleted.
OneOrganizationRemains == [][Existing # {} => Existing' # {}]_vars

\* Any number of calls may write between the statements of another.  This is
\* what the guards are worth then: each holds for as long as what it has read
\* is still so.

\* UpdateMemberRole and RemoveMember take the last owner away only when one of
\* the owners they saw has lost the role since, or when they saw no owner in
\* their user: it became one since, or the role could not be read
\* (organization_management.go:338, :359).
LastOwnerGuard ==
  [][\A c \in Calls, o \in Orgs :
       ChangeMember(c) /\ OwnerLost(o) =>
         \/ call[c].user \notin call[c].seen
         \/ \E v \in call[c].seen : role[o][v] # "owner"]_vars

\* The last organization is deleted only by a call that was told of another one
\* and after that one was deleted (organization_management.go:415).
LastOrganizationGuard ==
  [][Existing # {} /\ Existing' = {} =>
       \E c \in Calls :
         /\ call[c].at = "delete"
         /\ \E p \in call[c].listed : org[p] = "deleted"]_vars

\* The last enabled organization is disabled only by a call that was told of
\* another one that is not enabled any more, or that found this one disabled
\* (organization_management.go:386, :396).
LastEnabledGuard ==
  [][\A o \in Enabled : org'[o] = "disabled" /\ Enabled' = {} =>
       \E c \in Calls :
         /\ call[c].at = "disable" /\ call[c].org = o
         /\ call[c].enabled => \E p \in call[c].listed : p \notin Enabled]_vars

\* Whoever a join request is approved of has been made a member first, wherever
\* a call ended and whatever others did in between (organization_management.go:295).
ApprovedWereMembers ==
  \A o \in Orgs, u \in Users : join[o][u] = "approved" => <<o, u>> \in granted

\* A deletion is final: no call that was under way brings the organization
\* back, or leaves a member or a join request that belongs to none.
DeletionIsFinal ==
  [][\A o \in Orgs : org[o] = "deleted" =>
       /\ org'[o] = "deleted"
       /\ \A u \in Users : role'[o][u] = "none" /\ join'[o][u] = "none"]_vars
=============================================================================
