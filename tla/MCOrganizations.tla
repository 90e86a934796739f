---------------------------- MODULE MCOrganizations ----------------------------
(***************************************************************************)
(* Small instances of Organizations.  Organizations, users and calls are   *)
(* interchangeable: nothing orders them.                                   *)
(* Members and join requests of one organization meet only each other, so  *)
(* the instances need few of them.                                         *)
(***************************************************************************)
EXTENDS Organizations, TLC

CONSTANT Rows \* bound: how many memberships and join requests there are

JoinRequests == {m \in Orgs \X Users : join[m[1]][m[2]] # "none"}

FewRows == Cardinality(granted) + Cardinality(JoinRequests) <= Rows

MCNext == Next /\ FewRows'
MCSpec == Init /\ [][MCNext]_vars

Interchangeable ==
  Permutations(Orgs) \cup Permutations(Users) \cup Permutations(Calls)
=============================================================================
