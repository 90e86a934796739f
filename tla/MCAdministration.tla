--------------------------- MODULE MCAdministration ---------------------------
(***************************************************************************)
(* Two organizations with one service, and one installation that a         *)
(* deployment is reported from.                                            *)
(***************************************************************************)
EXTENDS Integrations

CONSTANT app

Report(hook, state) == [hook |-> hook, state |-> state, from |-> app, env |-> 2]

Upgrade == {Report("deployment_status", "in_progress")}
Nobody  == {}

Interchangeable == Permutations(Calls)
=============================================================================
