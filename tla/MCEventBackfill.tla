--------------------------- MODULE MCEventBackfill ---------------------------
(***************************************************************************)
(* The events of MCServiceProjections, with two rows of the old table: one *)
(* failed at a time between those of the events, the other's time cannot   *)
(* be parsed.                                                              *)
(***************************************************************************)
EXTENDS MCServiceProjections, EventBackfill

CONSTANT v3

ById == <<o1, o2>>

OldDeployments ==
  <<[subject |-> pay, env |-> "prod", status |-> "error",  deployedAt |-> 1,        artifact |-> v3],
    [subject |-> pay, env |-> "prod", status |-> "queued", deployedAt |-> Unparsed, artifact |-> v2]>>

Either == Permutations(Backfills)
=============================================================================
