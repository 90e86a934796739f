----------------------------- MODULE MCFragments -----------------------------
(***************************************************************************)
(* Someone who is a member of two organizations, with two requests under   *)
(* way.                                                                    *)
(***************************************************************************)
EXTENDS Fragments, TLC

CONSTANT alice

Everywhere == alice :> Orgs
=============================================================================
