------------------------------- MODULE MCOwners -------------------------------
(***************************************************************************)
(* Owners for TLC: one service and windows of the configurator.            *)
(***************************************************************************)
EXTENDS Owners
=============================================================================
