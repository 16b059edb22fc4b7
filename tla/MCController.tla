----------------------------- MODULE MCController -----------------------------
(***************************************************************************)
(* Controller for TLC: two clients, one of them patient, one serial port   *)
(* and one scan job.  Everything is given by the configuration.            *)
(***************************************************************************)
EXTENDS Controller
=============================================================================
