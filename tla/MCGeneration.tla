---------------------------- MODULE MCGeneration ----------------------------
(***************************************************************************)
(* Small instances of Generation for TLC.  The bounds are the constants:   *)
(* agents, retries, slots of a call, and calls.                            *)
(***************************************************************************)
EXTENDS Generation
=============================================================================
