------------------------- MODULE MCOnlineFeedback --------------------------
(***************************************************************************)
(* Small instances of OnlineFeedback for TLC.                              *)
(***************************************************************************)
EXTENDS OnlineFeedback

CONSTANT Low   \* the finer part of a regime

(* A regime is known by its coarse part and its finer one.                 *)
OneRegime == {<<"compute", Low>>}
=============================================================================
