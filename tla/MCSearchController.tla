------------------------- MODULE MCSearchController -------------------------
(***************************************************************************)
(* Small instances of SearchController for TLC.  The bounds are the        *)
(* constants themselves: how many different sources, latencies and         *)
(* compiled identities there are, how many rounds, proposals and repairs   *)
(* the budget grants, and how often a run is resumed.                      *)
(***************************************************************************)
EXTENDS SearchController

(* The input kernel and the sources a generator can come up with. *)
ThreeSources == 1..3

(* Two latencies tell faster from slower, and equal ones from the tie.     *)
OneLatency   == {1}
TwoLatencies == {1, 2}

(* One identity is enough for two candidates to compile to the same code,  *)
(* "unhashed" is always possible besides.                                  *)
OneIdentity == {"h1"}
NoIdentity  == {}

(* One category lets the circuit breaker open.                             *)
NoOutage  == {}
GpuOutage == {"gpu"}
=============================================================================
