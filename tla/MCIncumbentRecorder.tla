------------------------ MODULE MCIncumbentRecorder ------------------------
(* Instances of the incumbent recorder.  The seed has the largest          *)
(* identifier, so that a proposal as fast as the seed replaces it.         *)
EXTENDS IncumbentRecorder

TwoKernels == 1..2
TwoLatencies == 1..2
=============================================================================
