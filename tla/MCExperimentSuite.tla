------------------------- MODULE MCExperimentSuite -------------------------
(***************************************************************************)
(* Small instances of ExperimentSuite for TLC: one kernel in two styles,   *)
(* two time budgets, and the options below.                                *)
(***************************************************************************)
EXTENDS ExperimentSuite

OneKernel  == <<"matmul">>
TwoStyles  == <<"native", "avo">>
TwoCells   == {"matmul"} \X {"native", "avo"}
AllDrivers == Drivers

Plain(name) ==
  [driver |-> name, task |-> "basic", mode |-> "rounds", cap |-> 0, kernels |-> {},
   styles |-> {}, proceed |-> FALSE, resume |-> FALSE]
FixedTime(cap) ==
  [Plain("related") EXCEPT !.mode = "fixed-time", !.cap = cap, !.proceed = TRUE]

(* A short and a long budget; one cell only, fail-fast; a task that has    *)
(* been changed; and the old budget of rounds.                             *)
Comparison ==
  {FixedTime(1), FixedTime(3),
   [FixedTime(3) EXCEPT !.styles = {"avo"}, !.proceed = FALSE],
   [FixedTime(1) EXCEPT !.task = "large"],
   [Plain("related") EXCEPT !.cap = 1]}

Others ==
  {Plain("ablation"), [Plain("ablation") EXCEPT !.styles = {"avo"}, !.task = "large"]}
  \cup [driver : {"policies", "compression"}, task : {"basic"}, mode : {"rounds"},
        cap : {0}, kernels : {{}}, styles : {{}}, proceed : {FALSE},
        resume : BOOLEAN]
  \cup {[Plain("compression") EXCEPT !.task = "large"]}

AllOptions == Comparison \cup Others
=============================================================================
