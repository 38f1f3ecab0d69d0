------------------------- MODULE EvaluatorService --------------------------
(***************************************************************************)
(* What the command backend promises to the controller, without pipes,     *)
(* signals and processes: stage calls come one at a time, and each one     *)
(* comes back, answered or failed.  A search call is submitted once, to    *)
(* the one incarnation of the evaluator that is alive; an incarnation      *)
(* serves MaxRequests calls at most and none after one it failed; the      *)
(* final stage and the end of the run find no incarnation alive.           *)
(***************************************************************************)
EXTENDS Naturals

CONSTANTS
  MaxRequests,  \* worker_max_requests
  MaxCalls      \* bound: stage calls of the controller

VARIABLES
  call,         \* the stage call under way, and how far it is
  calls,        \* number of stage calls so far
  incarnation,  \* number of the newest incarnation
  alive,        \* whether it may still evaluate something
  load,         \* calls that were submitted to it
  answered      \* those of them that it answered

evaluator == <<incarnation, alive, load, answered>>
serviceVars == <<call, calls, evaluator>>

Init ==
  /\ call = "idle" /\ calls = 0
  /\ incarnation = 0 /\ alive = FALSE /\ load = 0 /\ answered = 0

Begin ==
  /\ call = "idle" /\ calls < MaxCalls
  /\ call' \in {"search", "isolating"} /\ calls' = calls + 1
  /\ UNCHANGED evaluator

(* An incarnation takes the place of one that is gone.                     *)
Incarnate ==
  /\ call = "search" /\ ~alive
  /\ incarnation' = incarnation + 1 /\ alive' = TRUE
  /\ load' = 0 /\ answered' = 0
  /\ UNCHANGED <<call, calls>>

(* Only what was answered for all it got gets more.                        *)
Submit ==
  /\ call = "search" /\ alive
  /\ load = answered /\ load < MaxRequests
  /\ call' = "submitted" /\ load' = load + 1
  /\ UNCHANGED <<calls, incarnation, alive, answered>>

(* The answer may arrive after its incarnation has died.                   *)
Answered ==
  /\ call = "submitted" /\ load = answered + 1
  /\ call' = "idle" /\ answered' = load
  /\ UNCHANGED <<calls, incarnation, alive, load>>

(* An incarnation ends at any time, by itself or not.                      *)
Ends == alive /\ alive' = FALSE /\ UNCHANGED <<call, calls, incarnation, load, answered>>

(* The call has failed; it comes back when its incarnation is no more.     *)
Failing ==
  /\ call \in {"search", "submitted"} /\ call' = "failing"
  /\ UNCHANGED <<calls, evaluator>>

Failed ==
  /\ call \in {"search", "failing", "isolating"} /\ ~alive
  /\ call' = "idle" /\ UNCHANGED <<calls, evaluator>>

(* The final stage, alone.                                                 *)
Isolated ==
  /\ call = "isolating" /\ ~alive
  /\ call' = "final" /\ UNCHANGED <<calls, evaluator>>

FinalEnds == call = "final" /\ call' = "idle" /\ UNCHANGED <<calls, evaluator>>

Close ==
  /\ call = "idle" /\ call' = "closing" /\ UNCHANGED <<calls, evaluator>>

Closed ==
  /\ call = "closing" /\ ~alive
  /\ call' = "closed" /\ UNCHANGED <<calls, evaluator>>

Next ==
  \/ Begin \/ Incarnate \/ Submit \/ Answered \/ Ends \/ Failing \/ Failed
  \/ Isolated \/ FinalEnds \/ Close \/ Closed

Spec == Init /\ [][Next]_serviceVars
=============================================================================
