--------------------------- MODULE TreatmentRun ---------------------------
(***************************************************************************)
(* One run of the command line (src/src/kernel_optimization/cli.py, main)  *)
(* as the experiment drivers see it: a process that opens the directory of *)
(* a treatment, starts or resumes the search there, and ends with an exit  *)
(* status.  The search itself is the subject of SearchController; here it  *)
(* is what it means to a driver: how much search time the checkpoint       *)
(* holds, why the search ended, whether the seed passed final validation,  *)
(* and what summary.json says.                                             *)
(*                                                                         *)
(* Time is counted in operations: one call of the API, the compiler or the *)
(* GPU takes one unit, and none is interrupted by the deadline.  The files *)
(* of a directory are replaced as a whole (archive.py).                    *)
(*                                                                         *)
(* The preset of a style has two parts.  A checkpoint and a summary name   *)
(* its policies: the style, the evaluation, evidence, selection, profile,  *)
(* deduplication and the two search policies.  Its extras are named by     *)
(* neither: budget overrides, prompt guidance, the workers, and the NCU    *)
(* set that goes with a policy (baseline_styles.py, 387-421).  They are    *)
(* applied in the process, after the task file of a driver was written.    *)
(***************************************************************************)
EXTENDS Integers, Sequences, FiniteSets, SequencesExt, FiniteSetsExt

CONSTANTS
  Treatment,   \* directories, one for each cell of an experiment
  Task,        \* contents of a task file
               \* (with the task_id and the input source of the directory:
               \* ArtifactStore.initialize compares nothing else)
  Rounds,      \* rounds that the task grants
  MaxSpent,    \* bound: search time that is told apart
  MaxFaults,   \* bound: failures of the environment
  MaxUpgrades  \* bound: changes of the style presets in the source

ASSUME TreatmentAssumption ==
  /\ IsFiniteSet(Treatment) /\ Task # {}
  /\ Rounds \in Nat \ {0} /\ MaxSpent \in Nat \ {0}
  /\ MaxFaults \in Nat /\ MaxUpgrades \in Nat

Versions == 0..MaxUpgrades    \* versions of a part of the style presets
Spent    == 0..MaxSpent
Reasons == {"time-budget", "round-ceiling-before-time-budget",
            "round-budget-completed", "no-new-valid-candidates"}
Limits  == {"local", "provider"}

NoCheckpoint == [rounds |-> -1, spent |-> 0, policies |-> 0, until |-> FALSE]
NoSummary    == [reason |-> "none", cap |-> 0, spent |-> 0, policies |-> 0,
                 finals |-> FALSE]

(***************************************************************************)
(* The directory of a treatment before its first run.  "seed" is the final *)
(* measurement in the record of the seed, "limits" the prompt limits that  *)
(* archived API calls were refused for, "failure" whether failure.json     *)
(* exists: no run removes it.                                              *)
(***************************************************************************)
Unused == [made |-> FALSE, checkpoint |-> NoCheckpoint, seed |-> "unseen",
           limits |-> {}, failure |-> FALSE, summary |-> NoSummary]

NoJob == [at |-> "none", code |-> 0]

VARIABLES
  archive,  \* durable: the directory of each treatment
  child,    \* the process that a driver waits for, or NoJob
  policies, \* version of the presets' policies in the source
  extras,   \* version of what else the presets set
  faults,   \* failures of the environment so far
  worked    \* history: tasks and presets of the work that is in each archive

presets == <<policies, extras>>
runVars == <<archive, child, presets, faults, worked>>

Job == [t : Treatment, cap : Nat, until : BOOLEAN, resume : BOOLEAN, task : Task]

\* The arguments that build_command passes on.
Launched(job) ==
  [at |-> "open", code |-> 0, job |-> job, rounds |-> 0, spent |-> 0,
   reason |-> "none"]

Here == archive[child.job.t]

Put(directory) == archive' = [archive EXCEPT ![child.job.t] = directory]
Exit(code)     == child' = [child EXCEPT !.at = "exited", !.code = code]
Go(at)         == child' = [child EXCEPT !.at = at]
Fault          == faults < MaxFaults /\ faults' = faults + 1

\* The controller's except branch: failure.json is written, the exception
\* goes on.
Raise(directory) == Put([directory EXCEPT !.failure = TRUE]) /\ Exit(1)

-----------------------------------------------------------------------------
(***************************************************************************)
(* main up to the artifact store: a resume needs a directory, anything     *)
(* else an empty one; a missing key or file ends the process before the    *)
(* directory is touched.  The store creates the directory and writes       *)
(* task.json once.                                                         *)
(***************************************************************************)
Open ==
  /\ child.at = "open"
  /\ \/ /\ child.job.resume # Here.made
        /\ Exit(1) /\ UNCHANGED <<archive, faults>>
     \/ Fault /\ Exit(1) /\ UNCHANGED archive
     \/ /\ child.job.resume = Here.made
        /\ Put([Here EXCEPT !.made = TRUE])
        /\ Go("preflight") /\ UNCHANGED faults
  /\ UNCHANGED <<presets, worked>>

\* The request that checks the API before any work is done.
Preflight ==
  /\ child.at = "preflight"
  /\ \/ Go("begin") /\ UNCHANGED <<archive, faults>>
     \/ Fault /\ Raise(Here)
  /\ UNCHANGED <<presets, worked>>

Saved(rounds, spent) ==
  [Here EXCEPT !.checkpoint = [rounds |-> rounds, spent |-> spent,
                               policies |-> policies, until |-> child.job.until]]

Work == [task : Task, policies : Versions, extras : Versions]
Used == worked' = [worked EXCEPT
  ![child.job.t] = @ \cup
    {[task |-> child.job.task, policies |-> policies, extras |-> extras]}]

\* _experiment_config: the policies of the checkpoint are those of this run.
\* Neither the time limit nor the extras of a preset are among them.
Bug_AnyExperiment(checkpoint) == TRUE
SameExperiment(checkpoint) ==
  checkpoint.policies = policies /\ checkpoint.until = child.job.until

(***************************************************************************)
(* OptimizationController.run up to the search loop.  A checkpoint is      *)
(* restored with the search time it counted, unless it belongs to another  *)
(* experiment; without one the seed is evaluated and checkpointed.         *)
(***************************************************************************)
Restored(checkpoint) ==
  child' = [child EXCEPT !.at = "search", !.rounds = checkpoint.rounds,
                         !.spent = checkpoint.spent]

Begin ==
  /\ child.at = "begin" /\ UNCHANGED presets
  /\ IF Here.checkpoint # NoCheckpoint
     THEN /\ IF SameExperiment(Here.checkpoint)
             THEN Restored(Here.checkpoint) /\ UNCHANGED archive
             ELSE Raise(Here)
          /\ UNCHANGED <<faults, worked>>
     ELSE \/ /\ child' = [child EXCEPT !.at = "search", !.spent = 1]
             /\ Put(Saved(0, 1)) /\ Used /\ UNCHANGED faults
          \/ Fault /\ Raise(Here) /\ UNCHANGED worked

-----------------------------------------------------------------------------
OutOfTime == child.job.cap > 0 /\ child.spent >= child.job.cap
Longer    == Min({child.spent + 1, MaxSpent})

(***************************************************************************)
(* An operation of the search.  It may end the round, which checkpoints    *)
(* it; a stage in between may be checkpointed too.  When no more time is   *)
(* told apart the operation ends its round.                                *)
(***************************************************************************)
Operate ==
  /\ child.at = "search" /\ child.rounds < Rounds /\ ~OutOfTime
  /\ \E done, saved \in BOOLEAN :
       LET rounds == child.rounds + (IF done THEN 1 ELSE 0)
           spent  == Longer
       IN /\ done => saved
          /\ child.spent = MaxSpent => done
          /\ child' = [child EXCEPT !.rounds = rounds, !.spent = spent]
          /\ IF saved THEN Put(Saved(rounds, spent)) ELSE UNCHANGED archive
  /\ Used /\ UNCHANGED <<presets, faults>>

\* An API call is refused for the size of its prompt, or anything else fails.
OperationFails ==
  /\ child.at = "search" /\ child.rounds < Rounds /\ ~OutOfTime
  /\ Fault
  /\ \E limits \in {{}} \cup {{limit} : limit \in Limits} :
       Raise([Here EXCEPT !.limits = @ \cup limits])
  /\ Used /\ UNCHANGED presets

Leave(reason) == child' = [child EXCEPT !.at = "final", !.reason = reason]

\* _stop_for_time_budget, at the first look at the clock that is too late.
StopForTime ==
  /\ child.at = "search" /\ child.rounds < Rounds /\ OutOfTime
  /\ Put(Saved(child.rounds, child.spent)) /\ Leave("time-budget")
  /\ UNCHANGED <<presets, faults, worked>>

\* A round without a valid candidate ends a search that is not told to use
\* up its time.
StopEmpty ==
  /\ child.at = "search" /\ child.rounds < Rounds /\ ~OutOfTime
  /\ ~child.job.until
  /\ child' = [child EXCEPT !.at = "final", !.spent = Longer,
                            !.reason = "no-new-valid-candidates"]
  /\ Put(Saved(child.rounds, Longer))
  /\ Used /\ UNCHANGED <<presets, faults>>

\* After the last round: only a search that uses up its time looks again.
RoundsOver ==
  /\ child.at = "search" /\ child.rounds = Rounds
  /\ Leave(IF ~child.job.until THEN "round-budget-completed"
           ELSE IF OutOfTime THEN "time-budget"
           ELSE "round-ceiling-before-time-budget")
  /\ UNCHANGED <<archive, presets, faults, worked>>

(***************************************************************************)
(* Final validation of the seed, once: its result is kept in the record,   *)
(* and a seed that failed ends every later run here too.                   *)
(***************************************************************************)
Finalize ==
  /\ child.at = "final" /\ UNCHANGED presets
  /\ CASE Here.seed = "failed" -> Raise(Here) /\ UNCHANGED <<faults, worked>>
       [] Here.seed = "passed" ->
            /\ Put(Saved(child.rounds, child.spent)) /\ Go("report")
            /\ UNCHANGED <<faults, worked>>
       [] OTHER ->
            /\ Used
            /\ \/ /\ Put([Saved(child.rounds, child.spent)
                           EXCEPT !.seed = "passed"])
                  /\ Go("report") /\ UNCHANGED faults
               \/ Fault /\ Raise([Here EXCEPT !.seed = "failed"])

(***************************************************************************)
(* summary.json, then the other reports and the last checkpoint: a run     *)
(* that fails there leaves a summary behind.                               *)
(***************************************************************************)
Bug_Report ==
  /\ child.at = "report"
  /\ Put([Here EXCEPT !.summary =
            [reason |-> child.reason, cap |-> child.job.cap,
             spent |-> child.spent, policies |-> policies, finals |-> FALSE]])
  /\ Go("close") /\ UNCHANGED <<presets, faults, worked>>
Report ==
  /\ child.at = "report"
  /\ Put([Here EXCEPT !.summary =
            [reason |-> child.reason, cap |-> child.job.cap,
             spent |-> child.spent, policies |-> policies, finals |-> TRUE]])
  /\ Go("close") /\ UNCHANGED <<presets, faults, worked>>

Close ==
  /\ child.at = "close"
  /\ \/ /\ Put(Saved(child.rounds, child.spent)) /\ Exit(0)
        /\ UNCHANGED faults
     \/ Fault /\ Raise(Here)
  /\ UNCHANGED <<presets, worked>>

Running == child.at \notin {"none", "exited"}

\* The process is killed.
Die ==
  /\ Running /\ Fault /\ Exit(1)
  /\ UNCHANGED <<archive, presets, worked>>

ChildStep ==
  \/ Open \/ Preflight \/ Begin \/ Operate \/ OperationFails \/ StopForTime
  \/ StopEmpty \/ RoundsOver \/ Finalize \/ Report \/ Close \/ Die
=============================================================================
