-------------------------- MODULE ExperimentSuite --------------------------
(***************************************************************************)
(* The scripts that run experiments, one treatment after the other:        *)
(*                                                                         *)
(*   related      run_final_related_system_baselines.py                    *)
(*   ablation     run_final_matmul_ablation.py, also for the fused kernel  *)
(*   policies     run_experiment_suite.py                                  *)
(*   compression  run_metadata_compression_ablation.py                     *)
(*                                                                         *)
(* An output root belongs to one script.  The operator starts the script   *)
(* again and again, with other options when they like, or after the source *)
(* has changed its style presets.  For each treatment the script uses the  *)
(* result that is there, refuses, or runs the command line and waits for   *)
(* it; a process that fails or is killed leaves a directory that a later   *)
(* invocation may resume.                                                  *)
(*                                                                         *)
(* Numbers of a report other than search times, its layout, and the shape  *)
(* of a workload are left out; a task file is a value.                     *)
(***************************************************************************)
EXTENDS TreatmentRun

CONSTANTS
  Driver,   \* the scripts an output root may belong to
  Kernels,  \* KERNELS, a sequence
  Styles,   \* ALL_STYLES, a sequence; the other scripts name treatments so
  Options,  \* bound: the options an operator uses
  Legacy    \* whether a treatment may have a result of an older version

Drivers == {"related", "ablation", "policies", "compression"}

(***************************************************************************)
(* Options of an invocation.  kernels and styles are the filters, {} for   *)
(* none; mode and cap matter to the related-system comparison, "proceed"   *)
(* is its --continue-on-error, resume is given to the last two scripts.    *)
(***************************************************************************)
Option == [driver : Drivers, task : Task, mode : {"fixed-time", "rounds"},
           cap : Nat, kernels : SUBSET ToSet(Kernels),
           styles : SUBSET ToSet(Styles), proceed : BOOLEAN, resume : BOOLEAN]

ASSUME SuiteAssumption ==
  /\ Driver \subseteq Drivers /\ Options \subseteq Option
  /\ \A s \in {Kernels, Styles} : s \in Seq(ToSet(s)) /\ s # <<>> /\ IsInjective(s)
  /\ Treatment = ToSet(Kernels) \X ToSet(Styles)
  /\ \A o \in Options :
       /\ o.cap <= MaxSpent /\ (o.mode = "fixed-time" => o.cap > 0)
       /\ o.driver = "compression" => o.kernels = {} /\ o.styles = {}
  /\ Legacy \in BOOLEAN

VARIABLES
  driver,   \* the script of this output root
  asked,    \* options of the last invocation
  pc,       \* "off", "prepare" or "loop"
  next,     \* index of the present treatment
  rows,     \* rows so far, in memory
  failed,   \* failure_code # 0; in the last script: that of "compressed"
  tasks,    \* durable: the effective task files
  report,   \* durable: the rows of the aggregate report
  exit      \* how the last invocation ended

suiteVars == <<driver, asked, pc, next, rows, failed, tasks, report, exit>>
vars      == <<archive, child, presets, faults, worked, suiteVars>>

NoTask   == [task |-> "none", mode |-> "none"]
TornTask == [task |-> "torn", mode |-> "none"]
NoReport == [on |-> FALSE, option |-> CHOOSE o \in Options : TRUE, rows |-> <<>>]

(***************************************************************************)
(* Kernel by kernel, and for each the styles in their order.               *)
(***************************************************************************)
Matrix == [i \in 1..Len(Kernels) * Len(Styles) |->
            <<Kernels[((i - 1) \div Len(Styles)) + 1],
              Styles[((i - 1) % Len(Styles)) + 1]>>]

Selects(option, t) ==
  /\ option.kernels # {} => t[1] \in option.kernels
  /\ option.styles # {} => t[2] \in option.styles

SelectedTreatments(option) ==
  LET upTo[i \in 0..Len(Matrix)] ==
        IF i = 0 THEN <<>>
        ELSE IF Selects(option, Matrix[i]) THEN Append(upTo[i - 1], Matrix[i])
        ELSE upTo[i - 1]
  IN upTo[Len(Matrix)]

Plan == SelectedTreatments(asked)
Now  == Plan[next]

(***************************************************************************)
(* A directory with a result of an older version, which knew of no final   *)
(* validation outside the time budget.                                     *)
(***************************************************************************)
OldResult(cap, task) ==
  [Unused EXCEPT
    !.made = TRUE,
    !.checkpoint = [rounds |-> 0, spent |-> cap, policies |-> 0, until |-> TRUE],
    !.summary = [reason |-> "time-budget", cap |-> cap, spent |-> cap,
                 policies |-> 0, finals |-> FALSE]]

Init ==
  /\ driver \in Driver /\ asked \in {o \in Options : o.driver = driver}
  /\ pc = "off" /\ next = 1 /\ rows = <<>> /\ failed = FALSE /\ exit = "none"
  /\ report = NoReport
  /\ child = NoJob /\ policies = 0 /\ extras = 0 /\ faults = 0
  /\ \/ /\ archive = [t \in Treatment |-> Unused]
        /\ tasks = [t \in Treatment |-> NoTask]
        /\ worked = [t \in Treatment |-> {}]
     \/ /\ Legacy /\ driver = "related" /\ asked.mode = "fixed-time"
        /\ \E old \in Treatment :
             /\ archive = [t \in Treatment |->
                  IF t = old THEN OldResult(asked.cap, asked.task) ELSE Unused]
             /\ tasks = [t \in Treatment |-> IF t = old
                  THEN [task |-> asked.task, mode |-> "fixed-time"] ELSE NoTask]
             /\ worked = [t \in Treatment |->
                  IF t = old THEN {[task |-> asked.task, policies |-> 0, extras |-> 0]}
                  ELSE {}]

-----------------------------------------------------------------------------
Start(option) ==
  /\ pc = "off" /\ option.driver = driver
  /\ asked' = option /\ pc' = "prepare"
  /\ exit' = "none"
  /\ UNCHANGED <<runVars, driver, next, rows, failed, tasks, report>>

\* The process ends, and what it had in memory is gone.
Stop(how) == /\ pc' = "off" /\ exit' = how
             /\ next' = 1 /\ rows' = <<>> /\ failed' = FALSE
GoOn == pc' = "loop" /\ UNCHANGED <<exit, next, rows, failed>>

(***************************************************************************)
(* The effective task is written before anything runs and never replaced   *)
(* by a different one: per treatment, in the order of the plan, or one for *)
(* both treatments as long as neither has a directory.  The other scripts  *)
(* pass on the task they are given.  A script that is interrupted while it *)
(* writes one leaves a torn file, which is no task and differs from all.   *)
(***************************************************************************)
Effective == [task |-> asked.task, mode |-> asked.mode]

Conflicts(t) == tasks[t] \notin {NoTask, Effective}

FirstConflict ==
  LET conflicts == {i \in DOMAIN Plan : Conflicts(Plan[i])}
  IN IF conflicts = {} THEN Len(Plan) + 1 ELSE Min(conflicts)

\* The task files when the first n treatments of the plan have theirs.
WrittenTo(n) ==
  [t \in Treatment |-> IF \E i \in 1..n : Plan[i] = t THEN Effective ELSE tasks[t]]

SharedConflict ==
  (\E t \in Treatment : Conflicts(t)) /\ (\E t \in Treatment : archive[t].made)

Prepare ==
  /\ pc = "prepare"
  /\ CASE driver = "related" ->
            /\ tasks' = WrittenTo(FirstConflict - 1)
            /\ IF FirstConflict <= Len(Plan) THEN Stop("error")
               ELSE GoOn
       [] driver = "compression" ->
            IF SharedConflict THEN Stop("error") /\ UNCHANGED tasks
            ELSE /\ tasks' = [t \in Treatment |-> Effective]
                 /\ GoOn
       [] OTHER -> GoOn /\ UNCHANGED tasks
  /\ UNCHANGED <<runVars, driver, asked, report>>

-----------------------------------------------------------------------------
(***************************************************************************)
(* What an interrupt leaves of the task files that were being written:     *)
(* those of the first treatments, and the next one torn if it was not      *)
(* there.  The shared file is written again even if it is there.           *)
(***************************************************************************)
TornTasks ==
  CASE driver = "related" ->
         {WrittenTo(n) : n \in 0..FirstConflict - 1} \cup
         {[WrittenTo(n) EXCEPT ![Plan[n + 1]] = TornTask] :
            n \in {m \in 0..FirstConflict - 2 : tasks[Plan[m + 1]] = NoTask}}
    [] driver = "compression" /\ ~SharedConflict ->
         {tasks, [t \in Treatment |-> TornTask]}
    [] OTHER -> {tasks}

-----------------------------------------------------------------------------
(***************************************************************************)
(* The summary of a treatment against the protocol of this invocation.  Of *)
(* the style it compares the policies, and not the extras.                 *)
(***************************************************************************)
CurrentTiming(summary) ==
  asked.mode = "fixed-time" => summary.finals /\ summary.cap = asked.cap

CurrentStyle(summary) == summary.policies = policies

Bug_CompletedStatus(summary, reused) == IF reused THEN "reused" ELSE "completed"
CompletedStatus(summary, reused) ==
  IF asked.mode = "fixed-time" /\ summary.reason # "time-budget"
  THEN "ended-early"
  ELSE IF reused THEN "reused" ELSE "completed"

Done(t) == archive[t].summary # NoSummary

\* The result that is there is used as it is.
Reusable(t) ==
  /\ Done(t)
  /\ CASE driver = "related" -> /\ CurrentTiming(archive[t].summary)
                                /\ CurrentStyle(archive[t].summary)
       [] driver = "policies" -> FALSE
       [] OTHER -> TRUE

\* SystemExit: results of two protocols, or a directory that is in use.
Refused(t) ==
  \/ driver = "related" /\ Done(t) /\ ~CurrentStyle(archive[t].summary)
  \/ driver = "compression" /\ ~Done(t) /\ archive[t].made /\ ~asked.resume

(***************************************************************************)
(* build_command.  The treatments of a fixed-time comparison are told to   *)
(* use up their time.  Whether to resume is read off the directory, or is  *)
(* asked for.                                                              *)
(***************************************************************************)
Command(t) ==
  [t |-> t, task |-> asked.task,
   cap |-> IF driver = "related" THEN asked.cap ELSE 0,
   until |-> driver = "related" /\ asked.mode = "fixed-time",
   resume |-> archive[t].made /\ (driver \in {"related", "ablation"} \/ asked.resume)]

Row(t, status, summary) == [t |-> t, status |-> status, summary |-> summary]

\* _write_reports of what this invocation has come to so far.
Write(rs) == report' = [on |-> TRUE, option |-> asked, rows |-> rs]

(***************************************************************************)
(* The status of a treatment of the last script is derived from its        *)
(* directory, whatever happened in this invocation.                        *)
(***************************************************************************)
DirectoryStatus(t) ==
  CASE archive[t].summary # NoSummary  -> "completed"
    [] "local" \in archive[t].limits    -> "local-limit-exceeded"
    [] "provider" \in archive[t].limits -> "provider-limit-exceeded"
    [] archive[t].failure               -> "failed"
    [] OTHER                            -> "not-started"

DirectoryRows ==
  [i \in DOMAIN Matrix |->
    Row(Matrix[i], DirectoryStatus(Matrix[i]), archive[Matrix[i]].summary)]

-----------------------------------------------------------------------------
Turn == pc = "loop" /\ child.at = "none" /\ next <= Len(Plan)

Reuse ==
  /\ Turn /\ Reusable(Now)
  /\ LET summary == archive[Now].summary
         status  == IF driver = "related" THEN CompletedStatus(summary, TRUE)
                    ELSE "reused"
     IN /\ rows' = Append(rows, Row(Now, status, summary))
        /\ failed' = (failed \/ status = "ended-early")
  /\ next' = next + 1
  /\ UNCHANGED <<runVars, driver, asked, pc, tasks, report, exit>>

Refuse ==
  /\ Turn /\ ~Reusable(Now) /\ Refused(Now) /\ Stop("error")
  /\ UNCHANGED <<runVars, driver, asked, tasks, report>>

Run ==
  /\ Turn /\ ~Reusable(Now) /\ ~Refused(Now)
  /\ child' = Launched(Command(Now))
  /\ UNCHANGED <<archive, presets, faults, worked, suiteVars>>

Returned == pc = "loop" /\ child.at = "exited" /\ child' = NoJob
Kept     == UNCHANGED <<archive, presets, faults, worked, driver, asked, tasks>>
Bug_Advance == UNCHANGED <<next, pc, exit>>
Advance  == next' = next + 1 /\ UNCHANGED <<pc, exit>>

(***************************************************************************)
(* A treatment of the comparison, or of an ablation, that failed: the      *)
(* report is written, and only --continue-on-error goes on.                *)
(***************************************************************************)
TreatmentFails ==
  /\ Returned /\ driver \in {"related", "ablation"} /\ child.code # 0
  /\ LET sofar == Append(rows, Row(Now, "failed", NoSummary))
     IN /\ Write(sofar)
        /\ IF driver = "related" /\ asked.proceed
           THEN rows' = sofar /\ failed' = TRUE /\ Advance
           ELSE Stop("error")
  /\ Kept

TreatmentEnds ==
  /\ Returned /\ driver \in {"related", "ablation"} /\ child.code = 0
  /\ LET summary == archive[Now].summary
         status  == IF driver = "related" THEN CompletedStatus(summary, FALSE)
                    ELSE "completed"
         sofar   == Append(rows, Row(Now, status, summary))
     IN /\ rows' = sofar /\ Write(sofar)
        /\ failed' = (failed \/ status = "ended-early")
  /\ Advance /\ Kept

\* The comparison of policies has no report until all of them have ended.
PolicyReturns ==
  /\ Returned /\ driver = "policies"
  /\ IF child.code # 0
     THEN Stop("error")
     ELSE /\ rows' = Append(rows, Row(Now, "completed", archive[Now].summary))
          /\ Advance /\ UNCHANGED failed
  /\ UNCHANGED report /\ Kept

\* The first treatment is the compressed one: its exit status counts.
CompressionReturns ==
  /\ Returned /\ driver = "compression"
  /\ failed' = (failed \/ (next = 1 /\ child.code # 0))
  /\ Write(DirectoryRows) /\ Advance /\ UNCHANGED rows /\ Kept

Expected == {"completed", "local-limit-exceeded", "provider-limit-exceeded"}

Finish ==
  /\ pc = "loop" /\ child.at = "none" /\ next > Len(Plan)
  /\ IF driver = "compression"
     THEN /\ Write(DirectoryRows)
          /\ Stop(IF failed \/ \E t \in Treatment : DirectoryStatus(t) \notin Expected
                  THEN "error" ELSE "ok")
     ELSE Write(rows) /\ Stop(IF failed THEN "error" ELSE "ok")
  /\ UNCHANGED <<runVars, driver, asked, tasks>>

\* Interrupted from the keyboard, the script and its child end together.
Interrupt ==
  /\ pc # "off" /\ Fault /\ Stop("error") /\ child' = NoJob
  /\ tasks' \in IF pc = "prepare" THEN TornTasks ELSE {tasks}
  /\ UNCHANGED <<archive, presets, worked, driver, asked, report>>

\* The source is changed between two invocations.
Upgrade ==
  /\ pc = "off" /\ policies + extras < MaxUpgrades
  /\ \/ policies' = policies + 1 /\ UNCHANGED extras
     \/ extras' = extras + 1 /\ UNCHANGED policies
  /\ UNCHANGED <<archive, child, faults, worked, suiteVars>>

Child  == ChildStep /\ UNCHANGED suiteVars
Script == \/ Prepare \/ Reuse \/ Refuse \/ Run \/ TreatmentFails \/ TreatmentEnds
          \/ PolicyReturns \/ CompressionReturns \/ Finish

Next == \/ \E option \in Options : Start(option)
        \/ Child \/ Script \/ Interrupt \/ Upgrade

(***************************************************************************)
(* The script does not stop between two treatments, and its child runs.    *)
(* Nobody has to start the script.                                         *)
(***************************************************************************)
Fairness == WF_vars(Script) /\ WF_vars(Child)
Spec == Init /\ [][Next]_vars /\ Fairness

-----------------------------------------------------------------------------
Summary == [reason : Reasons \cup {"none"}, cap : Nat, spent : Spent,
            policies : Versions, finals : BOOLEAN]
Statuses == Expected \cup {"reused", "ended-early", "failed", "not-started"}

(***************************************************************************)
(* Type invariant: the directories, the process, and what the script and   *)
(* its report hold.                                                        *)
(***************************************************************************)
TypeOK ==
  /\ \A t \in Treatment :
       /\ archive[t].made \in BOOLEAN /\ archive[t].failure \in BOOLEAN
       /\ archive[t].seed \in {"unseen", "passed", "failed"}
       /\ archive[t].limits \subseteq Limits /\ archive[t].summary \in Summary
       /\ archive[t].checkpoint \in {NoCheckpoint} \cup
            [rounds : 0..Rounds, spent : Spent, policies : Versions, until : BOOLEAN]
       /\ ~archive[t].made => archive[t] = Unused
       /\ worked[t] \subseteq Work
  /\ child.at # "none" => child.job \in Job /\ child.job.t = Now
  /\ asked \in Options /\ asked.driver = driver /\ report.option \in Options
  /\ pc \in {"off", "prepare", "loop"} /\ next \in 1..Len(Plan) + 1
  /\ Len(rows) < next
  /\ \A i \in DOMAIN rows : /\ rows[i].status \in Statuses
                            /\ rows[i].summary \in Summary
  /\ failed \in BOOLEAN /\ exit \in {"none", "ok", "error"}

Counted(row) == row.status \in {"completed", "reused"}

\* The rows that a fixed-time comparison presents as comparable.
FixedTimeRows ==
  {row \in ToSet(report.rows) :
     driver = "related" /\ report.option.mode = "fixed-time" /\ Counted(row)}

(***************************************************************************)
(* Results that the report of the comparison presents as comparable are.   *)
(* A counted result comes from one effective task and one version of the   *)
(* named policies of its style from the first operation on, whatever       *)
(* processes contributed to it (_write_immutable_json, the style check of  *)
(* the script and the policy check of a resume, together); under a fixed   *)
(* time it was searched for all of the budget that the report names        *)
(* (CompletedStatus, the restored search time, the check of an archived    *)
(* budget).  It claims nothing of the extras of the presets, which nobody  *)
(* compares: work under two versions of them may be in one counted result. *)
(***************************************************************************)
ComparableResults ==
  /\ driver = "related" =>
       \A row \in {r \in ToSet(report.rows) : Counted(r)} :
         /\ worked[row.t] # {}
         /\ \A work \in worked[row.t] : /\ work.task = report.option.task
                                       /\ work.policies = row.summary.policies
  /\ \A row \in FixedTimeRows : row.summary.spent >= report.option.cap

(***************************************************************************)
(* Exit status 0 means that every selected treatment is in the report with *)
(* a result that is still in its directory, and for a fixed-time           *)
(* comparison one that ended by the time budget; the last script needs     *)
(* only the compressed treatment to complete (main of each script).        *)
(***************************************************************************)
ExitZeroMeansDone ==
  pc = "off" /\ exit = "ok" =>
    /\ report.on /\ report.option = asked
    /\ IF driver = "compression"
       THEN Done(Matrix[1]) /\ \A t \in Treatment : DirectoryStatus(t) \in Expected
       ELSE /\ [i \in DOMAIN report.rows |-> report.rows[i].t] = Plan
            /\ \A row \in ToSet(report.rows) :
                 Counted(row) /\ Done(row.t) /\ row.summary = archive[row.t].summary
            /\ \A row \in FixedTimeRows :
                 row.summary.reason = "time-budget" /\ row.summary.cap = asked.cap

(***************************************************************************)
(* What bars a treatment from completing under the present options: its    *)
(* seed failed final validation, or its directory belongs to another       *)
(* protocol.                                                               *)
(***************************************************************************)
Barred(t) ==
  \/ archive[t].seed = "failed" \/ Refused(t)
  \/ archive[t].checkpoint # NoCheckpoint /\ archive[t].checkpoint.policies # policies
  \/ archive[t].checkpoint # NoCheckpoint
       /\ archive[t].checkpoint.until # Command(t).until
  \/ driver \in {"related", "compression"} /\ Conflicts(t)

Settled == \/ driver = "policies"
           \/ \E t \in ToSet(Plan) : Barred(t)
           \/ \A t \in ToSet(Plan) : Reusable(t)

(***************************************************************************)
(* An operator who keeps on starting the script with the same options      *)
(* comes to an end: failures do not go on for ever (MaxFaults), and from   *)
(* some time on every treatment is reused as it is, or one of them bars    *)
(* the way.  "Re-running the command reuses valid completed directories    *)
(* and resumes the first partial one" (README.md:460), and a result of an  *)
(* older version is resumed once, not each time.                           *)
(***************************************************************************)
RerunsSettle ==
  <>[][FALSE]_asked /\ []<>(pc = "prepare") => <>[]Settled
=============================================================================
