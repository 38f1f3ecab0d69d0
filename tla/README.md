# Verification of the kernel optimizer

The repository searches for a faster GPU kernel: a *controller* asks a hosted
language model for source candidates, filters them with a static check and an
analytical performance model, measures the promoted ones on the GPU, keeps a
beam of the fastest correct ones, and repeats this for a number of rounds.
Everything is archived on disk, so that a run can crash, be stopped by a soft
time budget, and be resumed.

This directory holds TLA+ modules of that system, TLC configurations that check
them on small instances, and proofs for the TLA+ proof system (TLAPS). All
source paths below are relative to `src/src/kernel_optimization/`.

## 1. Inventory

| Component | Source | State it keeps | Operations | Modelled by |
|---|---|---|---|---|
| Optimization controller | `controller.py` | records, beam, round, phase checkpoint, repair counters, compiled-identity owners, failure streak | seed, generate, repair, model, select, measure, profile, update beam, finalize, export, checkpoint, resume | `SearchController` |
| Online feedback | `calibration.py`, `trust.py`, `evidence.py` and their places in `controller.py` | observations, trust samples, lessons | observe, apply, update, remember, checkpoint, restore, rebuild | `OnlineFeedback` |
| Candidate schema | `schema.py` | candidate and record fields | constructors, `is_measured_correct` | part of `SearchController` and `OnlineFeedback` |
| Artifact store | `archive.py` | candidate files, `state.json`, event log | save and load, atomic replacement | as the durable variables of the modules |
| Selection policies | `selection.py` | random state | promote modelled candidates | abstractly (`Selections`, `Select`) |
| Failure classification | `diagnosis.py` | none | retryable / fatal / infrastructure | abstractly (`Failure`) |
| Profile milestones | `milestones.py` | last profile, plateau counters | when to pay for an NCU profile, and for which kernel | `NcuMilestones`; abstractly in `SearchController` (`MaybeProfileRound`) |
| Incumbent recorder | `incumbent_tracking.py` | sequence, signature, history files | periodic thread and event snapshots | `IncumbentRecorder` |
| Evaluator backend | `backends/command.py`, worker loop of `examples/tilesight_kernel_evaluator.py` | worker process, request count, pipes | one-shot and persistent evaluation, restart, timeout | `EvaluatorService` (what it promises), `EvaluatorWorker` (what it does) |
| Parallel generator | `generators/parallel.py` | outcomes per agent | partition, run, collect in order | `Generation` |
| API client | `generators/api.py` | metadata of the last call | preflight, retries, schema recovery | `Generation` |
| Command line | `cli.py`, `baseline_styles.py` | the output directory of one treatment | open, preflight, start or resume, final validation, report, exit | `TreatmentRun` |
| Experiment drivers | `examples/run_*.py` | effective tasks, rows, aggregate report | plan, reuse, refuse, run or resume, fail, report | `ExperimentSuite` (over `TreatmentRun`) |
| Strategies and AST novelty | `structural_search.py` | none (pure) | portfolio, binding to slots, novelty report | binding in `Generation`, the rest not modelled |
| Prompts, compression, reports, wiring | `prompts.py`, `prompt_compression.py`, `reporting.py`, `factory.py`, ... | none | text | not modelled |

How they interact: the controller is one thread that calls the generator, the
evaluator and the archive synchronously; the recorder is a second thread that
reads the archive; the evaluator is a child process; a parallel generation
forks threads inside one controller call. The command line runs one controller
in one process; an experiment driver runs the command line once for each
treatment and reads what it left. The shared state that survives is the output
directory.

What is hard here, and what must hold:

- *Crash and resume* (controller, milestones, recorder): every record is archived
  when it changes, decisions only at checkpoints; a process may die between the
  two. Nothing may be evaluated twice, no budget spent twice, no stage lost.
- *The soft deadline*: it may pass between any two steps, and is looked at in
  some fifteen places. Nothing starts after it, and what was measured before it
  is kept.
- *Two threads on one archive* (recorder): snapshots mix old and new records;
  numbers, times and slots must still be consistent, over several processes.
- *A child process that crashes, hangs, answers late or talks* (evaluator): no
  answer may meet another request, no process may be left with GPU memory, no
  call may hang.
- *Several agents and an unreliable provider* (generation): agents answer, retry,
  recover, fall short or break in any order. Every slot must be asked for once and
  given out once, retries must end, and what was asked and answered be counted.
- *What the search has learned*: calibration, trust and lessons live in memory, are
  saved at other moments than the measurements they come from, and are restored
  or rebuilt. None may be lost or counted twice, and what is compared must be of
  one scale.
- *Experiments that are repeated*: a driver is interrupted, started again with other
  options, after a change of presets, over directories in any state. Results that
  it presents side by side must be comparable, status 0 must mean that the work
  is done, and starting it again must come to an end.
- *Identity*: one kernel compiled from two sources is to be measured once, and the
  owner of an identity must survive a resume that rebuilds it in another order.

## 2. The controller: `SearchController`

### What it models

One process and its output directory. *Durable* state: `rec` (the archived
record of every candidate), `ckpt` (the last `state.json`), `exported` (the
source last saved as best kernel). Everything else is memory of the process
and is cleared when it ends or dies (`Forget`).

| Variable | Code |
|---|---|
| `rec[c]` | `records` and `candidates/<id>/record.json`: how the candidate came to be (`kind`, `gen`, `depth`), its model verdict (`model`: none, invalid, unhashed, or the compiled identity), the candidate it duplicates (`equiv`), its measurement, profile and final measurement, and the kind of its failure |
| `ckpt` | the dictionary `_checkpoint` writes, plus the repair counters that `_persist_runtime_counters` updates |
| `pc` | where `run`, `_run_round` or `_finalize_candidates` stand; or how the process ended |
| `todo`, `queue`, `repaired`, `measured`, `left` | the locals of the running stage: the loop's list, the repair queue, `repair_records`, `measured`, `proposals_left` |
| `owners`, `infra` | `compiled_hash_owners`, the infrastructure failure streak |
| `searchBest`, `reason`, `expired` | `_search_best_id`, `termination_reason`, whether the search clock is past `max_search_seconds` |

Each call the controller makes (one model evaluation, one measurement, one
generator or repair request with everything archived for its answer) is one
action, because the process may die, and the deadline may pass, between any two
of them. Every other action is the code between two such calls, with the
checkpoint it takes. The round-local `candidate_ids`, `selected_ids`,
`best_before_id` and `phase` are always the ones of the last checkpoint of the
active round, so the model reads them there (`Phase`, `ckpt.ids`, `ckpt.sel`).

The order of a round: `StartGeneration`, `GenerateFromParent`\*,
`EndGeneration`, static repairs, `FinishGeneration` (checkpoint *generated*),
`ModelCandidate`\*, model repairs, `FinishModeling` (*modeled*),
`SelectCandidates` (*selected*), `MeasureCandidate`\*, measurement repairs,
profiles, `FinishMeasurement` (*measured*), `UpdateBeam` (*beam_updated*),
`MaybeProfileRound`, `FinishRound` (*round_completed*). `ResumeRound` enters it
in the middle. `StopForTime` is the exit of any stage at the deadline.

What is abstracted: source text, prompts, usage counters and wording; the
record's display label `state` (whatever the code decides from it is decided
from the evaluations here); which of the promotable candidates the promotion
policy picks and in which order; how the diversity scores of the
quality-diverse beam rank; when a milestone asks for a profile. All of these are
nondeterministic. The answer of a generator call is archived in one step: a
crash in between is the same as a shorter answer followed by a crash. Strategy
planning and TIR analysis are left out: with strategy slots the proposals left
are counted in slots instead of records, which is the same number as long as a
slot is answered once. A checkpoint without a beam (`_restore`'s fallback) is
only written by older versions and not modelled.

### What the runs check

Bounds: three sources (the input kernel and two that can be proposed or
repaired), one or two latencies (faster, slower, tie), one compiled identity
besides "no identity reported", one repair per round, one resume. Two sources
besides the seed are what the hazards need: a candidate and its repair, a
candidate and its compiled duplicate, two members of a beam. A second resume
would start from a checkpoint of the same kind as the first.

- `SearchCrash` (two rounds; the process may die between any two steps; final
  validation). `TypeOK`. `GraphBound`: no round archives more proposals or
  repairs than its budget, although counting starts anew in each process.
  `CheckpointLoadable`: a checkpoint never names a missing record or one of
  another round. `EvaluatedOnce`: no evaluation is repeated and no record lost
  once the seed is checkpointed. `StageKept`: a resume never goes back behind a
  checkpointed stage. `ExportPassedFinal`: with final validation, the exported
  kernel passed it and is not slower in it than the seed.
- `SearchWide` (one round of two proposals, a beam of two, outages of the
  evaluator, crashes). `BeamSound`: beams, in memory and on disk, are non-empty,
  distinct, measured and correct. `OneOwnerPerIdentity`: a compiled identity has
  one owner, equivalents point straight at it, and the owners a resume rebuilds
  are the ones the archive was built with. `HardwareAfterModel`: only code that the
  model accepted and that is new is measured, repairs of a measurement stage that a
  stop for time cut short excepted (see below).
  `EventuallyEnds`: every process ends.
- `SearchDeadline` (two rounds under the NCU policy, a quality-diverse beam of two,
  the deadline at any moment, two resumes with the same or a larger limit, nothing
  dies). `BeamKeepsBest`: at the head of a round nothing measured is faster than
  the incumbent, unless a process that died may have forgotten it (see below).
  `NoLateRoundWork`: after the deadline no generator call, evaluation or profile
  starts, the seed's own excepted.

Fairness: only `WF_vars(Work)`: a running process takes its next step. It is
justified because every call the controller waits for has a timeout (the
evaluator's `timeout_seconds`, the API client's request timeout and bounded
retries). Crashes, the deadline and resumes have no fairness.

### Where the code and its documents disagree

`LostRepair` is a run that TLC refutes: a crash after a measured repair and before
the end of the measurement stage loses the repair for the beam, because repairs
join the checkpoint's candidate lists only at the stage's end. The property it
refutes, `BeamHoldsBest`, is `BeamKeepsBest` without exceptions. The exceptions are
this one, which the circuit breaker brings about as well as a crash, and the first
of the following disagreements: after a death inside the stage a resume with no
time left takes its checkpoint back, and the measured proposals are lost too.
So `BeamKeepsBest` claims everything for a process that cannot die, everything but
repairs for one that can and has no time budget, and of both together only that the
incumbent is never slower than the input kernel.

The model has three more disagreements. The first is out of the passing runs by
their constants, and returns when these are changed; the other two are what
`HardwareAfterModel` excepts when there is a time budget.

- Final validation after a time-budget stop overwrites the resumable checkpoint of
  the interrupted round by one of no active round (controller.py:428), although
  README.md:546 says that "the controller writes a resumable search checkpoint".
  A resume with no time left does the same by an empty phase (358). `StageKept`
  is refuted under `TimeLimited = TRUE`, and proved without (section 9).
- When the deadline passes during a repair call of the measurement stage,
  `_model_candidates` returns without modelling the repaired source
  (controller.py:2395), which still joins `selected_ids`: a resume measures it,
  although README.md:554 says that TileSight models every static-valid candidate.
- When it passes later, a repaired source already found compiled-equivalent is
  measured by the resume, although README.md:1312 names "compiled-code equivalence
  deduplication before hardware measurement", and the record itself says that its
  hardware evaluation was skipped (controller.py:2193).

`SearchCrash` and `SearchWide` have no deadline, and `SearchDeadline` has neither
crashes nor outages (`BeamKeepsBest` would claim little otherwise). The theorems of
section 9 hold with all of them.

## 3. Online feedback: `OnlineFeedback`

The controller learns from each measurement in three ways: the calibrator keeps
the ratio of measured to predicted latency for each regime and scales later
predictions by a median of them; the trust tracker keeps, for each measured
candidate, the error of its ranking latency and whether the step from its parent
went in the predicted direction; the evidence memory keeps one lesson for each
failure, measurement or profile. `memory` holds the three; `saved` is what
`state.json` has of them; `records` is the archive.

| Code | Model |
|---|---|
| `LatencyCalibrator.observe`, `apply` | `Observe`, `Scale` and `ModelOf` |
| `TrustTracker.update`, `_rebuild_trust` | `Update`, `TrustOf` |
| `_diagnose_and_remember`, `GlobalEvidenceMemory` | `Remember`, `Lesson` |
| `_checkpoint`, `_persist_runtime_counters` | `Checkpoint`, `Save`; `Persist` |
| `_restore` | `Restored`, `Resume` |

A round is that of `SearchController`, reduced to the places that feed or use the
three: `Propose`, `GenerationEnds`, `Model`, `Repair`, `ModelEnds`, `Select`,
`Measure`, `ModelRepair`, `MeasureEnds`, `ProfileAll` or `Milestone`, `RoundEnds`.
A process can `Crash` at any step, or be `OutOfTime`, which checkpoints its memory;
the second of its branches is the stop that loses the stage (section 2), and
`forgotten` is the last round in which it was taken, 0 if there is none. An answer
of the generator may fall short of the round's budget, so that a round that is
taken up again proposes more. Predictions and latencies are naturals that divide,
scales are doubled, so that ratios and medians are exact.

Run `Feedback`: one round of two proposals and one repair under both policies, one
regime, and two processes that end, each by a crash or by a stop. Two ends are what
the exceptions below need: a stop that loses a stage and another end before it
is gone through again. `TrustOfArchive`: wherever trust decides, it is that of the
archive. `MeasurementsLearned`: past its measurement stage every candidate is
observed and has a lesson, once. `OneScale`: the candidates of one selection were
scaled alike, also if some were modelled before a crash and the others after it.
One round and a minimum of one
sample are enough for that, because the measurement of the seed is a sample: the
proposals of the first round are calibrated, their measurements change the scale,
and a repair or a resumed selection meets the new one. (The run has 1.6 million
states; a second regime or a second round multiplies them beyond a run of minutes.
The theorems of section 9 cover any number of regimes, rounds and ends.) Every
property is safety; no fairness is assumed.

What the exceptions stand for. `OneScale`: a stop that loses the stage of a round
takes it back to its generation, and what is proposed or repaired from then on
meets a calibration that the earlier candidates did not. `TrustOfArchive`
(`Overtaken`): a stop lists the repairs of a measurement stage, the resume measures
them without a model, and if a second stop loses that stage they are modelled after
they were measured. `MeasurementsLearned`: a measured repair whose
stage crashed is in no list that a resume goes through, so that neither its
observation nor its lesson comes back, and the archive is consulted only if the
checkpoint has no observation at all (controller.py:1052-1060; a record that has a
model is passed over at 2157). If after a crash in the measurement stage a stop by
the deadline loses the stage, the same holds for all of its measurements.

Run `MixedScales` is refuted by TLC. A prediction is scaled once, when it is made;
the seed's and those of the first candidates stay as they are, while their
children are scaled. `Direction` compares the two, and a step that model and GPU
order alike, within one regime, is counted as a wrong direction, although
trust.py:90 says that an error of scale does not condemn a model whose ordering
agrees with the hardware.

Left out: thresholds of screening and labels of confidence (pure functions of the
trust samples), and which lessons a prompt shows. A lesson is a candidate and a kind.
The code's identifier is a hash of the observed fact, the result and the bottleneck
as well (evidence.py:172-181), so that a changed diagnosis of one candidate adds a
second lesson of the same kind; `MeasurementsLearned` only asks that there is one.

## 4. The incumbent recorder: `IncumbentRecorder`

Two threads append rows to the incumbent's history: the controller at its events
(`record_now`, `record_if_changed`) and a timer at fixed slots of active time.
Both go through `_record`, modelled step by step for each thread `t`:
`Acquire(t)`, `ReadRecord(t)`\* (one record at a time; only the timer's scan can
be interleaved with the controller's writes), `Decide(t)`, `AppendJsonl(t)`,
`AppendCsv(t)`, or `AppendFails(t)`. `call[t]` holds where a thread stands in it
and its locals; `lock`, `seq`, `last`, `offset`, `startedAt`, `next`, `stopping`
are the object's fields; `rec`, `phase`, `best` the part of the archive a
snapshot reads; `lines`, `row`, `csvLines` the two history files, of which only
the number of lines and the last one matter. `Controller` is what the recorder
sees of the controller: what it writes, and where it calls the recorder.

Faults: the process may die anywhere (`Die`), be resumed (`Resume`, which reads
the last row back), an append may raise. `stop()` waits five seconds for the
timer and gives up, so `Exit` can happen while the timer is inside of an append.

Run `Recorder` (one candidate beside the seed, two latencies, slots every two
seconds, one fault). `HistoryContinues`: sequence numbers and active time go on from
the last row of whoever wrote it, the CSV follows the JSONL by at most one row, over
threads, failed appends and processes. `SlotsSampledOnce`: no slot is sampled twice.
`SnapshotsNeverRegress`: the incumbent of a later row is never slower.
`ChangesRecorded`: a change is told once, and what is told as a change is one.
`ClosingRowFinal`: the last row of a finalized run names the final winner. Two
candidates are what a scan needs to see one old and one new record; two seconds are one slot that falls due
before, during or after a resume. A second fault adds one behaviour, which
`HistoryContinues` excepts: an append that raises leaves `_sequence` ahead of the
file (incumbent_tracking.py:181), and a resume counts the lines, so that a number
is given out twice, whereas README.md:131 says that sequence numbers continue from
the existing history on resume.

Nothing is assumed fair: all properties of this module are safety.

## 5. The persistent evaluator: `EvaluatorService` and `EvaluatorWorker`

The controller's thread is inside of `CommandBackend` at `pc`; a call is `Run`,
then `EnsureWorker` (after `Recycle`), `Send`, a loop of `Select`, `FillBuffer`,
`SkipLine` until `Acknowledged`, `TimeOut` or `WorkerExited`; `StopWorker` and
`TerminateWorker` are `_stop_worker` and `_terminate_worker`, each wait with an
action for its success and one for its end, and `then` says where their caller
goes on. A process `p` has a pipe into it (`stdin`), one out of it (`out`) and
what Python has read from that (`buffer`): `select()` sees only the pipe,
`readline()` takes all of it. The worker side (`Worker(p)`) serves, answers
with ok or an error, writes text of its own, or dies, in any order and at any
time.

Run `Worker` (three calls, two requests to a worker, one text of its own for each
worker): three calls make a worker that is reused, recycled and replaced, and a
final stage before or after any of them. `WorkerIsQuiet`: a request is sent only
to a worker that answered all before it with success and has nothing of them
left. `RequestBudget`: none serves more than `worker_max_requests`.
`NoStrayWorker`: no process but the backend's is left unkilled, and none at all
beside the final stage. `CallsEnd`: every call ends. Its fairness is
`WF_vars(Step)`: the thread runs, and time passes, so that a wait that can only
end by its timeout does end. Nothing is assumed of the worker. `CallsEnd` excepts
one state, `BlockedMidLine`: `readline()` on text that the worker never ends
blocks without a deadline, although SYSTEM_WORKFLOW_AND_ROADMAP.md:145 calls
`evaluator.timeout_seconds` the total timeout of a stage. Another behaviour the
model has: an answer that was read into the buffer together with a line of the
worker's own is not seen by `select()`, and the call times out.

`EvaluatorService` says what the controller may rely on, with no pipes, waits or
signals: calls come one at a time and come back answered or failed; a search call
is submitted once, to the one incarnation of the evaluator that is alive; a failed
call comes back when its incarnation is no more; the final stage and the end find
none alive. `ServesAsPromised` is this specification under the mapping `Service`:
the state of a call is read off `pc` and `then` (`CallState`: while a failed
worker is terminated the call is "failing", while one is recycled it is still
"search"), the incarnation is the number of starts, it is alive as long as some
process has neither exited nor been killed, and its load and answers are the
history variables of the newest process. That one variable can stand for "some
process" is itself a consequence of `NoStrayWorker`. The service has no fairness:
that calls end is `CallsEnd`.

Not modelled: the environment, the artifact files and the metadata of a call;
contention for `_worker_lock` (one thread makes all calls).

## 6. Profile milestones: `NcuMilestones`

The policy decides once a round from what was measured and from its memory
(`last_profile_round`, `plateau_rounds`, `profiled_ids`). Records, and with them
profiles, are archived at once; the memory only with a checkpoint. A round is
`MeasureRound`, `Decide`, `ProfileChosen`, `FinishRound`; `OutOfTime`, `Crash`
and `Resume` come in between. `MilestoneChoices` is `decide()` with its triggers
in the code's order, as a set of possible decisions; relative improvements are
compared by products of naturals.

Equally fast kernels are what a decision made twice can differ in, so each tie is
broken as in the code. The beam and the policy of every round compare identifiers
(`Quicker`; `name` stands for the order of the hashes), and so does the largest
disagreement (milestones.py:169). Low confidence takes the first of the round's
list, which the checkpoint keeps (`FirstOf`; milestones.py:108). Staleness and
plateau take the minimum over all records by latency alone (127), in the order of
the dictionary, and a resume fills that in the order in which the file system lists
the directories (archive.py:213-216): any of the fastest (`Fastest`).

Run `Milestones` (three policies, three rounds of at most two kernels, spacing
two, staleness three, plateau two, one resume): with spacing two a round is too
early, just in time or late, and staleness and plateau are both reached in three
rounds. Two of the outcomes are equally fast, with names in either order. The run has
2.8 million states. `SpacedMilestones`: one kernel is profiled in a round, however
often the round is decided, and normal milestones keep their distance from valid
profiles; with the exceptions that follow from the ties, see below. `EvidenceFresh`:
at the end of a round evidence is not older than the staleness bound, unless no
kernel was left or NCU failed.

Where the code and its documents disagree: milestones.py:18 promises "at most one new
NCU profile per optimization round". If the process dies between the profile and the
checkpoint of a round that was stale or on a plateau, the round is decided again, and
of two equally fast kernels it may now profile the other one. Should NCU fail on that
one, the round leaves no mark in the memory, although it has a valid profile in the
archive, and the next milestone may come sooner than README.md:1191 says ("separated
by at least three rounds"). `SpacedMilestones` excepts just these two, a
second profile of a kernel `AsFast` and the distance from one that is not
`Undisputed`; TLC refutes it without either.

Another one: a failed profile stays in `record.profile`, and NCU is run only where
that is None (controller.py:2550), so that a kernel whose profile failed is chosen
again, again for nothing, whereas README.md:1034 says that "a later milestone can
retry".

## 7. Generation: `Generation`

The hosted model as the controller sees it. A call (`Call`) is a plan, a repair or a
generation; it runs on the primary client, or on one new client for each agent,
and ends (`Return`) when all of them have. `client[c]` is an
`OpenAICompatibleGenerator`: where it stands (`at`), the attempts of the present
retry loop (`tries`), whether it is in the recovery request (`recovering`, `first`),
and its `last_call_metadata` (`meta`), which outlives the call on the primary
client. A request (`Send`) is followed by `Proposed`, `Unusable` (an answer that
cannot be used), `TransientError` (retried while attempts are left),
`PermanentError`, or `Raises`: an exception the client does not classify.
`Proposed` without a usable source starts the recovery. `Return` merges the
agents' proposals in their order, binds them to slots, and adds what the metadata
says to `counted`. A generation of which every agent failed stops the process;
`Resume` is a new one, after its preflight. `made`, `billed` and `sent` are what
really was sent and answered.

Run `Generation` (two agents, one retry, three slots, one call after the
preflight): three slots make partitions of different sizes, two agents that one
fails or falls short, one retry and one recovery every order of errors and
answers. The metadata a call finds is that of the preflight. `RequestsBounded`: a
client sends at most two loops of attempts. `UniformBinding`: no two proposals
share a slot, and agents that answer uniformly get their own slots.
`AttemptsCounted`: while the transport raises nothing unclassified, the counters
are exact. `CallsReturn`: every call returns. Fairness: `WF_vars(Step(c))` and
`WF_vars(Return)`, because threads run and a request has a timeout; nothing is
assumed of what the provider answers.

Run `SlotMisbound` is refuted by TLC: the slots of proposals that name none are
given out from the front, over all agents, so that after a failed agent a later
one's proposal gets a slot, and with it a strategy, it was never asked for.

A further disagreement that the model has, and that `AttemptsCounted` excepts: an
unclassified exception (a read timeout, a body that is not JSON) leaves the
metadata of the call before (api.py:467), and the controller adds its usage a second
time, whereas README.md:831 calls the cumulative value total usage.

Not modelled: prompts and their compression, the wait between attempts, a crash in
the middle of a call (its requests are not counted), the requests of a preflight
that fails (there is no controller yet), and a round with several parents, which is
a sequence of calls.

## 8. Experiments: `TreatmentRun` and `ExperimentSuite`

`TreatmentRun` is one process of the command line, as a driver sees it. `archive[t]`
is the directory of a treatment: whether it exists, what of its checkpoint matters
to a driver (finished rounds, search time, policies, whether it uses up its time),
the final validation of the seed, `failure.json` and `summary.json`. `child` is the
process: `Open` (directory checks, artifact store), `Preflight`, `Begin` (seed, or
restore with the policy check), `Operate`\* with `StopForTime`, `StopEmpty` or
`RoundsOver`, `Finalize`, `Report`, `Close`; `OperationFails` and `Die` end it
anywhere. Time is counted in operations, because none is interrupted.

The preset of a style has two parts. `policies` is what a checkpoint and a summary name:
the style and its evaluation, evidence, selection, profile, deduplication and search
policies. A resume compares them (controller.py:3665-3688), and so does the script for
the summary (run_final_related_system_baselines.py:1366-1401). `extras` is the rest:
budget overrides such as the beam's width, prompt guidance, the number of agents, the
NCU set of a policy. They are applied in the child, after the task file has been
written (baseline_styles.py:387-421), and nothing compares them. `worked[t]` is a
history of both parts, and of the task, for all work that is in a directory.

`ExperimentSuite` extends it by the four scripts. An invocation is `Start`,
`Prepare` (the effective task files, which are never replaced by different ones),
then for each treatment of the plan `Reuse`, `Refuse`, or `Run` and what follows
from the exit status (`TreatmentFails`, `TreatmentEnds`, `PolicyReturns`,
`CompressionReturns`), and `Finish`. `Interrupt` ends script and child, and leaves the
task files as far as they were written, the last one possibly torn (`TornTasks`): they
are not replaced as a whole, unlike the files of a directory. `Upgrade`
changes either part of the style presets in the source between two invocations; the
operator
starts the script with any of the options, any number of times. Directories may
hold a result of an older version. The plan is the kernel-major matrix of the
treatments without those a filter leaves out (`Matrix`, `Selects`). The constants
are constrained by what the scripts' tables and argument parsers allow
(`SuiteAssumption`): lists of kernels and styles without repetition, a positive
budget under a fixed time, no filter in the compression script, which has none.

Run `Suite`: each script; one kernel in two styles; budgets of one and three
operations, one cell only, a changed task, a budget of rounds; one failure or
interrupt; one change of presets, of either part. Two treatments are what fail-fast, continue-on-error and a
filter need; one operation more than the short budget is what a restored search
time needs to be told from it. `ComparableResults`: what the comparison presents
as comparable was searched for the whole budget named in the report, under one task
and one version of the policies of its style. `ExitZeroMeansDone`. `RerunsSettle`: an operator
who repeats one command comes to a state in which every treatment is reused, or
one of them bars the way (its seed failed, it belongs to another protocol, or its
task file is another one or torn).
Fairness: `WF_vars(Script)` and `WF_vars(Child)`: a started script and its child
run; nobody has to start one.

Where the code and its documents disagree: the script refuses a result of "a different
search protocol" and asks for a fresh root "instead of mixing results"
(run_final_related_system_baselines.py:784-789), but a change of the extras is no
other protocol for it. A result that was begun under one beam width or prompt guidance
and resumed under another is counted, and compared with the others. The model does
this; that is why `ComparableResults` speaks of the policies only. TLC refutes it for
the extras.

What the model says besides: a task file that an interrupt left torn ends every later
invocation of the comparison before anything runs (1185-1196), and those of the
compression script once one of its directories exists. `RerunsSettle` depends on final validation being
counted from the archive (controller.py:2728); a summary that lacked it would be
"legacy" and resumed each time. In an explicit `--output-root` a summary of
another time budget is neither reused nor refused
(run_final_related_system_baselines.py:764, 784) but resumed, and the time limit is
not among the policies that a resume compares (controller.py:3665-3688): a search
that took a long budget can be reported under a short one, although README.md:546
bounds the excess by one operation. `ComparableResults` claims the other direction
only. The seed's failed final validation ends every later resume. A report holds
the rows of one invocation.

Left out: dry runs, the numbers and the layout of reports, the tables of workloads,
a driver that is killed without its child (no lock keeps the next one out), and
scripts that share one output root.

## 9. Proofs

Every module that a run checks has its theorems about `Spec` in a module of its
own, for every value of the constants its named assumption allows: any number of
candidates, rounds, agents, calls, directories, crashes and resumes. Each safety
property of the passing runs is a theorem. None of the deeper ones is inductive.
The modules below give the strengthening, which TLC checked on the runs' instances
first, one lemma for each action and part of it, and the theorems at the end.

**`SearchControllerProofs`** (`ConstantsAssumption`). The invariant grows in four
layers.

- `ShapeInv` = `TypeOK` and `StageInv`: for every `pc`, which round is active,
  which lists are non-empty, how the checkpoint relates to them. Without it neither
  `ckpt.active` nor `Head(beam)` need make sense. It gives `TypeCorrect`.
- `SearchInv` adds `GraphInv` and `OnceInv`. `GraphInv` strengthens the budget of a
  round by what is still to be spent: while generating, the archived proposals and
  `left` together; at other times the archived ones alone, and no round after the
  active one has records. The counter of repairs in the checkpoint grows with every
  repaired record and is never reset. `OnceInv` says what the head of a stage's list
  may already have. They give `GraphStaysBounded` and `NothingIsRepeated`.
- `ResumeInv` adds what a resume relies on: `FlowInv` (which phase the checkpoint has
  at each place of the control, and which lists are empty there), `ArchiveInv` and
  `SeedInv`, `ListsInv` (every list is of archived candidates of its round; those of
  the checkpoint too), `BeamInv`, `HardwareInv` (what may still be measured),
  `OwnerInv` (who owns an identity, in the archive and in memory) and `FinalInv`.
  They give `BeamsAreSound`, `CheckpointsLoad`, `IdentitiesHaveOneOwner`,
  `ModelComesFirst`, `ExportsPassed`, `NothingStartsLate` and `StagesStay`. The last
  one assumes that there is no time budget, see section 2; the others hold
  with the deadline and crashes in the same behaviour, which no run has.
- `RankInv` follows every correct measurement until the beam has ranked it
  (`BestIsKept`). `KeptInv`: it does not beat the incumbent of the checkpoint, or it
  is in `measured` and the stage goes on (`OnDisk`, for a process that cannot die),
  or the checkpoint names it, and the stage that a resume goes through again has it in
  `measured` or still before it (`Pending` and `InMemory`, for one that can).
  `HeldInv` says what of the checkpoint the process holds in memory. The incumbent
  itself only gets faster (`IncumbentStep`), as the head of both kinds of beam is the
  fastest of the pool (`BeamsHead`).

**`OnlineFeedbackProofs`** (`FeedbackAssumption`). `Inv1` says to what stage the
checkpoint leads and whose candidates it lists (`StagesFollow`). On it rest
`CountInv` (how many candidates there are: `TypeCorrect`), `TrustInv` (trust is that
of the archive, or the measurement stage is not over: `TrustIsOfTheArchive`),
`LessonInv` and `ObservedInv` (what a process has learned is in its memory, in the
checkpoint, or comes again: `MeasurementsAreLearned`), `ModelInv` and `ScaleInv`
(until the round measures, its models are of the saved calibration:
`SelectionHasOneScale`). The measurements of a round are appended one by one, so
that what they leave is a prefix argument and not a computation of medians.

**`IncumbentRecorderProofs`** (`RecorderAssumption`). `RecorderInv` has a part for
each thing two threads and two processes can disagree about: `StageInv` (what the
archive holds), `LockInv` (who stands where), `CountInv` (the counter and the two
files), `TimeInv` and `SlotInv` (the clock and the timer's slots), `ScanInv` (a scan
that has seen old and new records is still no worse than the last row), `ChangeInv`
and `ClosingInv`. They give all six properties of the run. `CountInv` and with it
`HistoryGoesOn` speak of the numbers only as long as no append has raised
(section 4).

**`EvaluatorWorkerProofs`** (`WorkerAssumption`). `WorkerInv` has, beside `Typed`:

- `CountInv`: the count of requests is that of the worker there is; the bound is
  tested in `_ensure_worker`, and nothing is sent between the test and the write
  (`RequestsStayBounded`).
- `StrayInv`: a process that has neither exited nor been killed is the worker, or
  the one that is being terminated (`NoneStrays`).
- `AnswerInv`: a worker at rest is `Quiet` and has answered all it was sent; one
  that is waited for has `OneJob`: the request is in its stdin, in its hands or
  answered, with at most one answer in the pipe and the buffer together
  (`QuietBeforeRequest`).

`BackendImplementsService` is the refinement: under `ServiceInv`, which adds that the
worker is the newest process, the initial state maps to the service's, and every
step of the backend or of a worker to one action of the service or to a stutter.

**`NcuMilestonesProofs`** (`MilestonesAssumption`). `MilestoneInv` compares the
memory with the checkpoint: `SavedInv` (the checkpoint is of the active round),
`DecisionInv` (what a decision has changed) and `TakenInv`: a profile of the active
round is known to the checkpoint or the checkpoint leads to the same decision again.
All that one memory leads to is `Alike`: one kernel for one reason, or, for staleness
and plateau only, kernels that are equally fast (`ChoicesAgree`). That is why a round
that is decided twice profiles one kernel or equally fast ones
(`MilestonesAreSpaced`); `FreshEvidence` is inductive with the rest.

**`GenerationProofs`** (`GenerationAssumption`). `RequestInv` says where the requests
of a client come from: at most `tries` in the present loop and `MaxRetries + 1` in
the one before a recovery (`CallsStayBounded`). `CountInv` adds the ledger: what was
sent since the controller last counted is the sum of what the clients report, or
will (`EverythingIsCounted`). `BindingInv` adds that no client answers with more than
its slots and carries the fold of the binding along the merged proposals
(`BindingIsUniform`, `TypeCorrect`).

**`ExperimentSuiteProofs`** (`SuiteAssumption`, `TreatmentAssumption`). `Inv` says of
every directory and the work done in it that they agree (`Sound`), of the process
what it has done to its directory (`InStep`), that the comparison works only under an
effective task that was neither replaced nor torn (`TaskInv`), and that each row is what its
directory says, also after later invocations and changes of the presets (`RowsInv`,
`ReportInv`). It gives `ResultsAreComparable`, `ZeroMeansDone` and `TypeCorrect`.

**`Recursion`** holds what the sums, folds and plans need. The provers cannot
instantiate the library's induction theorems, whose parameter is an operator; the
lemmas here take a set in place of the predicate (`SetInduction`, `RangeInduction`)
and a function in place of the step (`RecursionExists`), and are derived from
the well-foundedness of the naturals.

Two remarks for whoever extends the proofs: updates of several fields of one
record are written `[rec EXCEPT ![c] = [@ EXCEPT !.a = .., !.b = ..]]`, with no `@`
inside of the inner EXCEPT, and guards are extracted in steps of their own before
arithmetic.

## 10. What is not proved, and what is not modelled

Only model-checked: liveness (`EventuallyEnds`, `CallsEnd`, `CallsReturn`,
`RerunsSettle`; fairness and ENABLED are out of the prover's reach). `StageKept` is
proved without a time budget and false with one; `BeamKeepsBest` (section 2),
`SpacedMilestones` (section 6) and the properties of section 3 name their exceptions,
and `ComparableResults` leaves out what nothing compares (section 8). The three properties that runs refute are about the code's
disagreements with its documents.

Not modelled: prompts and their compression, reports, cost tables and progress
lines (nothing of the search depends on them); wiring and environment manifests
(no state that a later step reads); the numeric evaluation of a kernel on a GPU;
the catalogue of strategies and the comparison of syntax trees (data without
control); in the controller strategy planning, TIR analysis and the usage of the
planner; in the backend artifact files, environments and metadata.

Hazards that no property covers, besides those in `PROJECT.json`: the second final
validation of a resumed run only looks at the seed and the current beam
(controller.py:2635), and reports the search best of the first (403); an
infrastructure failure in the seed's final validation is archived as its result
(2722); archived infrastructure failures are counted again by a resume (2303);
usage counters lose what came after the last checkpoint (2599), and so does the
search time; a stop by the deadline after a profile decision counts the round twice
towards a plateau (milestones.py:87); an interval row written during the final checkpoint may
mix both bases of latency (incumbent_tracking.py:199); a failed worker stop leaves
the metadata of the call before it (command.py:271); the artifact store compares
only task_id and input source of an existing directory (archive.py:53-60), so that
the scripts without effective task files can resume under a changed task. The
models have the first three, the plateau's and the last; the documents do not say
what is intended.

## 11. Plan

1. `Selection`: the promotion policies as operators on finite sets, against a
   reference definition of what a promotion is, and a place for them in `Select` of
   `OnlineFeedback`.
2. Composition: the recorder over the controller's archive instead of over
   `Controller`'s abstraction of it.
3. What a recorder or a report may claim of a resumed search: composing
   `RankInv` with the recorder's invariant, so that the closing row is related to the
   beam of the last checkpoint.
