--------------------------- MODULE OnlineFeedback --------------------------
(***************************************************************************)
(* What the search learns from its own measurements, and what a resumed    *)
(* search still knows of it: the latency calibrator (calibration.py), the  *)
(* trust in the model (trust.py) and the evidence memory (evidence.py),    *)
(* with the places in controller.py that feed and use them.                *)
(*                                                                         *)
(* The three live in memory.  Records are archived as soon as they change; *)
(* calibrator and lessons reach state.json with the checkpoint of a stage  *)
(* and whenever a repair is asked for; trust is computed from the archive. *)
(* A process that dies is resumed from the checkpoint and goes through the *)
(* interrupted stage again; one that runs out of time checkpoints first.   *)
(*                                                                         *)
(* Latencies are naturals, and a prediction divides every latency, so that *)
(* ratios are naturals too; scales and rankings are doubled, which keeps   *)
(* medians whole.  SearchController has the stages in full: here a round   *)
(* proposes for the incumbent or the seed, repairs only what failed in the *)
(* model or on the GPU, and finds no equal code.                           *)
(***************************************************************************)
EXTENDS Integers, Sequences, FiniteSets, SequencesExt, FiniteSetsExt

CONSTANTS
  Policies,    \* evaluation policies: "tilesight" or "ncu"
  Predicted,   \* what the model can predict
  Regimes,     \* pairs of a coarse regime and a finer one
  Latencies,   \* what the GPU can measure
  MinSamples,  \* budget.calibration_min_samples
  Rounds,      \* budget.rounds
  Proposals,   \* budget.proposals_per_round
  MaxRepairs,  \* budget.max_repairs_per_round
  MaxEnds      \* bound: processes that die or run out of time

ASSUME FeedbackAssumption ==
  /\ Policies \subseteq {"tilesight", "ncu"}
  /\ Predicted \cup Latencies \subseteq Nat \ {0}
  /\ \A ms \in Predicted, latency \in Latencies : latency % ms = 0
  /\ {MinSamples, Rounds, Proposals} \subseteq Nat \ {0}
  /\ {MaxRepairs, MaxEnds} \subseteq Nat

Seed    == 1
NoModel == [valid |-> FALSE, ms |-> 0, regime |-> <<>>, scale |-> 0]
Failures == {"none", "static", "model", "measurement", "infrastructure"}

(***************************************************************************)
(* A candidate is its place in the order of generation.  latency is 0 as   *)
(* long as there is no correct measurement.                                *)
(***************************************************************************)
Proposed(generation, parent, kind, failure) ==
  [generation |-> generation, parent |-> parent, kind |-> kind,
   failure |-> failure, modelled |-> FALSE, model |-> NoModel,
   measured |-> FALSE, latency |-> 0, profile |-> "none"]

VARIABLES
  policy,   \* evaluation policy of the run
  round,    \* the active round
  pc,       \* stage of the process; "down" when there is none
  records,  \* archive: the candidates
  todo,     \* candidates the stage has not come to
  queue,    \* failures of the stage that may be repaired
  ids,      \* candidates of the round; from "measure" on the selected ones
  repairs,  \* repairs asked for in this round
  memory,   \* observations, lessons and trust of the process
  saved,    \* state.json
  crashes, stops,
  forgotten \* history: the last round of which a stop has lost the stage

vars == <<policy, round, pc, records, todo, queue, ids, repairs, memory,
          saved, crashes, stops, forgotten>>

bounds == <<crashes, stops, forgotten>>

Known == DOMAIN records

Correct(c, rs) == rs[c].latency > 0

-----------------------------------------------------------------------------
(***************************************************************************)
(* LatencyCalibrator                                                       *)
(***************************************************************************)
Median2(ratios) ==
  LET s == SortSeq(ratios, <)
      n == Len(s)
  IN IF n % 2 = 1 THEN 2 * s[(n + 1) \div 2] ELSE s[n \div 2] + s[n \div 2 + 1]

Ratios(observations) ==
  [i \in DOMAIN observations |-> observations[i].latency \div observations[i].ms]

\* Twice the factor for a regime; 0 when there are too few samples.
Scale(observations, regime) ==
  LET exact  == SelectSeq(observations, LAMBDA o : o.regime = regime)
      coarse == SelectSeq(observations, LAMBDA o : o.regime[1] = regime[1])
  IN CASE Len(exact) >= MinSamples  -> Median2(Ratios(exact))
       [] Len(exact) < MinSamples /\ Len(coarse) >= MinSamples ->
            Median2(Ratios(coarse))
       [] OTHER -> 0

Ranking2(model) == IF model.scale = 0 THEN 2 * model.ms ELSE model.ms * model.scale

Bug_Observe(observations, c, rs) ==
  IF ~Correct(c, rs) \/ ~rs[c].model.valid THEN observations
  ELSE Append(observations, [of |-> c, regime |-> rs[c].model.regime,
                             ms |-> rs[c].model.ms, latency |-> rs[c].latency])
Observe(observations, c, rs) ==
  IF \/ \E i \in DOMAIN observations : observations[i].of = c
     \/ ~Correct(c, rs) \/ ~rs[c].model.valid
  THEN observations
  ELSE Append(observations, [of |-> c, regime |-> rs[c].model.regime,
                             ms |-> rs[c].model.ms, latency |-> rs[c].latency])

-----------------------------------------------------------------------------
(***************************************************************************)
(* TrustTracker: a sample is the ranking latency next to the measured one, *)
(* and whether the step from the parent had the predicted direction.       *)
(***************************************************************************)
Ranked(c, rs) == Correct(c, rs) /\ rs[c].model.valid

Direction(c, rs) ==
  LET p == rs[c].parent
      predicted == Ranking2(rs[c].model) - Ranking2(rs[p].model)
      measured  == rs[c].latency - rs[p].latency
  IN IF ~Ranked(p, rs) \/ predicted = 0 \/ measured = 0 THEN "none"
     ELSE IF (predicted < 0) = (measured < 0) THEN "right" ELSE "wrong"

Sample(c, rs) == [of |-> c, ranking |-> Ranking2(rs[c].model),
                  latency |-> rs[c].latency, direction |-> Direction(c, rs)]

\* TrustTracker.update
Update(trust, c, rs) ==
  IF Ranked(c, rs) THEN Append(trust, Sample(c, rs)) ELSE trust

\* _rebuild_trust: from the archive, in order, without the seed.
TrustOf(rs) ==
  LET upTo[c \in 0..Len(rs)] ==
        IF c <= Seed THEN <<>> ELSE Update(upTo[c - 1], c, rs)
  IN upTo[Len(rs)]

-----------------------------------------------------------------------------
(***************************************************************************)
(* GlobalEvidenceMemory: a lesson is known by its candidate and its kind.  *)
(* The code's identifier hashes what was observed, too (evidence.py,       *)
(* 172-181): if that changes, there is a second lesson of the same kind,   *)
(* and here there is still one.                                            *)
(***************************************************************************)
Lesson(c, rs) ==
  CASE rs[c].failure = "infrastructure" -> {}
    [] rs[c].failure \notin {"none", "infrastructure"} -> {<<c, "failure">>}
    [] rs[c].failure = "none" /\ rs[c].profile = "valid" ->
         {<<c, "hardware-profile">>}
    [] rs[c].failure = "none" /\ rs[c].profile # "valid" /\ Correct(c, rs) ->
         {<<c, "measured-outcome">>}
    [] OTHER -> {}

\* _diagnose_and_remember
Remember(lessons, c, rs) == lessons \cup Lesson(c, rs)

-----------------------------------------------------------------------------
NewMemory == [observations |-> <<>>, lessons |-> {}, trust |-> <<>>]

\* _checkpoint; the trust in it is computed anew by a resume.
Checkpoint(phase, names, mem, count) ==
  saved' = [phase |-> phase, round |-> round, ids |-> names, repairs |-> count,
            observations |-> mem.observations, lessons |-> mem.lessons]

Save(phase) == Checkpoint(phase, ids, memory, repairs)

(***************************************************************************)
(* _initialize_seed, with its checkpoint: the model of the seed is never   *)
(* calibrated.  A seed that fails ends the run.                            *)
(***************************************************************************)
SeedRecord(model, latency, profile) ==
  [Proposed(0, 0, "seed", "none") EXCEPT
     !.modelled = model.valid, !.model = model, !.measured = TRUE,
     !.latency = latency, !.profile = profile]

Models == [valid : {TRUE}, ms : Predicted, regime : Regimes, scale : {0}]

Init ==
  /\ policy \in Policies /\ round = 1 /\ pc = "generate"
  /\ \E model \in IF policy = "tilesight" THEN Models ELSE {NoModel},
        latency \in Latencies,
        profile \in {"valid", "failed"} \cup
          (IF policy = "tilesight" THEN {"none"} ELSE {}) :
       records = <<SeedRecord(model, latency, profile)>>
  /\ todo = {} /\ queue = {} /\ ids = {} /\ repairs = 0
  /\ memory = [observations |-> Observe(<<>>, Seed, records),
               lessons |-> Lesson(Seed, records), trust |-> <<>>]
  /\ saved = [phase |-> "", round |-> 1, ids |-> {}, repairs |-> 0,
              observations |-> memory.observations, lessons |-> memory.lessons]
  /\ crashes = 0 /\ stops = 0 /\ forgotten = 0

-----------------------------------------------------------------------------
Incumbent ==
  CHOOSE c \in Known : /\ Correct(c, records)
                       /\ \A d \in Known : Correct(d, records) =>
                            records[c].latency <= records[d].latency

InRound(kind) ==
  {c \in Known : records[c].generation = round /\ records[c].kind = kind}

\* _persist_runtime_counters, with every answer of the API.
Bug_Persist == UNCHANGED saved
Persist == saved' = [saved EXCEPT !.repairs = repairs',
                                  !.observations = memory.observations,
                                  !.lessons = memory.lessons]

(***************************************************************************)
(* _generate_round: the proposals that the archive does not have yet; one  *)
(* is the first of an answer, or came with the one before.  An answer may  *)
(* fall short of the round's budget.  A source that fails static           *)
(* validation is remembered at once.                                       *)
(***************************************************************************)
AllProposed == Cardinality(InRound("proposal")) = Proposals

Propose(parent, failure) ==
  /\ pc = "generate" /\ ~AllProposed
  /\ records' = Append(records, Proposed(round, parent, "proposal", failure))
  /\ memory' = [memory EXCEPT !.lessons = Remember(@, Len(records'), records')]
  /\ UNCHANGED <<policy, round, pc, todo, queue, ids, repairs, bounds>>
  /\ Persist \/ UNCHANGED saved

\* What the round has in the archive, repairs of a forgotten stage included.
Generated ==
  {c \in Known : records[c].generation = round /\ records[c].failure = "none"}

GenerationEnds ==
  /\ pc = "generate" /\ Generated # {}
  /\ ids' = Generated /\ todo' = ids' /\ queue' = {}
  /\ pc' = "model"
  /\ Checkpoint("generated", ids', memory, repairs)
  /\ UNCHANGED <<policy, round, records, repairs, memory, bounds>>

(***************************************************************************)
(* _model_candidates of the candidates that have no model yet.  A valid    *)
(* model is calibrated with what has been observed, an invalid one is      *)
(* remembered; the ncu policy skips the model.                             *)
(***************************************************************************)
ModelOf(c, model, failure) ==
  [records EXCEPT ![c] = [@ EXCEPT
     !.modelled = TRUE, !.failure = failure,
     !.model = IF failure = "none"
               THEN [model EXCEPT !.scale = Scale(memory.observations, model.regime)]
               ELSE NoModel]]

Failed(c, rs) == rs[c].failure \in {"model", "measurement"}

Walked(c, rs) ==
  /\ todo' = todo \ {c}
  /\ queue' = IF Failed(c, rs) THEN queue \cup {c} ELSE queue

Modelled(c, model, failure) ==
  /\ records' = ModelOf(c, model, failure)
  /\ memory' = [memory EXCEPT !.lessons =
       IF failure = "none" THEN @ ELSE Remember(@, c, records')]

Model(c) ==
  /\ pc = "model" /\ c \in todo /\ \A d \in todo : c <= d
  /\ IF policy = "ncu" \/ records[c].modelled
     THEN UNCHANGED <<records, memory>>
     ELSE \E model \in Models, failure \in {"none", "model", "infrastructure"} :
            Modelled(c, model, failure)
  /\ Walked(c, records')
  /\ UNCHANGED <<policy, round, pc, ids, repairs, saved, bounds>>

(***************************************************************************)
(* _repair_candidate: the counter, the calibrator and the lessons are      *)
(* persisted before the answer becomes a record.  The answer is useless,   *)
(* or goes through the stage next: one of a measurement failure is         *)
(* modelled first, if there is a model.                                    *)
(***************************************************************************)
CanRepair == todo = {} /\ queue # {} /\ repairs < MaxRepairs

Repaired ==
  IF pc = "measure" /\ policy = "tilesight" THEN "model-repair" ELSE pc

Repair(c) ==
  /\ pc \in {"model", "measure"} /\ CanRepair /\ c \in queue
  /\ repairs' = repairs + 1 /\ Persist
  /\ queue' = queue \ {c}
  /\ \/ UNCHANGED <<pc, records, todo, ids>>
     \/ /\ records' = Append(records, Proposed(round, c, "repair", "none"))
        /\ todo' = {Len(records')} /\ ids' = ids \cup todo'
        /\ pc' = Repaired
  /\ UNCHANGED <<policy, round, memory, bounds>>

NoRepair == todo = {} /\ (queue = {} \/ repairs = MaxRepairs)

Promotable ==
  {c \in ids : IF policy = "tilesight" THEN records[c].model.valid
               ELSE records[c].failure = "none" /\ ~records[c].measured}

ModelEnds ==
  /\ pc = "model" /\ NoRepair
  /\ Save("modeled") /\ pc' = "select"
  /\ UNCHANGED <<policy, round, records, todo, queue, ids, repairs, memory,
                 bounds>>

\* The policy promotes some of the candidates, by rank and trust, one at least.
Select ==
  /\ pc = "select" /\ pc' = "measure" /\ queue' = {}
  /\ ids' \in SUBSET Promotable
  /\ ids' = {} => Promotable = {}
  /\ policy = "ncu" => ids' = Promotable
  /\ todo' = ids' /\ Checkpoint("selected", ids', memory, repairs)
  /\ UNCHANGED <<policy, round, records, repairs, memory, bounds>>

(***************************************************************************)
(* _measure_candidates: every candidate of the list, measured or not, is   *)
(* observed, diagnosed and remembered; at the end trust is rebuilt.  What  *)
(* a resume finds in the list is measured with or without a model.         *)
(***************************************************************************)
Outcome(c) ==
  IF records[c].measured THEN {records[c]}
  ELSE LET with(latency, failure) ==
             [records[c] EXCEPT !.measured = TRUE, !.latency = latency,
                                !.failure = failure]
       IN {with(latency, "none") : latency \in Latencies}
            \cup {with(0, failure) : failure \in {"measurement", "infrastructure"}}

Bug_TrustAfter(c, rs) == Update(memory.trust, c, rs)
TrustAfter(c, rs) == IF todo = {c} THEN TrustOf(rs) ELSE memory.trust

ModelRepair(c) ==
  /\ pc = "model-repair" /\ pc' = "measure" /\ c \in todo
  /\ \E model \in Models, failure \in {"none", "model", "infrastructure"} :
       /\ Modelled(c, model, failure)
       /\ IF failure = "none" THEN UNCHANGED <<todo, queue>>
          ELSE Walked(c, records')
  /\ UNCHANGED <<policy, round, ids, repairs, saved, bounds>>

Measure(c) ==
  /\ pc = "measure" /\ c \in todo
  /\ \E outcome \in Outcome(c) : records' = [records EXCEPT ![c] = outcome]
  /\ Walked(c, records')
  /\ memory' = [observations |-> Observe(memory.observations, c, records'),
                lessons |-> Remember(memory.lessons, c, records'),
                trust |-> TrustAfter(c, records')]
  /\ UNCHANGED <<policy, round, pc, ids, repairs, saved, bounds>>

\* A profile of a measured candidate, once, and what is learned from it.
Profiled(c) ==
  /\ \E profile \in IF records[c].profile = "none" THEN {"valid", "failed"}
                    ELSE {records[c].profile} :
       records' = [records EXCEPT ![c] = [@ EXCEPT !.profile = profile]]
  /\ memory' = [memory EXCEPT !.lessons = Remember(@, c, records')]

(***************************************************************************)
(* Under the ncu policy every measured candidate is profiled before the    *)
(* stage is checkpointed.                                                  *)
(***************************************************************************)
MeasureEnds ==
  /\ pc = "measure" /\ NoRepair
  /\ pc' = IF policy = "ncu" THEN "profile-all" ELSE "profile"
  /\ todo' = {c \in ids : Correct(c, records)} /\ queue' = {}
  /\ IF policy = "ncu" THEN UNCHANGED saved ELSE Save("measured")
  /\ UNCHANGED <<policy, round, records, ids, repairs, memory, bounds>>

ProfileAll ==
  /\ pc = "profile-all"
  /\ \/ /\ \E c \in todo : Profiled(c) /\ todo' = todo \ {c}
        /\ UNCHANGED <<pc, saved>>
     \/ /\ todo = {} /\ Save("measured") /\ pc' = "profile"
        /\ UNCHANGED <<records, todo, memory>>
  /\ UNCHANGED <<policy, round, queue, ids, repairs, bounds>>

(***************************************************************************)
(* _maybe_profile_round: a milestone, or none.                             *)
(***************************************************************************)
Milestone ==
  /\ pc = "profile" /\ policy = "tilesight" /\ pc' = "finish"
  /\ \E c \in {d \in Known : Correct(d, records)} : Profiled(c)
  /\ UNCHANGED <<policy, round, todo, queue, ids, repairs, saved, bounds>>

\* A round without a candidate ends the search, unless it has a fixed time.
EmptyRound == pc = "generate" /\ Generated = {}

RoundEnds ==
  /\ pc \in {"profile", "finish"} \/ EmptyRound
  /\ \/ pc' = IF round = Rounds THEN "over" ELSE "generate"
     \/ EmptyRound /\ pc' = "over"
  /\ round' = round + 1
  /\ ids' = {} /\ todo' = {} /\ queue' = {} /\ repairs' = 0
  /\ saved' = [phase |-> "", round |-> round', ids |-> {}, repairs |-> 0,
               observations |-> memory.observations, lessons |-> memory.lessons]
  /\ UNCHANGED <<policy, records, memory, bounds>>

-----------------------------------------------------------------------------
Running == pc \notin {"down", "over"}

Down ==
  /\ pc' = "down" /\ memory' = NewMemory
  /\ todo' = {} /\ queue' = {} /\ ids' = {} /\ repairs' = 0
  /\ UNCHANGED <<policy, round, records>>

Crash ==
  /\ Running /\ crashes + stops < MaxEnds
  /\ crashes' = crashes + 1 /\ Down
  /\ UNCHANGED <<saved, stops, forgotten>>

(***************************************************************************)
(* _stop_for_time_budget, between two operations of a stage: phase and     *)
(* candidates of the stage are kept, and so is the memory.  The phase is   *)
(* lost when the stop comes at the start of the round, right after a       *)
(* resume, or is followed by a final validation with its own checkpoint.   *)
(***************************************************************************)
OutOfTime ==
  /\ Running /\ pc # "select" /\ crashes + stops < MaxEnds
  /\ stops' = stops + 1
  /\ \/ Save(saved.phase) /\ UNCHANGED forgotten
     \/ Checkpoint("", {}, memory, repairs) /\ forgotten' = round
  /\ Down /\ UNCHANGED crashes

(***************************************************************************)
(* _restore: what the checkpoint has, or all of the archive if that is     *)
(* nothing; trust always from the archive.                                 *)
(***************************************************************************)
AllLessons == UNION {Lesson(c, records) : c \in Known}

AllObservations ==
  LET upTo[c \in 0..Len(records)] ==
        IF c = 0 THEN <<>> ELSE Observe(upTo[c - 1], c, records)
  IN upTo[Len(records)]

Bug_Restored ==
  [observations |-> <<>>, lessons |-> saved.lessons, trust |-> TrustOf(records)]
Restored ==
  [observations |-> IF saved.observations = <<>> THEN AllObservations
                    ELSE saved.observations,
   lessons |-> IF saved.lessons = {} THEN AllLessons ELSE saved.lessons,
   trust |-> TrustOf(records)]

Stage(phase) ==
  CASE phase = ""          -> "generate"
    [] phase = "generated" -> "model"
    [] phase = "modeled"   -> "select"
    [] phase = "selected"  -> "measure"
    [] phase = "measured"  -> "profile"

Resume ==
  /\ pc = "down" /\ pc' = Stage(saved.phase)
  /\ memory' = Restored /\ ids' = saved.ids /\ repairs' = saved.repairs
  /\ todo' = IF pc' \in {"model", "measure"} THEN saved.ids ELSE {}
  /\ UNCHANGED <<policy, round, records, queue, saved, bounds>>

Next ==
  \/ \E parent \in {Seed, Incumbent}, failure \in {"none", "static"} :
       Propose(parent, failure)
  \/ \E c \in Known : Model(c) \/ Repair(c) \/ ModelRepair(c) \/ Measure(c)
  \/ GenerationEnds \/ ModelEnds \/ Select \/ MeasureEnds \/ ProfileAll
  \/ Milestone \/ RoundEnds \/ Crash \/ OutOfTime \/ Resume

Spec == Init /\ [][Next]_vars

-----------------------------------------------------------------------------
(* Properties                                                              *)

(***************************************************************************)
(* Type invariant; the archive holds no more candidates than the budget    *)
(* grants, however often a round is resumed.                               *)
(***************************************************************************)
TypeOK ==
  /\ policy \in Policies /\ round \in 1..Rounds + 1
  /\ Len(records) <= 1 + Rounds * (Proposals + MaxRepairs)
  /\ \A c \in Known : /\ records[c].failure \in Failures
                      /\ records[c].parent < c
                      /\ records[c].profile \in {"none", "valid", "failed"}
                      /\ records[c].model = NoModel \/
                           records[c].model.ms \in Predicted
  /\ todo \cup queue \cup ids \subseteq Known
  /\ repairs \in 0..MaxRepairs
  /\ memory.lessons \subseteq Known \X {"failure", "hardware-profile",
                                        "measured-outcome"}
  /\ crashes \in Nat /\ stops \in Nat /\ crashes + stops <= MaxEnds
  /\ forgotten \in 0..Rounds

(***************************************************************************)
(* Whenever trust decides how many candidates are promoted, and in all     *)
(* other stages but the measurement, it counts each measured candidate of  *)
(* the archive once: those of earlier processes, and those that a resumed  *)
(* stage goes through again (_rebuild_trust).  One exception: a stop lists *)
(* the repairs of a measurement stage, the resume measures them without a  *)
(* model, and if a second stop loses that stage they are modelled after    *)
(* they were measured; trust has them when this round has measured again.  *)
(***************************************************************************)
Measuring == pc \in {"measure", "model-repair"}

Overtaken ==
  /\ pc \in {"model", "select"}
  /\ \E c \in ids : records[c].kind = "repair" /\ Ranked(c, records)

TrustOfArchive ==
  Running /\ ~Measuring /\ ~Overtaken => memory.trust = TrustOf(records)

(***************************************************************************)
(* Past its measurement stage there is a lesson of a candidate, and the    *)
(* calibrator has observed it with its raw prediction, over any number of  *)
(* crashes and stops; it is never observed twice.  The exceptions are      *)
(* measurements of a crashed stage that nothing need lead back to: repairs *)
(* and, if a stop loses the stage before it is gone through again, all.    *)
(* A repair that is modelled after it was measured is not observed either. *)
(***************************************************************************)
Settled(c) ==
  /\ records[c].measured /\ records[c].failure # "infrastructure"
  /\ records[c].kind = "repair" \/ forgotten # 0 => crashes = 0

Observed(observations, c) ==
  \E i \in DOMAIN observations :
    /\ observations[i].of = c /\ observations[i].ms = records[c].model.ms
    /\ observations[i].latency = records[c].latency

Learned(c) ==
  /\ \E lesson \in memory.lessons : lesson[1] = c
  /\ Ranked(c, records) /\ (records[c].kind = "repair" => forgotten = 0) =>
       Observed(memory.observations, c)

MeasurementsLearned ==
  /\ Running /\ ~Measuring => \A c \in Known : Settled(c) => Learned(c)
  /\ \A i, j \in DOMAIN memory.observations :
       memory.observations[i].of = memory.observations[j].of => i = j

(***************************************************************************)
(* Candidates that one selection compares were scaled alike if they are of *)
(* one regime, although some were modelled before a crash, some after it   *)
(* (the calibrator learns in the measurement stage only).  A stop that has *)
(* lost the stage takes the round back to its generation: what is proposed *)
(* or repaired from then on meets a calibration that the others did not.   *)
(***************************************************************************)
OneScale ==
  pc = "select" /\ forgotten # round => \A c, d \in Promotable :
    records[c].model.regime = records[d].model.regime
    => records[c].model.scale = records[d].model.scale

(***************************************************************************)
(* A large error of scale "does not permanently condemn a model whose      *)
(* ordering later agrees with hardware" (trust.py:90): a step that the     *)
(* model and the GPU ordered alike, within one regime, is not counted as a *)
(* wrong direction.                                                        *)
(***************************************************************************)
OrderCounted ==
  \A i \in DOMAIN memory.trust :
    LET c == memory.trust[i].of
        p == records[c].parent
        faster(a, b) == /\ records[a].model.ms < records[b].model.ms
                        /\ records[a].latency < records[b].latency
    IN /\ memory.trust[i].direction = "wrong"
       /\ records[c].model.regime = records[p].model.regime
       => ~faster(c, p) /\ ~faster(p, c)
=============================================================================
