---------------------------- MODULE NcuMilestones --------------------------
(***************************************************************************)
(* Which kernel is profiled with NCU, and when (src/src/                   *)
(* kernel_optimization/milestones.py, and the end of a round in            *)
(* controller.py, _maybe_profile_round).                                   *)
(*                                                                         *)
(* The policy decides once a round, from what the round has measured and   *)
(* from a memory of earlier profiles.  Records are archived as soon as     *)
(* they change, the memory only with the checkpoint of a round's end or of *)
(* a stop by the deadline; a process that dies in between is resumed from  *)
(* the checkpoint and decides again.                                       *)
(*                                                                         *)
(* A kernel is its place in the order of measurement.  Its identifier is a *)
(* hash: of it, only the order is kept, that of the names and then of the  *)
(* places.  Only correct measured kernels matter, and a round lists them   *)
(* by latency, since their order decides ties only.  The order of all      *)
(* records decides ties too, and a resume reads them in the order in which *)
(* the file system lists the directories (archive.py, 213-216): any of the *)
(* equally fast kernels may come first.                                    *)
(* Latencies and predictions are positive naturals.  How kernels are       *)
(* generated, modelled and measured is one step here (SearchController has *)
(* all of it), and the run has no final validation, which would take the   *)
(* place of the checkpoint of a stopped round.                             *)
(***************************************************************************)
EXTENDS Integers, Sequences, FiniteSets, SequencesExt

CONSTANTS
  Policies,            \* profile policies to choose from
  SeedKernel,          \* what the input kernel measures
  Outcomes,            \* what a proposed kernel can measure
  BatchSize,           \* kernels a round can measure
  Rounds,              \* budget.rounds
  ImprovementPct,      \* ncu_improvement_threshold
  BreakthroughPct,     \* ncu_breakthrough_threshold
  MinInterval,         \* ncu_min_interval_rounds
  MaxStaleness,        \* ncu_max_staleness_rounds
  PlateauRounds,       \* ncu_plateau_rounds
  MaxRestarts          \* bound: times the run is resumed

Kernels ==
  [name : Nat, lat : Nat \ {0}, predicted : Nat \ {0},
   sure : BOOLEAN, onSeed : BOOLEAN]

ASSUME MilestonesAssumption ==
  /\ Policies \subseteq {"milestone", "every-round", "none"}
  /\ {SeedKernel} \cup Outcomes \subseteq Kernels
  /\ {ImprovementPct, BreakthroughPct, MaxRestarts} \subseteq Nat
  /\ BreakthroughPct >= ImprovementPct
  /\ {BatchSize, Rounds, MinInterval, MaxStaleness, PlateauRounds}
       \subseteq Nat \ {0}

(* A measured kernel as the archive has it.                                *)
Record(kernel, profile) ==
  [name |-> kernel.name, lat |-> kernel.lat, predicted |-> kernel.predicted,
   sure |-> kernel.sure, onSeed |-> kernel.onSeed, profile |-> profile]

Seed == 1
NoChoice == [kernel |-> 0, reason |-> "no-milestone"]
Reasons == {"breakthrough-measured-improvement",
            "meaningful-measured-improvement",
            "model-measurement-disagreement", "low-model-confidence",
            "profile-staleness", "search-plateau", "every-round"}

VARIABLES
  policy,    \* the profile policy of the run
  round,     \* the active round
  stage,     \* where the process is in it; "down" when there is none
  kernels,   \* archive: what was measured, in order, and its profile
  first,     \* the first kernel that the active round measured
  before,    \* best_before: the incumbent at the start of the round
  memory,    \* last_profile_round, plateau_rounds, profiled_ids
  chosen,    \* the decision of the round
  saved,     \* state.json
  restarts,  \* times the run was resumed
  taken      \* history: the profile calls, by round and kernel

vars == <<policy, round, stage, kernels, first, before, memory, chosen,
          saved, restarts, taken>>

-----------------------------------------------------------------------------
(* Policy                                                                  *)

Known == 1..Len(kernels)
Batch == first..Len(kernels)
Lat(k) == kernels[k].lat
Parent(k) == IF kernels[k].onSeed THEN Seed ELSE before

\* The order of the identifiers.
Earlier(j, k) ==
  \/ kernels[j].name < kernels[k].name
  \/ kernels[j].name = kernels[k].name /\ j <= k

\* The beam, and the policy of every round: by latency, then by identifier.
Quicker(j, k) == Lat(j) < Lat(k) \/ (Lat(j) = Lat(k) /\ Earlier(j, k))
Quickest(S)   == {k \in S : \A j \in S : Quicker(k, j)}

\* min() with the latency as its key, and the one it finds first in the list
\* of a round, which the checkpoint keeps.
Fastest(S) == {k \in S : \A j \in S : Lat(k) <= Lat(j)}
FirstOf(S) == {k \in S : \A j \in S : k <= j}

Best == CHOOSE k \in Known : \A j \in Known : Quicker(k, j)

Unprofiled(S) == S \ memory.profiled
Improved == Lat(Best) < Lat(before)
Gained(pct) ==
  /\ Improved /\ Best \notin memory.profiled
  /\ (Lat(before) - Lat(Best)) * 100 >= pct * Lat(before)

Bug_SpacedOneShort == round - memory.last >= MinInterval - 1
SpacingReady == round - memory.last >= MinInterval

Plateau == IF Improved THEN 0 ELSE memory.plateau + 1

(***************************************************************************)
(* _largest_disagreement: the model and the GPU see the step from the      *)
(* parent in opposite directions; the largest predicted step goes first.   *)
(***************************************************************************)
Disagreeing ==
  {k \in Unprofiled(Batch) :
     (kernels[k].predicted < kernels[Parent(k)].predicted)
       # (Lat(k) < Lat(Parent(k)))}

PredictedStep(k) ==
  LET step == kernels[k].predicted - kernels[Parent(k)].predicted
  IN IF step < 0 THEN -step ELSE step

LargerStep(k, j) ==
  LET left  == PredictedStep(k) * kernels[Parent(j)].predicted
      right == PredictedStep(j) * kernels[Parent(k)].predicted
  IN left > right \/ (left = right /\ Earlier(j, k))

LargestDisagreement ==
  {k \in Disagreeing : \A j \in Disagreeing : LargerStep(k, j)}

LowConfidence == {k \in Unprofiled(Batch) : ~kernels[k].sure}

Larger(a, b) == IF a >= b THEN a ELSE b
Bug_StaleLate == round - memory.last > Larger(MaxStaleness, MinInterval)
Stale == round - memory.last >= Larger(MaxStaleness, MinInterval)

Choose(S, reason) == {[kernel |-> k, reason |-> reason] : k \in S}

(***************************************************************************)
(* decide(): the first trigger that applies names the kernel to profile.   *)
(***************************************************************************)
MilestoneChoices ==
  IF Gained(BreakthroughPct)
    THEN Choose({Best}, "breakthrough-measured-improvement")
  ELSE IF ~SpacingReady THEN {}
  ELSE IF Gained(ImprovementPct)
    THEN Choose({Best}, "meaningful-measured-improvement")
  ELSE IF Disagreeing # {}
    THEN Choose(LargestDisagreement, "model-measurement-disagreement")
  ELSE IF LowConfidence # {}
    THEN Choose(FirstOf(Fastest(LowConfidence)), "low-model-confidence")
  ELSE IF Stale
    THEN Choose(Fastest(Unprofiled(Known)), "profile-staleness")
  ELSE IF Plateau >= PlateauRounds
    THEN Choose(Fastest(Unprofiled(Known)), "search-plateau")
  ELSE {}

EveryRoundChoices ==
  Choose(Quickest(IF Unprofiled(Batch) # {} THEN Unprofiled(Batch)
                   ELSE Unprofiled(Known)), "every-round")

Decisions ==
  CASE policy = "milestone"   -> MilestoneChoices
    [] policy = "every-round" -> EveryRoundChoices
    [] policy = "none"        -> {}

(* mark_profiled                                                           *)
Bug_MarkedAhead(k) ==
  [memory EXCEPT !.profiled = @ \cup {k}, !.last = round + 1]
Marked(k) ==
  [memory EXCEPT !.profiled = @ \cup {k}, !.last = round]

-----------------------------------------------------------------------------
(* Rounds                                                                  *)

Checkpoint(r, s, m, f, b) ==
  [round |-> r, stage |-> s, memory |-> m, first |-> f, before |-> b]

\* The seed is profiled unless the policy is "none".
Init ==
  /\ policy \in Policies
  /\ \E profile \in IF policy = "none" THEN {"none"} ELSE {"valid", "failed"} :
       /\ kernels = <<Record(SeedKernel, profile)>>
       /\ memory = [last |-> 0, plateau |-> 0,
                    profiled |-> IF profile = "valid" THEN {Seed} ELSE {}]
       /\ taken = IF profile = "none" THEN {}
                  ELSE {[round |-> 0, kernel |-> Seed]}
  /\ round = 1 /\ stage = "measure"
  /\ first = 2 /\ before = Seed
  /\ chosen = NoChoice
  /\ saved = Checkpoint(1, "measure", memory, 2, Seed)
  /\ restarts = 0

\* Everything up to the checkpoint of phase beam_updated.
MeasureRound ==
  /\ stage = "measure"
  /\ \E batch \in BoundedSeq(Outcomes, BatchSize) :
       /\ \A i, j \in DOMAIN batch : i < j => batch[i].lat <= batch[j].lat
       /\ kernels' =
            kernels \o [i \in DOMAIN batch |-> Record(batch[i], "none")]
  /\ first' = Len(kernels) + 1
  /\ before' = Best
  /\ stage' = "decide"
  /\ saved' = Checkpoint(round, "decide", memory, first', before')
  /\ UNCHANGED <<policy, round, memory, chosen, restarts, taken>>

Decide ==
  /\ stage = "decide"
  /\ IF Decisions = {}
     THEN chosen' = NoChoice /\ stage' = "finish"
     ELSE chosen' \in Decisions /\ stage' = "profile"
  /\ memory' = IF policy = "milestone"
               THEN [memory EXCEPT !.plateau = Plateau] ELSE memory
  /\ UNCHANGED <<policy, round, kernels, first, before, saved, restarts, taken>>

\* A record that has a profile, valid or not, is not profiled again.
CountsAsEvidence(profile) == profile = "valid"

ProfileChosen ==
  /\ stage = "profile"
  /\ LET k == chosen.kernel IN
     \E profile \in IF kernels[k].profile = "none" THEN {"valid", "failed"}
                    ELSE {kernels[k].profile} :
       /\ kernels' = [kernels EXCEPT ![k].profile = profile]
       /\ taken' = IF kernels[k].profile = "none"
                   THEN taken \cup {[round |-> round, kernel |-> k]} ELSE taken
       /\ memory' = IF CountsAsEvidence(profile) THEN Marked(k) ELSE memory
  /\ stage' = "finish"
  /\ UNCHANGED <<policy, round, first, before, chosen, saved, restarts>>

FinishRound ==
  /\ stage = "finish"
  /\ round' = round + 1
  /\ stage' = IF round = Rounds THEN "over" ELSE "measure"
  /\ saved' = Checkpoint(round + 1, stage', memory, first, before)
  /\ UNCHANGED <<policy, kernels, first, before, memory, chosen, restarts,
                 taken>>

(***************************************************************************)
(* The deadline, before the policy is asked or after the profile: the      *)
(* checkpoint has the memory of now and leads back to the decision.        *)
(***************************************************************************)
OutOfTime ==
  /\ stage \in {"decide", "finish"}
  /\ saved' = Checkpoint(round, "decide", memory, first, before)
  /\ stage' = "down"
  /\ UNCHANGED <<policy, round, kernels, first, before, memory, chosen,
                 restarts, taken>>

\* A crash, or a circuit breaker that ends the process.
Crash ==
  /\ stage \notin {"down", "over"}
  /\ stage' = "down"
  /\ UNCHANGED <<policy, round, kernels, first, before, memory, chosen, saved,
                 restarts, taken>>

Resume ==
  /\ stage = "down" /\ restarts < MaxRestarts
  /\ restarts' = restarts + 1
  /\ round' = saved.round /\ stage' = saved.stage
  /\ memory' = saved.memory
  /\ first' = saved.first /\ before' = saved.before
  /\ chosen' = NoChoice
  /\ UNCHANGED <<policy, kernels, saved, taken>>

Next ==
  \/ MeasureRound \/ Decide \/ ProfileChosen \/ FinishRound
  \/ OutOfTime \/ Crash \/ Resume

Spec == Init /\ [][Next]_vars

-----------------------------------------------------------------------------
(* Properties                                                              *)

Profile == {"none", "valid", "failed"}
Memory == [last : 0..Rounds, plateau : Nat, profiled : SUBSET Known]

TypeOK ==
  /\ policy \in Policies
  /\ round \in 1..Rounds + 1
  /\ stage \in {"measure", "decide", "profile", "finish", "over", "down"}
  /\ \A k \in Known : kernels[k].profile \in Profile
  /\ first \in 2..Len(kernels) + 1 /\ before \in Known
  /\ memory \in Memory
  /\ chosen = NoChoice \/ (chosen.kernel \in Known /\ chosen.reason \in Reasons)
  /\ saved.memory \in Memory
  /\ restarts \in 0..MaxRestarts
  /\ taken \subseteq [round : 0..Rounds, kernel : Known]

(***************************************************************************)
(* The milestone policy profiles one kernel in a round, however often the  *)
(* round is decided again after a crash or a stop, and a normal milestone  *)
(* keeps its distance from every valid profile of an earlier round; only a *)
(* breakthrough does not wait (README.md:1191-1194).  Both have an         *)
(* exception, which the code has where it takes the fastest of all records *)
(* by latency alone (milestones.py:127): a round that is decided again for *)
(* staleness or a plateau may profile another kernel that is exactly as    *)
(* fast; and if NCU fails on that one, the profile that the round did take *)
(* is in no memory, and the next milestone does not wait for it.           *)
(***************************************************************************)
AsFast(j, k) == j # k /\ Lat(j) = Lat(k)
Undisputed(k) ==
  /\ kernels[k].profile = "valid"
  /\ \A j \in Known : AsFast(j, k) => kernels[j].profile # "failed"

SpacedMilestones ==
  [][policy = "milestone" =>
       \A t \in taken' \ taken :
         /\ \A s \in taken : s.round = t.round =>
              \/ s.kernel = t.kernel
              \/ /\ chosen.reason \in {"profile-staleness", "search-plateau"}
                 /\ AsFast(s.kernel, t.kernel)
         /\ \/ chosen.reason = "breakthrough-measured-improvement"
            \/ \A s \in taken :
                 Undisputed(s.kernel) /\ s.round < t.round
                   => t.round - s.round >= MinInterval]_vars

(***************************************************************************)
(* When a round ends, hardware evidence is younger than the staleness      *)
(* bound, unless there was no kernel left to profile, or NCU failed on the *)
(* one that was chosen.                                                    *)
(***************************************************************************)
EvidenceFresh ==
  policy = "milestone" /\ stage = "finish" =>
    \/ round - memory.last < Larger(MaxStaleness, MinInterval)
    \/ Unprofiled(Known) = {}
    \/ /\ chosen # NoChoice
       /\ kernels[chosen.kernel].profile = "failed"
=============================================================================
