-------------------------- MODULE SearchController --------------------------
(***************************************************************************)
(* The optimization controller (src/src/kernel_optimization/controller.py):*)
(* one process that searches for a faster kernel in rounds, archives every *)
(* candidate record and a phase checkpoint, and can be stopped by an       *)
(* exception, a crash or its soft time budget and resumed from the archive.*)
(*                                                                         *)
(* Durable state (the output directory): rec, ckpt, exported.              *)
(* Memory of the process: everything else; Forget clears it.               *)
(*                                                                         *)
(* A candidate is a number: its identifier, which breaks ties between      *)
(* equal latencies.  Latencies are positive naturals.  Source text,        *)
(* prompts, diagnoses and usage counters are abstracted away; evaluator    *)
(* and generator answers are chosen with \E.                               *)
(*                                                                         *)
(* The definitions called Bug_... are not part of the specification: each  *)
(* is a defect the definition after it could have, which a property must   *)
(* find when it is put in (PROJECT.json, "mutants").                       *)
(***************************************************************************)
EXTENDS Integers, Sequences, FiniteSets, Functions

CONSTANTS
  Cand,            \* identifiers a source can have (sha256 of the source)
  Seed,            \* the identifier of the input kernel
  Rounds,          \* budget.rounds
  Proposals,       \* budget.proposals_per_round
  BeamWidth,       \* budget.beam_width
  MaxRepairs,      \* budget.max_repairs_per_round
  MaxRepairDepth,  \* budget.max_repair_depth
  FinalCount,      \* budget.final_validation_candidates
  Lat,             \* latencies a measurement can report
  Hash,            \* compiled identities a model evaluation can report
  Category,        \* infrastructure failure categories
  Policy,          \* evaluation policy
  Dedup,           \* compiled_deduplication
  UntilTimeBudget, \* search_until_time_budget
  TimeLimited,     \* max_search_seconds > 0
  ProfilesSeed,    \* milestones.profile_seed
  Adaptive,        \* strategy_allocation_policy = hardware-adaptive
  Crashes,         \* bound: may a process die between two steps
  MaxRestarts      \* bound: how often a stopped run is resumed

None   == 0        \* no candidate, no active round, no result yet
Failed == -1       \* an incorrect measurement

ASSUME ConstantsAssumption ==
  /\ IsFiniteSet(Cand) /\ Cand \subseteq Nat \ {0} /\ Seed \in Cand
  /\ Rounds \in Nat \ {0} /\ Proposals \in Nat \ {0}
  /\ BeamWidth \in Nat \ {0}
  /\ MaxRepairs \in Nat /\ MaxRepairDepth \in Nat /\ FinalCount \in Nat
  /\ Lat \subseteq Nat \ {0}
  /\ Hash \cap {"none", "invalid", "unhashed"} = {}
  /\ Category \cap {"none", "fixable", "fatal", "valid", "unavailable"} = {}
  /\ Policy \in {"tilesight", "cuda-event", "ncu"}
  /\ {Dedup, UntilTimeBudget, TimeLimited, ProfilesSeed, Adaptive, Crashes}
       \subseteq BOOLEAN
  /\ Dedup => Policy = "tilesight"
  /\ MaxRestarts \in Nat

VARIABLES
  rec,       \* candidates/: the archived record of every candidate
  ckpt,      \* state.json: the last checkpoint, phase "absent" before any
  exported,  \* best_kernel.py: the candidate whose source was saved last
  pc,        \* where the process stands, or how it ended
  round,     \* round_number
  beam,      \* self.beam
  todo,      \* what the current stage still has to go through, in order
  queue,     \* the repair loop's queue
  repaired,  \* the records repaired in this stage
  measured,  \* the correct records this stage measured
  left,      \* proposals_left
  owners,    \* self.compiled_hash_owners
  infra,     \* category of the last, uncleared infrastructure failure
  searchBest,\* self._search_best_id
  reason,    \* self.termination_reason
  expired,   \* the search clock has passed max_search_seconds
  restarts   \* resumes so far

session == <<round, beam, searchBest, reason>>
stage == <<todo, queue, repaired, measured, left>>
identities == <<owners, infra>>
memory == <<session, stage, identities>>
outside == <<exported, expired, restarts>>
vars == <<rec, ckpt, outside, pc, memory>>

-----------------------------------------------------------------------------
(* Shapes of the state *)

Failure == {"none", "fixable", "fatal"} \cup Category
Verdict == {"none", "fixable", "fatal"}
Result  == Lat \cup {None, Failed}

Record ==
  [kind : {"absent", "seed", "proposal", "repair"}, gen : 0..Rounds,
   depth : 0..MaxRepairDepth, model : {"none", "invalid", "unhashed"} \cup Hash,
   equiv : Cand \cup {None}, meas : Result,
   profile : {"none", "valid", "unavailable"} \cup Category,
   final : Result, fail : Failure]

Phases == {"absent", "", "seed_completed", "generated", "modeled", "selected",
           "measured", "beam_updated", "round_completed", "search_stopped",
           "finalized", "run_completed"}

Checkpoint ==
  [phase : Phases, completed : 0..Rounds, active : 0..Rounds,
   ids : Seq(Cand), sel : Seq(Cand), best : Cand \cup {None},
   beam : Seq(Cand), searchBest : Cand \cup {None},
   repairs : [1..Rounds -> 0..MaxRepairs]]

SeedStages  == {"seed_model", "seed_measure", "seed_profile", "seed_done"}
RepairLoops == {"static_repair", "model_repair", "measure_repair"}
RoundStages == {"generate", "model", "model_repaired", "select",
                "before_measure", "measure", "remodel", "remeasure",
                "profile_all", "update_beam", "profile_round", "finish_round"}
                 \cup RepairLoops
Searching   == SeedStages \cup {"round"} \cup RoundStages
Closing     == {"freeze", "finalize", "export"}
Ended       == {"completed", "stopped", "failed"}

(* A record nobody has created, and the ones the constructors make. *)
Blank ==
  [kind |-> "absent", gen |-> 0, depth |-> 0, model |-> "none",
   equiv |-> None, meas |-> None, profile |-> "none", final |-> None,
   fail |-> "none"]
SeedRecord == [Blank EXCEPT !.kind = "seed"]
ProposalRecord(r, v) ==
  [Blank EXCEPT !.kind = "proposal", !.gen = r, !.fail = v]
RepairRecord(failed, r, v) ==
  [Blank EXCEPT !.kind = "repair", !.gen = r, !.fail = v,
                !.depth = rec[failed].depth + 1]

NoCheckpoint ==
  [phase |-> "absent", completed |-> 0, active |-> None, ids |-> <<>>,
   sel |-> <<>>, best |-> None, beam |-> <<>>, searchBest |-> None,
   repairs |-> [r \in 1..Rounds |-> 0]]

-----------------------------------------------------------------------------
(* Reading the state *)

Smaller(a, b) == IF a < b THEN a ELSE b

Exists(c) == rec[c].kind # "absent"
Absent == {c \in Cand : ~Exists(c)}
MeasuredCorrect(c) == rec[c].meas > 0
ModelValid(c) == rec[c].model \notin {"none", "invalid"}

Of(kind, r) == {c \in Cand : rec[c].kind = kind /\ rec[c].gen = r}

(* Ranking by measured, and by final, latency; the identifier breaks ties. *)
Faster(c, d) ==
  \/ rec[c].meas < rec[d].meas
  \/ rec[c].meas = rec[d].meas /\ c < d
FinalFaster(c, d) ==
  \/ rec[c].final < rec[d].final
  \/ rec[c].final = rec[d].final /\ c < d

(* All the orders of S, and the one order by identifier. *)
Orders(S) == Bijection(1..Cardinality(S), S)
Ascending(S) ==
  {s \in [1..Cardinality(S) -> S] :
     \A i, j \in 1..Cardinality(S) : i < j => s[i] < s[j]}
ByFinal(S) ==
  {s \in [1..Cardinality(S) -> S] :
     \A i, j \in 1..Cardinality(S) : i < j => FinalFaster(s[i], s[j])}

(* The round's resume phase: local to _run_round, empty unless the last    *)
(* checkpoint was taken inside this very round.                            *)
Bug_PhaseForgotten == ""
Phase == IF ckpt.active = round THEN ckpt.phase ELSE ""

(* Forgetting everything the process held in memory. *)
NoOwners == [h \in Hash |-> None]
Forget ==
  /\ round' = 0 /\ beam' = <<>> /\ todo' = <<>> /\ queue' = <<>>
  /\ repaired' = <<>> /\ measured' = {} /\ left' = 0 /\ owners' = NoOwners
  /\ infra' = "none" /\ searchBest' = None /\ reason' = "none"

(* run()'s except clause: whatever is archived stays, the process is gone. *)
Raise == /\ pc' = "failed" /\ Forget /\ UNCHANGED outside

(* _checkpoint: phase and round bookkeeping from the caller, the beam and  *)
(* the counters from memory.                                               *)
Saved(ph, completed, active, ids, sel, best, b) ==
  [phase |-> ph, completed |-> completed, active |-> active, ids |-> ids,
   sel |-> sel, best |-> best, beam |-> b, searchBest |-> searchBest,
   repairs |-> ckpt.repairs]

-----------------------------------------------------------------------------
(* Process start *)

Init ==
  /\ rec = [c \in Cand |-> Blank]
  /\ ckpt = NoCheckpoint
  /\ exported = None
  /\ pc = "ready"
  /\ round = 0 /\ beam = <<>> /\ todo = <<>> /\ queue = <<>>
  /\ repaired = <<>> /\ measured = {} /\ left = 0 /\ owners = NoOwners
  /\ infra = "none" /\ searchBest = None /\ reason = "none"
  /\ expired = FALSE
  /\ restarts = 0

(* No state.json: _initialize_seed on an empty record table. *)
Begin ==
  /\ pc = "ready" /\ ckpt.phase = "absent"
  /\ rec' = [c \in Cand |-> IF c = Seed THEN SeedRecord ELSE Blank]
  /\ pc' = IF Policy = "tilesight" THEN "seed_model" ELSE "seed_measure"
  /\ UNCHANGED <<ckpt, outside, memory>>

(* The owner of each compiled identity, recomputed from the archive: the   *)
(* first valid record in (generation, identifier) order names it.          *)
Earlier(c, d) ==
  \/ rec[c].gen < rec[d].gen
  \/ rec[c].gen = rec[d].gen /\ c <= d
OwnerOf(c) == IF rec[c].equiv # None THEN rec[c].equiv ELSE c
Bug_OwnersForgotten(o) == o = NoOwners
RebuiltOwners(o) ==
  \A h \in Hash :
    LET holders == {c \in Cand : Dedup /\ rec[c].model = h}
    IN  \/ holders = {} /\ o[h] = None
        \/ \E c \in holders : /\ \A d \in holders : Earlier(c, d)
                             /\ o[h] = OwnerOf(c)

Restore ==
  /\ pc = "ready" /\ ckpt.phase # "absent"
  /\ beam' = ckpt.beam
  /\ \E o \in [Hash -> Cand \cup {None}] : RebuiltOwners(o) /\ owners' = o
  /\ searchBest' = ckpt.searchBest
  /\ round' = IF ckpt.active # None THEN ckpt.active ELSE ckpt.completed + 1
  /\ pc' = "round"
  /\ UNCHANGED <<rec, ckpt, outside, stage, infra, reason>>

-----------------------------------------------------------------------------
(* One evaluator answer each, shared by the stages that ask for it.        *)

(* _register_compiled_identity: who already owns the identity c compiled to *)
Representative(c, h) ==
  IF Dedup /\ h \in Hash /\ owners[h] \notin {None, c} THEN owners[h] ELSE None

ModelSucceeds(c) ==
  \E h \in Hash \cup {"unhashed"} :
    /\ rec' = [rec EXCEPT ![c] = [@ EXCEPT !.model = h, !.fail = "none",
                                           !.equiv = Representative(c, h)]]
    /\ owners' = IF Dedup /\ h \in Hash /\ Representative(c, h) = None
                 THEN [owners EXCEPT ![h] = c] ELSE owners
    /\ infra' = "none"
ModelFails(c, why) ==
  rec' = [rec EXCEPT ![c] = [@ EXCEPT !.model = "invalid", !.fail = why]]

MeasureSucceeds(c, l) ==
  /\ rec' = [rec EXCEPT ![c] = [@ EXCEPT !.meas = l, !.fail = "none"]]
  /\ measured' = measured \cup {c}
  /\ infra' = "none"
MeasureFails(c, why) ==
  rec' = [rec EXCEPT ![c] = [@ EXCEPT !.meas = Failed, !.fail = why]]

FinalFails(c, cat) ==
  rec' = [rec EXCEPT ![c] = [@ EXCEPT !.final = Failed, !.fail = cat]]

(* A first infrastructure failure, or one of another category, is noted.   *)
Noted(cat) == infra # cat /\ infra' = cat
(* The second in a row of one category opens the circuit breaker.          *)
Repeated(cat) == cat \in Category /\ infra = cat

EvaluateModel(c) ==
  \/ ModelSucceeds(c)
  \/ ModelFails(c, "fixable") /\ UNCHANGED identities
  \/ \E cat \in Category :
       Noted(cat) /\ ModelFails(c, cat) /\ UNCHANGED owners

(* An archived measurement is classified again instead of repeated.        *)
EvaluateMeasurement(c) ==
  \/ rec[c].meas = None /\ \E l \in Lat : MeasureSucceeds(c, l)
  \/ MeasuredCorrect(c) /\ MeasureSucceeds(c, rec[c].meas)
  \/ /\ rec[c].meas = None /\ MeasureFails(c, "fixable")
     /\ UNCHANGED <<measured, infra>>
  \/ /\ rec[c].meas = None
     /\ \E cat \in Category : Noted(cat) /\ MeasureFails(c, cat)
     /\ UNCHANGED measured
  \/ /\ rec[c].meas = Failed
     /\ IF rec[c].fail \in Category
        THEN Noted(rec[c].fail) ELSE UNCHANGED infra
     /\ UNCHANGED <<rec, measured>>

EvaluateProfile(c) ==
  \E p \in {"valid", "unavailable"} \cup Category :
    /\ rec[c].profile \in {"none", p}
    /\ rec' = [rec EXCEPT ![c].profile = p]
    /\ CASE p = "valid" -> infra' = "none"
         [] p = "unavailable" -> UNCHANGED infra
         [] OTHER -> Noted(p)

(* The circuit breaker: the second consecutive failure of one category is  *)
(* archived like any other and then ends the process.                      *)
CircuitBreaker ==
  /\ \E cat \in Category :
       /\ Repeated(cat)
       /\ \/ /\ pc \in {"model", "model_repaired", "remodel"} /\ todo # <<>>
             /\ Policy = "tilesight" /\ ~expired
             /\ rec[Head(todo)].model = "none"
             /\ ModelFails(Head(todo), cat)
          \/ /\ pc \in {"measure", "remeasure"} /\ todo # <<>> /\ ~expired
             /\ \/ rec[Head(todo)].meas = None
                \/ rec[Head(todo)].meas = Failed /\ rec[Head(todo)].fail = cat
             /\ MeasureFails(Head(todo), cat)
          \/ /\ pc = "profile_all" /\ todo # <<>> /\ ~expired
             /\ rec[Head(todo)].profile \in {"none", cat}
             /\ rec' = [rec EXCEPT ![Head(todo)].profile = cat]
          \/ /\ pc = "profile_round" /\ ~expired /\ Policy = "tilesight"
             /\ \E c \in measured \cup {beam[1]} :
                  /\ rec[c].profile \in {"none", cat}
                  /\ rec' = [rec EXCEPT ![c].profile = cat]
          \/ /\ pc = "finalize" /\ todo # <<>>
             /\ Head(todo) # Seed /\ rec[Head(todo)].final = None
             /\ FinalFails(Head(todo), cat)
  /\ Raise
  /\ UNCHANGED ckpt

-----------------------------------------------------------------------------
(* The seed: modelled, measured and profiled without asking for the time.  *)
(* Any failure raises; the first checkpoint is taken when all is done.     *)

ModelSeed ==
  /\ pc = "seed_model"
  /\ \/ /\ ModelSucceeds(Seed)
        /\ pc' = "seed_measure"
        /\ UNCHANGED <<ckpt, outside, session, stage>>
     \/ /\ \E why \in {"fixable"} \cup Category : ModelFails(Seed, why)
        /\ Raise /\ UNCHANGED ckpt

MeasureSeed ==
  /\ pc = "seed_measure"
  /\ \/ /\ \E l \in Lat : rec' = [rec EXCEPT ![Seed].meas = l]
        /\ infra' = "none"
        /\ pc' = IF Policy = "ncu" \/ (Policy = "tilesight" /\ ProfilesSeed)
                 THEN "seed_profile" ELSE "seed_done"
        /\ UNCHANGED <<ckpt, outside, session, stage, owners>>
     \/ /\ \E why \in {"fixable"} \cup Category : MeasureFails(Seed, why)
        /\ Raise /\ UNCHANGED ckpt

ProfileSeed ==
  /\ pc = "seed_profile"
  /\ EvaluateProfile(Seed)
  /\ pc' = "seed_done"
  /\ UNCHANGED <<ckpt, outside, session, stage, owners>>

FinishSeed ==
  /\ pc = "seed_done"
  /\ beam' = <<Seed>>
  /\ ckpt' = Saved("seed_completed", 0, None, <<>>, <<>>, None, <<Seed>>)
  /\ round' = 1
  /\ pc' = "round"
  /\ UNCHANGED <<rec, outside, stage, identities, searchBest, reason>>

-----------------------------------------------------------------------------
(* The time budget *)

(* _stop_for_time_budget: checkpoint the round at the given phase, then    *)
(* leave the search loop.                                                  *)
StopForTime(ph, ids, sel, best, b) ==
  /\ expired
  /\ ckpt' = Saved(ph, round - 1, round, ids, sel, best, b)
  /\ beam' = b
  /\ reason' = "time-budget"
  /\ pc' = "freeze"
  /\ measured' = {} /\ repaired' = <<>> /\ queue' = <<>> /\ todo' = <<>>
  /\ left' = 0
  /\ UNCHANGED <<rec, outside, identities, round, searchBest>>

-----------------------------------------------------------------------------
(* run(): the head of the round loop *)

(* At the deadline the loop stops before it looks at the round's phase.    *)
StopAtRoundStart ==
  /\ pc = "round" /\ round <= Rounds
  /\ StopForTime("", <<>>, <<>>, None, beam)

(* _generate_round: what is already archived for this round is not         *)
(* requested again; a hardware-adaptive search asks for one parent only.   *)
Bug_OnlyValidKnown ==
  Cardinality({c \in Of("proposal", round) : rec[c].fail = "none"})
KnownProposals == Cardinality(Of("proposal", round))
StartGeneration ==
  /\ pc = "round" /\ round <= Rounds /\ ~expired
  /\ Phase = ""
  /\ left' = IF KnownProposals < Proposals THEN Proposals - KnownProposals ELSE 0
  /\ todo' = IF Adaptive THEN <<Head(beam)>> ELSE beam
  /\ pc' = "generate"
  /\ UNCHANGED <<rec, ckpt, outside, session, identities, queue, repaired,
                 measured>>

(* _run_round resumed past its generation: straight to the open stage.     *)
ResumeRound ==
  /\ pc = "round" /\ round <= Rounds /\ ~expired
  /\ Phase # ""
  /\ pc' = CASE Phase = "generated" -> "model"
             [] Phase = "modeled"   -> "select"
             [] OTHER               -> "before_measure"
  /\ todo' = IF Phase = "generated" THEN ckpt.ids ELSE <<>>
  /\ UNCHANGED <<rec, ckpt, outside, session, identities, queue, repaired,
                 measured, left>>

EndSearch ==
  /\ pc = "round" /\ round > Rounds
  /\ reason' = IF UntilTimeBudget /\ expired THEN "time-budget"
               ELSE IF UntilTimeBudget THEN "round-ceiling"
               ELSE "round-budget-completed"
  /\ pc' = "freeze"
  /\ UNCHANGED <<rec, ckpt, outside, stage, identities, round, beam,
                 searchBest>>

-----------------------------------------------------------------------------
(* Generation *)

(* ceil(proposals_left / parents_left), everything for a batched request,  *)
(* nothing when the parents or the time have run out.                      *)
Bug_RoundedUpTwice ==
  IF todo = <<>> \/ expired \/ left = 0 THEN 0 ELSE left \div Len(todo) + 1
RequestCount ==
  IF todo = <<>> \/ expired THEN 0
  ELSE IF Adaptive THEN left
  ELSE (left + Len(todo) - 1) \div Len(todo)

(* One generator call for the next parent and the whole of its answer: at  *)
(* most RequestCount sources, of which the malformed and the already known *)
(* make no record; a new one is static-invalid and repairable, rejected    *)
(* for good, or generated.  Records are archived one by one: a crash in    *)
(* between is a shorter answer followed by a crash.                        *)
GenerateFromParent ==
  /\ pc = "generate" /\ RequestCount > 0
  /\ \E returned \in 0..RequestCount, new \in SUBSET Absent :
       /\ Cardinality(new) <= returned
       /\ \E verdict \in [new -> Verdict] :
            rec' = [c \in Cand |-> IF c \in new
                                  THEN ProposalRecord(round, verdict[c])
                                  ELSE rec[c]]
       /\ left' = left - returned
  /\ todo' = Tail(todo)
  /\ UNCHANGED <<ckpt, pc, outside, session, identities, queue, repaired,
                 measured>>

(* Static failures of this round, the archived ones included, are repaired *)
(* in the order of the record table.                                       *)
StaticFailures ==
  {c \in Cand : /\ Exists(c) /\ rec[c].gen = round
               /\ rec[c].fail = "fixable"
               /\ rec[c].model = "none" /\ rec[c].meas = None}
EndGeneration ==
  /\ pc = "generate" /\ RequestCount = 0
  /\ \E q \in Orders(StaticFailures) : queue' = q
  /\ todo' = <<>> /\ left' = 0
  /\ pc' = "static_repair"
  /\ UNCHANGED <<rec, ckpt, outside, session, identities, repaired, measured>>

(* After the static repairs: what the round has to evaluate.               *)
Bug_GeneratedInAnyRound == {c \in Cand : Exists(c) /\ rec[c].fail = "none"}
Generated == {c \in Cand : Exists(c) /\ rec[c].gen = round /\ rec[c].fail = "none"}

-----------------------------------------------------------------------------
(* Repair: one loop per stage, one bounded source repair per turn.         *)

RepairBudgetAvailable ==
  /\ MaxRepairDepth > 0
  /\ ckpt.repairs[round] < MaxRepairs
Bug_LoopWithoutClock == queue # <<>> /\ RepairBudgetAvailable
RepairLoopActive == queue # <<>> /\ RepairBudgetAvailable /\ ~expired
Repairable(c) == rec[c].fail = "fixable" /\ rec[c].depth < MaxRepairDepth

Bug_PassedOverComesBack ==
  /\ pc \in RepairLoops
  /\ RepairLoopActive
  /\ ~Repairable(Head(queue))
  /\ queue' = Append(Tail(queue), Head(queue))
  /\ UNCHANGED <<rec, ckpt, pc, outside, session, identities, todo, repaired,
                 measured, left>>
PassOver ==
  /\ pc \in RepairLoops
  /\ RepairLoopActive
  /\ ~Repairable(Head(queue))
  /\ queue' = Tail(queue)
  /\ UNCHANGED <<rec, ckpt, pc, outside, session, identities, todo, repaired,
                 measured, left>>

(* _repair_candidate: the attempt is counted and the counter persisted     *)
(* whatever the API answers; an error, a malformed or a known source ends  *)
(* the turn, a new source is archived and, when valid, evaluated next.     *)
RepairCandidate ==
  /\ pc \in RepairLoops
  /\ RepairLoopActive
  /\ Repairable(Head(queue))
  /\ ckpt' = [ckpt EXCEPT !.repairs[round] = @ + 1, !.searchBest = searchBest]
  /\ \/ /\ queue' = Tail(queue)
        /\ UNCHANGED <<rec, pc, todo, repaired>>
     \/ \E c \in Absent, v \in Verdict :
          /\ rec' = [rec EXCEPT ![c] = RepairRecord(Head(queue), round, v)]
          /\ queue' = IF v = "fixable" THEN Append(Tail(queue), c) ELSE Tail(queue)
          /\ IF v = "none" /\ pc # "static_repair"
             THEN /\ todo' = <<c>>
                  /\ pc' = IF pc = "model_repair" THEN "model_repaired"
                           ELSE IF Policy = "tilesight" THEN "remodel"
                           ELSE "remeasure"
                  /\ repaired' = IF pc' = "remeasure" THEN Append(repaired, c)
                                 ELSE repaired
             ELSE UNCHANGED <<pc, todo, repaired>>
  /\ UNCHANGED <<outside, session, identities, measured, left>>

(* The end of _generate_round and the first checkpoint of the round.       *)
FinishGeneration ==
  /\ pc = "static_repair" /\ ~RepairLoopActive
  /\ \E ids \in Ascending(Generated) :
       \/ StopForTime(Phase, ids, <<>>, None, beam)
       \/ /\ ~expired /\ Generated = {}
          /\ IF UntilTimeBudget
             THEN /\ ckpt' = Saved("round_completed", round, None, <<>>, <<>>,
                                   None, beam)
                  /\ round' = round + 1 /\ pc' = "round"
                  /\ UNCHANGED reason
             ELSE /\ ckpt' = Saved("search_stopped", round - 1, None, <<>>, <<>>,
                                   None, beam)
                  /\ reason' = "no-new-valid-candidates" /\ pc' = "freeze"
                  /\ UNCHANGED round
          /\ queue' = <<>>
          /\ UNCHANGED <<rec, outside, identities, beam, todo, repaired,
                         measured, left, searchBest>>
       \/ /\ ~expired /\ Generated # {}
          /\ ckpt' = Saved("generated", round - 1, round, ids, <<>>, None, beam)
          /\ todo' = ids /\ queue' = <<>>
          /\ pc' = "model"
          /\ UNCHANGED <<rec, outside, session, identities, repaired,
                         measured, left>>

-----------------------------------------------------------------------------
(* Modelling *)

Bug_ModelledAgain(c) == FALSE
Modelled(c) == rec[c].model # "none"
ModelCandidate ==
  /\ pc = "model" /\ Policy = "tilesight" /\ todo # <<>>
  /\ IF Modelled(Head(todo))
     THEN todo' = Tail(todo) /\ UNCHANGED <<rec, identities>>
     ELSE IF expired
     THEN todo' = <<>> /\ UNCHANGED <<rec, identities>>
     ELSE todo' = Tail(todo) /\ EvaluateModel(Head(todo))
  /\ UNCHANGED <<ckpt, pc, outside, session, queue, repaired, measured, left>>

(* Without TileSight the candidates only get a label.                      *)
SkipModelCandidates ==
  /\ pc = "model" /\ Policy # "tilesight"
  /\ todo' = <<>>
  /\ pc' = "model_repair"
  /\ UNCHANGED <<rec, ckpt, outside, session, identities, queue, repaired,
                 measured, left>>

StartModelRepair ==
  /\ pc = "model" /\ Policy = "tilesight" /\ todo = <<>>
  /\ queue' = ckpt.ids
  /\ pc' = "model_repair"
  /\ UNCHANGED <<rec, ckpt, outside, session, identities, todo, repaired,
                 measured, left>>

(* _repair_model_failures models what it repaired, unless time is up.      *)
ModelRepaired ==
  /\ pc = "model_repaired"
  /\ LET c == Head(todo) IN
       /\ IF expired THEN UNCHANGED <<rec, identities>> ELSE EvaluateModel(c)
       /\ queue' = IF rec'[c].fail = "none" THEN queue ELSE Append(queue, c)
       /\ repaired' = Append(repaired, c)
  /\ todo' = <<>>
  /\ pc' = "model_repair"
  /\ UNCHANGED <<ckpt, outside, session, measured, left>>

FinishModeling ==
  /\ pc = "model_repair" /\ ~RepairLoopActive
  /\ LET ids == ckpt.ids \o repaired IN
       \/ StopForTime(Phase, ids, <<>>, None, beam)
       \/ /\ ~expired
          /\ ckpt' = Saved("modeled", round - 1, round, ids, <<>>, None, beam)
          /\ repaired' = <<>> /\ queue' = <<>>
          /\ pc' = "select"
          /\ UNCHANGED <<rec, outside, session, identities, todo, measured,
                         left>>

-----------------------------------------------------------------------------
(* Selection and measurement *)

Bug_EquivalentPromotable(c) == ModelValid(c)
Promotable(c) ==
  IF Policy = "tilesight" THEN ModelValid(c) /\ rec[c].equiv = None
  ELSE rec[c].fail = "none" /\ rec[c].meas = None

(* The promotion policy keeps some of the promotable candidates, at least  *)
(* one, in its own order; without TileSight all of them, as generated.     *)
Selections ==
  LET promotable == {c \in Range(ckpt.ids) : Promotable(c)}
  IN  IF Policy # "tilesight" THEN Ascending(promotable)
      ELSE UNION {Orders(S) : S \in {T \in SUBSET promotable :
                                      T = {} => promotable = {}}}

SelectCandidates ==
  /\ pc = "select"
  /\ \E sel \in Selections :
       ckpt' = Saved("selected", round - 1, round, ckpt.ids, sel, Head(beam), beam)
  /\ pc' = "before_measure"
  /\ UNCHANGED <<rec, outside, memory>>

(* A resumed round passes here too, and goes on where its phase says.      *)
BeforeMeasurement ==
  /\ pc = "before_measure"
  /\ \/ StopForTime(Phase, ckpt.ids, ckpt.sel, ckpt.best, beam)
     \/ /\ ~expired
        /\ pc' = CASE Phase = "selected" -> "measure"
                   [] Phase = "measured" -> "update_beam"
                   [] OTHER              -> "profile_round"
        /\ todo' = IF Phase = "selected" THEN ckpt.sel ELSE <<>>
        /\ measured' = IF Phase = "selected" THEN {}
                       ELSE {c \in Range(ckpt.sel) : MeasuredCorrect(c)}
        /\ UNCHANGED <<rec, ckpt, outside, session, identities, queue,
                       repaired, left>>

MeasureCandidate ==
  /\ pc = "measure" /\ todo # <<>>
  /\ IF expired
     THEN todo' = <<>> /\ UNCHANGED <<rec, measured, infra>>
     ELSE todo' = Tail(todo) /\ EvaluateMeasurement(Head(todo))
  /\ UNCHANGED <<ckpt, pc, outside, session, queue, repaired, left, owners>>

StartMeasureRepair ==
  /\ pc = "measure" /\ todo = <<>>
  /\ queue' = ckpt.sel
  /\ pc' = "measure_repair"
  /\ UNCHANGED <<rec, ckpt, outside, session, identities, todo, repaired,
                 measured, left>>

(* _repair_measurement_failures: the repaired source is modelled, and      *)
(* measured only when the model accepts it as new code.                    *)
RemodelRepaired ==
  /\ pc = "remodel"
  /\ LET c == Head(todo) IN
       /\ IF expired THEN UNCHANGED <<rec, identities>> ELSE EvaluateModel(c)
       /\ repaired' = Append(repaired, c)
       /\ queue' = IF rec'[c].fail = "none" THEN queue ELSE Append(queue, c)
       /\ IF rec'[c].fail = "none" /\ rec'[c].equiv = None
          THEN pc' = "remeasure" /\ UNCHANGED todo
          ELSE pc' = "measure_repair" /\ todo' = <<>>
  /\ UNCHANGED <<ckpt, outside, session, measured, left>>

RemeasureRepaired ==
  /\ pc = "remeasure"
  /\ LET c == Head(todo) IN
       /\ IF expired THEN UNCHANGED <<rec, measured, infra>>
          ELSE EvaluateMeasurement(c)
       /\ queue' = IF rec'[c].fail = "none" THEN queue ELSE Append(queue, c)
  /\ todo' = <<>>
  /\ pc' = "measure_repair"
  /\ UNCHANGED <<ckpt, outside, session, repaired, left, owners>>

(* The NCU policy profiles every correct record, the others go straight on. *)
StartProfiling ==
  /\ pc = "measure_repair" /\ ~RepairLoopActive
  /\ \E s \in Ascending(measured) : todo' = IF Policy = "ncu" THEN s ELSE <<>>
  /\ queue' = <<>>
  /\ pc' = "profile_all"
  /\ UNCHANGED <<rec, ckpt, outside, session, identities, repaired, measured,
                 left>>

ProfileMeasured ==
  /\ pc = "profile_all" /\ todo # <<>>
  /\ IF expired
     THEN todo' = <<>> /\ UNCHANGED <<rec, infra>>
     ELSE todo' = Tail(todo) /\ EvaluateProfile(Head(todo))
  /\ UNCHANGED <<ckpt, pc, outside, session, queue, repaired, measured, left,
                 owners>>

-----------------------------------------------------------------------------
(* The beam *)

BeamSize(S) == Smaller(BeamWidth, Cardinality(S))

(* The measured order, cut off at the beam width. *)
Fastest(S) ==
  {s \in [1..BeamSize(S) -> S] :
     /\ \A i, j \in 1..BeamSize(S) : i < j => Faster(s[i], s[j])
     /\ \A c \in S \ Range(s), i \in 1..BeamSize(S) : Faster(s[i], c)}

(* _quality_diverse_archive: the incumbent first, then records within 25%  *)
(* of it while there are any; how their diversity scores rank is open.     *)
Competitive(c, S) == \A d \in S : 4 * rec[c].meas <= 5 * rec[d].meas
Diverse(S) ==
  {s \in Orders(S) :
     /\ \A c \in S \ {s[1]} : Faster(s[1], c)
     /\ \A i, j \in 1..Cardinality(S) :
          i < j /\ Competitive(s[j], S) => Competitive(s[i], S)}
Beams(S) ==
  IF Adaptive /\ BeamWidth > 1
  THEN {SubSeq(s, 1, BeamSize(S)) : s \in Diverse(S)}
  ELSE Fastest(S)

Bug_IncorrectInPool == Range(beam) \cup Range(ckpt.sel)
Bug_BeamReplaced == IF measured = {} THEN Range(beam) ELSE measured
BeamPool == Range(beam) \cup measured

(* The end of the measurement stage.  Out of time, the beam takes in what  *)
(* was measured before the search is left.                                 *)
FinishMeasurement ==
  /\ pc = "profile_all" /\ todo = <<>>
  /\ LET ids == ckpt.ids \o repaired
         sel == ckpt.sel \o repaired
     IN  \/ \E b \in Beams(BeamPool) : StopForTime(Phase, ids, sel, ckpt.best, b)
         \/ /\ ~expired
            /\ ckpt' = Saved("measured", round - 1, round, ids, sel, ckpt.best, beam)
            /\ repaired' = <<>>
            /\ pc' = "update_beam"
            /\ UNCHANGED <<rec, outside, session, identities, todo, queue,
                           measured, left>>

UpdateBeam ==
  /\ pc = "update_beam"
  /\ \E b \in Beams(BeamPool) :
       /\ beam' = b
       /\ ckpt' = Saved("beam_updated", round - 1, round, ckpt.ids, ckpt.sel,
                        ckpt.best, b)
  /\ pc' = "profile_round"
  /\ UNCHANGED <<rec, outside, stage, identities, round, searchBest, reason>>

(* A milestone may ask for a profile of the incumbent or of a record       *)
(* measured in this round.                                                 *)
MaybeProfileRound ==
  /\ pc = "profile_round"
  /\ \/ StopForTime(Phase, ckpt.ids, ckpt.sel, ckpt.best, beam)
     \/ /\ ~expired
        /\ pc' = "finish_round"
        /\ \/ UNCHANGED <<rec, infra>>
           \/ /\ Policy = "tilesight"
              /\ \E c \in measured \cup {Head(beam)} : EvaluateProfile(c)
        /\ UNCHANGED <<ckpt, outside, session, stage, owners>>

FinishRound ==
  /\ pc = "finish_round"
  /\ \/ StopForTime(Phase, ckpt.ids, ckpt.sel, ckpt.best, beam)
     \/ /\ ~expired
        /\ ckpt' = Saved("round_completed", round, None, ckpt.ids, ckpt.sel,
                         ckpt.best, beam)
        /\ round' = round + 1
        /\ measured' = {}
        /\ pc' = "round"
        /\ UNCHANGED <<rec, outside, identities, beam, todo, queue, repaired,
                       left, searchBest, reason>>

-----------------------------------------------------------------------------
(* After the search: freeze, final validation, export *)

Finalists == SubSeq(beam, 1, Smaller(FinalCount, Len(beam)))

(* The search best is set once; a resumed run keeps the archived one.      *)
FreezeSearch ==
  /\ pc = "freeze"
  /\ searchBest' = IF searchBest = None THEN Head(beam) ELSE searchBest
  /\ IF FinalCount > 0
     THEN /\ todo' = <<Seed>> \o Finalists
          /\ pc' = "finalize"
     ELSE UNCHANGED todo /\ pc' = "export"
  /\ UNCHANGED <<rec, ckpt, outside, identities, round, beam, queue, repaired,
                 measured, left, reason>>

(* A finalist that already has a final measurement is not evaluated again; *)
(* the seed failing for the evaluator's reasons ends the process.          *)
FinalizeCandidate ==
  /\ pc = "finalize" /\ todo # <<>>
  /\ LET c == Head(todo) IN
       \/ /\ rec[c].final # None
          /\ todo' = Tail(todo)
          /\ UNCHANGED <<rec, ckpt, pc, outside, session, identities, queue,
                         repaired, measured, left>>
       \/ /\ rec[c].final = None
          /\ todo' = Tail(todo)
          /\ \/ /\ \E l \in Lat : rec' = [rec EXCEPT ![c].final = l]
                /\ infra' = "none"
             \/ /\ rec' = [rec EXCEPT ![c].final = Failed]
                /\ UNCHANGED infra
             \/ \E cat \in Category :
                  /\ c # Seed /\ Noted(cat)
                  /\ FinalFails(c, cat)
          /\ UNCHANGED <<ckpt, pc, outside, session, queue, repaired,
                         measured, left, owners>>
       \/ /\ rec[c].final = None /\ c = Seed
          /\ \E cat \in Category :
               FinalFails(c, cat)
          /\ Raise /\ UNCHANGED ckpt

(* The exported candidate heads the new beam, the other members that       *)
(* passed follow by final latency, the rest leave it.                      *)
Bug_AnyFinalWinner(c) ==
  LET eligible == {d \in Range(Finalists) : rec[d].final # None}
  IN  c \in eligible /\ \A d \in eligible \ {c} : FinalFaster(c, d)
FinalWinner(c) ==
  LET eligible == {Seed} \cup {d \in Range(Finalists) : rec[d].final > 0}
  IN  c \in eligible /\ \A d \in eligible \ {c} : FinalFaster(c, d)
FinishFinalization ==
  /\ pc = "finalize" /\ todo = <<>>
  /\ \/ /\ rec[Seed].final > 0
        /\ \E best \in Cand :
             /\ FinalWinner(best)
             /\ \E rest \in ByFinal({c \in Range(beam) \ {best} : rec[c].final > 0}) :
                  beam' = <<best>> \o SubSeq(rest, 1,
                                        Smaller(BeamWidth - 1, Len(rest)))
        /\ ckpt' = Saved("finalized", ckpt.completed, None, <<>>, <<>>, None, beam')
        /\ pc' = "export"
        /\ UNCHANGED <<rec, outside, stage, identities, round, searchBest,
                       reason>>
     \/ /\ rec[Seed].final <= 0
        /\ Raise /\ UNCHANGED <<rec, ckpt>>

(* save_best, then the closing checkpoint: a time-budget stop leaves the   *)
(* phase as it is and only persists the counters.                          *)
Export ==
  /\ pc = "export"
  /\ exported' = Head(beam)
  /\ ckpt' = IF reason = "time-budget"
             THEN [ckpt EXCEPT !.searchBest = searchBest]
             ELSE Saved("run_completed", ckpt.completed, None, <<>>, <<>>, None, beam)
  /\ pc' = IF reason = "time-budget" THEN "stopped" ELSE "completed"
  /\ Forget
  /\ UNCHANGED <<rec, expired, restarts>>

-----------------------------------------------------------------------------
(* The environment: the clock, the death of the process, a resume.         *)

Deadline ==
  /\ TimeLimited /\ ~expired
  /\ pc \in Searching
  /\ expired' = TRUE
  /\ UNCHANGED <<rec, ckpt, exported, pc, memory, restarts>>

(* A crash, or an exception out of a generator call or the archive.        *)
Crash ==
  /\ Crashes
  /\ pc \notin Ended
  /\ Raise
  /\ UNCHANGED <<rec, ckpt>>

(* The user resumes the run.  The clock goes on from the archived elapsed  *)
(* time: still over the limit, or not with a larger one or after a crash   *)
(* that lost the last seconds.                                             *)
Resume ==
  /\ pc \in Ended /\ restarts < MaxRestarts
  /\ restarts' = restarts + 1
  /\ \E late \in BOOLEAN : (late => expired) /\ expired' = late
  /\ pc' = "ready"
  /\ UNCHANGED <<rec, ckpt, exported, memory>>

Rest == pc \in Ended /\ restarts = MaxRestarts /\ UNCHANGED vars

Work ==
  \/ Begin \/ Restore
  \/ ModelSeed \/ MeasureSeed \/ ProfileSeed \/ FinishSeed
  \/ StopAtRoundStart \/ StartGeneration \/ ResumeRound \/ EndSearch
  \/ GenerateFromParent \/ EndGeneration \/ FinishGeneration
  \/ PassOver \/ RepairCandidate \/ CircuitBreaker
  \/ ModelCandidate \/ SkipModelCandidates \/ StartModelRepair
  \/ ModelRepaired \/ FinishModeling
  \/ SelectCandidates \/ BeforeMeasurement
  \/ MeasureCandidate \/ StartMeasureRepair
  \/ RemodelRepaired \/ RemeasureRepaired
  \/ StartProfiling \/ ProfileMeasured \/ FinishMeasurement
  \/ UpdateBeam \/ MaybeProfileRound \/ FinishRound
  \/ FreezeSearch \/ FinalizeCandidate \/ FinishFinalization \/ Export

Next == Work \/ Deadline \/ Crash \/ Resume \/ Rest

Spec == Init /\ [][Next]_vars

(* A running process keeps taking steps: every call it makes returns or    *)
(* raises (the evaluator and the API client have timeouts).                *)
FairSpec == Spec /\ WF_vars(Work)

-----------------------------------------------------------------------------
(* Properties *)

(* Every variable keeps its shape: the archived records and checkpoints    *)
(* are well-formed and the process is at a known stage.                    *)
TypeOK ==
  /\ rec \in [Cand -> Record]
  /\ ckpt \in Checkpoint
  /\ exported \in Cand \cup {None}
  /\ pc \in {"ready"} \cup Searching \cup Closing \cup Ended
  /\ round \in 0..(Rounds + 1)
  /\ beam \in Seq(Cand) /\ todo \in Seq(Cand) /\ queue \in Seq(Cand)
  /\ repaired \in Seq(Cand)
  /\ measured \in SUBSET Cand
  /\ left \in 0..Proposals
  /\ owners \in [Hash -> Cand \cup {None}]
  /\ infra \in {"none"} \cup Category
  /\ searchBest \in Cand \cup {None}
  /\ reason \in {"none", "time-budget", "round-ceiling",
                 "round-budget-completed", "no-new-valid-candidates"}
  /\ expired \in BOOLEAN
  /\ restarts \in 0..MaxRestarts

Running == pc \in {"round"} \cup RoundStages \cup Closing
HasCheckpoint == ckpt.phase # "absent"
NeverFinalized == \A c \in Cand : rec[c].final = None

(* The candidate graph stays bounded whatever is crashed and resumed: no   *)
(* round archives more proposals than its budget, nor more repairs than    *)
(* the persisted counter grants (proposals_left, _repairs_by_round).       *)
GraphBound ==
  \A r \in 1..Rounds :
    /\ Cardinality(Of("proposal", r)) <= Proposals
    /\ Cardinality(Of("repair", r)) <= ckpt.repairs[r]
    /\ ckpt.repairs[r] <= MaxRepairs

(* A beam, in memory or in a checkpoint, holds distinct correct and        *)
(* measured candidates only and is never empty (_update_beam, _restore).   *)
GoodBeam(b) ==
  /\ b # <<>> /\ Len(b) <= BeamWidth
  /\ IsInjective(b)
  /\ \A i \in 1..Len(b) : MeasuredCorrect(b[i])
BeamSound ==
  /\ HasCheckpoint => GoodBeam(ckpt.beam)
  /\ Running => GoodBeam(beam)

(* A checkpoint can always be restored: every candidate it names is in the *)
(* archive, of the round it belongs to (_records_for_ids raises otherwise). *)
CheckpointLoadable ==
  /\ \A c \in Range(ckpt.ids) \cup Range(ckpt.sel) :
       Exists(c) /\ rec[c].gen \in {ckpt.active, ckpt.completed} \ {0}
  /\ \A c \in (Range(ckpt.beam) \cup {ckpt.best, ckpt.searchBest}) \ {None} :
       Exists(c)

(* Compiled identities have one owner each: a duplicate points straight at *)
(* it, two unlinked candidates never share an identity, and a running      *)
(* process knows the same owner as the archive, resumed or not             *)
(* (_register_compiled_identity, _rebuild_compiled_hash_owners).           *)
OneOwnerPerIdentity ==
  Dedup =>
    /\ \A c \in Cand : rec[c].equiv # None =>
         /\ rec[rec[c].equiv].model = rec[c].model
         /\ rec[rec[c].equiv].equiv = None
    /\ \A c, d \in Cand :
         /\ c # d /\ rec[c].model \in Hash /\ rec[c].model = rec[d].model
         => rec[c].equiv # None \/ rec[d].equiv # None
    /\ Running => \A c \in Cand : rec[c].model \in Hash =>
                    owners[rec[c].model] = OwnerOf(c)

(* The hardware only ever sees a candidate that the model has accepted     *)
(* (under the TileSight policy) and that was not found compiled-equivalent *)
(* to another one (_run_round: model, promote, then measure).  A repair of *)
(* the measurement stage is the exception when the search can be stopped   *)
(* for time: the stop lists it as selected whatever its model said, and    *)
(* the resumed stage measures what is listed (controller.py:773, 2279).    *)
FitForHardware(c) ==
  /\ Policy = "tilesight" => ModelValid(c)
  /\ rec[c].equiv = None
HardwareAfterModel ==
  \A c \in Cand :
    rec[c].meas # None /\ (TimeLimited => rec[c].kind # "repair") => FitForHardware(c)

(* Once the seed is checkpointed no model evaluation, measurement, profile *)
(* or final validation of a candidate is ever repeated, and no record is   *)
(* lost, across any number of crashes and resumes.                         *)
ResultsKept(c) ==
  /\ rec'[c].kind = rec[c].kind /\ rec'[c].gen = rec[c].gen
  /\ rec[c].model # "none" =>
       rec'[c].model = rec[c].model /\ rec'[c].equiv = rec[c].equiv
  /\ rec[c].meas # None => rec'[c].meas = rec[c].meas
  /\ rec[c].profile # "none" => rec'[c].profile = rec[c].profile
  /\ rec[c].final # None => rec'[c].final = rec[c].final
EvaluatedOnce ==
  [][HasCheckpoint => \A c \in Cand : Exists(c) => ResultsKept(c)]_vars

(* A stage of the active round that has been checkpointed stays so until   *)
(* the round is completed: a resume never goes back to an earlier one.     *)
StageRank(ph) ==
  CASE ph = "generated" -> 1 [] ph = "modeled" -> 2 [] ph = "selected" -> 3
    [] ph = "measured" -> 4 [] ph = "beam_updated" -> 5 [] OTHER -> 0
StageKept ==
  [][ckpt.active # None /\ StageRank(ckpt.phase) > 0
     /\ ckpt'.completed < ckpt.active =>
       /\ ckpt'.active = ckpt.active
       /\ StageRank(ckpt'.phase) >= StageRank(ckpt.phase)]_vars

(* At the head of a round nothing measured correct beats the incumbent, as *)
(* long as no final validation has re-ranked the beam (_update_beam).      *)
BeamHoldsBest ==
  pc = "round" /\ ckpt.active = None /\ NeverFinalized =>
    \A c \in Cand : MeasuredCorrect(c) => ~Faster(c, Head(beam))

(* A process that dies in a measurement stage forgets the repairs it has   *)
(* measured; the proposals come back with the stage, unless a stop at the  *)
(* head of the round loses it.  All else is in the beam's ranking, whoever *)
(* measured it, and nothing is ever worse than the input kernel            *)
(* (_run_round: measured, _update_beam; _restore).                         *)
CanFail    == Crashes \/ Category # {}
Lasting(c) == CanFail => ~TimeLimited /\ rec[c].kind # "repair"
BeamKeepsBest ==
  pc = "round" /\ ckpt.active = None /\ NeverFinalized =>
    \A c \in Cand :
      MeasuredCorrect(c) /\ (Lasting(c) \/ c = Seed) => ~Faster(c, Head(beam))

(* Past the deadline the search starts nothing more: no generator or       *)
(* repair call, no model evaluation, measurement or profile.  The seed's   *)
(* evaluations never ask for the time and final validation is outside of   *)
(* the search, so they are not meant.                                      *)
StartsWork ==
  \/ Absent' # Absent
  \/ ckpt'.repairs # ckpt.repairs
  \/ \E c \in Cand : \/ rec'[c].model # rec[c].model
                     \/ rec'[c].meas # rec[c].meas
                     \/ rec'[c].profile # rec[c].profile
NoLateRoundWork ==
  [][expired /\ pc \notin SeedStages \cup {"ready"} => ~StartsWork]_vars

(* With final validation configured the exported kernel has passed it and  *)
(* is no slower in it than the seed (_finalize_candidates).                *)
ExportPassedFinal ==
  exported # None /\ FinalCount > 0 =>
    /\ rec[exported].final > 0
    /\ rec[Seed].final > 0
    /\ rec[exported].final <= rec[Seed].final

(* Every started process ends: no repair loop, stage or round can go on    *)
(* for ever once resumes stop coming.                                      *)
EventuallyEnds == <>[](pc \in Ended)
=============================================================================
