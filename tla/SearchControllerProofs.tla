----------------------- MODULE SearchControllerProofs -----------------------
(***************************************************************************)
(* What holds of SearchController for every budget, every policy and any   *)
(* number of crashes, resumes and sources.                                 *)
(***************************************************************************)
EXTENDS SearchController, FiniteSetTheorems, SequenceTheorems, TLAPS

-----------------------------------------------------------------------------
(* The inductive invariant behind type correctness: the beam is there      *)
(* whenever somebody takes its head, the round number is in range inside a *)
(* round, and a repaired candidate waits where the next action expects it. *)

StageInv ==
  /\ HasCheckpoint => ckpt.beam # <<>>
  /\ Running => beam # <<>>
  /\ pc = "round" => round # 0
  /\ pc \in RoundStages => round \in 1..Rounds
  /\ pc \in {"model_repaired", "remodel", "remeasure"} => todo # <<>>

ShapeInv == TypeOK /\ StageInv

(* A finite enumeration of some candidates is a sequence of candidates.    *)
LEMMA EnumerationType ==
  ASSUME NEW S \in SUBSET Cand, NEW n \in Nat, NEW s \in [1..n -> S]
  PROVE  /\ s \in Seq(Cand) /\ Len(s) = n /\ Range(s) \subseteq S
         /\ n > 0 => s # <<>>
  BY DEF Range

(* The bounds, without the assumptions a proof about numbers has no use for. *)
LEMMA Bounds ==
  /\ Rounds \in Nat /\ Rounds > 0 /\ Proposals \in Nat /\ Proposals > 0
  /\ MaxRepairs \in Nat /\ MaxRepairDepth \in Nat /\ MaxRestarts \in Nat
  /\ Seed \in Cand /\ Lat \subseteq Nat \ {0}
  BY ConstantsAssumption

LEMMA HeadTailType ==
  ASSUME NEW s \in Seq(Cand), s # <<>>
  PROVE  Head(s) \in Cand /\ Tail(s) \in Seq(Cand)
  OBVIOUS

LEMMA FiniteSubset ==
  ASSUME NEW S \in SUBSET Cand
  PROVE  IsFiniteSet(S) /\ Cardinality(S) \in Nat
  BY ConstantsAssumption, FS_Subset, FS_CardinalityType

LEMMA OrdersType ==
  ASSUME NEW S \in SUBSET Cand
  PROVE  /\ Orders(S) \subseteq Seq(Cand)
         /\ Ascending(S) \subseteq Seq(Cand)
         /\ ByFinal(S) \subseteq Seq(Cand)
  <1>1. Cardinality(S) \in Nat
    BY FiniteSubset
  <1>2. \A s \in [1..Cardinality(S) -> S] : s \in Seq(Cand)
    BY <1>1, EnumerationType
  <1> QED
    BY <1>2 DEF Orders, Ascending, ByFinal, Bijection, Injection

(* Every beam made from a non-empty pool is a non-empty list of candidates. *)
LEMMA BeamsType ==
  ASSUME NEW S \in SUBSET Cand, S # {}, NEW b \in Beams(S)
  PROVE  b \in Seq(Cand) /\ b # <<>>
  <1>1. Cardinality(S) \in Nat \ {0}
    BY FiniteSubset, FS_EmptySet
  <1>2. BeamSize(S) \in Nat \ {0} /\ BeamSize(S) <= Cardinality(S)
    BY <1>1, ConstantsAssumption DEF BeamSize, Smaller
  <1>3. CASE b \in Fastest(S)
    BY <1>2, <1>3, EnumerationType DEF Fastest
  <1>4. ASSUME NEW s \in Diverse(S), b = SubSeq(s, 1, BeamSize(S))
        PROVE  b \in Seq(Cand) /\ b # <<>>
    <2>1. s \in [1..Cardinality(S) -> S]
      BY <1>4 DEF Diverse, Orders, Bijection, Injection
    <2>2. \A i \in 1..BeamSize(S) : s[i] \in Cand
      BY <2>1, <1>1, <1>2
    <2>3. b \in Seq(Cand) /\ Len(b) = BeamSize(S)
      BY <1>4, <1>2, <2>2, SubSeqProperties
    <2> QED
      BY <2>3, <1>2
  <1> QED
    BY <1>3, <1>4 DEF Beams

(* A request never asks for more than what is left.                        *)
LEMMA CeilingBound ==
  ASSUME NEW l \in Nat, NEW n \in Nat \ {0}
  PROVE  (l + n - 1) \div n \in 0..l
  OBVIOUS

LEMMA RequestBound ==
  ASSUME TypeOK
  PROVE  RequestCount \in 0..left
  <1>1. CASE todo = <<>> \/ expired \/ Adaptive
    BY <1>1, ConstantsAssumption DEF TypeOK, RequestCount
  <1>2. CASE ~(todo = <<>> \/ expired \/ Adaptive)
    <2>1. Len(todo) \in Nat \ {0} /\ left \in Nat
      BY <1>2, ConstantsAssumption, EmptySeq DEF TypeOK
    <2> QED
      BY <1>2, <2>1, CeilingBound DEF RequestCount
  <1> QED
    BY <1>1, <1>2

-----------------------------------------------------------------------------
(* What an evaluator's answer leaves behind has the right type.            *)

LEMMA ModelFieldsType ==
  ASSUME rec \in [Cand -> Record], NEW c \in Cand,
         NEW h \in {"none", "invalid", "unhashed"} \cup Hash,
         NEW why \in Failure, NEW d \in Cand \cup {None}
  PROVE  /\ [rec EXCEPT ![c] = [@ EXCEPT !.model = h, !.fail = why]]
              \in [Cand -> Record]
         /\ [rec EXCEPT ![c] = [@ EXCEPT !.model = h, !.fail = why, !.equiv = d]]
              \in [Cand -> Record]
  <1>1. /\ [rec[c] EXCEPT !.model = h, !.fail = why] \in Record
        /\ [rec[c] EXCEPT !.model = h, !.fail = why, !.equiv = d] \in Record
    BY ZenonT(30) DEF Record
  <1> QED
    BY <1>1

LEMMA EvaluateModelType ==
  ASSUME TypeOK, NEW c \in Cand, EvaluateModel(c)
  PROVE  /\ rec' \in [Cand -> Record]
         /\ owners' \in [Hash -> Cand \cup {None}]
         /\ infra' \in {"none"} \cup Category
  <1>1. CASE ModelSucceeds(c)
    <2>1. ASSUME NEW h \in Hash \cup {"unhashed"}
          PROVE  Representative(c, h) \in Cand \cup {None}
      BY DEF TypeOK, Representative
    <2>2. PICK h \in Hash \cup {"unhashed"} :
             /\ rec' = [rec EXCEPT ![c] =
                          [@ EXCEPT !.model = h, !.fail = "none",
                                    !.equiv = Representative(c, h)]]
             /\ owners' = IF Dedup /\ h \in Hash /\ Representative(c, h) = None
                          THEN [owners EXCEPT ![h] = c] ELSE owners
             /\ infra' = "none"
      BY <1>1 DEF ModelSucceeds
    <2>3. rec' \in [Cand -> Record]
      BY <2>1, <2>2, ModelFieldsType DEF TypeOK, Failure
    <2> QED
      BY <2>2, <2>3 DEF TypeOK
  <1>2. ASSUME NEW why \in Failure, ModelFails(c, why)
        PROVE  rec' \in [Cand -> Record]
    BY <1>2, ModelFieldsType DEF TypeOK, ModelFails
  <1> QED
    BY <1>1, <1>2 DEF TypeOK, EvaluateModel, Noted, Failure, identities

LEMMA ResultFieldsType ==
  ASSUME rec \in [Cand -> Record], NEW c \in Cand, NEW m \in Result,
         NEW why \in Failure
  PROVE  /\ [rec EXCEPT ![c] = [@ EXCEPT !.meas = m, !.fail = why]]
              \in [Cand -> Record]
         /\ [rec EXCEPT ![c] = [@ EXCEPT !.final = m, !.fail = why]]
              \in [Cand -> Record]
  <1>1. /\ [rec[c] EXCEPT !.meas = m, !.fail = why] \in Record
        /\ [rec[c] EXCEPT !.final = m, !.fail = why] \in Record
    BY DEF Record
  <1> QED
    BY <1>1

LEMMA FailureType ==
  ASSUME rec \in [Cand -> Record], NEW c \in Cand, NEW why \in Failure,
         ModelFails(c, why) \/ MeasureFails(c, why) \/ FinalFails(c, why)
  PROVE  rec' \in [Cand -> Record]
  <1>1. "invalid" \in {"none", "invalid", "unhashed"} \cup Hash
    OBVIOUS
  <1>2. Failed \in Result
    BY DEF Result
  <1>3. CASE ModelFails(c, why)
    BY <1>1, <1>3, ModelFieldsType DEF ModelFails
  <1>4. CASE MeasureFails(c, why)
    BY <1>2, <1>4, ResultFieldsType DEF MeasureFails
  <1>5. CASE FinalFails(c, why)
    BY <1>2, <1>5, ResultFieldsType DEF FinalFails
  <1> QED
    BY <1>3, <1>4, <1>5

LEMMA ResultType ==
  ASSUME rec \in [Cand -> Record], NEW c \in Cand, NEW m \in Result,
         \/ rec' = [rec EXCEPT ![c].meas = m]
         \/ rec' = [rec EXCEPT ![c].final = m]
  PROVE  rec' \in [Cand -> Record]
  <1>1. /\ [rec[c] EXCEPT !.meas = m] \in Record
        /\ [rec[c] EXCEPT !.final = m] \in Record
    BY DEF Record
  <1> QED
    BY <1>1

LEMMA ProfileType ==
  ASSUME rec \in [Cand -> Record], NEW c \in Cand,
         NEW p \in {"none", "valid", "unavailable"} \cup Category
  PROVE  [rec EXCEPT ![c].profile = p] \in [Cand -> Record]
  <1>1. [rec[c] EXCEPT !.profile = p] \in Record
    BY DEF Record
  <1> QED
    BY <1>1

LEMMA EvaluateMeasurementType ==
  ASSUME TypeOK, NEW c \in Cand, EvaluateMeasurement(c)
  PROVE  /\ rec' \in [Cand -> Record]
         /\ measured' \in SUBSET Cand
         /\ infra' \in {"none"} \cup Category
  <1>1. rec[c].meas \in Result /\ rec[c].fail \in Failure
    BY DEF TypeOK, Record
  <1>2. ASSUME NEW l \in Result, MeasureSucceeds(c, l)
        PROVE  rec' \in [Cand -> Record] /\ measured' \in SUBSET Cand
               /\ infra' = "none"
    BY <1>2, ResultFieldsType DEF TypeOK, MeasureSucceeds, Failure
  <1>3. ASSUME NEW why \in Failure, MeasureFails(c, why)
        PROVE  rec' \in [Cand -> Record]
    BY <1>3, ResultFieldsType DEF TypeOK, MeasureFails, Result
  <1> QED
    BY <1>1, <1>2, <1>3 DEF TypeOK, EvaluateMeasurement, Noted, Failure, Result

LEMMA EvaluateProfileType ==
  ASSUME TypeOK, NEW c \in Cand, EvaluateProfile(c)
  PROVE  /\ rec' \in [Cand -> Record]
         /\ infra' \in {"none"} \cup Category
  <1>1. rec \in [Cand -> Record]
    BY DEF TypeOK
  <1>2. PICK p \in {"valid", "unavailable"} \cup Category :
           /\ rec' = [rec EXCEPT ![c].profile = p]
           /\ CASE p = "valid" -> infra' = "none"
                [] p = "unavailable" -> UNCHANGED infra
                [] OTHER -> Noted(p)
    BY DEF EvaluateProfile
  <1>3. rec' \in [Cand -> Record]
    BY <1>1, <1>2, ProfileType
  <1>4. infra' \in {"none"} \cup Category
    BY <1>2 DEF TypeOK, Noted
  <1> QED
    BY <1>3, <1>4

(* A checkpoint is well-formed when what the caller hands in is.           *)
LEMMA SavedType ==
  ASSUME TypeOK, NEW ph \in Phases, NEW completed \in 0..Rounds,
         NEW active \in 0..Rounds, NEW ids \in Seq(Cand), NEW sel \in Seq(Cand),
         NEW best \in Cand \cup {None}, NEW b \in Seq(Cand)
  PROVE  /\ Saved(ph, completed, active, ids, sel, best, b) \in Checkpoint
         /\ Saved(ph, completed, active, ids, sel, best, b).beam = b
         /\ Saved(ph, completed, active, ids, sel, best, b).phase = ph
  BY SMTT(60) DEF TypeOK, Saved, Checkpoint

(* An exception leaves a typed, empty memory and the durable state alone.  *)
LEMMA RaiseType ==
  ASSUME TypeOK, Raise, rec' \in [Cand -> Record], ckpt' \in Checkpoint
  PROVE  TypeOK' /\ pc' = "failed"
  BY SMTT(20), ConstantsAssumption, EmptySeq
     DEF TypeOK, Raise, Forget, NoOwners, outside, Ended

LEMMA StopForTimeType ==
  ASSUME TypeOK, round \in 1..Rounds, NEW ph \in Phases,
         NEW ids \in Seq(Cand), NEW sel \in Seq(Cand),
         NEW best \in Cand \cup {None}, NEW b \in Seq(Cand), b # <<>>,
         StopForTime(ph, ids, sel, best, b)
  PROVE  ShapeInv'
  <1>1. ckpt' \in Checkpoint /\ ckpt'.beam = b
    <2>1. round - 1 \in 0..Rounds /\ round \in 0..Rounds
      BY ConstantsAssumption
    <2>2. ASSUME NEW completed \in 0..Rounds, NEW active \in 0..Rounds,
                 ckpt' = Saved(ph, completed, active, ids, sel, best, b)
          PROVE  ckpt' \in Checkpoint /\ ckpt'.beam = b
      BY SMTT(60), <2>2 DEF Saved, Checkpoint, TypeOK
    <2> QED
      BY <2>1, <2>2 DEF StopForTime
  <1>2. TypeOK'
    BY SMTT(60), <1>1, ConstantsAssumption, EmptySeq
       DEF TypeOK, StopForTime, outside, identities, Closing
  <1> QED
    BY <1>1, <1>2 DEF ShapeInv, StageInv, StopForTime, HasCheckpoint, Running,
                      RoundStages, RepairLoops, Closing
-----------------------------------------------------------------------------
(* Every action keeps the shape of the state.                              *)

(* Where the process has forgotten everything only the archive matters.    *)
LEMMA EndedShape ==
  ASSUME ShapeInv, TypeOK', pc' \in {"ready"} \cup Ended,
         HasCheckpoint' => ckpt'.beam # <<>>
  PROVE  ShapeInv'
  BY DEF ShapeInv, StageInv, Running, Ended, RoundStages, RepairLoops, Closing

LEMMA RaiseShape ==
  ASSUME ShapeInv, Raise, rec' \in [Cand -> Record], UNCHANGED ckpt
  PROVE  ShapeInv'
  BY RaiseType, EndedShape DEF ShapeInv, StageInv, TypeOK, HasCheckpoint, Ended

LEMMA StartShape ==
  ASSUME ShapeInv, Begin \/ Restore
  PROVE  ShapeInv'
  <1>1. CASE Begin
    <2>1. SeedRecord \in Record /\ Blank \in Record
      BY ConstantsAssumption DEF SeedRecord, Blank, Record, Result, Failure
    <2> QED
      BY <1>1, <2>1
         DEF Begin, ShapeInv, StageInv, TypeOK, HasCheckpoint, Running,
             Searching, SeedStages, RoundStages, RepairLoops, Closing, outside,
             memory, session, stage, identities
  <1>2. CASE Restore
    <2>1. /\ pc' = "round" /\ ckpt.phase # "absent"
          /\ beam' = ckpt.beam /\ searchBest' = ckpt.searchBest
          /\ round' = IF ckpt.active # None THEN ckpt.active
                      ELSE ckpt.completed + 1
          /\ UNCHANGED <<rec, ckpt, outside, stage, infra, reason>>
      BY <1>2 DEF Restore
    <2>2. owners' \in [Hash -> Cand \cup {None}]
      BY <1>2 DEF Restore
    <2>3. /\ ckpt.beam \in Seq(Cand) /\ ckpt.searchBest \in Cand \cup {None}
          /\ ckpt.active \in 0..Rounds /\ ckpt.completed \in 0..Rounds
      BY DEF ShapeInv, TypeOK, Checkpoint
    <2>4. round' \in 1..(Rounds + 1)
      BY <2>1, <2>3, Bounds DEF None
    <2>5. beam' # <<>>
      BY <2>1 DEF ShapeInv, StageInv, HasCheckpoint
    <2> QED
      BY <2>1, <2>2, <2>3, <2>4, <2>5
         DEF ShapeInv, StageInv, TypeOK, HasCheckpoint, Running, Searching,
             SeedStages, RoundStages, RepairLoops, Closing, outside, stage
  <1> QED
    BY <1>1, <1>2

LEMMA SeedShape ==
  ASSUME ShapeInv, ModelSeed \/ MeasureSeed \/ ProfileSeed \/ FinishSeed
  PROVE  ShapeInv'
  <1> USE DEF ShapeInv, StageInv, HasCheckpoint, Running, Searching, SeedStages,
              RoundStages, RepairLoops, Closing, outside, session, stage
  <1>1. ASSUME NEW why \in {"fixable"} \cup Category,
               ModelFails(Seed, why) \/ MeasureFails(Seed, why)
        PROVE  rec' \in [Cand -> Record]
    <2>1. why \in Failure /\ rec \in [Cand -> Record]
      BY DEF Failure, TypeOK
    <2> QED
      BY <1>1, <2>1, Bounds, FailureType
  <1>2. CASE ModelSeed
    <2>1. CASE /\ ModelSucceeds(Seed) /\ pc' = "seed_measure"
               /\ UNCHANGED <<ckpt, outside, session, stage>>
      <3>1. /\ rec' \in [Cand -> Record]
            /\ owners' \in [Hash -> Cand \cup {None}]
            /\ infra' \in {"none"} \cup Category
        BY <2>1, EvaluateModelType, Bounds DEF EvaluateModel
      <3> QED
        BY <2>1, <3>1 DEF TypeOK
    <2>2. CASE \E why \in {"fixable"} \cup Category :
                 ModelFails(Seed, why) /\ Raise /\ UNCHANGED ckpt
      BY <1>1, <2>2, RaiseShape
    <2> QED
      BY <1>2, <2>1, <2>2 DEF ModelSeed
  <1>3. CASE MeasureSeed
    <2>1. CASE /\ \E l \in Lat : rec' = [rec EXCEPT ![Seed].meas = l]
               /\ infra' = "none"
               /\ pc' \in {"seed_profile", "seed_done"}
               /\ UNCHANGED <<ckpt, outside, session, stage, owners>>
      <3>1. PICK l \in Result : rec' = [rec EXCEPT ![Seed].meas = l]
        BY <2>1 DEF Result
      <3>2. rec' \in [Cand -> Record]
        BY <3>1, Bounds, ResultType DEF TypeOK
      <3> QED
        BY <2>1, <3>2 DEF TypeOK
    <2>2. CASE \E why \in {"fixable"} \cup Category :
                 MeasureFails(Seed, why) /\ Raise /\ UNCHANGED ckpt
      BY <1>1, <2>2, RaiseShape
    <2> QED
      BY <1>3, <2>1, <2>2 DEF MeasureSeed
  <1>4. CASE ProfileSeed
    <2>1. /\ EvaluateProfile(Seed) /\ pc' = "seed_done"
          /\ UNCHANGED <<ckpt, outside, session, stage, owners>>
      BY <1>4 DEF ProfileSeed
    <2>2. rec' \in [Cand -> Record] /\ infra' \in {"none"} \cup Category
      BY <2>1, EvaluateProfileType, Bounds
    <2> QED
      BY <2>1, <2>2 DEF TypeOK
  <1>5. CASE FinishSeed
    <2>1. <<Seed>> \in Seq(Cand) /\ <<Seed>> # <<>>
      BY Bounds
    <2>2. /\ beam' = <<Seed>> /\ round' = 1 /\ pc' = "round"
          /\ UNCHANGED <<rec, outside, stage, identities, searchBest, reason>>
      BY <1>5 DEF FinishSeed
    <2>3. ckpt' \in Checkpoint /\ ckpt'.beam = <<Seed>>
      <3>1. ckpt' = Saved("seed_completed", 0, None, <<>>, <<>>, None, <<Seed>>)
        BY <1>5 DEF FinishSeed
      <3>2. /\ "seed_completed" \in Phases /\ <<>> \in Seq(Cand)
            /\ 0 \in 0..Rounds /\ None \in 0..Rounds /\ None \in Cand \cup {None}
        BY Bounds, EmptySeq DEF Phases, None
      <3> QED
        BY SMTT(60), <2>1, <3>1, <3>2 DEF Saved, Checkpoint, TypeOK
    <2>4. 1 \in 0..(Rounds + 1)
      BY Bounds
    <2> QED
      BY <2>1, <2>2, <2>3, <2>4 DEF TypeOK, identities
  <1> QED
    BY <1>2, <1>3, <1>4, <1>5

(* The steps between the rounds, and the generation of candidates.         *)
LEMMA RoundHeadShape ==
  ASSUME ShapeInv,
         StopAtRoundStart \/ StartGeneration \/ ResumeRound \/ EndSearch
  PROVE  ShapeInv'
  <1> USE DEF ShapeInv, StageInv, HasCheckpoint, Running, Searching,
              RoundStages, RepairLoops, Closing, outside, session, stage
  <1>1. CASE StopAtRoundStart
    <2>1. /\ pc = "round" /\ round <= Rounds
          /\ StopForTime("", <<>>, <<>>, None, beam)
      BY <1>1 DEF StopAtRoundStart
    <2>2. pc = "round" /\ round <= Rounds
      BY <2>1
    <2>3. round \in 1..Rounds /\ beam \in Seq(Cand) /\ beam # <<>>
      BY <2>2, Bounds DEF TypeOK
    <2>4. "" \in Phases /\ <<>> \in Seq(Cand) /\ None \in Cand \cup {None}
      BY EmptySeq DEF Phases
    <2> QED
      BY <2>1, <2>3, <2>4, StopForTimeType
  <1>2. CASE StartGeneration
    <2>1. /\ pc = "round" /\ round <= Rounds /\ pc' = "generate"
          /\ UNCHANGED <<rec, ckpt, outside, session, identities, queue,
                         repaired, measured>>
      BY <1>2 DEF StartGeneration
    <2>2. left' \in 0..Proposals
      <3>1. KnownProposals \in Nat
        BY FiniteSubset DEF KnownProposals, Of
      <3>2. left' = IF KnownProposals < Proposals
                    THEN Proposals - KnownProposals ELSE 0
        BY <1>2 DEF StartGeneration
      <3> QED
        BY <3>1, <3>2, Bounds
    <2>3. todo' \in Seq(Cand)
      <3>1. todo' = IF Adaptive THEN <<Head(beam)>> ELSE beam
        BY <1>2 DEF StartGeneration
      <3> QED
        BY <2>1, <3>1 DEF TypeOK
    <2> QED
      BY <2>1, <2>2, <2>3, Bounds DEF TypeOK, identities
  <1>3. CASE ResumeRound
    <2>1. todo' \in Seq(Cand)
      <3>1. todo' = ckpt.ids \/ todo' = <<>>
        BY <1>3 DEF ResumeRound
      <3> QED
        BY <3>1, EmptySeq DEF TypeOK, Checkpoint
    <2>2. pc' \in {"model", "select", "before_measure"}
      BY <1>3 DEF ResumeRound
    <2>3. /\ pc = "round" /\ round <= Rounds
          /\ UNCHANGED <<rec, ckpt, outside, session, identities, queue,
                         repaired, measured, left>>
      BY <1>3 DEF ResumeRound
    <2> QED
      BY <2>1, <2>2, <2>3, Bounds DEF TypeOK, identities
  <1>4. CASE EndSearch
    BY <1>4 DEF EndSearch, TypeOK, identities
  <1> QED
    BY <1>1, <1>2, <1>3, <1>4

LEMMA GenerationShape ==
  ASSUME ShapeInv, GenerateFromParent \/ EndGeneration
  PROVE  ShapeInv'
  <1> USE DEF ShapeInv, StageInv, HasCheckpoint, Running, Searching,
              RoundStages, RepairLoops, Closing, outside, session, identities
  <1>1. CASE GenerateFromParent
    <2>1. /\ pc = "generate" /\ RequestCount > 0 /\ todo' = Tail(todo)
          /\ UNCHANGED <<ckpt, pc, outside, session, identities, queue,
                         repaired, measured>>
      BY <1>1 DEF GenerateFromParent
    <2>2. PICK returned \in 0..RequestCount, new \in SUBSET Absent :
            /\ \E verdict \in [new -> Verdict] :
                 rec' = [c \in Cand |-> IF c \in new
                                       THEN ProposalRecord(round, verdict[c])
                                       ELSE rec[c]]
            /\ left' = left - returned
      BY <1>1 DEF GenerateFromParent
    <2>3. \A v \in Verdict : ProposalRecord(round, v) \in Record
      <3>1. round \in 0..Rounds /\ 0 \in 0..MaxRepairDepth
        BY <2>1, Bounds
      <3> QED
        BY <3>1 DEF ProposalRecord, Blank, Record, Verdict, Result, Failure
    <2>4. rec' \in [Cand -> Record]
      BY <2>2, <2>3 DEF TypeOK
    <2>5. left' \in 0..Proposals
      <3>1. RequestCount \in 0..left /\ left \in 0..Proposals
        BY RequestBound DEF TypeOK
      <3>2. returned \in 0..RequestCount /\ left' = left - returned
        BY <2>2
      <3> QED
        BY <3>1, <3>2, Bounds
    <2>6. todo' \in Seq(Cand)
      <3>1. todo # <<>>
        BY <2>1 DEF RequestCount
      <3> QED
        BY <2>1, <3>1 DEF TypeOK
    <2> QED
      BY <2>1, <2>4, <2>5, <2>6 DEF TypeOK
  <1>2. CASE EndGeneration
    <2>1. /\ pc = "generate" /\ todo' = <<>> /\ left' = 0
          /\ pc' = "static_repair"
          /\ UNCHANGED <<rec, ckpt, outside, session, identities, repaired,
                         measured>>
      BY <1>2 DEF EndGeneration
    <2>2. queue' \in Seq(Cand)
      <3>1. StaticFailures \in SUBSET Cand /\ queue' \in Orders(StaticFailures)
        BY <1>2 DEF EndGeneration, StaticFailures
      <3> QED
        BY <3>1, OrdersType
    <2> QED
      BY <2>1, <2>2, EmptySeq, Bounds DEF TypeOK
  <1> QED
    BY <1>1, <1>2

(* The repair loops.                                                       *)
LEMMA RepairShape ==
  ASSUME ShapeInv, PassOver \/ RepairCandidate
  PROVE  ShapeInv'
  <1> USE DEF ShapeInv, StageInv, HasCheckpoint, Running, Searching,
              RoundStages, RepairLoops, Closing, outside, session, identities
  <1>1. ASSUME queue # <<>>
        PROVE  Tail(queue) \in Seq(Cand) /\ Head(queue) \in Cand
    BY <1>1 DEF TypeOK
  <1>2. CASE PassOver
    <2>1. /\ queue # <<>> /\ queue' = Tail(queue)
          /\ UNCHANGED <<rec, ckpt, pc, outside, session, identities, todo,
                         repaired, measured, left>>
      BY <1>2 DEF PassOver, RepairLoopActive
    <2> QED
      BY <1>1, <2>1 DEF TypeOK
  <1>3. CASE RepairCandidate
    <2>1. /\ pc \in RepairLoops /\ queue # <<>>
          /\ rec[Head(queue)].depth < MaxRepairDepth
          /\ UNCHANGED <<outside, session, identities, measured, left>>
      BY <1>3 DEF RepairCandidate, RepairLoopActive, Repairable
    <2>2. round \in 1..Rounds
      BY <2>1
    <2>3. /\ ckpt' \in Checkpoint /\ ckpt'.beam = ckpt.beam
          /\ ckpt'.phase = ckpt.phase
      <3>1. /\ ckpt.repairs[round] < MaxRepairs
            /\ ckpt' = [ckpt EXCEPT !.repairs[round] = @ + 1,
                                    !.searchBest = searchBest]
        BY <1>3 DEF RepairCandidate, RepairLoopActive, RepairBudgetAvailable
      <3>2. ckpt.repairs[round] \in 0..MaxRepairs
        BY <2>2 DEF TypeOK, Checkpoint
      <3>3. ckpt.repairs[round] + 1 \in 0..MaxRepairs
        BY <3>1, <3>2, Bounds
      <3> QED
        BY <2>2, <3>1, <3>3 DEF TypeOK, Checkpoint
    <2>4. CASE queue' = Tail(queue) /\ UNCHANGED <<rec, pc, todo, repaired>>
      BY <1>1, <2>1, <2>3, <2>4 DEF TypeOK
    <2>5. ASSUME NEW c \in Absent, NEW v \in Verdict,
            rec' = [rec EXCEPT ![c] = RepairRecord(Head(queue), round, v)],
            queue' = IF v = "fixable" THEN Append(Tail(queue), c)
                     ELSE Tail(queue),
            \/ UNCHANGED <<pc, todo, repaired>>
            \/ /\ todo' = <<c>> /\ repaired' \in {repaired, Append(repaired, c)}
               /\ pc' \in {"model_repaired", "remodel", "remeasure"}
          PROVE  ShapeInv'
      <3>1. c \in Cand
        BY DEF Absent
      <3>2. RepairRecord(Head(queue), round, v) \in Record
        <4>1. rec[Head(queue)].depth \in 0..MaxRepairDepth
          BY <1>1, <2>1 DEF TypeOK, Record
        <4>2. rec[Head(queue)].depth + 1 \in 0..MaxRepairDepth
          BY <2>1, <4>1, Bounds
        <4>3. round \in 0..Rounds
          BY <2>2, Bounds
        <4> QED
          BY <4>2, <4>3
             DEF RepairRecord, Blank, Record, Verdict, Result, Failure
      <3>3. rec' \in [Cand -> Record]
        BY <2>5, <3>2 DEF TypeOK
      <3>4. /\ queue' \in Seq(Cand) /\ repaired' \in Seq(Cand)
            /\ todo' \in Seq(Cand)
        <4>1. Append(Tail(queue), c) \in Seq(Cand)
          BY <1>1, <2>1, <3>1
        <4>2. Append(repaired, c) \in Seq(Cand) /\ <<c>> \in Seq(Cand)
          BY <3>1 DEF TypeOK
        <4>3. queue' \in {Append(Tail(queue), c), Tail(queue)}
          BY <2>5
        <4>4. /\ todo' = todo \/ todo' = <<c>>
              /\ repaired' = repaired \/ repaired' = Append(repaired, c)
          BY <2>5
        <4> QED
          BY <1>1, <2>1, <4>1, <4>2, <4>3, <4>4 DEF TypeOK
      <3>5. \/ pc' = pc /\ todo' = todo
            \/ /\ pc' \in {"model_repaired", "remodel", "remeasure"}
               /\ todo' # <<>>
        <4>1. <<c>> # <<>>
          OBVIOUS
        <4> QED
          BY <2>5, <4>1
      <3> QED
        BY <2>1, <2>3, <3>3, <3>4, <3>5 DEF TypeOK
    <2> QED
      BY <1>3, <2>4, <2>5 DEF RepairCandidate
  <1> QED
    BY <1>2, <1>3

(* The phase of a checkpoint is always one of the known phases.            *)
LEMMA PhaseType ==
  ASSUME TypeOK
  PROVE  Phase \in Phases
  BY DEF TypeOK, Checkpoint, Phase, Phases

LEMMA FinishGenerationShape ==
  ASSUME ShapeInv, FinishGeneration
  PROVE  ShapeInv'
  <1> USE DEF ShapeInv, StageInv, HasCheckpoint, Running, Searching,
              RoundStages, RepairLoops, Closing, outside, session, identities
  <1>1. pc = "static_repair"
    BY DEF FinishGeneration
  <1>2. round \in 1..Rounds
    BY <1>1
  <1>3. /\ round - 1 \in 0..Rounds /\ round \in 0..Rounds /\ None \in 0..Rounds
        /\ round + 1 \in 1..(Rounds + 1)
    BY <1>2, Bounds DEF None
  <1>4. PICK ids \in Ascending(Generated) :
          \/ StopForTime(Phase, ids, <<>>, None, beam)
          \/ /\ \/ /\ ckpt' = Saved("round_completed", round, None, <<>>, <<>>,
                                     None, beam)
                   /\ round' = round + 1 /\ pc' = "round"
                   /\ UNCHANGED reason
                \/ /\ ckpt' = Saved("search_stopped", round - 1, None, <<>>,
                                     <<>>, None, beam)
                   /\ reason' = "no-new-valid-candidates" /\ pc' = "freeze"
                   /\ UNCHANGED round
             /\ queue' = <<>>
             /\ UNCHANGED <<rec, outside, identities, beam, todo, repaired,
                            measured, left, searchBest>>
          \/ /\ ckpt' = Saved("generated", round - 1, round, ids, <<>>, None,
                              beam)
             /\ todo' = ids /\ queue' = <<>>
             /\ pc' = "model"
             /\ UNCHANGED <<rec, outside, session, identities, repaired,
                            measured, left>>
    BY DEF FinishGeneration
  <1>5. ids \in Seq(Cand)
    <2>1. Generated \in SUBSET Cand
      BY DEF Generated
    <2> QED
      BY <2>1, OrdersType
  <1>6. /\ <<>> \in Seq(Cand) /\ None \in Cand \cup {None}
        /\ beam \in Seq(Cand) /\ beam # <<>>
        /\ {"round_completed", "search_stopped", "generated"} \subseteq Phases
    BY <1>1, EmptySeq DEF TypeOK, Phases
  <1>7. CASE StopForTime(Phase, ids, <<>>, None, beam)
    BY <1>2, <1>5, <1>6, <1>7, PhaseType, StopForTimeType
  <1>8. ASSUME NEW ph \in Phases, NEW completed \in 0..Rounds,
               NEW active \in 0..Rounds, NEW s \in Seq(Cand),
               ckpt' = Saved(ph, completed, active, s, <<>>, None, beam)
        PROVE  ckpt' \in Checkpoint /\ ckpt'.beam = beam
    BY SMTT(60), <1>6, <1>8 DEF Saved, Checkpoint, TypeOK
  <1>9. CASE /\ ckpt' = Saved("round_completed", round, None, <<>>, <<>>, None,
                              beam)
             /\ round' = round + 1 /\ pc' = "round" /\ UNCHANGED reason
             /\ queue' = <<>>
             /\ UNCHANGED <<rec, outside, identities, beam, todo, repaired,
                            measured, left, searchBest>>
    <2>1. ckpt' \in Checkpoint /\ ckpt'.beam = beam
      BY <1>3, <1>6, <1>8, <1>9
    <2>2. round' \in 1..(Rounds + 1) /\ pc' = "round" /\ queue' \in Seq(Cand)
      BY <1>3, <1>6, <1>9
    <2> QED
      BY <1>6, <1>9, <2>1, <2>2 DEF TypeOK
  <1>10. CASE /\ ckpt' = Saved("search_stopped", round - 1, None, <<>>, <<>>,
                               None, beam)
              /\ reason' = "no-new-valid-candidates" /\ pc' = "freeze"
              /\ UNCHANGED round
              /\ queue' = <<>>
              /\ UNCHANGED <<rec, outside, identities, beam, todo, repaired,
                             measured, left, searchBest>>
    <2>1. ckpt' \in Checkpoint /\ ckpt'.beam = beam
      BY <1>3, <1>6, <1>8, <1>10
    <2> QED
      BY <1>6, <1>10, <2>1 DEF TypeOK
  <1>11. CASE /\ ckpt' = Saved("generated", round - 1, round, ids, <<>>, None,
                               beam)
              /\ todo' = ids /\ queue' = <<>> /\ pc' = "model"
              /\ UNCHANGED <<rec, outside, session, identities, repaired,
                             measured, left>>
    <2>1. ckpt' \in Checkpoint /\ ckpt'.beam = beam
      BY <1>3, <1>5, <1>6, <1>8, <1>11
    <2> QED
      BY <1>2, <1>5, <1>6, <1>11, <2>1 DEF TypeOK
  <1> QED
    BY <1>4, <1>7, <1>9, <1>10, <1>11

-----------------------------------------------------------------------------
(* Inside a round: what the checkpoint holds, what is written back to it.  *)

LEMMA CheckpointParts ==
  ASSUME ShapeInv
  PROVE  /\ ckpt.ids \in Seq(Cand) /\ ckpt.sel \in Seq(Cand)
         /\ ckpt.best \in Cand \cup {None} /\ ckpt.completed \in 0..Rounds
         /\ Range(ckpt.ids) \subseteq Cand /\ Range(ckpt.sel) \subseteq Cand
  <1>1. /\ ckpt.ids \in Seq(Cand) /\ ckpt.sel \in Seq(Cand)
        /\ ckpt.best \in Cand \cup {None} /\ ckpt.completed \in 0..Rounds
    BY DEF ShapeInv, TypeOK, Checkpoint
  <1>2. ASSUME NEW s \in Seq(Cand)
        PROVE  Range(s) \subseteq Cand
    BY DEF Range
  <1> QED
    BY <1>1, <1>2

LEMMA RoundSavedType ==
  ASSUME ShapeInv, pc \in RoundStages, NEW ph \in Phases,
         NEW ids \in Seq(Cand), NEW sel \in Seq(Cand),
         NEW best \in Cand \cup {None}, NEW b \in Seq(Cand),
         ckpt' = Saved(ph, round - 1, round, ids, sel, best, b)
  PROVE  ckpt' \in Checkpoint /\ ckpt'.beam = b
  <1>1. round \in 1..Rounds
    BY DEF ShapeInv, StageInv
  <1>2. round - 1 \in 0..Rounds /\ round \in 0..Rounds
    BY <1>1, Bounds
  <1> QED
    BY SMTT(60), <1>2 DEF Saved, Checkpoint, ShapeInv, TypeOK

LEMMA StopInRoundShape ==
  ASSUME ShapeInv, pc \in RoundStages, NEW ids \in Seq(Cand),
         NEW sel \in Seq(Cand), NEW best \in Cand \cup {None},
         NEW b \in Seq(Cand), b # <<>>,
         StopForTime(Phase, ids, sel, best, b)
  PROVE  ShapeInv'
  <1>1. TypeOK /\ round \in 1..Rounds
    BY DEF ShapeInv, StageInv
  <1>2. Phase \in Phases
    BY <1>1, PhaseType
  <1> QED
    BY <1>1, <1>2, StopForTimeType

(* The modelling stage.                                                    *)
LEMMA ModelingShape ==
  ASSUME ShapeInv,
         \/ ModelCandidate \/ SkipModelCandidates \/ StartModelRepair
         \/ ModelRepaired \/ FinishModeling
  PROVE  ShapeInv'
  <1> USE DEF ShapeInv, StageInv, HasCheckpoint, Running, Searching,
              RoundStages, RepairLoops, Closing, outside, session
  <1>0. /\ <<>> \in Seq(Cand) /\ None \in Cand \cup {None}
        /\ ckpt.ids \in Seq(Cand)
    BY EmptySeq, CheckpointParts
  <1>1. CASE ModelCandidate
    <2>1. /\ pc = "model" /\ todo # <<>>
          /\ UNCHANGED <<ckpt, pc, outside, session, queue, repaired, measured,
                         left>>
          /\ todo' = Tail(todo) \/ todo' = <<>>
      BY <1>1 DEF ModelCandidate
    <2>2. Head(todo) \in Cand /\ todo' \in Seq(Cand)
      <3>1. Head(todo) \in Cand /\ Tail(todo) \in Seq(Cand)
        BY <2>1, HeadTailType DEF TypeOK
      <3> QED
        BY <1>0, <2>1, <3>1
    <2>3. UNCHANGED <<rec, identities>> \/ EvaluateModel(Head(todo))
      BY <1>1 DEF ModelCandidate
    <2>4. /\ rec' \in [Cand -> Record]
          /\ owners' \in [Hash -> Cand \cup {None}]
          /\ infra' \in {"none"} \cup Category
      <3>1. CASE EvaluateModel(Head(todo))
        BY <2>2, <3>1, EvaluateModelType
      <3>2. CASE UNCHANGED <<rec, identities>>
        BY <3>2 DEF TypeOK, identities
      <3> QED
        BY <2>3, <3>1, <3>2
    <2> QED
      BY <2>1, <2>2, <2>4 DEF TypeOK
  <1>2. CASE SkipModelCandidates
    BY <1>0, <1>2 DEF SkipModelCandidates, TypeOK, identities
  <1>3. CASE StartModelRepair
    BY <1>0, <1>3 DEF StartModelRepair, TypeOK, identities
  <1>4. CASE ModelRepaired
    <2>1. /\ pc = "model_repaired" /\ pc' = "model_repair" /\ todo' = <<>>
          /\ UNCHANGED <<ckpt, outside, session, measured, left>>
          /\ repaired' = Append(repaired, Head(todo))
      BY <1>4 DEF ModelRepaired
    <2>6. queue' = queue \/ queue' = Append(queue, Head(todo))
      BY <1>4 DEF ModelRepaired
    <2>2. Head(todo) \in Cand
      BY <2>1 DEF TypeOK
    <2>3. UNCHANGED <<rec, identities>> \/ EvaluateModel(Head(todo))
      BY <1>4 DEF ModelRepaired
    <2>4. /\ rec' \in [Cand -> Record]
          /\ owners' \in [Hash -> Cand \cup {None}]
          /\ infra' \in {"none"} \cup Category
      <3>1. CASE EvaluateModel(Head(todo))
        BY <2>2, <3>1, EvaluateModelType
      <3>2. CASE UNCHANGED <<rec, identities>>
        BY <3>2 DEF TypeOK, identities
      <3> QED
        BY <2>3, <3>1, <3>2
    <2>5. repaired' \in Seq(Cand) /\ queue' \in Seq(Cand)
      <3>1. queue \in Seq(Cand) /\ repaired \in Seq(Cand)
        BY DEF TypeOK
      <3>2. /\ Append(queue, Head(todo)) \in Seq(Cand)
            /\ Append(repaired, Head(todo)) \in Seq(Cand)
        BY <2>2, <3>1
      <3> QED
        BY <2>1, <2>6, <3>1, <3>2
    <2> QED
      BY <1>0, <2>1, <2>4, <2>5 DEF TypeOK
  <1>5. CASE FinishModeling
    <2> DEFINE ids == ckpt.ids \o repaired
    <2>1. pc = "model_repair" /\ beam # <<>> /\ beam \in Seq(Cand)
      BY <1>5 DEF FinishModeling, TypeOK
    <2>2. ids \in Seq(Cand)
      BY <1>0 DEF TypeOK
    <2>3. CASE StopForTime(Phase, ids, <<>>, None, beam)
      BY <1>0, <2>1, <2>2, <2>3, StopInRoundShape
    <2>4. CASE /\ ckpt' = Saved("modeled", round - 1, round, ids, <<>>, None,
                                beam)
               /\ repaired' = <<>> /\ queue' = <<>> /\ pc' = "select"
               /\ UNCHANGED <<rec, outside, session, identities, todo,
                              measured, left>>
      <3>1. "modeled" \in Phases
        BY DEF Phases
      <3>2. ckpt' \in Checkpoint /\ ckpt'.beam = beam
        BY <1>0, <2>1, <2>2, <2>4, <3>1, RoundSavedType
      <3>3. /\ repaired' = <<>> /\ queue' = <<>> /\ pc' = "select"
            /\ UNCHANGED <<rec, outside, session, identities, todo,
                           measured, left>>
        BY <2>4
      <3> QED
        BY <1>0, <2>1, <3>2, <3>3 DEF TypeOK, identities
    <2> QED
      BY <1>5, <2>3, <2>4 DEF FinishModeling
  <1> QED
    BY <1>1, <1>2, <1>3, <1>4, <1>5

(* Selection, measurement and profiling.                                   *)
LEMMA SelectionShape ==
  ASSUME ShapeInv, SelectCandidates \/ BeforeMeasurement
  PROVE  ShapeInv'
  <1> USE DEF ShapeInv, StageInv, HasCheckpoint, Running, Searching,
              RoundStages, RepairLoops, Closing, outside, session
  <1>0. /\ <<>> \in Seq(Cand) /\ ckpt.ids \in Seq(Cand)
        /\ ckpt.sel \in Seq(Cand) /\ ckpt.best \in Cand \cup {None}
        /\ Range(ckpt.ids) \subseteq Cand /\ Range(ckpt.sel) \subseteq Cand
    BY EmptySeq, CheckpointParts
  <1>1. CASE SelectCandidates
    <2>1. pc = "select" /\ pc' = "before_measure" /\ UNCHANGED <<rec, outside, memory>>
      BY <1>1 DEF SelectCandidates
    <2>2. PICK sel \in Selections :
            ckpt' = Saved("selected", round - 1, round, ckpt.ids, sel, Head(beam),
                          beam)
      BY <1>1 DEF SelectCandidates
    <2>3. sel \in Seq(Cand)
      <3>1. \A S \in SUBSET Range(ckpt.ids) :
              Orders(S) \subseteq Seq(Cand) /\ Ascending(S) \subseteq Seq(Cand)
        BY <1>0, OrdersType
      <3> QED
        BY <3>1 DEF Selections
    <2>4. Head(beam) \in Cand \cup {None} /\ beam \in Seq(Cand) /\ beam # <<>>
      BY <2>1, HeadTailType DEF TypeOK
    <2>5. "selected" \in Phases /\ pc \in RoundStages
      BY <2>1 DEF Phases
    <2>6. ckpt' \in Checkpoint /\ ckpt'.beam = beam
      BY <1>0, <2>2, <2>3, <2>4, <2>5, RoundSavedType
    <2> QED
      BY <2>1, <2>4, <2>6 DEF TypeOK, memory, stage, identities
  <1>2. CASE BeforeMeasurement
    <2>1. pc = "before_measure" /\ beam \in Seq(Cand) /\ beam # <<>>
      BY <1>2 DEF BeforeMeasurement, TypeOK
    <2>2. CASE StopForTime(Phase, ckpt.ids, ckpt.sel, ckpt.best, beam)
      BY <1>0, <2>1, <2>2, StopInRoundShape
    <2>3. CASE /\ pc' \in {"measure", "update_beam", "profile_round"}
               /\ todo' \in {ckpt.sel, <<>>}
               /\ measured' \in {{}, {c \in Range(ckpt.sel) : MeasuredCorrect(c)}}
               /\ UNCHANGED <<rec, ckpt, outside, session, identities, queue,
                              repaired, left>>
      <3>1. todo' \in Seq(Cand) /\ measured' \in SUBSET Cand
        BY <1>0, <2>3
      <3> QED
        BY <2>1, <2>3, <3>1 DEF TypeOK, identities
    <2> QED
      BY <1>2, <2>2, <2>3 DEF BeforeMeasurement
  <1> QED
    BY <1>1, <1>2

LEMMA MeasurementShape ==
  ASSUME ShapeInv,
         \/ MeasureCandidate \/ StartMeasureRepair \/ RemodelRepaired
         \/ RemeasureRepaired
  PROVE  ShapeInv'
  <1> USE DEF ShapeInv, StageInv, HasCheckpoint, Running, Searching,
              RoundStages, RepairLoops, Closing, outside, session
  <1>0. <<>> \in Seq(Cand) /\ ckpt.sel \in Seq(Cand)
    BY EmptySeq, CheckpointParts
  <1>1. ASSUME EvaluateMeasurement(Head(todo)) \/ UNCHANGED <<rec, measured, infra>>,
               Head(todo) \in Cand
        PROVE  /\ rec' \in [Cand -> Record] /\ measured' \in SUBSET Cand
               /\ infra' \in {"none"} \cup Category
    <2>1. CASE EvaluateMeasurement(Head(todo))
      BY <1>1, <2>1, EvaluateMeasurementType
    <2>2. CASE UNCHANGED <<rec, measured, infra>>
      BY <2>2 DEF TypeOK
    <2> QED
      BY <1>1, <2>1, <2>2
  <1>2. CASE MeasureCandidate
    <2>1. /\ pc = "measure" /\ todo # <<>>
          /\ UNCHANGED <<ckpt, pc, outside, session, queue, repaired, left, owners>>
          /\ todo' = Tail(todo) \/ todo' = <<>>
      BY <1>2 DEF MeasureCandidate
    <2>2. Head(todo) \in Cand /\ todo' \in Seq(Cand)
      <3>1. Head(todo) \in Cand /\ Tail(todo) \in Seq(Cand)
        BY <2>1, HeadTailType DEF TypeOK
      <3> QED
        BY <1>0, <2>1, <3>1
    <2>3. EvaluateMeasurement(Head(todo)) \/ UNCHANGED <<rec, measured, infra>>
      BY <1>2 DEF MeasureCandidate
    <2>4. /\ rec' \in [Cand -> Record] /\ measured' \in SUBSET Cand
          /\ infra' \in {"none"} \cup Category
      BY <1>1, <2>2, <2>3
    <2> QED
      BY <2>1, <2>2, <2>4 DEF TypeOK
  <1>3. CASE StartMeasureRepair
    BY <1>0, <1>3 DEF StartMeasureRepair, TypeOK, identities
  <1>4. CASE RemodelRepaired
    <2>1. /\ pc = "remodel" /\ todo # <<>>
          /\ UNCHANGED <<ckpt, outside, session, measured, left>>
          /\ repaired' = Append(repaired, Head(todo))
          /\ \/ pc' = "remeasure" /\ UNCHANGED todo
             \/ pc' = "measure_repair" /\ todo' = <<>>
      BY <1>4 DEF RemodelRepaired
    <2>2. queue' = queue \/ queue' = Append(queue, Head(todo))
      BY <1>4 DEF RemodelRepaired
    <2>3. Head(todo) \in Cand
      BY <2>1, HeadTailType DEF TypeOK
    <2>4. UNCHANGED <<rec, identities>> \/ EvaluateModel(Head(todo))
      BY <1>4 DEF RemodelRepaired
    <2>5. /\ rec' \in [Cand -> Record]
          /\ owners' \in [Hash -> Cand \cup {None}]
          /\ infra' \in {"none"} \cup Category
      <3>1. CASE EvaluateModel(Head(todo))
        BY <2>3, <3>1, EvaluateModelType
      <3>2. CASE UNCHANGED <<rec, identities>>
        BY <3>2 DEF TypeOK, identities
      <3> QED
        BY <2>4, <3>1, <3>2
    <2>6. repaired' \in Seq(Cand) /\ queue' \in Seq(Cand)
      <3>1. queue \in Seq(Cand) /\ repaired \in Seq(Cand)
        BY DEF TypeOK
      <3>2. /\ Append(queue, Head(todo)) \in Seq(Cand)
            /\ Append(repaired, Head(todo)) \in Seq(Cand)
        BY <2>3, <3>1
      <3> QED
        BY <2>1, <2>2, <3>1, <3>2
    <2> QED
      BY <1>0, <2>1, <2>5, <2>6 DEF TypeOK
  <1>5. CASE RemeasureRepaired
    <2>1. /\ pc = "remeasure" /\ todo # <<>> /\ todo' = <<>>
          /\ pc' = "measure_repair"
          /\ UNCHANGED <<ckpt, outside, session, repaired, left, owners>>
      BY <1>5 DEF RemeasureRepaired
    <2>2. queue' = queue \/ queue' = Append(queue, Head(todo))
      BY <1>5 DEF RemeasureRepaired
    <2>3. Head(todo) \in Cand
      BY <2>1, HeadTailType DEF TypeOK
    <2>4. EvaluateMeasurement(Head(todo)) \/ UNCHANGED <<rec, measured, infra>>
      BY <1>5 DEF RemeasureRepaired
    <2>5. /\ rec' \in [Cand -> Record] /\ measured' \in SUBSET Cand
          /\ infra' \in {"none"} \cup Category
      BY <1>1, <2>3, <2>4
    <2>6. queue' \in Seq(Cand)
      <3>1. queue \in Seq(Cand)
        BY DEF TypeOK
      <3>2. Append(queue, Head(todo)) \in Seq(Cand)
        BY <2>3, <3>1
      <3> QED
        BY <2>2, <3>1, <3>2
    <2> QED
      BY <1>0, <2>1, <2>5, <2>6 DEF TypeOK
  <1> QED
    BY <1>2, <1>3, <1>4, <1>5

LEMMA ProfilingShape ==
  ASSUME ShapeInv, StartProfiling \/ ProfileMeasured \/ MaybeProfileRound
  PROVE  ShapeInv'
  <1> USE DEF ShapeInv, StageInv, HasCheckpoint, Running, Searching,
              RoundStages, RepairLoops, Closing, outside, session
  <1>0. /\ <<>> \in Seq(Cand) /\ ckpt.ids \in Seq(Cand)
        /\ ckpt.sel \in Seq(Cand) /\ ckpt.best \in Cand \cup {None}
    BY EmptySeq, CheckpointParts
  <1>1. ASSUME NEW c \in Cand,
               EvaluateProfile(c) \/ UNCHANGED <<rec, infra>>
        PROVE  /\ rec' \in [Cand -> Record]
               /\ infra' \in {"none"} \cup Category
    <2>1. CASE EvaluateProfile(c)
      BY <2>1, EvaluateProfileType
    <2>2. CASE UNCHANGED <<rec, infra>>
      BY <2>2 DEF TypeOK
    <2> QED
      BY <1>1, <2>1, <2>2
  <1>2. CASE StartProfiling
    <2>1. /\ pc = "measure_repair" /\ pc' = "profile_all" /\ queue' = <<>>
          /\ UNCHANGED <<rec, ckpt, outside, session, identities, repaired,
                         measured, left>>
      BY <1>2 DEF StartProfiling
    <2>2. todo' \in Seq(Cand)
      <3>1. measured \in SUBSET Cand
        BY DEF TypeOK
      <3>2. todo' \in Ascending(measured) \/ todo' = <<>>
        BY <1>2 DEF StartProfiling
      <3> QED
        BY <1>0, <3>1, <3>2, OrdersType
    <2> QED
      BY <1>0, <2>1, <2>2 DEF TypeOK, identities
  <1>3. CASE ProfileMeasured
    <2>1. /\ pc = "profile_all" /\ todo # <<>>
          /\ UNCHANGED <<ckpt, pc, outside, session, queue, repaired, measured,
                         left, owners>>
          /\ todo' = Tail(todo) \/ todo' = <<>>
      BY <1>3 DEF ProfileMeasured
    <2>2. Head(todo) \in Cand /\ todo' \in Seq(Cand)
      <3>1. Head(todo) \in Cand /\ Tail(todo) \in Seq(Cand)
        BY <2>1, HeadTailType DEF TypeOK
      <3> QED
        BY <1>0, <2>1, <3>1
    <2>3. EvaluateProfile(Head(todo)) \/ UNCHANGED <<rec, infra>>
      BY <1>3 DEF ProfileMeasured
    <2>4. rec' \in [Cand -> Record] /\ infra' \in {"none"} \cup Category
      BY <1>1, <2>2, <2>3
    <2> QED
      BY <2>1, <2>2, <2>4 DEF TypeOK
  <1>4. CASE MaybeProfileRound
    <2>1. pc = "profile_round" /\ beam \in Seq(Cand) /\ beam # <<>>
      BY <1>4 DEF MaybeProfileRound, TypeOK
    <2>2. CASE StopForTime(Phase, ckpt.ids, ckpt.sel, ckpt.best, beam)
      BY <1>0, <2>1, <2>2, StopInRoundShape
    <2>3. CASE /\ pc' = "finish_round"
               /\ \/ UNCHANGED <<rec, infra>>
                  \/ \E c \in measured \cup {Head(beam)} : EvaluateProfile(c)
               /\ UNCHANGED <<ckpt, outside, session, stage, owners>>
      <3>1. Head(beam) \in Cand /\ measured \subseteq Cand
        BY <2>1, HeadTailType DEF TypeOK
      <3>2. \E c \in Cand : EvaluateProfile(c) \/ UNCHANGED <<rec, infra>>
        BY <2>3, <3>1
      <3>3. rec' \in [Cand -> Record] /\ infra' \in {"none"} \cup Category
        BY <1>1, <3>2
      <3>4. pc' = "finish_round" /\ UNCHANGED <<ckpt, outside, session, stage, owners>>
        BY <2>3
      <3> QED
        BY <2>1, <3>3, <3>4 DEF TypeOK, stage
    <2> QED
      BY <1>4, <2>2, <2>3 DEF MaybeProfileRound
  <1> QED
    BY <1>2, <1>3, <1>4

(* The beam, and the end of a round.                                       *)
LEMMA BeamShape ==
  ASSUME ShapeInv, FinishMeasurement \/ UpdateBeam \/ FinishRound
  PROVE  ShapeInv'
  <1> USE DEF ShapeInv, StageInv, HasCheckpoint, Running, Searching,
              RoundStages, RepairLoops, Closing, outside, session
  <1>0. /\ <<>> \in Seq(Cand) /\ ckpt.ids \in Seq(Cand)
        /\ ckpt.sel \in Seq(Cand) /\ ckpt.best \in Cand \cup {None}
    BY EmptySeq, CheckpointParts
  <1>1. ASSUME pc \in RoundStages, NEW b \in Beams(BeamPool)
        PROVE  b \in Seq(Cand) /\ b # <<>>
    <2>1. beam \in Seq(Cand) /\ beam # <<>> /\ measured \in SUBSET Cand
      BY <1>1 DEF TypeOK
    <2>2. Range(beam) \in SUBSET Cand /\ Head(beam) \in Range(beam)
      BY <2>1 DEF Range
    <2>3. BeamPool \in SUBSET Cand /\ BeamPool # {}
      BY <2>1, <2>2 DEF BeamPool
    <2> QED
      BY <1>1, <2>3, BeamsType
  <1>2. CASE FinishMeasurement
    <2> DEFINE ids == ckpt.ids \o repaired
    <2> DEFINE sel == ckpt.sel \o repaired
    <2>1. pc = "profile_all" /\ beam \in Seq(Cand) /\ beam # <<>>
      BY <1>2 DEF FinishMeasurement, TypeOK
    <2>2. ids \in Seq(Cand) /\ sel \in Seq(Cand)
      BY <1>0 DEF TypeOK
    <2>3. CASE \E b \in Beams(BeamPool) : StopForTime(Phase, ids, sel, ckpt.best, b)
      BY <1>0, <1>1, <2>1, <2>2, <2>3, StopInRoundShape
    <2>4. CASE /\ ckpt' = Saved("measured", round - 1, round, ids, sel,
                                ckpt.best, beam)
               /\ repaired' = <<>> /\ pc' = "update_beam"
               /\ UNCHANGED <<rec, outside, session, identities, todo, queue,
                              measured, left>>
      <3>1. "measured" \in Phases
        BY DEF Phases
      <3>2. ckpt' \in Checkpoint /\ ckpt'.beam = beam
        BY <1>0, <2>1, <2>2, <2>4, <3>1, RoundSavedType
      <3>3. /\ repaired' = <<>> /\ pc' = "update_beam"
            /\ UNCHANGED <<rec, outside, session, identities, todo, queue,
                           measured, left>>
        BY <2>4
      <3> QED
        BY <1>0, <2>1, <3>2, <3>3 DEF TypeOK, identities
    <2> QED
      BY <1>2, <2>3, <2>4 DEF FinishMeasurement
  <1>3. CASE UpdateBeam
    <2>1. /\ pc = "update_beam" /\ pc' = "profile_round"
          /\ UNCHANGED <<rec, outside, stage, identities, round, searchBest, reason>>
      BY <1>3 DEF UpdateBeam
    <2>2. PICK b \in Beams(BeamPool) :
            /\ beam' = b
            /\ ckpt' = Saved("beam_updated", round - 1, round, ckpt.ids,
                             ckpt.sel, ckpt.best, b)
      BY <1>3 DEF UpdateBeam
    <2>3. b \in Seq(Cand) /\ b # <<>>
      BY <1>1, <2>1
    <2>4. "beam_updated" \in Phases /\ pc \in RoundStages
      BY <2>1 DEF Phases
    <2>5. ckpt' \in Checkpoint /\ ckpt'.beam = b
      BY <1>0, <2>2, <2>3, <2>4, RoundSavedType
    <2>6. beam' = b
      BY <2>2
    <2> QED
      BY <2>1, <2>3, <2>5, <2>6 DEF TypeOK, stage, identities
  <1>4. CASE FinishRound
    <2>1. pc = "finish_round" /\ beam \in Seq(Cand) /\ beam # <<>>
      BY <1>4 DEF FinishRound, TypeOK
    <2>2. round \in 1..Rounds
      BY <2>1
    <2>3. CASE StopForTime(Phase, ckpt.ids, ckpt.sel, ckpt.best, beam)
      BY <1>0, <2>1, <2>3, StopInRoundShape
    <2>4. CASE /\ ckpt' = Saved("round_completed", round, None, ckpt.ids,
                                ckpt.sel, ckpt.best, beam)
               /\ round' = round + 1 /\ measured' = {} /\ pc' = "round"
               /\ UNCHANGED <<rec, outside, identities, beam, todo, queue,
                              repaired, left, searchBest, reason>>
      <3>1. /\ "round_completed" \in Phases /\ round \in 0..Rounds
            /\ None \in 0..Rounds /\ round + 1 \in 1..(Rounds + 1)
        BY <2>2, Bounds DEF Phases, None
      <3>2. ckpt' \in Checkpoint /\ ckpt'.beam = beam
        BY SMTT(60), <1>0, <2>1, <2>4, <3>1 DEF Saved, Checkpoint, TypeOK
      <3>3. /\ round' = round + 1 /\ measured' = {} /\ pc' = "round"
            /\ UNCHANGED <<rec, outside, identities, beam, todo, queue,
                           repaired, left, searchBest, reason>>
        BY <2>4
      <3>4. round' \in 1..(Rounds + 1)
        BY <3>1, <3>3
      <3> QED
        BY <2>1, <3>2, <3>3, <3>4 DEF TypeOK, identities
    <2> QED
      BY <1>4, <2>3, <2>4 DEF FinishRound
  <1> QED
    BY <1>2, <1>3, <1>4

(* Final validation and export.                                            *)
LEMMA ClosingShape ==
  ASSUME ShapeInv,
         FreezeSearch \/ FinalizeCandidate \/ FinishFinalization \/ Export
  PROVE  ShapeInv'
  <1> USE DEF ShapeInv, StageInv, HasCheckpoint, Running, Searching,
              RoundStages, RepairLoops, Closing, outside, session
  <1>0. /\ <<>> \in Seq(Cand) /\ None \in Cand \cup {None}
        /\ ckpt.completed \in 0..Rounds
    BY EmptySeq, CheckpointParts
  <1>1. ASSUME NEW s \in Seq(Cand), NEW n \in Nat, n <= Len(s)
        PROVE  SubSeq(s, 1, n) \in Seq(Cand)
    BY <1>1, SubSeqProperties
  <1>2. CASE FreezeSearch
    <2>1. /\ pc = "freeze" /\ pc' \in {"finalize", "export"}
          /\ searchBest' = IF searchBest = None THEN Head(beam) ELSE searchBest
          /\ todo' = <<Seed>> \o Finalists \/ todo' = todo
          /\ UNCHANGED <<rec, ckpt, outside, identities, round, beam, queue,
                         repaired, measured, left, reason>>
      BY <1>2 DEF FreezeSearch
    <2>2. beam \in Seq(Cand) /\ beam # <<>> /\ todo \in Seq(Cand)
      BY <2>1 DEF TypeOK
    <2>3. Finalists \in Seq(Cand)
      <3>1. Len(beam) \in Nat /\ FinalCount \in Nat
        BY <2>2, ConstantsAssumption
      <3>2. Smaller(FinalCount, Len(beam)) \in Nat
            /\ Smaller(FinalCount, Len(beam)) <= Len(beam)
        BY <3>1 DEF Smaller
      <3> QED
        BY <1>1, <2>2, <3>2 DEF Finalists
    <2>4. todo' \in Seq(Cand)
      <3>1. <<Seed>> \o Finalists \in Seq(Cand)
        BY <2>3, Bounds
      <3> QED
        BY <2>1, <2>2, <3>1
    <2>5. searchBest' \in Cand \cup {None}
      <3>1. Head(beam) \in Cand
        BY <2>2, HeadTailType
      <3> QED
        BY <2>1, <3>1 DEF TypeOK
    <2>6. /\ pc = "freeze" /\ pc' \in {"finalize", "export"}
          /\ UNCHANGED <<rec, ckpt, outside, identities, round, beam, queue,
                         repaired, measured, left, reason>>
      BY <2>1
    <2> QED
      BY <2>2, <2>4, <2>5, <2>6 DEF TypeOK, identities
  <1>3. CASE FinalizeCandidate
    <2>1. pc = "finalize" /\ todo # <<>>
      BY <1>3 DEF FinalizeCandidate
    <2>2. Head(todo) \in Cand /\ Tail(todo) \in Seq(Cand)
      BY <2>1, HeadTailType DEF TypeOK
    <2>3. ASSUME NEW cat \in Category, FinalFails(Head(todo), cat)
          PROVE  rec' \in [Cand -> Record]
      <3>1. cat \in Failure /\ rec \in [Cand -> Record]
        BY DEF Failure, TypeOK
      <3> QED
        BY <2>2, <2>3, <3>1, FailureType
    <2>4. ASSUME NEW m \in Result, rec' = [rec EXCEPT ![Head(todo)].final = m]
          PROVE  rec' \in [Cand -> Record]
      BY <2>2, <2>4, ResultType DEF TypeOK
    <2>5. CASE /\ todo' = Tail(todo)
               /\ UNCHANGED <<rec, ckpt, pc, outside, session, identities,
                              queue, repaired, measured, left>>
      BY <2>1, <2>2, <2>5 DEF TypeOK, identities
    <2>6. CASE /\ todo' = Tail(todo)
               /\ \/ /\ \E l \in Lat : rec' = [rec EXCEPT ![Head(todo)].final = l]
                     /\ infra' = "none"
                  \/ /\ rec' = [rec EXCEPT ![Head(todo)].final = Failed]
                     /\ UNCHANGED infra
                  \/ \E cat \in Category :
                       Noted(cat) /\ FinalFails(Head(todo), cat)
               /\ UNCHANGED <<ckpt, pc, outside, session, queue, repaired,
                              measured, left, owners>>
      <3>1. Failed \in Result /\ \A l \in Lat : l \in Result
        BY DEF Result
      <3>2. rec' \in [Cand -> Record]
        BY <2>3, <2>4, <2>6, <3>1
      <3>3. infra' \in {"none"} \cup Category
        BY <2>6 DEF TypeOK, Noted
      <3>4. /\ todo' = Tail(todo)
            /\ UNCHANGED <<ckpt, pc, outside, session, queue, repaired,
                           measured, left, owners>>
        BY <2>6
      <3> QED
        BY <2>1, <2>2, <3>2, <3>3, <3>4 DEF TypeOK
    <2>7. CASE /\ \E cat \in Category : FinalFails(Head(todo), cat)
               /\ Raise /\ UNCHANGED ckpt
      BY <2>3, <2>7, RaiseShape
    <2> QED
      BY <1>3, <2>5, <2>6, <2>7 DEF FinalizeCandidate
  <1>4. CASE FinishFinalization
    <2>1. CASE Raise /\ UNCHANGED <<rec, ckpt>>
      BY <2>1, RaiseShape DEF TypeOK
    <2>2. CASE ~(Raise /\ UNCHANGED <<rec, ckpt>>)
      <3>1. /\ pc = "finalize" /\ pc' = "export"
            /\ UNCHANGED <<rec, outside, stage, identities, round, searchBest,
                           reason>>
        BY <1>4, <2>2 DEF FinishFinalization
      <3>2. ckpt' = Saved("finalized", ckpt.completed, None, <<>>, <<>>, None,
                          beam')
        BY <1>4, <2>2 DEF FinishFinalization
      <3>3. PICK best \in Cand :
              \E rest \in ByFinal({c \in Range(beam) \ {best} : rec[c].final > 0}) :
                beam' = <<best>> \o SubSeq(rest, 1, Smaller(BeamWidth - 1, Len(rest)))
        BY <1>4, <2>2 DEF FinishFinalization
      <3>4. beam' \in Seq(Cand) /\ beam' # <<>>
        <4>1. beam \in Seq(Cand)
          BY DEF TypeOK
        <4>2. PICK rest \in ByFinal({c \in Range(beam) \ {best} : rec[c].final > 0}) :
                beam' = <<best>> \o SubSeq(rest, 1, Smaller(BeamWidth - 1, Len(rest)))
          BY <3>3
        <4>3. {c \in Range(beam) \ {best} : rec[c].final > 0} \in SUBSET Cand
          BY <4>1 DEF Range
        <4>4. rest \in Seq(Cand)
          BY <4>3, OrdersType
        <4>5. Len(rest) \in Nat /\ BeamWidth - 1 \in Nat
          BY <4>4, ConstantsAssumption
        <4>6. Smaller(BeamWidth - 1, Len(rest)) \in Nat
              /\ Smaller(BeamWidth - 1, Len(rest)) <= Len(rest)
          BY <4>5 DEF Smaller
        <4> DEFINE others == SubSeq(rest, 1, Smaller(BeamWidth - 1, Len(rest)))
        <4>7. others \in Seq(Cand)
          BY <1>1, <4>4, <4>6
        <4>8. <<best>> \o others \in Seq(Cand) /\ <<best>> \o others # <<>>
          BY <4>7
        <4> QED
          BY <4>2, <4>8
      <3>5. ckpt' \in Checkpoint /\ ckpt'.beam = beam'
        <4>1. "finalized" \in Phases /\ None \in 0..Rounds
          BY Bounds DEF Phases, None
        <4> QED
          BY SMTT(60), <1>0, <3>2, <3>4, <4>1 DEF Saved, Checkpoint, TypeOK
      <3> QED
        BY <3>1, <3>4, <3>5 DEF TypeOK, stage, identities
    <2> QED
      BY <2>1, <2>2
  <1>5. CASE Export
    <2>1. /\ pc = "export" /\ exported' = Head(beam)
          /\ pc' \in Ended /\ Forget
          /\ UNCHANGED <<rec, expired, restarts>>
      BY <1>5 DEF Export, Ended
    <2>2. beam \in Seq(Cand) /\ beam # <<>>
      BY <2>1 DEF TypeOK
    <2>3. Head(beam) \in Cand
      BY <2>2, HeadTailType
    <2>4. ckpt' \in Checkpoint /\ (HasCheckpoint' => ckpt'.beam # <<>>)
      <3>1. CASE ckpt' = [ckpt EXCEPT !.searchBest = searchBest]
        BY <3>1 DEF TypeOK, Checkpoint
      <3>2. CASE ckpt' = Saved("run_completed", ckpt.completed, None, <<>>, <<>>,
                               None, beam)
        <4>1. "run_completed" \in Phases /\ None \in 0..Rounds
          BY Bounds DEF Phases, None
        <4> QED
          BY SMTT(60), <1>0, <2>2, <3>2, <4>1 DEF Saved, Checkpoint, TypeOK
      <3> QED
        BY <1>5, <3>1, <3>2 DEF Export
    <2>5. TypeOK'
      <3>1. NoOwners \in [Hash -> Cand \cup {None}]
        BY DEF NoOwners
      <3>2. 0 \in 0..(Rounds + 1) /\ 0 \in 0..Proposals
        BY Bounds
      <3> QED
        BY <1>0, <2>1, <2>3, <2>4, <3>1, <3>2 DEF TypeOK, Forget
    <2> QED
      BY <2>1, <2>4, <2>5, EndedShape
  <1> QED
    BY <1>2, <1>3, <1>4, <1>5

(* The circuit breaker archives a failure and ends the process.            *)
LEMMA BreakerShape ==
  ASSUME ShapeInv, CircuitBreaker
  PROVE  ShapeInv'
  <1>1. rec \in [Cand -> Record] /\ todo \in Seq(Cand) /\ beam \in Seq(Cand)
        /\ measured \in SUBSET Cand
    BY DEF ShapeInv, TypeOK
  <1>2. ASSUME NEW c \in Cand, NEW cat \in Category,
               \/ ModelFails(c, cat) \/ MeasureFails(c, cat)
               \/ FinalFails(c, cat) \/ rec' = [rec EXCEPT ![c].profile = cat]
        PROVE  rec' \in [Cand -> Record]
    <2>1. CASE rec' = [rec EXCEPT ![c].profile = cat]
      <3>1. [rec[c] EXCEPT !.profile = cat] \in Record
        BY SMTT(20), <1>1 DEF Record
      <3> QED
        BY <1>1, <2>1, <3>1
    <2>2. CASE ModelFails(c, cat) \/ MeasureFails(c, cat) \/ FinalFails(c, cat)
      <3>1. cat \in Failure
        BY DEF Failure
      <3> QED
        BY <1>1, <2>2, <3>1, FailureType
    <2> QED
      BY <1>2, <2>1, <2>2
  <1>3. \E c \in Cand, cat \in Category :
          \/ ModelFails(c, cat) \/ MeasureFails(c, cat)
          \/ FinalFails(c, cat) \/ rec' = [rec EXCEPT ![c].profile = cat]
    <2>1. todo # <<>> => Head(todo) \in Cand
      BY <1>1, HeadTailType
    <2>2. pc = "profile_round" => beam[1] \in Cand
      <3>1. pc = "profile_round" => beam # <<>>
        BY DEF ShapeInv, StageInv, Running, RoundStages
      <3> QED
        BY <1>1, <3>1
    <2> QED
      BY <1>1, <2>1, <2>2 DEF CircuitBreaker
  <1>4. rec' \in [Cand -> Record]
    BY <1>2, <1>3
  <1> QED
    BY <1>4, RaiseShape DEF CircuitBreaker

(* The clock, a crash and a resume.                                        *)
LEMMA EnvironmentShape ==
  ASSUME ShapeInv, Deadline \/ Crash \/ Resume \/ UNCHANGED vars
  PROVE  ShapeInv'
  <1> USE DEF ShapeInv, StageInv, HasCheckpoint, Running
  <1>1. CASE Deadline
    BY <1>1 DEF Deadline, TypeOK, memory, session, stage, identities
  <1>2. CASE Crash
    BY <1>2, RaiseShape DEF Crash, TypeOK
  <1>3. CASE Resume
    <2>1. restarts' \in 0..MaxRestarts
      BY <1>3, Bounds DEF Resume, TypeOK
    <2> QED
      BY <1>3, <2>1
         DEF Resume, TypeOK, memory, session, stage, identities, RoundStages,
             RepairLoops, Closing
  <1>4. CASE UNCHANGED vars
    BY <1>4 DEF vars, TypeOK, outside, memory, session, stage, identities
  <1> QED
    BY <1>1, <1>2, <1>3, <1>4

LEMMA InitShape ==
  ASSUME Init
  PROVE  ShapeInv
  <1>1. Blank \in Record /\ <<>> \in Seq(Cand)
    BY Bounds, EmptySeq DEF Blank, Record, Result, Failure
  <1>2. NoCheckpoint \in Checkpoint /\ NoCheckpoint.phase = "absent"
    BY <1>1, Bounds DEF NoCheckpoint, Checkpoint, Phases, None
  <1>3. NoOwners \in [Hash -> Cand \cup {None}]
    BY DEF NoOwners
  <1>4. [c \in Cand |-> Blank] \in [Cand -> Record]
    BY <1>1
  <1>5. 0 \in 0..(Rounds + 1) /\ 0 \in 0..Proposals /\ 0 \in 0..MaxRestarts
    BY Bounds
  <1>6. TypeOK
    BY <1>1, <1>2, <1>3, <1>4, <1>5 DEF Init, TypeOK
  <1> QED
    BY <1>2, <1>6
       DEF Init, ShapeInv, StageInv, HasCheckpoint, Running, RoundStages,
           RepairLoops, Closing

LEMMA NextShape ==
  ASSUME ShapeInv, [Next]_vars
  PROVE  ShapeInv'
  <1>1. CASE Work
    BY <1>1, StartShape, SeedShape, RoundHeadShape, GenerationShape,
       FinishGenerationShape, RepairShape, BreakerShape, ModelingShape,
       SelectionShape, MeasurementShape, ProfilingShape, BeamShape,
       ClosingShape DEF Work
  <1>2. CASE Deadline \/ Crash \/ Resume \/ Rest \/ UNCHANGED vars
    BY <1>2, EnvironmentShape DEF Rest
  <1> QED
    BY <1>1, <1>2 DEF Next

(* Type correctness, for every budget and policy and any number of         *)
(* crashes: the archive and the checkpoint are well-formed, and whenever   *)
(* the beam's head is taken there is one.                                  *)
THEOREM ShapeCorrect == Spec => []ShapeInv
  BY InitShape, NextShape, PTL DEF Spec

THEOREM TypeCorrect == Spec => []TypeOK
  <1>1. ShapeInv => TypeOK
    BY DEF ShapeInv
  <1> QED
    BY <1>1, ShapeCorrect, PTL

-----------------------------------------------------------------------------
(***************************************************************************)
(* Two promises of the controller that survive any number of crashes and   *)
(* resumes: the candidate graph stays within the budget, and no evaluation *)
(* of an archived candidate is repeated.                                   *)
(***************************************************************************)

(* What an action does to the results of the records.                      *)
KindsKept ==
  \A c \in Cand : rec'[c].kind = rec[c].kind /\ rec'[c].gen = rec[c].gen

(* Evaluating c changes one field of it and leaves every other record.     *)
OnlyModelOf(c) ==
  \A d \in Cand :
    /\ rec'[d].kind = rec[d].kind /\ rec'[d].gen = rec[d].gen
    /\ rec'[d].meas = rec[d].meas /\ rec'[d].profile = rec[d].profile
    /\ rec'[d].final = rec[d].final
    /\ d # c => rec'[d].model = rec[d].model /\ rec'[d].equiv = rec[d].equiv
OnlyMeasOf(c) ==
  \A d \in Cand :
    /\ rec'[d].kind = rec[d].kind /\ rec'[d].gen = rec[d].gen
    /\ rec'[d].model = rec[d].model /\ rec'[d].equiv = rec[d].equiv
    /\ rec'[d].profile = rec[d].profile /\ rec'[d].final = rec[d].final
    /\ d # c => rec'[d].meas = rec[d].meas
OnlyProfileOf(c) ==
  \A d \in Cand :
    /\ rec'[d].kind = rec[d].kind /\ rec'[d].gen = rec[d].gen
    /\ rec'[d].model = rec[d].model /\ rec'[d].equiv = rec[d].equiv
    /\ rec'[d].meas = rec[d].meas /\ rec'[d].final = rec[d].final
    /\ d # c => rec'[d].profile = rec[d].profile
OnlyFinalOf(c) ==
  \A d \in Cand :
    /\ rec'[d].kind = rec[d].kind /\ rec'[d].gen = rec[d].gen
    /\ rec'[d].model = rec[d].model /\ rec'[d].equiv = rec[d].equiv
    /\ rec'[d].meas = rec[d].meas /\ rec'[d].profile = rec[d].profile
    /\ d # c => rec'[d].final = rec[d].final

LEMMA Update ==
  ASSUME rec \in [Cand -> Record], NEW c \in Cand, NEW r, rec' = [rec EXCEPT ![c] = r]
  PROVE  rec'[c] = r /\ \A d \in Cand \ {c} : rec'[d] = rec[d]
  OBVIOUS

LEMMA ModelFrame ==
  ASSUME rec \in [Cand -> Record], NEW c \in Cand, NEW why,
         EvaluateModel(c) \/ ModelSucceeds(c) \/ ModelFails(c, why)
  PROVE  OnlyModelOf(c)
  <1>1. ASSUME NEW h, NEW w, NEW e,
               \/ rec' = [rec EXCEPT ![c] = [@ EXCEPT !.model = h, !.fail = w]]
               \/ rec' = [rec EXCEPT ![c] = [@ EXCEPT !.model = h, !.fail = w,
                                                      !.equiv = e]]
        PROVE  OnlyModelOf(c)
    <2> DEFINE r1 == [rec[c] EXCEPT !.model = h, !.fail = w]
    <2> DEFINE r2 == [rec[c] EXCEPT !.model = h, !.fail = w, !.equiv = e]
    <2>1. \A r \in {r1, r2} :
            /\ r.kind = rec[c].kind /\ r.gen = rec[c].gen
            /\ r.meas = rec[c].meas /\ r.profile = rec[c].profile
            /\ r.final = rec[c].final
      BY DEF Record
    <2>2. \E r \in {r1, r2} : rec' = [rec EXCEPT ![c] = r]
      BY <1>1
    <2> HIDE DEF r1, r2
    <2>3. \E r \in {r1, r2} : rec'[c] = r /\ \A d \in Cand \ {c} : rec'[d] = rec[d]
      BY <2>2, Update
    <2> QED
      BY <2>1, <2>3 DEF OnlyModelOf
  <1> QED
    BY <1>1 DEF EvaluateModel, ModelSucceeds, ModelFails

LEMMA MeasFrame ==
  ASSUME rec \in [Cand -> Record], NEW c \in Cand, NEW why, NEW m,
         \/ MeasureSucceeds(c, m) \/ MeasureFails(c, why)
         \/ rec' = [rec EXCEPT ![c].meas = m]
  PROVE  /\ OnlyMeasOf(c)
         /\ MeasureSucceeds(c, m) => rec'[c].meas = m
         /\ MeasureFails(c, why) => rec'[c].meas = Failed
  <1> DEFINE r1 == [rec[c] EXCEPT !.meas = m, !.fail = "none"]
  <1> DEFINE r2 == [rec[c] EXCEPT !.meas = Failed, !.fail = why]
  <1> DEFINE r3 == [rec[c] EXCEPT !.meas = m]
  <1>1. \A r \in {r1, r2, r3} :
          /\ r.kind = rec[c].kind /\ r.gen = rec[c].gen
          /\ r.model = rec[c].model /\ r.equiv = rec[c].equiv
          /\ r.profile = rec[c].profile /\ r.final = rec[c].final
    BY ZenonT(30) DEF Record
  <1>2. \E r \in {r1, r2, r3} : rec' = [rec EXCEPT ![c] = r]
    BY DEF MeasureSucceeds, MeasureFails
  <1>4. /\ MeasureSucceeds(c, m) => rec' = [rec EXCEPT ![c] = r1]
        /\ MeasureFails(c, why) => rec' = [rec EXCEPT ![c] = r2]
    BY DEF MeasureSucceeds, MeasureFails
  <1>5. r1.meas = m /\ r2.meas = Failed
    BY DEF Record
  <1> HIDE DEF r1, r2, r3
  <1>3. \E r \in {r1, r2, r3} : rec'[c] = r /\ \A d \in Cand \ {c} : rec'[d] = rec[d]
    BY <1>2, Update
  <1>6. /\ MeasureSucceeds(c, m) => rec'[c] = r1
        /\ MeasureFails(c, why) => rec'[c] = r2
    BY <1>4, Update
  <1> QED
    BY <1>1, <1>3, <1>5, <1>6 DEF OnlyMeasOf

LEMMA ProfileFrame ==
  ASSUME rec \in [Cand -> Record], NEW c \in Cand, NEW p,
         rec' = [rec EXCEPT ![c].profile = p]
  PROVE  OnlyProfileOf(c) /\ rec'[c].profile = p
  <1> DEFINE r == [rec[c] EXCEPT !.profile = p]
  <1>1. /\ r.kind = rec[c].kind /\ r.gen = rec[c].gen
        /\ r.model = rec[c].model /\ r.equiv = rec[c].equiv
        /\ r.meas = rec[c].meas /\ r.final = rec[c].final /\ r.profile = p
    BY DEF Record
  <1>2. rec' = [rec EXCEPT ![c] = r]
    OBVIOUS
  <1> HIDE DEF r
  <1>3. rec'[c] = r /\ \A d \in Cand \ {c} : rec'[d] = rec[d]
    BY <1>2, Update
  <1> QED
    BY <1>1, <1>3 DEF OnlyProfileOf

LEMMA FinalFrame ==
  ASSUME rec \in [Cand -> Record], NEW c \in Cand, NEW cat, NEW m,
         FinalFails(c, cat) \/ rec' = [rec EXCEPT ![c].final = m]
  PROVE  OnlyFinalOf(c)
  <1> DEFINE r1 == [rec[c] EXCEPT !.final = Failed, !.fail = cat]
  <1> DEFINE r2 == [rec[c] EXCEPT !.final = m]
  <1>1. \A r \in {r1, r2} :
          /\ r.kind = rec[c].kind /\ r.gen = rec[c].gen
          /\ r.model = rec[c].model /\ r.equiv = rec[c].equiv
          /\ r.meas = rec[c].meas /\ r.profile = rec[c].profile
    BY ZenonT(30) DEF Record
  <1>2. \E r \in {r1, r2} : rec' = [rec EXCEPT ![c] = r]
    BY DEF FinalFails
  <1> HIDE DEF r1, r2
  <1>3. \E r \in {r1, r2} : rec'[c] = r /\ \A d \in Cand \ {c} : rec'[d] = rec[d]
    BY <1>2, Update
  <1> QED
    BY <1>1, <1>3 DEF OnlyFinalOf

-----------------------------------------------------------------------------
(* The inductive invariant.  What a round may still ask for never exceeds  *)
(* what its budget leaves; the seed is evaluated before any checkpoint;    *)
(* and a repaired source waiting for its model has none yet.               *)
GraphInv ==
  /\ GraphBound
  /\ pc = "generate" => Cardinality(Of("proposal", round)) + left <= Proposals

OnceInv ==
  /\ pc \in SeedStages => ~HasCheckpoint
  /\ pc \in {"model_repaired", "remodel"} => rec[Head(todo)].model = "none"

(* A step that creates no record and repeats no evaluation.                *)
Quiet ==
  /\ KindsKept
  /\ ckpt'.repairs = ckpt.repairs
  /\ HasCheckpoint => \A c \in Cand : ResultsKept(c)
  /\ pc' = "generate" => pc = "generate" /\ UNCHANGED <<round, left>>
  /\ pc' \in SeedStages => pc \in SeedStages /\ UNCHANGED ckpt
  /\ pc' \in {"model_repaired", "remodel"} => pc' = pc /\ UNCHANGED <<rec, todo>>

LEMMA QuietKeeps ==
  ASSUME ShapeInv, GraphInv, OnceInv, Quiet
  PROVE  GraphInv' /\ OnceInv'
  <1>1. ASSUME NEW k, NEW r
        PROVE  Of(k, r)' = Of(k, r)
    BY DEF Quiet, KindsKept, Of
  <1>2. GraphBound'
    BY <1>1 DEF GraphInv, GraphBound, Quiet
  <1>3. ASSUME pc' = "generate"
        PROVE  Cardinality(Of("proposal", round))' + left' <= Proposals
    <2>1. Of("proposal", round)' = Of("proposal", round)
      BY <1>3 DEF Quiet, KindsKept, Of
    <2> QED
      BY <1>3, <2>1 DEF Quiet, GraphInv
  <1>4. OnceInv'
    BY DEF Quiet, OnceInv, HasCheckpoint
  <1> QED
    BY <1>2, <1>3, <1>4 DEF GraphInv

(* Steps that leave the records alone.                                     *)
LEMMA SameRecords ==
  ASSUME ShapeInv, UNCHANGED rec, ckpt'.repairs = ckpt.repairs,
         \/ pc' \notin {"generate", "model_repaired", "remodel"} \cup SeedStages
         \/ pc' = pc /\ UNCHANGED <<ckpt, round, left, todo>>
  PROVE  Quiet
  BY DEF Quiet, KindsKept, ResultsKept

LEMMA QuietSteps ==
  ASSUME ShapeInv,
         \/ Restore \/ FinishSeed \/ StopAtRoundStart \/ ResumeRound \/ EndSearch
         \/ EndGeneration \/ FinishGeneration \/ PassOver
         \/ SkipModelCandidates \/ StartModelRepair \/ FinishModeling
         \/ SelectCandidates \/ BeforeMeasurement \/ StartMeasureRepair
         \/ StartProfiling \/ FinishMeasurement \/ UpdateBeam \/ FinishRound
         \/ FreezeSearch \/ FinishFinalization \/ Export
         \/ Deadline \/ Crash \/ Resume \/ UNCHANGED vars
  PROVE  Quiet
  <1> USE DEF SeedStages
  <1>0. ASSUME NEW ph, NEW completed, NEW active, NEW ids, NEW sel, NEW best, NEW b
        PROVE  Saved(ph, completed, active, ids, sel, best, b).repairs = ckpt.repairs
    BY DEF Saved
  <1>1. ASSUME NEW ph, NEW ids, NEW sel, NEW best, NEW b,
               StopForTime(ph, ids, sel, best, b)
        PROVE  UNCHANGED rec /\ ckpt'.repairs = ckpt.repairs /\ pc' = "freeze"
    BY <1>0, <1>1 DEF StopForTime
  <1>2. CASE Restore \/ ResumeRound \/ EndSearch \/ EndGeneration
    BY <1>2, SameRecords DEF Restore, ResumeRound, EndSearch, EndGeneration
  <1>3. CASE FinishSeed
    BY <1>0, <1>3, SameRecords DEF FinishSeed
  <1>4. CASE StopAtRoundStart
    BY <1>1, <1>4, SameRecords DEF StopAtRoundStart
  <1>5. CASE FinishGeneration
    <2>1. /\ UNCHANGED rec /\ ckpt'.repairs = ckpt.repairs
          /\ pc' \in {"freeze", "round", "model"}
      BY <1>0, <1>1, <1>5 DEF FinishGeneration
    <2> QED
      BY <2>1, SameRecords
  <1>6. CASE PassOver
    BY <1>6, SameRecords DEF PassOver, RepairLoops
  <1>7. CASE SkipModelCandidates \/ StartModelRepair \/ StartMeasureRepair \/ StartProfiling
    BY <1>7, SameRecords
       DEF SkipModelCandidates, StartModelRepair, StartMeasureRepair, StartProfiling
  <1>8. CASE FinishModeling
    <2>1. /\ UNCHANGED rec /\ ckpt'.repairs = ckpt.repairs
          /\ pc' \in {"freeze", "select"}
      BY <1>0, <1>1, <1>8 DEF FinishModeling
    <2> QED
      BY <2>1, SameRecords
  <1>9. CASE SelectCandidates \/ BeforeMeasurement
    <2>1. /\ UNCHANGED rec /\ ckpt'.repairs = ckpt.repairs
          /\ pc' \in {"before_measure", "freeze", "measure", "update_beam",
                     "profile_round"}
      BY <1>0, <1>1, <1>9 DEF SelectCandidates, BeforeMeasurement
    <2> QED
      BY <2>1, SameRecords
  <1>10. CASE FinishMeasurement \/ UpdateBeam \/ FinishRound
    <2>1. /\ UNCHANGED rec /\ ckpt'.repairs = ckpt.repairs
          /\ pc' \in {"freeze", "update_beam", "profile_round", "round"}
      BY <1>0, <1>1, <1>10 DEF FinishMeasurement, UpdateBeam, FinishRound
    <2> QED
      BY <2>1, SameRecords
  <1>11. CASE FreezeSearch \/ FinishFinalization \/ Export
    <2>1. ckpt'.repairs = ckpt.repairs
      BY <1>0, <1>11
         DEF FreezeSearch, FinishFinalization, Export, ShapeInv, TypeOK, Checkpoint
    <2>2. UNCHANGED rec /\ pc' \in {"finalize", "export", "failed"} \cup Ended
      BY <1>11 DEF FreezeSearch, FinishFinalization, Export, Raise, Ended
    <2> QED
      BY <2>1, <2>2, SameRecords DEF Ended
  <1>12. CASE Deadline \/ UNCHANGED vars
    BY <1>12, SameRecords DEF Deadline, vars, memory, session, stage
  <1>13. CASE Crash \/ Resume
    BY <1>13, SameRecords DEF Crash, Raise, Resume
  <1> QED
    BY <1>2, <1>3, <1>4, <1>5, <1>6, <1>7, <1>8, <1>9, <1>10, <1>11, <1>12, <1>13


(* Steps that evaluate one candidate.                                      *)
LEMMA Evaluated ==
  ASSUME ShapeInv, NEW c \in Cand,
         \/ OnlyModelOf(c) /\ (~HasCheckpoint \/ rec[c].model = "none")
         \/ OnlyMeasOf(c) /\ (\/ ~HasCheckpoint \/ rec[c].meas = None
                              \/ rec'[c].meas = rec[c].meas)
         \/ OnlyProfileOf(c) /\ rec[c].profile \in {"none", rec'[c].profile}
         \/ OnlyFinalOf(c) /\ rec[c].final = None
  PROVE  KindsKept /\ (HasCheckpoint => \A d \in Cand : ResultsKept(d))
  BY DEF OnlyModelOf, OnlyMeasOf, OnlyProfileOf, OnlyFinalOf, KindsKept, ResultsKept

LEMMA Unevaluated ==
  ASSUME UNCHANGED rec
  PROVE  KindsKept /\ \A d \in Cand : ResultsKept(d)
  BY DEF KindsKept, ResultsKept

LEMMA MeasurementQuiet ==
  ASSUME ShapeInv, NEW c \in Cand, EvaluateMeasurement(c)
  PROVE  KindsKept /\ (HasCheckpoint => \A d \in Cand : ResultsKept(d))
  <1>0. rec \in [Cand -> Record]
    BY DEF ShapeInv, TypeOK
  <1>1. CASE UNCHANGED rec
    BY <1>1, Unevaluated
  <1>2. ASSUME NEW m, MeasureSucceeds(c, m), rec[c].meas = None \/ rec[c].meas = m
        PROVE  OnlyMeasOf(c) /\ (rec[c].meas = None \/ rec'[c].meas = rec[c].meas)
    BY <1>0, <1>2, MeasFrame
  <1>3. ASSUME NEW why, MeasureFails(c, why), rec[c].meas = None
        PROVE  OnlyMeasOf(c)
    BY <1>0, <1>3, MeasFrame
  <1> QED
    BY <1>1, <1>2, <1>3, Evaluated DEF EvaluateMeasurement

LEMMA ProfileQuiet ==
  ASSUME ShapeInv, NEW c \in Cand, EvaluateProfile(c)
  PROVE  KindsKept /\ (HasCheckpoint => \A d \in Cand : ResultsKept(d))
  <1>1. PICK p \in {"valid", "unavailable"} \cup Category :
           /\ rec[c].profile \in {"none", p}
           /\ rec' = [rec EXCEPT ![c].profile = p]
    BY DEF EvaluateProfile
  <1>2. OnlyProfileOf(c) /\ rec'[c].profile = p
    BY <1>1, ProfileFrame DEF ShapeInv, TypeOK
  <1> QED
    BY <1>1, <1>2, Evaluated

LEMMA ModelQuiet ==
  ASSUME ShapeInv, NEW c \in Cand,
         EvaluateModel(c) \/ ModelSucceeds(c) \/ \E why : ModelFails(c, why),
         ~HasCheckpoint \/ rec[c].model = "none"
  PROVE  KindsKept /\ (HasCheckpoint => \A d \in Cand : ResultsKept(d))
  <1>1. OnlyModelOf(c)
    BY ModelFrame DEF ShapeInv, TypeOK
  <1> QED
    BY <1>1, Evaluated

LEMMA FinalQuiet ==
  ASSUME ShapeInv, NEW c \in Cand, rec[c].final = None,
         \/ \E m : rec' = [rec EXCEPT ![c].final = m]
         \/ \E cat : FinalFails(c, cat)
  PROVE  KindsKept /\ (HasCheckpoint => \A d \in Cand : ResultsKept(d))
  <1>1. OnlyFinalOf(c)
    BY FinalFrame DEF ShapeInv, TypeOK
  <1> QED
    BY <1>1, Evaluated

LEMMA SeedQuiet ==
  ASSUME ShapeInv, OnceInv, ModelSeed \/ MeasureSeed \/ ProfileSeed
  PROVE  Quiet
  <1> USE DEF SeedStages
  <1>0. ~HasCheckpoint /\ Seed \in Cand /\ rec \in [Cand -> Record]
        /\ pc \in SeedStages /\ UNCHANGED ckpt
    BY Bounds DEF ModelSeed, MeasureSeed, ProfileSeed, OnceInv, ShapeInv, TypeOK
  <1>1. pc' \in {"seed_measure", "seed_profile", "seed_done", "failed"}
    BY DEF ModelSeed, MeasureSeed, ProfileSeed, Raise
  <1>2. KindsKept
    <2>1. CASE ModelSeed
      BY <1>0, <2>1, ModelQuiet DEF ModelSeed
    <2>2. CASE MeasureSeed
      <3>1. OnlyMeasOf(Seed)
        BY <1>0, <2>2, MeasFrame DEF MeasureSeed
      <3> QED
        BY <1>0, <3>1, Evaluated
    <2>3. CASE ProfileSeed
      BY <1>0, <2>3, ProfileQuiet DEF ProfileSeed
    <2> QED
      BY <2>1, <2>2, <2>3
  <1> QED
    BY <1>0, <1>1, <1>2 DEF Quiet

LEMMA EvaluationQuiet ==
  ASSUME ShapeInv, OnceInv,
         \/ ModelCandidate \/ ModelRepaired \/ MeasureCandidate
         \/ RemodelRepaired \/ RemeasureRepaired \/ ProfileMeasured
         \/ MaybeProfileRound \/ FinalizeCandidate
  PROVE  Quiet
  <1> USE DEF SeedStages
  <1> DEFINE Results == KindsKept /\ (HasCheckpoint => \A d \in Cand : ResultsKept(d))
  <1>0. /\ todo # <<>> => Head(todo) \in Cand
        /\ rec \in [Cand -> Record] /\ beam \in Seq(Cand) /\ measured \in SUBSET Cand
    BY HeadTailType DEF ShapeInv, TypeOK
  <1>1. pc \in {"model_repaired", "remodel", "remeasure"} => todo # <<>>
    BY DEF ShapeInv, StageInv
  <1>2. CASE ModelCandidate
    <2>1. UNCHANGED rec \/ (/\ EvaluateModel(Head(todo)) /\ todo # <<>>
                           /\ rec[Head(todo)].model = "none")
      BY <1>2 DEF ModelCandidate, Modelled
    <2>2. Results
      BY <1>0, <2>1, ModelQuiet, Unevaluated
    <2>3. pc = "model" /\ UNCHANGED <<ckpt, pc>>
      BY <1>2 DEF ModelCandidate
    <2> QED
      BY <2>2, <2>3 DEF Quiet
  <1>3. CASE ModelRepaired
    <2>1. /\ UNCHANGED rec \/ EvaluateModel(Head(todo))
          /\ pc = "model_repaired" /\ pc' = "model_repair" /\ UNCHANGED ckpt
      BY <1>3 DEF ModelRepaired
    <2>2. Results
      BY <1>0, <1>1, <2>1, ModelQuiet, Unevaluated DEF OnceInv
    <2> QED
      BY <2>1, <2>2 DEF Quiet
  <1>4. CASE MeasureCandidate
    <2>1. /\ UNCHANGED rec \/ EvaluateMeasurement(Head(todo))
          /\ todo # <<>> /\ pc = "measure" /\ UNCHANGED <<ckpt, pc>>
      BY <1>4 DEF MeasureCandidate
    <2>2. Results
      BY <1>0, <2>1, MeasurementQuiet, Unevaluated
    <2> QED
      BY <2>1, <2>2 DEF Quiet
  <1>5. CASE RemodelRepaired
    <2>1. /\ UNCHANGED rec \/ EvaluateModel(Head(todo))
          /\ pc = "remodel" /\ pc' \in {"remeasure", "measure_repair"}
          /\ UNCHANGED ckpt
      BY <1>5 DEF RemodelRepaired
    <2>2. Results
      BY <1>0, <1>1, <2>1, ModelQuiet, Unevaluated DEF OnceInv
    <2> QED
      BY <2>1, <2>2 DEF Quiet
  <1>6. CASE RemeasureRepaired
    <2>1. /\ UNCHANGED rec \/ EvaluateMeasurement(Head(todo))
          /\ pc = "remeasure" /\ pc' = "measure_repair" /\ UNCHANGED ckpt
      BY <1>6 DEF RemeasureRepaired
    <2>2. Results
      BY <1>0, <1>1, <2>1, MeasurementQuiet, Unevaluated
    <2> QED
      BY <2>1, <2>2 DEF Quiet
  <1>7. CASE ProfileMeasured
    <2>1. /\ UNCHANGED rec \/ EvaluateProfile(Head(todo))
          /\ todo # <<>> /\ pc = "profile_all" /\ UNCHANGED <<ckpt, pc>>
      BY <1>7 DEF ProfileMeasured
    <2>2. Results
      BY <1>0, <2>1, ProfileQuiet, Unevaluated
    <2> QED
      BY <2>1, <2>2 DEF Quiet
  <1>8. CASE MaybeProfileRound
    <2>1. CASE StopForTime(Phase, ckpt.ids, ckpt.sel, ckpt.best, beam)
      <3>1. UNCHANGED rec /\ ckpt'.repairs = ckpt.repairs /\ pc' = "freeze"
        BY <2>1 DEF StopForTime, Saved
      <3> QED
        BY <3>1, SameRecords
    <2>2. CASE ~StopForTime(Phase, ckpt.ids, ckpt.sel, ckpt.best, beam)
      <3>1. /\ pc = "profile_round" /\ pc' = "finish_round" /\ UNCHANGED ckpt
            /\ \/ UNCHANGED rec
               \/ \E c \in measured \cup {Head(beam)} : EvaluateProfile(c)
        BY <1>8, <2>2 DEF MaybeProfileRound
      <3>2. Head(beam) \in Cand
        <4>1. beam # <<>>
          BY <3>1 DEF ShapeInv, StageInv, Running, RoundStages
        <4> QED
          BY <1>0, <4>1, HeadTailType
      <3>3. Results
        BY <1>0, <3>1, <3>2, ProfileQuiet, Unevaluated
      <3> QED
        BY <3>1, <3>3 DEF Quiet
    <2> QED
      BY <2>1, <2>2
  <1>9. CASE FinalizeCandidate
    <2>1. /\ \/ UNCHANGED rec
             \/ /\ rec[Head(todo)].final = None
                /\ \/ \E m : rec' = [rec EXCEPT ![Head(todo)].final = m]
                   \/ \E cat : FinalFails(Head(todo), cat)
          /\ todo # <<>> /\ UNCHANGED ckpt
      BY <1>9 DEF FinalizeCandidate
    <2>2. pc' \in {"finalize", "failed"}
      BY <1>9 DEF FinalizeCandidate, Raise
    <2>3. Results
      BY <1>0, <2>1, FinalQuiet, Unevaluated
    <2> QED
      BY <2>1, <2>2, <2>3 DEF Quiet
  <1> QED
    BY <1>2, <1>3, <1>4, <1>5, <1>6, <1>7, <1>8, <1>9


LEMMA BreakerQuiet ==
  ASSUME ShapeInv, CircuitBreaker
  PROVE  Quiet
  <1> DEFINE Results == KindsKept /\ (HasCheckpoint => \A d \in Cand : ResultsKept(d))
  <1>0. /\ rec \in [Cand -> Record] /\ beam \in Seq(Cand) /\ measured \in SUBSET Cand
        /\ todo # <<>> => Head(todo) \in Cand
    BY HeadTailType DEF ShapeInv, TypeOK
  <1>1. pc = "profile_round" => beam[1] \in Cand
    <2>1. pc = "profile_round" => beam # <<>>
      BY DEF ShapeInv, StageInv, Running, RoundStages
    <2> QED
      BY <1>0, <2>1
  <1>2. pc' = "failed" /\ UNCHANGED ckpt
    BY DEF CircuitBreaker, Raise
  <1>3. PICK c \in Cand, cat \in Category :
          \/ rec[c].model = "none" /\ ModelFails(c, cat)
          \/ /\ rec[c].meas = None \/ rec[c].meas = Failed
             /\ MeasureFails(c, cat)
          \/ /\ rec[c].profile \in {"none", cat}
             /\ rec' = [rec EXCEPT ![c].profile = cat]
          \/ rec[c].final = None /\ FinalFails(c, cat)
    BY <1>0, <1>1 DEF CircuitBreaker, FinalFails
  <1>4. ASSUME rec[c].model = "none" /\ ModelFails(c, cat)
        PROVE  Results
    BY <1>4, ModelQuiet
  <1>5. ASSUME (rec[c].meas = None \/ rec[c].meas = Failed) /\ MeasureFails(c, cat)
        PROVE  Results
    <2>1. OnlyMeasOf(c) /\ rec'[c].meas = Failed
      BY <1>0, <1>5, MeasFrame
    <2> QED
      BY <1>5, <2>1, Evaluated
  <1>6. ASSUME rec[c].profile \in {"none", cat} /\ rec' = [rec EXCEPT ![c].profile = cat]
        PROVE  Results
    <2>1. OnlyProfileOf(c) /\ rec'[c].profile = cat
      BY <1>0, <1>6, ProfileFrame
    <2> QED
      BY <1>6, <2>1, Evaluated
  <1>7. ASSUME rec[c].final = None /\ FinalFails(c, cat)
        PROVE  Results
    BY <1>7, FinalQuiet
  <1>8. Results
    BY <1>3, <1>4, <1>5, <1>6, <1>7
  <1> QED
    BY <1>2, <1>8 DEF Quiet, SeedStages

-----------------------------------------------------------------------------
(* The steps that create records, or ask for some.                         *)

RecordsKept == \A c \in Cand : Exists(c) => rec'[c] = rec[c]

LEMMA BeginGraph ==
  ASSUME ShapeInv, Begin
  PROVE  GraphInv' /\ OnceInv' /\ ~HasCheckpoint
  <1>1. /\ ckpt.phase = "absent" /\ UNCHANGED ckpt
        /\ pc' \in {"seed_model", "seed_measure"}
        /\ \A c \in Cand : rec'[c].kind \in {"seed", "absent"}
    BY DEF Begin, SeedRecord, Blank
  <1>2. \A r \in 1..Rounds : Of("proposal", r)' = {} /\ Of("repair", r)' = {}
    BY <1>1 DEF Of
  <1>3. \A r \in 1..Rounds : ckpt.repairs[r] \in 0..MaxRepairs
    BY DEF ShapeInv, TypeOK, Checkpoint
  <1>4. GraphBound'
    BY <1>1, <1>2, <1>3, Bounds, FS_EmptySet DEF GraphBound
  <1> QED
    BY <1>1, <1>4 DEF GraphInv, OnceInv, HasCheckpoint, SeedStages

LEMMA StartGenerationGraph ==
  ASSUME ShapeInv, GraphInv, OnceInv, StartGeneration
  PROVE  GraphInv' /\ OnceInv' /\ RecordsKept
  <1>1. /\ UNCHANGED <<rec, ckpt, round>> /\ pc' = "generate"
        /\ left' = IF KnownProposals < Proposals
                   THEN Proposals - KnownProposals ELSE 0
        /\ pc = "round" /\ round <= Rounds
    BY DEF StartGeneration, session
  <1>2. round \in 1..Rounds
    BY <1>1, Bounds DEF ShapeInv, StageInv, TypeOK
  <1>3. KnownProposals \in Nat /\ KnownProposals <= Proposals
    BY <1>2, FiniteSubset DEF KnownProposals, Of, GraphInv, GraphBound
  <1>4. KnownProposals + left' <= Proposals
    BY <1>1, <1>3, Bounds
  <1>5. \A k, r : Of(k, r)' = Of(k, r)
    BY <1>1 DEF Of
  <1>6. Of("proposal", round)' = Of("proposal", round)
    BY <1>1 DEF Of
  <1>7. GraphBound'
    BY <1>1, <1>5 DEF GraphInv, GraphBound
  <1> QED
    BY <1>1, <1>4, <1>6, <1>7 DEF GraphInv, OnceInv, SeedStages, KnownProposals, RecordsKept

LEMMA GenerateGraph ==
  ASSUME ShapeInv, GraphInv, OnceInv, GenerateFromParent
  PROVE  GraphInv' /\ OnceInv' /\ RecordsKept
  <1>1. /\ pc = "generate" /\ UNCHANGED <<ckpt, pc, round>>
    BY DEF GenerateFromParent, session
  <1>2. PICK returned \in 0..RequestCount, new \in SUBSET Absent :
          /\ Cardinality(new) <= returned
          /\ \E verdict \in [new -> Verdict] :
               rec' = [c \in Cand |-> IF c \in new
                                     THEN ProposalRecord(round, verdict[c])
                                     ELSE rec[c]]
          /\ left' = left - returned
    BY DEF GenerateFromParent
  <1>3. /\ \A c \in new : rec'[c].kind = "proposal" /\ rec'[c].gen = round
        /\ \A c \in Cand \ new : rec'[c] = rec[c]
    BY <1>2 DEF Absent, ProposalRecord, Blank
  <1>4. round \in 1..Rounds
    BY <1>1 DEF ShapeInv, StageInv, RoundStages
  <1>5. RecordsKept
    BY <1>2, <1>3 DEF RecordsKept, Absent
  <1>6. new \subseteq Cand /\ \A c \in new : rec[c].kind = "absent"
    BY <1>2 DEF Absent, Exists
  <1>7. \A r \in 1..Rounds : Of("repair", r)' = Of("repair", r)
    BY <1>3, <1>6 DEF Of
  <1>8. \A r \in 1..Rounds : r # round => Of("proposal", r)' = Of("proposal", r)
    BY <1>3, <1>6 DEF Of
  <1>9. Of("proposal", round)' = Of("proposal", round) \cup new
    BY <1>1, <1>3, <1>6 DEF Of
  <1>10. Cardinality(Of("proposal", round) \cup new)
           <= Cardinality(Of("proposal", round)) + Cardinality(new)
    <2>1. Of("proposal", round) \in SUBSET Cand /\ new \in SUBSET Cand
          /\ Of("proposal", round) \cap new \in SUBSET Cand
      BY <1>6 DEF Of
    <2>2. /\ IsFiniteSet(Of("proposal", round)) /\ IsFiniteSet(new)
          /\ Cardinality(Of("proposal", round)) \in Nat
          /\ Cardinality(new) \in Nat
          /\ Cardinality(Of("proposal", round) \cap new) \in Nat
      BY <2>1, FiniteSubset
    <2>3. Cardinality(Of("proposal", round) \cup new)
            = Cardinality(Of("proposal", round)) + Cardinality(new)
                - Cardinality(Of("proposal", round) \cap new)
      BY <2>2, FS_Union
    <2> QED
      BY <2>2, <2>3
  <1>11. /\ Cardinality(Of("proposal", round))' \in Nat
         /\ Cardinality(Of("proposal", round)) \in Nat
         /\ Cardinality(new) \in Nat
    <2>1. Of("proposal", round) \in SUBSET Cand /\ new \in SUBSET Cand
          /\ Of("proposal", round)' \in SUBSET Cand
      BY <1>6 DEF Of
    <2> QED
      BY <2>1, FiniteSubset
  <1>12. left \in 0..Proposals /\ RequestCount \in 0..left
    BY RequestBound DEF ShapeInv, TypeOK
  <1>13. returned \in 0..RequestCount /\ left' = left - returned
         /\ Cardinality(new) <= returned
    BY <1>2
  <1>14. Cardinality(Of("proposal", round)) + left <= Proposals
    BY <1>1 DEF GraphInv
  <1>15. Cardinality(Of("proposal", round))' + left' <= Proposals
         /\ Cardinality(Of("proposal", round))' <= Proposals
    <2> DEFINE old == Cardinality(Of("proposal", round))
    <2> DEFINE now == Cardinality(Of("proposal", round))'
    <2>1. now <= old + Cardinality(new)
      BY <1>9, <1>10
    <2>2. /\ old \in Nat /\ now \in Nat /\ Cardinality(new) \in Nat
          /\ old + left <= Proposals
      BY <1>11, <1>14
    <2>3. returned \in Nat /\ left' \in Nat /\ left \in Nat
      BY <1>12, <1>13
    <2> HIDE DEF old, now
    <2>4. now + left' <= Proposals /\ now <= Proposals
      BY <1>13, <2>1, <2>2, <2>3, Bounds
    <2> QED
      BY <2>4 DEF now
  <1>16. Cardinality(Of("proposal", round)') <= Proposals
    <2>1. Of("proposal", round)' = {c \in Cand : rec'[c].kind = "proposal" /\ rec'[c].gen = round'}
      BY DEF Of
    <2> QED
      BY <1>15
  <1>17. GraphBound'
    <2>1. ASSUME NEW r \in 1..Rounds
          PROVE  Cardinality(Of("proposal", r)') <= Proposals
      <3>1. CASE r = round
        <4>1. Of("proposal", r)' = Of("proposal", round)'
          BY <1>1, <3>1 DEF Of
        <4> QED
          BY <1>16, <4>1
      <3>2. CASE r # round
        BY <1>8, <3>2 DEF GraphInv, GraphBound
      <3> QED
        BY <3>1, <3>2
    <2> QED
      BY <1>1, <1>7, <2>1 DEF GraphInv, GraphBound
  <1> QED
    BY <1>1, <1>5, <1>15, <1>17 DEF GraphInv, OnceInv, SeedStages

LEMMA RepairGraph ==
  ASSUME ShapeInv, GraphInv, OnceInv, RepairCandidate
  PROVE  GraphInv' /\ OnceInv' /\ RecordsKept
  <1>1. /\ pc \in RepairLoops /\ UNCHANGED round
        /\ ckpt' = [ckpt EXCEPT !.repairs[round] = @ + 1,
                                !.searchBest = searchBest]
        /\ ckpt.repairs[round] < MaxRepairs
    BY DEF RepairCandidate, RepairLoopActive, RepairBudgetAvailable, session
  <1>2. round \in 1..Rounds
    BY <1>1 DEF ShapeInv, StageInv, RoundStages
  <1>3. /\ ckpt.repairs \in [1..Rounds -> 0..MaxRepairs]
        /\ ckpt'.repairs = [ckpt.repairs EXCEPT ![round] = @ + 1]
    BY <1>1 DEF ShapeInv, TypeOK, Checkpoint
  <1>4. \A r \in 1..Rounds :
          /\ ckpt'.repairs[r] \in Nat /\ ckpt.repairs[r] \in Nat
          /\ ckpt'.repairs[r] <= MaxRepairs
          /\ r # round => ckpt'.repairs[r] = ckpt.repairs[r]
          /\ r = round => ckpt'.repairs[r] = ckpt.repairs[r] + 1
    BY <1>1, <1>2, <1>3, Bounds
  <1>5. \A r \in 1..Rounds :
          /\ Of("repair", r) \in SUBSET Cand
          /\ IsFiniteSet(Of("repair", r)) /\ Cardinality(Of("repair", r)) \in Nat
          /\ Cardinality(Of("repair", r)) <= ckpt.repairs[r]
    <2>1. \A r \in 1..Rounds : Of("repair", r) \in SUBSET Cand
      BY DEF Of
    <2> QED
      BY <2>1, FiniteSubset DEF GraphInv, GraphBound
  <1>6. CASE UNCHANGED <<rec, pc>>
    <2>1. \A r \in 1..Rounds : /\ Of("repair", r)' = Of("repair", r)
                              /\ Of("proposal", r)' = Of("proposal", r)
      BY <1>6 DEF Of
    <2>2. \A r \in 1..Rounds : Cardinality(Of("repair", r)) <= ckpt'.repairs[r]
      <3>1. \A r \in 1..Rounds : ckpt.repairs[r] <= ckpt'.repairs[r]
        BY <1>4
      <3> QED
        BY <1>4, <1>5, <3>1
    <2>3. GraphBound'
      BY <1>4, <2>1, <2>2 DEF GraphInv, GraphBound
    <2> QED
      BY <1>1, <1>6, <2>3 DEF GraphInv, OnceInv, SeedStages, RepairLoops, RecordsKept
  <1>7. ASSUME NEW c \in Absent, NEW v \in Verdict,
               rec' = [rec EXCEPT ![c] = RepairRecord(Head(queue), round, v)],
               \/ pc' = pc
               \/ /\ pc' \in {"model_repaired", "remodel", "remeasure"}
                  /\ todo' = <<c>>
        PROVE  GraphInv' /\ OnceInv' /\ RecordsKept
    <2>1. c \in Cand /\ rec[c].kind = "absent"
      BY DEF Absent, Exists
    <2>2. /\ rec'[c] = RepairRecord(Head(queue), round, v)
          /\ \A d \in Cand \ {c} : rec'[d] = rec[d]
      BY <1>7, <2>1, Update DEF ShapeInv, TypeOK
    <2>3. rec'[c].kind = "repair" /\ rec'[c].gen = round /\ rec'[c].model = "none"
      BY <2>2 DEF RepairRecord, Blank
    <2>4. RecordsKept
      BY <2>1, <2>2 DEF RecordsKept, Exists
    <2>5. \A r \in 1..Rounds : Of("proposal", r)' = Of("proposal", r)
      BY <2>1, <2>2, <2>3 DEF Of
    <2>6. \A r \in 1..Rounds : r # round => Of("repair", r)' = Of("repair", r)
      BY <2>1, <2>2, <2>3 DEF Of
    <2>7. \A r \in 1..Rounds : r = round => Of("repair", r)' = Of("repair", r) \cup {c}
      BY <2>1, <2>2, <2>3 DEF Of
    <2>8. ASSUME NEW r \in 1..Rounds
          PROVE  Cardinality(Of("repair", r) \cup {c}) <= Cardinality(Of("repair", r)) + 1
      <3>1. c \notin Of("repair", r)
        BY <2>1 DEF Of
      <3>2. IsFiniteSet(Of("repair", r)) /\ Cardinality(Of("repair", r)) \in Nat
        BY <1>5
      <3>3. Cardinality(Of("repair", r) \cup {c}) = Cardinality(Of("repair", r)) + 1
        BY <3>1, <3>2, FS_AddElement
      <3> QED
        BY <3>2, <3>3
    <2>9. \A r \in 1..Rounds : Cardinality(Of("repair", r)') <= ckpt'.repairs[r]
      <3>1. ASSUME NEW r \in 1..Rounds, r = round
            PROVE  Cardinality(Of("repair", r)') <= ckpt'.repairs[r]
        <4>1. IsFiniteSet(Of("repair", r) \cup {c})
          BY <1>5, FS_AddElement
        <4>2. Cardinality(Of("repair", r) \cup {c}) \in Nat
          BY <4>1, FS_CardinalityType
        <4>3. /\ Cardinality(Of("repair", r)) \in Nat
              /\ Cardinality(Of("repair", r)) <= ckpt.repairs[r]
              /\ ckpt.repairs[r] \in Nat
              /\ Cardinality(Of("repair", r) \cup {c})
                   <= Cardinality(Of("repair", r)) + 1
          BY <1>4, <1>5, <2>8
        <4>4. Cardinality(Of("repair", r) \cup {c}) <= ckpt.repairs[r] + 1
          BY <4>2, <4>3
        <4> QED
          BY <1>4, <2>7, <3>1, <4>4
      <3>2. ASSUME NEW r \in 1..Rounds, r # round
            PROVE  Cardinality(Of("repair", r)') <= ckpt'.repairs[r]
        BY <1>4, <1>5, <2>6, <3>2
      <3> QED
        BY <3>1, <3>2
    <2>10. GraphBound'
      BY <1>4, <2>5, <2>9 DEF GraphInv, GraphBound
    <2>11. pc' # "generate" /\ pc' \notin SeedStages
      BY <1>1, <1>7 DEF RepairLoops, SeedStages
    <2>12. pc' \in {"model_repaired", "remodel"} => rec'[Head(todo')].model = "none"
      BY <1>1, <1>7, <2>3 DEF RepairLoops
    <2> QED
      BY <2>4, <2>10, <2>11, <2>12 DEF GraphInv, OnceInv
  <1> QED
    BY <1>6, <1>7 DEF RepairCandidate


-----------------------------------------------------------------------------
(* Both promises together.                                                 *)

SearchInv == ShapeInv /\ GraphInv /\ OnceInv

LEMMA InitSearch ==
  ASSUME Init
  PROVE  SearchInv
  <1>1. \A r \in 1..Rounds : Of("proposal", r) = {} /\ Of("repair", r) = {}
    BY DEF Init, Blank, Of
  <1>2. \A r \in 1..Rounds : ckpt.repairs[r] = 0
    BY DEF Init, NoCheckpoint
  <1>3. GraphBound
    BY <1>1, <1>2, Bounds, FS_EmptySet DEF GraphBound
  <1> QED
    BY <1>3, InitShape DEF Init, SearchInv, GraphInv, OnceInv, SeedStages

LEMMA NextSearch ==
  ASSUME SearchInv, [Next]_vars
  PROVE  /\ SearchInv'
         /\ HasCheckpoint => \A c \in Cand : Exists(c) => ResultsKept(c)
  <1> USE DEF SearchInv
  <1>1. ShapeInv'
    BY NextShape
  <1>2. CASE Quiet
    BY <1>1, <1>2, QuietKeeps DEF Quiet
  <1>3. ASSUME RecordsKept
        PROVE  \A c \in Cand : Exists(c) => ResultsKept(c)
    BY <1>3 DEF RecordsKept, ResultsKept
  <1>4. CASE StartGeneration \/ GenerateFromParent \/ RepairCandidate
    BY <1>1, <1>3, <1>4, StartGenerationGraph, GenerateGraph, RepairGraph
  <1>5. CASE Begin
    BY <1>1, <1>5, BeginGraph
  <1>6. CASE \/ ModelSeed \/ MeasureSeed \/ ProfileSeed \/ CircuitBreaker
             \/ ModelCandidate \/ ModelRepaired \/ MeasureCandidate
             \/ RemodelRepaired \/ RemeasureRepaired \/ ProfileMeasured
             \/ MaybeProfileRound \/ FinalizeCandidate
    BY <1>2, <1>6, SeedQuiet, BreakerQuiet, EvaluationQuiet
  <1>7. CASE \/ Restore \/ FinishSeed \/ StopAtRoundStart \/ ResumeRound
             \/ EndSearch \/ EndGeneration \/ FinishGeneration \/ PassOver
             \/ SkipModelCandidates \/ StartModelRepair \/ FinishModeling
             \/ SelectCandidates \/ BeforeMeasurement \/ StartMeasureRepair
             \/ StartProfiling \/ FinishMeasurement \/ UpdateBeam
             \/ FinishRound \/ FreezeSearch \/ FinishFinalization \/ Export
             \/ Deadline \/ Crash \/ Resume \/ Rest \/ UNCHANGED vars
    BY <1>2, <1>7, QuietSteps DEF Rest
  <1> QED
    BY <1>4, <1>5, <1>6, <1>7 DEF Next, Work

LEMMA SearchCorrect == Spec => []SearchInv
  <1>1. SearchInv /\ [Next]_vars => SearchInv'
    BY NextSearch
  <1> QED
    BY <1>1, InitSearch, PTL DEF Spec

(* No round archives more proposals than its budget or more repairs than   *)
(* the persisted counter grants, whatever is crashed and resumed, for any  *)
(* number of rounds, proposals, repairs and sources.                       *)
THEOREM GraphStaysBounded == Spec => []GraphBound
  <1>1. SearchInv => GraphBound
    BY DEF SearchInv, GraphInv
  <1> QED
    BY <1>1, SearchCorrect, PTL

(* A result that is archived is never overwritten by another evaluation of *)
(* the same candidate, across any number of crashes and resumes.           *)
THEOREM NothingIsRepeated == Spec => EvaluatedOnce
  <1>1. SearchInv /\ [Next]_vars =>
          (HasCheckpoint => \A c \in Cand : Exists(c) => ResultsKept(c))
    BY NextSearch
  <1>2. Spec => [][HasCheckpoint => \A c \in Cand : Exists(c) => ResultsKept(c)]_vars
    BY <1>1, SearchCorrect, PTL DEF Spec
  <1> QED
    BY <1>2 DEF EvaluatedOnce

-----------------------------------------------------------------------------
(***************************************************************************)
(* What a stopped or crashed search finds when it is resumed: every        *)
(* checkpoint can be loaded, every beam is one of distinct correct         *)
(* candidates, every compiled identity has one owner, and nothing reaches  *)
(* the hardware or the export that the earlier stages did not let through. *)
(***************************************************************************)

(* The inductive invariant, first part: where the process stands and where *)
(* its last checkpoint was taken belong together, and the lists that only  *)
(* one stage uses are empty in the others.                                 *)

ActivePhases == {"", "generated", "modeled", "selected", "measured", "beam_updated"}
Measuring    == {"measure", "measure_repair", "remodel", "remeasure", "profile_all"}
At(phases)   == ckpt.active = round /\ ckpt.phase \in phases

ControlInv ==
  /\ HasCheckpoint => (ckpt.active # None <=> ckpt.phase \in ActivePhases)
  /\ HasCheckpoint /\ ckpt.active # None => ckpt.completed + 1 = ckpt.active
  /\ Running => HasCheckpoint
  /\ pc \in {"round"} \cup RoundStages => round = ckpt.completed + 1
  /\ pc \in {"generate", "static_repair"} => Phase = ""
  /\ pc \in {"model", "model_repair", "model_repaired"} => At({"generated"})
  /\ pc = "select" => At({"modeled"})
  /\ pc = "before_measure" => At({"selected", "measured", "beam_updated"})
  /\ pc \in Measuring => At({"selected"})
  /\ pc = "update_beam" => At({"measured"})
  /\ pc \in {"profile_round", "finish_round"} => At({"beam_updated"})
  /\ pc \in Closing /\ ckpt.active # None => expired \/ reason = "time-budget"

EmptyInv ==
  /\ pc \notin RepairLoops \cup {"model_repaired", "remodel", "remeasure"} => queue = <<>>
  /\ pc = "model_repair" /\ Policy # "tilesight" => queue = <<>>
  /\ pc \in {"model_repaired", "remodel"} => Policy = "tilesight"
  /\ pc \notin Measuring \cup {"model_repair", "model_repaired"} => repaired = <<>>
  /\ pc \notin Measuring \cup {"update_beam", "profile_round", "finish_round"} => measured = {}

FlowInv == ControlInv /\ EmptyInv

LEMMA SavedFields ==
  ASSUME NEW ph, NEW completed, NEW active, NEW ids, NEW sel, NEW best, NEW b
  PROVE  LET s == Saved(ph, completed, active, ids, sel, best, b) IN
         /\ s.phase = ph /\ s.completed = completed /\ s.active = active
         /\ s.ids = ids /\ s.sel = sel /\ s.best = best /\ s.beam = b
         /\ s.searchBest = searchBest
  BY DEF Saved

LEMMA InRoundNumber ==
  ASSUME ShapeInv, ControlInv, pc \in RoundStages \/ (pc = "round" /\ round <= Rounds)
  PROVE  /\ round \in 1..Rounds /\ round # None /\ round - 1 = ckpt.completed
         /\ round - 1 + 1 = round /\ round - 1 \in 0..Rounds
         /\ HasCheckpoint /\ Running
  <1>1. round \in 1..Rounds /\ ckpt.completed \in 0..Rounds
    BY Bounds DEF ShapeInv, StageInv, TypeOK, Checkpoint
  <1>2. round = ckpt.completed + 1
    BY DEF ControlInv
  <1>3. HasCheckpoint /\ Running
    BY DEF ControlInv, Running
  <1>4. /\ round # None /\ round - 1 = ckpt.completed
        /\ round - 1 + 1 = round /\ round - 1 \in 0..Rounds
    BY <1>1, <1>2, Bounds DEF None
  <1> QED
    BY <1>1, <1>3, <1>4

LEMMA EndedFlow ==
  ASSUME ShapeInv, FlowInv, UNCHANGED ckpt, pc' \in {"ready"} \cup Ended,
         queue' = <<>>, repaired' = <<>>, measured' = {}
  PROVE  FlowInv'
  BY DEF FlowInv, ControlInv, EmptyInv, HasCheckpoint, Running, RoundStages,
         RepairLoops, Closing, Ended, Measuring, SeedStages

LEMMA StopFlow ==
  ASSUME ShapeInv, FlowInv, pc \in RoundStages \/ (pc = "round" /\ round <= Rounds),
         NEW ph \in ActivePhases, NEW ids, NEW sel, NEW best, NEW b,
         StopForTime(ph, ids, sel, best, b)
  PROVE  FlowInv'
  <1>1. /\ ckpt'.phase = ph /\ ckpt'.completed = round - 1 /\ ckpt'.active = round
        /\ pc' = "freeze" /\ reason' = "time-budget"
        /\ queue' = <<>> /\ repaired' = <<>> /\ measured' = {}
    BY SavedFields DEF StopForTime
  <1> QED
    BY <1>1, InRoundNumber
       DEF FlowInv, ControlInv, EmptyInv, HasCheckpoint, Running, RoundStages,
           RepairLoops, Closing, Measuring, ActivePhases

LEMMA StartFlow ==
  ASSUME ShapeInv, FlowInv,
         Begin \/ Restore \/ ModelSeed \/ MeasureSeed \/ ProfileSeed \/ FinishSeed
  PROVE  FlowInv'
  <1> USE DEF HasCheckpoint, Running, RoundStages, RepairLoops, Closing, Ended,
              Measuring, SeedStages, session, stage, memory
  <1>1. CASE Begin
    BY <1>1 DEF Begin, FlowInv, ControlInv, EmptyInv
  <1>2. CASE Restore
    <2>1. /\ pc' = "round" /\ UNCHANGED <<ckpt, queue, repaired, measured>>
          /\ round' = IF ckpt.active # None THEN ckpt.active ELSE ckpt.completed + 1
          /\ ckpt.phase # "absent" /\ pc = "ready"
      BY <1>2 DEF Restore
    <2>2. round' = ckpt.completed + 1
      BY <2>1 DEF FlowInv, ControlInv
    <2> QED
      BY <2>1, <2>2 DEF FlowInv, ControlInv, EmptyInv
  <1>3. CASE ModelSeed \/ MeasureSeed \/ ProfileSeed
    <2>1. /\ UNCHANGED ckpt /\ pc \in SeedStages
          /\ \/ pc' \in SeedStages /\ UNCHANGED <<queue, repaired, measured>>
             \/ pc' = "failed" /\ queue' = <<>> /\ repaired' = <<>> /\ measured' = {}
      BY <1>3 DEF ModelSeed, MeasureSeed, ProfileSeed, Raise, Forget
    <2> QED
      BY <2>1 DEF FlowInv, ControlInv, EmptyInv
  <1>4. CASE FinishSeed
    <2>1. /\ ckpt'.phase = "seed_completed" /\ ckpt'.completed = 0 /\ ckpt'.active = None
          /\ round' = 1 /\ pc' = "round" /\ pc = "seed_done"
          /\ UNCHANGED <<queue, repaired, measured>>
      BY <1>4, SavedFields DEF FinishSeed
    <2>2. measured = {} /\ queue = <<>> /\ repaired = <<>>
      BY <2>1 DEF FlowInv, EmptyInv
    <2>3. EmptyInv'
      BY <2>1, <2>2 DEF EmptyInv
    <2>4. ControlInv'
      BY <2>1 DEF ControlInv, ActivePhases
    <2> QED
      BY <2>3, <2>4 DEF FlowInv
  <1> QED
    BY <1>1, <1>2, <1>3, <1>4

LEMMA GenerationFlow ==
  ASSUME ShapeInv, FlowInv,
         \/ StopAtRoundStart \/ StartGeneration \/ ResumeRound \/ EndSearch
         \/ GenerateFromParent \/ EndGeneration \/ FinishGeneration
  PROVE  FlowInv'
  <1> USE DEF HasCheckpoint, Running, RoundStages, RepairLoops, Closing, Ended,
              Measuring, SeedStages, session, stage, memory
  <1>1. CASE StopAtRoundStart
    BY <1>1, StopFlow DEF StopAtRoundStart, ActivePhases
  <1>2. CASE StartGeneration
    BY <1>2 DEF StartGeneration, FlowInv, ControlInv, EmptyInv, Phase
  <1>3. CASE ResumeRound
    <2>1. /\ pc = "round" /\ UNCHANGED <<ckpt, round, queue, repaired, measured>>
          /\ ckpt.active = round /\ Phase = ckpt.phase /\ Phase # "" /\ round <= Rounds
          /\ pc' = CASE Phase = "generated" -> "model"
                     [] Phase = "modeled"   -> "select"
                     [] OTHER               -> "before_measure"
      BY <1>3 DEF ResumeRound, Phase
    <2>2. ckpt.phase \in ActivePhases \ {""}
      BY <2>1, InRoundNumber DEF FlowInv, ControlInv
    <2> QED
      BY <2>1, <2>2 DEF FlowInv, ControlInv, EmptyInv, At, ActivePhases
  <1>4. CASE EndSearch
    <2>1. /\ pc = "round" /\ round > Rounds /\ pc' = "freeze"
          /\ UNCHANGED <<ckpt, queue, repaired, measured>>
      BY <1>4 DEF EndSearch
    <2>2. round = ckpt.completed + 1 /\ ckpt.active \in 0..Rounds /\ HasCheckpoint
      BY <2>1 DEF FlowInv, ControlInv, ShapeInv, TypeOK, Checkpoint
    <2>3. ckpt.active = None
      BY <2>1, <2>2, Bounds DEF FlowInv, ControlInv, None
    <2> QED
      BY <2>1, <2>3 DEF FlowInv, ControlInv, EmptyInv
  <1>5. CASE GenerateFromParent \/ EndGeneration
    BY <1>5 DEF GenerateFromParent, EndGeneration, FlowInv, ControlInv, EmptyInv, Phase
  <1>6. CASE FinishGeneration
    <2>1. Phase = "" /\ pc = "static_repair" /\ pc \in RoundStages
      BY <1>6 DEF FinishGeneration, FlowInv, ControlInv
    <2>2. ASSUME NEW ids, StopForTime(Phase, ids, <<>>, None, beam)
          PROVE  FlowInv'
      <3>1. Phase \in ActivePhases
        BY <2>1 DEF ActivePhases
      <3> QED
        BY <2>1, <2>2, <3>1, StopFlow
    <2>3. ASSUME NEW ids, pc' = "model", queue' = <<>>,
                 ckpt' = Saved("generated", round - 1, round, ids, <<>>, None, beam),
                 UNCHANGED <<round, repaired, measured>>
          PROVE  FlowInv'
      <3>1. ckpt'.phase = "generated" /\ ckpt'.completed = round - 1 /\ ckpt'.active = round
        BY <2>3, SavedFields
      <3> QED
        <4>1. /\ round # None /\ round - 1 + 1 = round
          BY <2>1, InRoundNumber DEF FlowInv
        <4>2. ControlInv'
          BY <2>3, <3>1, <4>1 DEF ControlInv, At, ActivePhases
        <4>3. EmptyInv'
          BY <2>1, <2>3 DEF FlowInv, EmptyInv
        <4> QED
          BY <4>2, <4>3 DEF FlowInv
    <2>4. ASSUME pc' = "round", queue' = <<>>, round' = round + 1,
                 ckpt' = Saved("round_completed", round, None, <<>>, <<>>, None, beam),
                 UNCHANGED <<repaired, measured>>
          PROVE  FlowInv' \/ measured # {}
      <3>1. ckpt'.phase = "round_completed" /\ ckpt'.completed = round /\ ckpt'.active = None
        BY <2>4, SavedFields
      <3> QED
        BY <2>1, <2>4, <3>1 DEF FlowInv, ControlInv, EmptyInv, ActivePhases
    <2>5. ASSUME pc' = "freeze", queue' = <<>>,
                 ckpt' = Saved("search_stopped", round - 1, None, <<>>, <<>>, None, beam),
                 UNCHANGED <<repaired, measured>>
          PROVE  FlowInv' \/ measured # {}
      <3>1. ckpt'.phase = "search_stopped" /\ ckpt'.completed = round - 1 /\ ckpt'.active = None
        BY <2>5, SavedFields
      <3> QED
        BY <2>1, <2>5, <3>1 DEF FlowInv, ControlInv, EmptyInv, ActivePhases
    <2>6. measured = {}
      BY <2>1 DEF FlowInv, EmptyInv
    <2> QED
      BY <1>6, <2>2, <2>3, <2>4, <2>5, <2>6 DEF FinishGeneration
  <1> QED
    BY <1>1, <1>2, <1>3, <1>4, <1>5, <1>6

LEMMA ModelingFlow ==
  ASSUME ShapeInv, FlowInv,
         \/ PassOver \/ RepairCandidate \/ ModelCandidate \/ SkipModelCandidates
         \/ StartModelRepair \/ ModelRepaired \/ FinishModeling
         \/ SelectCandidates \/ BeforeMeasurement
  PROVE  FlowInv'
  <1> USE DEF HasCheckpoint, Running, RoundStages, RepairLoops, Closing, Ended,
              Measuring, SeedStages, session, stage, memory
  <1>1. CASE PassOver
    <2>1. /\ UNCHANGED <<ckpt, pc, round, repaired, measured>> /\ pc \in RepairLoops
          /\ queue # <<>>
      BY <1>1 DEF PassOver, RepairLoopActive
    <2>2. ControlInv'
      BY <2>1 DEF FlowInv, ControlInv, At, Phase
    <2>3. EmptyInv'
      BY <2>1 DEF FlowInv, EmptyInv
    <2> QED
      BY <2>2, <2>3 DEF FlowInv
  <1>2. CASE RepairCandidate
    <2>1. /\ pc \in RepairLoops /\ queue # <<>> /\ UNCHANGED <<round, measured>>
          /\ ckpt' = [ckpt EXCEPT !.repairs[round] = @ + 1, !.searchBest = searchBest]
          /\ \/ UNCHANGED <<pc, todo, repaired>>
             \/ /\ pc # "static_repair"
                /\ pc' = IF pc = "model_repair" THEN "model_repaired"
                         ELSE IF Policy = "tilesight" THEN "remodel"
                         ELSE "remeasure"
      BY <1>2 DEF RepairCandidate, RepairLoopActive
    <2>2. /\ ckpt'.phase = ckpt.phase /\ ckpt'.completed = ckpt.completed
          /\ ckpt'.active = ckpt.active
      BY <2>1 DEF ShapeInv, TypeOK, Checkpoint
    <2>3. ControlInv'
      BY <2>1, <2>2 DEF FlowInv, ControlInv, At, Phase
    <2>4. EmptyInv'
      BY <2>1 DEF FlowInv, EmptyInv
    <2> QED
      BY <2>3, <2>4 DEF FlowInv
  <1>3. CASE ModelCandidate \/ SkipModelCandidates \/ StartModelRepair \/ ModelRepaired
    <2>1. /\ UNCHANGED <<ckpt, round, measured>>
          /\ \/ pc = "model" /\ pc' = pc /\ UNCHANGED <<queue, repaired>>
             \/ /\ pc = "model" /\ pc' = "model_repair" /\ UNCHANGED repaired
                /\ Policy # "tilesight" => UNCHANGED queue
             \/ pc = "model_repaired" /\ pc' = "model_repair"
      BY <1>3 DEF ModelCandidate, SkipModelCandidates, StartModelRepair, ModelRepaired
    <2>2. ControlInv'
      BY <2>1 DEF FlowInv, ControlInv, At, Phase
    <2>3. EmptyInv'
      BY <2>1 DEF FlowInv, EmptyInv
    <2> QED
      BY <2>2, <2>3 DEF FlowInv
  <1>4. CASE FinishModeling
    <2>1. pc = "model_repair" /\ pc \in RoundStages /\ ckpt.active = round
          /\ ckpt.phase = "generated" /\ Phase = "generated" /\ measured = {}
      BY <1>4 DEF FinishModeling, FlowInv, ControlInv, EmptyInv, At, Phase
    <2>2. ASSUME NEW ids, StopForTime(Phase, ids, <<>>, None, beam)
          PROVE  FlowInv'
      BY <2>1, <2>2, StopFlow DEF ActivePhases
    <2>3. ASSUME NEW ids, pc' = "select", queue' = <<>>, repaired' = <<>>,
                 ckpt' = Saved("modeled", round - 1, round, ids, <<>>, None, beam),
                 UNCHANGED <<round, measured>>
          PROVE  FlowInv'
      <3>1. ckpt'.phase = "modeled" /\ ckpt'.completed = round - 1 /\ ckpt'.active = round
        BY <2>3, SavedFields
      <3>2. round # None /\ round - 1 + 1 = round
        BY <2>1, InRoundNumber DEF FlowInv
      <3>3. ControlInv'
        BY <2>3, <3>1, <3>2 DEF ControlInv, At, ActivePhases
      <3>4. EmptyInv'
        BY <2>1, <2>3 DEF EmptyInv
      <3> QED
        BY <3>3, <3>4 DEF FlowInv
    <2> QED
      BY <1>4, <2>2, <2>3 DEF FinishModeling
  <1>5. CASE SelectCandidates
    <2>1. /\ pc = "select" /\ pc \in RoundStages /\ pc' = "before_measure"
          /\ UNCHANGED <<round, queue, repaired, measured>>
      BY <1>5 DEF SelectCandidates
    <2>2. ckpt'.phase = "selected" /\ ckpt'.completed = round - 1 /\ ckpt'.active = round
      BY <1>5, SavedFields DEF SelectCandidates
    <2>3. round # None /\ round - 1 + 1 = round
      BY <2>1, InRoundNumber DEF FlowInv
    <2>4. ControlInv'
      BY <2>1, <2>2, <2>3 DEF ControlInv, At, ActivePhases
    <2>5. EmptyInv'
      BY <2>1 DEF FlowInv, EmptyInv
    <2> QED
      BY <2>4, <2>5 DEF FlowInv
  <1>6. CASE BeforeMeasurement
    <2>1. pc = "before_measure" /\ pc \in RoundStages /\ ckpt.active = round
          /\ Phase \in {"selected", "measured", "beam_updated"} /\ Phase = ckpt.phase
      BY <1>6 DEF BeforeMeasurement, FlowInv, ControlInv, At, Phase
    <2>2. ASSUME StopForTime(Phase, ckpt.ids, ckpt.sel, ckpt.best, beam)
          PROVE  FlowInv'
      BY <2>1, <2>2, StopFlow DEF ActivePhases
    <2>3. ASSUME pc' = CASE Phase = "selected" -> "measure"
                         [] Phase = "measured" -> "update_beam"
                         [] OTHER              -> "profile_round",
                 UNCHANGED <<ckpt, round, queue, repaired>>
          PROVE  FlowInv'
      <3>1. \/ Phase = "selected" /\ pc' = "measure"
            \/ Phase = "measured" /\ pc' = "update_beam"
            \/ Phase = "beam_updated" /\ pc' = "profile_round"
        BY <2>1, <2>3
      <3>2. ControlInv'
        BY <2>1, <2>3, <3>1 DEF FlowInv, ControlInv, At
      <3>3. EmptyInv'
        BY <2>1, <2>3, <3>1 DEF FlowInv, EmptyInv
      <3> QED
        BY <3>2, <3>3 DEF FlowInv
    <2> QED
      BY <1>6, <2>2, <2>3 DEF BeforeMeasurement
  <1> QED
    BY <1>1, <1>2, <1>3, <1>4, <1>5, <1>6

LEMMA MeasuringFlow ==
  ASSUME ShapeInv, FlowInv,
         \/ MeasureCandidate \/ StartMeasureRepair \/ RemodelRepaired
         \/ RemeasureRepaired \/ StartProfiling \/ ProfileMeasured
         \/ FinishMeasurement \/ UpdateBeam \/ MaybeProfileRound \/ FinishRound
  PROVE  FlowInv'
  <1> USE DEF HasCheckpoint, Running, RoundStages, RepairLoops, Closing, Ended,
              Measuring, SeedStages, session, stage, memory
  <1>1. CASE \/ MeasureCandidate \/ StartMeasureRepair \/ RemodelRepaired
             \/ RemeasureRepaired \/ StartProfiling \/ ProfileMeasured
    <2>1. /\ UNCHANGED <<ckpt, round>> /\ pc \in Measuring /\ pc' \in Measuring
          /\ pc' = "remodel" => pc = "remodel"
          /\ pc' \in {"measure", "profile_all"} => (queue' = <<>> \/ (pc' = pc /\ queue' = queue))
      BY <1>1 DEF MeasureCandidate, StartMeasureRepair, RemodelRepaired,
                  RemeasureRepaired, StartProfiling, ProfileMeasured
    <2>2. ControlInv'
      BY <2>1 DEF FlowInv, ControlInv, At
    <2>3. EmptyInv'
      BY <2>1 DEF FlowInv, EmptyInv
    <2> QED
      BY <2>2, <2>3 DEF FlowInv
  <1>2. CASE FinishMeasurement
    <2>1. pc = "profile_all" /\ pc \in RoundStages /\ ckpt.active = round
          /\ Phase = "selected" /\ queue = <<>>
      BY <1>2 DEF FinishMeasurement, FlowInv, ControlInv, EmptyInv, At, Phase
    <2>2. ASSUME NEW ids, NEW sel, NEW b, StopForTime(Phase, ids, sel, ckpt.best, b)
          PROVE  FlowInv'
      BY <2>1, <2>2, StopFlow DEF ActivePhases
    <2>3. ASSUME NEW ids, NEW sel, pc' = "update_beam", repaired' = <<>>,
                 ckpt' = Saved("measured", round - 1, round, ids, sel, ckpt.best, beam),
                 UNCHANGED <<round, queue>>
          PROVE  FlowInv'
      <3>1. ckpt'.phase = "measured" /\ ckpt'.completed = round - 1 /\ ckpt'.active = round
        BY <2>3, SavedFields
      <3>2. round # None /\ round - 1 + 1 = round
        BY <2>1, InRoundNumber DEF FlowInv
      <3>3. ControlInv'
        BY <2>3, <3>1, <3>2 DEF ControlInv, At, ActivePhases
      <3>4. EmptyInv'
        BY <2>1, <2>3 DEF EmptyInv
      <3> QED
        BY <3>3, <3>4 DEF FlowInv
    <2> QED
      BY <1>2, <2>2, <2>3 DEF FinishMeasurement
  <1>3. CASE UpdateBeam
    <2>1. /\ pc = "update_beam" /\ pc \in RoundStages /\ pc' = "profile_round"
          /\ UNCHANGED <<round, queue, repaired>>
      BY <1>3 DEF UpdateBeam
    <2>2. ckpt'.phase = "beam_updated" /\ ckpt'.completed = round - 1 /\ ckpt'.active = round
      BY <1>3, SavedFields DEF UpdateBeam
    <2>3. round # None /\ round - 1 + 1 = round
      BY <2>1, InRoundNumber DEF FlowInv
    <2>4. ControlInv'
      BY <2>1, <2>2, <2>3 DEF ControlInv, At, ActivePhases
    <2>5. EmptyInv'
      BY <2>1 DEF FlowInv, EmptyInv
    <2> QED
      BY <2>4, <2>5 DEF FlowInv
  <1>4. CASE MaybeProfileRound \/ FinishRound
    <2>1. pc \in {"profile_round", "finish_round"} /\ pc \in RoundStages
          /\ ckpt.active = round /\ Phase = "beam_updated"
          /\ queue = <<>> /\ repaired = <<>>
      BY <1>4 DEF MaybeProfileRound, FinishRound, FlowInv, ControlInv, EmptyInv, At, Phase
    <2>2. ASSUME StopForTime(Phase, ckpt.ids, ckpt.sel, ckpt.best, beam)
          PROVE  FlowInv'
      BY <2>1, <2>2, StopFlow DEF ActivePhases
    <2>3. ASSUME pc' = "finish_round", UNCHANGED <<ckpt, round, queue, repaired>>
          PROVE  FlowInv'
      BY <2>1, <2>3 DEF FlowInv, ControlInv, EmptyInv, At
    <2>4. ASSUME pc' = "round", round' = round + 1, measured' = {},
                 ckpt' = Saved("round_completed", round, None, ckpt.ids, ckpt.sel,
                               ckpt.best, beam),
                 UNCHANGED <<queue, repaired>>
          PROVE  FlowInv'
      <3>1. ckpt'.phase = "round_completed" /\ ckpt'.completed = round /\ ckpt'.active = None
        BY <2>4, SavedFields
      <3>2. ControlInv'
        BY <2>4, <3>1 DEF ControlInv, ActivePhases
      <3>3. EmptyInv'
        BY <2>1, <2>4 DEF EmptyInv
      <3> QED
        BY <3>2, <3>3 DEF FlowInv
    <2> QED
      BY <1>4, <2>2, <2>3, <2>4 DEF MaybeProfileRound, FinishRound
  <1> QED
    BY <1>1, <1>2, <1>3, <1>4

LEMMA ClosingFlow ==
  ASSUME ShapeInv, FlowInv,
         \/ FreezeSearch \/ FinalizeCandidate \/ FinishFinalization \/ Export
         \/ CircuitBreaker \/ Deadline \/ Crash \/ Resume \/ UNCHANGED vars
  PROVE  FlowInv'
  <1> USE DEF HasCheckpoint, Running, RoundStages, RepairLoops, Closing, Ended,
              Measuring, SeedStages, session, stage, memory
  <1>1. ASSUME Raise, UNCHANGED ckpt
        PROVE  FlowInv'
    BY <1>1, EndedFlow DEF Raise, Forget
  <1>2. CASE CircuitBreaker \/ Crash
    BY <1>1, <1>2 DEF CircuitBreaker, Crash
  <1>3. CASE FreezeSearch \/ FinalizeCandidate
    <2>1. \/ Raise /\ UNCHANGED ckpt
          \/ /\ pc \in Closing /\ pc' \in Closing
             /\ UNCHANGED <<ckpt, queue, repaired, measured, reason, expired>>
      BY <1>3 DEF FreezeSearch, FinalizeCandidate, outside
    <2>2. ASSUME pc \in Closing, pc' \in Closing,
                 UNCHANGED <<ckpt, queue, repaired, measured, reason, expired>>
          PROVE  FlowInv'
      BY <2>2 DEF FlowInv, ControlInv, EmptyInv
    <2> QED
      BY <1>1, <2>1, <2>2
  <1>4. CASE FinishFinalization
    <2>1. ASSUME pc' = "export", UNCHANGED stage,
                 ckpt' = Saved("finalized", ckpt.completed, None, <<>>, <<>>, None, beam')
          PROVE  FlowInv'
      <3>1. ckpt'.phase = "finalized" /\ ckpt'.active = None
        BY <2>1, SavedFields
      <3>2. pc = "finalize"
        BY <1>4 DEF FinishFinalization
      <3> QED
        BY <2>1, <3>1, <3>2 DEF FlowInv, ControlInv, EmptyInv, ActivePhases
    <2> QED
      BY <1>1, <1>4, <2>1 DEF FinishFinalization
  <1>5. CASE Export
    <2>1. /\ pc = "export" /\ pc' \in Ended
          /\ queue' = <<>> /\ repaired' = <<>> /\ measured' = {}
      BY <1>5 DEF Export, Forget
    <2>2. \/ /\ ckpt'.phase = ckpt.phase /\ ckpt'.active = ckpt.active
             /\ ckpt'.completed = ckpt.completed
          \/ ckpt'.phase = "run_completed" /\ ckpt'.active = None
      BY <1>5, SavedFields DEF Export, ShapeInv, TypeOK, Checkpoint
    <2> QED
      BY <2>1, <2>2 DEF FlowInv, ControlInv, EmptyInv, ActivePhases
  <1>6. CASE Deadline
    <2>1. UNCHANGED <<ckpt, pc, round, queue, repaired, measured>> /\ expired'
      BY <1>6 DEF Deadline
    <2> QED
      BY <2>1 DEF FlowInv, ControlInv, EmptyInv, At, Phase
  <1>7. CASE Resume
    <2>1. UNCHANGED <<ckpt, queue, repaired, measured>> /\ pc' = "ready" /\ pc \in Ended
      BY <1>7 DEF Resume
    <2> QED
      BY <2>1 DEF FlowInv, ControlInv, EmptyInv
  <1>8. CASE UNCHANGED vars
    BY <1>8 DEF vars, outside, FlowInv, ControlInv, EmptyInv, At, Phase
  <1> QED
    BY <1>2, <1>3, <1>4, <1>5, <1>6, <1>7, <1>8

LEMMA NextFlow ==
  ASSUME ShapeInv, FlowInv, [Next]_vars
  PROVE  FlowInv'
  BY StartFlow, GenerationFlow, ModelingFlow, MeasuringFlow, ClosingFlow
     DEF Next, Work, Rest

-----------------------------------------------------------------------------
(* Second part: what the records, the lists and the checkpoint hold.       *)

(* The sets of candidates that lists are made of.                          *)
Archived   == {c \in Cand : Exists(c)}
InRound(r) == {c \in Cand : Exists(c) /\ rec[c].gen = r /\ r # None}
Correct    == {c \in Cand : MeasuredCorrect(c)}
MayMeasure ==
  {c \in Cand : /\ Exists(c)
                /\ FitForHardware(c) \/ (TimeLimited /\ rec[c].kind = "repair")}

(* The round the candidates named by the checkpoint belong to.             *)
CkptRound == IF ckpt.active # None THEN ckpt.active ELSE ckpt.completed

Untouched(c) ==
  /\ rec[c].model = "none" /\ rec[c].equiv = None /\ rec[c].meas = None
  /\ rec[c].profile = "none" /\ rec[c].final = None
ArchiveInv == \A c \in Cand : ~Exists(c) => Untouched(c)

(* Before the first checkpoint there is the seed and nothing else; between *)
(* two processes nothing is held in memory.                                *)
SeedInv ==
  /\ ~HasCheckpoint => ckpt = NoCheckpoint /\ exported = None
  /\ HasCheckpoint => MeasuredCorrect(Seed)
  /\ pc \in {"ready"} \cup SeedStages \cup Ended =>
       searchBest = None /\ beam = <<>> /\ todo = <<>>
  /\ pc \in {"ready"} \cup Ended => owners = NoOwners
  /\ pc \in SeedStages =>
       /\ \A c \in Cand \ {Seed} : ~Exists(c)
       /\ Exists(Seed) /\ rec[Seed].final = None
  /\ pc = "seed_model" =>
       Policy = "tilesight" /\ Untouched(Seed) /\ owners = NoOwners
  /\ pc = "seed_measure" => rec[Seed].meas = None
  /\ pc \in SeedStages \ {"seed_model"} => FitForHardware(Seed)
  /\ pc \in {"seed_profile", "seed_done"} => MeasuredCorrect(Seed)

ListsInv ==
  /\ todo \in Seq(Archived) /\ queue \in Seq(Archived)
  /\ repaired \in Seq(Of("repair", round))
  /\ pc \in {"model_repaired", "remodel", "remeasure"} => Head(todo) \in Of("repair", round)
  /\ measured \subseteq Correct
  /\ searchBest \in Archived \cup {None}
  /\ ckpt.ids \in Seq(InRound(CkptRound)) /\ ckpt.sel \in Seq(InRound(CkptRound))
  /\ ckpt.best \in Archived \cup {None} /\ ckpt.searchBest \in Archived \cup {None}

Beam(b) == b \in Seq(Correct) /\ b # <<>> /\ Len(b) <= BeamWidth /\ IsInjective(b)
BeamInv ==
  /\ HasCheckpoint => Beam(ckpt.beam)
  /\ Running => Beam(beam)

HardwareInv ==
  /\ HardwareAfterModel
  /\ Policy # "tilesight" => \A c \in Cand : rec[c].model = "none" /\ rec[c].equiv = None
  /\ ckpt.phase = "selected" => ckpt.sel \in Seq(MayMeasure)
  /\ pc = "measure" => todo \in Seq(MayMeasure)
  /\ pc = "remeasure" => expired \/ Head(todo) \in MayMeasure
  /\ expired => TimeLimited

(* Who owns an identity, in the archive and in memory.                     *)
Owns(o, h) == rec[o].model = h /\ rec[o].equiv = None
OwnerInv ==
  /\ \A c \in Cand : rec[c].equiv # None =>
       Dedup /\ rec[c].model \in Hash /\ Owns(rec[c].equiv, rec[c].model)
  /\ Dedup => \A c, d \in Cand :
       c # d /\ rec[c].model \in Hash /\ rec[c].model = rec[d].model
         => rec[c].equiv # None \/ rec[d].equiv # None
  /\ Dedup /\ pc \notin {"ready"} \cup Ended =>
       /\ \A c \in Cand : rec[c].model \in Hash => owners[rec[c].model] = OwnerOf(c)
       /\ \A h \in Hash : owners[h] # None => Owns(owners[h], h)

FinalPassed(c) ==
  /\ rec[c].final > 0 /\ rec[Seed].final > 0 /\ rec[c].final <= rec[Seed].final
FinalInv ==
  /\ exported # None /\ FinalCount > 0 => FinalPassed(exported)
  /\ pc = "export" /\ FinalCount > 0 => FinalPassed(Head(beam))

ResumeInv ==
  /\ SearchInv /\ FlowInv /\ ArchiveInv /\ SeedInv /\ ListsInv /\ BeamInv
  /\ HardwareInv /\ OwnerInv /\ FinalInv

-----------------------------------------------------------------------------
(* What a step does to the records: it leaves them alone, evaluates one    *)
(* that may be evaluated, or creates some that nobody has evaluated.       *)

Assessed ==
  \/ UNCHANGED rec
  \/ \E c \in Archived :
       /\ OnlyModelOf(c) /\ rec[c].model = "none" /\ Policy = "tilesight"
       /\ ModelSucceeds(c) \/ \E why : ModelFails(c, why)
  \/ \E c \in MayMeasure : OnlyMeasOf(c)
  \/ \E c \in Archived : OnlyProfileOf(c) \/ OnlyFinalOf(c)

Created ==
  \A c \in Cand :
    /\ rec'[c].model = rec[c].model /\ rec'[c].equiv = rec[c].equiv
    /\ rec'[c].meas = rec[c].meas /\ rec'[c].profile = rec[c].profile
    /\ rec'[c].final = rec[c].final
    /\ Exists(c) => rec'[c].kind = rec[c].kind /\ rec'[c].gen = rec[c].gen

LEMMA SequenceFacts ==
  ASSUME NEW S, NEW s \in Seq(S)
  PROVE  /\ s # <<>> => Head(s) \in S /\ Tail(s) \in Seq(S)
         /\ \A T : S \subseteq T => s \in Seq(T)
         /\ \A x \in S : Append(s, x) \in Seq(S) /\ <<x>> \in Seq(S)
         /\ <<>> \in Seq(S)
  OBVIOUS

LEMMA RecordFacts ==
  ASSUME ResumeInv
  PROVE  /\ rec \in [Cand -> Record]
         /\ todo # <<>> => Head(todo) \in Archived
         /\ pc \in SeedStages => Seed \in Archived
         /\ Archived \subseteq Cand /\ Correct \subseteq Archived
         /\ MayMeasure \subseteq Archived
  <1>1. \A c \in Cand : MeasuredCorrect(c) => Exists(c)
    BY DEF ResumeInv, ArchiveInv, Untouched, MeasuredCorrect, None
  <1>2. todo \in Seq(Archived) /\ (todo # <<>> => Head(todo) \in Archived)
    BY SequenceFacts DEF ResumeInv, ListsInv
  <1> QED
    BY <1>1, <1>2, Bounds
       DEF ResumeInv, SearchInv, ShapeInv, TypeOK, SeedInv, Archived, Correct, MayMeasure

LEMMA MeasurementFrame ==
  ASSUME rec \in [Cand -> Record], NEW c \in Cand, EvaluateMeasurement(c)
  PROVE  /\ UNCHANGED rec \/ OnlyMeasOf(c)
         /\ \/ UNCHANGED measured
            \/ measured' = measured \cup {c} /\ rec'[c].meas > 0
  <1>1. ASSUME NEW m, MeasureSucceeds(c, m), m \in Nat \ {0}
        PROVE  /\ OnlyMeasOf(c)
               /\ measured' = measured \cup {c} /\ rec'[c].meas > 0
    <2>1. OnlyMeasOf(c) /\ rec'[c].meas = m
      BY <1>1, MeasFrame
    <2> QED
      BY <1>1, <2>1 DEF MeasureSucceeds
  <1>2. ASSUME NEW why, MeasureFails(c, why)
        PROVE  OnlyMeasOf(c)
    BY <1>2, MeasFrame
  <1>3. MeasuredCorrect(c) => rec[c].meas \in Nat \ {0}
    <2>1. rec[c].meas \in Lat \cup {0, -1}
      BY DEF Record, Result, None, Failed
    <2>2. \/ rec[c].meas \in Nat \ {0}
          \/ rec[c].meas = 0
          \/ rec[c].meas = -1
      BY <2>1, Bounds
    <2> QED
      BY <2>2 DEF MeasuredCorrect
  <1> QED
    BY <1>1, <1>2, <1>3, Bounds DEF EvaluateMeasurement

LEMMA ProfileAnswer ==
  ASSUME rec \in [Cand -> Record], NEW c \in Cand, EvaluateProfile(c)
  PROVE  OnlyProfileOf(c)
  BY ProfileFrame DEF EvaluateProfile

LEMMA AssessedSteps ==
  ASSUME ResumeInv,
         \/ ModelSeed \/ MeasureSeed \/ ProfileSeed
         \/ ModelCandidate \/ ModelRepaired \/ MeasureCandidate
         \/ RemodelRepaired \/ RemeasureRepaired \/ ProfileMeasured
         \/ MaybeProfileRound \/ FinalizeCandidate
  PROVE  Assessed
  <1>0. /\ rec \in [Cand -> Record] /\ (todo # <<>> => Head(todo) \in Archived)
        /\ Archived \subseteq Cand /\ Correct \subseteq Archived
        /\ MayMeasure \subseteq Archived /\ (pc \in SeedStages => Seed \in Archived)
    BY RecordFacts
  <1>1. pc \in {"model_repaired", "remodel", "remeasure"} => todo # <<>>
    BY DEF ResumeInv, SearchInv, ShapeInv, StageInv
  <1>2. CASE ModelSeed
    <2>1. /\ pc = "seed_model"
          /\ \/ ModelSucceeds(Seed)
             \/ \E why : ModelFails(Seed, why)
      BY <1>2 DEF ModelSeed
    <2>2. Seed \in Archived /\ rec[Seed].model = "none" /\ Policy = "tilesight"
      BY <1>0, <2>1 DEF ResumeInv, SeedInv, SeedStages, Untouched
    <2>3. OnlyModelOf(Seed)
      BY <1>0, <2>1, <2>2, ModelFrame
    <2> QED
      BY <2>1, <2>2, <2>3 DEF Assessed
  <1>3. CASE MeasureSeed
    <2>1. /\ pc = "seed_measure"
          /\ \/ \E l : rec' = [rec EXCEPT ![Seed].meas = l]
             \/ \E why : MeasureFails(Seed, why)
      BY <1>3 DEF MeasureSeed
    <2>2. Seed \in MayMeasure
      BY <1>0, <2>1 DEF ResumeInv, SeedInv, SeedStages, MayMeasure, Archived
    <2>3. OnlyMeasOf(Seed)
      BY <1>0, <2>1, <2>2, MeasFrame
    <2> QED
      BY <2>2, <2>3 DEF Assessed
  <1>4. CASE ProfileSeed
    <2>1. pc = "seed_profile" /\ EvaluateProfile(Seed)
      BY <1>4 DEF ProfileSeed
    <2>2. Seed \in Archived
      BY <1>0, <2>1 DEF SeedStages
    <2> QED
      BY <1>0, <2>1, <2>2, ProfileAnswer DEF Assessed
  <1>5. ASSUME NEW c \in Archived, rec[c].model = "none", Policy = "tilesight",
               EvaluateModel(c)
        PROVE  Assessed
    BY <1>0, <1>5, ModelFrame DEF Assessed, EvaluateModel
  <1>6. CASE ModelCandidate
    <2>1. \/ UNCHANGED rec
          \/ /\ EvaluateModel(Head(todo)) /\ todo # <<>>
             /\ rec[Head(todo)].model = "none" /\ Policy = "tilesight"
      BY <1>6 DEF ModelCandidate, Modelled
    <2> QED
      BY <1>0, <1>5, <2>1 DEF Assessed
  <1>7. CASE ModelRepaired \/ RemodelRepaired
    <2>1. /\ pc \in {"model_repaired", "remodel"}
          /\ UNCHANGED rec \/ EvaluateModel(Head(todo))
      BY <1>7 DEF ModelRepaired, RemodelRepaired
    <2>2. rec[Head(todo)].model = "none" /\ Policy = "tilesight" /\ todo # <<>>
      BY <1>1, <2>1 DEF ResumeInv, SearchInv, OnceInv, FlowInv, EmptyInv
    <2> QED
      BY <1>0, <1>5, <2>1, <2>2 DEF Assessed
  <1>8. ASSUME NEW c \in MayMeasure, EvaluateMeasurement(c)
        PROVE  Assessed
    BY <1>0, <1>8, MeasurementFrame DEF Assessed
  <1>9. CASE MeasureCandidate
    <2>1. /\ pc = "measure" /\ todo # <<>>
          /\ UNCHANGED rec \/ EvaluateMeasurement(Head(todo))
      BY <1>9 DEF MeasureCandidate
    <2>2. Head(todo) \in MayMeasure
      BY <2>1, SequenceFacts DEF ResumeInv, HardwareInv
    <2> QED
      BY <1>8, <2>1, <2>2 DEF Assessed
  <1>10. CASE RemeasureRepaired
    <2>1. /\ pc = "remeasure"
          /\ UNCHANGED rec \/ (~expired /\ EvaluateMeasurement(Head(todo)))
      BY <1>10 DEF RemeasureRepaired
    <2>2. expired \/ Head(todo) \in MayMeasure
      BY <2>1 DEF ResumeInv, HardwareInv
    <2> QED
      BY <1>8, <2>1, <2>2 DEF Assessed
  <1>11. CASE ProfileMeasured
    <2>1. todo # <<>> /\ (UNCHANGED rec \/ EvaluateProfile(Head(todo)))
      BY <1>11 DEF ProfileMeasured
    <2> QED
      BY <1>0, <2>1, ProfileAnswer DEF Assessed
  <1>12. CASE MaybeProfileRound
    <2>1. /\ pc = "profile_round"
          /\ \/ UNCHANGED rec
             \/ \E c \in measured \cup {Head(beam)} : EvaluateProfile(c)
      BY <1>12 DEF MaybeProfileRound, StopForTime
    <2>2. Head(beam) \in Archived /\ measured \subseteq Archived
      <3>1. Beam(beam)
        BY <2>1 DEF ResumeInv, BeamInv, Running, RoundStages
      <3> QED
        BY <1>0, <3>1, SequenceFacts DEF Beam, ResumeInv, ListsInv
    <2> QED
      BY <1>0, <2>1, <2>2, ProfileAnswer DEF Assessed
  <1>13. CASE FinalizeCandidate
    <2>1. /\ todo # <<>>
          /\ \/ UNCHANGED rec
             \/ \E m : rec' = [rec EXCEPT ![Head(todo)].final = m]
             \/ \E cat : FinalFails(Head(todo), cat)
      BY <1>13 DEF FinalizeCandidate
    <2> QED
      BY <1>0, <2>1, FinalFrame DEF Assessed
  <1> QED
    BY <1>2, <1>3, <1>4, <1>6, <1>7, <1>9, <1>10, <1>11, <1>12, <1>13

LEMMA BreakerAssessed ==
  ASSUME ResumeInv, CircuitBreaker
  PROVE  Assessed /\ Raise /\ UNCHANGED ckpt
  <1>0. /\ rec \in [Cand -> Record] /\ (todo # <<>> => Head(todo) \in Archived)
        /\ Archived \subseteq Cand /\ Correct \subseteq Archived
        /\ MayMeasure \subseteq Archived
    BY RecordFacts
  <1>1. pc = "profile_round" => measured \cup {beam[1]} \subseteq Archived
    <2>1. pc = "profile_round" => Beam(beam)
      BY DEF ResumeInv, BeamInv, Running, RoundStages
    <2>2. Beam(beam) => beam[1] \in Correct
      BY DEF Beam
    <2> QED
      BY <1>0, <2>1, <2>2 DEF ResumeInv, ListsInv
  <1>2. pc \in {"measure", "remeasure"} /\ todo # <<>> /\ ~expired => Head(todo) \in MayMeasure
    BY SequenceFacts DEF ResumeInv, HardwareInv
  <1>3. \E c \in Archived, cat \in Category :
          \/ rec[c].model = "none" /\ Policy = "tilesight" /\ ModelFails(c, cat)
          \/ c \in MayMeasure /\ MeasureFails(c, cat)
          \/ rec' = [rec EXCEPT ![c].profile = cat]
          \/ FinalFails(c, cat)
    <2>1. PICK cat \in Category :
       \/ /\ todo # <<>> /\ Policy = "tilesight"
          /\ rec[Head(todo)].model = "none"
          /\ ModelFails(Head(todo), cat)
       \/ /\ pc \in {"measure", "remeasure"} /\ todo # <<>> /\ ~expired
          /\ MeasureFails(Head(todo), cat)
       \/ /\ todo # <<>>
          /\ rec' = [rec EXCEPT ![Head(todo)].profile = cat]
       \/ /\ pc = "profile_round"
          /\ \E c \in measured \cup {beam[1]} : rec' = [rec EXCEPT ![c].profile = cat]
       \/ todo # <<>> /\ FinalFails(Head(todo), cat)
      BY DEF CircuitBreaker
    <2> QED
      BY <1>0, <1>1, <1>2, <2>1
  <1>4. Assessed
    BY <1>0, <1>3, ModelFrame, MeasFrame, ProfileFrame, FinalFrame DEF Assessed
  <1> QED
    BY <1>4 DEF CircuitBreaker

LEMMA CreatedSteps ==
  ASSUME ResumeInv, GenerateFromParent \/ RepairCandidate
  PROVE  Created
  <1>1. CASE GenerateFromParent
    <2>1. PICK new \in SUBSET Absent :
             \E verdict \in [new -> Verdict] :
               rec' = [c \in Cand |-> IF c \in new
                                     THEN ProposalRecord(round, verdict[c])
                                     ELSE rec[c]]
      BY <1>1 DEF GenerateFromParent
    <2>2. \A c \in Cand \ new : rec'[c] = rec[c]
      BY <2>1
    <2>3. \A c \in new : /\ c \in Cand /\ ~Exists(c)
                        /\ rec'[c].model = "none" /\ rec'[c].equiv = None
                        /\ rec'[c].meas = None /\ rec'[c].profile = "none"
                        /\ rec'[c].final = None
      BY <2>1 DEF Absent, ProposalRecord, Blank
    <2> QED
      BY <2>2, <2>3 DEF ResumeInv, ArchiveInv, Untouched, Created
  <1>2. CASE RepairCandidate
    <2>1. CASE UNCHANGED rec
      BY <2>1 DEF Created
    <2>2. ASSUME NEW c \in Absent, NEW v \in Verdict,
                 rec' = [rec EXCEPT ![c] = RepairRecord(Head(queue), round, v)]
          PROVE  Created
      <3>1. c \in Cand /\ ~Exists(c)
        BY DEF Absent
      <3>2. /\ rec'[c] = RepairRecord(Head(queue), round, v)
            /\ \A d \in Cand \ {c} : rec'[d] = rec[d]
        BY <2>2, <3>1, Update DEF ResumeInv, SearchInv, ShapeInv, TypeOK
      <3>3. /\ rec'[c].model = "none" /\ rec'[c].equiv = None
            /\ rec'[c].meas = None /\ rec'[c].profile = "none"
            /\ rec'[c].final = None
        BY <3>2 DEF RepairRecord, Blank
      <3> QED
        BY <3>1, <3>2, <3>3 DEF ResumeInv, ArchiveInv, Untouched, Created
    <2> QED
      BY <1>2, <2>1, <2>2 DEF RepairCandidate
  <1> QED
    BY <1>1, <1>2

(* The steps that touch no record at all.                                  *)
Still ==
  \/ Restore \/ FinishSeed \/ StopAtRoundStart \/ StartGeneration
  \/ ResumeRound \/ EndSearch \/ EndGeneration \/ FinishGeneration \/ PassOver
  \/ SkipModelCandidates \/ StartModelRepair \/ FinishModeling
  \/ SelectCandidates \/ BeforeMeasurement \/ StartMeasureRepair
  \/ StartProfiling \/ FinishMeasurement \/ UpdateBeam \/ FinishRound
  \/ FreezeSearch \/ FinishFinalization \/ Export
  \/ Deadline \/ Crash \/ Resume \/ UNCHANGED vars

LEMMA StillSteps ==
  ASSUME Still
  PROVE  UNCHANGED rec
  <1>1. CASE \/ Restore \/ FinishSeed \/ StopAtRoundStart \/ StartGeneration
             \/ ResumeRound \/ EndSearch \/ EndGeneration \/ FinishGeneration
    BY <1>1 DEF Restore, FinishSeed, StopAtRoundStart, StopForTime, StartGeneration,
                ResumeRound, EndSearch, EndGeneration, FinishGeneration
  <1>2. CASE \/ PassOver \/ SkipModelCandidates \/ StartModelRepair \/ FinishModeling
             \/ SelectCandidates \/ BeforeMeasurement \/ StartMeasureRepair
             \/ StartProfiling
    BY <1>2 DEF PassOver, SkipModelCandidates, StartModelRepair, FinishModeling,
                StopForTime, SelectCandidates, BeforeMeasurement,
                StartMeasureRepair, StartProfiling
  <1>3. CASE FinishMeasurement \/ UpdateBeam \/ FinishRound
    BY <1>3 DEF FinishMeasurement, StopForTime, UpdateBeam, FinishRound
  <1>4. CASE \/ FreezeSearch \/ FinishFinalization \/ Export
             \/ Deadline \/ Crash \/ Resume \/ UNCHANGED vars
    BY <1>4 DEF FreezeSearch, FinishFinalization, Export, Deadline, Crash, Resume, vars
  <1> QED
    BY <1>1, <1>2, <1>3, <1>4 DEF Still

LEMMA RecordStep ==
  ASSUME ResumeInv, [Next]_vars
  PROVE  Begin \/ Assessed \/ Created
  <1>1. CASE Still
    BY <1>1, StillSteps DEF Assessed
  <1>2. CASE GenerateFromParent \/ RepairCandidate
    BY <1>2, CreatedSteps
  <1>3. CASE CircuitBreaker
    BY <1>3, BreakerAssessed
  <1>4. CASE \/ ModelSeed \/ MeasureSeed \/ ProfileSeed
             \/ ModelCandidate \/ ModelRepaired \/ MeasureCandidate
             \/ RemodelRepaired \/ RemeasureRepaired \/ ProfileMeasured
             \/ MaybeProfileRound \/ FinalizeCandidate
    BY <1>4, AssessedSteps
  <1>5. Still \/ ~Still
    OBVIOUS
  <1> QED
    BY <1>1, <1>2, <1>3, <1>4 DEF Next, Work, Rest, Still

LEMMA BeginRecords ==
  ASSUME Begin
  PROVE  /\ \A c \in Cand : Untouched(c)'
         /\ \A c \in Cand : Exists(c)' <=> c = Seed
  BY DEF Begin, SeedRecord, Blank, Untouched, Exists

LEMMA NextArchive ==
  ASSUME ResumeInv, [Next]_vars
  PROVE  ArchiveInv'
  <1>1. CASE Begin
    BY <1>1, BeginRecords DEF ArchiveInv
  <1>2. CASE Assessed
    <2>1. ASSUME NEW d \in Cand, rec'[d].kind = "absent"
          PROVE  Untouched(d)'
      <3>1. rec[d].kind = "absent" /\ d \notin Archived /\ d \notin MayMeasure
        BY <1>2, <2>1
           DEF Assessed, OnlyModelOf, OnlyMeasOf, OnlyProfileOf, OnlyFinalOf,
               Archived, MayMeasure, Exists
      <3>2. Untouched(d)
        BY <3>1 DEF ResumeInv, ArchiveInv, Exists
      <3> QED
        BY <1>2, <3>1, <3>2
           DEF Assessed, OnlyModelOf, OnlyMeasOf, OnlyProfileOf, OnlyFinalOf, Untouched
    <2> QED
      BY <2>1 DEF ArchiveInv, Exists
  <1>3. CASE Created
    BY <1>3 DEF Created, ResumeInv, ArchiveInv, Untouched, Exists
  <1> QED
    BY <1>1, <1>2, <1>3, RecordStep

(* Once the seed is checkpointed the sets only grow.                       *)
LEMMA Growth ==
  ASSUME ResumeInv, [Next]_vars, HasCheckpoint
  PROVE  /\ Archived \subseteq Archived' /\ Correct \subseteq Correct'
         /\ MayMeasure \subseteq MayMeasure'
         /\ \A r : Of("repair", r) \subseteq Of("repair", r)'
         /\ \A r : InRound(r) \subseteq InRound(r)'
  <1>1. \A c \in Cand : Exists(c) => ResultsKept(c)
    BY NextSearch DEF ResumeInv
  <1>2. \A c \in Cand : Exists(c) =>
          /\ Exists(c)' /\ rec'[c].gen = rec[c].gen /\ rec'[c].kind = rec[c].kind
          /\ MeasuredCorrect(c) => MeasuredCorrect(c)'
    BY <1>1 DEF ResultsKept, Exists, MeasuredCorrect, None
  <1>3. \A c \in Cand : MeasuredCorrect(c) => Exists(c)
    BY RecordFacts DEF Correct, Archived
  <1>4. ASSUME NEW c \in MayMeasure
        PROVE  c \in MayMeasure'
    <2>1. c \in Cand /\ Exists(c)
      BY DEF MayMeasure
    <2>2. CASE Policy = "tilesight" /\ FitForHardware(c)
      BY <1>1, <1>2, <2>1, <2>2 DEF ResultsKept, FitForHardware, ModelValid, MayMeasure
    <2>3. CASE Policy # "tilesight"
      <3>1. rec[c].model = "none" /\ rec[c].equiv = None
        BY <2>1, <2>3 DEF ResumeInv, HardwareInv
      <3>2. rec'[c].equiv = None
        BY <2>1, <2>3, <3>1, RecordStep, BeginRecords
           DEF Assessed, Created, OnlyModelOf, OnlyMeasOf, OnlyProfileOf,
               OnlyFinalOf, Untouched
      <3> QED
        BY <1>2, <2>1, <2>3, <3>2 DEF FitForHardware, MayMeasure
    <2>4. CASE TimeLimited /\ rec[c].kind = "repair"
      BY <1>2, <2>1, <2>4 DEF MayMeasure
    <2> QED
      BY <2>2, <2>3, <2>4 DEF MayMeasure
  <1> QED
    BY <1>2, <1>3, <1>4 DEF Archived, Correct, Of, InRound, Exists

(* Where a step leaves the process.                                        *)
Onward == pc' \in {"round"} \cup RoundStages \cup Closing /\ UNCHANGED exported

LEMMA Outcome ==
  ASSUME [Next]_vars
  PROVE  \/ Raise /\ UNCHANGED ckpt
         \/ Export \/ Resume \/ Deadline \/ UNCHANGED vars
         \/ (Begin \/ ModelSeed \/ MeasureSeed \/ ProfileSeed) /\ pc' \in SeedStages
         \/ Onward
  <1> USE DEF SeedStages, RoundStages, RepairLoops, Closing, outside, memory
  <1>1. CASE Begin \/ ModelSeed \/ MeasureSeed \/ ProfileSeed
    BY <1>1 DEF Begin, ModelSeed, MeasureSeed, ProfileSeed
  <1>2. CASE \/ Restore \/ FinishSeed \/ StopAtRoundStart \/ StartGeneration
             \/ ResumeRound \/ EndSearch \/ GenerateFromParent
             \/ EndGeneration \/ FinishGeneration
    BY <1>2 DEF Restore, FinishSeed, StopAtRoundStart, StopForTime, StartGeneration,
                ResumeRound, EndSearch, GenerateFromParent, EndGeneration,
                FinishGeneration, Onward
  <1>3. CASE \/ PassOver \/ RepairCandidate \/ ModelCandidate
             \/ SkipModelCandidates \/ StartModelRepair \/ ModelRepaired
             \/ FinishModeling \/ SelectCandidates \/ BeforeMeasurement
    BY <1>3 DEF PassOver, RepairCandidate, ModelCandidate, SkipModelCandidates,
                StartModelRepair, ModelRepaired, FinishModeling, StopForTime,
                SelectCandidates, BeforeMeasurement, Onward
  <1>4. CASE \/ MeasureCandidate \/ StartMeasureRepair \/ RemodelRepaired
             \/ RemeasureRepaired \/ StartProfiling \/ ProfileMeasured
             \/ FinishMeasurement \/ UpdateBeam \/ MaybeProfileRound \/ FinishRound
    BY <1>4 DEF MeasureCandidate, StartMeasureRepair, RemodelRepaired,
                RemeasureRepaired, StartProfiling, ProfileMeasured,
                FinishMeasurement, StopForTime, UpdateBeam, MaybeProfileRound,
                FinishRound, Onward
  <1>5. CASE FreezeSearch \/ FinalizeCandidate \/ FinishFinalization
    BY <1>5 DEF FreezeSearch, FinalizeCandidate, FinishFinalization, Onward
  <1>6. CASE CircuitBreaker \/ Crash
    BY <1>6 DEF CircuitBreaker, Crash
  <1> QED
    BY <1>1, <1>2, <1>3, <1>4, <1>5, <1>6 DEF Next, Work, Rest

LEMMA CheckpointStep ==
  ASSUME ResumeInv, [Next]_vars
  PROVE  HasCheckpoint' \/ (~HasCheckpoint /\ UNCHANGED <<ckpt, exported>>)
  <1>1. CASE Onward
    <2>1. FlowInv'
      BY NextFlow DEF ResumeInv, SearchInv
    <2> QED
      BY <1>1, <2>1 DEF Onward, FlowInv, ControlInv, Running
  <1>2. CASE Export
    <2>1. HasCheckpoint
      BY <1>2 DEF Export, ResumeInv, FlowInv, ControlInv, Running, Closing
    <2>2. \/ ckpt' = [ckpt EXCEPT !.searchBest = searchBest]
          \/ ckpt'.phase = "run_completed"
      BY <1>2, SavedFields DEF Export
    <2>3. ckpt'.phase = ckpt.phase \/ ckpt'.phase = "run_completed"
      BY <2>2 DEF ResumeInv, SearchInv, ShapeInv, TypeOK, Checkpoint
    <2> QED
      BY <2>1, <2>3 DEF HasCheckpoint
  <1>3. CASE UNCHANGED <<ckpt, exported>>
    BY <1>3 DEF HasCheckpoint
  <1>4. \/ UNCHANGED <<ckpt, exported>> \/ Export \/ Onward
    BY Outcome DEF Raise, outside, Resume, Deadline, vars, Begin, ModelSeed,
                   MeasureSeed, ProfileSeed, SeedStages
  <1> QED
    BY <1>1, <1>2, <1>3, <1>4

(* A process that is gone remembers nothing.                               *)
LEMMA Cleared ==
  ASSUME ResumeInv, [Next]_vars, pc' \in {"ready"} \cup Ended
  PROVE  /\ searchBest' = None /\ beam' = <<>> /\ todo' = <<>>
         /\ owners' = NoOwners
  <1>1. CASE Raise \/ Export
    BY <1>1 DEF Raise, Export, Forget
  <1>2. CASE Resume \/ UNCHANGED vars
    BY <1>2 DEF Resume, vars, memory, session, stage, identities, ResumeInv, SeedInv
  <1>3. CASE Deadline
    BY <1>3 DEF Deadline, Searching, SeedStages, RoundStages, RepairLoops, Ended
  <1> QED
    BY <1>1, <1>2, <1>3, Outcome
       DEF Onward, SeedStages, RoundStages, RepairLoops, Closing, Ended

LEMMA SeedModelled ==
  ASSUME ResumeInv, ModelSeed, pc' = "seed_measure"
  PROVE  /\ FitForHardware(Seed)' /\ rec'[Seed].meas = None
         /\ rec'[Seed].final = None
         /\ \A c \in Cand : Exists(c)' <=> Exists(c)
  <1>1. /\ Policy = "tilesight" /\ Untouched(Seed) /\ owners = NoOwners
        /\ pc = "seed_model" /\ Seed \in Cand /\ rec \in [Cand -> Record]
    BY Bounds DEF ModelSeed, ResumeInv, SeedInv, SearchInv, ShapeInv, TypeOK
  <1>2. ModelSucceeds(Seed)
    BY DEF ModelSeed, Raise
  <1>3. PICK h \in Hash \cup {"unhashed"} :
           rec' = [rec EXCEPT ![Seed] =
                     [@ EXCEPT !.model = h, !.fail = "none",
                               !.equiv = Representative(Seed, h)]]
    BY <1>2 DEF ModelSucceeds
  <1>4. Representative(Seed, h) = None
    BY <1>1 DEF Representative, NoOwners
  <1>5. rec'[Seed].model = h /\ rec'[Seed].equiv = None
    <2> DEFINE r == [rec[Seed] EXCEPT !.model = h, !.fail = "none",
                                      !.equiv = Representative(Seed, h)]
    <2>1. r.model = h /\ r.equiv = None
      BY <1>1, <1>4 DEF Record
    <2>2. rec' = [rec EXCEPT ![Seed] = r]
      BY <1>3
    <2> HIDE DEF r
    <2> QED
      BY <1>1, <2>1, <2>2
  <1>6. h \notin {"none", "invalid"}
    BY ConstantsAssumption
  <1>7. OnlyModelOf(Seed)
    BY <1>1, <1>2, ModelFrame
  <1> QED
    BY <1>1, <1>5, <1>6, <1>7
       DEF FitForHardware, ModelValid, OnlyModelOf, Untouched, Exists

LEMMA SeedSteps ==
  ASSUME ResumeInv, ModelSeed \/ MeasureSeed \/ ProfileSeed, pc' \in SeedStages,
         ~HasCheckpoint
  PROVE  SeedInv'
  <1>0. /\ rec \in [Cand -> Record] /\ Seed \in Cand
        /\ pc \in SeedStages
        /\ \A c \in Cand \ {Seed} : ~Exists(c)
        /\ Exists(Seed) /\ rec[Seed].final = None
        /\ searchBest = None /\ beam = <<>> /\ todo = <<>>
        /\ ckpt = NoCheckpoint /\ exported = None
    BY Bounds DEF ResumeInv, SearchInv, ShapeInv, TypeOK, SeedInv, ModelSeed,
                  MeasureSeed, ProfileSeed, SeedStages
  <1>1. UNCHANGED <<ckpt, exported, searchBest, beam, todo>>
    BY DEF ModelSeed, MeasureSeed, ProfileSeed, Raise, SeedStages, outside,
           session, stage
  <1>2. /\ \A c \in Cand : Exists(c)' <=> Exists(c)
        /\ rec'[Seed].final = None /\ FitForHardware(Seed)'
        /\ pc' \in {"seed_measure", "seed_profile", "seed_done"}
        /\ pc' = "seed_measure" => rec'[Seed].meas = None
        /\ pc' \in {"seed_profile", "seed_done"} => MeasuredCorrect(Seed)'
    <2>1. CASE ModelSeed
      BY <2>1, SeedModelled DEF ModelSeed, Raise, SeedStages
    <2>2. CASE MeasureSeed
      <3>1. /\ pc = "seed_measure" /\ pc' \in {"seed_profile", "seed_done"}
            /\ \E l \in Lat : rec' = [rec EXCEPT ![Seed].meas = l]
        BY <2>2 DEF MeasureSeed, Raise, SeedStages
      <3>2. PICK l \in Lat : rec' = [rec EXCEPT ![Seed].meas = l]
        BY <3>1
      <3>3. OnlyMeasOf(Seed)
        BY <1>0, <3>2, MeasFrame
      <3>4. rec'[Seed].meas = l
        <4> DEFINE r == [rec[Seed] EXCEPT !.meas = l]
        <4>1. r.meas = l
          BY <1>0 DEF Record
        <4>2. rec' = [rec EXCEPT ![Seed] = r]
          BY <3>2
        <4> HIDE DEF r
        <4> QED
          BY <1>0, <4>1, <4>2
      <3>5. MeasuredCorrect(Seed)'
        BY <3>4, Bounds DEF MeasuredCorrect
      <3>6. FitForHardware(Seed)
        BY <3>1 DEF ResumeInv, SeedInv, SeedStages
      <3> QED
        BY <1>0, <3>1, <3>3, <3>5, <3>6
           DEF OnlyMeasOf, FitForHardware, ModelValid, Exists
    <2>3. CASE ProfileSeed
      <3>1. pc = "seed_profile" /\ pc' = "seed_done" /\ EvaluateProfile(Seed)
        BY <2>3 DEF ProfileSeed
      <3>2. OnlyProfileOf(Seed)
        BY <1>0, <3>1, ProfileAnswer
      <3>3. FitForHardware(Seed) /\ MeasuredCorrect(Seed)
        BY <3>1 DEF ResumeInv, SeedInv, SeedStages
      <3> QED
        BY <1>0, <3>1, <3>2, <3>3
           DEF OnlyProfileOf, FitForHardware, ModelValid, Exists, MeasuredCorrect
    <2> QED
      BY <2>1, <2>2, <2>3
  <1>3. ~HasCheckpoint'
    BY <1>1 DEF HasCheckpoint
  <1>4. pc' \notin {"ready", "seed_model"} \cup Ended
    BY <1>2 DEF Ended
  <1> QED
    BY <1>0, <1>1, <1>2, <1>3, <1>4 DEF SeedInv

(* The first checkpoint is the one after the seed.                         *)
LEMMA FirstCheckpoint ==
  ASSUME ResumeInv, [Next]_vars, ~HasCheckpoint, Onward
  PROVE  FinishSeed
  <1>a. pc \notin {"round"} \cup RoundStages \cup Closing
    BY DEF ResumeInv, FlowInv, ControlInv, Running
  <1>1. ~Restore
    BY <1>a DEF Restore, HasCheckpoint
  <1>2. ~(Begin \/ ModelSeed \/ MeasureSeed \/ ProfileSeed \/ Resume \/ Crash \/ Deadline)
    BY <1>a
       DEF Onward, Begin, ModelSeed, MeasureSeed, ProfileSeed, Raise, Resume,
           Crash, Deadline, SeedStages, RoundStages, RepairLoops, Closing
  <1>3. ~(\/ StopAtRoundStart \/ StartGeneration \/ ResumeRound \/ EndSearch
          \/ GenerateFromParent \/ EndGeneration \/ FinishGeneration
          \/ PassOver \/ RepairCandidate \/ CircuitBreaker)
    BY <1>a
       DEF StopAtRoundStart, StartGeneration, ResumeRound, EndSearch,
           GenerateFromParent, EndGeneration, FinishGeneration, PassOver,
           RepairCandidate, CircuitBreaker, RoundStages, RepairLoops, Closing
  <1>4. ~(\/ ModelCandidate \/ SkipModelCandidates \/ StartModelRepair
          \/ ModelRepaired \/ FinishModeling \/ SelectCandidates
          \/ BeforeMeasurement \/ MeasureCandidate \/ StartMeasureRepair
          \/ RemodelRepaired \/ RemeasureRepaired)
    BY <1>a
       DEF ModelCandidate, SkipModelCandidates, StartModelRepair,
           ModelRepaired, FinishModeling, SelectCandidates,
           BeforeMeasurement, MeasureCandidate, StartMeasureRepair,
           RemodelRepaired, RemeasureRepaired, RoundStages, RepairLoops
  <1>5. ~(\/ StartProfiling \/ ProfileMeasured \/ FinishMeasurement
          \/ UpdateBeam \/ MaybeProfileRound \/ FinishRound
          \/ FreezeSearch \/ FinalizeCandidate \/ FinishFinalization \/ Export)
    BY <1>a
       DEF StartProfiling, ProfileMeasured, FinishMeasurement, UpdateBeam,
           MaybeProfileRound, FinishRound, FreezeSearch, FinalizeCandidate,
           FinishFinalization, Export, RoundStages, RepairLoops, Closing
  <1>6. ~UNCHANGED vars
    BY <1>a DEF Onward, vars
  <1> QED
    BY <1>1, <1>2, <1>3, <1>4, <1>5, <1>6 DEF Next, Work, Rest
LEMMA NextSeed ==
  ASSUME ResumeInv, [Next]_vars
  PROVE  SeedInv'
  <1>1. CASE HasCheckpoint
    <2>1. HasCheckpoint'
      BY <1>1, CheckpointStep
    <2>2. SearchInv'
      BY NextSearch DEF ResumeInv
    <2>3. pc' \notin SeedStages
      BY <2>1, <2>2 DEF SearchInv, OnceInv
    <2>4. MeasuredCorrect(Seed)'
      BY <1>1, Growth, Bounds DEF ResumeInv, SeedInv, Correct
    <2>5. pc' \notin {"seed_model", "seed_measure", "seed_profile", "seed_done"}
      BY <2>3 DEF SeedStages
    <2> QED
      BY <2>1, <2>3, <2>4, <2>5, Cleared DEF SeedInv
  <1>2. CASE ~HasCheckpoint /\ Begin
    <2>1. /\ pc' \in {"seed_model", "seed_measure"} /\ pc = "ready"
          /\ pc' = "seed_model" => Policy = "tilesight"
          /\ pc' = "seed_measure" => Policy # "tilesight"
          /\ UNCHANGED <<ckpt, exported, searchBest, beam, todo, owners>>
      BY <1>2 DEF Begin, outside, memory, session, stage, identities
    <2>2. /\ \A c \in Cand : Untouched(c)'
          /\ \A c \in Cand : Exists(c)' <=> c = Seed
      BY <1>2, BeginRecords
    <2>3. ~HasCheckpoint'
      BY <1>2, <2>1 DEF HasCheckpoint
    <2> QED
      BY <1>2, <2>1, <2>2, <2>3, Bounds
         DEF ResumeInv, SeedInv, SeedStages, Ended, Untouched, FitForHardware
  <1>3. CASE ~HasCheckpoint /\ (ModelSeed \/ MeasureSeed \/ ProfileSeed) /\ pc' \in SeedStages
    BY <1>3, SeedSteps
  <1>4. CASE ~HasCheckpoint /\ (Deadline \/ UNCHANGED vars)
    <2>1. UNCHANGED <<rec, ckpt, exported, pc, searchBest, beam, todo, owners>>
      BY <1>4 DEF Deadline, vars, outside, memory, session, stage, identities
    <2> QED
      BY <1>4, <2>1
         DEF ResumeInv, SeedInv, HasCheckpoint, Untouched, FitForHardware,
             ModelValid, MeasuredCorrect, Exists
  <1>5. CASE ~HasCheckpoint /\ pc' \in {"ready"} \cup Ended
    <2>1. \/ HasCheckpoint' /\ Export
          \/ UNCHANGED <<ckpt, exported>>
      BY <1>5, CheckpointStep, Outcome
         DEF Raise, outside, Resume, Deadline, vars, Onward, SeedStages,
             RoundStages, RepairLoops, Closing, Ended
    <2>2. ~Export
      BY <1>5 DEF Export, ResumeInv, FlowInv, ControlInv, Running, Closing
    <2>3. ~HasCheckpoint' /\ UNCHANGED <<ckpt, exported>>
      BY <1>5, <2>1, <2>2 DEF HasCheckpoint
    <2>4. pc' \notin SeedStages
      BY <1>5 DEF SeedStages, Ended
    <2>5. pc' \notin {"seed_model", "seed_measure", "seed_profile", "seed_done"}
      BY <2>4 DEF SeedStages
    <2> QED
      BY <1>5, <2>3, <2>4, <2>5, Cleared DEF ResumeInv, SeedInv
  <1>6. CASE ~HasCheckpoint /\ Onward
    <2>1. FinishSeed
      BY <1>6, FirstCheckpoint
    <2>2. pc = "seed_done" /\ pc' = "round" /\ UNCHANGED rec
          /\ ckpt'.phase = "seed_completed"
      BY <2>1, SavedFields DEF FinishSeed
    <2>3. MeasuredCorrect(Seed)'
      BY <2>2 DEF ResumeInv, SeedInv, MeasuredCorrect
    <2> QED
      BY <2>2, <2>3 DEF SeedInv, HasCheckpoint, SeedStages, Ended
  <1>7. Raise => pc' \in Ended
    BY DEF Raise, Ended
  <1>8. Export => pc' \in Ended
    BY DEF Export, Ended
  <1>9. Resume => pc' = "ready"
    BY DEF Resume
  <1> QED
    BY <1>1, <1>2, <1>3, <1>4, <1>5, <1>6, <1>7, <1>8, <1>9, Outcome

-----------------------------------------------------------------------------
(* The lists of the checkpoint and of the process.                         *)

CkptLists ==
  /\ ckpt.ids \in Seq(InRound(CkptRound)) /\ ckpt.sel \in Seq(InRound(CkptRound))
  /\ ckpt.best \in Archived \cup {None} /\ ckpt.searchBest \in Archived \cup {None}

LEMMA Enumeration ==
  ASSUME NEW S \in SUBSET Cand
  PROVE  /\ Ascending(S) \subseteq Seq(S)
         /\ Orders(S) \subseteq Seq(S)
  <1>1. Cardinality(S) \in Nat
    BY FiniteSubset
  <1>2. \A s \in [1..Cardinality(S) -> S] : s \in Seq(S)
    BY <1>1
  <1> QED
    BY <1>2 DEF Orders, Ascending, Bijection, Injection

LEMMA Concatenation ==
  ASSUME NEW S, NEW s \in Seq(S), NEW t \in Seq(S)
  PROVE  s \o t \in Seq(S)
  OBVIOUS

LEMMA SelectionType ==
  ASSUME NEW S, S \subseteq Cand, ckpt.ids \in Seq(S), NEW sel \in Selections
  PROVE  sel \in Seq({c \in S : Promotable(c)})
  <1> DEFINE P == {c \in Range(ckpt.ids) : Promotable(c)}
  <1>1. Range(ckpt.ids) \subseteq S
    BY DEF Range
  <1>2. P \subseteq {c \in S : Promotable(c)} /\ P \subseteq Cand
    BY <1>1
  <1> HIDE DEF P
  <1>3. \/ sel \in Ascending(P)
        \/ \E T \in SUBSET P : sel \in Orders(T)
    BY DEF Selections, P
  <1>4. \E T \in SUBSET P : sel \in Seq(T)
    BY <1>2, <1>3, Enumeration
  <1> QED
    BY <1>2, <1>4, SequenceFacts

(* A checkpoint that names nobody new.                                     *)
LEMMA SameCkptLists ==
  ASSUME ResumeInv, [Next]_vars, HasCheckpoint,
         ckpt'.ids = ckpt.ids, ckpt'.sel = ckpt.sel, ckpt'.best = ckpt.best,
         ckpt'.active = ckpt.active, ckpt'.completed = ckpt.completed,
         ckpt'.searchBest \in {ckpt.searchBest, searchBest}
  PROVE  CkptLists'
  <1>1. CkptRound' = CkptRound
    BY DEF CkptRound
  <1>2. InRound(CkptRound) \subseteq InRound(CkptRound)'
    BY <1>1, Growth DEF InRound
  <1>3. Archived \subseteq Archived'
    BY Growth
  <1>4. /\ ckpt.ids \in Seq(InRound(CkptRound)') /\ ckpt.sel \in Seq(InRound(CkptRound)')
        /\ ckpt.best \in Archived \cup {None}
        /\ {ckpt.searchBest, searchBest} \subseteq Archived \cup {None}
    BY <1>2, SequenceFacts DEF ResumeInv, ListsInv
  <1> QED
    BY <1>3, <1>4 DEF CkptLists

LEMMA SavedLists ==
  ASSUME ResumeInv, [Next]_vars, HasCheckpoint,
         NEW ph, NEW completed, NEW active, NEW ids, NEW sel, NEW best, NEW b,
         ckpt' = Saved(ph, completed, active, ids, sel, best, b),
         ids \in Seq(InRound(IF active # None THEN active ELSE completed)),
         sel \in Seq(InRound(IF active # None THEN active ELSE completed)),
         best \in Archived \cup {None}
  PROVE  CkptLists'
  <1> DEFINE r == IF active # None THEN active ELSE completed
  <1>1. /\ ckpt'.ids = ids /\ ckpt'.sel = sel /\ ckpt'.best = best
        /\ ckpt'.active = active /\ ckpt'.completed = completed
        /\ ckpt'.searchBest = searchBest
    BY SavedFields
  <1>2. CkptRound' = r
    BY <1>1 DEF CkptRound
  <1> HIDE DEF r
  <1>3. InRound(r) \subseteq InRound(CkptRound)'
    BY <1>2, Growth DEF InRound
  <1>4. Archived \subseteq Archived'
    BY Growth
  <1>5. ids \in Seq(InRound(CkptRound)') /\ sel \in Seq(InRound(CkptRound)')
    BY <1>3, SequenceFacts DEF r
  <1>6. searchBest \in Archived \cup {None}
    BY DEF ResumeInv, ListsInv
  <1> QED
    BY <1>1, <1>4, <1>5, <1>6 DEF CkptLists

LEMMA RoundLists ==
  ASSUME ResumeInv, [Next]_vars, HasCheckpoint, round # None,
         NEW ph, NEW ids \in Seq(InRound(round)), NEW sel \in Seq(InRound(round)),
         NEW best \in Archived \cup {None}, NEW b,
         ckpt' = Saved(ph, round - 1, round, ids, sel, best, b)
  PROVE  CkptLists'
  BY SavedLists

LEMMA StopLists ==
  ASSUME ResumeInv, [Next]_vars, HasCheckpoint, round # None,
         NEW ph, NEW ids, NEW sel, NEW best, NEW b,
         StopForTime(ph, ids, sel, best, b),
         ids \in Seq(InRound(round)), sel \in Seq(InRound(round)),
         best \in Archived \cup {None}
  PROVE  CkptLists'
  BY RoundLists DEF StopForTime

LEMMA NextCkptLists ==
  ASSUME ResumeInv, [Next]_vars
  PROVE  CkptLists'
  <1>0. pc \in RoundStages \/ (pc = "round" /\ round <= Rounds) =>
          HasCheckpoint /\ round # None /\ round \in 1..Rounds
    BY InRoundNumber DEF ResumeInv, SearchInv, FlowInv
  <1>a. <<>> \in Seq(InRound(round)) /\ None \in Archived \cup {None}
    OBVIOUS
  <1>b. /\ ckpt.ids \in Seq(InRound(CkptRound)) /\ ckpt.sel \in Seq(InRound(CkptRound))
        /\ ckpt.best \in Archived \cup {None}
        /\ repaired \in Seq(Of("repair", round))
    BY DEF ResumeInv, ListsInv
  <1>c. round # None => repaired \in Seq(InRound(round))
    <2>1. round # None => Of("repair", round) \subseteq InRound(round)
      BY DEF Of, InRound, Exists
    <2> QED
      BY <1>b, <2>1, SequenceFacts
  <1>d. At({"generated", "modeled", "selected", "measured", "beam_updated"})
          /\ round # None => CkptRound = round
    BY DEF At, CkptRound
  <1>1. CASE ~HasCheckpoint'
    <2>1. ckpt' = NoCheckpoint
      BY <1>1, NextSeed DEF SeedInv
    <2> QED
      BY <2>1 DEF NoCheckpoint, CkptLists
  <1>2. CASE HasCheckpoint /\ UNCHANGED ckpt
    BY <1>2, SameCkptLists
  <1>3. CASE FinishSeed
    <2>1. /\ ckpt'.ids = <<>> /\ ckpt'.sel = <<>> /\ ckpt'.best = None
          /\ ckpt'.searchBest = searchBest
      BY <1>3, SavedFields DEF FinishSeed
    <2>2. searchBest = None
      BY <1>3 DEF FinishSeed, ResumeInv, SeedInv, SeedStages
    <2> QED
      BY <2>1, <2>2 DEF CkptLists
  <1>4. CASE StopAtRoundStart
    BY <1>0, <1>4, <1>a, StopLists DEF StopAtRoundStart
  <1>5. CASE FinishGeneration
    <2>1. pc = "static_repair" /\ HasCheckpoint /\ round # None
      BY <1>0, <1>5 DEF FinishGeneration, RoundStages, RepairLoops
    <2>2. PICK ids \in Ascending(Generated) :
             \/ StopForTime(Phase, ids, <<>>, None, beam)
             \/ ckpt' = Saved("round_completed", round, None, <<>>, <<>>, None, beam)
             \/ ckpt' = Saved("search_stopped", round - 1, None, <<>>, <<>>, None, beam)
             \/ ckpt' = Saved("generated", round - 1, round, ids, <<>>, None, beam)
      BY <1>5 DEF FinishGeneration
    <2>3. ids \in Seq(InRound(round))
      <3>1. Generated \in SUBSET Cand /\ Generated \subseteq InRound(round)
        BY <2>1 DEF Generated, InRound
      <3> QED
        BY <3>1, Enumeration, SequenceFacts
    <2>4. CASE StopForTime(Phase, ids, <<>>, None, beam)
      BY <1>a, <2>1, <2>3, <2>4, StopLists
    <2>5. ASSUME NEW ph, NEW completed,
                 ckpt' = Saved(ph, completed, None, <<>>, <<>>, None, beam)
          PROVE  CkptLists'
      <3>1. <<>> \in Seq(InRound(IF None # None THEN None ELSE completed))
        OBVIOUS
      <3> QED
        BY <2>1, <2>5, <3>1, SavedLists
    <2>6. CASE ckpt' = Saved("generated", round - 1, round, ids, <<>>, None, beam)
      BY <1>a, <2>1, <2>3, <2>6, RoundLists
    <2> QED
      BY <2>2, <2>4, <2>5, <2>6
  <1>6. CASE RepairCandidate
    <2>1. ckpt' = [ckpt EXCEPT !.repairs[round] = @ + 1, !.searchBest = searchBest]
          /\ pc \in RepairLoops
      BY <1>6 DEF RepairCandidate
    <2>2. /\ ckpt'.ids = ckpt.ids /\ ckpt'.sel = ckpt.sel /\ ckpt'.best = ckpt.best
          /\ ckpt'.active = ckpt.active /\ ckpt'.completed = ckpt.completed
          /\ ckpt'.searchBest = searchBest
      BY <2>1 DEF ResumeInv, SearchInv, ShapeInv, TypeOK, Checkpoint
    <2> QED
      BY <1>0, <2>1, <2>2, SameCkptLists DEF RoundStages
  <1>7. CASE FinishModeling
    <2>1. /\ pc = "model_repair" /\ HasCheckpoint /\ round # None
          /\ CkptRound = round
      BY <1>0, <1>d, <1>7
         DEF FinishModeling, RoundStages, RepairLoops, ResumeInv, FlowInv, ControlInv, At
    <2>2. ckpt.ids \o repaired \in Seq(InRound(round))
      BY <1>b, <1>c, <2>1, Concatenation
    <2>3. \/ StopForTime(Phase, ckpt.ids \o repaired, <<>>, None, beam)
          \/ ckpt' = Saved("modeled", round - 1, round, ckpt.ids \o repaired, <<>>, None, beam)
      BY <1>7 DEF FinishModeling
    <2>4. CASE StopForTime(Phase, ckpt.ids \o repaired, <<>>, None, beam)
      BY <1>a, <2>1, <2>2, <2>4, StopLists
    <2>5. CASE ckpt' = Saved("modeled", round - 1, round, ckpt.ids \o repaired, <<>>, None, beam)
      BY <1>a, <2>1, <2>2, <2>5, RoundLists
    <2> QED
      BY <2>3, <2>4, <2>5
  <1>8. CASE SelectCandidates
    <2>1. /\ pc = "select" /\ HasCheckpoint /\ round # None
          /\ CkptRound = round /\ Running
      BY <1>0, <1>d, <1>8
         DEF SelectCandidates, RoundStages, Running, ResumeInv, FlowInv, ControlInv, At
    <2>2. PICK sel \in Selections :
             ckpt' = Saved("selected", round - 1, round, ckpt.ids, sel, Head(beam), beam)
      BY <1>8 DEF SelectCandidates
    <2>3. sel \in Seq(InRound(round))
      <3>1. sel \in Seq({c \in InRound(round) : Promotable(c)})
        BY <1>b, <2>1, SelectionType DEF InRound
      <3> QED
        BY <3>1, SequenceFacts
    <2>4. Head(beam) \in Archived
      BY <2>1, SequenceFacts, RecordFacts DEF ResumeInv, BeamInv, Beam
    <2> QED
      BY <1>b, <2>1, <2>2, <2>3, <2>4, RoundLists
  <1>9. CASE BeforeMeasurement \/ UpdateBeam \/ MaybeProfileRound \/ FinishRound
    <2>1. /\ HasCheckpoint /\ round # None /\ CkptRound = round
      BY <1>0, <1>d, <1>9
         DEF BeforeMeasurement, UpdateBeam, MaybeProfileRound, FinishRound,
             RoundStages, ResumeInv, FlowInv, ControlInv, At
    <2>2. \/ StopForTime(Phase, ckpt.ids, ckpt.sel, ckpt.best, beam)
          \/ UNCHANGED ckpt
          \/ \E b : ckpt' = Saved("beam_updated", round - 1, round, ckpt.ids, ckpt.sel,
                                  ckpt.best, b)
          \/ ckpt' = Saved("round_completed", round, None, ckpt.ids, ckpt.sel,
                           ckpt.best, beam)
      BY <1>9 DEF BeforeMeasurement, UpdateBeam, MaybeProfileRound, FinishRound
    <2>3. CASE StopForTime(Phase, ckpt.ids, ckpt.sel, ckpt.best, beam)
      BY <1>b, <2>1, <2>3, StopLists
    <2>4. ASSUME NEW b,
                 ckpt' = Saved("beam_updated", round - 1, round, ckpt.ids, ckpt.sel,
                               ckpt.best, b)
          PROVE  CkptLists'
      BY <1>b, <2>1, <2>4, RoundLists
    <2>5. CASE ckpt' = Saved("round_completed", round, None, ckpt.ids, ckpt.sel,
                             ckpt.best, beam)
      BY <1>b, <2>1, <2>5, SavedLists
    <2> QED
      BY <1>2, <2>1, <2>2, <2>3, <2>4, <2>5
  <1>10. CASE FinishMeasurement
    <2>1. /\ pc = "profile_all" /\ HasCheckpoint /\ round # None /\ CkptRound = round
      BY <1>0, <1>d, <1>10
         DEF FinishMeasurement, RoundStages, Measuring, ResumeInv, FlowInv, ControlInv, At
    <2>2. /\ ckpt.ids \o repaired \in Seq(InRound(round))
          /\ ckpt.sel \o repaired \in Seq(InRound(round))
      BY <1>b, <1>c, <2>1, Concatenation
    <2>3. \/ \E b : StopForTime(Phase, ckpt.ids \o repaired, ckpt.sel \o repaired, ckpt.best, b)
          \/ ckpt' = Saved("measured", round - 1, round, ckpt.ids \o repaired,
                           ckpt.sel \o repaired, ckpt.best, beam)
      BY <1>10 DEF FinishMeasurement
    <2>4. ASSUME NEW b,
                 StopForTime(Phase, ckpt.ids \o repaired, ckpt.sel \o repaired, ckpt.best, b)
          PROVE  CkptLists'
      BY <1>b, <2>1, <2>2, <2>4, StopLists
    <2>5. CASE ckpt' = Saved("measured", round - 1, round, ckpt.ids \o repaired,
                             ckpt.sel \o repaired, ckpt.best, beam)
      BY <1>b, <2>1, <2>2, <2>5, RoundLists
    <2> QED
      BY <2>3, <2>4, <2>5
  <1>11. CASE FinishFinalization \/ Export
    <2>1. HasCheckpoint
      BY <1>11 DEF FinishFinalization, Export, Closing, ResumeInv, FlowInv, ControlInv, Running
    <2>2. \/ UNCHANGED ckpt
          \/ ckpt' = [ckpt EXCEPT !.searchBest = searchBest]
          \/ \E ph, b : ckpt' = Saved(ph, ckpt.completed, None, <<>>, <<>>, None, b)
      BY <1>11 DEF FinishFinalization, Export
    <2>3. CASE ckpt' = [ckpt EXCEPT !.searchBest = searchBest]
      <3>1. /\ ckpt'.ids = ckpt.ids /\ ckpt'.sel = ckpt.sel /\ ckpt'.best = ckpt.best
            /\ ckpt'.active = ckpt.active /\ ckpt'.completed = ckpt.completed
            /\ ckpt'.searchBest = searchBest
        BY <2>3 DEF ResumeInv, SearchInv, ShapeInv, TypeOK, Checkpoint
      <3> QED
        BY <2>1, <3>1, SameCkptLists
    <2>4. ASSUME NEW ph, NEW b,
                 ckpt' = Saved(ph, ckpt.completed, None, <<>>, <<>>, None, b)
          PROVE  CkptLists'
      <3>1. <<>> \in Seq(InRound(IF None # None THEN None ELSE ckpt.completed))
        OBVIOUS
      <3> QED
        BY <2>1, <2>4, <3>1, SavedLists
    <2> QED
      BY <1>2, <2>1, <2>2, <2>3, <2>4
  <1>12. \/ UNCHANGED ckpt
         \/ FinishSeed \/ StopAtRoundStart \/ FinishGeneration \/ RepairCandidate
         \/ FinishModeling \/ SelectCandidates \/ BeforeMeasurement \/ UpdateBeam
         \/ MaybeProfileRound \/ FinishRound \/ FinishMeasurement
         \/ FinishFinalization \/ Export
    BY DEF Next, Work, Rest, vars, Begin, Restore, ModelSeed, MeasureSeed,
           ProfileSeed, StartGeneration, ResumeRound, EndSearch,
           GenerateFromParent, EndGeneration, PassOver, CircuitBreaker,
           ModelCandidate, SkipModelCandidates, StartModelRepair, ModelRepaired,
           MeasureCandidate, StartMeasureRepair, RemodelRepaired,
           RemeasureRepaired, StartProfiling, ProfileMeasured, FreezeSearch,
           FinalizeCandidate, Deadline, Crash, Resume
  <1>13. UNCHANGED ckpt => (HasCheckpoint <=> HasCheckpoint')
    BY DEF HasCheckpoint
  <1> QED
    BY <1>1, <1>2, <1>3, <1>4, <1>5, <1>6, <1>7, <1>8, <1>9, <1>10, <1>11,
       <1>12, <1>13

RepairWaits == {"model_repaired", "remodel", "remeasure"}
MemoryLists ==
  /\ todo \in Seq(Archived) /\ queue \in Seq(Archived)
  /\ repaired \in Seq(Of("repair", round))
  /\ pc \in RepairWaits => Head(todo) \in Of("repair", round)
  /\ measured \subseteq Correct
  /\ searchBest \in Archived \cup {None}

LEMMA Listed ==
  ASSUME ResumeInv
  PROVE  /\ MemoryLists
         /\ ckpt.ids \in Seq(Archived) /\ ckpt.sel \in Seq(Archived)
         /\ ckpt.searchBest \in Archived \cup {None}
         /\ <<>> \in Seq(Archived) /\ <<>> \in Seq(Of("repair", round))
         /\ Running => beam \in Seq(Archived) /\ Head(beam) \in Archived /\ beam # <<>>
         /\ queue # <<>> => Tail(queue) \in Seq(Archived)
         /\ todo # <<>> => Tail(todo) \in Seq(Archived)
         /\ \A c \in Archived : Append(queue, c) \in Seq(Archived)
         /\ \A c \in Of("repair", round) :
              Append(repaired, c) \in Seq(Of("repair", round)) /\ c \in Archived
  <1>1. MemoryLists
    BY DEF ResumeInv, ListsInv, MemoryLists, RepairWaits
  <1>2. ckpt.ids \in Seq(InRound(CkptRound)) /\ ckpt.sel \in Seq(InRound(CkptRound))
        /\ ckpt.searchBest \in Archived \cup {None}
    BY DEF ResumeInv, ListsInv
  <1>3. InRound(CkptRound) \subseteq Archived
    BY DEF InRound, Archived
  <1>4. Running => beam \in Seq(Archived) /\ Head(beam) \in Archived /\ beam # <<>>
    BY SequenceFacts, RecordFacts DEF ResumeInv, BeamInv, Beam
  <1>5. Of("repair", round) \subseteq Archived
    BY DEF Of, Archived, Exists
  <1> QED
    BY <1>1, <1>2, <1>3, <1>4, <1>5, SequenceFacts DEF MemoryLists

(* What is a list of the old sets is one of the new.                       *)
LEMMA Grown ==
  ASSUME ResumeInv, [Next]_vars, HasCheckpoint
  PROVE  /\ \A s \in Seq(Archived) : s \in Seq(Archived')
         /\ Archived \subseteq Archived' /\ Correct \subseteq Correct'
         /\ round' = round =>
              /\ Of("repair", round) \subseteq Of("repair", round)'
              /\ \A s \in Seq(Of("repair", round)) : s \in Seq(Of("repair", round)')
         /\ <<>> \in Seq(Of("repair", round)') /\ <<>> \in Seq(Archived')
  <1>1. Archived \subseteq Archived' /\ Correct \subseteq Correct'
    BY Growth
  <1>2. round' = round => Of("repair", round) \subseteq Of("repair", round)'
    BY Growth DEF Of
  <1> QED
    BY <1>1, <1>2, SequenceFacts

LEMMA MemoryStep ==
  ASSUME ResumeInv, [Next]_vars, HasCheckpoint,
         todo' \in Seq(Archived), queue' \in Seq(Archived),
         \/ repaired' = <<>>
         \/ round' = round /\ repaired' \in Seq(Of("repair", round)),
         pc' \in RepairWaits => round' = round /\ Head(todo') \in Of("repair", round),
         measured' \subseteq Correct', searchBest' \in Archived \cup {None}
  PROVE  MemoryLists'
  BY Grown DEF MemoryLists

LEMMA GenerationLists ==
  ASSUME ResumeInv, [Next]_vars, HasCheckpoint,
         \/ Restore \/ StartGeneration \/ ResumeRound \/ EndSearch
         \/ GenerateFromParent \/ EndGeneration \/ FinishGeneration
  PROVE  MemoryLists'
  <1> USE DEF RepairWaits
  <1>0. /\ MemoryLists
        /\ ckpt.ids \in Seq(Archived) /\ ckpt.searchBest \in Archived \cup {None}
        /\ <<>> \in Seq(Archived) /\ <<>> \in Seq(Of("repair", round))
        /\ Running => beam \in Seq(Archived) /\ Head(beam) \in Archived
        /\ todo # <<>> => Tail(todo) \in Seq(Archived)
    BY Listed
  <1>1. Correct \subseteq Correct'
    BY Growth
  <1>2. CASE Restore
    <2>1. /\ pc = "ready" /\ pc' = "round" /\ searchBest' = ckpt.searchBest
          /\ UNCHANGED <<todo, queue, repaired, measured>>
      BY <1>2 DEF Restore, stage
    <2>2. repaired = <<>>
      BY <2>1 DEF ResumeInv, FlowInv, EmptyInv, Measuring
    <2> QED
      BY <1>0, <1>1, <2>1, <2>2, MemoryStep DEF MemoryLists
  <1>3. CASE StartGeneration
    <2>1. /\ pc = "round" /\ pc' = "generate"
          /\ todo' = IF Adaptive THEN <<Head(beam)>> ELSE beam
          /\ UNCHANGED <<queue, repaired, measured, round, searchBest>>
      BY <1>3 DEF StartGeneration, session
    <2>2. todo' \in Seq(Archived)
      BY <1>0, <2>1 DEF Running
    <2> QED
      BY <1>0, <1>1, <2>1, <2>2, MemoryStep DEF MemoryLists
  <1>4. CASE ResumeRound \/ EndSearch
    <2>1. /\ pc' \in {"model", "select", "before_measure", "freeze"}
          /\ todo' \in {ckpt.ids, <<>>, todo}
          /\ UNCHANGED <<queue, repaired, measured, round, searchBest>>
      BY <1>4 DEF ResumeRound, EndSearch, session, stage
    <2> QED
      BY <1>0, <1>1, <2>1, MemoryStep DEF MemoryLists
  <1>5. CASE GenerateFromParent
    <2>1. /\ pc = "generate" /\ pc' = pc /\ todo' = Tail(todo) /\ RequestCount > 0
          /\ UNCHANGED <<queue, repaired, measured, round, searchBest>>
      BY <1>5 DEF GenerateFromParent, session
    <2>2. todo # <<>>
      BY <2>1 DEF RequestCount
    <2> QED
      BY <1>0, <1>1, <2>1, <2>2, MemoryStep DEF MemoryLists
  <1>6. CASE EndGeneration
    <2>1. /\ pc' = "static_repair" /\ todo' = <<>> /\ queue' \in Orders(StaticFailures)
          /\ UNCHANGED <<repaired, measured, round, searchBest>>
      BY <1>6 DEF EndGeneration, session
    <2>2. StaticFailures \in SUBSET Cand /\ StaticFailures \subseteq Archived
      BY DEF StaticFailures, Archived
    <2>3. queue' \in Seq(Archived)
      BY <2>1, <2>2, Enumeration, SequenceFacts
    <2> QED
      BY <1>0, <1>1, <2>1, <2>3, MemoryStep DEF MemoryLists
  <1>7. CASE FinishGeneration
    <2>1. repaired = <<>>
      BY <1>7 DEF FinishGeneration, ResumeInv, FlowInv, EmptyInv, Measuring
    <2>2. Generated \in SUBSET Cand /\ Generated \subseteq Archived
      BY DEF Generated, Archived
    <2>3. /\ pc' \in {"freeze", "round", "model"}
          /\ todo' \in Ascending(Generated) \cup {todo, <<>>}
          /\ queue' = <<>> /\ repaired' \in {repaired, <<>>}
          /\ measured' \in {measured, {}} /\ searchBest' = searchBest
      BY <1>7 DEF FinishGeneration, StopForTime, session
    <2>4. todo' \in Seq(Archived)
      BY <1>0, <2>2, <2>3, Enumeration, SequenceFacts DEF MemoryLists
    <2> QED
      BY <1>0, <1>1, <2>1, <2>3, <2>4, MemoryStep DEF MemoryLists
  <1> QED
    BY <1>2, <1>3, <1>4, <1>5, <1>6, <1>7

LEMMA RepairLists ==
  ASSUME ResumeInv, [Next]_vars, HasCheckpoint, RepairCandidate
  PROVE  MemoryLists'
  <1>0. /\ MemoryLists
        /\ queue # <<>> => Tail(queue) \in Seq(Archived)
    BY Listed
  <1>1. /\ Correct \subseteq Correct' /\ Archived \subseteq Archived'
        /\ \A s \in Seq(Archived) : s \in Seq(Archived')
        /\ Of("repair", round) \subseteq Of("repair", round)'
        /\ \A s \in Seq(Of("repair", round)) : s \in Seq(Of("repair", round)')
        /\ UNCHANGED <<round, measured, searchBest>>
        /\ queue # <<>> /\ pc \in RepairLoops
    BY Grown DEF RepairCandidate, RepairLoopActive, session
  <1>2. CASE queue' = Tail(queue) /\ UNCHANGED <<rec, pc, todo, repaired>>
    BY <1>0, <1>1, <1>2 DEF MemoryLists, RepairLoops, RepairWaits
  <1>3. ASSUME NEW c \in Absent, NEW v \in Verdict,
               rec' = [rec EXCEPT ![c] = RepairRecord(Head(queue), round, v)],
               queue' \in {Append(Tail(queue), c), Tail(queue)},
               \/ UNCHANGED <<pc, todo, repaired>>
               \/ todo' = <<c>> /\ repaired' \in {repaired, Append(repaired, c)}
        PROVE  MemoryLists'
    <2>1. c \in Cand /\ rec \in [Cand -> Record]
      BY DEF Absent, ResumeInv, SearchInv, ShapeInv, TypeOK
    <2>2. rec'[c] = RepairRecord(Head(queue), round, v)
      BY <1>3, <2>1, Update
    <2>3. rec'[c].kind = "repair" /\ rec'[c].gen = round
      BY <2>2 DEF RepairRecord, Blank
    <2>4. c \in Archived' /\ c \in Of("repair", round)'
      BY <1>1, <2>1, <2>3 DEF Archived, Exists, Of
    <2>5. queue' \in Seq(Archived')
      BY <1>0, <1>1, <1>3, <2>4, SequenceFacts
    <2>6. todo' \in Seq(Archived')
      BY <1>0, <1>1, <1>3, <2>4, SequenceFacts DEF MemoryLists
    <2>7. repaired' \in Seq(Of("repair", round)')
      BY <1>0, <1>1, <1>3, <2>4, SequenceFacts DEF MemoryLists
    <2>8. pc' \in RepairWaits => Head(todo') \in Of("repair", round)'
      BY <1>0, <1>1, <1>3, <2>4 DEF MemoryLists, RepairWaits, RepairLoops
    <2> QED
      BY <1>0, <1>1, <2>5, <2>6, <2>7, <2>8 DEF MemoryLists
  <1> QED
    BY <1>2, <1>3 DEF RepairCandidate

LEMMA ModelingLists ==
  ASSUME ResumeInv, [Next]_vars, HasCheckpoint,
         \/ PassOver \/ ModelCandidate \/ SkipModelCandidates
         \/ StartModelRepair \/ ModelRepaired \/ FinishModeling
         \/ SelectCandidates \/ BeforeMeasurement
  PROVE  MemoryLists'
  <1> USE DEF RepairWaits
  <1>0. /\ MemoryLists
        /\ ckpt.ids \in Seq(Archived) /\ ckpt.sel \in Seq(Archived)
        /\ <<>> \in Seq(Archived) /\ <<>> \in Seq(Of("repair", round))
        /\ queue # <<>> => Tail(queue) \in Seq(Archived)
        /\ todo # <<>> => Tail(todo) \in Seq(Archived)
        /\ \A c \in Archived : Append(queue, c) \in Seq(Archived)
        /\ \A c \in Of("repair", round) :
             Append(repaired, c) \in Seq(Of("repair", round)) /\ c \in Archived
    BY Listed
  <1>1. Correct \subseteq Correct'
    BY Growth
  <1>2. CASE PassOver
    <2>1. /\ pc \in RepairLoops /\ pc' = pc /\ queue' = Tail(queue) /\ queue # <<>>
          /\ UNCHANGED <<todo, repaired, measured, round, searchBest>>
      BY <1>2 DEF PassOver, RepairLoopActive, session
    <2> QED
      BY <1>0, <1>1, <2>1, MemoryStep DEF MemoryLists, RepairLoops
  <1>3. CASE ModelCandidate \/ SkipModelCandidates \/ StartModelRepair
    <2>1. /\ pc' \in {"model", "model_repair"} /\ queue' \in {queue, ckpt.ids}
          /\ \/ todo' = <<>> \/ todo' = todo
             \/ todo # <<>> /\ todo' = Tail(todo)
          /\ UNCHANGED <<repaired, measured, round, searchBest>>
      BY <1>3 DEF ModelCandidate, SkipModelCandidates, StartModelRepair, session
    <2> QED
      BY <1>0, <1>1, <2>1, MemoryStep DEF MemoryLists
  <1>4. CASE ModelRepaired
    <2>1. /\ pc = "model_repaired" /\ pc' = "model_repair" /\ todo' = <<>>
          /\ queue' \in {queue, Append(queue, Head(todo))}
          /\ repaired' = Append(repaired, Head(todo))
          /\ UNCHANGED <<measured, round, searchBest>>
      BY <1>4 DEF ModelRepaired, session
    <2>2. Head(todo) \in Of("repair", round)
      BY <1>0, <2>1 DEF MemoryLists
    <2>3. queue' \in Seq(Archived) /\ repaired' \in Seq(Of("repair", round))
      BY <1>0, <2>1, <2>2 DEF MemoryLists
    <2> QED
      BY <1>0, <1>1, <2>1, <2>3, MemoryStep DEF MemoryLists
  <1>5. CASE FinishModeling \/ SelectCandidates
    <2>1. /\ pc' \in {"freeze", "select", "before_measure"}
          /\ todo' \in {todo, <<>>} /\ queue' \in {queue, <<>>}
          /\ repaired' \in {repaired, <<>>} /\ measured' \in {measured, {}}
          /\ UNCHANGED <<round, searchBest>>
      BY <1>5 DEF FinishModeling, SelectCandidates, StopForTime, session, memory, stage
    <2> QED
      BY <1>0, <1>1, <2>1, MemoryStep DEF MemoryLists
  <1>6. CASE BeforeMeasurement
    <2>1. /\ pc' \in {"freeze", "measure", "update_beam", "profile_round"}
          /\ todo' \in {ckpt.sel, <<>>} /\ queue' \in {queue, <<>>}
          /\ repaired' \in {repaired, <<>>}
          /\ measured' \in {{c \in Range(ckpt.sel) : MeasuredCorrect(c)}, {}}
          /\ UNCHANGED <<round, searchBest>>
      BY <1>6 DEF BeforeMeasurement, StopForTime, session
    <2>2. Range(ckpt.sel) \subseteq Cand
      BY RecordFacts, <1>0 DEF Range
    <2>3. measured' \subseteq Correct'
      BY <1>1, <2>1, <2>2 DEF Correct
    <2> QED
      BY <1>0, <2>1, <2>3, MemoryStep DEF MemoryLists
  <1> QED
    BY <1>2, <1>3, <1>4, <1>5, <1>6

LEMMA MeasuringLists ==
  ASSUME ResumeInv, [Next]_vars, HasCheckpoint,
         \/ MeasureCandidate \/ StartMeasureRepair \/ RemodelRepaired
         \/ RemeasureRepaired \/ StartProfiling \/ ProfileMeasured
  PROVE  MemoryLists'
  <1> USE DEF RepairWaits
  <1>0. /\ MemoryLists
        /\ ckpt.sel \in Seq(Archived)
        /\ <<>> \in Seq(Archived) /\ <<>> \in Seq(Of("repair", round))
        /\ queue # <<>> => Tail(queue) \in Seq(Archived)
        /\ todo # <<>> => Tail(todo) \in Seq(Archived)
        /\ \A c \in Archived : Append(queue, c) \in Seq(Archived)
        /\ \A c \in Of("repair", round) :
             Append(repaired, c) \in Seq(Of("repair", round)) /\ c \in Archived
    BY Listed
  <1>1. Correct \subseteq Correct' /\ rec \in [Cand -> Record] /\ Archived \subseteq Cand
        /\ (todo # <<>> => Head(todo) \in Archived)
    BY Growth, RecordFacts
  <1>2. ASSUME NEW c \in Cand, EvaluateMeasurement(c)
        PROVE  measured' \subseteq Correct'
    <2>1. \/ UNCHANGED measured
          \/ measured' = measured \cup {c} /\ rec'[c].meas > 0
      BY <1>1, <1>2, MeasurementFrame
    <2> QED
      BY <1>0, <1>1, <2>1 DEF MemoryLists, Correct, MeasuredCorrect
  <1>3. CASE MeasureCandidate
    <2>1. /\ pc = "measure" /\ pc' = pc /\ todo # <<>>
          /\ todo' \in {<<>>, Tail(todo)}
          /\ UNCHANGED measured \/ EvaluateMeasurement(Head(todo))
          /\ UNCHANGED <<queue, repaired, round, searchBest>>
      BY <1>3 DEF MeasureCandidate, session
    <2>2. measured' \subseteq Correct'
      BY <1>0, <1>1, <1>2, <2>1 DEF MemoryLists
    <2> QED
      BY <1>0, <2>1, <2>2, MemoryStep DEF MemoryLists
  <1>4. CASE RemeasureRepaired
    <2>1. /\ pc = "remeasure" /\ pc' = "measure_repair" /\ todo' = <<>>
          /\ queue' \in {queue, Append(queue, Head(todo))}
          /\ UNCHANGED measured \/ EvaluateMeasurement(Head(todo))
          /\ UNCHANGED <<repaired, round, searchBest>>
      BY <1>4 DEF RemeasureRepaired, session
    <2>2. Head(todo) \in Archived
      BY <1>0, <2>1 DEF MemoryLists
    <2>3. measured' \subseteq Correct'
      BY <1>0, <1>1, <1>2, <2>1, <2>2 DEF MemoryLists
    <2> QED
      BY <1>0, <2>1, <2>2, <2>3, MemoryStep DEF MemoryLists
  <1>5. CASE RemodelRepaired
    <2>1. /\ pc = "remodel" /\ repaired' = Append(repaired, Head(todo))
          /\ queue' \in {queue, Append(queue, Head(todo))}
          /\ \/ pc' = "remeasure" /\ UNCHANGED todo
             \/ pc' = "measure_repair" /\ todo' = <<>>
          /\ UNCHANGED <<measured, round, searchBest>>
      BY <1>5 DEF RemodelRepaired, session
    <2>2. Head(todo) \in Of("repair", round)
      BY <1>0, <2>1 DEF MemoryLists
    <2>3. /\ queue' \in Seq(Archived) /\ repaired' \in Seq(Of("repair", round))
          /\ todo' \in Seq(Archived)
      BY <1>0, <2>1, <2>2 DEF MemoryLists
    <2> QED
      BY <1>0, <1>1, <2>1, <2>2, <2>3, MemoryStep DEF MemoryLists
  <1>6. CASE StartProfiling
    <2>1. /\ pc' = "profile_all" /\ queue' = <<>>
          /\ todo' \in Ascending(measured) \cup {<<>>}
          /\ UNCHANGED <<repaired, measured, round, searchBest>>
      BY <1>6 DEF StartProfiling, session
    <2>2. measured \in SUBSET Cand /\ measured \subseteq Archived
      BY <1>0, <1>1, RecordFacts DEF MemoryLists
    <2>3. todo' \in Seq(Archived)
      BY <1>0, <2>1, <2>2, Enumeration, SequenceFacts
    <2> QED
      BY <1>0, <1>1, <2>1, <2>3, MemoryStep DEF MemoryLists
  <1>7. CASE StartMeasureRepair \/ ProfileMeasured
    <2>1. /\ pc' \in {"measure_repair", "profile_all"} /\ queue' \in {queue, ckpt.sel}
          /\ \/ todo' \in {todo, <<>>}
             \/ todo # <<>> /\ todo' = Tail(todo)
          /\ UNCHANGED <<repaired, measured, round, searchBest>>
      BY <1>7 DEF StartMeasureRepair, ProfileMeasured, session
    <2> QED
      BY <1>0, <1>1, <2>1, MemoryStep DEF MemoryLists
  <1> QED
    BY <1>3, <1>4, <1>5, <1>6, <1>7

LEMMA ClosingLists ==
  ASSUME ResumeInv, [Next]_vars, HasCheckpoint,
         \/ StopAtRoundStart \/ FinishMeasurement \/ UpdateBeam
         \/ MaybeProfileRound \/ FinishRound \/ FreezeSearch
         \/ (FinalizeCandidate /\ ~Raise) \/ (FinishFinalization /\ ~Raise)
  PROVE  MemoryLists'
  <1> USE DEF RepairWaits
  <1>0. /\ MemoryLists
        /\ <<>> \in Seq(Archived) /\ <<>> \in Seq(Of("repair", round))
        /\ Running => beam \in Seq(Archived) /\ Head(beam) \in Archived
        /\ todo # <<>> => Tail(todo) \in Seq(Archived)
    BY Listed
  <1>1. Correct \subseteq Correct' /\ Correct \subseteq Archived
    BY Growth, RecordFacts
  <1>2. CASE \/ StopAtRoundStart \/ FinishMeasurement \/ UpdateBeam
             \/ MaybeProfileRound
    <2>1. /\ pc' \in {"freeze", "update_beam", "profile_round", "finish_round"}
          /\ todo' \in {todo, <<>>} /\ queue' \in {queue, <<>>}
          /\ repaired' \in {repaired, <<>>} /\ measured' \in {measured, {}}
          /\ UNCHANGED <<round, searchBest>>
      BY <1>2 DEF StopAtRoundStart, FinishMeasurement, StopForTime, UpdateBeam,
                  MaybeProfileRound, session, stage
    <2> QED
      BY <1>0, <1>1, <2>1, MemoryStep DEF MemoryLists
  <1>3. CASE FinishRound
    <2>1. repaired = <<>>
      BY <1>3 DEF FinishRound, ResumeInv, FlowInv, EmptyInv, Measuring
    <2>2. /\ pc' \in {"freeze", "round"}
          /\ todo' \in {todo, <<>>} /\ queue' \in {queue, <<>>}
          /\ repaired' = <<>> /\ measured' = {} /\ searchBest' = searchBest
      BY <1>3, <2>1 DEF FinishRound, StopForTime
    <2> QED
      BY <1>0, <1>1, <2>2, MemoryStep DEF MemoryLists
  <1>4. CASE FreezeSearch
    <2>1. /\ pc = "freeze" /\ pc' \in {"finalize", "export"}
          /\ todo' \in {todo, <<Seed>> \o Finalists}
          /\ searchBest' \in {searchBest, Head(beam)}
          /\ UNCHANGED <<queue, repaired, measured, round>>
      BY <1>4 DEF FreezeSearch
    <2>2. Running
      BY <2>1 DEF Running, Closing
    <2>3. Seed \in Archived
      BY <1>1, Bounds DEF ResumeInv, SeedInv, Correct
    <2>4. Finalists \in Seq(Archived)
      <3>1. beam \in Seq(Archived) /\ Len(beam) \in Nat /\ FinalCount \in Nat
        BY <1>0, <2>2, ConstantsAssumption
      <3>2. Smaller(FinalCount, Len(beam)) \in 0..Len(beam)
        BY <3>1 DEF Smaller
      <3> QED
        BY <3>1, <3>2 DEF Finalists
    <2>5. <<Seed>> \o Finalists \in Seq(Archived)
      BY <2>3, <2>4, Concatenation
    <2> QED
      BY <1>0, <1>1, <2>1, <2>2, <2>5, MemoryStep DEF MemoryLists
  <1>5. CASE (FinalizeCandidate /\ ~Raise) \/ (FinishFinalization /\ ~Raise)
    <2>1. /\ pc' \in {"finalize", "export"}
          /\ \/ todo' = todo
             \/ todo # <<>> /\ todo' = Tail(todo)
          /\ UNCHANGED <<queue, repaired, measured, round, searchBest>>
      BY <1>5 DEF FinalizeCandidate, FinishFinalization, session, stage
    <2> QED
      BY <1>0, <1>1, <2>1, MemoryStep DEF MemoryLists
  <1> QED
    BY <1>2, <1>3, <1>4, <1>5

LEMMA NextMemoryLists ==
  ASSUME ResumeInv, [Next]_vars
  PROVE  MemoryLists'
  <1> USE DEF RepairWaits
  <1>1. CASE pc' \in {"ready"} \cup SeedStages \cup Ended
    <2>1. FlowInv' /\ SeedInv'
      BY NextFlow, NextSeed DEF ResumeInv, SearchInv
    <2>2. todo' = <<>> /\ searchBest' = None
      BY <1>1, <2>1 DEF SeedInv
    <2>3. queue' = <<>> /\ repaired' = <<>> /\ measured' = {}
      BY <1>1, <2>1 DEF FlowInv, EmptyInv, RepairLoops, Measuring, SeedStages, Ended
    <2>4. pc' \notin RepairWaits
      BY <1>1 DEF SeedStages, Ended
    <2> QED
      BY <2>2, <2>3, <2>4 DEF MemoryLists
  <1>2. CASE ~HasCheckpoint /\ Onward
    <2>2. FinishSeed
      BY <1>2, FirstCheckpoint
    <2>3. /\ pc = "seed_done" /\ pc' = "round"
          /\ UNCHANGED <<todo, queue, repaired, measured, searchBest>>
      BY <2>2 DEF FinishSeed, stage
    <2>4. /\ todo = <<>> /\ searchBest = None
          /\ queue = <<>> /\ repaired = <<>> /\ measured = {}
      BY <2>3 DEF ResumeInv, SeedInv, FlowInv, EmptyInv, RepairLoops, Measuring, SeedStages
    <2> QED
      BY <2>3, <2>4 DEF MemoryLists
  <1>3. CASE HasCheckpoint /\ Onward
    <2>1. CASE Next
      <3>1. ~(Begin \/ ModelSeed \/ MeasureSeed \/ ProfileSeed \/ FinishSeed)
        BY <1>3 DEF Begin, HasCheckpoint, ModelSeed, MeasureSeed, ProfileSeed, FinishSeed,
                    ResumeInv, SearchInv, OnceInv, SeedStages
      <3>2. ~(Raise \/ Export \/ Resume)
        BY <1>3 DEF Raise, Export, Resume, Onward, RoundStages, RepairLoops, Closing
      <3>3. CASE Deadline
        <4>1. UNCHANGED <<pc, todo, queue, repaired, measured, round, searchBest>>
          BY <3>3 DEF Deadline, memory, session, stage
        <4>2. MemoryLists /\ Correct \subseteq Correct'
          BY Listed, <1>3, Growth
        <4> QED
          BY <1>3, <4>1, <4>2, MemoryStep DEF MemoryLists
      <3>4. CASE Rest
        BY <1>3, <3>4 DEF Rest, Onward, vars, Ended, RoundStages, RepairLoops, Closing
      <3>5. ~CircuitBreaker /\ ~Crash
        BY <3>2 DEF CircuitBreaker, Crash
      <3> QED
        BY <1>3, <2>1, <3>1, <3>2, <3>3, <3>4, <3>5, GenerationLists, RepairLists,
           ModelingLists, MeasuringLists, ClosingLists DEF Next, Work
    <2>2. CASE UNCHANGED vars
      <3>1. UNCHANGED <<pc, todo, queue, repaired, measured, round, searchBest>>
        BY <2>2 DEF vars, memory, session, stage
      <3>2. MemoryLists /\ Correct \subseteq Correct'
        BY Listed, <1>3, Growth
      <3> QED
        BY <1>3, <3>1, <3>2, MemoryStep DEF MemoryLists
    <2> QED
      BY <2>1, <2>2
  <1>4. CASE Deadline \/ UNCHANGED vars
    <2>1. UNCHANGED <<pc, exported>>
      BY <1>4 DEF Deadline, vars, outside
    <2>2. pc \in {"ready"} \cup SeedStages \cup Ended \/ Onward
      BY <2>1 DEF Onward, ResumeInv, SearchInv, ShapeInv, TypeOK, Searching
    <2> QED
      BY <1>1, <1>2, <1>3, <2>1, <2>2
  <1>5. /\ Raise \/ Export => pc' \in Ended
        /\ Resume => pc' = "ready"
    BY DEF Raise, Export, Resume, Ended
  <1> QED
    BY <1>1, <1>2, <1>3, <1>4, <1>5, Outcome

LEMMA NextLists ==
  ASSUME ResumeInv, [Next]_vars
  PROVE  ListsInv'
  BY NextCkptLists, NextMemoryLists DEF ListsInv, CkptLists, MemoryLists, RepairWaits

-----------------------------------------------------------------------------
(* Beams.                                                                  *)

LEMMA RankingsStrict ==
  ASSUME rec \in [Cand -> Record], NEW c \in Cand
  PROVE  ~Faster(c, c) /\ ~FinalFaster(c, c)
  <1>1. c \in Nat /\ Lat \subseteq Nat \ {0}
    BY ConstantsAssumption
  <1>2. rec[c].meas \in Lat \cup {0, -1} /\ rec[c].final \in Lat \cup {0, -1}
    BY DEF Record, Result, None, Failed
  <1>a. \A m \in Lat \cup {0, -1} : m \in Int
    BY <1>1
  <1>3. rec[c].meas \in Int /\ rec[c].final \in Int
    BY <1>a, <1>2
  <1>4. ~(c < c) /\ ~(rec[c].meas < rec[c].meas) /\ ~(rec[c].final < rec[c].final)
    BY <1>1, <1>3
  <1> QED
    BY <1>4 DEF Faster, FinalFaster

LEMMA BeamSizeBound ==
  ASSUME NEW S \in SUBSET Cand, S # {}
  PROVE  BeamSize(S) \in Nat \ {0} /\ BeamSize(S) <= Cardinality(S)
         /\ BeamSize(S) <= BeamWidth /\ Cardinality(S) \in Nat
  <1>1. Cardinality(S) \in Nat \ {0}
    BY FiniteSubset, FS_EmptySet
  <1> QED
    BY <1>1, ConstantsAssumption DEF BeamSize, Smaller

LEMMA ListShape ==
  ASSUME NEW S, NEW n \in Nat \ {0}
  PROVE  /\ \A s \in [1..n -> S] : s \in Seq(S) /\ Len(s) = n
         /\ \A s \in Seq(S) : Len(s) = n => s # <<>> /\ DOMAIN s = 1..n
  OBVIOUS

LEMMA DistinctList ==
  ASSUME NEW S, NEW s \in Seq(S), NEW n \in Nat \ {0}, Len(s) = n,
         \A i, j \in 1..n : s[i] = s[j] => i = j
  PROVE  s # <<>> /\ IsInjective(s)
  BY ListShape DEF IsInjective

LEMMA SingletonList ==
  ASSUME NEW S, NEW x \in S
  PROVE  <<x>> \in Seq(S) /\ <<x>> # <<>> /\ Len(<<x>>) = 1 /\ IsInjective(<<x>>)
  <1> DEFINE s == <<x>>
  <1>1. s \in Seq(S) /\ Len(s) = 1
    OBVIOUS
  <1> HIDE DEF s
  <1>2. \A i, j \in 1..1 : s[i] = s[j] => i = j
    OBVIOUS
  <1>3. s # <<>> /\ IsInjective(s)
    BY <1>1, <1>2, DistinctList
  <1> QED
    BY <1>1, <1>3 DEF s

LEMMA FastestDistinct ==
  ASSUME rec \in [Cand -> Record], NEW S \in SUBSET Cand, S # {}, NEW b \in Fastest(S)
  PROVE  b \in Seq(S) /\ b # <<>> /\ Len(b) <= BeamWidth /\ IsInjective(b)
  <1>1. BeamSize(S) \in Nat \ {0} /\ BeamSize(S) <= BeamWidth
    BY BeamSizeBound
  <1>2. /\ b \in [1..BeamSize(S) -> S]
        /\ \A i, j \in 1..BeamSize(S) : i < j => Faster(b[i], b[j])
    BY DEF Fastest
  <1>3. /\ b \in Seq(S) /\ Len(b) = BeamSize(S)
        /\ b # <<>> /\ DOMAIN b = 1..BeamSize(S)
    BY <1>1, <1>2, ListShape
  <1>4. ASSUME NEW i \in 1..BeamSize(S), NEW j \in 1..BeamSize(S), b[i] = b[j]
        PROVE  i = j
    <2>1. ~(i < j) /\ ~(j < i)
      BY <1>2, <1>4, RankingsStrict
    <2> QED
      BY <1>1, <2>1
  <1> QED
    BY <1>1, <1>3, <1>4 DEF IsInjective

LEMMA PrefixDistinct ==
  ASSUME NEW S, NEW s \in Seq(S), NEW n \in 0..Len(s),
         \A i, j \in 1..Len(s) : s[i] = s[j] => i = j
  PROVE  /\ SubSeq(s, 1, n) \in Seq(S) /\ Len(SubSeq(s, 1, n)) = n
         /\ \A i \in 1..n : SubSeq(s, 1, n)[i] = s[i]
         /\ \A i, j \in 1..n : SubSeq(s, 1, n)[i] = SubSeq(s, 1, n)[j] => i = j
  <1>1. /\ SubSeq(s, 1, n) \in Seq(S) /\ Len(SubSeq(s, 1, n)) = n
        /\ \A i \in 1..n : SubSeq(s, 1, n)[i] = s[i]
    OBVIOUS
  <1>2. n \in Nat /\ 1..n \subseteq 1..Len(s)
    OBVIOUS
  <1> QED
    BY <1>1, <1>2

LEMMA DiverseDistinct ==
  ASSUME NEW S \in SUBSET Cand, S # {}, NEW s \in Diverse(S),
         NEW b, b = SubSeq(s, 1, BeamSize(S))
  PROVE  b \in Seq(S) /\ b # <<>> /\ Len(b) <= BeamWidth /\ IsInjective(b)
  <1>1. /\ BeamSize(S) \in Nat \ {0} /\ BeamSize(S) <= BeamWidth
        /\ BeamSize(S) <= Cardinality(S) /\ Cardinality(S) \in Nat
    BY BeamSizeBound
  <1>2. /\ s \in [1..Cardinality(S) -> S]
        /\ \A i, j \in 1..Cardinality(S) : s[i] = s[j] => i = j
    BY DEF Diverse, Orders, Bijection, Injection, IsInjective
  <1>3. s \in Seq(S) /\ Len(s) = Cardinality(S) /\ BeamSize(S) \in 0..Len(s)
    BY <1>1, <1>2
  <1>4. /\ b \in Seq(S) /\ Len(b) = BeamSize(S)
        /\ \A i, j \in 1..BeamSize(S) : b[i] = b[j] => i = j
    BY <1>2, <1>3, PrefixDistinct
  <1>5. b # <<>> /\ IsInjective(b)
    BY <1>1, <1>4, DistinctList
  <1> QED
    BY <1>1, <1>4, <1>5

LEMMA BeamsDistinct ==
  ASSUME rec \in [Cand -> Record], NEW S, S \subseteq Correct, S # {}, NEW b \in Beams(S)
  PROVE  Beam(b)
  <1>1. S \in SUBSET Cand
    BY DEF Correct
  <1>2. b \in Seq(S) /\ b # <<>> /\ Len(b) <= BeamWidth /\ IsInjective(b)
    BY <1>1, FastestDistinct, DiverseDistinct DEF Beams
  <1> QED
    BY <1>2, SequenceFacts DEF Beam

LEMMA PoolBeam ==
  ASSUME ResumeInv, Running, NEW b \in Beams(BeamPool)
  PROVE  Beam(b)
  <1>1. Beam(beam) /\ measured \subseteq Correct /\ rec \in [Cand -> Record]
    BY RecordFacts DEF ResumeInv, BeamInv, ListsInv
  <1>2. Range(beam) \subseteq Correct /\ beam[1] \in Range(beam)
    BY <1>1 DEF Beam, Range
  <1> QED
    BY <1>1, <1>2, BeamsDistinct DEF BeamPool

LEMMA Prepended ==
  ASSUME NEW S, NEW p \in Seq(S), NEW x, x \notin S,
         \A i, j \in 1..Len(p) : p[i] = p[j] => i = j
  PROVE  /\ <<x>> \o p \in Seq(S \cup {x}) /\ Len(<<x>> \o p) = Len(p) + 1
         /\ <<x>> \o p # <<>> /\ IsInjective(<<x>> \o p)
         /\ Head(<<x>> \o p) = x
  <1> DEFINE q == <<x>> \o p
  <1>1. /\ q \in Seq(S \cup {x}) /\ Len(q) = Len(p) + 1 /\ q[1] = x
        /\ \A i \in 2..Len(q) : i - 1 \in 1..Len(p) /\ q[i] = p[i - 1] /\ q[i] \in S
        /\ Head(q) = q[1]
    OBVIOUS
  <1> HIDE DEF q
  <1>2. ASSUME NEW i \in 1..Len(q), NEW j \in 1..Len(q), q[i] = q[j]
        PROVE  i = j
    <2>1. (i = 1 \/ i \in 2..Len(q)) /\ (j = 1 \/ j \in 2..Len(q))
      OBVIOUS
    <2>2. CASE i \in 2..Len(q) /\ j \in 2..Len(q)
      <3>1. i - 1 = j - 1
        BY <1>1, <1>2, <2>2
      <3> QED
        BY <2>2, <3>1
    <2> QED
      BY <1>1, <1>2, <2>1, <2>2
  <1>3. Len(q) \in Nat \ {0}
    BY <1>1
  <1>4. q # <<>> /\ IsInjective(q)
    BY <1>1, <1>2, <1>3, DistinctList
  <1> QED
    BY <1>1, <1>4 DEF q

(* Final validation puts the winner in front of the others that passed.    *)
LEMMA FinalBeam ==
  ASSUME ResumeInv, Running, NEW best \in Cand, FinalWinner(best),
         NEW rest \in ByFinal({c \in Range(beam) \ {best} : rec[c].final > 0}),
         NEW b, b = <<best>> \o SubSeq(rest, 1, Smaller(BeamWidth - 1, Len(rest)))
  PROVE  Beam(b) /\ Head(b) = best
  <1> DEFINE S == {c \in Range(beam) \ {best} : rec[c].final > 0}
             n == Smaller(BeamWidth - 1, Len(rest))
  <1>1. /\ Beam(beam) /\ rec \in [Cand -> Record] /\ HasCheckpoint
        /\ Seed \in Correct
    <2>1. HasCheckpoint
      BY DEF ResumeInv, FlowInv, ControlInv
    <2>2. Beam(beam) /\ MeasuredCorrect(Seed)
      BY <2>1 DEF ResumeInv, BeamInv, SeedInv
    <2> QED
      BY <2>1, <2>2, RecordFacts, Bounds DEF Correct
  <1>2. Range(beam) \subseteq Correct
    BY <1>1 DEF Beam, Range
  <1>3. Range(Finalists) \subseteq Correct
    <2>1. beam \in Seq(Correct) /\ Len(beam) \in Nat /\ FinalCount \in Nat
      BY <1>1, ConstantsAssumption DEF Beam
    <2>2. Smaller(FinalCount, Len(beam)) \in 0..Len(beam)
      BY <2>1 DEF Smaller
    <2>3. Finalists \in Seq(Correct)
      BY <2>1, <2>2 DEF Finalists
    <2> QED
      BY <2>3 DEF Range
  <1>4. best \in Correct
    BY <1>1, <1>3 DEF FinalWinner
  <1>5. S \subseteq Correct /\ S \in SUBSET Cand /\ best \notin S
    BY <1>2 DEF Correct
  <1>6. /\ rest \in [1..Cardinality(S) -> S]
        /\ \A i, j \in 1..Cardinality(S) : i < j => FinalFaster(rest[i], rest[j])
    BY DEF ByFinal
  <1> HIDE DEF S
  <1>7. Cardinality(S) \in Nat
    BY <1>5, FiniteSubset
  <1>8. rest \in Seq(S) /\ Len(rest) = Cardinality(S)
    BY <1>6, <1>7
  <1>9. ASSUME NEW i \in 1..Len(rest), NEW j \in 1..Len(rest), rest[i] = rest[j]
        PROVE  i = j
    <2>1. rest[i] \in Cand
      BY <1>5, <1>8
    <2>2. ~(i < j) /\ ~(j < i)
      BY <1>1, <1>6, <1>8, <1>9, <2>1, RankingsStrict
    <2> QED
      BY <1>8, <2>2
  <1>10. n \in 0..Len(rest) /\ n <= BeamWidth - 1
    BY <1>7, <1>8, ConstantsAssumption DEF Smaller
  <1> DEFINE p == SubSeq(rest, 1, n)
  <1>11. /\ p \in Seq(S) /\ Len(p) = n
         /\ \A i, j \in 1..n : p[i] = p[j] => i = j
    BY <1>8, <1>9, <1>10, PrefixDistinct
  <1>12. b = <<best>> \o p
    OBVIOUS
  <1> HIDE DEF p, n
  <1>13. /\ b \in Seq(S \cup {best}) /\ Len(b) = n + 1
         /\ b # <<>> /\ IsInjective(b) /\ Head(b) = best
    <2>1. \A i, j \in 1..Len(p) : p[i] = p[j] => i = j
      BY <1>11
    <2>2. /\ <<best>> \o p \in Seq(S \cup {best}) /\ Len(<<best>> \o p) = Len(p) + 1
          /\ <<best>> \o p # <<>> /\ IsInjective(<<best>> \o p)
          /\ Head(<<best>> \o p) = best
      BY <1>5, <1>11, <2>1, Prepended
    <2> QED
      BY <1>11, <1>12, <2>2
  <1>14. n + 1 <= BeamWidth
    BY <1>7, <1>8, <1>10, ConstantsAssumption
  <1>15. b \in Seq(Correct)
    BY <1>4, <1>5, <1>13, SequenceFacts
  <1> QED
    BY <1>13, <1>14, <1>15 DEF Beam

(* Where a beam comes from.                                                *)
LEMMA BeamSource ==
  ASSUME ResumeInv, HasCheckpoint, [Next]_vars
  PROVE  \/ ~Running' /\ (ckpt'.beam = ckpt.beam \/ (Running /\ ckpt'.beam = beam))
         \/ Running /\ beam' = beam /\ ckpt'.beam \in {ckpt.beam, beam}
         \/ Running /\ beam' \in Beams(BeamPool) /\ ckpt'.beam = beam'
         \/ beam' = ckpt.beam /\ ckpt' = ckpt
         \/ Running /\ Beam(beam') /\ ckpt'.beam = beam' /\ FinishFinalization
  <1> USE DEF Running, RoundStages, RepairLoops, Closing, session, stage, memory
  <1>0. ckpt \in Checkpoint
    BY DEF ResumeInv, SearchInv, ShapeInv, TypeOK
  <1>1. CASE \/ StartGeneration \/ ResumeRound \/ EndSearch \/ GenerateFromParent
             \/ EndGeneration
    BY <1>1 DEF StartGeneration, ResumeRound, EndSearch, GenerateFromParent,
                EndGeneration
  <1>a. CASE \/ PassOver \/ ModelCandidate \/ SkipModelCandidates
             \/ StartModelRepair \/ ModelRepaired
    BY <1>a DEF PassOver, ModelCandidate, SkipModelCandidates, StartModelRepair,
                ModelRepaired
  <1>2. CASE \/ MeasureCandidate \/ StartMeasureRepair \/ RemodelRepaired
             \/ RemeasureRepaired \/ StartProfiling \/ ProfileMeasured
    BY <1>2 DEF MeasureCandidate, StartMeasureRepair, RemodelRepaired,
                RemeasureRepaired, StartProfiling, ProfileMeasured
  <1>3. ASSUME NEW ph, NEW ids, NEW sel, NEW best, NEW b,
               StopForTime(ph, ids, sel, best, b)
        PROVE  beam' = b /\ ckpt'.beam = b
    BY <1>3, SavedFields DEF StopForTime
  <1>4. CASE StopAtRoundStart
    BY <1>3, <1>4 DEF StopAtRoundStart
  <1>c. CASE FinishGeneration
    <2>1. pc = "static_repair"
      BY <1>c DEF FinishGeneration
    <2>2. \/ \E ids : StopForTime(Phase, ids, <<>>, None, beam)
          \/ /\ beam' = beam
             /\ \/ ckpt' = Saved("round_completed", round, None, <<>>, <<>>, None, beam)
                \/ ckpt' = Saved("search_stopped", round - 1, None, <<>>, <<>>, None, beam)
                \/ \E ids : ckpt' = Saved("generated", round - 1, round, ids, <<>>, None, beam)
      BY <1>c DEF FinishGeneration
    <2>3. beam' = beam /\ ckpt'.beam = beam
      BY <1>3, <2>2, SavedFields
    <2> QED
      BY <2>1, <2>3
  <1>b. CASE FinishModeling \/ SelectCandidates \/ BeforeMeasurement
    BY <1>3, <1>b, SavedFields
       DEF FinishModeling, SelectCandidates, BeforeMeasurement
  <1>5. CASE MaybeProfileRound \/ FinishRound
    BY <1>3, <1>5, SavedFields DEF MaybeProfileRound, FinishRound
  <1>6. CASE FinishMeasurement
    BY <1>3, <1>6, SavedFields DEF FinishMeasurement
  <1>7. CASE UpdateBeam
    BY <1>7, SavedFields DEF UpdateBeam
  <1>8. CASE RepairCandidate
    BY <1>0, <1>8 DEF RepairCandidate, Checkpoint
  <1>9. CASE Restore
    BY <1>9 DEF Restore
  <1>10. CASE Raise /\ UNCHANGED ckpt
    BY <1>10 DEF Raise
  <1>11. CASE (FreezeSearch \/ FinalizeCandidate) /\ ~Raise
    BY <1>11 DEF FreezeSearch, FinalizeCandidate
  <1>12. CASE FinishFinalization /\ ~Raise
    <2>1. PICK best \in Cand :
             /\ FinalWinner(best)
             /\ \E rest \in ByFinal({c \in Range(beam) \ {best} : rec[c].final > 0}) :
                  beam' = <<best>> \o SubSeq(rest, 1, Smaller(BeamWidth - 1, Len(rest)))
      BY <1>12 DEF FinishFinalization
    <2>2. /\ pc = "finalize"
          /\ ckpt' = Saved("finalized", ckpt.completed, None, <<>>, <<>>, None, beam')
      BY <1>12 DEF FinishFinalization
    <2>3. ckpt'.beam = beam' /\ Running
      BY <2>2, SavedFields
    <2>4. Beam(beam')
      BY <2>1, <2>3, FinalBeam
    <2> QED
      BY <1>12, <2>3, <2>4
  <1>13. CASE Export
    <2>1. \/ ckpt' = [ckpt EXCEPT !.searchBest = searchBest]
          \/ ckpt'.beam = beam
      BY <1>13, SavedFields DEF Export
    <2>2. pc = "export" /\ pc' \in {"stopped", "completed"}
      BY <1>13 DEF Export
    <2> QED
      BY <1>0, <2>1, <2>2 DEF Checkpoint
  <1>14. CASE Resume
    BY <1>14 DEF Resume
  <1>15. CASE Deadline \/ UNCHANGED vars
    BY <1>15 DEF Deadline, vars
  <1>16. ~(Begin \/ ModelSeed \/ MeasureSeed \/ ProfileSeed \/ FinishSeed)
    BY DEF Begin, HasCheckpoint, ModelSeed, MeasureSeed, ProfileSeed, FinishSeed,
           ResumeInv, SearchInv, OnceInv, SeedStages
  <1>17. CASE CircuitBreaker \/ Crash
    BY <1>10, <1>17 DEF CircuitBreaker, Crash
  <1>18. CASE FreezeSearch \/ FinalizeCandidate \/ FinishFinalization
    <2>1. Raise => UNCHANGED ckpt
      BY <1>18 DEF Raise, FreezeSearch, FinalizeCandidate, FinishFinalization
    <2> QED
      BY <1>10, <1>11, <1>12, <1>18, <2>1
  <1> QED
    BY <1>1, <1>2, <1>a, <1>4, <1>b, <1>c, <1>5, <1>6, <1>7, <1>8, <1>9, <1>13,
       <1>14, <1>15, <1>16, <1>17, <1>18 DEF Next, Work, Rest

LEMMA NextBeams ==
  ASSUME ResumeInv, [Next]_vars
  PROVE  BeamInv'
  <1>1. CASE HasCheckpoint
    <2>1. ASSUME NEW b, Beam(b)
          PROVE  b \in Seq(Correct')
      BY <1>1, <2>1, Growth, SequenceFacts DEF Beam
    <2>2. /\ Beam(ckpt.beam) /\ (Running => Beam(beam))
      BY <1>1 DEF ResumeInv, BeamInv
    <2>3. /\ Beam(ckpt'.beam)
          /\ Running' => Beam(beam')
      BY <1>1, <2>2, BeamSource, PoolBeam
    <2> QED
      BY <2>1, <2>3 DEF BeamInv, Beam
  <1>2. CASE ~HasCheckpoint /\ Onward
    <2>1. FinishSeed
      BY <1>2, FirstCheckpoint
    <2>2. /\ pc = "seed_done" /\ beam' = <<Seed>> /\ UNCHANGED rec
          /\ ckpt'.beam = <<Seed>>
      BY <2>1, SavedFields DEF FinishSeed
    <2>3. Seed \in Correct'
      BY <2>2, Bounds DEF ResumeInv, SeedInv, Correct, MeasuredCorrect
    <2>4. <<Seed>> \in Seq(Correct') /\ <<Seed>> # <<>> /\ Len(<<Seed>>) = 1
          /\ IsInjective(<<Seed>>)
      BY <2>3, SingletonList
    <2>5. 1 <= BeamWidth
      BY ConstantsAssumption
    <2> QED
      BY <2>2, <2>4, <2>5 DEF BeamInv, Beam
  <1>3. CASE ~HasCheckpoint /\ ~Onward
    <2>0. ~Running /\ ~Export
      BY <1>3 DEF Export, ResumeInv, FlowInv, ControlInv, Running, Closing
    <2>1. ~Running'
      <3>1. Raise \/ Resume \/ Deadline \/ UNCHANGED vars \/ pc' \in SeedStages
        BY <1>3, <2>0, Outcome
      <3>2. \/ pc' \in {"failed", "ready"} \cup SeedStages
            \/ pc' = pc
        BY <3>1 DEF Raise, Resume, Deadline, vars
      <3> QED
        BY <2>0, <3>2 DEF Running, SeedStages, RoundStages, RepairLoops, Closing
    <2>2. ~HasCheckpoint'
      <3>1. UNCHANGED ckpt
        BY <1>3, <2>0, Outcome
           DEF Resume, Deadline, vars, Begin, ModelSeed, MeasureSeed,
               ProfileSeed, Raise, SeedStages
      <3> QED
        BY <1>3, <3>1 DEF HasCheckpoint
    <2> QED
      BY <2>1, <2>2 DEF BeamInv
  <1> QED
    BY <1>1, <1>2, <1>3

-----------------------------------------------------------------------------
(* What may reach the hardware.                                            *)

LEMMA ClockStep ==
  ASSUME [Next]_vars
  PROVE  expired' = expired \/ (Deadline /\ TimeLimited) \/ (Resume /\ (expired' => expired))
  <1> USE DEF outside
  <1>1. CASE \/ Begin \/ Restore \/ ModelSeed \/ MeasureSeed \/ ProfileSeed
             \/ FinishSeed
    BY <1>1 DEF Begin, Restore, ModelSeed, MeasureSeed, ProfileSeed, FinishSeed, Raise
  <1>2. CASE \/ StopAtRoundStart \/ StartGeneration \/ ResumeRound \/ EndSearch
             \/ GenerateFromParent \/ EndGeneration \/ FinishGeneration
    BY <1>2 DEF StopAtRoundStart, StopForTime, StartGeneration, ResumeRound,
                EndSearch, GenerateFromParent, EndGeneration, FinishGeneration
  <1>3. CASE \/ PassOver \/ RepairCandidate \/ ModelCandidate
             \/ SkipModelCandidates \/ StartModelRepair \/ ModelRepaired
             \/ FinishModeling \/ SelectCandidates \/ BeforeMeasurement
    BY <1>3 DEF PassOver, RepairCandidate, ModelCandidate, SkipModelCandidates,
                StartModelRepair, ModelRepaired, FinishModeling, StopForTime,
                SelectCandidates, BeforeMeasurement
  <1>4. CASE \/ MeasureCandidate \/ StartMeasureRepair \/ RemodelRepaired
             \/ RemeasureRepaired \/ StartProfiling \/ ProfileMeasured
             \/ FinishMeasurement \/ UpdateBeam \/ MaybeProfileRound \/ FinishRound
    BY <1>4 DEF MeasureCandidate, StartMeasureRepair, RemodelRepaired,
                RemeasureRepaired, StartProfiling, ProfileMeasured,
                FinishMeasurement, StopForTime, UpdateBeam, MaybeProfileRound,
                FinishRound
  <1>5. CASE \/ FreezeSearch \/ FinalizeCandidate \/ FinishFinalization \/ Export
             \/ CircuitBreaker \/ Crash
    BY <1>5 DEF FreezeSearch, FinalizeCandidate, FinishFinalization, Export,
                CircuitBreaker, Crash, Raise
  <1>6. CASE Deadline \/ Resume \/ UNCHANGED vars
    BY <1>6 DEF Deadline, Resume, vars
  <1> QED
    BY <1>1, <1>2, <1>3, <1>4, <1>5, <1>6 DEF Next, Work, Rest

(* The steps that measurement and re-measurement are entered from.         *)
LEMMA MeasureEntry ==
  ASSUME [Next]_vars
  PROVE  /\ pc' = "measure" =>
              \/ pc = "before_measure" /\ Phase = "selected" /\ todo' = ckpt.sel
              \/ pc = "measure" /\ todo' \in {todo, <<>>}
              \/ pc = "measure" /\ todo # <<>> /\ todo' = Tail(todo)
         /\ pc' = "remeasure" =>
              \/ RepairCandidate \/ RemodelRepaired
              \/ pc = "remeasure" /\ todo' = todo /\ (expired => expired')
  <1> USE DEF outside, memory, session, stage
  <1>1. CASE \/ Begin \/ Restore \/ ModelSeed \/ MeasureSeed \/ ProfileSeed
             \/ FinishSeed
    BY <1>1 DEF Begin, Restore, ModelSeed, MeasureSeed, ProfileSeed, FinishSeed, Raise
  <1>2. CASE \/ StopAtRoundStart \/ StartGeneration \/ ResumeRound \/ EndSearch
             \/ GenerateFromParent \/ EndGeneration
    BY <1>2 DEF StopAtRoundStart, StopForTime, StartGeneration, ResumeRound,
                EndSearch, GenerateFromParent, EndGeneration
  <1>3. CASE FinishGeneration \/ PassOver \/ ModelCandidate
    BY <1>3 DEF FinishGeneration, StopForTime, PassOver, ModelCandidate, RepairLoops
  <1>4. CASE \/ SkipModelCandidates \/ StartModelRepair \/ ModelRepaired
             \/ FinishModeling \/ SelectCandidates
    BY <1>4 DEF SkipModelCandidates, StartModelRepair, ModelRepaired,
                FinishModeling, StopForTime, SelectCandidates
  <1>5. CASE BeforeMeasurement
    BY <1>5 DEF BeforeMeasurement, StopForTime
  <1>6. CASE RepairCandidate
    BY <1>6 DEF RepairCandidate, RepairLoops
  <1>7. CASE MeasureCandidate
    BY <1>7 DEF MeasureCandidate
  <1>8. CASE \/ StartMeasureRepair \/ RemodelRepaired
             \/ RemeasureRepaired \/ StartProfiling \/ ProfileMeasured
    BY <1>8 DEF StartMeasureRepair, RemodelRepaired, RemeasureRepaired,
                StartProfiling, ProfileMeasured
  <1>9. CASE FinishMeasurement \/ UpdateBeam \/ MaybeProfileRound \/ FinishRound
    BY <1>9 DEF FinishMeasurement, StopForTime, UpdateBeam, MaybeProfileRound,
                FinishRound
  <1>10. CASE \/ FreezeSearch \/ FinalizeCandidate \/ FinishFinalization \/ Export
              \/ CircuitBreaker \/ Crash
    BY <1>10 DEF FreezeSearch, FinalizeCandidate, FinishFinalization, Export,
                 CircuitBreaker, Crash, Raise
  <1>11. CASE Deadline \/ Resume \/ UNCHANGED vars
    BY <1>11 DEF Deadline, Resume, vars
  <1> QED
    BY <1>1, <1>2, <1>3, <1>4, <1>5, <1>6, <1>7, <1>8, <1>9, <1>10, <1>11
       DEF Next, Work, Rest

(* The steps that a checkpoint of selected candidates is taken by.         *)
LEMMA SelectedStep ==
  ASSUME ResumeInv, [Next]_vars, ckpt'.phase = "selected"
  PROVE  \/ ckpt.phase = "selected" /\ ckpt'.sel = ckpt.sel
         \/ SelectCandidates
         \/ FinishMeasurement /\ expired /\ ckpt'.sel = ckpt.sel \o repaired
  <1>0. ckpt \in Checkpoint
    BY DEF ResumeInv, SearchInv, ShapeInv, TypeOK
  <1>1. CASE \/ StartGeneration \/ ResumeRound \/ EndSearch \/ GenerateFromParent
             \/ EndGeneration \/ PassOver \/ ModelCandidate \/ SkipModelCandidates
             \/ StartModelRepair \/ ModelRepaired
    BY <1>1 DEF StartGeneration, ResumeRound, EndSearch, GenerateFromParent,
                EndGeneration, PassOver, ModelCandidate, SkipModelCandidates,
                StartModelRepair, ModelRepaired
  <1>2. CASE \/ MeasureCandidate \/ StartMeasureRepair \/ RemodelRepaired
             \/ RemeasureRepaired \/ StartProfiling \/ ProfileMeasured
             \/ FreezeSearch \/ Begin \/ Restore
    BY <1>2 DEF MeasureCandidate, StartMeasureRepair, RemodelRepaired,
                RemeasureRepaired, StartProfiling, ProfileMeasured, FreezeSearch,
                Begin, Restore
  <1>3. CASE \/ ModelSeed \/ MeasureSeed \/ ProfileSeed \/ FinalizeCandidate
             \/ CircuitBreaker \/ Deadline \/ Crash \/ Resume \/ UNCHANGED vars
    BY <1>3 DEF ModelSeed, MeasureSeed, ProfileSeed, FinalizeCandidate,
                CircuitBreaker, Deadline, Crash, Resume, vars
  <1>4. ASSUME NEW ph, NEW ids, NEW sel, NEW best, NEW b,
               StopForTime(ph, ids, sel, best, b)
        PROVE  ckpt'.phase = ph /\ ckpt'.sel = sel /\ expired
    BY <1>4, SavedFields DEF StopForTime
  <1>5. CASE StopAtRoundStart
    BY <1>4, <1>5 DEF StopAtRoundStart
  <1>6. CASE FinishGeneration
    <2>1. Phase = ""
      BY <1>6 DEF FinishGeneration, ResumeInv, FlowInv, ControlInv
    <2>2. \/ \E ids : StopForTime(Phase, ids, <<>>, None, beam)
          \/ ckpt' = Saved("round_completed", round, None, <<>>, <<>>, None, beam)
          \/ ckpt' = Saved("search_stopped", round - 1, None, <<>>, <<>>, None, beam)
          \/ \E ids : ckpt' = Saved("generated", round - 1, round, ids, <<>>, None, beam)
      BY <1>6 DEF FinishGeneration
    <2>3. CASE \E ids : StopForTime(Phase, ids, <<>>, None, beam)
      BY <1>4, <2>1, <2>3
    <2>4. CASE ~\E ids : StopForTime(Phase, ids, <<>>, None, beam)
      <3>1. ckpt'.phase \in {"round_completed", "search_stopped", "generated"}
        BY <2>2, <2>4 DEF Saved
      <3> QED
        BY <3>1
    <2> QED
      BY <2>3, <2>4
  <1>7. CASE FinishModeling
    <2>1. Phase = "generated"
      BY <1>7 DEF FinishModeling, ResumeInv, FlowInv, ControlInv, At, Phase
    <2> QED
      BY <1>4, <1>7, <2>1, SavedFields DEF FinishModeling
  <1>8. CASE BeforeMeasurement
    <2>1. Phase = ckpt.phase
      BY <1>8 DEF BeforeMeasurement, ResumeInv, FlowInv, ControlInv, At, Phase
    <2> QED
      BY <1>4, <1>8, <2>1 DEF BeforeMeasurement
  <1>9. CASE FinishMeasurement
    <2>1. \/ \E b : StopForTime(Phase, ckpt.ids \o repaired, ckpt.sel \o repaired,
                             ckpt.best, b)
          \/ ckpt' = Saved("measured", round - 1, round, ckpt.ids \o repaired,
                           ckpt.sel \o repaired, ckpt.best, beam)
      BY <1>9 DEF FinishMeasurement
    <2>2. CASE \E b : StopForTime(Phase, ckpt.ids \o repaired,
                                  ckpt.sel \o repaired, ckpt.best, b)
      BY <1>4, <1>9, <2>2
    <2>3. CASE ckpt'.phase = "measured"
      BY <2>3
    <2> QED
      BY <2>1, <2>2, <2>3, SavedFields
  <1>10. CASE UpdateBeam
    BY <1>10, SavedFields DEF UpdateBeam
  <1>11. CASE MaybeProfileRound \/ FinishRound
    <2>1. Phase = "beam_updated"
      BY <1>11 DEF MaybeProfileRound, FinishRound, ResumeInv, FlowInv, ControlInv, At, Phase
    <2>2. \/ StopForTime(Phase, ckpt.ids, ckpt.sel, ckpt.best, beam)
          \/ UNCHANGED ckpt
          \/ ckpt' = Saved("round_completed", round, None, ckpt.ids, ckpt.sel,
                           ckpt.best, beam)
      BY <1>11 DEF MaybeProfileRound, FinishRound
    <2> QED
      BY <1>4, <2>1, <2>2, SavedFields
  <1>12. CASE RepairCandidate
    BY <1>0, <1>12 DEF RepairCandidate, Checkpoint
  <1>13. CASE FinishSeed
    BY <1>13, SavedFields DEF FinishSeed
  <1>14. CASE FinishFinalization
    BY <1>14, SavedFields DEF FinishFinalization
  <1>15. CASE Export
    <2>1. \/ ckpt' = [ckpt EXCEPT !.searchBest = searchBest]
          \/ ckpt'.phase = "run_completed"
      BY <1>15, SavedFields DEF Export
    <2> QED
      BY <1>0, <2>1 DEF Checkpoint
  <1>16. CASE SelectCandidates
    BY <1>16
  <1> QED
    BY <1>1, <1>2, <1>3, <1>5, <1>6, <1>7, <1>8, <1>9, <1>10, <1>11, <1>12,
       <1>13, <1>14, <1>15, <1>16 DEF Next, Work, Rest

LEMMA HardwareRecords ==
  ASSUME ResumeInv, [Next]_vars
  PROVE  /\ HardwareAfterModel'
         /\ Policy # "tilesight" => \A c \in Cand : rec'[c].model = "none" /\ rec'[c].equiv = None
  <1>0. /\ Policy # "tilesight" => \A c \in Cand : rec[c].model = "none" /\ rec[c].equiv = None
        /\ \A c \in Cand :
             rec[c].meas # None /\ (TimeLimited => rec[c].kind # "repair")
               => FitForHardware(c)
        /\ \A c \in Cand : ~Exists(c) => rec[c].meas = None
    BY DEF ResumeInv, HardwareInv, HardwareAfterModel, ArchiveInv, Untouched
  <1>1. CASE Begin
    BY <1>1, BeginRecords DEF Untouched, HardwareAfterModel
  <1>2. CASE Created
    <2>1. ASSUME NEW c \in Cand, rec'[c].meas # None,
                 TimeLimited => rec'[c].kind # "repair"
          PROVE  FitForHardware(c)'
      BY <1>0, <1>2, <2>1 DEF Created, FitForHardware, ModelValid
    <2> QED
      BY <1>0, <1>2, <2>1 DEF Created, HardwareAfterModel
  <1>3. CASE Assessed
    <2>1. Policy # "tilesight" => \A c \in Cand : rec'[c].model = "none" /\ rec'[c].equiv = None
      BY <1>0, <1>3
         DEF Assessed, OnlyModelOf, OnlyMeasOf, OnlyProfileOf, OnlyFinalOf
    <2>2. ASSUME NEW c \in Cand, rec'[c].meas # None,
                 TimeLimited => rec'[c].kind # "repair"
          PROVE  FitForHardware(c)'
      <3>1. CASE UNCHANGED rec
        BY <1>0, <2>2, <3>1 DEF FitForHardware, ModelValid
      <3>2. ASSUME NEW d \in Archived, OnlyModelOf(d), rec[d].model = "none",
                   Policy = "tilesight"
            PROVE  FitForHardware(c)'
        <4>1. rec[c].meas # None /\ (TimeLimited => rec[c].kind # "repair")
          BY <2>2, <3>2 DEF OnlyModelOf
        <4>2. FitForHardware(c)
          BY <1>0, <4>1
        <4>3. c # d
          BY <3>2, <4>2 DEF FitForHardware, ModelValid
        <4> QED
          BY <3>2, <4>2, <4>3 DEF OnlyModelOf, FitForHardware, ModelValid
      <3>3. ASSUME NEW d \in MayMeasure, OnlyMeasOf(d)
            PROVE  FitForHardware(c)'
        <4>1. /\ rec'[c].kind = rec[c].kind /\ rec'[c].model = rec[c].model
              /\ rec'[c].equiv = rec[c].equiv
              /\ c # d => rec'[c].meas = rec[c].meas
          BY <3>3 DEF OnlyMeasOf
        <4>2. FitForHardware(c)
          BY <1>0, <2>2, <4>1 DEF MayMeasure
        <4> QED
          BY <4>1, <4>2 DEF FitForHardware, ModelValid
      <3>4. ASSUME NEW d \in Archived, OnlyProfileOf(d) \/ OnlyFinalOf(d)
            PROVE  FitForHardware(c)'
        BY <1>0, <2>2, <3>4
           DEF OnlyProfileOf, OnlyFinalOf, FitForHardware, ModelValid
      <3> QED
        BY <1>3, <3>1, <3>2, <3>3, <3>4 DEF Assessed
    <2> QED
      BY <2>1, <2>2 DEF HardwareAfterModel
  <1> QED
    BY <1>1, <1>2, <1>3, RecordStep

(* A candidate is promoted only when it is fit for the hardware.           *)
LEMMA SelectedFit ==
  ASSUME ResumeInv, SelectCandidates
  PROVE  ckpt'.sel \in Seq(MayMeasure)
  <1>1. PICK sel \in Selections :
           ckpt' = Saved("selected", round - 1, round, ckpt.ids, sel, Head(beam), beam)
    BY DEF SelectCandidates
  <1>2. ckpt'.sel = sel
    BY <1>1, SavedFields
  <1>3. InRound(CkptRound) \subseteq Cand /\ ckpt.ids \in Seq(InRound(CkptRound))
    BY DEF InRound, ResumeInv, ListsInv
  <1>4. sel \in Seq({c \in InRound(CkptRound) : Promotable(c)})
    BY <1>3, SelectionType
  <1>5. {c \in InRound(CkptRound) : Promotable(c)} \subseteq MayMeasure
    BY DEF ResumeInv, HardwareInv, Promotable, FitForHardware, InRound, MayMeasure
  <1> QED
    BY <1>2, <1>4, <1>5, SequenceFacts

(* A repair goes to the hardware at once without TileSight, and as soon as *)
(* the model accepts it as new code with it.                               *)
LEMMA RepairedFit ==
  ASSUME ResumeInv, [Next]_vars, HasCheckpoint, pc' = "remeasure",
         RepairCandidate \/ RemodelRepaired
  PROVE  expired' \/ Head(todo') \in MayMeasure'
  <1>0. rec \in [Cand -> Record]
    BY RecordFacts
  <1>1. CASE RepairCandidate
    <2>1. PICK c \in Absent, v \in Verdict :
             /\ rec' = [rec EXCEPT ![c] = RepairRecord(Head(queue), round, v)]
             /\ todo' = <<c>> /\ Policy # "tilesight"
      BY <1>1 DEF RepairCandidate, RepairLoops
    <2>2. c \in Cand
      BY DEF Absent
    <2>3. rec'[c].kind = "repair" /\ rec'[c].equiv = None
      <3>1. rec'[c] = RepairRecord(Head(queue), round, v)
        BY <1>0, <2>1, <2>2
      <3> QED
        BY <3>1 DEF RepairRecord, Blank
    <2>4. Head(todo') = c
      BY <2>1
    <2>5. FitForHardware(c)' /\ Exists(c)'
      BY <2>1, <2>3 DEF FitForHardware, Exists
    <2> QED
      BY <2>2, <2>4, <2>5 DEF MayMeasure
  <1>2. CASE RemodelRepaired
    <2> DEFINE c == Head(todo)
    <2>1. /\ pc = "remodel" /\ todo' = todo /\ expired' = expired
          /\ rec'[c].fail = "none" /\ rec'[c].equiv = None
          /\ expired \/ EvaluateModel(c)
      BY <1>2 DEF RemodelRepaired, outside
    <2>2. todo # <<>>
      BY <2>1 DEF ResumeInv, SearchInv, ShapeInv, StageInv
    <2>3. c \in Archived /\ c \in Cand
      BY <2>2, RecordFacts
    <2>4. c \in Archived'
      BY <2>3, Growth
    <2> HIDE DEF c
    <2>5. ASSUME EvaluateModel(c)
          PROVE  rec'[c].model \notin {"none", "invalid"}
      <3>1. ASSUME NEW why, why # "none", ModelFails(c, why)
            PROVE  FALSE
        <4> DEFINE r == [rec[c] EXCEPT !.model = "invalid", !.fail = why]
        <4>1. r.fail = why
          BY <1>0, <2>3 DEF Record
        <4>2. rec' = [rec EXCEPT ![c] = r]
          BY <3>1 DEF ModelFails
        <4> HIDE DEF r
        <4>3. rec'[c] = r
          BY <1>0, <2>3, <4>2
        <4> QED
          BY <2>1, <3>1, <4>1, <4>3
      <3>2. ModelSucceeds(c)
        <4>1. "none" \notin Category
          BY ConstantsAssumption
        <4> QED
          BY <2>5, <3>1, <4>1 DEF EvaluateModel
      <3>3. PICK h \in Hash \cup {"unhashed"} :
               rec' = [rec EXCEPT ![c] =
                         [@ EXCEPT !.model = h, !.fail = "none",
                                   !.equiv = Representative(c, h)]]
        BY <3>2 DEF ModelSucceeds
      <3>4. rec'[c].model = h
        <4> DEFINE r == [rec[c] EXCEPT !.model = h, !.fail = "none",
                                       !.equiv = Representative(c, h)]
        <4>1. r.model = h
          BY <1>0, <2>3 DEF Record
        <4>2. rec' = [rec EXCEPT ![c] = r]
          BY <3>3
        <4> HIDE DEF r
        <4> QED
          BY <1>0, <2>3, <4>1, <4>2
      <3> QED
        BY <3>4, ConstantsAssumption
    <2>6. EvaluateModel(c) => c \in MayMeasure'
      BY <2>1, <2>4, <2>5 DEF FitForHardware, ModelValid, MayMeasure, Archived
    <2> QED
      BY <2>1, <2>6 DEF c
  <1> QED
    BY <1>1, <1>2

LEMMA NextHardware ==
  ASSUME ResumeInv, [Next]_vars
  PROVE  HardwareInv'
  <1>1. expired' => TimeLimited
    BY ClockStep DEF ResumeInv, HardwareInv
  <1>2. HasCheckpoint => MayMeasure \subseteq MayMeasure'
    BY Growth
  <1>3. ASSUME ckpt'.phase = "selected"
        PROVE  ckpt'.sel \in Seq(MayMeasure')
    <2>1. HasCheckpoint
      BY <1>3, SelectedStep
         DEF HasCheckpoint, SelectCandidates, FinishMeasurement, ResumeInv, FlowInv,
             ControlInv, Running, RoundStages
    <2>2. ckpt'.sel \in Seq(MayMeasure')
      <3>1. CASE ckpt.phase = "selected" /\ ckpt'.sel = ckpt.sel
        BY <1>2, <2>1, <3>1, SequenceFacts DEF ResumeInv, HardwareInv
      <3>2. CASE SelectCandidates
        BY <1>2, <2>1, <3>2, SelectedFit, SequenceFacts
      <3>3. CASE FinishMeasurement /\ expired /\ ckpt'.sel = ckpt.sel \o repaired
        <4>1. TimeLimited /\ ckpt.phase = "selected" /\ pc = "profile_all"
          BY <3>3 DEF FinishMeasurement, ResumeInv, HardwareInv, FlowInv, ControlInv,
                      Measuring, At
        <4>2. Of("repair", round) \subseteq MayMeasure
          BY <4>1 DEF Of, MayMeasure, Exists
        <4>3. ckpt.sel \in Seq(MayMeasure) /\ repaired \in Seq(MayMeasure)
          BY <4>1, <4>2, SequenceFacts DEF ResumeInv, HardwareInv, ListsInv
        <4>4. ckpt.sel \o repaired \in Seq(MayMeasure)
          BY <4>3, Concatenation
        <4> QED
          BY <1>2, <2>1, <3>3, <4>4, SequenceFacts
      <3> QED
        BY <1>3, <3>1, <3>2, <3>3, SelectedStep
    <2> QED
      BY <2>2
  <1>4. ASSUME pc' = "measure"
        PROVE  todo' \in Seq(MayMeasure')
    <2>1. /\ HasCheckpoint
          /\ pc = "before_measure" /\ Phase = "selected" => ckpt.phase = "selected"
      BY <1>4, MeasureEntry
         DEF Running, RoundStages, ResumeInv, FlowInv, ControlInv, Phase
    <2>2. todo' \in Seq(MayMeasure)
      BY <1>4, <2>1, MeasureEntry, SequenceFacts DEF ResumeInv, HardwareInv
    <2> QED
      BY <1>2, <2>1, <2>2, SequenceFacts
  <1>5. ASSUME pc' = "remeasure"
        PROVE  expired' \/ Head(todo') \in MayMeasure'
    <2>1. HasCheckpoint
      BY <1>5, MeasureEntry
         DEF RepairCandidate, RemodelRepaired, Running, RoundStages, ResumeInv,
             FlowInv, ControlInv
    <2> QED
      BY <1>2, <1>5, <2>1, MeasureEntry, RepairedFit DEF ResumeInv, HardwareInv
  <1> QED
    BY <1>1, <1>3, <1>4, <1>5, HardwareRecords DEF HardwareInv

-----------------------------------------------------------------------------
(* The owners of compiled identities.                                      *)

LEMMA UniqueOwner ==
  ASSUME ResumeInv, Dedup, NEW h \in Hash, NEW c \in Cand, rec[c].model = h
  PROVE  /\ OwnerOf(c) \in Cand /\ Owns(OwnerOf(c), h)
         /\ \A d \in Cand : rec[d].model = h => OwnerOf(d) = OwnerOf(c)
  <1>1. \A d \in Cand : rec[d].equiv \in Cand \cup {None}
    BY RecordFacts DEF Record
  <1>2. \A d \in Cand : rec[d].model = h => OwnerOf(d) \in Cand /\ Owns(OwnerOf(d), h)
    BY <1>1 DEF ResumeInv, OwnerInv, OwnerOf, Owns
  <1>3. \A d, e \in Cand : Owns(d, h) /\ Owns(e, h) => d = e
    BY DEF ResumeInv, OwnerInv, Owns
  <1> QED
    BY <1>2, <1>3

(* An identity changes for one candidate only, the one that was modelled.  *)
SameIdentities ==
  \A c \in Cand :
    /\ rec'[c].equiv = rec[c].equiv
    /\ \/ rec'[c].model = rec[c].model
       \/ rec'[c].model \notin Hash /\ rec[c].model \notin Hash

LEMMA KeptOwners ==
  ASSUME ResumeInv, SameIdentities,
         \/ UNCHANGED owners /\ pc \notin {"ready"} \cup Ended
         \/ pc' \in {"ready"} \cup Ended
  PROVE  OwnerInv'
  <1>1. \A c \in Cand : rec[c].equiv \in Cand \cup {None}
    BY RecordFacts DEF Record
  <1>2. \A o \in Cand, h \in Hash : Owns(o, h) => Owns(o, h)'
    BY DEF SameIdentities, Owns
  <1>3. \A c \in Cand : rec'[c].equiv # None =>
          Dedup /\ rec'[c].model \in Hash /\ Owns(rec[c].equiv, rec[c].model)'
    BY <1>1, <1>2 DEF ResumeInv, OwnerInv, SameIdentities
  <1>4. Dedup => \A c, d \in Cand :
          c # d /\ rec'[c].model \in Hash /\ rec'[c].model = rec'[d].model
            => rec'[c].equiv # None \/ rec'[d].equiv # None
    BY DEF ResumeInv, OwnerInv, SameIdentities
  <1>5. ASSUME Dedup, UNCHANGED owners, pc \notin {"ready"} \cup Ended
        PROVE  /\ \A c \in Cand : rec'[c].model \in Hash => owners'[rec'[c].model] = OwnerOf(c)'
               /\ \A h \in Hash : owners'[h] # None => Owns(owners[h], h)'
    <2>1. owners \in [Hash -> Cand \cup {None}]
      BY DEF ResumeInv, SearchInv, ShapeInv, TypeOK
    <2>2. \A c \in Cand : OwnerOf(c)' = OwnerOf(c)
      BY DEF SameIdentities, OwnerOf
    <2>3. \A c \in Cand : rec'[c].model \in Hash => rec'[c].model = rec[c].model
      BY DEF SameIdentities
    <2>4. /\ \A c \in Cand : rec[c].model \in Hash => owners[rec[c].model] = OwnerOf(c)
          /\ \A h \in Hash : owners[h] # None => Owns(owners[h], h)
      BY <1>5 DEF ResumeInv, OwnerInv
    <2> QED
      BY <1>2, <1>5, <2>1, <2>2, <2>3, <2>4
  <1> QED
    BY <1>3, <1>4, <1>5 DEF OwnerInv

LEMMA ModelledOwners ==
  ASSUME ResumeInv, NEW c \in Cand, rec[c].model = "none", ModelSucceeds(c),
         pc \notin {"ready"} \cup Ended
  PROVE  OwnerInv'
  <1>0. /\ rec \in [Cand -> Record] /\ owners \in [Hash -> Cand \cup {None}]
        /\ \A d \in Cand : rec[d].equiv \in Cand \cup {None}
        /\ "none" \notin Hash /\ None \notin Cand
    BY RecordFacts, ConstantsAssumption
       DEF ResumeInv, SearchInv, ShapeInv, TypeOK, Record, None
  <1>1. PICK h \in Hash \cup {"unhashed"} :
          /\ rec' = [rec EXCEPT ![c] = [@ EXCEPT !.model = h, !.fail = "none",
                                                !.equiv = Representative(c, h)]]
          /\ owners' = IF Dedup /\ h \in Hash /\ Representative(c, h) = None
                       THEN [owners EXCEPT ![h] = c] ELSE owners
    BY DEF ModelSucceeds
  <1>2. /\ rec'[c].model = h /\ rec'[c].equiv = Representative(c, h)
        /\ \A d \in Cand \ {c} : rec'[d] = rec[d]
    <2> DEFINE r == [rec[c] EXCEPT !.model = h, !.fail = "none",
                                   !.equiv = Representative(c, h)]
    <2>1. r.model = h /\ r.equiv = Representative(c, h)
      BY <1>0 DEF Record
    <2>2. rec' = [rec EXCEPT ![c] = r]
      BY <1>1
    <2> HIDE DEF r
    <2> QED
      BY <1>0, <2>1, <2>2
  <1>3. rec[c].equiv = None
    BY <1>0 DEF ResumeInv, OwnerInv
  <1>4. /\ \A d \in Cand : rec[d].equiv # None =>
             Dedup /\ rec[d].model \in Hash /\ Owns(rec[d].equiv, rec[d].model)
        /\ Dedup => \A d, e \in Cand :
             d # e /\ rec[d].model \in Hash /\ rec[d].model = rec[e].model
               => rec[d].equiv # None \/ rec[e].equiv # None
        /\ Dedup => \A d \in Cand : rec[d].model \in Hash => owners[rec[d].model] = OwnerOf(d)
        /\ Dedup => \A k \in Hash : owners[k] # None => Owns(owners[k], k)
    BY DEF ResumeInv, OwnerInv
  <1>5. \A o \in Cand, k \in Hash : Owns(o, k) => o # c /\ Owns(o, k)'
    BY <1>0, <1>2 DEF Owns
  <1>6. \A d \in Cand \ {c} : OwnerOf(d)' = OwnerOf(d)
    BY <1>2 DEF OwnerOf
  <1>7. CASE Representative(c, h) # None
    <2>1. /\ Dedup /\ h \in Hash /\ Representative(c, h) = owners[h]
          /\ owners[h] # None /\ owners' = owners
      BY <1>1, <1>7 DEF Representative
    <2>2. owners[h] \in Cand /\ Owns(owners[h], h)'
      BY <1>0, <1>4, <1>5, <2>1
    <2>3. OwnerOf(c)' = owners[h]
      BY <1>2, <1>7, <2>1 DEF OwnerOf
    <2>4. \A d \in Cand : rec'[d].equiv # None =>
            Dedup /\ rec'[d].model \in Hash /\ Owns(rec[d].equiv, rec[d].model)'
      BY <1>0, <1>2, <1>4, <1>5, <2>1, <2>2
    <2>5. \A d, e \in Cand :
            d # e /\ rec'[d].model \in Hash /\ rec'[d].model = rec'[e].model
              => rec'[d].equiv # None \/ rec'[e].equiv # None
      BY <1>2, <1>4, <1>7, <2>1
    <2>6. \A d \in Cand : rec'[d].model \in Hash => owners'[rec'[d].model] = OwnerOf(d)'
      BY <1>2, <1>4, <1>6, <2>1, <2>3
    <2>7. \A k \in Hash : owners'[k] # None => Owns(owners[k], k)'
      BY <1>0, <1>4, <1>5, <2>1
    <2> QED
      BY <2>4, <2>5, <2>6, <2>7 DEF OwnerInv
  <1>8. CASE Representative(c, h) = None
    <2>1. \A d \in Cand : rec'[d].equiv # None =>
            Dedup /\ rec'[d].model \in Hash /\ Owns(rec[d].equiv, rec[d].model)'
      BY <1>0, <1>2, <1>4, <1>5, <1>8
    <2>2. CASE Dedup /\ h \in Hash
      <3>1. owners[h] \in {None, c}
        BY <1>8, <2>2 DEF Representative
      <3>2. owners[h] = None
        BY <1>0, <1>4, <1>5, <2>2, <3>1
      <3>3. \A d \in Cand : rec[d].model # h
        BY <1>0, <1>4, <2>2, <3>2 DEF OwnerOf
      <3>4. owners'[h] = c /\ \A k \in Hash \ {h} : owners'[k] = owners[k]
        BY <1>0, <1>1, <1>8, <2>2
      <3>5. \A d, e \in Cand :
              d # e /\ rec'[d].model \in Hash /\ rec'[d].model = rec'[e].model
                => rec'[d].equiv # None \/ rec'[e].equiv # None
        BY <1>2, <1>4, <2>2, <3>3
      <3>6. OwnerOf(c)' = c
        BY <1>2, <1>8 DEF OwnerOf
      <3>7. \A d \in Cand : rec'[d].model \in Hash => owners'[rec'[d].model] = OwnerOf(d)'
        BY <1>2, <1>4, <1>6, <2>2, <3>3, <3>4, <3>6
      <3>8. Owns(c, h)'
        BY <1>2, <1>8 DEF Owns
      <3>9. \A k \in Hash : owners'[k] # None => Owns(owners[k], k)'
        BY <1>0, <1>4, <1>5, <2>2, <3>4, <3>8
      <3> QED
        BY <2>1, <3>5, <3>7, <3>9 DEF OwnerInv
    <2>3. CASE ~(Dedup /\ h \in Hash)
      <3>1. owners' = owners
        BY <1>1, <2>3
      <3>2. Dedup => rec'[c].model \notin Hash
        BY <1>2, <2>3
      <3>3. Dedup => \A d, e \in Cand :
              d # e /\ rec'[d].model \in Hash /\ rec'[d].model = rec'[e].model
                => rec'[d].equiv # None \/ rec'[e].equiv # None
        BY <1>2, <1>4, <3>2
      <3>4. Dedup => \A d \in Cand : rec'[d].model \in Hash =>
                       owners'[rec'[d].model] = OwnerOf(d)'
        BY <1>2, <1>4, <1>6, <3>1, <3>2
      <3>5. Dedup => \A k \in Hash : owners'[k] # None => Owns(owners[k], k)'
        BY <1>0, <1>4, <1>5, <3>1
      <3> QED
        BY <2>1, <3>3, <3>4, <3>5 DEF OwnerInv
    <2> QED
      BY <2>2, <2>3
  <1> QED
    BY <1>7, <1>8

LEMMA RestoredOwners ==
  ASSUME ResumeInv, Restore
  PROVE  OwnerInv'
  <1>1. UNCHANGED rec /\ RebuiltOwners(owners')
    BY DEF Restore
  <1>2. ASSUME Dedup, NEW h \in Hash
        PROVE  /\ \A d \in Cand : rec[d].model = h => owners'[h] = OwnerOf(d)
               /\ owners'[h] # None => Owns(owners'[h], h)
    <2> DEFINE holders == {d \in Cand : Dedup /\ rec[d].model = h}
    <2>1. \/ holders = {} /\ owners'[h] = None
          \/ \E c \in holders : owners'[h] = OwnerOf(c)
      BY <1>1 DEF RebuiltOwners
    <2> QED
      BY <1>2, <2>1, UniqueOwner
  <1>3. \A c \in Cand : OwnerOf(c)' = OwnerOf(c)
    BY <1>1 DEF OwnerOf
  <1>4. \A o, h : Owns(o, h)' <=> Owns(o, h)
    BY <1>1 DEF Owns
  <1>5. Dedup => /\ \A c \in Cand : rec'[c].model \in Hash => owners'[rec'[c].model] = OwnerOf(c)'
                 /\ \A h \in Hash : owners'[h] # None => Owns(owners[h], h)'
    BY <1>1, <1>2, <1>3, <1>4
  <1> QED
    BY <1>1, <1>4, <1>5 DEF ResumeInv, OwnerInv

(* A process that does not run evaluates nothing.                          *)
LEMMA IdleRecords ==
  ASSUME [Next]_vars, pc \in {"ready"} \cup Ended
  PROVE  Begin \/ UNCHANGED rec
  <1>1. ~(\/ ModelSeed \/ MeasureSeed \/ ProfileSeed \/ GenerateFromParent
          \/ RepairCandidate \/ CircuitBreaker)
    BY DEF ModelSeed, MeasureSeed, ProfileSeed, GenerateFromParent,
           RepairCandidate, CircuitBreaker, RepairLoops, Ended
  <1>2. ~(\/ ModelCandidate \/ ModelRepaired \/ MeasureCandidate
          \/ RemodelRepaired \/ RemeasureRepaired \/ ProfileMeasured
          \/ MaybeProfileRound \/ FinalizeCandidate)
    BY DEF ModelCandidate, ModelRepaired, MeasureCandidate, RemodelRepaired,
           RemeasureRepaired, ProfileMeasured, MaybeProfileRound,
           FinalizeCandidate, Ended
  <1>3. Still => UNCHANGED rec
    BY StillSteps
  <1> QED
    BY <1>1, <1>2, <1>3 DEF Next, Work, Rest, Still

LEMMA OwnersStep ==
  ASSUME ResumeInv, [Next]_vars
  PROVE  \/ pc' \in {"ready"} \cup Ended
         \/ Restore \/ Begin
         \/ pc \notin {"ready"} \cup Ended /\ UNCHANGED owners
         \/ \E c \in Archived : rec[c].model = "none" /\ ModelSucceeds(c)
  <1> USE DEF memory, identities, Ended
  <1>0. /\ todo # <<>> => Head(todo) \in Archived
        /\ pc \in SeedStages => Seed \in Archived
        /\ pc \in {"model_repaired", "remodel"} => todo # <<>> /\ rec[Head(todo)].model = "none"
    BY RecordFacts DEF ResumeInv, SearchInv, OnceInv, ShapeInv, StageInv
  <1>1. CASE ModelSeed
    <2>1. pc = "seed_model" /\ (ModelSucceeds(Seed) \/ pc' = "failed")
      BY <1>1 DEF ModelSeed, Raise
    <2>2. Seed \in Archived /\ rec[Seed].model = "none"
      BY <1>0, <2>1 DEF ResumeInv, SeedInv, Untouched, SeedStages
    <2> QED
      BY <2>1, <2>2
  <1>2. CASE ModelCandidate
    <2>1. /\ pc = "model"
          /\ \/ UNCHANGED owners
             \/ /\ todo # <<>> /\ rec[Head(todo)].model = "none"
                /\ EvaluateModel(Head(todo))
      BY <1>2 DEF ModelCandidate, Modelled
    <2> QED
      BY <1>0, <2>1 DEF EvaluateModel
  <1>3. CASE ModelRepaired \/ RemodelRepaired
    <2>1. /\ pc \in {"model_repaired", "remodel"}
          /\ UNCHANGED owners \/ EvaluateModel(Head(todo))
      BY <1>3 DEF ModelRepaired, RemodelRepaired
    <2> QED
      BY <1>0, <2>1 DEF EvaluateModel
  <1>4. CASE MeasureSeed \/ ProfileSeed \/ FinishSeed
    BY <1>4 DEF MeasureSeed, ProfileSeed, FinishSeed, Raise
  <1>5. CASE \/ StopAtRoundStart \/ StartGeneration \/ ResumeRound \/ EndSearch
             \/ GenerateFromParent \/ EndGeneration \/ FinishGeneration
    BY <1>5 DEF StopAtRoundStart, StopForTime, StartGeneration, ResumeRound,
                EndSearch, GenerateFromParent, EndGeneration, FinishGeneration
  <1>6. CASE PassOver \/ RepairCandidate
    BY <1>6 DEF PassOver, RepairCandidate, RepairLoops
  <1>7. CASE \/ SkipModelCandidates \/ StartModelRepair \/ FinishModeling
             \/ SelectCandidates \/ BeforeMeasurement
    BY <1>7 DEF SkipModelCandidates, StartModelRepair, FinishModeling,
                StopForTime, SelectCandidates, BeforeMeasurement
  <1>8. CASE \/ MeasureCandidate \/ StartMeasureRepair \/ RemeasureRepaired
             \/ StartProfiling \/ ProfileMeasured
    BY <1>8 DEF MeasureCandidate, StartMeasureRepair, RemeasureRepaired,
                StartProfiling, ProfileMeasured
  <1>9. CASE FinishMeasurement \/ UpdateBeam \/ MaybeProfileRound \/ FinishRound
    BY <1>9 DEF FinishMeasurement, StopForTime, UpdateBeam, MaybeProfileRound,
                FinishRound
  <1>10. CASE \/ FreezeSearch \/ FinalizeCandidate \/ FinishFinalization \/ Export
              \/ CircuitBreaker \/ Crash
    BY <1>10 DEF FreezeSearch, FinalizeCandidate, FinishFinalization, Export,
                 CircuitBreaker, Crash, Raise
  <1>11. CASE Deadline \/ Resume \/ UNCHANGED vars
    BY <1>11 DEF Deadline, Resume, vars
  <1> QED
    BY <1>1, <1>2, <1>3, <1>4, <1>5, <1>6, <1>7, <1>8, <1>9, <1>10, <1>11
       DEF Next, Work, Rest

LEMMA NextOwners ==
  ASSUME ResumeInv, [Next]_vars
  PROVE  OwnerInv'
  <1>1. CASE Begin
    <2>1. \A c \in Cand : rec'[c].model = "none" /\ rec'[c].equiv = None
      BY <1>1, BeginRecords DEF Untouched
    <2>2. owners' = NoOwners /\ "none" \notin Hash
      BY <1>1, ConstantsAssumption
         DEF Begin, memory, identities, ResumeInv, SeedInv
    <2> QED
      BY <2>1, <2>2 DEF OwnerInv, NoOwners
  <1>2. CASE Restore
    BY <1>2, RestoredOwners
  <1>3. ASSUME NEW c \in Archived, rec[c].model = "none", ModelSucceeds(c), ~Begin
        PROVE  OwnerInv'
    <2>1. c \in Cand /\ rec \in [Cand -> Record] /\ OnlyModelOf(c)
      BY <1>3, RecordFacts, ModelFrame
    <2>2. CASE pc \notin {"ready"} \cup Ended
      BY <1>3, <2>1, <2>2, ModelledOwners
    <2>3. CASE pc \in {"ready"} \cup Ended
      <3>1. UNCHANGED rec
        BY <1>3, <2>3, IdleRecords
      <3>2. PICK h \in Hash \cup {"unhashed"} :
               rec' = [rec EXCEPT ![c] = [@ EXCEPT !.model = h, !.fail = "none",
                                                   !.equiv = Representative(c, h)]]
        BY <1>3 DEF ModelSucceeds
      <3>3. rec'[c].model = h
        <4> DEFINE r == [rec[c] EXCEPT !.model = h, !.fail = "none",
                                       !.equiv = Representative(c, h)]
        <4>1. r.model = h
          BY <2>1 DEF Record
        <4>2. rec' = [rec EXCEPT ![c] = r]
          BY <3>2
        <4> HIDE DEF r
        <4> QED
          BY <2>1, <4>1, <4>2
      <3> QED
        BY <1>3, <3>1, <3>3, ConstantsAssumption
    <2> QED
      BY <2>2, <2>3
  <1>4. CASE /\ ~Begin /\ ~Restore
             /\ ~\E c \in Archived : rec[c].model = "none" /\ ModelSucceeds(c)
    <2>1. Assessed \/ Created
      BY <1>4, RecordStep
    <2>2. SameIdentities
      <3>1. CASE Created \/ UNCHANGED rec
        BY <3>1 DEF Created, SameIdentities
      <3>2. ASSUME NEW c \in Archived, OnlyModelOf(c), rec[c].model = "none",
                   NEW why, ModelFails(c, why)
            PROVE  SameIdentities
        <4>1. c \in Cand /\ rec \in [Cand -> Record]
          BY RecordFacts
        <4>2. rec'[c].model = "invalid" /\ rec'[c].equiv = rec[c].equiv
          <5> DEFINE r == [rec[c] EXCEPT !.model = "invalid", !.fail = why]
          <5>1. r.model = "invalid" /\ r.equiv = rec[c].equiv
            BY <4>1 DEF Record
          <5>2. rec' = [rec EXCEPT ![c] = r]
            BY <3>2 DEF ModelFails
          <5> HIDE DEF r
          <5> QED
            BY <4>1, <5>1, <5>2
        <4>3. {"none", "invalid"} \cap Hash = {}
          BY ConstantsAssumption
        <4> QED
          BY <3>2, <4>2, <4>3 DEF OnlyModelOf, SameIdentities
      <3>3. CASE \E c \in Cand : OnlyMeasOf(c) \/ OnlyProfileOf(c) \/ OnlyFinalOf(c)
        BY <3>3 DEF OnlyMeasOf, OnlyProfileOf, OnlyFinalOf, SameIdentities
      <3>4. Archived \subseteq Cand /\ MayMeasure \subseteq Cand
        BY DEF Archived, MayMeasure
      <3> QED
        BY <1>4, <2>1, <3>1, <3>2, <3>3, <3>4 DEF Assessed
    <2>3. \/ UNCHANGED owners /\ pc \notin {"ready"} \cup Ended
          \/ pc' \in {"ready"} \cup Ended
      BY <1>4, OwnersStep
    <2> QED
      BY <2>2, <2>3, KeptOwners
  <1> QED
    BY <1>1, <1>2, <1>3, <1>4

-----------------------------------------------------------------------------
(* The export.                                                             *)

LEMMA FinalFaith ==
  ASSUME ResumeInv, NEW best \in Cand, FinalWinner(best), rec[Seed].final > 0
  PROVE  FinalPassed(best)
  <1>1. /\ rec[Seed].final \in Nat \ {0} /\ Seed \in Cand
        /\ rec[best].final > 0 => rec[best].final \in Nat \ {0}
    <2>1. \A c \in Cand : rec[c].final \in Lat \cup {0, -1}
      BY RecordFacts DEF Record, Result, None, Failed
    <2>2. \A m \in Lat \cup {0, -1} : m > 0 => m \in Nat \ {0}
      BY ConstantsAssumption
    <2> QED
      BY <2>1, <2>2, Bounds
  <1>2. rec[best].final > 0
    BY DEF FinalWinner
  <1>3. best = Seed \/ FinalFaster(best, Seed)
    BY DEF FinalWinner
  <1> QED
    BY <1>1, <1>2, <1>3 DEF FinalFaster, FinalPassed

LEMMA ExportEntry ==
  ASSUME [Next]_vars, pc' = "export", FinalCount > 0
  PROVE  (pc = "export" /\ beam' = beam) \/ FinishFinalization
  <1> USE DEF memory, session
  <1>1. ~(\/ Begin \/ Restore \/ ModelSeed \/ MeasureSeed \/ ProfileSeed
          \/ FinishSeed)
    BY DEF Begin, Restore, ModelSeed, MeasureSeed, ProfileSeed, FinishSeed, Raise
  <1>2. ~(\/ StopAtRoundStart \/ StartGeneration \/ ResumeRound \/ EndSearch
          \/ GenerateFromParent \/ EndGeneration \/ FinishGeneration)
    BY DEF StopAtRoundStart, StopForTime, StartGeneration, ResumeRound,
           EndSearch, GenerateFromParent, EndGeneration, FinishGeneration
  <1>3. ~(\/ PassOver \/ RepairCandidate \/ ModelCandidate
          \/ SkipModelCandidates \/ StartModelRepair \/ ModelRepaired
          \/ FinishModeling \/ SelectCandidates \/ BeforeMeasurement)
    BY DEF PassOver, RepairCandidate, RepairLoops, ModelCandidate,
           SkipModelCandidates, StartModelRepair, ModelRepaired,
           FinishModeling, StopForTime, SelectCandidates, BeforeMeasurement
  <1>4. ~(\/ MeasureCandidate \/ StartMeasureRepair \/ RemodelRepaired
          \/ RemeasureRepaired \/ StartProfiling \/ ProfileMeasured
          \/ FinishMeasurement \/ UpdateBeam \/ MaybeProfileRound \/ FinishRound)
    BY DEF MeasureCandidate, StartMeasureRepair, RemodelRepaired,
           RemeasureRepaired, StartProfiling, ProfileMeasured,
           FinishMeasurement, StopForTime, UpdateBeam, MaybeProfileRound,
           FinishRound
  <1>5. ~(FreezeSearch \/ Export \/ CircuitBreaker \/ Crash \/ Resume)
    BY DEF FreezeSearch, Export, CircuitBreaker, Crash, Raise, Resume
  <1>6. CASE FinalizeCandidate
    BY <1>6 DEF FinalizeCandidate, Raise
  <1>7. CASE Deadline \/ UNCHANGED vars
    BY <1>7 DEF Deadline, vars
  <1> QED
    BY <1>1, <1>2, <1>3, <1>4, <1>5, <1>6, <1>7 DEF Next, Work, Rest

LEMMA NextFinal ==
  ASSUME ResumeInv, [Next]_vars
  PROVE  FinalInv'
  <1>0. ckpt \in Checkpoint /\ None \notin Cand
    BY ConstantsAssumption DEF ResumeInv, SearchInv, ShapeInv, TypeOK, None
  <1>1. ASSUME HasCheckpoint, NEW c \in Cand, FinalPassed(c)
        PROVE  FinalPassed(c)'
    <2>1. \A d \in Cand : Exists(d) => ResultsKept(d)
      BY <1>1, NextSearch DEF ResumeInv
    <2>2. rec[c].final # None /\ rec[Seed].final # None /\ Seed \in Cand
      BY <1>1, Bounds DEF FinalPassed, None
    <2>3. Exists(c) /\ Exists(Seed)
      BY <2>2 DEF ResumeInv, ArchiveInv, Untouched
    <2> QED
      BY <1>1, <2>1, <2>2, <2>3 DEF ResultsKept, FinalPassed
  <1>2. ASSUME exported' # None, FinalCount > 0
        PROVE  FinalPassed(exported)'
    <2>1. CASE exported' = exported
      <3>1. HasCheckpoint /\ exported \in Cand
        BY <1>2, <2>1 DEF ResumeInv, SeedInv, SearchInv, ShapeInv, TypeOK
      <3> QED
        BY <1>1, <1>2, <2>1, <3>1 DEF ResumeInv, FinalInv, FinalPassed
    <2>2. CASE Export
      <3>1. pc = "export" /\ exported' = Head(beam) /\ UNCHANGED rec
        BY <2>2 DEF Export
      <3> QED
        BY <1>2, <3>1 DEF ResumeInv, FinalInv, FinalPassed
    <2>3. exported' = exported \/ Export
      BY Outcome DEF Raise, outside, Resume, Deadline, vars, Onward, Begin,
                     ModelSeed, MeasureSeed, ProfileSeed
    <2> QED
      BY <2>1, <2>2, <2>3
  <1>3. ASSUME pc' = "export", FinalCount > 0
        PROVE  FinalPassed(Head(beam))'
    <2>1. \/ pc = "export" /\ beam' = beam
          \/ FinishFinalization
      BY <1>3, ExportEntry
    <2>2. CASE pc = "export" /\ beam' = beam
      <3>1. Running
        BY <2>2 DEF Running, Closing
      <3>2. HasCheckpoint /\ Head(beam) \in Cand
        BY <3>1, SequenceFacts
           DEF ResumeInv, FlowInv, ControlInv, BeamInv, Beam, Correct
      <3> QED
        BY <1>1, <1>3, <2>2, <3>2 DEF ResumeInv, FinalInv, FinalPassed
    <2>3. CASE FinishFinalization
      <3>1. PICK best \in Cand :
               /\ FinalWinner(best)
               /\ \E rest \in ByFinal({c \in Range(beam) \ {best} : rec[c].final > 0}) :
                    beam' = <<best>> \o SubSeq(rest, 1, Smaller(BeamWidth - 1, Len(rest)))
        BY <1>3, <2>3 DEF FinishFinalization, Raise
      <3>2. rec[Seed].final > 0 /\ Running /\ UNCHANGED rec
        BY <1>3, <2>3 DEF FinishFinalization, Raise, Running, Closing
      <3>3. Head(beam') = best
        BY <3>1, <3>2, FinalBeam
      <3> QED
        BY <3>1, <3>2, <3>3, FinalFaith DEF FinalPassed
    <2> QED
      BY <2>1, <2>2, <2>3
  <1> QED
    BY <1>2, <1>3 DEF FinalInv

-----------------------------------------------------------------------------
(* The whole invariant.                                                    *)

LEMMA InitResume ==
  ASSUME Init
  PROVE  ResumeInv
  <1>1. SearchInv
    BY InitSearch
  <1>2. /\ \A c \in Cand : rec[c] = Blank
        /\ ckpt = NoCheckpoint /\ ckpt.phase = "absent" /\ ckpt.active = None
        /\ ckpt.ids = <<>> /\ ckpt.sel = <<>> /\ ckpt.best = None /\ ckpt.searchBest = None
        /\ exported = None /\ pc = "ready" /\ beam = <<>> /\ todo = <<>> /\ queue = <<>>
        /\ repaired = <<>> /\ measured = {} /\ owners = NoOwners
        /\ searchBest = None /\ expired = FALSE
    BY DEF Init, NoCheckpoint
  <1> USE DEF HasCheckpoint, Running, SeedStages, RoundStages, RepairLoops, Closing, Ended
  <1>3. FlowInv
    BY <1>2 DEF FlowInv, ControlInv, EmptyInv, Measuring
  <1>4. \A c \in Cand : ~Exists(c) /\ Untouched(c)
    BY <1>2 DEF Blank, Exists, Untouched
  <1>5. ArchiveInv /\ SeedInv
    BY <1>2, <1>4 DEF ArchiveInv, SeedInv
  <1>6. ListsInv
    BY <1>2, SequenceFacts DEF ListsInv
  <1>7. BeamInv
    BY <1>2 DEF BeamInv
  <1>8. HardwareInv
    BY <1>2, <1>4 DEF HardwareInv, HardwareAfterModel, Untouched
  <1>9. OwnerInv
    BY <1>2, <1>4, ConstantsAssumption DEF OwnerInv, Untouched
  <1>10. FinalInv
    BY <1>2 DEF FinalInv
  <1> QED
    BY <1>1, <1>3, <1>5, <1>6, <1>7, <1>8, <1>9, <1>10 DEF ResumeInv

LEMMA NextResume ==
  ASSUME ResumeInv, [Next]_vars
  PROVE  ResumeInv'
  <1>1. SearchInv' /\ FlowInv'
    BY NextSearch, NextFlow DEF ResumeInv, SearchInv
  <1> QED
    BY <1>1, NextArchive, NextSeed, NextLists, NextBeams, NextHardware, NextOwners,
       NextFinal DEF ResumeInv

LEMMA ResumeCorrect == Spec => []ResumeInv
  BY InitResume, NextResume, PTL DEF Spec

(* A beam, in memory or in a checkpoint, holds distinct correct and        *)
(* measured candidates, at most beam_width of them and never none          *)
(* (_update_beam, _finalize_candidates, _restore).                         *)
THEOREM BeamsAreSound == Spec => []BeamSound
  <1>1. ASSUME NEW b, Beam(b)
        PROVE  GoodBeam(b)
    BY <1>1 DEF Beam, GoodBeam, Correct
  <1>2. ResumeInv => BeamSound
    BY <1>1 DEF ResumeInv, BeamInv, BeamSound
  <1> QED
    BY <1>2, ResumeCorrect, PTL

(* Whatever was stopped, crashed or resumed before, the last checkpoint    *)
(* names only candidates that the archive holds, its lists only those of   *)
(* the round they belong to: _records_for_ids finds them all.              *)
THEOREM CheckpointsLoad == Spec => []CheckpointLoadable
  <1>1. ASSUME ResumeInv
        PROVE  CheckpointLoadable
    <2>1. Range(ckpt.ids) \cup Range(ckpt.sel) \subseteq InRound(CkptRound)
      BY <1>1 DEF ResumeInv, ListsInv, Range
    <2>2. \A c \in InRound(CkptRound) :
            Exists(c) /\ rec[c].gen \in {ckpt.active, ckpt.completed} \ {0}
      BY DEF InRound, CkptRound, None
    <2>3. Range(ckpt.beam) \subseteq Archived
      <3>1. CASE HasCheckpoint
        BY <1>1, <3>1, RecordFacts DEF ResumeInv, BeamInv, Beam, Range
      <3>2. CASE ~HasCheckpoint
        BY <1>1, <3>2 DEF ResumeInv, SeedInv, NoCheckpoint, Range
      <3> QED
        BY <3>1, <3>2
    <2> QED
      BY <1>1, <2>1, <2>2, <2>3 DEF CheckpointLoadable, ResumeInv, ListsInv, Archived
  <1> QED
    BY <1>1, ResumeCorrect, PTL

(* Every compiled identity has one owner, every duplicate points straight  *)
(* at it, and a running process knows the owners the archive tells of,     *)
(* resumed or not (_register_compiled_identity,                            *)
(* _rebuild_compiled_hash_owners).                                         *)
THEOREM IdentitiesHaveOneOwner == Spec => []OneOwnerPerIdentity
  <1>1. ASSUME ResumeInv
        PROVE  OneOwnerPerIdentity
    <2>1. Running => pc \notin {"ready"} \cup Ended
      BY DEF Running, RoundStages, RepairLoops, Closing, Ended
    <2> QED
      BY <1>1, <2>1 DEF ResumeInv, OwnerInv, Owns, OneOwnerPerIdentity
  <1> QED
    BY <1>1, ResumeCorrect, PTL

(* Nothing is measured that the model has not accepted as new code, the    *)
(* repairs listed by a stop for time excepted (_run_round).                *)
THEOREM ModelComesFirst == Spec => []HardwareAfterModel
  <1>1. ResumeInv => HardwareAfterModel
    BY DEF ResumeInv, HardwareInv
  <1> QED
    BY <1>1, ResumeCorrect, PTL

(* The exported kernel has passed final validation and is no slower in it  *)
(* than the seed, also when the process that validated it is gone          *)
(* (_finalize_candidates, save_best).                                      *)
THEOREM ExportsPassed == Spec => []ExportPassedFinal
  <1>1. ResumeInv => ExportPassedFinal
    BY DEF ResumeInv, FinalInv, FinalPassed, ExportPassedFinal
  <1> QED
    BY <1>1, ResumeCorrect, PTL

-----------------------------------------------------------------------------
(* What a step may do.                                                     *)

(* Past the deadline records change in final validation only.              *)
LEMMA LateRecords ==
  ASSUME ResumeInv, [Next]_vars, expired, pc \notin SeedStages \cup {"ready"}
  PROVE  UNCHANGED rec \/ \E c \in Cand : OnlyFinalOf(c)
  <1>0. /\ rec \in [Cand -> Record] /\ (todo # <<>> => Head(todo) \in Cand)
        /\ pc = "remodel" => todo # <<>>
    BY RecordFacts DEF ResumeInv, SearchInv, ShapeInv, StageInv
  <1>1. CASE Still
    BY <1>1, StillSteps
  <1>2. ~(Begin \/ ModelSeed \/ MeasureSeed \/ ProfileSeed)
    BY DEF Begin, ModelSeed, MeasureSeed, ProfileSeed, SeedStages
  <1>3. ~GenerateFromParent /\ ~RepairCandidate
    BY ConstantsAssumption
       DEF GenerateFromParent, RequestCount, RepairCandidate, RepairLoopActive
  <1>4. CASE \/ ModelCandidate \/ ModelRepaired \/ MeasureCandidate
             \/ RemodelRepaired \/ RemeasureRepaired \/ ProfileMeasured
             \/ MaybeProfileRound
    BY <1>4 DEF ModelCandidate, ModelRepaired, MeasureCandidate, RemodelRepaired,
                RemeasureRepaired, ProfileMeasured, MaybeProfileRound, StopForTime
  <1>5. CASE FinalizeCandidate
    <2>1. /\ todo # <<>>
          /\ \/ UNCHANGED rec
             \/ \E m : rec' = [rec EXCEPT ![Head(todo)].final = m]
             \/ \E cat : FinalFails(Head(todo), cat)
      BY <1>5 DEF FinalizeCandidate
    <2> QED
      BY <1>0, <2>1, FinalFrame
  <1>6. CASE CircuitBreaker
    <2>1. todo # <<>> /\ \E cat \in Category : FinalFails(Head(todo), cat)
      BY <1>6 DEF CircuitBreaker
    <2> QED
      BY <1>0, <2>1, FinalFrame
  <1> QED
    BY <1>1, <1>2, <1>3, <1>4, <1>5, <1>6 DEF Next, Work, Rest, Still

(* Only a repair attempt changes a repair counter.                         *)
LEMMA RepairsStep ==
  ASSUME ResumeInv, [Next]_vars
  PROVE  ckpt'.repairs = ckpt.repairs \/ RepairCandidate
  <1>0. /\ ckpt \in Checkpoint
        /\ \A ph, completed, active, ids, sel, best, b :
             Saved(ph, completed, active, ids, sel, best, b).repairs = ckpt.repairs
    BY DEF ResumeInv, SearchInv, ShapeInv, TypeOK, Saved
  <1>1. CASE \/ StartGeneration \/ ResumeRound \/ EndSearch \/ GenerateFromParent
             \/ EndGeneration \/ PassOver \/ ModelCandidate \/ SkipModelCandidates
             \/ StartModelRepair \/ ModelRepaired
    BY <1>1 DEF StartGeneration, ResumeRound, EndSearch, GenerateFromParent,
                EndGeneration, PassOver, ModelCandidate, SkipModelCandidates,
                StartModelRepair, ModelRepaired
  <1>2. CASE \/ MeasureCandidate \/ StartMeasureRepair \/ RemodelRepaired
             \/ RemeasureRepaired \/ StartProfiling \/ ProfileMeasured
             \/ FreezeSearch \/ Begin \/ Restore
    BY <1>2 DEF MeasureCandidate, StartMeasureRepair, RemodelRepaired,
                RemeasureRepaired, StartProfiling, ProfileMeasured, FreezeSearch,
                Begin, Restore
  <1>3. CASE \/ ModelSeed \/ MeasureSeed \/ ProfileSeed \/ FinalizeCandidate
             \/ CircuitBreaker \/ Deadline \/ Crash \/ Resume \/ UNCHANGED vars
    BY <1>3 DEF ModelSeed, MeasureSeed, ProfileSeed, FinalizeCandidate,
                CircuitBreaker, Deadline, Crash, Resume, vars
  <1>4. CASE FinishSeed \/ StopAtRoundStart \/ SelectCandidates
    <2>1. \E ph, completed, active, ids, sel, best, b :
            ckpt' = Saved(ph, completed, active, ids, sel, best, b)
      BY <1>4 DEF FinishSeed, StopAtRoundStart, StopForTime, SelectCandidates
    <2> QED
      BY <1>0, <2>1
  <1>a. CASE FinishModeling
    <2>1. \E ph, ids : ckpt' = Saved(ph, round - 1, round, ids, <<>>, None, beam)
      BY <1>a DEF FinishModeling, StopForTime
    <2> QED
      BY <1>0, <2>1
  <1>5. CASE FinishGeneration
    <2>1. \E ph, completed, active, ids :
            ckpt' = Saved(ph, completed, active, ids, <<>>, None, beam)
      BY <1>5 DEF FinishGeneration, StopForTime
    <2> QED
      BY <1>0, <2>1
  <1>6. CASE BeforeMeasurement \/ FinishMeasurement \/ UpdateBeam
    BY <1>0, <1>6 DEF BeforeMeasurement, FinishMeasurement, UpdateBeam, StopForTime
  <1>7. CASE MaybeProfileRound \/ FinishRound
    BY <1>0, <1>7 DEF MaybeProfileRound, FinishRound, StopForTime
  <1>8. CASE FinishFinalization
    BY <1>0, <1>8 DEF FinishFinalization
  <1>9. CASE Export
    <2>1. \/ ckpt' = [ckpt EXCEPT !.searchBest = searchBest]
          \/ ckpt' = Saved("run_completed", ckpt.completed, None, <<>>, <<>>, None, beam)
      BY <1>9 DEF Export
    <2>2. CASE ckpt' = [ckpt EXCEPT !.searchBest = searchBest]
      BY <1>0, <2>2 DEF Checkpoint
    <2> QED
      BY <1>0, <2>1, <2>2
  <1> QED
    BY <1>1, <1>2, <1>3, <1>4, <1>a, <1>5, <1>6, <1>7, <1>8, <1>9 DEF Next, Work, Rest

(* Once the time is up the search asks for no source, no repair, no model, *)
(* no measurement and no profile any more (_search_time_expired in every   *)
(* loop of _run_round).                                                    *)
THEOREM NothingStartsLate == Spec => NoLateRoundWork
  <1>1. ASSUME ResumeInv, [Next]_vars
        PROVE  expired /\ pc \notin SeedStages \cup {"ready"} => ~StartsWork
    <2> SUFFICES ASSUME expired, pc \notin SeedStages \cup {"ready"}
                 PROVE  ~StartsWork
      OBVIOUS
    <2>1. UNCHANGED rec \/ \E c \in Cand : OnlyFinalOf(c)
      BY <1>1, LateRecords
    <2>2. /\ Absent' = Absent
          /\ \A c \in Cand : /\ rec'[c].model = rec[c].model
                            /\ rec'[c].meas = rec[c].meas
                            /\ rec'[c].profile = rec[c].profile
      BY <2>1 DEF OnlyFinalOf, Absent, Exists
    <2>3. ~RepairCandidate
      BY DEF RepairCandidate, RepairLoopActive
    <2>4. ckpt'.repairs = ckpt.repairs
      BY <1>1, <2>3, RepairsStep
    <2> QED
      BY <2>2, <2>4 DEF StartsWork
  <1>2. ResumeInv /\ [Next]_vars
          => [expired /\ pc \notin SeedStages \cup {"ready"} => ~StartsWork]_vars
    BY <1>1
  <1> QED
    BY <1>2, ResumeCorrect, PTL DEF Spec, NoLateRoundWork

LEMMA ReasonStep ==
  ASSUME [Next]_vars, reason # "time-budget", ~expired
  PROVE  reason' # "time-budget"
  <1> USE DEF memory, session, Forget
  <1>1. CASE \/ Begin \/ Restore \/ ModelSeed \/ MeasureSeed \/ ProfileSeed
             \/ FinishSeed
    BY <1>1 DEF Begin, Restore, ModelSeed, MeasureSeed, ProfileSeed, FinishSeed, Raise
  <1>2. CASE \/ StopAtRoundStart \/ StartGeneration \/ ResumeRound \/ EndSearch
             \/ GenerateFromParent \/ EndGeneration \/ FinishGeneration
    BY <1>2 DEF StopAtRoundStart, StopForTime, StartGeneration, ResumeRound,
                EndSearch, GenerateFromParent, EndGeneration, FinishGeneration
  <1>3. CASE \/ PassOver \/ RepairCandidate \/ ModelCandidate
             \/ SkipModelCandidates \/ StartModelRepair \/ ModelRepaired
             \/ FinishModeling \/ SelectCandidates \/ BeforeMeasurement
    BY <1>3 DEF PassOver, RepairCandidate, ModelCandidate, SkipModelCandidates,
                StartModelRepair, ModelRepaired, FinishModeling, StopForTime,
                SelectCandidates, BeforeMeasurement
  <1>4. CASE \/ MeasureCandidate \/ StartMeasureRepair \/ RemodelRepaired
             \/ RemeasureRepaired \/ StartProfiling \/ ProfileMeasured
             \/ FinishMeasurement \/ UpdateBeam \/ MaybeProfileRound \/ FinishRound
    BY <1>4 DEF MeasureCandidate, StartMeasureRepair, RemodelRepaired,
                RemeasureRepaired, StartProfiling, ProfileMeasured,
                FinishMeasurement, StopForTime, UpdateBeam, MaybeProfileRound,
                FinishRound
  <1>5. CASE \/ FreezeSearch \/ FinalizeCandidate \/ FinishFinalization \/ Export
             \/ CircuitBreaker \/ Crash
    BY <1>5 DEF FreezeSearch, FinalizeCandidate, FinishFinalization, Export,
                CircuitBreaker, Crash, Raise
  <1>6. CASE Deadline \/ Resume \/ UNCHANGED vars
    BY <1>6 DEF Deadline, Resume, vars
  <1> QED
    BY <1>1, <1>2, <1>3, <1>4, <1>5, <1>6 DEF Next, Work, Rest

(* The checkpointed stage of the active round only goes up.                *)
LEMMA StageStep ==
  ASSUME ResumeInv, [Next]_vars, ~expired, reason # "time-budget",
         ckpt.active # None, StageRank(ckpt.phase) > 0,
         ckpt'.completed < ckpt.active
  PROVE  /\ ckpt'.active = ckpt.active
         /\ StageRank(ckpt'.phase) >= StageRank(ckpt.phase)
  <1>0. /\ ckpt \in Checkpoint
        /\ ckpt.phase \in {"generated", "modeled", "selected", "measured", "beam_updated"}
        /\ HasCheckpoint
    BY DEF ResumeInv, SearchInv, ShapeInv, TypeOK, StageRank, HasCheckpoint
  <1>a. ckpt.completed + 1 = ckpt.active
    BY <1>0 DEF ResumeInv, FlowInv, ControlInv
  <1>b. pc \in {"round"} \cup RoundStages => round = ckpt.active /\ Phase = ckpt.phase
    BY <1>0, <1>a DEF ResumeInv, FlowInv, ControlInv, Phase
  <1>c. pc \notin Closing
    BY DEF ResumeInv, FlowInv, ControlInv
  <1>d. ~\E ph, ids, sel, best, b : StopForTime(ph, ids, sel, best, b)
    BY DEF StopForTime
  <1>1. CASE ckpt'.phase = ckpt.phase /\ ckpt'.active = ckpt.active
    <2>1. StageRank(ckpt.phase) \in Nat
      BY DEF StageRank
    <2> QED
      BY <1>1, <2>1
  <1>2. CASE \/ StartGeneration \/ ResumeRound \/ EndSearch \/ GenerateFromParent
             \/ EndGeneration \/ PassOver \/ ModelCandidate \/ SkipModelCandidates
             \/ StartModelRepair \/ ModelRepaired
    BY <1>1, <1>2
       DEF StartGeneration, ResumeRound, EndSearch, GenerateFromParent,
           EndGeneration, PassOver, ModelCandidate, SkipModelCandidates,
           StartModelRepair, ModelRepaired
  <1>3. CASE \/ MeasureCandidate \/ StartMeasureRepair \/ RemodelRepaired
             \/ RemeasureRepaired \/ StartProfiling \/ ProfileMeasured
             \/ Begin \/ Restore \/ ModelSeed \/ MeasureSeed \/ ProfileSeed
    BY <1>1, <1>3
       DEF MeasureCandidate, StartMeasureRepair, RemodelRepaired,
           RemeasureRepaired, StartProfiling, ProfileMeasured,
           Begin, Restore, ModelSeed, MeasureSeed, ProfileSeed
  <1>4. CASE CircuitBreaker \/ Deadline \/ Crash \/ Resume \/ UNCHANGED vars
    BY <1>1, <1>4 DEF CircuitBreaker, Deadline, Crash, Resume, vars
  <1>5. CASE RepairCandidate
    BY <1>0, <1>1, <1>5 DEF RepairCandidate, Checkpoint
  <1>6. ~FinishSeed
    BY <1>0 DEF FinishSeed, ResumeInv, SearchInv, OnceInv, SeedStages
  <1>7. ~(FreezeSearch \/ FinalizeCandidate \/ FinishFinalization \/ Export)
    BY <1>c DEF FreezeSearch, FinalizeCandidate, FinishFinalization, Export, Closing
  <1>8. ~StopAtRoundStart
    BY <1>d DEF StopAtRoundStart
  <1>9. ~FinishGeneration
    BY <1>0, <1>b DEF FinishGeneration, ResumeInv, FlowInv, ControlInv, RoundStages,
                      RepairLoops
  <1>10. CASE FinishModeling
    <2>1. pc = "model_repair" /\ ckpt.phase = "generated" /\ pc \in RoundStages
      BY <1>10 DEF FinishModeling, ResumeInv, FlowInv, ControlInv, At, RoundStages,
                   RepairLoops
    <2>2. ckpt'.phase = "modeled" /\ ckpt'.active = round
      BY <1>10, <1>d, SavedFields DEF FinishModeling
    <2> QED
      BY <1>b, <2>1, <2>2 DEF StageRank
  <1>11. CASE SelectCandidates
    <2>1. pc = "select" /\ ckpt.phase = "modeled" /\ pc \in RoundStages
      BY <1>11 DEF SelectCandidates, ResumeInv, FlowInv, ControlInv, At, RoundStages
    <2>2. ckpt'.phase = "selected" /\ ckpt'.active = round
      BY <1>11, SavedFields DEF SelectCandidates
    <2> QED
      BY <1>b, <2>1, <2>2 DEF StageRank
  <1>12. CASE BeforeMeasurement \/ MaybeProfileRound
    BY <1>1, <1>12, <1>d DEF BeforeMeasurement, MaybeProfileRound
  <1>13. CASE FinishMeasurement
    <2>1. pc = "profile_all" /\ ckpt.phase = "selected" /\ pc \in RoundStages
      BY <1>13 DEF FinishMeasurement, ResumeInv, FlowInv, ControlInv, At, RoundStages,
                   Measuring
    <2>2. ckpt' = Saved("measured", round - 1, round, ckpt.ids \o repaired,
                        ckpt.sel \o repaired, ckpt.best, beam)
      BY <1>13, <1>d DEF FinishMeasurement
    <2>3. ckpt'.phase = "measured" /\ ckpt'.active = round
      BY <2>2, SavedFields
    <2> QED
      BY <1>b, <2>1, <2>3 DEF StageRank
  <1>14. CASE UpdateBeam
    <2>1. pc = "update_beam" /\ ckpt.phase = "measured" /\ pc \in RoundStages
      BY <1>14 DEF UpdateBeam, ResumeInv, FlowInv, ControlInv, At, RoundStages
    <2>2. ckpt'.phase = "beam_updated" /\ ckpt'.active = round
      BY <1>14, SavedFields DEF UpdateBeam
    <2> QED
      BY <1>b, <2>1, <2>2 DEF StageRank
  <1>15. ~FinishRound
    <2>1. FinishRound => ckpt'.completed = round /\ pc \in RoundStages
      BY <1>d, SavedFields DEF FinishRound, RoundStages
    <2>2. ckpt.active \in Nat
      BY <1>0, Bounds DEF Checkpoint
    <2> QED
      BY <1>b, <2>1, <2>2
  <1> QED
    BY <1>2, <1>3, <1>4, <1>5, <1>6, <1>7, <1>8, <1>9, <1>10, <1>11, <1>12,
       <1>13, <1>14, <1>15 DEF Next, Work, Rest

(* Without a time budget a checkpointed stage of the active round is never *)
(* gone back on.  (With one, a search that is resumed and stopped again at *)
(* the head of the round writes the phase "", controller.py:367-376.)*)
THEOREM StagesStay == ASSUME ~TimeLimited PROVE Spec => StageKept
  <1> DEFINE Untimed == ResumeInv /\ reason # "time-budget"
  <1>1. Init => Untimed
    BY InitResume DEF Init
  <1>2. Untimed => ~expired
    BY DEF ResumeInv, HardwareInv
  <1>3. Untimed /\ [Next]_vars => Untimed'
    BY <1>2, NextResume, ReasonStep
  <1> DEFINE Kept == ckpt.active # None /\ StageRank(ckpt.phase) > 0
                       /\ ckpt'.completed < ckpt.active =>
                       /\ ckpt'.active = ckpt.active
                       /\ StageRank(ckpt'.phase) >= StageRank(ckpt.phase)
  <1>4. Untimed /\ [Next]_vars => [Kept]_vars
    BY <1>2, StageStep
  <1> HIDE DEF Untimed, Kept
  <1>5. Spec => []Untimed /\ [][Kept]_vars
    BY <1>1, <1>3, <1>4, PTL DEF Spec
  <1> QED
    BY <1>5 DEF Kept, StageKept


-----------------------------------------------------------------------------
(***************************************************************************)
(* The beam keeps the best.  What has been measured correct and lasts is   *)
(* never lost to the incumbent: either it is ranked in the beam of the     *)
(* checkpoint, or it is still to be ranked.  A process that cannot die     *)
(* holds such a candidate in memory until it ranks it; for one that can,   *)
(* the checkpoint has to name it, and the measurement stage to find it.    *)
(***************************************************************************)

Ranking    == Measuring \cup {"update_beam"}
Pending(c) == ckpt.phase \in {"selected", "measured"} /\ c \in Range(ckpt.sel)

OnDisk(c) ==
  HasCheckpoint =>
    \/ ~Faster(c, Head(ckpt.beam))
    \/ IF CanFail THEN Pending(c) ELSE pc \in Ranking /\ c \in measured
InMemory(c) ==
  CanFail /\ pc \in Ranking /\ c \in Range(ckpt.sel) =>
    c \in measured \/ (pc = "measure" /\ c \in Range(todo))
KeptInv ==
  NeverFinalized => \A c \in Cand : MeasuredCorrect(c) /\ Lasting(c) => OnDisk(c) /\ InMemory(c)
SeedRanked ==
  NeverFinalized /\ HasCheckpoint => ~Faster(Seed, Head(ckpt.beam))

(* What the running process holds of the checkpoint, and what a search     *)
(* without a time budget never does.                                       *)
HeldInv ==
  /\ Running => beam = ckpt.beam
  /\ pc = "measure" => Range(todo) \subseteq Range(ckpt.sel)
  /\ ~TimeLimited => ~expired /\ reason # "time-budget"

RankInv == ResumeInv /\ HeldInv /\ KeptInv /\ SeedRanked

(* The ranking is a strict order.                                          *)
LEMMA FasterOrder ==
  ASSUME rec \in [Cand -> Record], NEW a \in Cand, NEW b \in Cand, NEW c \in Cand
  PROVE  /\ ~Faster(a, a)
         /\ Faster(a, b) => ~Faster(b, a)
         /\ ~Faster(a, b) /\ ~Faster(b, c) => ~Faster(a, c)
  <1>a. Lat \subseteq Nat /\ Cand \subseteq Nat
    BY ConstantsAssumption
  <1>b. \A m \in Lat \cup {0, -1} : m \in Int
    BY <1>a
  <1>c. \A d \in Cand : rec[d].meas \in Lat \cup {0, -1}
    BY DEF Record, Result, None, Failed
  <1>d. \A d \in Cand : rec[d].meas \in Int
    BY <1>b, <1>c
  <1>e. \A d \in Cand : d \in Int
    BY <1>a
  <1>2. \A d \in Cand : rec[d].meas \in Int /\ d \in Int
    BY <1>d, <1>e
  <1>3. ASSUME NEW x \in Int, NEW y \in Int, NEW z \in Int,
               NEW k \in Int, NEW l \in Int, NEW m \in Int
        PROVE  LET less(p, i, q, j) == p < q \/ (p = q /\ i < j) IN
               /\ ~less(x, k, x, k)
               /\ less(x, k, y, l) => ~less(y, l, x, k)
               /\ ~less(x, k, y, l) /\ ~less(y, l, z, m) => ~less(x, k, z, m)
    OBVIOUS
  <1> QED
    BY <1>2, <1>3 DEF Faster

(* A new beam is headed by the fastest of the pool.                        *)
LEMMA BeamsHead ==
  ASSUME rec \in [Cand -> Record], NEW S \in SUBSET Cand, S # {}, NEW b \in Beams(S)
  PROVE  Head(b) \in S /\ \A c \in S : ~Faster(c, Head(b))
  <1>1. /\ BeamSize(S) \in Nat \ {0} /\ BeamSize(S) <= Cardinality(S)
        /\ Cardinality(S) \in Nat
    BY BeamSizeBound
  <1>2. ASSUME b \in Fastest(S)
        PROVE  Head(b) \in S /\ \A c \in S : ~Faster(c, Head(b))
    <2>1. /\ b \in [1..BeamSize(S) -> S] /\ 1 \in 1..BeamSize(S)
          /\ \A i, j \in 1..BeamSize(S) : i < j => Faster(b[i], b[j])
          /\ \A c \in S \ Range(b), i \in 1..BeamSize(S) : Faster(b[i], c)
      BY <1>1, <1>2 DEF Fastest
    <2>2. Head(b) = b[1] /\ b[1] \in S
      BY <2>1
    <2>3. ASSUME NEW c \in S
          PROVE  c = b[1] \/ Faster(b[1], c)
      <3>1. CASE c \in Range(b)
        <4>1. PICK j \in 1..BeamSize(S) : c = b[j]
          BY <2>1, <3>1 DEF Range
        <4>2. j = 1 \/ 1 < j
          BY <1>1
        <4> QED
          BY <2>1, <4>1, <4>2
      <3> QED
        BY <2>1, <3>1
    <2>4. ASSUME NEW c \in S
          PROVE  ~Faster(c, b[1])
      BY <2>2, <2>3, FasterOrder
    <2> QED
      BY <2>2, <2>4
  <1>3. ASSUME NEW s \in Diverse(S), b = SubSeq(s, 1, BeamSize(S))
        PROVE  Head(b) \in S /\ \A c \in S : ~Faster(c, Head(b))
    <2>1. /\ s \in [1..Cardinality(S) -> S]
          /\ \A c \in S \ {s[1]} : Faster(s[1], c)
      BY DEF Diverse, Orders, Bijection, Injection
    <2>2. s \in Seq(S) /\ Len(s) = Cardinality(S) /\ 1 \in 1..Cardinality(S)
      BY <1>1, <2>1
    <2>3. Head(b) = s[1] /\ s[1] \in S
      BY <1>1, <1>3, <2>1, <2>2
    <2>4. ASSUME NEW c \in S
          PROVE  ~Faster(c, s[1])
      BY <2>1, <2>3, FasterOrder
    <2> QED
      BY <2>3, <2>4
  <1> QED
    BY <1>2, <1>3 DEF Beams

(* Results and the time of a first final validation stay what they are.    *)
LEMMA KeptResults ==
  ASSUME ResumeInv, [Next]_vars, HasCheckpoint
  PROVE  /\ \A c \in Correct : /\ c \in Correct' /\ rec'[c].meas = rec[c].meas
                              /\ rec'[c].kind = rec[c].kind
         /\ \A c, d \in Correct : Faster(c, d)' <=> Faster(c, d)
         /\ NeverFinalized' => NeverFinalized
  <1>1. \A c \in Cand : Exists(c) => ResultsKept(c)
    BY NextSearch DEF ResumeInv
  <1>2. \A c \in Cand : ~Exists(c) => rec[c].final = None
    BY DEF ResumeInv, ArchiveInv, Untouched
  <1>3. \A c \in Correct : c \in Cand /\ Exists(c) /\ rec[c].meas # None
    BY RecordFacts DEF Correct, MeasuredCorrect, Archived, None
  <1>4. \A c \in Correct : /\ c \in Correct' /\ rec'[c].meas = rec[c].meas
                          /\ rec'[c].kind = rec[c].kind
    BY <1>1, <1>3, Growth DEF ResultsKept
  <1>5. NeverFinalized' => NeverFinalized
    BY <1>1, <1>2 DEF ResultsKept, NeverFinalized, None
  <1> QED
    BY <1>4, <1>5 DEF Faster

LEMMA JoinedRange ==
  ASSUME NEW S, NEW T, NEW s \in Seq(S), NEW t \in Seq(T)
  PROVE  Range(s \o t) = Range(s) \cup Range(t)
  <1>1. s \o t \in Seq(S \cup T) /\ Len(s \o t) = Len(s) + Len(t)
    OBVIOUS
  <1>2. \A i \in 1..Len(s \o t) :
          (s \o t)[i] = IF i <= Len(s) THEN s[i] ELSE t[i - Len(s)]
    OBVIOUS
  <1>3. /\ DOMAIN s = 1..Len(s) /\ DOMAIN t = 1..Len(t) /\ Len(s) \in Nat /\ Len(t) \in Nat
        /\ DOMAIN (s \o t) = 1..(Len(s) + Len(t))
    BY <1>1
  <1>4. \A i \in DOMAIN s : i \in DOMAIN (s \o t) /\ (s \o t)[i] = s[i]
    BY <1>1, <1>2, <1>3
  <1>5. \A i \in DOMAIN t :
          Len(s) + i \in DOMAIN (s \o t) /\ (s \o t)[Len(s) + i] = t[i]
    BY <1>1, <1>2, <1>3
  <1>6. \A i \in DOMAIN (s \o t) :
          \/ i \in DOMAIN s
          \/ i - Len(s) \in DOMAIN t /\ i = Len(s) + (i - Len(s))
    BY <1>3
  <1> DEFINE u == s \o t
  <1>7. /\ \A i \in DOMAIN s : i \in DOMAIN u /\ u[i] = s[i]
        /\ \A i \in DOMAIN t : Len(s) + i \in DOMAIN u /\ u[Len(s) + i] = t[i]
        /\ \A i \in DOMAIN u :
             \/ i \in DOMAIN s /\ u[i] = s[i]
             \/ i - Len(s) \in DOMAIN t /\ u[i] = t[i - Len(s)]
    BY <1>4, <1>5, <1>6
  <1> HIDE DEF u
  <1>8. /\ \A x \in Range(s) : x \in Range(u)
        /\ \A x \in Range(t) : x \in Range(u)
        /\ \A x \in Range(u) : x \in Range(s) \/ x \in Range(t)
    BY <1>7 DEF Range
  <1> QED
    BY <1>8 DEF u

LEMMA HeadOrTail ==
  ASSUME NEW S, NEW s \in Seq(S), s # <<>>, NEW x \in Range(s)
  PROVE  x = Head(s) \/ x \in Range(Tail(s))
  <1>1. PICK i \in 1..Len(s) : x = s[i]
    BY DEF Range
  <1>2. /\ Head(s) = s[1] /\ Len(s) \in Nat
        /\ DOMAIN Tail(s) = 1..(Len(s) - 1)
        /\ \A j \in 1..(Len(s) - 1) : Tail(s)[j] = s[j + 1]
    OBVIOUS
  <1>3. CASE i = 1
    BY <1>1, <1>2, <1>3
  <1>4. CASE i # 1
    <2>1. i - 1 \in 1..(Len(s) - 1) /\ (i - 1) + 1 = i
      BY <1>2, <1>4
    <2>2. Tail(s)[i - 1] = x /\ i - 1 \in DOMAIN Tail(s)
      BY <1>1, <1>2, <2>1
    <2> QED
      BY <2>2 DEF Range
  <1> QED
    BY <1>3, <1>4

(* The incumbent only gets faster until a final validation has been done,  *)
(* and a beam taken from the pool ranks the whole pool.                    *)
LEMMA IncumbentStep ==
  ASSUME ResumeInv, HeldInv, HasCheckpoint, [Next]_vars, NeverFinalized'
  PROVE  /\ \A c \in Correct : ~Faster(c, Head(ckpt.beam)) => ~Faster(c, Head(ckpt.beam))'
         /\ Running /\ ckpt'.beam \in Beams(BeamPool) =>
              \A c \in measured : ~Faster(c, Head(ckpt.beam))'
  <1>0. /\ rec \in [Cand -> Record] /\ Correct \subseteq Cand /\ measured \subseteq Correct
        /\ \A c, d \in Correct : Faster(c, d)' <=> Faster(c, d)
    BY RecordFacts, KeptResults DEF Correct, ResumeInv, ListsInv
  <1>a. Head(ckpt.beam) \in Correct /\ ckpt.beam # <<>> /\ ckpt.beam \in Seq(Correct)
    BY SequenceFacts DEF ResumeInv, BeamInv, Beam
  <1>2. rec[Seed].final = None
    BY KeptResults, Bounds DEF NeverFinalized
  <1>b. FinishFinalization => ~Running' /\ UNCHANGED ckpt
    BY <1>2 DEF FinishFinalization, Raise, Running, RoundStages, RepairLoops, Closing, None
  <1>3. CASE Running /\ ckpt'.beam \in Beams(BeamPool)
    <2>1. Range(ckpt.beam) \subseteq Correct /\ Head(ckpt.beam) \in Range(ckpt.beam)
      BY <1>a DEF Range
    <2>2. BeamPool = Range(ckpt.beam) \cup measured
      BY <1>3 DEF BeamPool, HeldInv
    <2>3. /\ BeamPool \subseteq Correct /\ BeamPool # {}
          /\ Head(ckpt.beam) \in BeamPool /\ measured \subseteq BeamPool
      BY <1>0, <2>1, <2>2
    <2>4. BeamPool \in SUBSET Cand
      BY <1>0, <2>3
    <2>5. /\ Head(ckpt'.beam) \in BeamPool
          /\ \A c \in BeamPool : ~Faster(c, Head(ckpt'.beam))
      BY <1>0, <1>3, <2>3, <2>4, BeamsHead
    <2>6. \A c \in Correct : ~Faster(c, Head(ckpt.beam)) => ~Faster(c, Head(ckpt'.beam))
      BY <1>0, <1>a, <2>3, <2>5, FasterOrder
    <2>7. \A c \in Correct : ~Faster(c, Head(ckpt'.beam)) => ~Faster(c, Head(ckpt.beam))'
      BY <1>0, <2>3, <2>5
    <2> QED
      BY <1>0, <2>3, <2>5, <2>6, <2>7
  <1>4. CASE ~(Running /\ ckpt'.beam \in Beams(BeamPool))
    <2>1. ckpt'.beam = ckpt.beam
      BY <1>4, <1>b, BeamSource DEF HeldInv
    <2> QED
      BY <1>0, <1>4, <1>a, <2>1
  <1> QED
    BY <1>3, <1>4

(* A first correct result comes from the measurement stage, which then     *)
(* knows of it.                                                            *)
LEMMA NewlyMeasured ==
  ASSUME ResumeInv, [Next]_vars, HasCheckpoint, NEW c \in Cand,
         MeasuredCorrect(c)', ~MeasuredCorrect(c)
  PROVE  /\ MeasureCandidate \/ RemeasureRepaired
         /\ todo # <<>> /\ c = Head(todo) /\ c \in measured'
  <1>0. /\ rec \in [Cand -> Record] /\ (todo # <<>> => Head(todo) \in Cand)
        /\ pc \in {"model_repaired", "remodel", "remeasure"} => todo # <<>>
    BY RecordFacts DEF ResumeInv, SearchInv, ShapeInv, StageInv
  <1>1. rec'[c].meas # rec[c].meas
    BY DEF MeasuredCorrect
  <1>a. ~\E d \in Cand : OnlyModelOf(d) \/ OnlyProfileOf(d) \/ OnlyFinalOf(d)
    BY <1>1 DEF OnlyModelOf, OnlyProfileOf, OnlyFinalOf
  <1>b. rec' # rec
    BY <1>1
  <1>2. ~Still
    BY <1>1, StillSteps
  <1>3. ~(GenerateFromParent \/ RepairCandidate)
    BY <1>1, CreatedSteps DEF Created
  <1>4. ~(Begin \/ ModelSeed \/ MeasureSeed \/ ProfileSeed)
    BY DEF Begin, HasCheckpoint, ModelSeed, MeasureSeed, ProfileSeed, ResumeInv,
           SearchInv, OnceInv, SeedStages
  <1>5. ~(ModelCandidate \/ ModelRepaired \/ RemodelRepaired)
    <2>1. ASSUME ModelCandidate \/ ModelRepaired \/ RemodelRepaired
          PROVE  UNCHANGED rec \/ (todo # <<>> /\ EvaluateModel(Head(todo)))
      BY <1>0, <2>1 DEF ModelCandidate, ModelRepaired, RemodelRepaired
    <2> QED
      BY <1>0, <1>a, <1>b, <2>1, ModelFrame
  <1>6. ~(ProfileMeasured \/ MaybeProfileRound)
    <2>1. ProfileMeasured => UNCHANGED rec \/ (todo # <<>> /\ EvaluateProfile(Head(todo)))
      BY DEF ProfileMeasured
    <2>2. MaybeProfileRound =>
            /\ pc = "profile_round"
            /\ UNCHANGED rec \/ \E d \in measured \cup {Head(beam)} : EvaluateProfile(d)
      BY DEF MaybeProfileRound, StopForTime
    <2>3. pc = "profile_round" => measured \cup {Head(beam)} \subseteq Cand
      BY SequenceFacts
         DEF ResumeInv, BeamInv, Beam, ListsInv, Running, RoundStages, Correct
    <2> QED
      BY <1>0, <1>a, <1>b, <2>1, <2>2, <2>3, ProfileAnswer
  <1>7. ~FinalizeCandidate
    <2>1. FinalizeCandidate =>
            /\ todo # <<>>
            /\ \/ UNCHANGED rec
               \/ \E m : rec' = [rec EXCEPT ![Head(todo)].final = m]
               \/ \E cat : FinalFails(Head(todo), cat)
      BY DEF FinalizeCandidate
    <2> QED
      BY <1>0, <1>a, <1>b, <2>1, FinalFrame
  <1>8. ~CircuitBreaker
    <2>1. CircuitBreaker => \E d \in Cand, cat \in Category :
            \/ ModelFails(d, cat) \/ MeasureFails(d, cat)
            \/ rec' = [rec EXCEPT ![d].profile = cat]
            \/ FinalFails(d, cat)
      <3>1. pc = "profile_round" => measured \cup {beam[1]} \subseteq Cand
        BY DEF ResumeInv, BeamInv, Beam, ListsInv, Running, RoundStages, Correct
      <3> QED
        BY <1>0, <3>1 DEF CircuitBreaker
    <2>2. ASSUME NEW d \in Cand, NEW cat \in Category, MeasureFails(d, cat)
          PROVE  FALSE
      <3>1. OnlyMeasOf(d) /\ rec'[d].meas = -1
        BY <1>0, <2>2, MeasFrame DEF Failed
      <3>2. d = c
        BY <1>1, <3>1 DEF OnlyMeasOf
      <3> QED
        BY <3>1, <3>2 DEF MeasuredCorrect
    <2> QED
      BY <1>0, <1>a, <2>1, <2>2, ModelFrame, ProfileFrame, FinalFrame
  <1>9. CASE MeasureCandidate \/ RemeasureRepaired
    <2>1. todo # <<>> /\ EvaluateMeasurement(Head(todo))
      BY <1>0, <1>9, <1>b DEF MeasureCandidate, RemeasureRepaired
    <2>2. OnlyMeasOf(Head(todo))
      BY <1>0, <1>b, <2>1, MeasurementFrame
    <2>3. c = Head(todo)
      BY <1>1, <2>2 DEF OnlyMeasOf
    <2>4. c \in measured'
      <3>2. CASE \E why : MeasureFails(c, why)
        <4>1. rec'[c].meas = -1
          BY <1>0, <3>2, MeasFrame DEF Failed
        <4> QED
          BY <4>1 DEF MeasuredCorrect
      <3>3. CASE \E l : MeasureSucceeds(c, l)
        BY <3>3 DEF MeasureSucceeds
      <3> QED
        BY <1>b, <2>1, <2>3, <3>2, <3>3 DEF EvaluateMeasurement
    <2> QED
      BY <1>9, <2>1, <2>3, <2>4
  <1> QED
    BY <1>2, <1>3, <1>4, <1>5, <1>6, <1>7, <1>8, <1>9 DEF Next, Work, Rest, Still

(* The measurement stage and the update of the beam, from within: what has *)
(* been measured is kept until the beam takes it in, unless the process    *)
(* dies; the list of the selected only grows.                              *)
LEMMA RankingStep ==
  ASSUME ResumeInv, [Next]_vars, pc \in Ranking
  PROVE  /\ \/ pc' \in Ranking /\ measured \subseteq measured'
            \/ Running /\ pc' \notin Ranking /\ ckpt'.beam \in Beams(BeamPool)
            \/ CanFail /\ pc' = "failed"
         /\ pc' \in Ranking => \/ ckpt'.sel = ckpt.sel
                               \/ ckpt'.sel = ckpt.sel \o repaired
         /\ pc = "measure" /\ pc' \in Ranking =>
              MeasureCandidate \/ todo = <<>> \/ (pc' = pc /\ todo' = todo)
  <1> USE DEF Ranking, Measuring, Running, RoundStages, RepairLoops
  <1>0. /\ rec \in [Cand -> Record] /\ ckpt \in Checkpoint
        /\ todo # <<>> => Head(todo) \in Cand
        /\ pc = "remeasure" => todo # <<>>
    BY RecordFacts DEF ResumeInv, SearchInv, ShapeInv, StageInv, TypeOK
  <1>1. ~(\/ Begin \/ Restore \/ ModelSeed \/ MeasureSeed \/ ProfileSeed \/ FinishSeed
          \/ StopAtRoundStart \/ StartGeneration \/ ResumeRound \/ EndSearch
          \/ GenerateFromParent \/ EndGeneration \/ FinishGeneration)
    BY DEF Begin, Restore, ModelSeed, MeasureSeed, ProfileSeed, FinishSeed,
           StopAtRoundStart, StartGeneration, ResumeRound, EndSearch,
           GenerateFromParent, EndGeneration, FinishGeneration
  <1>2. ~(\/ ModelCandidate \/ SkipModelCandidates \/ StartModelRepair
          \/ ModelRepaired \/ FinishModeling \/ SelectCandidates \/ BeforeMeasurement
          \/ MaybeProfileRound \/ FinishRound
          \/ FreezeSearch \/ FinalizeCandidate \/ FinishFinalization \/ Export \/ Resume)
    BY DEF ModelCandidate, SkipModelCandidates, StartModelRepair, ModelRepaired,
           FinishModeling, SelectCandidates, BeforeMeasurement, MaybeProfileRound,
           FinishRound, FreezeSearch, FinalizeCandidate, FinishFinalization, Export,
           Resume, Ended
  <1>3. CASE PassOver
    BY <1>3 DEF PassOver
  <1>4. CASE RepairCandidate
    <2>1. ckpt'.sel = ckpt.sel
      BY <1>0, <1>4 DEF RepairCandidate, Checkpoint
    <2> QED
      BY <1>4, <2>1 DEF RepairCandidate
  <1>5. CASE MeasureCandidate \/ RemeasureRepaired
    <2>1. measured \subseteq measured'
      BY <1>0, <1>5, MeasurementFrame DEF MeasureCandidate, RemeasureRepaired
    <2>2. UNCHANGED ckpt /\ pc \in {"measure", "remeasure"} /\ pc' \in {"measure", "measure_repair"}
      BY <1>5 DEF MeasureCandidate, RemeasureRepaired
    <2>3. pc = "measure" => MeasureCandidate
      BY <1>5 DEF RemeasureRepaired
    <2> QED
      BY <2>1, <2>2, <2>3
  <1>6. CASE StartMeasureRepair \/ RemodelRepaired
    BY <1>6 DEF StartMeasureRepair, RemodelRepaired
  <1>7. CASE StartProfiling \/ ProfileMeasured
    BY <1>7 DEF StartProfiling, ProfileMeasured
  <1>8. CASE FinishMeasurement
    <2>1. /\ pc = "profile_all"
          /\ \/ \E b \in Beams(BeamPool) :
                  StopForTime(Phase, ckpt.ids \o repaired, ckpt.sel \o repaired, ckpt.best, b)
             \/ /\ pc' = "update_beam" /\ measured' = measured
                /\ ckpt' = Saved("measured", round - 1, round, ckpt.ids \o repaired,
                                 ckpt.sel \o repaired, ckpt.best, beam)
      BY <1>8 DEF FinishMeasurement
    <2>a. ASSUME NEW b,
                 StopForTime(Phase, ckpt.ids \o repaired, ckpt.sel \o repaired, ckpt.best, b)
          PROVE  pc' = "freeze" /\ ckpt'.beam = b
      BY <2>a, SavedFields DEF StopForTime
    <2>b. ckpt' = Saved("measured", round - 1, round, ckpt.ids \o repaired,
                        ckpt.sel \o repaired, ckpt.best, beam)
            => ckpt'.sel = ckpt.sel \o repaired
      BY DEF Saved
    <2>2. \/ pc' = "freeze" /\ ckpt'.beam \in Beams(BeamPool)
          \/ /\ pc' = "update_beam" /\ measured' = measured
             /\ ckpt'.sel = ckpt.sel \o repaired
      BY <2>1, <2>a, <2>b
    <2> QED
      BY <2>1, <2>2
  <1>9. CASE UpdateBeam
    BY <1>9, SavedFields DEF UpdateBeam
  <1>10. CASE CircuitBreaker \/ Crash
    BY <1>10 DEF CircuitBreaker, Crash, Raise, CanFail
  <1>11. CASE Deadline \/ UNCHANGED vars
    BY <1>11 DEF Deadline, vars, memory, stage
  <1> QED
    BY <1>1, <1>2, <1>3, <1>4, <1>5, <1>6, <1>7, <1>8, <1>9, <1>10, <1>11
       DEF Next, Work, Rest

(* The stage is entered from the checkpoint: either with the whole list    *)
(* still to go through, or past it with the results of the archive.        *)
LEMMA RankingEntry ==
  ASSUME ResumeInv, [Next]_vars, pc' \in Ranking, pc \notin Ranking
  PROVE  /\ UNCHANGED <<rec, ckpt>>
         /\ \/ pc' = "measure" /\ todo' = ckpt.sel
            \/ /\ pc' = "update_beam"
               /\ measured' = {c \in Range(ckpt.sel) : MeasuredCorrect(c)}
  <1> USE DEF Ranking, Measuring
  <1>1. ~(\/ Begin \/ Restore \/ ModelSeed \/ MeasureSeed \/ ProfileSeed \/ FinishSeed
          \/ StopAtRoundStart \/ StartGeneration \/ ResumeRound \/ EndSearch)
    BY DEF Begin, Restore, ModelSeed, MeasureSeed, ProfileSeed, Raise, FinishSeed,
           StopAtRoundStart, StopForTime, StartGeneration, ResumeRound, EndSearch
  <1>2. ~(GenerateFromParent \/ EndGeneration \/ FinishGeneration \/ PassOver)
    BY DEF GenerateFromParent, EndGeneration, FinishGeneration, StopForTime, PassOver
  <1>3. ~RepairCandidate
    BY DEF RepairCandidate, RepairLoops
  <1>4. ~(\/ ModelCandidate \/ SkipModelCandidates \/ StartModelRepair
          \/ ModelRepaired \/ FinishModeling \/ SelectCandidates)
    BY DEF ModelCandidate, SkipModelCandidates, StartModelRepair, ModelRepaired,
           FinishModeling, StopForTime, SelectCandidates
  <1>5. ~(\/ MeasureCandidate \/ StartMeasureRepair \/ RemodelRepaired
          \/ RemeasureRepaired \/ StartProfiling \/ ProfileMeasured
          \/ FinishMeasurement \/ UpdateBeam)
    BY DEF MeasureCandidate, StartMeasureRepair, RemodelRepaired, RemeasureRepaired,
           StartProfiling, ProfileMeasured, FinishMeasurement, UpdateBeam
  <1>6. ~(\/ MaybeProfileRound \/ FinishRound \/ FreezeSearch \/ FinalizeCandidate
          \/ FinishFinalization \/ Export \/ CircuitBreaker \/ Crash)
    BY DEF MaybeProfileRound, FinishRound, StopForTime, FreezeSearch,
           FinalizeCandidate, FinishFinalization, Export, CircuitBreaker, Crash, Raise
  <1>7. ~(Deadline \/ Resume \/ UNCHANGED vars)
    BY DEF Deadline, Resume, vars
  <1>8. CASE BeforeMeasurement
    <2>1. pc = "before_measure" /\ Phase = ckpt.phase
          /\ ckpt.phase \in {"selected", "measured", "beam_updated"}
      BY <1>8 DEF BeforeMeasurement, ResumeInv, FlowInv, ControlInv, At, Phase
    <2> QED
      BY <1>8, <2>1 DEF BeforeMeasurement, StopForTime
  <1> QED
    BY <1>1, <1>2, <1>3, <1>4, <1>5, <1>6, <1>7, <1>8 DEF Next, Work, Rest

(* A checkpoint with a measurement stage to finish is replaced by one that *)
(* names at least the same candidates, until the beam has been updated: as *)
(* long as there is no time budget to run out.                             *)
LEMMA PendingStep ==
  ASSUME ResumeInv, [Next]_vars, ~expired, reason # "time-budget",
         ckpt.phase \in {"selected", "measured"}
  PROVE  \/ /\ ckpt'.phase \in {"selected", "measured"}
            /\ ckpt'.sel \in {ckpt.sel, ckpt.sel \o repaired}
         \/ /\ pc = "update_beam" /\ Running /\ ckpt'.beam \in Beams(BeamPool)
  <1>0. ckpt \in Checkpoint /\ HasCheckpoint /\ ckpt.active # None
    BY DEF ResumeInv, SearchInv, ShapeInv, TypeOK, HasCheckpoint, FlowInv, ControlInv,
           ActivePhases
  <1>a. ckpt.completed + 1 = ckpt.active
    BY <1>0 DEF ResumeInv, FlowInv, ControlInv
  <1>b. pc \in {"round"} \cup RoundStages => round = ckpt.active /\ Phase = ckpt.phase
    BY <1>0, <1>a DEF ResumeInv, FlowInv, ControlInv, Phase
  <1>c. pc \notin Closing
    BY <1>0 DEF ResumeInv, FlowInv, ControlInv
  <1>d. ~\E ph, ids, sel, best, b : StopForTime(ph, ids, sel, best, b)
    BY DEF StopForTime
  <1>2. CASE \/ StartGeneration \/ ResumeRound \/ EndSearch \/ GenerateFromParent
             \/ EndGeneration \/ PassOver \/ ModelCandidate \/ SkipModelCandidates
             \/ StartModelRepair \/ ModelRepaired
    BY <1>2
       DEF StartGeneration, ResumeRound, EndSearch, GenerateFromParent,
           EndGeneration, PassOver, ModelCandidate, SkipModelCandidates,
           StartModelRepair, ModelRepaired
  <1>3. CASE \/ MeasureCandidate \/ StartMeasureRepair \/ RemodelRepaired
             \/ RemeasureRepaired \/ StartProfiling \/ ProfileMeasured
             \/ Begin \/ Restore \/ ModelSeed \/ MeasureSeed \/ ProfileSeed
    BY <1>3
       DEF MeasureCandidate, StartMeasureRepair, RemodelRepaired,
           RemeasureRepaired, StartProfiling, ProfileMeasured,
           Begin, Restore, ModelSeed, MeasureSeed, ProfileSeed
  <1>4. CASE CircuitBreaker \/ Deadline \/ Crash \/ Resume \/ UNCHANGED vars
    BY <1>4 DEF CircuitBreaker, Deadline, Crash, Resume, vars
  <1>5. CASE RepairCandidate
    BY <1>0, <1>5 DEF RepairCandidate, Checkpoint
  <1>6. ~FinishSeed
    BY <1>0 DEF FinishSeed, ResumeInv, SearchInv, OnceInv, SeedStages
  <1>7. ~(FreezeSearch \/ FinalizeCandidate \/ FinishFinalization \/ Export)
    BY <1>c DEF FreezeSearch, FinalizeCandidate, FinishFinalization, Export, Closing
  <1>8. ~StopAtRoundStart
    BY <1>d DEF StopAtRoundStart
  <1>9. ~FinishGeneration
    BY <1>0, <1>b DEF FinishGeneration, ResumeInv, FlowInv, ControlInv, RoundStages,
                      RepairLoops
  <1>10. ~FinishModeling /\ ~SelectCandidates /\ ~FinishRound
    BY <1>b DEF FinishModeling, SelectCandidates, FinishRound, ResumeInv, FlowInv,
                ControlInv, At
  <1>12. CASE BeforeMeasurement \/ MaybeProfileRound
    BY <1>12, <1>d DEF BeforeMeasurement, MaybeProfileRound
  <1>13. CASE FinishMeasurement
    <2>1. ckpt' = Saved("measured", round - 1, round, ckpt.ids \o repaired,
                        ckpt.sel \o repaired, ckpt.best, beam)
      BY <1>13, <1>d DEF FinishMeasurement
    <2> QED
      BY <2>1 DEF Saved
  <1>14. CASE UpdateBeam
    BY <1>14, SavedFields DEF UpdateBeam, Running, RoundStages
  <1> QED
    BY <1>2, <1>3, <1>4, <1>5, <1>6, <1>7, <1>8, <1>9, <1>10, <1>12, <1>13, <1>14
       DEF Next, Work, Rest

LEMMA HeldStep ==
  ASSUME ResumeInv, HeldInv, [Next]_vars
  PROVE  HeldInv'
  <1>1. Running' => beam' = ckpt'.beam
    <2>1. CASE HasCheckpoint
      BY <2>1, BeamSource DEF HeldInv
    <2>2. CASE ~HasCheckpoint /\ Running'
      <3>1. Onward
        <4>1. ~Running
          BY <2>2 DEF ResumeInv, FlowInv, ControlInv
        <4> QED
          BY <2>2, <4>1, Outcome
             DEF Running, RoundStages, RepairLoops, Closing, SeedStages, Raise,
                 Export, Resume, Deadline, vars
      <3>2. FinishSeed
        BY <2>2, <3>1, FirstCheckpoint
      <3> QED
        BY <3>2, SavedFields DEF FinishSeed
    <2> QED
      BY <2>1, <2>2
  <1>2. ASSUME pc' = "measure"
        PROVE  Range(todo') \subseteq Range(ckpt'.sel)
    <2>1. CASE pc \notin Ranking
      BY <1>2, <2>1, RankingEntry DEF Ranking, Measuring
    <2>2. CASE pc \in Ranking
      <3>0. todo \in Seq(Archived) /\ ckpt.sel \in Seq(InRound(CkptRound))
            /\ repaired \in Seq(Of("repair", round))
        BY DEF ResumeInv, ListsInv
      <3>1. Range(ckpt.sel) \subseteq Range(ckpt'.sel)
        <4>1. ckpt'.sel = ckpt.sel \/ ckpt'.sel = ckpt.sel \o repaired
          BY <1>2, <2>2, RankingStep DEF Ranking, Measuring
        <4>2. Range(ckpt.sel \o repaired) = Range(ckpt.sel) \cup Range(repaired)
          BY <3>0, JoinedRange
        <4> QED
          BY <4>1, <4>2
      <3>2. pc = "measure" /\ Range(todo') \subseteq Range(todo)
        <4>1. pc = "measure" /\ (todo' \in {todo, <<>>} \/ (todo # <<>> /\ todo' = Tail(todo)))
          BY <1>2, <2>2, MeasureEntry DEF Ranking, Measuring
        <4>2. todo # <<>> => Range(Tail(todo)) \subseteq Range(todo)
          BY <3>0 DEF Range
        <4>3. Range(<<>>) = {}
          BY DEF Range
        <4> QED
          BY <4>1, <4>2, <4>3
      <3> QED
        BY <3>1, <3>2 DEF HeldInv
    <2> QED
      BY <2>1, <2>2
  <1>3. ~TimeLimited => ~expired' /\ reason' # "time-budget"
    <2>1. ResumeInv'
      BY NextResume
    <2> QED
      BY <2>1, ReasonStep DEF HeldInv, ResumeInv, HardwareInv
  <1> QED
    BY <1>1, <1>2, <1>3 DEF HeldInv

(* One candidate over one step.  Something measured before the step:       *)
LEMMA RankedStep ==
  ASSUME RankInv, [Next]_vars, HasCheckpoint, NeverFinalized',
         NEW c \in Correct, Lasting(c)
  PROVE  OnDisk(c)' /\ InMemory(c)'
  <1>0. /\ c \in Cand /\ c \in Correct' /\ OnDisk(c) /\ InMemory(c)
        /\ rec'[c].kind = rec[c].kind /\ rec[c].meas > 0
    BY KeptResults DEF RankInv, KeptInv, Correct, MeasuredCorrect
  <1>a. ResumeInv /\ HeldInv /\ ResumeInv'
    BY NextResume DEF RankInv
  <1>b. CanFail => ~expired /\ reason # "time-budget" /\ rec[c].kind # "repair"
    BY <1>a DEF Lasting, HeldInv
  <1>c. /\ ckpt.sel \in Seq(InRound(CkptRound)) /\ repaired \in Seq(Of("repair", round))
        /\ todo \in Seq(Archived)
    BY <1>a DEF ResumeInv, ListsInv
  <1>d. CanFail => c \notin Range(repaired)
    BY <1>b, <1>c DEF Range, Of
  <1>e. Range(ckpt.sel \o repaired) = Range(ckpt.sel) \cup Range(repaired)
    BY <1>c, JoinedRange
  <1>f. ~Faster(c, Head(ckpt.beam)) => ~Faster(c, Head(ckpt.beam))'
    BY <1>a, IncumbentStep
  <1>g. Running /\ ckpt'.beam \in Beams(BeamPool) /\ c \in measured
          => ~Faster(c, Head(ckpt.beam))'
    BY <1>a, IncumbentStep
  <1>1. OnDisk(c)'
    <2>1. CASE ~Faster(c, Head(ckpt.beam))
      BY <1>f, <2>1 DEF OnDisk
    <2>2. CASE ~CanFail /\ pc \in Ranking /\ c \in measured
      BY <1>a, <1>g, <2>2, RankingStep DEF OnDisk, CanFail
    <2>3. CASE CanFail /\ Pending(c)
      <3>1. \/ /\ ckpt'.phase \in {"selected", "measured"}
               /\ ckpt'.sel \in {ckpt.sel, ckpt.sel \o repaired}
            \/ /\ pc = "update_beam" /\ Running /\ ckpt'.beam \in Beams(BeamPool)
        BY <1>a, <1>b, <2>3, PendingStep DEF Pending
      <3>2. CASE /\ ckpt'.phase \in {"selected", "measured"}
                 /\ ckpt'.sel \in {ckpt.sel, ckpt.sel \o repaired}
        BY <1>e, <2>3, <3>2 DEF OnDisk, Pending, CanFail
      <3>3. CASE pc = "update_beam" /\ Running /\ ckpt'.beam \in Beams(BeamPool)
        BY <1>0, <1>g, <2>3, <3>3 DEF InMemory, Pending, Ranking, OnDisk
      <3> QED
        BY <3>1, <3>2, <3>3
    <2> QED
      BY <1>0, <2>1, <2>2, <2>3 DEF OnDisk
  <1>2. ASSUME CanFail, pc' \in Ranking, c \in Range(ckpt'.sel)
        PROVE  c \in measured' \/ (pc' = "measure" /\ c \in Range(todo'))
    <2>1. CASE pc \notin Ranking
      BY <1>0, <1>a, <1>2, <2>1, RankingEntry DEF MeasuredCorrect
    <2>2. CASE pc \in Ranking
      <3>1. /\ ckpt'.sel = ckpt.sel \/ ckpt'.sel = ckpt.sel \o repaired
            /\ pc = "measure" =>
                 MeasureCandidate \/ todo = <<>> \/ (pc' = pc /\ todo' = todo)
        BY <1>a, <1>2, <2>2, RankingStep
      <3>2. c \in Range(ckpt.sel)
        BY <1>2, <1>d, <1>e, <3>1
      <3>3. c \in measured \/ (pc = "measure" /\ c \in Range(todo))
        BY <1>0, <1>2, <2>2, <3>2 DEF InMemory
      <3>4. CASE c \in measured
        <4>1. measured \subseteq measured'
          BY <1>a, <1>2, <2>2, RankingStep DEF Ranking, Measuring
        <4> QED
          BY <3>4, <4>1
      <3>5. CASE pc = "measure" /\ c \in Range(todo) /\ MeasureCandidate
        <4>1. /\ todo # <<>> /\ pc' = "measure"
              /\ todo' = Tail(todo) /\ EvaluateMeasurement(Head(todo))
          BY <1>2, <1>b, <3>5 DEF MeasureCandidate
        <4>2. c = Head(todo) \/ c \in Range(Tail(todo))
          BY <1>c, <3>5, <4>1, HeadOrTail
        <4>3. CASE c = Head(todo)
          <5>1. rec[c].meas # None /\ rec[c].meas # Failed
            BY <1>0 DEF None, Failed
          <5>2. MeasureSucceeds(c, rec[c].meas)
            BY <4>1, <4>3, <5>1 DEF EvaluateMeasurement
          <5> QED
            BY <5>2 DEF MeasureSucceeds
        <4> QED
          BY <4>1, <4>2, <4>3
      <3>6. CASE todo = <<>> /\ c \in Range(todo)
        BY <3>6 DEF Range
      <3> QED
        BY <3>1, <3>3, <3>4, <3>5, <3>6
    <2> QED
      BY <2>1, <2>2
  <1> QED
    BY <1>1, <1>2 DEF InMemory, CanFail

(* Something the step has measured:                                        *)
LEMMA NewlyRanked ==
  ASSUME RankInv, [Next]_vars, HasCheckpoint, NeverFinalized',
         NEW c \in Cand, MeasuredCorrect(c)', ~MeasuredCorrect(c), Lasting(c)'
  PROVE  OnDisk(c)' /\ InMemory(c)'
  <1>a. ResumeInv /\ HeldInv
    BY DEF RankInv
  <1>1. /\ MeasureCandidate \/ RemeasureRepaired
        /\ todo # <<>> /\ c = Head(todo) /\ c \in measured'
    BY <1>a, NewlyMeasured
  <1>2. /\ UNCHANGED ckpt /\ pc \in {"measure", "remeasure"}
        /\ pc' \in {"measure", "measure_repair"}
        /\ pc = "remeasure" => RemeasureRepaired
    BY <1>1 DEF MeasureCandidate, RemeasureRepaired
  <1>3. pc' \in Ranking
    BY <1>2 DEF Ranking, Measuring
  <1>4. CASE ~CanFail
    BY <1>1, <1>3, <1>4 DEF OnDisk, InMemory, CanFail
  <1>5. CASE CanFail /\ pc = "measure"
    <2>1. todo \in Seq(Archived)
      BY <1>a DEF ResumeInv, ListsInv
    <2>2. c \in Range(todo)
      BY <1>1, <2>1 DEF Range
    <2>3. c \in Range(ckpt.sel) /\ ckpt.phase = "selected"
      BY <1>a, <1>5, <2>2 DEF HeldInv, ResumeInv, FlowInv, ControlInv, At, Measuring
    <2> QED
      BY <1>1, <1>2, <1>5, <2>3 DEF OnDisk, InMemory, Pending, CanFail
  <1>6. ~(CanFail /\ pc = "remeasure")
    <2>1. pc = "remeasure" => rec[c].kind = "repair"
      BY <1>a, <1>1 DEF ResumeInv, ListsInv, Of
    <2>2. rec'[c].kind = rec[c].kind
      <3>1. ResultsKept(c)
        BY <1>a, <1>1, RecordFacts, NextSearch DEF ResumeInv, Archived
      <3> QED
        BY <3>1 DEF ResultsKept
    <2> QED
      BY <2>1, <2>2 DEF Lasting, CanFail
  <1> QED
    BY <1>2, <1>4, <1>5, <1>6

LEMMA InitRank ==
  ASSUME Init
  PROVE  RankInv
  <1>1. ResumeInv
    BY InitResume
  <1>2. /\ \A c \in Cand : ~MeasuredCorrect(c)
        /\ pc = "ready" /\ reason = "none" /\ expired = FALSE
    BY DEF Init, Blank, MeasuredCorrect, None
  <1>3. HeldInv
    BY <1>2 DEF HeldInv, Running, RoundStages, RepairLoops, Closing
  <1>4. SeedRanked
    BY DEF Init, NoCheckpoint, SeedRanked, HasCheckpoint
  <1> QED
    BY <1>1, <1>2, <1>3, <1>4 DEF RankInv, KeptInv

LEMMA NextRank ==
  ASSUME RankInv, [Next]_vars
  PROVE  RankInv'
  <1>1. ResumeInv' /\ HeldInv'
    BY NextResume, HeldStep DEF RankInv
  <1> SUFFICES KeptInv' /\ SeedRanked'
    BY <1>1 DEF RankInv
  <1>2. CASE HasCheckpoint
    <2>1. ASSUME NeverFinalized', NEW c \in Cand, MeasuredCorrect(c)', Lasting(c)'
          PROVE  OnDisk(c)' /\ InMemory(c)'
      <3>1. CASE MeasuredCorrect(c)
        <4>1. c \in Correct
          BY <3>1 DEF Correct
        <4>2. rec'[c].kind = rec[c].kind
          BY <1>2, <4>1, KeptResults DEF RankInv
        <4>3. Lasting(c)
          BY <2>1, <4>2 DEF Lasting, CanFail
        <4> QED
          BY <1>2, <2>1, <4>1, <4>3, RankedStep
      <3>2. CASE ~MeasuredCorrect(c)
        BY <1>2, <2>1, <3>2, NewlyRanked
      <3> QED
        BY <3>1, <3>2
    <2>2. SeedRanked'
      <3>1. Seed \in Correct
        BY <1>2, Bounds DEF RankInv, ResumeInv, SeedInv, Correct
      <3>2. NeverFinalized' => NeverFinalized
        BY <1>2, KeptResults DEF RankInv
      <3> QED
        BY <1>2, <3>1, <3>2, IncumbentStep DEF RankInv, SeedRanked
    <2> QED
      BY <2>1, <2>2 DEF KeptInv
  <1>3. CASE ~HasCheckpoint /\ ~HasCheckpoint'
    <2>1. pc' \notin Ranking
      BY <1>1, <1>3
         DEF ResumeInv, FlowInv, ControlInv, Running, RoundStages, RepairLoops,
             Ranking, Measuring
    <2> QED
      BY <1>3, <2>1 DEF KeptInv, OnDisk, InMemory, SeedRanked
  <1>4. CASE ~HasCheckpoint /\ HasCheckpoint'
    <2>1. FinishSeed
      <3>1. ~Export
        BY <1>4 DEF Export, RankInv, ResumeInv, FlowInv, ControlInv, Running, Closing
      <3>2. UNCHANGED ckpt \/ Onward
        BY <3>1, Outcome
           DEF Resume, Deadline, vars, Begin, ModelSeed, MeasureSeed, ProfileSeed,
               Raise, SeedStages
      <3> QED
        BY <1>4, <3>2, FirstCheckpoint DEF HasCheckpoint, RankInv
    <2>2. /\ pc = "seed_done" /\ pc' = "round" /\ UNCHANGED rec
          /\ ckpt'.beam = <<Seed>>
      BY <2>1, SavedFields DEF FinishSeed
    <2>3. \A c \in Cand : MeasuredCorrect(c) => c = Seed
      <3>1. \A c \in Cand \ {Seed} : ~Exists(c)
        BY <2>2 DEF RankInv, ResumeInv, SeedInv, SeedStages
      <3> QED
        BY <3>1, RecordFacts DEF RankInv, Correct, Archived
    <2>4. ~Faster(Seed, Seed)
      BY Bounds, RankingsStrict, RecordFacts DEF RankInv
    <2>5. Head(ckpt'.beam) = Seed
      BY <2>2
    <2>6. ASSUME NEW c \in Cand, MeasuredCorrect(c)'
          PROVE  ~Faster(c, Head(ckpt.beam))'
      BY <2>2, <2>3, <2>4, <2>5, <2>6 DEF Faster, MeasuredCorrect
    <2>7. pc' \notin Ranking
      BY <2>2 DEF Ranking, Measuring
    <2>8. SeedRanked'
      BY <2>2, <2>4, <2>5 DEF SeedRanked, Faster
    <2> QED
      BY <2>6, <2>7, <2>8 DEF KeptInv, OnDisk, InMemory
  <1> QED
    BY <1>2, <1>3, <1>4

(* At the head of a round the incumbent is the fastest of all that has     *)
(* been measured correct: whatever the process, for one that cannot die;   *)
(* of all but the repairs, for one that can and has no time budget; and it *)
(* is never slower than the input kernel (_run_round, _update_beam,        *)
(* _restore).                                                              *)
THEOREM BestIsKept == Spec => []BeamKeepsBest
  <1>1. Spec => []RankInv
    BY InitRank, NextRank, PTL DEF Spec
  <1>2. ASSUME RankInv
        PROVE  BeamKeepsBest
    <2> SUFFICES ASSUME pc = "round", ckpt.active = None, NeverFinalized,
                        NEW c \in Cand, MeasuredCorrect(c), Lasting(c) \/ c = Seed
                 PROVE  ~Faster(c, Head(beam))
      BY DEF BeamKeepsBest
    <2>1. HasCheckpoint /\ beam = ckpt.beam
      BY <1>2 DEF RankInv, ResumeInv, FlowInv, ControlInv, HeldInv, Running
    <2>2. ckpt.phase \notin {"selected", "measured"} /\ pc \notin Ranking
      BY <1>2, <2>1
         DEF RankInv, ResumeInv, FlowInv, ControlInv, ActivePhases, Ranking, Measuring
    <2>3. CASE Lasting(c)
      <3>1. OnDisk(c)
        BY <1>2, <2>3 DEF RankInv, KeptInv
      <3> QED
        BY <2>1, <2>2, <3>1 DEF OnDisk, Pending
    <2>4. CASE c = Seed
      BY <1>2, <2>1, <2>4 DEF RankInv, SeedRanked
    <2> QED
      BY <2>3, <2>4
  <1> QED
    BY <1>1, <1>2, PTL

=============================================================================
