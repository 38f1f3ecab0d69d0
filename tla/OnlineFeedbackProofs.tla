------------------------ MODULE OnlineFeedbackProofs ------------------------
(***************************************************************************)
(* What OnlineFeedback keeps of the search's measurements, for every       *)
(* number of rounds, proposals, repairs, crashes and stops.                *)
(***************************************************************************)
EXTENDS OnlineFeedback, Recursion, FiniteSetTheorems, SequenceTheorems, TLAPS

-----------------------------------------------------------------------------
(***************************************************************************)
(* The state: types, and what a candidate of the archive may look like.    *)
(***************************************************************************)
Stages == {"generate", "model", "select", "measure", "model-repair",
           "profile-all", "profile", "finish", "over", "down"}
Phases == {"", "generated", "modeled", "selected", "measured"}
LessonKinds == {"failure", "hardware-profile", "measured-outcome"}

Observation == [of : Nat, regime : Regimes, ms : Nat, latency : Nat]

Scales == {0} \cup {Scale(observations, regime) :
                      observations \in Seq(Observation), regime \in Regimes}

Prediction == [valid : BOOLEAN, ms : Nat, regime : Regimes \cup {<<>>},
               scale : Scales]

Candidate ==
  [generation : Nat, parent : Nat, kind : {"seed", "proposal", "repair"},
   failure : Failures, modelled : BOOLEAN, model : Prediction,
   measured : BOOLEAN, latency : Nat, profile : {"none", "valid", "failed"}]

TypeInv ==
  /\ policy \in Policies /\ round \in 1..Rounds + 1 /\ pc \in Stages
  /\ records \in Seq(Candidate) /\ Seed \in Known
  /\ todo \in SUBSET Known /\ queue \in SUBSET Known /\ ids \in SUBSET Known
  /\ repairs \in 0..MaxRepairs
  /\ memory \in [observations : Seq(Observation),
                 lessons : SUBSET (Known \X LessonKinds), trust : {memory.trust}]
  /\ saved \in [phase : Phases, round : Nat, ids : SUBSET Known,
                repairs : 0..MaxRepairs, observations : Seq(Observation),
                lessons : SUBSET (Known \X LessonKinds)]
  /\ crashes \in Nat /\ stops \in Nat /\ crashes + stops <= MaxEnds
  /\ forgotten \in 0..Rounds

Sane(c) ==
  /\ records[c].parent < c /\ (c # Seed => records[c].parent >= 1)
  /\ records[c].generation <= round
  /\ records[c].kind = "seed" <=> c = Seed
  /\ c = Seed => records[c].generation = 0
  /\ records[c].model.valid => /\ records[c].modelled
                               /\ records[c].model.ms \in Predicted
                               /\ records[c].model.regime \in Regimes
  /\ ~records[c].model.valid => records[c].model = NoModel
  /\ Correct(c, records) => records[c].measured
  /\ policy = "ncu" => ~records[c].model.valid
  /\ c = Seed => /\ Correct(c, records) /\ records[c].failure = "none"
                 /\ policy = "tilesight" => records[c].model.valid

CandidatesInv == \A c \in Known : Sane(c)

-----------------------------------------------------------------------------
(***************************************************************************)
(* Where a process is, and what its checkpoint says of it.                 *)
(***************************************************************************)
PhaseOf(stage) ==
  CASE stage = "generate" -> ""
    [] stage = "model"    -> "generated"
    [] stage = "select"   -> "modeled"
    [] stage \in {"measure", "model-repair", "profile-all"} -> "selected"
    [] OTHER -> "measured"

StageInv ==
  /\ pc # "over" => round <= Rounds
  /\ Running => /\ saved.phase = PhaseOf(pc) /\ saved.repairs = repairs
                /\ saved.ids \subseteq ids
                /\ \A c \in ids \ saved.ids : records[c].kind = "repair"
  /\ saved.phase = "" => saved.ids = {}
  /\ pc \in {"generate", "over", "down"} =>
       ids = {} /\ todo = {} /\ queue = {} /\ (pc # "generate" => repairs = 0)
  /\ todo \subseteq ids /\ queue \subseteq ids
  /\ pc = "select" => ids = saved.ids
  /\ \A c \in ids \cup saved.ids : records[c].generation = round
  /\ pc = "model-repair" =>
       /\ policy = "tilesight"
       /\ \E c \in Known : /\ todo = {c} /\ records[c].kind = "repair"
                           /\ ~records[c].measured

(* A candidate is modelled before it is measured, as far as the stages see *)
(* to it: all that is unmodelled when the model stage ends are repairs of  *)
(* the measurement stage, and sources that failed.                         *)
Covered(c) == records[c].modelled \/ records[c].failure # "none"

ModelInv == policy = "tilesight" =>
  /\ pc = "model" => \A c \in ids : records[c].modelled \/ c \in todo
  /\ saved.phase = "modeled" => \A c \in saved.ids : records[c].modelled
  /\ saved.phase \in {"modeled", "selected", "measured"} =>
       /\ \A c \in InRound("proposal") : Covered(c)
       /\ \A c \in saved.ids : records[c].kind = "proposal" => records[c].modelled
  /\ saved.phase = "generated" =>
       /\ \A c \in InRound("proposal") : Covered(c) \/ c \in saved.ids
       /\ \A c \in saved.ids : records[c].modelled \/ records[c].failure = "none"
  /\ pc = "model" =>
       \A c \in ids : records[c].modelled \/ records[c].failure = "none"
  /\ \A c \in Known : records[c].kind = "proposal" /\ records[c].measured =>
                        records[c].modelled
  /\ \A c \in Known : /\ records[c].generation = round /\ records[c].measured
                      /\ ~records[c].modelled /\ forgotten = 0
                      => saved.phase \in {"selected", "measured"}

(* How many candidates there are.                                          *)
CountInv ==
  /\ Cardinality(InRound("proposal")) <= Proposals
  /\ Len(records) <= 1 + (round - 1) * (Proposals + MaxRepairs)
                       + Cardinality(InRound("proposal")) + saved.repairs

-----------------------------------------------------------------------------
(* Trust is that of the archive wherever a stage is entered or left.       *)
TrustInv ==
  \/ ~Running \/ Overtaken
  \/ pc = "measure" /\ todo # {}
  \/ memory.trust = TrustOf(records)

(* What a process has learned is in its memory, or comes again.            *)
Taught(lessons, c) == \E lesson \in lessons : lesson[1] = c

Lasting(c) == records[c].measured /\ records[c].failure # "infrastructure"

Again(c) == saved.phase = "selected" /\ c \in saved.ids

LessonsSaved ==
  /\ Running => saved.lessons \subseteq memory.lessons
  /\ Taught(saved.lessons, Seed)

LessonsOfRun ==
  \A c \in Known : Lasting(c) /\ crashes = 0 =>
    IF Running THEN Taught(memory.lessons, c) ELSE Taught(saved.lessons, c)

LessonsLast ==
  \A c \in Known : Lasting(c) /\ records[c].kind # "repair" /\ forgotten = 0 =>
    /\ Taught(saved.lessons, c) \/ Again(c)
    /\ Running => Taught(memory.lessons, c) \/ (Measuring /\ c \in todo)

Timed ==
  \A c \in Known : records[c].measured /\ records[c].failure = "none" =>
    Correct(c, records)

LessonInv == LessonsSaved /\ LessonsOfRun /\ LessonsLast /\ Timed

Prefix(s, t) == \A i \in DOMAIN s : i \in DOMAIN t /\ s[i] = t[i]

(* Observations are of candidates as the archive has them, each once.      *)
AccurateIn(observations, rs) ==
  /\ \A i \in DOMAIN observations :
       LET c == observations[i].of
       IN /\ c \in DOMAIN rs /\ Ranked(c, rs)
          /\ observations[i].ms = rs[c].model.ms
          /\ observations[i].latency = rs[c].latency
  /\ \A i, j \in DOMAIN observations :
       observations[i].of = observations[j].of => i = j

ObservedIn(observations, c, rs) ==
  \E i \in DOMAIN observations :
    /\ observations[i].of = c /\ observations[i].ms = rs[c].model.ms
    /\ observations[i].latency = rs[c].latency

Observable(c) ==
  Ranked(c, records) /\ (records[c].kind = "repair" => forgotten = 0)

ObservedSaved ==
  /\ AccurateIn(memory.observations, records)
  /\ AccurateIn(saved.observations, records)
  /\ Running => Prefix(saved.observations, memory.observations)
  /\ policy = "tilesight" => /\ saved.observations # <<>>
                             /\ Running => memory.observations # <<>>

ObservedOfRun ==
  \A c \in Known : Observable(c) /\ crashes = 0 =>
    IF Running THEN ObservedIn(memory.observations, c, records)
    ELSE ObservedIn(saved.observations, c, records)

ObservedLast ==
  \A c \in Known : Observable(c) /\ records[c].kind # "repair" /\ forgotten = 0 =>
    /\ ObservedIn(saved.observations, c, records) \/ Again(c)
    /\ Running => \/ ObservedIn(memory.observations, c, records)
                  \/ Measuring /\ c \in todo

ObservedInv == ObservedSaved /\ ObservedOfRun /\ ObservedLast

(* Until the round measures, its models are of the saved calibration.      *)
Scaled(c) ==
  records[c].model.valid =>
    records[c].model.scale = Scale(saved.observations, records[c].model.regime)

ScaleInv == policy = "tilesight" =>
  /\ pc \in {"generate", "model", "select"} =>
       memory.observations = saved.observations
  /\ forgotten # round /\ saved.phase \in {"", "generated", "modeled"} =>
       \A c \in Known : records[c].generation = round => Scaled(c)

-----------------------------------------------------------------------------
(* Steps of the archive *)

LEMMA Constants ==
  /\ Predicted \subseteq Nat /\ Latencies \subseteq Nat
  /\ \A latency \in Latencies : latency > 0
  /\ Rounds \in Nat /\ Rounds >= 1 /\ Proposals \in Nat /\ Proposals >= 1
  /\ MaxRepairs \in Nat /\ MaxEnds \in Nat
  /\ \A p \in Policies : p \in {"tilesight", "ncu"}
BY FeedbackAssumption

LEMMA KnownIs ==
  ASSUME TypeInv
  PROVE  /\ Len(records) \in Nat /\ Len(records) >= 1
         /\ Known = 1..Len(records)
         /\ \A c \in Known : c \in Nat /\ c >= 1 /\ records[c] \in Candidate
BY DEF TypeInv, Known, Seed

LEMMA InRange ==
  ASSUME NEW n \in Nat, NEW r \in 1..n + 1
  PROVE  r \in Nat
OBVIOUS

LEMMA RoundIs ==
  ASSUME TypeInv
  PROVE  round \in Nat /\ round >= 1 /\ round <= Rounds + 1
<1>1. round \in 1..Rounds + 1 /\ Rounds \in Nat
  BY Constants DEF TypeInv
<1> QED
  BY <1>1

(* What a candidate is known by never changes.                             *)
Only(c) ==
  /\ records' \in Seq(Candidate) /\ Known' = Known /\ Len(records') = Len(records)
  /\ \A d \in Known : d # c => records'[d] = records[d]
  /\ records'[c].generation = records[c].generation
  /\ records'[c].parent = records[c].parent
  /\ records'[c].kind = records[c].kind

ModelStep(c) ==
  /\ Only(c)
  /\ records'[c].measured = records[c].measured
  /\ records'[c].latency = records[c].latency
  /\ records'[c].modelled
  /\ \/ /\ records'[c].failure = "none" /\ records'[c].model.valid
        /\ records'[c].model.ms \in Predicted
        /\ records'[c].model.regime \in Regimes
        /\ records'[c].model.scale =
             Scale(memory.observations, records'[c].model.regime)
        /\ memory'.lessons = memory.lessons
     \/ /\ records'[c].failure \in {"model", "infrastructure"}
        /\ records'[c].model = NoModel
        /\ memory'.lessons = memory.lessons \cup Lesson(c, records')
  /\ memory' = [observations |-> memory.observations,
                lessons |-> memory'.lessons, trust |-> memory.trust]

MeasureStep(c) ==
  /\ Only(c)
  /\ records'[c].modelled = records[c].modelled
  /\ records'[c].model = records[c].model
  /\ records'[c].measured
  /\ IF records[c].measured THEN records'[c] = records[c]
     ELSE \/ records'[c].latency \in Latencies /\ records'[c].failure = "none"
          \/ /\ records'[c].latency = 0
             /\ records'[c].failure \in {"measurement", "infrastructure"}
  /\ memory' = [observations |-> Observe(memory.observations, c, records'),
                lessons |-> memory.lessons \cup Lesson(c, records'),
                trust |-> TrustAfter(c, records')]

ProfileStep(c) ==
  /\ Only(c)
  /\ records'[c].failure = records[c].failure
  /\ records'[c].modelled = records[c].modelled
  /\ records'[c].model = records[c].model
  /\ records'[c].measured = records[c].measured
  /\ records'[c].latency = records[c].latency
  /\ memory' = [observations |-> memory.observations,
                lessons |-> memory.lessons \cup Lesson(c, records'),
                trust |-> memory.trust]

Added(parent, kind, failure) ==
  LET c == Len(records) + 1
  IN /\ records' \in Seq(Candidate) /\ Len(records') = c
     /\ c \notin Known /\ Known' = Known \cup {c}
     /\ \A d \in Known : records'[d] = records[d]
     /\ records'[c] = Proposed(round, parent, kind, failure)

LEMMA NoModelIsOne == NoModel \in Prediction
BY DEF NoModel, Prediction, Scales

LEMMA EditFacts ==
  ASSUME TypeInv, NEW c \in Known, NEW r \in Candidate,
         records' = [records EXCEPT ![c] = r],
         r.generation = records[c].generation, r.parent = records[c].parent,
         r.kind = records[c].kind
  PROVE  Only(c) /\ records'[c] = r
<1>1. /\ records \in Seq(Candidate) /\ Len(records) \in Nat
      /\ Known = 1..Len(records) /\ DOMAIN records = 1..Len(records)
  BY KnownIs DEF TypeInv, Known
<1>2. /\ records' \in Seq(Candidate) /\ Len(records') = Len(records)
      /\ DOMAIN records' = DOMAIN records
  BY <1>1
<1>3. \A d \in Known : records'[d] = IF d = c THEN r ELSE records[d]
  BY <1>1
<1> QED
  BY <1>1, <1>2, <1>3 DEF Only, Known

LEMMA ModelStepFacts ==
  ASSUME TypeInv, NEW c \in Known, NEW model \in Models,
         NEW failure \in {"none", "model", "infrastructure"},
         Modelled(c, model, failure)
  PROVE  ModelStep(c)
<1> DEFINE r == [records[c] EXCEPT
              !.modelled = TRUE, !.failure = failure,
              !.model = IF failure = "none"
                        THEN [model EXCEPT !.scale =
                                Scale(memory.observations, model.regime)]
                        ELSE NoModel]
<1>1. records' = [records EXCEPT ![c] = r]
  BY DEF Modelled, ModelOf
<1>2. /\ model.valid /\ model.ms \in Predicted /\ model.regime \in Regimes
      /\ model = [valid |-> TRUE, ms |-> model.ms, regime |-> model.regime,
                  scale |-> 0]
  BY DEF Models
<1> DEFINE s == Scale(memory.observations, model.regime)
           m == [model EXCEPT !.scale = s]
<1>3. s \in Scales
  BY <1>2 DEF Scales, TypeInv
<1> HIDE DEF s
<1>4. /\ m \in Prediction /\ m.valid /\ m.ms = model.ms
      /\ m.regime = model.regime /\ m.scale = s
  <2>1. model.ms \in Nat
    BY <1>2, Constants
  <2> QED
    BY <1>2, <1>3, <2>1 DEF Prediction
<1>5. r = [records[c] EXCEPT !.modelled = TRUE, !.failure = failure,
                            !.model = IF failure = "none" THEN m ELSE NoModel]
  BY DEF s
<1> HIDE DEF m
<1>6. records[c] \in Candidate
  BY KnownIs
<1> HIDE DEF r
<1>7. /\ r \in Candidate
      /\ r.generation = records[c].generation /\ r.parent = records[c].parent
      /\ r.kind = records[c].kind /\ r.measured = records[c].measured
      /\ r.latency = records[c].latency /\ r.modelled
      /\ r.failure = failure
      /\ r.model = IF failure = "none" THEN m ELSE NoModel
  BY <1>4, <1>5, <1>6, NoModelIsOne DEF Candidate, Failures
<1>8. Only(c) /\ records'[c] = r
  BY <1>1, <1>7, EditFacts
<1>9. /\ memory'.lessons = IF failure = "none" THEN memory.lessons
                           ELSE memory.lessons \cup Lesson(c, records')
      /\ memory' = [observations |-> memory.observations,
                    lessons |-> memory'.lessons, trust |-> memory.trust]
  BY DEF Modelled, Remember, TypeInv
<1>10. CASE failure = "none"
  BY <1>2, <1>4, <1>7, <1>8, <1>9, <1>10 DEF ModelStep, s
<1>11. CASE failure # "none"
  BY <1>7, <1>8, <1>9, <1>11 DEF ModelStep
<1> QED
  BY <1>10, <1>11

LEMMA MeasureStepFacts ==
  ASSUME TypeInv, NEW c \in Known, Measure(c)
  PROVE  MeasureStep(c)
<1>1. PICK r \in Outcome(c) : records' = [records EXCEPT ![c] = r]
  BY DEF Measure
<1>2. records[c] \in Candidate
  BY KnownIs
<1>3. /\ r \in Candidate
      /\ r.generation = records[c].generation /\ r.parent = records[c].parent
      /\ r.kind = records[c].kind /\ r.modelled = records[c].modelled
      /\ r.model = records[c].model /\ r.measured
      /\ IF records[c].measured THEN r = records[c]
         ELSE \/ r.latency \in Latencies /\ r.failure = "none"
              \/ r.latency = 0 /\ r.failure \in {"measurement", "infrastructure"}
  <2>1. CASE records[c].measured
    BY <1>1, <1>2, <2>1 DEF Outcome, Candidate
  <2>2. CASE ~records[c].measured
    <3>1. PICK latency, failure :
            /\ r = [records[c] EXCEPT !.measured = TRUE, !.latency = latency,
                                      !.failure = failure]
            /\ \/ latency \in Latencies /\ failure = "none"
               \/ latency = 0 /\ failure \in {"measurement", "infrastructure"}
      BY <1>1, <2>2 DEF Outcome
    <3>2. latency \in Nat
      BY <3>1, Constants
    <3>3. failure \in Failures
      BY <3>1 DEF Failures
    <3>4. r.latency = latency /\ r.failure = failure /\ r.measured
      BY <1>2, <3>1 DEF Candidate
    <3>5. r \in Candidate
      BY <1>2, <3>1, <3>2, <3>3 DEF Candidate
    <3> QED
      BY <1>2, <2>2, <3>1, <3>4, <3>5 DEF Candidate
  <2> QED
    BY <2>1, <2>2
<1>4. Only(c) /\ records'[c] = r
  BY <1>1, <1>3, EditFacts
<1> QED
  BY <1>3, <1>4 DEF Measure, MeasureStep, Remember

LEMMA ProfileStepFacts ==
  ASSUME TypeInv, NEW c \in Known, Profiled(c)
  PROVE  ProfileStep(c)
<1>1. PICK profile \in {"none", "valid", "failed"} :
        records' = [records EXCEPT ![c] = [records[c] EXCEPT !.profile = profile]]
  <2>1. records[c].profile \in {"none", "valid", "failed"}
    BY KnownIs DEF Candidate
  <2> QED
    BY <2>1 DEF Profiled
<1> DEFINE r == [records[c] EXCEPT !.profile = profile]
<1>2. records[c] \in Candidate
  BY KnownIs
<1>3. /\ r \in Candidate
      /\ r.generation = records[c].generation /\ r.parent = records[c].parent
      /\ r.kind = records[c].kind /\ r.modelled = records[c].modelled
      /\ r.model = records[c].model /\ r.measured = records[c].measured
      /\ r.latency = records[c].latency /\ r.failure = records[c].failure
  BY <1>2 DEF Candidate
<1> HIDE DEF r
<1>4. Only(c) /\ records'[c] = r
  BY <1>1, <1>3, EditFacts DEF r
<1>5. memory' = [observations |-> memory.observations,
                 lessons |-> memory.lessons \cup Lesson(c, records'),
                 trust |-> memory.trust]
  BY DEF Profiled, Remember, TypeInv
<1> QED
  BY <1>3, <1>4, <1>5 DEF ProfileStep

LEMMA AddedFacts ==
  ASSUME TypeInv, NEW parent \in Known, NEW kind \in {"proposal", "repair"},
         NEW failure \in Failures,
         records' = Append(records, Proposed(round, parent, kind, failure))
  PROVE  Added(parent, kind, failure)
<1> DEFINE r == Proposed(round, parent, kind, failure)
<1>1. /\ records \in Seq(Candidate) /\ Len(records) \in Nat
      /\ Known = 1..Len(records) /\ parent \in Nat /\ round \in Nat
  <2>1. Known = 1..Len(records) /\ Len(records) \in Nat /\ parent \in Nat
    BY KnownIs
  <2>2. round \in Nat
    BY RoundIs
  <2>3. records \in Seq(Candidate)
    BY DEF TypeInv
  <2> QED
    BY <2>1, <2>2, <2>3
<1>2. r \in Candidate
  BY <1>1, NoModelIsOne DEF Proposed, Candidate
<1> HIDE DEF r
<1>3. records' = Append(records, r)
  BY DEF r
<1>4. /\ records' \in Seq(Candidate) /\ Len(records') = Len(records) + 1
      /\ \A d \in 1..Len(records) : records'[d] = records[d]
      /\ records'[Len(records) + 1] = r
  BY <1>1, <1>2, <1>3
<1>5. DOMAIN records' = 1..Len(records) + 1
  BY <1>4
<1>6. /\ Len(records) + 1 \notin Known
      /\ Known' = Known \cup {Len(records) + 1}
  BY <1>1, <1>5 DEF Known
<1> QED
  BY <1>1, <1>4, <1>6 DEF Added, r

-----------------------------------------------------------------------------
(* Observations and lessons *)

LEMMA LessonType ==
  ASSUME NEW c, NEW rs
  PROVE  Lesson(c, rs) \subseteq {c} \X LessonKinds
BY DEF Lesson, LessonKinds

(* What may be observed of a candidate.                                    *)
Observing(c, rs) ==
  Ranked(c, rs) =>
    /\ rs[c].model.regime \in Regimes /\ rs[c].model.ms \in Nat
    /\ rs[c].latency \in Nat

LEMMA ObserveType ==
  ASSUME NEW observations \in Seq(Observation), NEW c \in Nat, NEW rs,
         Observing(c, rs)
  PROVE  Observe(observations, c, rs) \in Seq(Observation)
<1> DEFINE o == [of |-> c, regime |-> rs[c].model.regime,
                 ms |-> rs[c].model.ms, latency |-> rs[c].latency]
<1>1. CASE Ranked(c, rs)
  <2>1. o \in Observation
    BY <1>1 DEF Observing, Observation
  <2>2. Append(observations, o) \in Seq(Observation)
    BY <2>1
  <2> QED
    BY <2>2 DEF Observe
<1>2. CASE ~Ranked(c, rs)
  BY <1>2 DEF Observe, Ranked
<1> QED
  BY <1>1, <1>2

LEMMA ObservingRecords ==
  ASSUME TypeInv, CandidatesInv, NEW c \in Known
  PROVE  Observing(c, records)
<1>1. records[c].model.valid => /\ records[c].model.ms \in Predicted
                                /\ records[c].model.regime \in Regimes
  BY DEF CandidatesInv, Sane
<1>2. records[c].latency \in Nat
  BY KnownIs DEF Candidate
<1> QED
  BY <1>1, <1>2, Constants DEF Observing, Ranked

(* All observations of the archive: one candidate after the other.         *)
LEMMA ObserveSteps ==
  ASSUME TypeInv, CandidatesInv
  PROVE  \E f \in [0..Len(records) -> Seq(Observation)] :
           /\ f[0] = <<>>
           /\ \A c \in Known : f[c] = Observe(f[c - 1], c, records)
           /\ AllObservations = f[Len(records)]
<1> DEFINE n == Len(records)
           S == Seq(Observation)
           step == [p \in (1..n) \X S |-> Observe(p[2], p[1], records)]
<1>1. n \in Nat /\ Known = 1..n
  BY KnownIs
<1>2. \A c \in 1..n, o \in S : Observe(o, c, records) \in S
  BY <1>1, ObserveType, ObservingRecords
<1>3. <<>> \in S
  OBVIOUS
<1>4. step \in [(1..n) \X S -> S]
  BY <1>2
<1>5. \A c \in 1..n, o \in S : step[<<c, o>>] = Observe(o, c, records)
  OBVIOUS
<1> HIDE DEF step, S
<1>6. Recurs(n, S, <<>>, step)
  BY <1>1, <1>3, <1>4 DEF Recurs
<1>7. PICK g : Solves(g, n, S, <<>>, step)
  BY <1>6, RecursionExists
<1>8. /\ g \in [0..n -> S] /\ g[0] = <<>>
      /\ \A c \in 1..n : g[c] = step[<<c, g[c - 1]>>]
  BY <1>7 DEF Solves
<1>9. \A c \in 1..n : g[c] = Observe(g[c - 1], c, records)
  <2> SUFFICES ASSUME NEW c \in 1..n
               PROVE  g[c] = Observe(g[c - 1], c, records)
    OBVIOUS
  <2>1. c - 1 \in 0..n
    BY <1>1
  <2> QED
    BY <1>5, <1>8, <2>1
<1> DEFINE F == CHOOSE f : f = [c \in 0..n |->
                  IF c = 0 THEN <<>> ELSE Observe(f[c - 1], c, records)]
<1>10. g = [c \in 0..n |-> IF c = 0 THEN <<>> ELSE Observe(g[c - 1], c, records)]
  <2>1. ASSUME NEW c \in 0..n
        PROVE  g[c] = IF c = 0 THEN <<>> ELSE Observe(g[c - 1], c, records)
    <3>1. c = 0 \/ c \in 1..n
      BY <1>1
    <3> QED
      BY <1>8, <1>9, <3>1
  <2> QED
    BY <1>8, <2>1
<1>11. F = [c \in 0..n |-> IF c = 0 THEN <<>> ELSE Observe(F[c - 1], c, records)]
  BY <1>10
<1>12. AllObservations = F[n]
  BY DEF AllObservations
<1> HIDE DEF F
<1>13. F[0] = <<>> /\ \A c \in 1..n : F[c] = Observe(F[c - 1], c, records)
  <2>1. 0 \in 0..n /\ \A c \in 1..n : c \in 0..n /\ c # 0
    BY <1>1
  <2> QED
    BY <1>11, <2>1
<1> DEFINE P == {c \in 0..n : F[c] \in S}
<1>14. 0 \in P
  BY <1>1, <1>3, <1>13
<1>15. ASSUME NEW c \in 0..n, c < n, c \in P  PROVE c + 1 \in P
  <2>1. c + 1 \in 1..n /\ c + 1 \in 0..n /\ (c + 1) - 1 = c
    BY <1>1, <1>15
  <2>2. F[c + 1] = Observe(F[c], c + 1, records) /\ F[c] \in S
    BY <1>13, <1>15, <2>1
  <2> QED
    BY <1>2, <2>1, <2>2
<1> HIDE DEF P
<1>16. \A c \in 0..n : c \in P
  BY <1>1, <1>14, <1>15, RangeInduction
<1>17. \A c \in 0..n : F[c] \in S
  BY <1>16 DEF P
<1>18. F \in [0..n -> S]
  BY <1>11, <1>17
<1>19. WITNESS F \in [0..n -> S]
<1> QED
  BY <1>1, <1>12, <1>13

LEMMA AllObservationsType ==
  ASSUME TypeInv, CandidatesInv
  PROVE  AllObservations \in Seq(Observation)
<1>1. PICK f \in [0..Len(records) -> Seq(Observation)] :
        AllObservations = f[Len(records)]
  BY ObserveSteps
<1>2. Len(records) \in 0..Len(records)
  BY KnownIs
<1> QED
  BY <1>1, <1>2

LEMMA IncumbentKnown ==
  ASSUME TypeInv, CandidatesInv
  PROVE  Incumbent \in Known
<1> DEFINE L == {records[c].latency : c \in {d \in Known : Correct(d, records)}}
<1>1. Seed \in Known /\ Correct(Seed, records)
  BY DEF TypeInv, CandidatesInv, Sane
<1>2. L # {}
  BY <1>1
<1>3. L \in SUBSET Nat
  BY KnownIs DEF Candidate
<1>4. PICK l \in L : \A k \in L : l <= k
  BY <1>2, <1>3, LeastExists
<1>5. PICK c \in Known : Correct(c, records) /\ records[c].latency = l
  BY <1>4
<1>6. \A d \in Known : Correct(d, records) => records[c].latency <= records[d].latency
  BY <1>4, <1>5
<1> QED
  BY <1>5, <1>6 DEF Incumbent

-----------------------------------------------------------------------------
(* Types and stages *)

Inv1 == TypeInv /\ CandidatesInv /\ StageInv

LEMMA MemoryType ==
  ASSUME TypeInv, Known \subseteq Known',
         NEW o \in Seq(Observation), NEW l, NEW t, NEW K \in SUBSET Known',
         l \subseteq memory.lessons \cup (K \X LessonKinds),
         memory' = [observations |-> o, lessons |-> l, trust |-> t]
  PROVE  memory' \in [observations : Seq(Observation),
                      lessons : SUBSET (Known' \X LessonKinds),
                      trust : {memory'.trust}]
<1>1. memory.lessons \subseteq Known \X LessonKinds
  BY DEF TypeInv
<1>2. l \subseteq Known' \X LessonKinds
  BY <1>1
<1> QED
  BY <1>2

LEMMA SavedType ==
  ASSUME TypeInv, Known \subseteq Known', NEW phase \in Phases,
         NEW names \in SUBSET Known', NEW n \in 0..MaxRepairs,
         Checkpoint(phase, names, memory, n)
  PROVE  saved' \in [phase : Phases, round : Nat, ids : SUBSET Known',
                     repairs : 0..MaxRepairs, observations : Seq(Observation),
                     lessons : SUBSET (Known' \X LessonKinds)]
<1>1. /\ memory.observations \in Seq(Observation)
      /\ memory.lessons \subseteq Known \X LessonKinds /\ round \in Nat
  BY SMTT(20), Constants DEF TypeInv
<1> QED
  BY <1>1 DEF Checkpoint

LEMMA SavedKept ==
  ASSUME TypeInv, Known \subseteq Known', repairs' \in 0..MaxRepairs,
         Persist \/ UNCHANGED saved
  PROVE  saved' \in [phase : Phases, round : Nat, ids : SUBSET Known',
                     repairs : 0..MaxRepairs, observations : Seq(Observation),
                     lessons : SUBSET (Known' \X LessonKinds)]
<1>1. /\ memory.observations \in Seq(Observation)
      /\ memory.lessons \subseteq Known \X LessonKinds
      /\ saved \in [phase : Phases, round : Nat, ids : SUBSET Known,
                    repairs : 0..MaxRepairs, observations : Seq(Observation),
                    lessons : SUBSET (Known \X LessonKinds)]
  BY DEF TypeInv
<1>2. CASE Persist
  <2>1. saved' = [phase |-> saved.phase, round |-> saved.round,
                  ids |-> saved.ids, repairs |-> repairs',
                  observations |-> memory.observations,
                  lessons |-> memory.lessons]
    BY <1>1, <1>2 DEF Persist
  <2>2. /\ saved.phase \in Phases /\ saved.round \in Nat
        /\ saved.ids \in SUBSET Known'
        /\ memory.lessons \in SUBSET (Known' \X LessonKinds)
    BY <1>1
  <2> QED
    BY <1>1, <2>1, <2>2
<1>3. CASE UNCHANGED saved
  BY <1>1, <1>3
<1> QED
  BY <1>2, <1>3

(* What a step that leaves the archive alone has to show.                  *)
LEMMA TypeFrame ==
  ASSUME TypeInv, policy' = policy, records' = records, memory' = memory,
         round' \in 1..Rounds + 1, pc' \in Stages,
         todo' \in SUBSET Known, queue' \in SUBSET Known, ids' \in SUBSET Known,
         repairs' \in 0..MaxRepairs,
         saved' \in [phase : Phases, round : Nat, ids : SUBSET Known,
                     repairs : 0..MaxRepairs, observations : Seq(Observation),
                     lessons : SUBSET (Known \X LessonKinds)],
         UNCHANGED bounds
  PROVE  TypeInv'
BY DEF TypeInv, bounds, Known

LEMMA InitType == Init => TypeInv /\ CandidatesInv
<1> SUFFICES ASSUME Init  PROVE TypeInv /\ CandidatesInv
  OBVIOUS
<1>1. PICK model \in (IF policy = "tilesight" THEN Models ELSE {NoModel}),
           latency \in Latencies, profile \in {"none", "valid", "failed"} :
        records = <<SeedRecord(model, latency, profile)>>
  BY DEF Init
<1> DEFINE r == SeedRecord(model, latency, profile)
<1>2. /\ model \in Prediction /\ model.valid \in BOOLEAN
      /\ model.valid => model.ms \in Predicted /\ model.regime \in Regimes
      /\ ~model.valid => model = NoModel
      /\ model.valid <=> policy = "tilesight"
  <2>1. CASE policy = "tilesight"
    <3>0. PICK ms \in Predicted, regime \in Regimes :
            model = [valid |-> TRUE, ms |-> ms, regime |-> regime, scale |-> 0]
      BY <2>1 DEF Models
    <3>1. model.ms \in Predicted /\ model.regime \in Regimes
      BY <3>0
    <3>2. model.valid = TRUE
      BY <3>0
    <3>a. ms \in Nat /\ 0 \in Scales
      BY Constants DEF Scales
    <3>3. model \in Prediction
      BY <3>0, <3>a DEF Prediction
    <3> QED
      BY <2>1, <3>1, <3>2, <3>3
  <2>2. CASE policy # "tilesight"
    <3>1. model = NoModel
      BY <2>2
    <3> QED
      BY <2>2, <3>1, NoModelIsOne DEF NoModel
  <2> QED
    BY <2>1, <2>2
<1>3. latency \in Nat /\ latency > 0
  BY Constants
<1>4. /\ r \in Candidate /\ r.parent = 0 /\ r.generation = 0 /\ r.kind = "seed"
      /\ r.modelled = model.valid /\ r.model = model /\ r.measured
      /\ r.latency = latency /\ r.failure = "none"
  BY <1>2, <1>3, NoModelIsOne DEF SeedRecord, Proposed, Candidate, Failures
<1> HIDE DEF r
<1>5. records = <<r>>
  BY <1>1 DEF r
<1>6. /\ records \in Seq(Candidate) /\ Len(records) = 1 /\ Known = 1..1
      /\ records[1] = r
  BY <1>4, <1>5 DEF Known
<1>7. policy \in Policies /\ round = 1 /\ pc = "generate"
  BY DEF Init
<1>8. CandidatesInv
  BY <1>2, <1>3, <1>4, <1>6, <1>7, Constants
     DEF CandidatesInv, Sane, Seed, Correct
<1>9. Observing(Seed, records)
  BY <1>2, <1>3, <1>4, <1>6, Constants DEF Observing, Ranked, Seed
<1>10. <<>> \in Seq(Observation) /\ Seed \in Nat
  BY DEF Seed
<1>11. Observe(<<>>, Seed, records) \in Seq(Observation)
  BY <1>9, <1>10, ObserveType
<1>12. Lesson(Seed, records) \subseteq Known \X LessonKinds
  BY <1>6, LessonType DEF Seed
<1>13. /\ memory = [observations |-> Observe(<<>>, Seed, records),
                    lessons |-> Lesson(Seed, records), trust |-> <<>>]
       /\ saved = [phase |-> "", round |-> 1, ids |-> {}, repairs |-> 0,
                   observations |-> memory.observations, lessons |-> memory.lessons]
       /\ todo = {} /\ queue = {} /\ ids = {} /\ repairs = 0
       /\ crashes = 0 /\ stops = 0 /\ forgotten = 0
  BY DEF Init
<1> DEFINE o == Observe(<<>>, Seed, records)
           l == Lesson(Seed, records)
<1> HIDE DEF o, l
<1>14. memory = [observations |-> o, lessons |-> l, trust |-> <<>>]
  BY <1>13 DEF o, l
<1>15. o \in Seq(Observation) /\ l \subseteq Known \X LessonKinds
  BY <1>11, <1>12 DEF o, l
<1>16. /\ round \in 1..Rounds + 1 /\ repairs \in 0..MaxRepairs
       /\ 0 \in 0..MaxRepairs /\ crashes + stops <= MaxEnds
  <2>1. Rounds \in Nat /\ Rounds >= 1 /\ MaxRepairs \in Nat /\ MaxEnds \in Nat
    BY Constants
  <2>2. round = 1 /\ repairs = 0 /\ crashes = 0 /\ stops = 0
    BY <1>7, <1>13
  <2> QED
    BY <2>1, <2>2
<1>17. memory \in [observations : Seq(Observation),
                   lessons : SUBSET (Known \X LessonKinds), trust : {memory.trust}]
  BY <1>14, <1>15
<1>18. saved \in [phase : Phases, round : Nat, ids : SUBSET Known,
                  repairs : 0..MaxRepairs, observations : Seq(Observation),
                  lessons : SUBSET (Known \X LessonKinds)]
  <2>0. memory.observations = o /\ memory.lessons = l
    BY <1>14
  <2>1. saved = [phase |-> "", round |-> 1, ids |-> {}, repairs |-> 0,
                 observations |-> o, lessons |-> l]
    BY <1>13, <2>0
  <2> QED
    BY <1>15, <1>16, <2>1 DEF Phases
<1>19. TypeInv
  <2>1. /\ todo \in SUBSET Known /\ queue \in SUBSET Known
        /\ ids \in SUBSET Known /\ crashes \in Nat /\ stops \in Nat
        /\ forgotten \in 0..Rounds /\ pc \in Stages
    <3>1. Rounds \in Nat /\ 0 \in 0..Rounds
      BY Constants
    <3> QED
      BY <1>7, <1>13, <3>1 DEF Stages
  <2> QED
    BY <1>6, <1>7, <1>16, <1>17, <1>18, <2>1 DEF TypeInv, Seed
<1> QED
  BY <1>8, <1>19

LEMMA InitStage == Init => StageInv
<1> SUFFICES ASSUME Init  PROVE StageInv
  OBVIOUS
<1>1. /\ round = 1 /\ pc = "generate" /\ todo = {} /\ queue = {} /\ ids = {}
      /\ repairs = 0 /\ saved.phase = "" /\ saved.ids = {} /\ saved.repairs = 0
  BY DEF Init
<1> QED
  BY <1>1, Constants DEF StageInv, Running, PhaseOf

(* Candidates stay sane through each kind of step.                         *)
LEMMA SaneKept ==
  ASSUME TypeInv, CandidatesInv, records' = records, policy' = policy,
         round' \in Nat, round <= round'
  PROVE  CandidatesInv'
<1>1. /\ round \in Nat
      /\ \A c \in Known : records[c].generation \in Nat
  BY KnownIs, RoundIs DEF Candidate
<1> SUFFICES ASSUME NEW c \in Known'  PROVE Sane(c)'
  BY DEF CandidatesInv
<1>2. c \in Known /\ Sane(c)
  BY DEF CandidatesInv, Known
<1>3. records[c].generation <= round'
  BY <1>1, <1>2 DEF Sane
<1> QED
  BY <1>2, <1>3 DEF Sane, Correct

LEMMA SaneModel ==
  ASSUME TypeInv, CandidatesInv, NEW c \in Known, c # Seed, ModelStep(c),
         policy = "tilesight", UNCHANGED <<policy, round>>
  PROVE  CandidatesInv'
<1> SUFFICES ASSUME NEW d \in Known'  PROVE Sane(d)'
  BY DEF CandidatesInv
<1>1. d \in Known /\ Sane(d)
  BY DEF CandidatesInv, ModelStep, Only
<1>2. CASE d # c
  BY <1>1, <1>2 DEF Sane, ModelStep, Only, Correct
<1>3. CASE d = c
  BY <1>1, <1>3 DEF Sane, ModelStep, Only, Correct, NoModel
<1> QED
  BY <1>2, <1>3

LEMMA SaneMeasure ==
  ASSUME TypeInv, CandidatesInv, NEW c \in Known, c # Seed, MeasureStep(c),
         UNCHANGED <<policy, round>>
  PROVE  CandidatesInv'
<1> SUFFICES ASSUME NEW d \in Known'  PROVE Sane(d)'
  BY DEF CandidatesInv
<1>1. d \in Known /\ Sane(d)
  BY DEF CandidatesInv, MeasureStep, Only
<1>2. CASE d # c
  BY <1>1, <1>2 DEF Sane, MeasureStep, Only, Correct
<1>3. CASE d = c
  BY <1>1, <1>3 DEF Sane, MeasureStep, Only, Correct, NoModel
<1> QED
  BY <1>2, <1>3

LEMMA SaneProfile ==
  ASSUME TypeInv, CandidatesInv, NEW c \in Known, ProfileStep(c),
         UNCHANGED <<policy, round>>
  PROVE  CandidatesInv'
<1> SUFFICES ASSUME NEW d \in Known'  PROVE Sane(d)'
  BY DEF CandidatesInv
<1>1. d \in Known /\ Sane(d)
  BY DEF CandidatesInv, ProfileStep, Only
<1>2. CASE d # c
  BY <1>1, <1>2 DEF Sane, ProfileStep, Only, Correct
<1>3. CASE d = c
  BY <1>1, <1>3 DEF Sane, ProfileStep, Only, Correct, NoModel
<1> QED
  BY <1>2, <1>3

LEMMA SaneAdded ==
  ASSUME TypeInv, CandidatesInv, NEW parent \in Known,
         NEW kind \in {"proposal", "repair"}, NEW failure \in Failures,
         Added(parent, kind, failure), UNCHANGED <<policy, round>>
  PROVE  CandidatesInv'
<1> SUFFICES ASSUME NEW d \in Known'  PROVE Sane(d)'
  BY DEF CandidatesInv
<1>1. CASE d \in Known
  <2>1. Sane(d) /\ records'[d] = records[d]
    BY <1>1 DEF CandidatesInv, Added
  <2> QED
    BY <2>1 DEF Sane, Correct
<1>2. CASE d \notin Known
  <2>1. /\ d = Len(records) + 1
        /\ records'[d] = Proposed(round, parent, kind, failure)
    BY <1>2 DEF Added
  <2>2. d > parent /\ d # Seed /\ round <= round' /\ round \in Nat
    <3>1. Len(records) \in Nat /\ Len(records) >= 1 /\ parent \in 1..Len(records)
      BY KnownIs
    <3> QED
      BY <2>1, <3>1, RoundIs DEF Seed
  <2>3. /\ records'[d].parent = parent /\ records'[d].generation = round
        /\ records'[d].kind = kind /\ records'[d].model = NoModel
        /\ records'[d].latency = 0
    BY <2>1 DEF Proposed
  <2>4. parent \in Nat /\ parent >= 1 /\ ~(0 > 0)
    BY KnownIs
  <2> QED
    BY <2>2, <2>3, <2>4 DEF Sane, Correct, NoModel
<1> QED
  BY <1>1, <1>2

(* The candidates of a stage are of the round, so the seed is none.        *)
LEMMA NotSeed ==
  ASSUME Inv1, NEW c \in ids
  PROVE  c \in Known /\ c # Seed /\ records[c].generation = round
<1>1. c \in Known /\ Sane(c) /\ records[c].generation = round
  BY DEF Inv1, TypeInv, CandidatesInv, StageInv
<1>2. round # 0
  BY RoundIs DEF Inv1
<1> QED
  BY <1>1, <1>2 DEF Sane

LEMMA TypeStep ==
  ASSUME Inv1, [Next]_vars
  PROVE  TypeInv' /\ CandidatesInv'
<1> USE DEF Inv1
<1>0. /\ TypeInv /\ CandidatesInv /\ policy \in Policies /\ pc \in Stages
      /\ todo \in SUBSET Known /\ queue \in SUBSET Known /\ ids \in SUBSET Known
      /\ repairs \in 0..MaxRepairs /\ round \in 1..Rounds + 1
      /\ crashes \in Nat /\ stops \in Nat /\ forgotten \in 0..Rounds
      /\ MaxRepairs \in Nat /\ 0 \in 0..MaxRepairs
  <2>1. MaxRepairs \in Nat
    BY Constants
  <2> QED
    BY SMTT(20), <2>1 DEF TypeInv
<1>s. saved \in [phase : Phases, round : Nat, ids : SUBSET Known,
                 repairs : 0..MaxRepairs, observations : Seq(Observation),
                 lessons : SUBSET (Known \X LessonKinds)]
  BY DEF TypeInv
<1>m. /\ memory.observations \in Seq(Observation)
      /\ memory.lessons \subseteq Known \X LessonKinds
  BY DEF TypeInv
<1>1. ASSUME NEW parent \in {Seed, Incumbent}, NEW failure \in {"none", "static"},
             Propose(parent, failure)
      PROVE  TypeInv' /\ CandidatesInv'
  <2>1. parent \in Known /\ failure \in Failures
    BY IncumbentKnown DEF TypeInv, Failures
  <2>2. Added(parent, "proposal", failure)
    BY <1>1, <2>1, AddedFacts DEF Propose
  <2>3. /\ Known \subseteq Known' /\ records' \in Seq(Candidate)
        /\ Len(records') \in Known'
    BY <2>2 DEF Added
  <2>4. /\ UNCHANGED <<policy, round, pc, todo, queue, ids, repairs, bounds>>
        /\ Persist \/ UNCHANGED saved
    BY <1>1 DEF Propose
  <2>5. CandidatesInv'
    BY <2>1, <2>2, <2>4, SaneAdded
  <2>6. saved' \in [phase : Phases, round : Nat, ids : SUBSET Known',
                    repairs : 0..MaxRepairs, observations : Seq(Observation),
                    lessons : SUBSET (Known' \X LessonKinds)]
    BY <1>0, <2>3, <2>4, SavedKept
  <2> DEFINE l == Lesson(Len(records'), records')
  <2>7. memory' = [observations |-> memory.observations,
                   lessons |-> memory.lessons \cup l, trust |-> memory.trust]
    BY <1>1 DEF Propose, Remember, TypeInv
  <2>8. l \subseteq {Len(records')} \X LessonKinds
    BY LessonType
  <2> HIDE DEF l
  <2>9. memory' \in [observations : Seq(Observation),
                     lessons : SUBSET (Known' \X LessonKinds),
                     trust : {memory'.trust}]
    BY <1>0, <1>m, <2>3, <2>7, <2>8, MemoryType
  <2>10. Seed \in Known'
    BY <2>3 DEF TypeInv
  <2>11. TypeInv'
    BY <1>0, <2>3, <2>4, <2>6, <2>9, <2>10 DEF TypeInv, bounds
  <2> QED
    BY <2>5, <2>11
<1>2. ASSUME NEW c \in Known, Model(c)
      PROVE  TypeInv' /\ CandidatesInv'
  <2>1. /\ UNCHANGED <<policy, round, pc, ids, repairs, saved, bounds>>
        /\ Walked(c, records')
    BY <1>2 DEF Model
  <2>2. /\ todo' \in SUBSET Known /\ queue' \in SUBSET Known
    BY <1>0, <2>1 DEF Walked
  <2>3. CASE UNCHANGED <<records, memory>>
    <3>1. CandidatesInv'
      BY <1>0, <2>1, <2>3, SaneKept, RoundIs
    <3>2. TypeInv'
      BY <1>0, <1>s, <2>1, <2>2, <2>3, TypeFrame
    <3> QED
      BY <3>1, <3>2
  <2>4. CASE ~UNCHANGED <<records, memory>>
    <3>1. policy = "tilesight" /\ c \in ids
      BY <1>0, <1>2, <2>4, Constants DEF Model, StageInv
    <3>2. ModelStep(c)
      BY <1>2, <2>4, ModelStepFacts DEF Model
    <3>3. c # Seed
      BY <3>1, NotSeed
    <3>4. CandidatesInv'
      BY <2>1, <3>1, <3>2, <3>3, SaneModel
    <3>5. Known' = Known /\ records' \in Seq(Candidate)
      BY <3>2 DEF ModelStep, Only
    <3>6. /\ memory' = [observations |-> memory.observations,
                        lessons |-> memory'.lessons, trust |-> memory.trust]
          /\ memory'.lessons \subseteq memory.lessons \cup ({c} \X LessonKinds)
      BY <3>2, LessonType DEF ModelStep
    <3>7. memory' \in [observations : Seq(Observation),
                       lessons : SUBSET (Known' \X LessonKinds),
                       trust : {memory'.trust}]
      BY <1>0, <1>m, <3>5, <3>6, MemoryType
    <3>8. TypeInv'
      BY <1>0, <1>s, <2>1, <2>2, <3>5, <3>7 DEF TypeInv, bounds
    <3> QED
      BY <3>4, <3>8
  <2> QED
    BY <2>3, <2>4
<1>3. ASSUME NEW c \in Known, ModelRepair(c)
      PROVE  TypeInv' /\ CandidatesInv'
  <2>1. /\ UNCHANGED <<policy, round, ids, repairs, saved, bounds>>
        /\ pc' = "measure" /\ pc = "model-repair" /\ c \in todo
        /\ Walked(c, records') \/ UNCHANGED <<todo, queue>>
    BY <1>3 DEF ModelRepair
  <2>2. todo' \in SUBSET Known /\ queue' \in SUBSET Known
    BY <1>0, <2>1 DEF Walked
  <2>3. policy = "tilesight" /\ c \in ids
    BY <2>1 DEF StageInv
  <2>4. ModelStep(c)
    BY <1>3, ModelStepFacts DEF ModelRepair
  <2>5. c # Seed
    BY <2>3, NotSeed
  <2>6. CandidatesInv'
    BY <2>1, <2>3, <2>4, <2>5, SaneModel
  <2>7. Known' = Known /\ records' \in Seq(Candidate)
    BY <2>4 DEF ModelStep, Only
  <2>8. /\ memory' = [observations |-> memory.observations,
                      lessons |-> memory'.lessons, trust |-> memory.trust]
        /\ memory'.lessons \subseteq memory.lessons \cup ({c} \X LessonKinds)
    BY <2>4, LessonType DEF ModelStep
  <2>9. memory' \in [observations : Seq(Observation),
                     lessons : SUBSET (Known' \X LessonKinds),
                     trust : {memory'.trust}]
    BY <1>0, <1>m, <2>7, <2>8, MemoryType
  <2>10. pc' \in Stages
    BY <2>1 DEF Stages
  <2>11. TypeInv'
    BY <1>0, <1>s, <2>1, <2>2, <2>7, <2>9, <2>10 DEF TypeInv, bounds
  <2> QED
    BY <2>6, <2>11
<1>4. ASSUME NEW c \in Known, Measure(c)
      PROVE  TypeInv' /\ CandidatesInv'
  <2>1. /\ UNCHANGED <<policy, round, pc, ids, repairs, saved, bounds>>
        /\ Walked(c, records') /\ c \in ids
    BY <1>4 DEF Measure, StageInv
  <2>2. /\ todo' \in SUBSET Known /\ queue' \in SUBSET Known
    BY <1>0, <2>1 DEF Walked
  <2>3. MeasureStep(c) /\ c # Seed
    BY <1>4, <2>1, MeasureStepFacts, NotSeed
  <2>4. CandidatesInv'
    BY <2>1, <2>3, SaneMeasure
  <2>5. Known' = Known /\ records' \in Seq(Candidate)
    BY <2>3 DEF MeasureStep, Only
  <2>6. Observing(c, records')
    <3>1. records'[c].model.valid => /\ records'[c].model.ms \in Predicted
                                     /\ records'[c].model.regime \in Regimes
      BY <2>4, <2>5 DEF CandidatesInv, Sane
    <3>2. records'[c] \in Candidate
      BY <2>5 DEF Known
    <3>3. records'[c].latency \in Nat
      BY <3>2 DEF Candidate
    <3> QED
      BY <3>1, <3>3, Constants DEF Observing, Ranked
  <2> DEFINE o == Observe(memory.observations, c, records')
             l == memory.lessons \cup Lesson(c, records')
             t == TrustAfter(c, records')
  <2>7. o \in Seq(Observation)
    <3>1. c \in Nat
      BY KnownIs
    <3> QED
      BY <1>m, <2>6, <3>1, ObserveType
  <2>8. l \subseteq memory.lessons \cup ({c} \X LessonKinds)
    BY LessonType
  <2>9. memory' = [observations |-> o, lessons |-> l, trust |-> t]
    BY <2>3 DEF MeasureStep
  <2> HIDE DEF o, l, t
  <2>10. memory' \in [observations : Seq(Observation),
                      lessons : SUBSET (Known' \X LessonKinds),
                      trust : {memory'.trust}]
    <3>1. l \in SUBSET (Known' \X LessonKinds)
      BY <1>m, <2>5, <2>8
    <3> QED
      BY <2>7, <2>9, <3>1
  <2>11. TypeInv'
    BY <1>0, <1>s, <2>1, <2>2, <2>5, <2>10 DEF TypeInv, bounds
  <2> QED
    BY <2>4, <2>11
<1>5. ASSUME NEW c \in Known, Profiled(c), policy' = policy, round' = round,
             pc' \in Stages, todo' \in SUBSET Known, UNCHANGED bounds,
             UNCHANGED <<queue, ids, repairs, saved>>
      PROVE  TypeInv' /\ CandidatesInv'
  <2>1. ProfileStep(c)
    BY <1>5, ProfileStepFacts
  <2>2. CandidatesInv'
    BY <1>5, <2>1, SaneProfile
  <2>3. Known' = Known /\ records' \in Seq(Candidate)
    BY <2>1 DEF ProfileStep, Only
  <2> DEFINE l == memory.lessons \cup Lesson(c, records')
  <2>4. /\ l \subseteq memory.lessons \cup ({c} \X LessonKinds)
        /\ memory' = [observations |-> memory.observations,
                      lessons |-> l, trust |-> memory.trust]
    BY <2>1, LessonType DEF ProfileStep
  <2> HIDE DEF l
  <2>5. memory' \in [observations : Seq(Observation),
                     lessons : SUBSET (Known' \X LessonKinds),
                     trust : {memory'.trust}]
    BY <1>0, <1>m, <2>3, <2>4, MemoryType
  <2>6. TypeInv'
    BY <1>0, <1>s, <1>5, <2>3, <2>5 DEF TypeInv, bounds
  <2> QED
    BY <2>2, <2>6
<1>6. ASSUME NEW c \in Known, Repair(c)
      PROVE  TypeInv' /\ CandidatesInv'
  <2>1. /\ UNCHANGED <<policy, round, memory, bounds>> /\ Persist
        /\ repairs' = repairs + 1 /\ repairs < MaxRepairs
        /\ queue' = queue \ {c} /\ pc \in {"model", "measure"}
    BY <1>6 DEF Repair, CanRepair
  <2>2. repairs' \in 0..MaxRepairs
    BY <1>0, <2>1
  <2>3. CASE UNCHANGED <<pc, records, todo, ids>>
    <3>1. Known' = Known
      BY <2>3 DEF Known
    <3>2. saved' \in [phase : Phases, round : Nat, ids : SUBSET Known,
                      repairs : 0..MaxRepairs, observations : Seq(Observation),
                      lessons : SUBSET (Known \X LessonKinds)]
      BY <1>0, <2>1, <2>2, <3>1, SavedKept
    <3>3. queue' \in SUBSET Known
      BY <1>0, <2>1
    <3>4. TypeInv'
      BY <1>0, <2>1, <2>2, <2>3, <3>2, <3>3, TypeFrame
    <3>5. CandidatesInv'
      BY <1>0, <2>1, <2>3, SaneKept, RoundIs
    <3> QED
      BY <3>4, <3>5
  <2>4. CASE ~UNCHANGED <<pc, records, todo, ids>>
    <3>1. /\ records' = Append(records, Proposed(round, c, "repair", "none"))
          /\ todo' = {Len(records')} /\ ids' = ids \cup todo' /\ pc' = Repaired
      BY <1>6, <2>4 DEF Repair
    <3>2. Added(c, "repair", "none")
      BY <3>1, AddedFacts DEF Failures
    <3>3. /\ Known \subseteq Known' /\ records' \in Seq(Candidate)
          /\ Len(records') \in Known'
      BY <3>2 DEF Added
    <3>4. CandidatesInv'
      BY <2>1, <3>2, SaneAdded DEF Failures
    <3>5. saved' \in [phase : Phases, round : Nat, ids : SUBSET Known',
                      repairs : 0..MaxRepairs, observations : Seq(Observation),
                      lessons : SUBSET (Known' \X LessonKinds)]
      BY <1>0, <2>1, <2>2, <3>3, SavedKept
    <3>6. /\ memory' \in [observations : Seq(Observation),
                          lessons : SUBSET (Known' \X LessonKinds),
                          trust : {memory'.trust}]
      <4>1. memory \in [observations : Seq(Observation),
                        lessons : SUBSET (Known \X LessonKinds),
                        trust : {memory.trust}]
        BY DEF TypeInv
      <4> QED
        BY <2>1, <3>3, <4>1
    <3>7. pc' \in Stages
      BY <2>1, <3>1 DEF Repaired, Stages
    <3>8. Seed \in Known'
      BY <3>3 DEF TypeInv
    <3>9. todo' \in SUBSET Known' /\ ids' \in SUBSET Known' /\ queue' \in SUBSET Known'
      BY <1>0, <2>1, <3>1, <3>3
    <3>10. TypeInv'
      BY <1>0, <2>1, <2>2, <3>3, <3>5, <3>6, <3>7, <3>8, <3>9 DEF TypeInv, bounds
    <3> QED
      BY <3>4, <3>10
  <2> QED
    BY <2>3, <2>4
(* The other steps leave archive and memory alone, or forget the memory.   *)
<1>7. ASSUME UNCHANGED <<policy, records, memory, bounds>>,
             round' \in 1..Rounds + 1, round <= round', pc' \in Stages,
             todo' \in SUBSET Known, queue' \in SUBSET Known,
             ids' \in SUBSET Known, repairs' \in 0..MaxRepairs,
             \/ UNCHANGED saved
             \/ \E phase \in Phases, names \in SUBSET Known, n \in 0..MaxRepairs :
                  Checkpoint(phase, names, memory, n)
             \/ saved' = [phase |-> "", round |-> round', ids |-> {},
                          repairs |-> 0, observations |-> memory.observations,
                          lessons |-> memory.lessons]
      PROVE  TypeInv' /\ CandidatesInv'
  <2>1. Known' = Known
    BY <1>7 DEF Known
  <2>2. saved' \in [phase : Phases, round : Nat, ids : SUBSET Known,
                    repairs : 0..MaxRepairs, observations : Seq(Observation),
                    lessons : SUBSET (Known \X LessonKinds)]
    <3>1. CASE UNCHANGED saved
      BY <1>s, <3>1
    <3>2. CASE \E phase \in Phases, names \in SUBSET Known, n \in 0..MaxRepairs :
                 Checkpoint(phase, names, memory, n)
      BY <1>0, <2>1, <3>2, SavedType
    <3>3. CASE saved' = [phase |-> "", round |-> round', ids |-> {},
                         repairs |-> 0, observations |-> memory.observations,
                         lessons |-> memory.lessons]
      <4>1. round' \in Nat
        <5>1. Rounds \in Nat /\ round' \in 1..Rounds + 1
          BY <1>7, Constants
        <5> QED
          BY <5>1, InRange
      <4> QED
        BY <1>0, <1>m, <3>3, <4>1 DEF Phases
    <3> QED
      BY <1>7, <3>1, <3>2, <3>3
  <2>3. TypeInv'
    BY <1>0, <1>7, <2>2, TypeFrame
  <2>4. round' \in Nat
    <3>1. Rounds \in Nat /\ round' \in 1..Rounds + 1
      BY <1>7, Constants
    <3> QED
      BY <3>1, InRange
  <2>5. CandidatesInv'
    BY <1>0, <1>7, <2>4, SaneKept
  <2> QED
    BY <2>3, <2>5
<1>r. round <= round /\ round \in Nat
  BY RoundIs
<1>8. CASE GenerationEnds
  BY <1>0, <1>7, <1>8, <1>r DEF GenerationEnds, Generated, Stages, Phases
<1>9. CASE ModelEnds
  BY <1>0, <1>7, <1>9, <1>r DEF ModelEnds, Save, Stages, Phases
<1>10. CASE Select
  BY <1>0, <1>7, <1>10, <1>r DEF Select, Promotable, Stages, Phases
<1>11. CASE MeasureEnds
  BY <1>0, <1>7, <1>11, <1>r DEF MeasureEnds, Save, Stages, Phases
<1>12. CASE ProfileAll
  <2>1. CASE todo = {}
    BY <1>0, <1>7, <1>12, <1>r, <2>1 DEF ProfileAll, Save, Stages, Phases
  <2>2. CASE todo # {}
    BY <1>0, <1>5, <1>12, <2>2 DEF ProfileAll
  <2> QED
    BY <2>1, <2>2
<1>13. CASE Milestone
  BY <1>0, <1>5, <1>13 DEF Milestone, Stages
<1>14. CASE RoundEnds
  <2>1. round <= Rounds /\ Rounds \in Nat
    BY <1>14, Constants DEF RoundEnds, StageInv, EmptyRound
  <2>2. round' = round + 1
    BY <1>14 DEF RoundEnds
  <2>3. round' \in 1..Rounds + 1 /\ round <= round'
    BY <1>r, <1>0, <2>1, <2>2
  <2> QED
    BY <1>0, <1>7, <1>14, <2>3 DEF RoundEnds, Stages
<1>15. ASSUME Down, crashes' \in Nat, stops' \in Nat,
              crashes' + stops' <= MaxEnds, forgotten' \in 0..Rounds,
              \/ UNCHANGED saved
              \/ \E phase \in Phases, names \in SUBSET Known :
                   Checkpoint(phase, names, memory, repairs)
       PROVE  TypeInv' /\ CandidatesInv'
  <2>1. Known' = Known /\ records' = records /\ policy' = policy /\ round' = round
    BY <1>15 DEF Down, Known
  <2>2. saved' \in [phase : Phases, round : Nat, ids : SUBSET Known',
                    repairs : 0..MaxRepairs, observations : Seq(Observation),
                    lessons : SUBSET (Known' \X LessonKinds)]
    <3>1. CASE UNCHANGED saved
      BY <1>s, <2>1, <3>1
    <3>2. CASE \E phase \in Phases, names \in SUBSET Known :
                 Checkpoint(phase, names, memory, repairs)
      BY <1>0, <2>1, <3>2, SavedType
    <3> QED
      BY <1>15, <3>1, <3>2
  <2>3. memory' \in [observations : Seq(Observation),
                     lessons : SUBSET (Known' \X LessonKinds),
                     trust : {memory'.trust}]
    BY <1>15 DEF Down, NewMemory
  <2>4. /\ pc' \in Stages /\ todo' \in SUBSET Known' /\ queue' \in SUBSET Known'
        /\ ids' \in SUBSET Known' /\ repairs' \in 0..MaxRepairs
    BY <1>0, <1>15 DEF Down, Stages
  <2>5. records \in Seq(Candidate) /\ Seed \in Known
    BY DEF TypeInv
  <2>6. TypeInv'
    BY <1>0, <1>15, <2>1, <2>2, <2>3, <2>4, <2>5 DEF TypeInv
  <2>7. CandidatesInv'
    BY <1>0, <1>r, <2>1, SaneKept
  <2> QED
    BY <2>6, <2>7
<1>16. CASE Crash
  <2>1. crashes + stops < MaxEnds /\ MaxEnds \in Nat /\ crashes' = crashes + 1
    BY <1>16, Constants DEF Crash
  <2>2. stops' = stops /\ forgotten' = forgotten /\ saved' = saved /\ Down
    BY <1>16 DEF Crash
  <2>3. crashes' \in Nat /\ stops' \in Nat /\ crashes' + stops' <= MaxEnds
    BY <1>0, <2>1, <2>2
  <2> QED
    BY <1>0, <1>15, <2>2, <2>3
<1>17. CASE OutOfTime
  <2>1. crashes + stops < MaxEnds /\ MaxEnds \in Nat /\ stops' = stops + 1
    BY <1>17, Constants DEF OutOfTime
  <2>2. /\ crashes' = crashes /\ forgotten' \in 0..Rounds /\ Down
        /\ \/ Checkpoint(saved.phase, ids, memory, repairs)
           \/ Checkpoint("", {}, memory, repairs)
    <3>1. round \in 0..Rounds
      <4>1. round \in Nat /\ Rounds \in Nat
        BY <1>0, RoundIs, Constants
      <4>2. pc # "over"
        BY <1>17 DEF OutOfTime, Running
      <4>3. round <= Rounds
        BY <1>0, <4>2 DEF StageInv
      <4> QED
        BY <4>1, <4>3
    <3> QED
      BY <1>0, <1>17, <3>1 DEF OutOfTime, Save
  <2>3. crashes' \in Nat /\ stops' \in Nat /\ crashes' + stops' <= MaxEnds
    <3>1. crashes' = crashes
      BY <2>2
    <3> QED
      BY <1>0, <2>1, <3>1
  <2>4. saved.phase \in Phases /\ "" \in Phases /\ {} \in SUBSET Known
    BY <1>s DEF Phases
  <2> QED
    BY <1>0, <1>15, <2>2, <2>3, <2>4
<1>18. CASE Resume
  <2>1. /\ UNCHANGED <<policy, round, records, queue, saved, bounds>>
        /\ memory' = Restored /\ ids' = saved.ids /\ repairs' = saved.repairs
        /\ todo' \in {saved.ids, {}} /\ pc' = Stage(saved.phase)
    BY <1>18 DEF Resume
  <2>2. Known' = Known
    BY <2>1 DEF Known
  <2>3. pc' \in Stages
    BY <1>s, <2>1 DEF Stage, Stages, Phases
  <2>4. AllLessons \subseteq Known \X LessonKinds
    BY LessonType DEF AllLessons
  <2> DEFINE o == IF saved.observations = <<>> THEN AllObservations
                  ELSE saved.observations
             l == IF saved.lessons = {} THEN AllLessons ELSE saved.lessons
             t == TrustOf(records)
  <2>5. o \in Seq(Observation) /\ l \subseteq Known \X LessonKinds
    BY <1>s, <2>4, AllObservationsType
  <2>6. memory' = [observations |-> o, lessons |-> l, trust |-> t]
    BY <2>1 DEF Restored
  <2> HIDE DEF o, l, t
  <2>7. memory' \in [observations : Seq(Observation),
                     lessons : SUBSET (Known' \X LessonKinds),
                     trust : {memory'.trust}]
    BY <2>2, <2>5, <2>6
  <2>8. CandidatesInv'
    BY <1>0, <1>r, <2>1, SaneKept
  <2>9. records \in Seq(Candidate) /\ Seed \in Known /\ crashes + stops <= MaxEnds
    BY DEF TypeInv
  <2>10. /\ ids' \in SUBSET Known /\ todo' \in SUBSET Known
         /\ repairs' \in 0..MaxRepairs
    BY <1>s, <2>1
  <2>11. TypeInv'
    BY <1>0, <1>s, <2>1, <2>2, <2>3, <2>7, <2>9, <2>10 DEF TypeInv, bounds
  <2> QED
    BY <2>8, <2>11
<1>19. CASE UNCHANGED vars
  BY <1>0, <1>7, <1>19, <1>r DEF vars, bounds
<1> QED
  BY <1>1, <1>2, <1>3, <1>4, <1>6, <1>8, <1>9, <1>10, <1>11, <1>12, <1>13, <1>14,
     <1>16, <1>17, <1>18, <1>19 DEF Next

(* Generations and kinds do not change, and candidates are not forgotten.  *)
Steady ==
  /\ Known \subseteq Known'
  /\ \A d \in Known : /\ records'[d].generation = records[d].generation
                      /\ records'[d].kind = records[d].kind

LEMMA OnlySteady == ASSUME NEW c \in Known, Only(c)  PROVE Steady /\ Known' = Known
BY DEF Only, Steady

LEMMA ModelledSteady ==
  ASSUME TypeInv, NEW c \in Known, Model(c) \/ ModelRepair(c)
  PROVE  /\ Steady /\ Known' = Known
         /\ UNCHANGED <<records, memory>> \/ ModelStep(c)
         /\ \A d \in Known : d # c => records'[d] = records[d]
<1>1. CASE UNCHANGED <<records, memory>>
  BY <1>1 DEF Steady, Known
<1>2. CASE ~UNCHANGED <<records, memory>>
  <2>1. ModelStep(c)
    BY <1>2, ModelStepFacts DEF Model, ModelRepair
  <2> QED
    BY <2>1, OnlySteady DEF ModelStep, Only
<1> QED
  BY <1>1, <1>2

(* What a checkpoint leaves in state.json.                                 *)
LEMMA CheckpointFields ==
  ASSUME NEW phase, NEW names, NEW n, Checkpoint(phase, names, memory, n)
  PROVE  /\ saved'.phase = phase /\ saved'.ids = names /\ saved'.repairs = n
         /\ saved'.observations = memory.observations
         /\ saved'.lessons = memory.lessons
BY DEF Checkpoint

LEMMA StageStep ==
  ASSUME Inv1, [Next]_vars
  PROVE  StageInv'
<1>0. /\ TypeInv /\ CandidatesInv /\ StageInv /\ pc \in Stages
      /\ todo \in SUBSET Known /\ queue \in SUBSET Known /\ ids \in SUBSET Known
      /\ repairs \in 0..MaxRepairs /\ saved.ids \in SUBSET Known
      /\ saved.phase \in Phases
  BY DEF Inv1, TypeInv
<1>s. saved \in [phase : Phases, round : Nat, ids : SUBSET Known,
                 repairs : 0..MaxRepairs, observations : Seq(Observation),
                 lessons : SUBSET (Known \X LessonKinds)]
  BY DEF Inv1, TypeInv
<1>1. ASSUME NEW parent \in {Seed, Incumbent}, NEW failure \in {"none", "static"},
             Propose(parent, failure)
      PROVE  StageInv'
  <2>1. parent \in Known /\ failure \in Failures
    BY <1>0, IncumbentKnown DEF TypeInv, Failures
  <2>2. Added(parent, "proposal", failure)
    BY <1>0, <1>1, <2>1, AddedFacts DEF Propose
  <2>3. Steady
    BY <2>2 DEF Added, Steady
  <2>4. /\ UNCHANGED <<policy, round, pc, todo, queue, ids, repairs>>
        /\ pc = "generate"
    BY <1>1 DEF Propose
  <2>5. /\ saved'.phase = saved.phase /\ saved'.ids = saved.ids
        /\ saved'.repairs \in {saved.repairs, repairs}
    <3>1. CASE Persist
      BY <1>s, <2>4, <3>1 DEF Persist
    <3>2. CASE UNCHANGED saved
      BY <3>2
    <3> QED
      BY <1>1, <3>1, <3>2 DEF Propose
  <2>6. saved.ids = {} /\ ids = {}
    BY <1>0, <2>4 DEF StageInv, Running, PhaseOf
  <2> QED
    BY <1>0, <2>4, <2>5, <2>6 DEF StageInv, Running, PhaseOf
<1>2. ASSUME NEW c \in Known, Model(c)
      PROVE  StageInv'
  <2>1. /\ UNCHANGED <<policy, round, pc, ids, repairs, saved>> /\ pc = "model"
        /\ c \in todo /\ todo' \subseteq todo
        /\ queue' \subseteq queue \cup {c}
    BY <1>2 DEF Model, Walked
  <2>2. Steady /\ Known' = Known
    BY <1>0, <1>2, ModelledSteady
  <2> QED
    BY <1>0, <2>1, <2>2 DEF StageInv, Running, PhaseOf, Steady
<1>3. ASSUME NEW c \in Known, ModelRepair(c)
      PROVE  StageInv'
  <2>1. /\ UNCHANGED <<policy, round, ids, repairs, saved>>
        /\ pc = "model-repair" /\ pc' = "measure"
        /\ c \in todo /\ todo' \subseteq todo
        /\ queue' \subseteq queue \cup {c}
    BY <1>3 DEF ModelRepair, Walked
  <2>2. Steady /\ Known' = Known
    BY <1>0, <1>3, ModelledSteady
  <2> QED
    BY <1>0, <2>1, <2>2 DEF StageInv, Running, PhaseOf, Steady
<1>4. ASSUME NEW c \in Known, Measure(c)
      PROVE  StageInv'
  <2>1. /\ UNCHANGED <<policy, round, pc, ids, repairs, saved>> /\ pc = "measure"
        /\ c \in todo /\ todo' \subseteq todo
        /\ queue' \subseteq queue \cup {c}
    BY <1>4 DEF Measure, Walked
  <2>2. Steady /\ Known' = Known
    BY <1>0, <1>4, MeasureStepFacts, OnlySteady DEF MeasureStep
  <2> QED
    BY <1>0, <2>1, <2>2 DEF StageInv, Running, PhaseOf, Steady
<1>5. ASSUME NEW c \in Known, Repair(c)
      PROVE  StageInv'
  <2>1. /\ UNCHANGED <<policy, round>> /\ Persist
        /\ repairs' = repairs + 1 /\ queue' = queue \ {c}
        /\ pc \in {"model", "measure"} /\ todo = {}
    BY <1>5 DEF Repair, CanRepair
  <2>2. /\ saved'.phase = saved.phase /\ saved'.ids = saved.ids
        /\ saved'.repairs = repairs'
    BY <1>s, <2>1 DEF Persist
  <2>3. CASE UNCHANGED <<pc, records, todo, ids>>
    BY <1>0, <2>1, <2>2, <2>3 DEF StageInv, Running, PhaseOf, Known
  <2>4. CASE ~UNCHANGED <<pc, records, todo, ids>>
    <3>1. /\ records' = Append(records, Proposed(round, c, "repair", "none"))
          /\ todo' = {Len(records')} /\ ids' = ids \cup todo' /\ pc' = Repaired
      BY <1>5, <2>4 DEF Repair
    <3>2. Added(c, "repair", "none")
      BY <1>0, <3>1, AddedFacts DEF Failures
    <3>3. Steady /\ Len(records') \in Known'
      BY <3>2 DEF Added, Steady
    <3>4. /\ records'[Len(records')].generation = round
          /\ records'[Len(records')].kind = "repair"
          /\ ~records'[Len(records')].measured
      BY <3>2 DEF Added, Proposed
    <3>5. pc' \in {"model", "measure", "model-repair"}
      BY <2>1, <3>1 DEF Repaired
    <3>6. /\ pc' = "model-repair" => policy' = "tilesight"
          /\ PhaseOf(pc)' = PhaseOf(pc)
      BY <2>1, <3>1 DEF Repaired, PhaseOf
    <3>7. /\ pc' # "over" => round' <= Rounds
          /\ saved'.phase = PhaseOf(pc)'
          /\ saved'.phase # ""
      BY <1>0, <2>1, <2>2, <3>6 DEF StageInv, Running, PhaseOf
    <3>8. \A d \in ids \cup saved.ids : records'[d].generation = round
      BY <1>0, <3>3 DEF StageInv, Steady
    <3>9. \A d \in ids \ saved.ids : records'[d].kind = "repair"
      BY <1>0, <2>1, <3>3 DEF StageInv, Steady, Running
    <3>10. saved'.ids \subseteq ids' /\ queue' \subseteq ids' /\ todo' \subseteq ids'
      BY <1>0, <2>1, <2>2, <3>1 DEF StageInv, Running
    <3> QED
      BY <2>1, <2>2, <3>1, <3>3, <3>4, <3>5, <3>6, <3>7, <3>8, <3>9, <3>10
         DEF StageInv, Running
  <2> QED
    BY <2>3, <2>4
<1>6. ASSUME NEW c \in Known, Profiled(c), c \in todo \/ pc = "profile",
             policy' = policy, round' = round,
             \/ pc' = pc /\ pc = "profile-all" /\ todo' = todo \ {c}
             \/ pc = "profile" /\ pc' = "finish" /\ todo' = todo,
             UNCHANGED <<queue, ids, repairs, saved>>
      PROVE  StageInv'
  <2>1. Steady /\ Known' = Known
    BY <1>0, <1>6, ProfileStepFacts, OnlySteady DEF ProfileStep
  <2> QED
    BY <1>0, <1>6, <2>1 DEF StageInv, Running, PhaseOf, Steady
<1>7. CASE GenerationEnds
  BY <1>0, <1>7 DEF GenerationEnds, Generated, Checkpoint, StageInv, Running,
                    PhaseOf, Known
<1>8. CASE ModelEnds
  BY <1>0, <1>8 DEF ModelEnds, Save, Checkpoint, StageInv, Running, PhaseOf, Known
<1>9. CASE Select
  BY <1>0, <1>9 DEF Select, Promotable, Checkpoint, StageInv, Running, PhaseOf, Known
<1>10. CASE MeasureEnds
  <2>1. CASE policy = "ncu"
    BY <1>0, <1>10, <2>1 DEF MeasureEnds, StageInv, Running, PhaseOf, Known
  <2>2. CASE policy # "ncu"
    <3>1. /\ UNCHANGED <<policy, round, records, ids, repairs>>
          /\ pc = "measure" /\ pc' = "profile" /\ todo' \subseteq ids /\ queue' = {}
          /\ Checkpoint("measured", ids, memory, repairs)
      BY <1>10, <2>2 DEF MeasureEnds, Save
    <3>2. saved'.phase = "measured" /\ saved'.ids = ids /\ saved'.repairs = repairs
      BY <3>1, CheckpointFields
    <3> QED
      BY <1>0, <3>1, <3>2 DEF StageInv, Running, PhaseOf, Known
  <2> QED
    BY <2>1, <2>2
<1>11. CASE ProfileAll
  <2>1. CASE todo = {}
    <3>1. /\ UNCHANGED <<policy, round, records, todo, queue, ids, repairs>>
          /\ pc = "profile-all" /\ pc' = "profile"
          /\ Checkpoint("measured", ids, memory, repairs)
      BY <1>11, <2>1 DEF ProfileAll, Save
    <3>2. saved'.phase = "measured" /\ saved'.ids = ids /\ saved'.repairs = repairs
      BY <3>1, CheckpointFields
    <3> QED
      BY <1>0, <3>1, <3>2 DEF StageInv, Running, PhaseOf, Known
  <2>2. CASE todo # {}
    BY <1>0, <1>6, <1>11, <2>2 DEF ProfileAll
  <2> QED
    BY <2>1, <2>2
<1>12. CASE Milestone
  BY <1>0, <1>6, <1>12 DEF Milestone
<1>13. CASE RoundEnds
  <2>1. /\ round <= Rounds /\ round \in Nat /\ Rounds \in Nat
        /\ round' = round + 1 /\ records' = records
        /\ pc' \in {"generate", "over"} /\ (pc' = "generate" => round # Rounds)
    BY <1>0, <1>13, RoundIs, Constants
       DEF RoundEnds, StageInv, EmptyRound
  <2>2. pc' # "over" => round' <= Rounds
    BY <2>1
  <2>3. /\ ids' = {} /\ todo' = {} /\ queue' = {} /\ repairs' = 0
        /\ saved'.phase = "" /\ saved'.ids = {} /\ saved'.repairs = 0
    BY <1>13 DEF RoundEnds
  <2> QED
    BY <2>1, <2>2, <2>3 DEF StageInv, Running, PhaseOf
<1>14. CASE Crash
  <2>1. /\ pc' = "down" /\ todo' = {} /\ queue' = {} /\ ids' = {} /\ repairs' = 0
        /\ UNCHANGED <<policy, round, records, saved>> /\ pc # "over"
    BY <1>14 DEF Crash, Down, Running
  <2> QED
    BY <1>0, <2>1 DEF StageInv, Running
<1>15. CASE OutOfTime
  <2>1. /\ pc' = "down" /\ todo' = {} /\ queue' = {} /\ ids' = {} /\ repairs' = 0
        /\ UNCHANGED <<policy, round, records>> /\ Running
    BY <1>15 DEF OutOfTime, Down
  <2>2. \/ saved'.phase = saved.phase /\ saved'.ids = ids
        \/ saved'.phase = "" /\ saved'.ids = {}
    BY <1>15, CheckpointFields DEF OutOfTime, Save
  <2>3. saved.phase = "" => ids = {}
    BY <1>0, <2>1 DEF StageInv, Running, PhaseOf, Stages
  <2> QED
    BY <1>0, <2>1, <2>2, <2>3 DEF StageInv, Running
<1>16. CASE Resume
  <2>1. /\ UNCHANGED <<policy, round, records, queue, saved>> /\ pc = "down"
        /\ ids' = saved.ids /\ repairs' = saved.repairs /\ queue = {}
        /\ todo' = (IF pc' \in {"model", "measure"} THEN saved.ids ELSE {})
        /\ pc' = Stage(saved.phase)
    BY <1>0, <1>16 DEF Resume, StageInv
  <2>2. /\ pc' \in {"generate", "model", "select", "measure", "profile"}
        /\ PhaseOf(pc)' = saved.phase
        /\ pc' = "generate" => saved.phase = ""
    BY <1>0, <2>1 DEF Stage, Phases, PhaseOf
  <2> QED
    BY <1>0, <2>1, <2>2 DEF StageInv, Running
<1>17. CASE UNCHANGED vars
  BY <1>0, <1>17 DEF vars, StageInv, Running, Known, PhaseOf
<1> QED
  BY <1>1, <1>2, <1>3, <1>4, <1>5, <1>7, <1>8, <1>9, <1>10, <1>11, <1>12, <1>13,
     <1>14, <1>15, <1>16, <1>17 DEF Next

(***************************************************************************)
(* Types, what a candidate may look like, and where a process is: the      *)
(* phase in state.json says what stage a resume goes to, and the checkpoint*)
(* lists the candidates of the stage but for repairs that came since.      *)
(***************************************************************************)
THEOREM StagesFollow == Spec => []Inv1
<1>1. Init => Inv1
  BY InitType, InitStage DEF Inv1
<1>2. Inv1 /\ [Next]_vars => Inv1'
  BY TypeStep, StageStep DEF Inv1
<1> QED
  BY <1>1, <1>2, PTL DEF Spec

-----------------------------------------------------------------------------
(* How many candidates there are *)

LEMMA InRoundFinite ==
  ASSUME TypeInv, NEW kind
  PROVE  IsFiniteSet(InRound(kind)) /\ Cardinality(InRound(kind)) \in Nat
<1>1. InRound(kind) \subseteq 1..Len(records) /\ Len(records) \in Nat
  BY KnownIs DEF InRound
<1>2. IsFiniteSet(1..Len(records))
  BY <1>1, FS_Interval
<1>3. IsFiniteSet(InRound(kind))
  BY <1>1, <1>2, FS_Subset
<1> QED
  BY <1>3, FS_CardinalityType

LEMMA InRoundKept ==
  ASSUME Steady, Known' = Known, round' = round
  PROVE  InRound("proposal")' = InRound("proposal") /\ AllProposed' = AllProposed
BY DEF Steady, InRound, AllProposed

LEMMA InRoundRepair ==
  ASSUME NEW parent, NEW failure, Added(parent, "repair", failure), round' = round
  PROVE  InRound("proposal")' = InRound("proposal") /\ AllProposed' = AllProposed
<1>1. \A d \in Known' : \/ d \in Known /\ records'[d] = records[d]
                        \/ d \notin Known /\ records'[d].kind = "repair"
  BY DEF Added, Proposed
<1>2. Known \subseteq Known'
  BY DEF Added
<1>3. InRound("proposal")' = InRound("proposal")
  BY <1>1, <1>2 DEF InRound
<1> QED
  BY <1>3 DEF AllProposed

LEMMA InRoundProposal ==
  ASSUME TypeInv, NEW parent, NEW failure, Added(parent, "proposal", failure),
         round' = round
  PROVE  Cardinality(InRound("proposal"))' = Cardinality(InRound("proposal")) + 1
<1> DEFINE new == Len(records) + 1
<1>1. /\ new \notin Known /\ Known' = Known \cup {new}
      /\ \A d \in Known : records'[d] = records[d]
      /\ records'[new].generation = round /\ records'[new].kind = "proposal"
  BY DEF Added, Proposed
<1> HIDE DEF new
<1>2. InRound("proposal")' = InRound("proposal") \cup {new}
  BY <1>1 DEF InRound
<1>3. new \notin InRound("proposal") /\ IsFiniteSet(InRound("proposal"))
  BY <1>1, InRoundFinite DEF InRound
<1> QED
  BY <1>2, <1>3, FS_AddElement

Budget(n) == n * (Proposals + MaxRepairs)

LEMMA BudgetSteps ==
  /\ \A n \in Nat : Budget(n) \in Nat
  /\ \A n \in Nat : Budget(n + 1) = Budget(n) + Proposals + MaxRepairs
  /\ Budget(0) = 0
<1> DEFINE k == Proposals + MaxRepairs
<1>1. k \in Nat /\ Proposals \in Nat /\ MaxRepairs \in Nat
  BY Constants
<1> HIDE DEF k
<1>2. \A n \in Nat : n * k \in Nat /\ (n + 1) * k = n * k + k /\ 0 * k = 0
  BY <1>1
<1>3. \A n \in Nat : n * k + k = n * k + Proposals + MaxRepairs
  BY <1>1, <1>2 DEF k
<1>4. \A n : Budget(n) = n * k
  BY DEF Budget, k
<1> QED
  BY <1>2, <1>3, <1>4

Counted ==
  /\ CountInv
  /\ pc = "over" => Len(records) <= 1 + Budget(round - 1)

LEMMA InitCount == Init => Counted
<1> SUFFICES ASSUME Init  PROVE Counted
  OBVIOUS
<1>1. /\ TypeInv /\ CandidatesInv
  BY InitType
<1>2. /\ Len(records) = 1 /\ round = 1 /\ pc = "generate" /\ saved.phase = ""
      /\ saved.repairs = 0
  <2>1. PICK r : records = <<r>>
    BY DEF Init
  <2>2. Len(records) = 1
    BY <2>1
  <2>3. round = 1 /\ pc = "generate" /\ saved.phase = "" /\ saved.repairs = 0
    BY DEF Init
  <2> QED
    BY <2>2, <2>3
<1>3. Known = {Seed}
  <2>1. Known = 1..1
    BY <1>1, <1>2, KnownIs
  <2> QED
    BY <2>1 DEF Seed
<1>4. records[Seed].kind = "seed"
  BY <1>1, <1>3 DEF CandidatesInv, Sane
<1>5. InRound("proposal") = {}
  BY <1>3, <1>4 DEF InRound
<1>6. Cardinality(InRound("proposal")) = 0
  BY <1>5, FS_EmptySet
<1>7. Budget(round - 1) = 0
  <2>1. \A n : n = 1 => n - 1 = 0
    OBVIOUS
  <2>2. round = 1
    BY <1>2
  <2>3. round - 1 = 0
    BY <2>1, <2>2, Zenon
  <2> QED
    BY <2>3, BudgetSteps
<1>8. /\ Cardinality(InRound("proposal")) <= Proposals
      /\ Len(records) <= 1 + Budget(round - 1)
                           + Cardinality(InRound("proposal")) + saved.repairs
  <2>1. 0 <= Proposals
    BY Constants
  <2>2. 1 <= 1 + 0 + 0 + 0
    OBVIOUS
  <2>3. Len(records) = 1 /\ saved.repairs = 0
    BY <1>2
  <2> QED
    BY <1>6, <1>7, <2>1, <2>2, <2>3, Zenon
<1> QED
  BY <1>2, <1>8 DEF Counted, CountInv, Budget

LEMMA CountKept ==
  ASSUME TypeInv, Counted, Steady, Known' = Known, round' = round,
         Len(records') = Len(records), saved'.repairs = saved.repairs,
         pc' # "over"
  PROVE  Counted'
<1>1. InRound("proposal")' = InRound("proposal") /\ AllProposed' = AllProposed
  BY InRoundKept
<1> QED
  BY <1>1 DEF Counted, CountInv

LEMMA CountStep ==
  ASSUME Inv1, Counted, [Next]_vars
  PROVE  Counted'
<1>0. /\ TypeInv /\ CandidatesInv /\ StageInv /\ CountInv /\ pc \in Stages
      /\ saved.phase \in Phases /\ repairs \in 0..MaxRepairs
  BY DEF Inv1, TypeInv, Counted
<1>s. saved \in [phase : Phases, round : Nat, ids : SUBSET Known,
                 repairs : 0..MaxRepairs, observations : Seq(Observation),
                 lessons : SUBSET (Known \X LessonKinds)]
  BY DEF Inv1, TypeInv
<1>n. /\ Len(records) \in Nat /\ round \in Nat /\ round >= 1
      /\ Cardinality(InRound("proposal")) \in Nat
      /\ saved.repairs \in Nat /\ saved.repairs <= MaxRepairs
      /\ Proposals \in Nat /\ MaxRepairs \in Nat
      /\ Cardinality(InRound("proposal")) <= Proposals
  <2>1. saved.repairs \in 0..MaxRepairs /\ MaxRepairs \in Nat /\ Proposals \in Nat
    BY <1>s, Constants
  <2>2. saved.repairs \in Nat /\ saved.repairs <= MaxRepairs
    BY <2>1
  <2>3. Cardinality(InRound("proposal")) <= Proposals
    BY <1>0 DEF CountInv
  <2> HIDE DEF InRound
  <2> QED
    BY <1>0, <2>1, <2>2, <2>3, KnownIs, RoundIs, InRoundFinite
<1>b. /\ Len(records) <= 1 + Budget(round - 1)
                           + Cardinality(InRound("proposal")) + saved.repairs
      /\ round - 1 \in Nat /\ Budget(round - 1) \in Nat
      /\ Budget(round) = Budget(round - 1) + Proposals + MaxRepairs
  <2>1. round - 1 \in Nat /\ (round - 1) + 1 = round
    BY <1>n
  <2> QED
    BY <1>0, <2>1, BudgetSteps DEF CountInv, Budget
<1>r. Running => saved.repairs = repairs /\ saved.phase = PhaseOf(pc)
  BY <1>0 DEF StageInv
<1>1. ASSUME NEW parent \in {Seed, Incumbent}, NEW failure \in {"none", "static"},
             Propose(parent, failure)
      PROVE  Counted'
  <2>1. parent \in Known /\ failure \in Failures
    BY <1>0, IncumbentKnown DEF TypeInv, Failures
  <2>2. Added(parent, "proposal", failure)
    BY <1>0, <1>1, <2>1, AddedFacts DEF Propose
  <2>3. /\ UNCHANGED <<round, pc, repairs>> /\ pc = "generate" /\ ~AllProposed
        /\ Persist \/ UNCHANGED saved
    BY <1>1 DEF Propose
  <2>4. saved'.phase = saved.phase /\ saved'.repairs = saved.repairs
    BY <1>s, <1>r, <2>3 DEF Persist, Running
  <2>5. Cardinality(InRound("proposal"))' = Cardinality(InRound("proposal")) + 1
    BY <1>0, <2>2, <2>3, InRoundProposal
  <2>6. Len(records') = Len(records) + 1 /\ saved.phase = ""
    BY <1>r, <2>2, <2>3 DEF Added, Running, PhaseOf
  <2>7. Cardinality(InRound("proposal")) < Proposals
    BY <1>n, <2>3 DEF AllProposed
  <2>8. Cardinality(InRound("proposal"))' <= Proposals
    BY <1>n, <2>5, <2>7
  <2>9. Len(records') <= 1 + Budget(round' - 1)
                           + Cardinality(InRound("proposal"))' + saved'.repairs
    <3>1. PICK l, b, n, k : /\ l = Len(records) /\ b = Budget(round - 1)
                            /\ n = Cardinality(InRound("proposal"))
                            /\ k = saved.repairs
      OBVIOUS
    <3>2. l \in Nat /\ b \in Nat /\ n \in Nat /\ k \in Nat /\ l <= 1 + b + n + k
      BY <1>n, <1>b, <3>1
    <3>3. l + 1 <= 1 + b + (n + 1) + k
      BY <3>2
    <3> QED
      BY <2>3, <2>4, <2>5, <2>6, <3>1, <3>3
  <2>10. pc' # "over" /\ saved'.phase = ""
    BY <2>3, <2>4, <2>6
  <2> HIDE DEF InRound
  <2> QED
    BY <2>8, <2>9, <2>10 DEF Counted, CountInv, Budget
<1>2. ASSUME NEW c \in Known, Model(c)
      PROVE  Counted'
  <2>1. UNCHANGED <<round, pc, saved>> /\ pc = "model"
    BY <1>2 DEF Model
  <2>2. Steady /\ Known' = Known /\ Len(records') = Len(records)
    BY <1>0, <1>2, ModelledSteady DEF ModelStep, Only
  <2> QED
    BY <1>0, <2>1, <2>2, CountKept DEF Counted
<1>3. ASSUME NEW c \in Known, ModelRepair(c)
      PROVE  Counted'
  <2>1. UNCHANGED <<round, saved>> /\ pc' = "measure"
    BY <1>3 DEF ModelRepair
  <2>2. Steady /\ Known' = Known /\ Len(records') = Len(records)
    BY <1>0, <1>3, ModelledSteady DEF ModelStep, Only
  <2> QED
    BY <1>0, <2>1, <2>2, CountKept DEF Counted
<1>4. ASSUME NEW c \in Known, Measure(c)
      PROVE  Counted'
  <2>1. UNCHANGED <<round, pc, saved>> /\ pc = "measure"
    BY <1>4 DEF Measure
  <2>2. Steady /\ Known' = Known /\ Len(records') = Len(records)
    BY <1>0, <1>4, MeasureStepFacts, OnlySteady DEF MeasureStep, Only
  <2> QED
    BY <1>0, <2>1, <2>2, CountKept DEF Counted
<1>5. ASSUME NEW c \in Known, Profiled(c), round' = round, saved' = saved,
             pc' # "over"
      PROVE  Counted'
  <2>1. Steady /\ Known' = Known /\ Len(records') = Len(records)
    BY <1>0, <1>5, ProfileStepFacts, OnlySteady DEF ProfileStep, Only
  <2> QED
    BY <1>0, <1>5, <2>1, CountKept DEF Counted
<1>6. ASSUME NEW c \in Known, Repair(c)
      PROVE  Counted'
  <2>1. /\ UNCHANGED <<policy, round>> /\ Persist
        /\ repairs' = repairs + 1 /\ pc \in {"model", "measure"}
        /\ pc' \in {pc, Repaired}
    BY <1>6 DEF Repair, CanRepair
  <2>2. saved'.phase = saved.phase /\ saved'.repairs = saved.repairs + 1
    BY <1>s, <1>r, <2>1 DEF Persist, Running
  <2>3. /\ InRound("proposal")' = InRound("proposal") /\ AllProposed' = AllProposed
        /\ Len(records') \in {Len(records), Len(records) + 1}
    <3>1. CASE UNCHANGED <<pc, records, todo, ids>>
      BY <2>1, <3>1 DEF InRound, AllProposed, Known
    <3>2. CASE ~UNCHANGED <<pc, records, todo, ids>>
      <4>1. Added(c, "repair", "none")
        BY <1>0, <1>6, <3>2, AddedFacts DEF Repair, Failures
      <4> QED
        BY <2>1, <4>1, InRoundRepair DEF Added
    <3> QED
      BY <3>1, <3>2
  <2>4. pc' # "over"
    BY <2>1 DEF Repaired
  <2>5. Len(records') <= 1 + Budget(round' - 1)
                           + Cardinality(InRound("proposal"))' + saved'.repairs
    <3>1. PICK l, b, n, k : /\ l = Len(records) /\ b = Budget(round - 1)
                            /\ n = Cardinality(InRound("proposal"))
                            /\ k = saved.repairs
      OBVIOUS
    <3>2. l \in Nat /\ b \in Nat /\ n \in Nat /\ k \in Nat /\ l <= 1 + b + n + k
      BY <1>n, <1>b, <3>1
    <3>3. l <= 1 + b + n + (k + 1) /\ l + 1 <= 1 + b + n + (k + 1)
      BY <3>2
    <3> QED
      BY <2>1, <2>2, <2>3, <3>1, <3>3
  <2> HIDE DEF InRound
  <2> QED
    BY <1>0, <2>2, <2>3, <2>4, <2>5 DEF Counted, CountInv, Budget
<1>7. ASSUME UNCHANGED <<records, round>>, pc' # "over",
             saved'.repairs = saved.repairs
      PROVE  Counted'
  <2>1. Steady /\ Known' = Known /\ Len(records') = Len(records)
    BY <1>7 DEF Steady, Known
  <2> QED
    BY <1>0, <1>7, <2>1, CountKept DEF Counted
<1>8. CASE GenerationEnds
  BY <1>r, <1>7, <1>8, CheckpointFields DEF GenerationEnds, Running
<1>9. CASE ModelEnds
  BY <1>r, <1>7, <1>9, CheckpointFields DEF ModelEnds, Save, Running, PhaseOf
<1>10. CASE Select
  BY <1>r, <1>7, <1>10, CheckpointFields DEF Select, Running, PhaseOf
<1>11. CASE MeasureEnds
  BY <1>r, <1>7, <1>11, CheckpointFields DEF MeasureEnds, Save, Running, PhaseOf
<1>12. CASE ProfileAll
  <2>1. CASE todo = {}
    BY <1>r, <1>7, <1>12, <2>1, CheckpointFields
       DEF ProfileAll, Save, Running, PhaseOf
  <2>2. CASE todo # {}
    BY <1>0, <1>5, <1>12, <2>2 DEF ProfileAll, TypeInv
  <2> QED
    BY <2>1, <2>2
<1>13. CASE Milestone
  BY <1>5, <1>13 DEF Milestone
<1>14. CASE RoundEnds
  <2>1. /\ round' = round + 1 /\ records' = records
        /\ saved'.phase = "" /\ saved'.repairs = 0
    BY <1>14 DEF RoundEnds, EmptyRound
  <2>3. Len(records) <= 1 + Budget(round)
    <3>1. PICK l, b, n, k : /\ l = Len(records) /\ b = Budget(round - 1)
                            /\ n = Cardinality(InRound("proposal"))
                            /\ k = saved.repairs
      OBVIOUS
    <3>2. /\ l \in Nat /\ b \in Nat /\ n \in Nat /\ k \in Nat
          /\ l <= 1 + b + n + k /\ n <= Proposals /\ k <= MaxRepairs
      BY <1>n, <1>b, <3>1
    <3>3. l <= 1 + (b + Proposals + MaxRepairs)
      BY <1>n, <3>2
    <3> QED
      BY <1>b, <3>1, <3>3, Zenon
  <2>4. round' - 1 = round /\ Len(records') = Len(records)
    <3>1. \A n \in Nat : \A m : m = n + 1 => m - 1 = n
      OBVIOUS
    <3>2. round' = round + 1 /\ round \in Nat
      BY <1>n, <2>1
    <3>3. round' - 1 = round
      BY <3>1, <3>2, Zenon
    <3> QED
      BY <2>1, <3>3
  <2>5. InRound("proposal")' = {}
    <3>1. \A c \in Known : /\ records[c].generation <= round
                           /\ records[c].generation \in Nat
      BY <1>0, KnownIs DEF CandidatesInv, Sane, Candidate
    <3>2. \A c \in Known : records[c].generation # round + 1
      BY <1>n, <3>1
    <3> QED
      BY <2>1, <3>2 DEF InRound, Known
  <2>6. Cardinality(InRound("proposal"))' = 0
    BY <2>5, FS_EmptySet
  <2>7. Len(records') <= 1 + Budget(round' - 1)
                           + Cardinality(InRound("proposal"))' + saved'.repairs
    <3>1. Budget(round) \in Nat
      BY <1>n, BudgetSteps
    <3> QED
      <4>1. Budget(round' - 1) = Budget(round) /\ saved'.repairs = 0
        BY <2>1, <2>4, Zenon
      <4>2. \A b \in Nat, l \in Nat : l <= 1 + b => l <= 1 + b + 0 + 0
        OBVIOUS
      <4>3. Len(records) <= 1 + Budget(round) + 0 + 0
        BY <1>n, <2>3, <3>1, <4>2, Zenon
      <4> QED
        BY <2>4, <2>6, <4>1, <4>3, Zenon
  <2>8. Len(records') <= 1 + Budget(round' - 1)
    BY <2>3, <2>4
  <2> HIDE DEF InRound
  <2> QED
    <3>1. Cardinality(InRound("proposal"))' <= Proposals
      BY <1>n, <2>6
    <3> QED
      BY <2>1, <2>7, <2>8, <3>1 DEF Counted, CountInv, Budget
<1>15. CASE Crash
  BY <1>7, <1>15 DEF Crash, Down
<1>16. CASE OutOfTime
  <2>1. /\ UNCHANGED <<records, round>> /\ pc' = "down" /\ Running
        /\ \/ Checkpoint(saved.phase, ids, memory, repairs)
           \/ Checkpoint("", {}, memory, repairs)
    BY <1>16 DEF OutOfTime, Down, Save
  <2>2. saved'.repairs = repairs /\ saved'.phase \in {saved.phase, ""}
    BY <2>1, CheckpointFields
  <2> QED
    BY <1>r, <1>7, <2>1, <2>2
<1>17. CASE Resume
  <2>1. pc' # "over"
    BY <1>0, <1>17 DEF Resume, Stage, Phases
  <2> QED
    BY <1>7, <1>17, <2>1 DEF Resume
<1>18. CASE UNCHANGED vars
  <2>1. /\ UNCHANGED <<records, round, pc, saved>>
    BY <1>18 DEF vars
  <2>2. InRound("proposal")' = InRound("proposal") /\ AllProposed' = AllProposed
    BY <2>1 DEF InRound, AllProposed, Known
  <2> QED
    BY <2>1, <2>2 DEF Counted, CountInv
<1> QED
  BY <1>1, <1>2, <1>3, <1>4, <1>6, <1>8, <1>9, <1>10, <1>11, <1>12, <1>13,
     <1>14, <1>15, <1>16, <1>17, <1>18 DEF Next

(* The archive is within the budget, and typed.                            *)
LEMMA CountedIsTypeOK ==
  ASSUME Inv1, Counted
  PROVE  TypeOK
<1>0. TypeInv /\ CandidatesInv /\ StageInv
  BY DEF Inv1
<1>1. Len(records) <= 1 + Budget(Rounds)
  <2>0. /\ Len(records) \in Nat /\ round \in Nat /\ round >= 1
        /\ Rounds \in Nat /\ round <= Rounds + 1
        /\ Proposals \in Nat /\ MaxRepairs \in Nat
        /\ Cardinality(InRound("proposal")) \in Nat
        /\ saved.repairs \in 0..MaxRepairs
    BY <1>0, Constants, KnownIs, RoundIs, InRoundFinite DEF TypeInv
  <2>1. round - 1 \in Nat /\ (round - 1) + 1 = round
    BY <2>0
  <2>2. \A m, n \in Nat : m <= n => Budget(m) <= Budget(n)
    <3> DEFINE k == Proposals + MaxRepairs
    <3>1. k \in Nat
      BY <2>0
    <3> HIDE DEF k
    <3> SUFFICES ASSUME NEW m \in Nat, NEW n \in Nat, m <= n
                 PROVE  m * k <= n * k
      BY DEF Budget, k
    <3>2. PICK d \in Nat : n = m + d
      <4>1. n - m \in Nat /\ n = m + (n - m)
        OBVIOUS
      <4> QED
        BY <4>1
    <3>3. (m + d) * k = m * k + d * k /\ d * k \in Nat /\ m * k \in Nat
      BY <3>1
    <3> QED
      BY <3>2, <3>3
  <2>3. CASE pc = "over"
    <3>1. Len(records) <= 1 + Budget(round - 1) /\ round - 1 <= Rounds
      BY <2>0, <2>3 DEF Counted
    <3>2. Budget(round - 1) <= Budget(Rounds) /\ Budget(round - 1) \in Nat
          /\ Budget(Rounds) \in Nat
      BY <2>0, <2>1, <2>2, <3>1, BudgetSteps
    <3> QED
      BY <2>0, <3>1, <3>2
  <2>4. CASE pc # "over"
    <3>1. round <= Rounds
      BY <1>0, <2>4 DEF StageInv
    <3>2. /\ Budget(round) = Budget(round - 1) + Proposals + MaxRepairs
          /\ Budget(round) <= Budget(Rounds)
          /\ Budget(round - 1) \in Nat /\ Budget(Rounds) \in Nat
      BY <2>0, <2>1, <2>2, <3>1, BudgetSteps
    <3>3. /\ Len(records) <= 1 + Budget(round - 1)
                               + Cardinality(InRound("proposal")) + saved.repairs
          /\ Cardinality(InRound("proposal")) <= Proposals
      BY DEF Counted, CountInv, Budget
    <3>4. saved.repairs \in Nat /\ saved.repairs <= MaxRepairs
      BY <2>0
    <3> QED
      BY SMTT(20), <2>0, <3>2, <3>3, <3>4
  <2> QED
    BY <2>3, <2>4
<1>2. \A c \in Known :
        /\ records[c].failure \in Failures /\ records[c].parent < c
        /\ records[c].profile \in {"none", "valid", "failed"}
        /\ records[c].model = NoModel \/ records[c].model.ms \in Predicted
  BY <1>0, KnownIs DEF CandidatesInv, Sane, Candidate
<1>3. /\ policy \in Policies /\ round \in 1..Rounds + 1
      /\ todo \cup queue \cup ids \subseteq Known /\ repairs \in 0..MaxRepairs
      /\ memory.lessons \subseteq Known \X LessonKinds
      /\ crashes \in Nat /\ stops \in Nat /\ crashes + stops <= MaxEnds
      /\ forgotten \in 0..Rounds
  BY <1>0 DEF TypeInv
<1> QED
  BY <1>1, <1>2, <1>3 DEF TypeOK, Budget, LessonKinds

(***************************************************************************)
(* The type invariant; the archive never holds more candidates than the    *)
(* budget of the rounds grants, however often a process dies.              *)
(***************************************************************************)
THEOREM TypeCorrect == Spec => []TypeOK
<1>1. Init => Inv1 /\ Counted
  BY InitType, InitStage, InitCount DEF Inv1
<1>2. Inv1 /\ Counted /\ [Next]_vars => (Inv1 /\ Counted)'
  BY TypeStep, StageStep, CountStep DEF Inv1
<1>3. Inv1 /\ Counted => TypeOK
  BY CountedIsTypeOK
<1> QED
  BY <1>1, <1>2, <1>3, PTL DEF Spec

-----------------------------------------------------------------------------
(* Trust *)

LEMMA TrustSteps ==
  ASSUME NEW rs, Len(rs) \in Nat
  PROVE  \E f : /\ DOMAIN f = 0..Len(rs)
                /\ \A c \in 0..Len(rs) : c <= Seed => f[c] = <<>>
                /\ \A c \in 1..Len(rs) : c > Seed => f[c] = Update(f[c - 1], c, rs)
                /\ TrustOf(rs) = f[Len(rs)]
<1> DEFINE n == Len(rs)
           T == {Sample(c, rs) : c \in 1..n}
           S == Seq(T)
           step == [p \in (1..n) \X S |->
                      IF p[1] <= Seed THEN <<>> ELSE Update(p[2], p[1], rs)]
<1>1. n \in Nat
  OBVIOUS
<1>2. \A c \in 1..n, t \in S : Update(t, c, rs) \in S
  <2> SUFFICES ASSUME NEW c \in 1..n, NEW t \in S
               PROVE  Update(t, c, rs) \in S
    OBVIOUS
  <2>1. Sample(c, rs) \in T
    OBVIOUS
  <2> HIDE DEF T
  <2> QED
    BY <2>1 DEF Update
<1>3. <<>> \in S
  OBVIOUS
<1> HIDE DEF S
<1>4. step \in [(1..n) \X S -> S]
  BY <1>2, <1>3
<1>5. \A c \in 1..n, t \in S :
        step[<<c, t>>] = IF c <= Seed THEN <<>> ELSE Update(t, c, rs)
  OBVIOUS
<1> HIDE DEF step
<1>6. Recurs(n, S, <<>>, step)
  BY <1>1, <1>3, <1>4 DEF Recurs
<1>7. PICK g : Solves(g, n, S, <<>>, step)
  BY <1>6, RecursionExists
<1>8. /\ g \in [0..n -> S] /\ g[0] = <<>>
      /\ \A c \in 1..n : g[c] = step[<<c, g[c - 1]>>]
  BY <1>7 DEF Solves
<1>9. \A c \in 1..n : g[c] = IF c <= Seed THEN <<>> ELSE Update(g[c - 1], c, rs)
  <2> SUFFICES ASSUME NEW c \in 1..n
               PROVE  g[c] = IF c <= Seed THEN <<>> ELSE Update(g[c - 1], c, rs)
    OBVIOUS
  <2>1. c - 1 \in 0..n
    BY <1>1
  <2> QED
    BY <1>5, <1>8, <2>1
<1> DEFINE F == CHOOSE f : f = [c \in 0..n |->
                  IF c <= Seed THEN <<>> ELSE Update(f[c - 1], c, rs)]
<1>10. g = [c \in 0..n |-> IF c <= Seed THEN <<>> ELSE Update(g[c - 1], c, rs)]
  <2>1. ASSUME NEW c \in 0..n
        PROVE  g[c] = IF c <= Seed THEN <<>> ELSE Update(g[c - 1], c, rs)
    <3>1. CASE c = 0
      BY <1>8, <3>1 DEF Seed
    <3>2. CASE c # 0
      <4>1. c \in 1..n
        BY <1>1, <3>2
      <4> QED
        BY <1>9, <4>1
    <3> QED
      BY <3>1, <3>2
  <2> QED
    BY <1>8, <2>1
<1>11. F = [c \in 0..n |-> IF c <= Seed THEN <<>> ELSE Update(F[c - 1], c, rs)]
  BY <1>10
<1>12. TrustOf(rs) = F[n]
  BY DEF TrustOf
<1> HIDE DEF F
<1>13. /\ DOMAIN F = 0..n
       /\ \A c \in 0..n : c <= Seed => F[c] = <<>>
       /\ \A c \in 0..n : ~(c <= Seed) => F[c] = Update(F[c - 1], c, rs)
  BY <1>11
<1>14. \A c \in 1..n : c > Seed => c \in 0..n /\ ~(c <= Seed)
  BY <1>1 DEF Seed
<1> QED
  BY <1>12, <1>13, <1>14

(* Trust depends on the samples only; an archive that has grown by what    *)
(* gives no sample has the same trust.                                     *)
LEMMA TrustSame ==
  ASSUME NEW rs, NEW rt, Len(rs) \in Nat, Len(rs) >= 1, Len(rt) \in Nat,
         Len(rs) <= Len(rt),
         \A c \in 1..Len(rs) : c > Seed =>
           /\ Ranked(c, rs) <=> Ranked(c, rt)
           /\ Ranked(c, rs) => Sample(c, rs) = Sample(c, rt),
         \A c \in 1..Len(rt) : c > Len(rs) => ~Ranked(c, rt)
  PROVE  TrustOf(rs) = TrustOf(rt)
<1> DEFINE m == Len(rs)
           n == Len(rt)
<1>1. PICK f : /\ \A c \in 0..m : c <= Seed => f[c] = <<>>
               /\ \A c \in 1..m : c > Seed => f[c] = Update(f[c - 1], c, rs)
               /\ TrustOf(rs) = f[m]
  BY TrustSteps
<1>2. PICK g : /\ \A c \in 0..n : c <= Seed => g[c] = <<>>
               /\ \A c \in 1..n : c > Seed => g[c] = Update(g[c - 1], c, rt)
               /\ TrustOf(rt) = g[n]
  BY TrustSteps
<1>3. m \in Nat /\ n \in Nat /\ 1 <= m /\ m <= n
  OBVIOUS
<1> DEFINE P == {c \in 0..n : g[c] = f[IF c <= m THEN c ELSE m]}
<1>4. 0 \in P
  <2>1. 0 \in 0..n /\ 0 \in 0..m /\ 0 <= Seed /\ 0 <= m
    BY <1>3 DEF Seed
  <2> QED
    BY <1>1, <1>2, <2>1
<1>5. ASSUME NEW c \in 0..n, c < n, c \in P  PROVE c + 1 \in P
  <2>1. c + 1 \in 1..n /\ c + 1 \in 0..n /\ (c + 1) - 1 = c /\ c \in Nat
    BY <1>3, <1>5
  <2>2. CASE c + 1 <= m
    <3>1. c <= m /\ c + 1 \in 1..m /\ c + 1 \in 0..m /\ g[c] = f[c]
      BY <1>3, <1>5, <2>1, <2>2
    <3>2. CASE c + 1 <= Seed
      BY <1>1, <1>2, <2>1, <2>2, <3>1, <3>2
    <3>3. CASE ~(c + 1 <= Seed)
      <4>1. c + 1 > Seed
        BY <2>1, <3>3 DEF Seed
      <4>2. /\ g[c + 1] = Update(g[c], c + 1, rt)
            /\ f[c + 1] = Update(f[c], c + 1, rs)
        BY <1>1, <1>2, <2>1, <3>1, <4>1
      <4>3. Update(g[c], c + 1, rt) = Update(f[c], c + 1, rs)
        BY <3>1, <4>1 DEF Update
      <4> QED
        BY <2>1, <2>2, <4>2, <4>3
    <3> QED
      BY <3>2, <3>3
  <2>3. CASE ~(c + 1 <= m)
    <3>1. c + 1 > m /\ c + 1 > Seed /\ g[c] = f[m]
      <4>1. c = m \/ ~(c <= m)
        BY <1>3, <2>1, <2>3
      <4>2. c + 1 > m /\ c + 1 > 1
        BY <1>3, <2>1, <2>3
      <4> QED
        BY <1>5, <4>1, <4>2 DEF Seed
    <3>2. g[c + 1] = Update(g[c], c + 1, rt)
      BY <1>2, <2>1, <3>1
    <3>3. ~Ranked(c + 1, rt)
      BY <2>1, <3>1
    <3> QED
      BY <2>1, <2>3, <3>1, <3>2, <3>3 DEF Update
  <2> QED
    BY <2>2, <2>3
<1> HIDE DEF P
<1>6. \A c \in 0..n : c \in P
  BY <1>3, <1>4, <1>5, RangeInduction
<1>7. n \in P
  BY <1>3, <1>6
<1>8. g[n] = f[m]
  <2>1. g[n] = f[IF n <= m THEN n ELSE m]
    BY <1>7 DEF P
  <2>2. n <= m => n = m
    BY <1>3
  <2> QED
    BY <2>1, <2>2
<1> QED
  BY <1>1, <1>2, <1>8

(* What a step has to keep for that: who is ranked, and how.               *)
Reranks(d) ==
  /\ Ranked(d, records') <=> Ranked(d, records)
  /\ Ranked(d, records) => /\ records'[d].parent = records[d].parent
                           /\ records'[d].model = records[d].model
                           /\ records'[d].latency = records[d].latency

LEMMA TrustKept ==
  ASSUME TypeInv, CandidatesInv, Known \subseteq Known',
         records' \in Seq(Candidate),
         \A d \in Known : Reranks(d),
         \A d \in Known' \ Known : ~Ranked(d, records')
  PROVE  TrustOf(records') = TrustOf(records)
<1>1. /\ Len(records) \in Nat /\ Len(records) >= 1 /\ Known = 1..Len(records)
      /\ Len(records') \in Nat /\ Known' = 1..Len(records')
  BY KnownIs DEF Known
<1>2. Len(records) <= Len(records')
  <2>1. Len(records) \in 1..Len(records')
    BY <1>1
  <2> QED
    BY <1>1, <2>1
<1>3. ASSUME NEW c \in 1..Len(records), c > Seed
      PROVE  /\ Ranked(c, records) <=> Ranked(c, records')
             /\ Ranked(c, records) => Sample(c, records) = Sample(c, records')
  <2>1. c \in Known
    BY <1>1
  <2>2. Ranked(c, records) <=> Ranked(c, records')
    BY <2>1 DEF Reranks
  <2>3. ASSUME Ranked(c, records)
        PROVE  Sample(c, records) = Sample(c, records')
    <3> DEFINE p == records[c].parent
    <3>1. /\ records'[c].parent = p /\ records'[c].model = records[c].model
          /\ records'[c].latency = records[c].latency
      BY <2>1, <2>3 DEF Reranks
    <3>2. CASE p \in Known
      <4>1. Reranks(p)
        BY <3>2
      <4> QED
        BY <3>1, <4>1 DEF Sample, Direction, Reranks
    <3>3. CASE p \notin Known
      <4>1. p \in Nat /\ p < c /\ p >= 1
        BY <1>3, <2>1, KnownIs DEF CandidatesInv, Sane, Candidate, Seed
      <4> QED
        BY <1>1, <3>3, <4>1
    <3> QED
      BY <3>2, <3>3
  <2> QED
    BY <2>2, <2>3
<1>4. ASSUME NEW c \in 1..Len(records'), c > Len(records)
      PROVE  ~Ranked(c, records')
  <2>1. c \in Known' \ Known
    BY <1>1, <1>4
  <2> QED
    BY <2>1
<1>5. TrustOf(records) = TrustOf(records')
  <2> DEFINE rs == records
             rt == records'
  <2>1. \A c \in 1..Len(rs) : c > Seed =>
           /\ Ranked(c, rs) <=> Ranked(c, rt)
           /\ Ranked(c, rs) => Sample(c, rs) = Sample(c, rt)
    BY <1>3
  <2>2. \A c \in 1..Len(rt) : c > Len(rs) => ~Ranked(c, rt)
    BY <1>4
  <2> HIDE DEF rs, rt
  <2>3. Len(rs) \in Nat /\ Len(rs) >= 1 /\ Len(rt) \in Nat /\ Len(rs) <= Len(rt)
    BY <1>1, <1>2 DEF rs, rt
  <2>4. TrustOf(rs) = TrustOf(rt)
    BY <2>1, <2>2, <2>3, TrustSame
  <2> QED
    BY <2>4 DEF rs, rt
<1> QED
  BY <1>5

-----------------------------------------------------------------------------
(* Models come before measurements *)

LEMMA InRoundIn ==
  ASSUME NEW kind, NEW c
  PROVE  c \in InRound(kind) <=>
           c \in Known /\ records[c].generation = round /\ records[c].kind = kind
BY DEF InRound

LEMMA InitModel == Init => ModelInv
<1> SUFFICES ASSUME Init, policy = "tilesight"  PROVE ModelInv
  BY DEF ModelInv
<1>1. TypeInv /\ CandidatesInv
  BY InitType
<1>2. pc = "generate" /\ saved.phase = ""
  BY DEF Init
<1>3. Len(records) = 1
  <2>1. PICK r : records = <<r>>
    BY DEF Init
  <2> QED
    BY <2>1
<1>4. Known = {Seed}
  <2>1. Known = 1..1
    BY <1>1, <1>3, KnownIs
  <2> QED
    BY <2>1 DEF Seed
<1>5. records[Seed].modelled
  BY <1>1, <1>4 DEF CandidatesInv, Sane
<1> QED
  BY <1>2, <1>4, <1>5 DEF ModelInv

(* The stages' other steps leave models and measurements alone.            *)
LEMMA ModelKept ==
  ASSUME ModelInv, Steady, Known' = Known, UNCHANGED <<policy, round>>,
         \A d \in Known : /\ records'[d].modelled = records[d].modelled
                          /\ records'[d].measured = records[d].measured
                          /\ records'[d].failure = records[d].failure,
         saved' = saved, forgotten' = forgotten, pc' # "model",
         saved.ids \subseteq Known
  PROVE  ModelInv'
<1> SUFFICES ASSUME policy = "tilesight"  PROVE ModelInv'
  BY DEF ModelInv
<1>1. \A d \in Known : Covered(d)' <=> Covered(d)
  BY DEF Covered
<1>2. InRound("proposal")' = InRound("proposal")
  BY InRoundKept
<1>3. InRound("proposal") \subseteq Known
  BY DEF InRound
<1>4. \A d \in InRound("proposal") : Covered(d)' <=> Covered(d)
  BY <1>1, <1>3
<1> HIDE DEF InRound, Covered
<1>5. saved.phase \in {"modeled", "selected", "measured"} =>
        \A c \in InRound("proposal") : Covered(c)'
  BY <1>4 DEF ModelInv
<1>6. saved.phase = "generated" =>
        \A c \in InRound("proposal") : Covered(c)' \/ c \in saved.ids
  BY <1>4 DEF ModelInv
<1>7. \A d \in Known : records'[d].kind = "proposal" /\ records'[d].measured =>
                         records'[d].modelled
  BY DEF ModelInv, Steady
<1>8. \A d \in Known : /\ records'[d].generation = round /\ records'[d].measured
                       /\ ~records'[d].modelled /\ forgotten = 0
                       => saved.phase \in {"selected", "measured"}
  BY DEF ModelInv, Steady
<1>9. /\ saved.phase = "modeled" => \A c \in saved.ids : records'[c].modelled
      /\ saved.phase \in {"modeled", "selected", "measured"} =>
           \A c \in saved.ids : records'[c].kind = "proposal" => records'[c].modelled
      /\ saved.phase = "generated" =>
           \A c \in saved.ids : records'[c].modelled \/ records'[c].failure = "none"
  BY DEF ModelInv, Steady
<1> QED
  BY <1>2, <1>5, <1>6, <1>7, <1>8, <1>9 DEF ModelInv

LEMMA ModelInvStep ==
  ASSUME Inv1, ModelInv, CountInv, [Next]_vars
  PROVE  ModelInv'
<1> SUFFICES ASSUME policy = "tilesight"  PROVE ModelInv'
  <2>1. policy' = policy
    BY DEF Next, vars, Propose, GenerationEnds, Model, Repair, ModelEnds, Select,
           ModelRepair, Measure, MeasureEnds, ProfileAll, Milestone, RoundEnds,
           Crash, OutOfTime, Down, Resume
  <2> QED
    BY <2>1 DEF ModelInv
<1>0. /\ TypeInv /\ CandidatesInv /\ StageInv /\ pc \in Stages
      /\ todo \in SUBSET Known /\ queue \in SUBSET Known /\ ids \in SUBSET Known
      /\ saved.ids \in SUBSET Known /\ saved.phase \in Phases
  BY DEF Inv1, TypeInv
<1>s. saved \in [phase : Phases, round : Nat, ids : SUBSET Known,
                 repairs : 0..MaxRepairs, observations : Seq(Observation),
                 lessons : SUBSET (Known \X LessonKinds)]
  BY DEF Inv1, TypeInv
<1>r. /\ Running => saved.phase = PhaseOf(pc) /\ saved.ids \subseteq ids
      /\ saved.phase = "" => saved.ids = {}
      /\ todo \subseteq ids
      /\ \A c \in ids \cup saved.ids : records[c].generation = round
  BY <1>0 DEF StageInv
<1>m6. \A c \in Known : records[c].kind = "proposal" /\ records[c].measured =>
                        records[c].modelled
  BY DEF ModelInv
<1>m7. \A c \in Known : /\ records[c].generation = round /\ records[c].measured
                        /\ ~records[c].modelled /\ forgotten = 0
                        => saved.phase \in {"selected", "measured"}
  BY DEF ModelInv
<1>m. /\ pc = "model" => \A c \in ids : records[c].modelled \/ c \in todo
      /\ saved.phase = "modeled" => \A c \in saved.ids : records[c].modelled
      /\ saved.phase \in {"modeled", "selected", "measured"} =>
           /\ \A c \in InRound("proposal") : Covered(c)
           /\ \A c \in saved.ids : records[c].kind = "proposal" => records[c].modelled
      /\ saved.phase = "generated" =>
           /\ \A c \in InRound("proposal") : Covered(c) \/ c \in saved.ids
           /\ \A c \in saved.ids : records[c].modelled \/ records[c].failure = "none"
      /\ pc = "model" =>
           \A c \in ids : records[c].modelled \/ records[c].failure = "none"
      /\ \A c \in Known : records[c].kind = "proposal" /\ records[c].measured =>
                            records[c].modelled
      /\ \A c \in Known : /\ records[c].generation = round /\ records[c].measured
                          /\ ~records[c].modelled /\ forgotten = 0
                          => saved.phase \in {"selected", "measured"}
  BY DEF ModelInv
<1>1. ASSUME NEW parent \in {Seed, Incumbent}, NEW failure \in {"none", "static"},
             Propose(parent, failure)
      PROVE  ModelInv'
  <2>1. parent \in Known /\ failure \in Failures
    BY <1>0, IncumbentKnown DEF TypeInv, Failures
  <2>2. Added(parent, "proposal", failure)
    BY <1>0, <1>1, <2>1, AddedFacts DEF Propose
  <2>3. /\ pc' = "generate" /\ pc = "generate"
        /\ Persist \/ UNCHANGED saved
        /\ UNCHANGED <<round, forgotten>>
    BY <1>1 DEF Propose, bounds
  <2>4. saved'.phase = "" /\ saved.phase = ""
    <3>1. saved.phase = ""
      BY <1>r, <2>3 DEF Running, PhaseOf
    <3>2. CASE Persist
      BY <1>s, <3>1, <3>2 DEF Persist
    <3>3. CASE UNCHANGED saved
      BY <3>1, <3>3
    <3> QED
      BY <2>3, <3>1, <3>2, <3>3
  <2>5. \A d \in Known' : \/ d \in Known /\ records'[d] = records[d]
                          \/ ~records'[d].measured
    BY <2>2 DEF Added, Proposed
  <2> QED
    <3>1. \A d \in Known' : records'[d].kind = "proposal" /\ records'[d].measured =>
                              records'[d].modelled
      BY <1>m6, <2>5
    <3>2. \A d \in Known' : ~(/\ records'[d].generation = round /\ records'[d].measured
                              /\ ~records'[d].modelled /\ forgotten = 0)
      <4>1. saved.phase \notin {"selected", "measured"}
        BY <2>4
      <4>2. ASSUME NEW d \in Known', records'[d].generation = round,
                   records'[d].measured, ~records'[d].modelled, forgotten = 0
            PROVE  FALSE
        <5>1. d \in Known /\ records'[d] = records[d]
          BY <2>5, <4>2
        <5> QED
          BY <1>m7, <4>1, <4>2, <5>1
      <4> QED
        BY <4>2
    <3> QED
      BY <2>3, <2>4, <3>1, <3>2 DEF ModelInv
<1>2. ASSUME NEW c \in Known, Model(c)
      PROVE  ModelInv'
  <2>1. /\ UNCHANGED <<round, pc, ids, saved, forgotten>> /\ pc = "model"
        /\ c \in todo /\ todo' = todo \ {c}
    BY <1>2 DEF Model, Walked, bounds
  <2>2. Steady /\ Known' = Known
    BY <1>0, <1>2, ModelledSteady
  <2>3. saved.phase = "generated"
    BY <1>r, <2>1 DEF Running, PhaseOf
  <2>4. CASE records[c].modelled
    <3>1. records' = records
      BY <1>2, <2>4 DEF Model
    <3> QED
      BY <1>m, <2>1, <2>3, <2>4, <3>1 DEF ModelInv, InRound, Known, Covered
  <2>5. CASE ~records[c].modelled
    <3>0. PICK model \in Models, failure \in {"none", "model", "infrastructure"} :
            Modelled(c, model, failure)
      BY <1>2, <2>5 DEF Model
    <3>1. ModelStep(c)
      BY <1>0, <3>0, ModelStepFacts
    <3>2. /\ \A d \in Known : d # c => records'[d] = records[d]
          /\ records'[c].modelled /\ records'[c].measured = records[c].measured
          /\ records'[c].generation = records[c].generation
      BY <3>1 DEF ModelStep, Only
    <3>3. InRound("proposal")' = InRound("proposal")
      BY <2>1, <2>2, InRoundKept
    <3>4. \A d \in Known : Covered(d) => Covered(d)'
      BY <3>2 DEF Covered
    <3>5. InRound("proposal") \subseteq Known
      BY DEF InRound
    <3>6. \A d \in InRound("proposal") : Covered(d)' \/ d \in saved.ids
      BY <1>m, <2>3, <3>4, <3>5
    <3>7. \A d \in ids : records'[d].modelled \/ records'[d].failure = "none"
      BY <1>0, <1>m, <2>1, <3>2
    <3>8. \A d \in ids : records'[d].modelled \/ d \in todo'
      BY <1>0, <1>m, <2>1, <3>2
    <3>9. \A d \in saved.ids : records'[d].modelled \/ records'[d].failure = "none"
      BY <1>0, <1>m, <2>3, <3>2
    <3>10. \A d \in Known : records'[d].kind = "proposal" /\ records'[d].measured =>
                              records'[d].modelled
      BY <1>m, <3>2
    <3>11. \A d \in Known : ~(/\ records'[d].generation = round /\ records'[d].measured
                              /\ ~records'[d].modelled /\ forgotten = 0)
      <4>1. saved.phase \notin {"selected", "measured"}
        BY <2>3
      <4>2. ASSUME NEW d \in Known, records'[d].generation = round,
                   records'[d].measured, ~records'[d].modelled, forgotten = 0
            PROVE  FALSE
        <5>1. d # c
          BY <3>2, <4>2
        <5>2. records'[d] = records[d]
          BY <3>2, <5>1
        <5> QED
          BY <1>m7, <4>1, <4>2, <5>2
      <4> QED
        BY <4>2
    <3> HIDE DEF InRound
    <3> QED
      BY <2>1, <2>2, <2>3, <3>3, <3>6, <3>7, <3>8, <3>9, <3>10, <3>11 DEF ModelInv
  <2> QED
    BY <2>4, <2>5
<1>3. ASSUME NEW c \in Known, ModelRepair(c)
      PROVE  ModelInv'
  <2>1. /\ UNCHANGED <<round, ids, saved, forgotten>> /\ pc = "model-repair"
        /\ pc' = "measure"
    BY <1>3 DEF ModelRepair, bounds
  <2>2. Steady /\ Known' = Known
    BY <1>0, <1>3, ModelledSteady
  <2>a. PICK model \in Models, failure \in {"none", "model", "infrastructure"} :
          Modelled(c, model, failure)
    BY <1>3 DEF ModelRepair
  <2>3. ModelStep(c)
    BY <1>0, <2>a, ModelStepFacts
  <2>4. saved.phase = "selected"
    BY <1>r, <2>1 DEF Running, PhaseOf
  <2>5. /\ \A d \in Known : d # c => records'[d] = records[d]
        /\ records'[c].modelled
    BY <2>3 DEF ModelStep, Only
  <2>6. InRound("proposal")' = InRound("proposal")
    BY <2>1, <2>2, InRoundKept
  <2>7. \A d \in InRound("proposal") : Covered(d)'
    BY <1>m, <2>4, <2>5 DEF Covered, InRound
  <2>8. \A d \in saved.ids : records'[d].kind = "proposal" => records'[d].modelled
    BY <1>0, <1>m, <2>4, <2>5
  <2>9. \A d \in Known : records'[d].kind = "proposal" /\ records'[d].measured =>
                           records'[d].modelled
    BY <1>m, <2>5
  <2> HIDE DEF InRound
  <2> QED
    BY <2>1, <2>2, <2>4, <2>6, <2>7, <2>8, <2>9 DEF ModelInv
<1>4. ASSUME NEW c \in Known, Measure(c)
      PROVE  ModelInv'
  <2>1. /\ UNCHANGED <<round, pc, ids, saved, forgotten>> /\ pc = "measure"
        /\ c \in ids
    BY <1>4, <1>r DEF Measure, bounds
  <2>2. MeasureStep(c) /\ Steady /\ Known' = Known
    BY <1>0, <1>4, MeasureStepFacts, OnlySteady DEF MeasureStep
  <2>3. saved.phase = "selected"
    BY <1>r, <2>1 DEF Running, PhaseOf
  <2>4. /\ \A d \in Known : d # c => records'[d] = records[d]
        /\ records'[c].modelled = records[c].modelled
        /\ records'[c].kind = records[c].kind
    BY <2>2 DEF MeasureStep, Only
  <2>5. records[c].kind = "proposal" => records[c].modelled
    BY <1>0, <1>m, <2>1, <2>3 DEF StageInv, Running
  <2>6. InRound("proposal")' = InRound("proposal")
    BY <2>1, <2>2, InRoundKept
  <2>7. \A d \in InRound("proposal") : Covered(d)'
    <3>1. \A d \in InRound("proposal") :
            d \in Known /\ records[d].kind = "proposal" /\ Covered(d)
      BY <1>m, <2>3 DEF InRound
    <3> QED
      BY <2>4, <2>5, <3>1 DEF Covered
  <2>8. \A d \in saved.ids : records'[d].kind = "proposal" => records'[d].modelled
    BY <1>0, <1>m, <2>3, <2>4
  <2>9. \A d \in Known : records'[d].kind = "proposal" /\ records'[d].measured =>
                           records'[d].modelled
    BY <1>m, <2>4, <2>5
  <2> HIDE DEF InRound
  <2> QED
    BY <2>1, <2>2, <2>3, <2>6, <2>7, <2>8, <2>9 DEF ModelInv
<1>5. ASSUME NEW c \in Known, Profiled(c), UNCHANGED <<policy, round, saved, forgotten>>,
             pc' # "model"
      PROVE  ModelInv'
  <2>1. ProfileStep(c) /\ Steady /\ Known' = Known
    BY <1>0, <1>5, ProfileStepFacts, OnlySteady DEF ProfileStep
  <2>2. \A d \in Known : /\ records'[d].modelled = records[d].modelled
                         /\ records'[d].measured = records[d].measured
                         /\ records'[d].failure = records[d].failure
    BY <2>1 DEF ProfileStep, Only
  <2> QED
    BY <1>0, <1>5, <2>1, <2>2, ModelKept
<1>6. ASSUME NEW c \in Known, Repair(c)
      PROVE  ModelInv'
  <2>1. /\ UNCHANGED <<round, forgotten>> /\ Persist
        /\ pc \in {"model", "measure"} /\ pc' \in {pc, Repaired}
    BY <1>6 DEF Repair, CanRepair, bounds
  <2>2. saved'.phase = saved.phase /\ saved'.ids = saved.ids
    BY <1>s, <2>1 DEF Persist
  <2>3. CASE UNCHANGED <<pc, records, todo, ids>>
    BY <1>m, <2>1, <2>2, <2>3 DEF ModelInv, InRound, Known, Covered
  <2>4. CASE ~UNCHANGED <<pc, records, todo, ids>>
    <3>1. /\ records' = Append(records, Proposed(round, c, "repair", "none"))
          /\ todo' = {Len(records')} /\ ids' = ids \cup todo'
      BY <1>6, <2>4 DEF Repair
    <3>2. Added(c, "repair", "none")
      BY <1>0, <3>1, AddedFacts DEF Failures
    <3> DEFINE new == Len(records) + 1
    <3>3. /\ Known' = Known \cup {new} /\ new \notin Known
          /\ \A d \in Known : records'[d] = records[d]
          /\ ~records'[new].measured /\ records'[new].failure = "none"
          /\ todo' = {new} /\ ids' = ids \cup {new}
      <4>1. /\ Known' = Known \cup {new} /\ new \notin Known /\ Len(records') = new
            /\ \A d \in Known : records'[d] = records[d]
            /\ records'[new] = Proposed(round, c, "repair", "none")
        BY <3>2 DEF Added
      <4> HIDE DEF new
      <4>2. ~records'[new].measured /\ records'[new].failure = "none"
        BY <4>1 DEF Proposed
      <4>3. todo' = {new} /\ ids' = ids \cup {new}
        BY <3>1, <4>1
      <4> QED
        BY <4>1, <4>2, <4>3
    <3> HIDE DEF new
    <3>4. InRound("proposal")' = InRound("proposal")
      BY <2>1, <3>2, InRoundRepair
    <3>5. \A d \in InRound("proposal") : Covered(d)' <=> Covered(d)
      BY <3>3 DEF InRound, Covered
    <3>6. pc' = "model" => pc = "model" /\ todo = {}
      BY <1>6, <2>1 DEF Repaired, Repair, CanRepair
    <3>7. pc' = "model" =>
            /\ \A d \in ids' : records'[d].modelled \/ d \in todo'
            /\ \A d \in ids' : records'[d].modelled \/ records'[d].failure = "none"
      BY <1>0, <1>m, <3>3, <3>6
    <3>8. saved.phase = "modeled" => \A d \in saved.ids : records'[d].modelled
      BY <1>0, <1>m, <3>3
    <3>9. saved.phase \in {"modeled", "selected", "measured"} =>
            /\ \A d \in InRound("proposal") : Covered(d)'
            /\ \A d \in saved.ids : records'[d].kind = "proposal" => records'[d].modelled
      BY <1>0, <1>m, <3>3, <3>5
    <3>10. saved.phase = "generated" =>
             /\ \A d \in InRound("proposal") : Covered(d)' \/ d \in saved.ids
             /\ \A d \in saved.ids : records'[d].modelled \/ records'[d].failure = "none"
      BY <1>0, <1>m, <3>3, <3>5
    <3>11. \A d \in Known' : records'[d].kind = "proposal" /\ records'[d].measured =>
                               records'[d].modelled
      BY <1>m, <3>3
    <3>12. \A d \in Known' : /\ records'[d].generation = round /\ records'[d].measured
                             /\ ~records'[d].modelled /\ forgotten = 0
                             => saved.phase \in {"selected", "measured"}
      BY <1>m, <3>3
    <3> HIDE DEF InRound, Covered
    <3> QED
      BY <2>1, <2>2, <3>4, <3>7, <3>8, <3>9, <3>10, <3>11, <3>12 DEF ModelInv
  <2> QED
    BY <2>3, <2>4
<1>7. CASE GenerationEnds
  <2>1. /\ UNCHANGED <<round, records, forgotten>> /\ pc = "generate" /\ pc' = "model"
        /\ ids' = Generated /\ todo' = ids'
        /\ Checkpoint("generated", ids', memory, repairs)
    BY <1>7 DEF GenerationEnds, bounds
  <2>2. saved'.phase = "generated" /\ saved'.ids = Generated
    BY <2>1, CheckpointFields
  <2>3. \A d \in Generated : records[d].failure = "none"
    BY DEF Generated
  <2>4. \A d \in InRound("proposal") : Covered(d) \/ d \in Generated
    BY DEF InRound, Covered, Generated
  <2>5. saved.phase = ""
    BY <1>r, <2>1 DEF Running, PhaseOf
  <2>6. InRound("proposal")' = InRound("proposal")
    BY <2>1 DEF InRound, Known
  <2>7. \A d : Covered(d)' <=> Covered(d)
    BY <2>1 DEF Covered
  <2> HIDE DEF InRound, Covered, Generated
  <2> QED
    BY <1>m, <2>1, <2>2, <2>3, <2>4, <2>5, <2>6, <2>7 DEF ModelInv, Known
(* Steps that leave the archive alone.                                     *)
<1>8. ASSUME UNCHANGED <<records, round>>, pc' # "model",
             forgotten # 0 => forgotten' # 0,
             saved'.phase = "modeled" =>
               \A c \in saved'.ids : records[c].modelled,
             saved'.phase \in {"modeled", "selected", "measured"} =>
               /\ \A c \in InRound("proposal") : Covered(c)
               /\ \A c \in saved'.ids :
                    records[c].kind = "proposal" => records[c].modelled,
             saved'.phase = "generated" =>
               /\ saved.phase = "generated" /\ saved.ids \subseteq saved'.ids
               /\ \A c \in saved'.ids :
                    records[c].modelled \/ records[c].failure = "none",
             \/ saved'.phase = saved.phase \/ saved'.phase \in {"selected", "measured"}
             \/ forgotten' # 0 \/ saved.phase \notin {"selected", "measured"}
      PROVE  ModelInv'
  <2>1. InRound("proposal")' = InRound("proposal")
    BY <1>8 DEF InRound, Known
  <2>2. \A d : Covered(d)' <=> Covered(d)
    BY <1>8 DEF Covered
  <2> HIDE DEF InRound, Covered
  <2> QED
    BY <1>m, <1>8, <2>1, <2>2 DEF ModelInv, Known
<1>9. CASE ModelEnds
  <2>1. /\ UNCHANGED <<records, round, forgotten>> /\ pc = "model" /\ pc' = "select"
        /\ todo = {} /\ Checkpoint("modeled", ids, memory, repairs)
    BY <1>9 DEF ModelEnds, Save, NoRepair, bounds
  <2>2. saved'.phase = "modeled" /\ saved'.ids = ids /\ saved.phase = "generated"
    BY <1>r, <2>1, CheckpointFields DEF Running, PhaseOf
  <2>3. \A d \in ids : records[d].modelled
    BY <1>m, <2>1
  <2>4. \A d \in InRound("proposal") : Covered(d)
    BY <1>m, <1>r, <2>1, <2>2, <2>3 DEF Covered, Running
  <2> HIDE DEF InRound, Covered
  <2> QED
    BY <1>8, <2>1, <2>2, <2>3, <2>4
<1>10. CASE Select
  <2>1. /\ UNCHANGED <<records, round, forgotten>> /\ pc = "select" /\ pc' = "measure"
        /\ ids' \subseteq ids /\ Checkpoint("selected", ids', memory, repairs)
    BY <1>10 DEF Select, Promotable, bounds
  <2>2. saved'.phase = "selected" /\ saved'.ids = ids' /\ saved.phase = "modeled"
    BY <1>r, <2>1, CheckpointFields DEF Running, PhaseOf
  <2>3. ids = saved.ids
    BY <1>0, <2>1 DEF StageInv
  <2> HIDE DEF InRound, Covered
  <2> QED
    BY <1>8, <1>m, <2>1, <2>2, <2>3
<1>11. ASSUME UNCHANGED <<records, round, forgotten>>, pc' # "model", Running,
              saved.phase = "selected", Checkpoint("measured", ids, memory, repairs)
       PROVE  ModelInv'
  <2>1. saved'.phase = "measured" /\ saved'.ids = ids
    BY <1>11, CheckpointFields
  <2>2. \A d \in ids : records[d].kind = "proposal" => records[d].modelled
    BY <1>0, <1>m, <1>11 DEF StageInv
  <2> HIDE DEF InRound, Covered
  <2> QED
    BY <1>8, <1>m, <1>11, <2>1, <2>2
<1>12. CASE MeasureEnds
  <2>1. CASE policy = "ncu"
    BY <2>1
  <2>2. CASE policy # "ncu"
    BY <1>r, <1>11, <1>12, <2>2 DEF MeasureEnds, Save, bounds, Running, PhaseOf
  <2> QED
    BY <2>1, <2>2
<1>13. CASE ProfileAll
  <2>1. CASE todo = {}
    BY <1>r, <1>11, <1>13, <2>1 DEF ProfileAll, Save, bounds, Running, PhaseOf
  <2>2. CASE todo # {}
    BY <1>0, <1>5, <1>13, <2>2 DEF ProfileAll, bounds
  <2> QED
    BY <2>1, <2>2
<1>14. CASE Milestone
  BY <1>5, <1>14 DEF Milestone, bounds
<1>15. CASE RoundEnds
  <2>1. /\ round' = round + 1 /\ records' = records /\ forgotten' = forgotten
        /\ pc' \in {"generate", "over"} /\ saved'.phase = "" /\ saved'.ids = {}
    BY <1>15 DEF RoundEnds, bounds
  <2>2. \A d \in Known : records[d].generation # round + 1
    <3>1. \A d \in Known : /\ records[d].generation <= round
                           /\ records[d].generation \in Nat
      BY <1>0, KnownIs DEF CandidatesInv, Sane, Candidate
    <3> QED
      BY <1>0, <3>1, RoundIs
  <2> QED
    BY <1>m, <2>1, <2>2 DEF ModelInv, Known
<1>16. CASE Crash
  <2>1. UNCHANGED <<records, round, saved, forgotten>> /\ pc' = "down"
    BY <1>16 DEF Crash, Down
  <2> HIDE DEF InRound, Covered
  <2> QED
    BY <1>8, <1>m, <2>1
<1>17. CASE OutOfTime
  <2>1. /\ UNCHANGED <<records, round>> /\ pc' = "down" /\ Running
        /\ pc # "select"
    BY <1>17 DEF OutOfTime, Down
  <2>2. CASE Checkpoint(saved.phase, ids, memory, repairs) /\ forgotten' = forgotten
    <3>1. saved'.phase = saved.phase /\ saved'.ids = ids
      BY <2>2, CheckpointFields
    <3>2. saved.phase = "generated" => pc = "model"
      BY <1>0, <1>r, <2>1 DEF PhaseOf, Stages, Running
    <3>3. saved.phase # "modeled"
      BY <1>0, <1>r, <2>1 DEF PhaseOf, Stages, Running
    <3>4. saved.phase \in {"selected", "measured"} =>
            \A d \in ids : records[d].kind = "proposal" => records[d].modelled
      BY <1>0, <1>m, <2>1 DEF StageInv
    <3> HIDE DEF InRound, Covered
    <3> QED
      BY <1>8, <1>m, <1>r, <2>1, <2>2, <3>1, <3>2, <3>3, <3>4
  <2>3. CASE Checkpoint("", {}, memory, repairs) /\ forgotten' = round
    <3>1. saved'.phase = "" /\ saved'.ids = {}
      BY <2>3, CheckpointFields
    <3> HIDE DEF InRound, Covered
    <3>2. round # 0
      BY <1>0, RoundIs
    <3> QED
      BY <1>8, <2>1, <2>3, <3>1, <3>2
  <2> QED
    BY <1>17, <2>2, <2>3 DEF OutOfTime, Save
<1>18. CASE Resume
  <2>1. /\ UNCHANGED <<records, round, saved, forgotten>> /\ ids' = saved.ids
        /\ pc' = Stage(saved.phase)
        /\ todo' = IF pc' \in {"model", "measure"} THEN saved.ids ELSE {}
    BY <1>18 DEF Resume, bounds
  <2>2. CASE pc' # "model"
    <3> HIDE DEF InRound, Covered
    <3> QED
      BY <1>8, <1>m, <2>1, <2>2
  <2>3. CASE pc' = "model"
    <3>1. saved.phase = "generated" /\ todo' = saved.ids
      BY <1>0, <2>1, <2>3 DEF Stage, Phases
    <3>2. InRound("proposal")' = InRound("proposal")
      BY <2>1 DEF InRound, Known
    <3>3. \A d : Covered(d)' <=> Covered(d)
      BY <2>1 DEF Covered
    <3> HIDE DEF InRound, Covered
    <3> QED
      BY <1>m, <2>1, <3>1, <3>2, <3>3 DEF ModelInv, Known
  <2> QED
    BY <2>2, <2>3
<1>19. CASE UNCHANGED vars
  <2>1. UNCHANGED <<records, round, saved, forgotten, pc, ids, todo>>
    BY <1>19 DEF vars, bounds
  <2>2. InRound("proposal")' = InRound("proposal")
    BY <2>1 DEF InRound, Known
  <2>3. \A d : Covered(d)' <=> Covered(d)
    BY <2>1 DEF Covered
  <2> HIDE DEF InRound, Covered
  <2> QED
    BY <1>m, <2>1, <2>2, <2>3 DEF ModelInv, Known
<1> QED
  BY <1>1, <1>2, <1>3, <1>4, <1>6, <1>7, <1>9, <1>10, <1>12, <1>13, <1>14,
     <1>15, <1>16, <1>17, <1>18, <1>19 DEF Next

LEMMA InitTrust == Init => TrustInv
<1> SUFFICES ASSUME Init  PROVE TrustInv
  OBVIOUS
<1>1. memory.trust = <<>> /\ Len(records) = 1
  <2>1. PICK r : records = <<r>>
    BY DEF Init
  <2>2. Len(records) = 1
    BY <2>1
  <2> QED
    BY <2>2 DEF Init
<1>2. TrustOf(records) = <<>>
  <2>1. Len(records) \in Nat /\ Len(records) <= Seed
    BY <1>1 DEF Seed
  <2>2. PICK f : /\ \A c \in 0..Len(records) : c <= Seed => f[c] = <<>>
                 /\ TrustOf(records) = f[Len(records)]
    BY <2>1, TrustSteps
  <2> QED
    BY <2>1, <2>2
<1> QED
  BY <1>1, <1>2 DEF TrustInv

LEMMA TrustStep ==
  ASSUME Inv1, ModelInv, TrustInv, [Next]_vars
  PROVE  TrustInv'
<1>0. /\ TypeInv /\ CandidatesInv /\ StageInv
      /\ todo \in SUBSET Known /\ ids \in SUBSET Known
      /\ records \in Seq(Candidate)
  BY DEF Inv1, TypeInv
<1>1. \A d \in Known : ~records[d].measured \/ ~records[d].modelled =>
                         ~Ranked(d, records)
  <2>1. \A d \in Known : records[d].latency \in Nat
    BY <1>0, KnownIs DEF Candidate
  <2> QED
    BY <1>0, <2>1 DEF CandidatesInv, Sane, Ranked
<1>2. memory' = [memory EXCEPT !.lessons = memory'.lessons] =>
        memory'.trust = memory.trust
  BY <1>0 DEF TypeInv
(* A step that changes no rank keeps the trust of the archive.             *)
<1>3. ASSUME Known \subseteq Known', records' \in Seq(Candidate),
             \A d \in Known : Reranks(d),
             \A d \in Known' \ Known : ~Ranked(d, records'),
             memory'.trust = memory.trust, memory.trust = TrustOf(records)
      PROVE  TrustInv'
  BY <1>0, <1>3, TrustKept DEF TrustInv
<1>4. Running /\ pc \notin {"model", "select"} /\ (pc = "measure" => todo = {})
        => memory.trust = TrustOf(records)
  BY DEF TrustInv, Overtaken
<1>5. ASSUME UNCHANGED records, memory'.trust = memory.trust,
             Running, pc \notin {"model", "select"}, pc = "measure" => todo = {}
      PROVE  TrustInv'
  BY <1>4, <1>5 DEF TrustInv
<1>6. ASSUME NEW parent, NEW kind, NEW failure, Added(parent, kind, failure)
      PROVE  /\ Known \subseteq Known' /\ records' \in Seq(Candidate)
             /\ \A d \in Known : Reranks(d) /\ records'[d] = records[d]
             /\ \A d \in Known' \ Known : ~Ranked(d, records')
  <2> DEFINE new == Len(records) + 1
  <2>1. /\ records' \in Seq(Candidate) /\ Known' = Known \cup {new}
        /\ \A d \in Known : records'[d] = records[d]
        /\ records'[new] = Proposed(round, parent, kind, failure)
    BY <1>6 DEF Added
  <2> HIDE DEF new
  <2>2. ~Ranked(new, records')
    BY <2>1 DEF Proposed, Ranked, Correct
  <2>3. \A d \in Known : Reranks(d)
    BY <2>1 DEF Reranks, Ranked, Correct
  <2> QED
    BY <2>1, <2>2, <2>3
<1>7. ASSUME NEW parent \in {Seed, Incumbent}, NEW failure \in {"none", "static"},
             Propose(parent, failure)
      PROVE  TrustInv'
  <2>1. parent \in Known /\ failure \in Failures
    BY <1>0, IncumbentKnown DEF TypeInv, Failures
  <2>2. Added(parent, "proposal", failure)
    BY <1>0, <1>7, <2>1, AddedFacts DEF Propose
  <2>3. memory'.trust = memory.trust /\ pc = "generate"
    BY <1>0, <1>7 DEF Propose, TypeInv
  <2> QED
    BY <1>3, <1>4, <1>6, <2>2, <2>3 DEF Running
<1>8. ASSUME NEW c \in Known, Model(c)
      PROVE  TrustInv'
  <2>1. pc = "model" /\ UNCHANGED <<pc, ids>> /\ c \in ids /\ Running
    BY <1>0, <1>8 DEF Model, StageInv, Running
  <2>2. CASE UNCHANGED <<records, memory>>
    BY <2>1, <2>2 DEF TrustInv, Overtaken
  <2>3. CASE ~UNCHANGED <<records, memory>>
    <3>1. PICK model \in Models, failure \in {"none", "model", "infrastructure"} :
            Modelled(c, model, failure)
      BY <1>8, <2>3 DEF Model
    <3>2. ~records[c].modelled /\ policy = "tilesight"
      BY <1>0, <1>8, <2>3, Constants DEF Model, TypeInv
    <3>3. ModelStep(c)
      BY <1>0, <3>1, ModelStepFacts
    <3>4. /\ Known' = Known /\ records' \in Seq(Candidate)
          /\ \A d \in Known : d # c => records'[d] = records[d]
          /\ records'[c].kind = records[c].kind
          /\ records'[c].latency = records[c].latency
          /\ memory'.trust = memory.trust
      BY <3>3 DEF ModelStep, Only
    <3>5. ~Ranked(c, records)
      BY <1>1, <3>2
    <3>6. CASE Ranked(c, records')
      <4>1. Correct(c, records)
        BY <3>4, <3>6 DEF Ranked, Correct
      <4>2. records[c].measured
        BY <1>0, <4>1 DEF CandidatesInv, Sane
      <4>3. records[c].kind = "repair"
        <5>1. records[c].kind # "proposal"
          BY <3>2, <4>2 DEF ModelInv
        <5>2. c # Seed
          BY <1>0, <3>2 DEF CandidatesInv, Sane
        <5>3. records[c].kind # "seed"
          BY <1>0, <5>2 DEF CandidatesInv, Sane
        <5>4. records[c].kind \in {"seed", "proposal", "repair"}
          BY <1>0, KnownIs DEF Candidate
        <5> QED
          BY <5>1, <5>3, <5>4
      <4> QED
        BY <2>1, <3>4, <3>6, <4>3 DEF TrustInv, Overtaken
    <3>7. CASE ~Ranked(c, records')
      <4>1. \A d \in Known : Reranks(d)
        BY <3>4, <3>5, <3>7 DEF Reranks, Ranked, Correct
      <4>2. CASE Overtaken
        <5>1. Overtaken'
          BY <1>0, <2>1, <3>4, <3>5, <4>2 DEF Overtaken, Ranked, Correct
        <5> QED
          BY <5>1 DEF TrustInv
      <4>3. CASE ~Overtaken
        <5>1. memory.trust = TrustOf(records)
          BY <2>1, <4>3 DEF TrustInv
        <5> QED
          BY <1>3, <3>4, <3>7, <4>1, <5>1
      <4> QED
        BY <4>2, <4>3
    <3> QED
      BY <3>6, <3>7
  <2> QED
    BY <2>2, <2>3
<1>9. ASSUME NEW c \in Known, Repair(c)
      PROVE  TrustInv'
  <2>1. /\ pc \in {"model", "measure"} /\ todo = {} /\ memory' = memory
        /\ pc' \in {pc, Repaired} /\ Running
    BY <1>9 DEF Repair, CanRepair, Running
  <2>2. CASE UNCHANGED <<pc, records, todo, ids>>
    BY <2>1, <2>2 DEF TrustInv, Overtaken
  <2>3. CASE ~UNCHANGED <<pc, records, todo, ids>>
    <3>1. /\ records' = Append(records, Proposed(round, c, "repair", "none"))
          /\ ids' = ids \cup todo'
      BY <1>9, <2>3 DEF Repair
    <3>2. Added(c, "repair", "none")
      BY <1>0, <3>1, AddedFacts DEF Failures
    <3>3. CASE Overtaken
      <4>1. pc = "model" /\ pc' = "model"
        BY <2>1, <3>3 DEF Overtaken, Repaired
      <4>2. \A d \in ids : d \in ids' /\ records'[d] = records[d]
        BY <1>0, <1>6, <3>1, <3>2
      <4> QED
        BY <3>3, <4>1, <4>2 DEF TrustInv, Overtaken, Ranked, Correct
    <3>4. CASE ~Overtaken
      <4>1. memory.trust = TrustOf(records)
        BY <2>1, <3>4 DEF TrustInv
      <4> QED
        BY <1>3, <1>6, <2>1, <3>2, <4>1
    <3> QED
      BY <3>3, <3>4
  <2> QED
    BY <2>2, <2>3
<1>10. ASSUME NEW c \in Known, ModelRepair(c)
       PROVE  TrustInv'
  <2>1. pc = "model-repair" /\ c \in todo /\ ~records[c].measured
    BY <1>0, <1>10 DEF ModelRepair, StageInv
  <2>2. PICK model \in Models, failure \in {"none", "model", "infrastructure"} :
          Modelled(c, model, failure)
    BY <1>10 DEF ModelRepair
  <2>3. ModelStep(c)
    BY <1>0, <2>2, ModelStepFacts
  <2>4. /\ Known' = Known /\ records' \in Seq(Candidate)
        /\ \A d \in Known : d # c => records'[d] = records[d]
        /\ records'[c].latency = records[c].latency
        /\ memory'.trust = memory.trust
    BY <2>3 DEF ModelStep, Only
  <2>5. ~Correct(c, records) /\ ~Correct(c, records')
    BY <1>0, <2>1, <2>4 DEF CandidatesInv, Sane, Correct
  <2>6. \A d \in Known : Reranks(d)
    BY <2>4, <2>5 DEF Reranks, Ranked, Correct
  <2> QED
    BY <1>3, <1>4, <2>1, <2>4, <2>6 DEF Running
<1>11. ASSUME NEW c \in Known, Measure(c)
       PROVE  TrustInv'
  <2>1. /\ pc' = "measure" /\ todo' = todo \ {c} /\ c \in todo
        /\ memory'.trust = TrustAfter(c, records')
    BY <1>11 DEF Measure, Walked
  <2>2. CASE todo = {c}
    BY <2>1, <2>2 DEF TrustInv, TrustAfter
  <2>3. CASE todo # {c}
    BY <2>1, <2>3 DEF TrustInv
  <2> QED
    BY <2>2, <2>3
<1>12. ASSUME NEW c \in Known, Profiled(c),
              Running, pc \notin {"model", "select", "measure"}
       PROVE  TrustInv'
  <2>1. ProfileStep(c)
    BY <1>0, <1>12, ProfileStepFacts
  <2>2. /\ Known' = Known /\ records' \in Seq(Candidate)
        /\ \A d \in Known : d # c => records'[d] = records[d]
        /\ records'[c].parent = records[c].parent
        /\ records'[c].model = records[c].model
        /\ records'[c].latency = records[c].latency
        /\ memory'.trust = memory.trust
    BY <2>1 DEF ProfileStep, Only
  <2>3. \A d \in Known : Reranks(d)
    BY <2>2 DEF Reranks, Ranked, Correct
  <2> QED
    BY <1>3, <1>4, <1>12, <2>2, <2>3
<1>13. CASE GenerationEnds
  BY <1>5, <1>13 DEF GenerationEnds, Running
<1>14. CASE ModelEnds
  BY <1>14 DEF ModelEnds, TrustInv, Overtaken, Running, NoRepair
<1>15. CASE Select
  <2>1. /\ pc = "select" /\ pc' = "measure" /\ todo' = ids'
        /\ UNCHANGED <<records, memory>> /\ (ids' = {} => Promotable = {})
    BY <1>15 DEF Select
  <2>2. CASE ids' # {}
    BY <2>1, <2>2 DEF TrustInv
  <2>3. CASE ids' = {}
    <3>1. ~Overtaken
      <4>1. Promotable = {}
        BY <2>1, <2>3
      <4>2. CASE policy = "tilesight"
        BY <4>1, <4>2 DEF Promotable, Overtaken, Ranked
      <4>3. CASE policy = "ncu"
        BY <1>0, <4>3 DEF CandidatesInv, Sane, Overtaken, Ranked
      <4> QED
        BY <1>0, <4>2, <4>3, Constants DEF TypeInv
    <3> QED
      BY <2>1, <3>1 DEF TrustInv, Running
  <2> QED
    BY <2>2, <2>3
<1>16. CASE MeasureEnds
  BY <1>5, <1>16 DEF MeasureEnds, NoRepair, Running
<1>17. CASE ProfileAll
  <2>1. Running /\ pc = "profile-all"
    BY <1>17 DEF ProfileAll, Running
  <2>2. CASE UNCHANGED <<records, memory>>
    BY <1>5, <2>1, <2>2
  <2>3. CASE ~UNCHANGED <<records, memory>>
    BY <1>0, <1>12, <1>17, <2>1, <2>3 DEF ProfileAll
  <2> QED
    BY <2>2, <2>3
<1>18. CASE Milestone
  BY <1>12, <1>18 DEF Milestone, Running
<1>19. CASE RoundEnds
  BY <1>5, <1>19 DEF RoundEnds, EmptyRound, Running
<1>20. CASE Crash \/ OutOfTime
  BY <1>20 DEF Crash, OutOfTime, Down, TrustInv, Running
<1>21. CASE Resume
  BY <1>21 DEF Resume, Restored, TrustInv
<1>22. CASE UNCHANGED vars
  BY <1>22 DEF vars, TrustInv, Overtaken, Running
<1> QED
  BY <1>7, <1>8, <1>9, <1>10, <1>11, <1>13, <1>14, <1>15, <1>16, <1>17, <1>18,
     <1>19, <1>20, <1>21, <1>22 DEF Next

Inv2 == Inv1 /\ Counted /\ ModelInv

LEMMA Inv2Holds == Spec => []Inv2
<1>1. Init => Inv2
  BY InitType, InitStage, InitCount, InitModel DEF Inv1, Inv2
<1>2. Inv2 /\ [Next]_vars => Inv2'
  BY StageStep, TypeStep, CountStep, ModelInvStep DEF Inv1, Inv2, Counted
<1> QED
  BY <1>1, <1>2, PTL DEF Spec

(***************************************************************************)
(* TrustOfArchive for every number of rounds, repairs, crashes and stops:  *)
(* outside of a measurement stage trust is what _rebuild_trust would       *)
(* compute from the archive (controller.py:2326 and 3579).                 *)
(***************************************************************************)
THEOREM TrustIsOfTheArchive == Spec => []TrustOfArchive
<1>1. Init => TrustInv
  BY InitTrust
<1>2. Inv2 /\ TrustInv /\ [Next]_vars => TrustInv'
  BY TrustStep DEF Inv2
<1>3. TrustInv => TrustOfArchive
  BY DEF TrustInv, TrustOfArchive, Measuring
<1> QED
  BY <1>1, <1>2, <1>3, Inv2Holds, PTL DEF Spec

-----------------------------------------------------------------------------
(* Lessons *)

LEMMA LessonOf ==
  ASSUME NEW c, NEW rs, NEW lessons, rs[c].failure \in Failures,
         rs[c].failure # "infrastructure",
         rs[c].failure = "none" => Correct(c, rs)
  PROVE  Taught(lessons \cup Lesson(c, rs), c)
<1>1. \E lesson \in Lesson(c, rs) : lesson[1] = c
  <2>1. CASE rs[c].failure # "none"
    <3>1. Lesson(c, rs) = {<<c, "failure">>}
      BY <2>1 DEF Lesson
    <3> QED
      BY <3>1
  <2>2. CASE rs[c].failure = "none" /\ rs[c].profile = "valid"
    <3>1. Lesson(c, rs) = {<<c, "hardware-profile">>}
      BY <2>2 DEF Lesson
    <3> QED
      BY <3>1
  <2>3. CASE rs[c].failure = "none" /\ rs[c].profile # "valid"
    <3>1. Lesson(c, rs) = {<<c, "measured-outcome">>}
      BY <2>3 DEF Lesson
    <3> QED
      BY <3>1
  <2> QED
    BY <2>1, <2>2, <2>3
<1> QED
  BY <1>1 DEF Taught

LEMMA InitLesson == Init => LessonInv
<1> SUFFICES ASSUME Init  PROVE LessonInv
  OBVIOUS
<1>1. TypeInv /\ CandidatesInv
  BY InitType
<1>2. Known = {Seed}
  <2>1. PICK r : records = <<r>>
    BY DEF Init
  <2>2. Len(records) = 1
    BY <2>1
  <2>3. Known = 1..1
    BY <1>1, <2>2, KnownIs
  <2> QED
    BY <2>3 DEF Seed
<1>3. Correct(Seed, records) /\ records[Seed].failure = "none"
  BY <1>1, <1>2 DEF CandidatesInv, Sane
<1>4. Taught({} \cup Lesson(Seed, records), Seed)
  BY <1>3, LessonOf DEF Failures
<1>5. memory.lessons = Lesson(Seed, records) /\ saved.lessons = memory.lessons
      /\ Running
  BY DEF Init, Running
<1>6. Taught(saved.lessons, Seed) /\ Taught(memory.lessons, Seed)
  BY <1>4, <1>5
<1> QED
  BY <1>2, <1>3, <1>5, <1>6
  DEF LessonInv, LessonsSaved, LessonsOfRun, LessonsLast, Timed

(* What a step of a running process has to show, besides Timed.            *)
LEMMA LessonKept ==
  ASSUME LessonInv, Running, Steady,
         Running' => memory.lessons \subseteq memory'.lessons,
         saved'.lessons \in {saved.lessons, memory.lessons},
         ~Running' => saved'.lessons = memory.lessons,
         crashes' = crashes, forgotten # 0 => forgotten' # 0,
         \A c \in Known' : Lasting(c)' =>
           \/ c \in Known /\ Lasting(c)
           \/ /\ Running' /\ Taught(memory'.lessons, c)
              /\ records'[c].kind # "repair" => Again(c)',
         \A c \in Known :
           /\ Lasting(c) /\ records[c].kind # "repair" /\ forgotten' = 0
           /\ Again(c)
           => Again(c)' \/ Taught(saved'.lessons, c),
         Running' => \A c \in Known :
           /\ Lasting(c) /\ records[c].kind # "repair" /\ forgotten = 0
           /\ Measuring /\ c \in todo
           => Taught(memory'.lessons, c) \/ (Measuring /\ c \in todo)'
  PROVE  LessonsSaved' /\ LessonsOfRun' /\ LessonsLast'
<1>1. saved.lessons \subseteq memory.lessons
  BY DEF LessonInv, LessonsSaved
<1>2. /\ saved.lessons \subseteq saved'.lessons
      /\ Running' => saved'.lessons \subseteq memory'.lessons
  BY <1>1
<1>3. \A c : /\ Taught(saved.lessons, c) => Taught(saved'.lessons, c)
             /\ Running' /\ Taught(memory.lessons, c) => Taught(memory'.lessons, c)
             /\ Taught(memory.lessons, c) /\ ~Running' => Taught(saved'.lessons, c)
  BY <1>2 DEF Taught
<1>4. \A d \in Known : records'[d].kind = records[d].kind
  BY DEF Steady
<1> HIDE DEF Running, Taught, Lasting, Again, Measuring
<1>5. LessonsSaved'
  <2>1. Taught(saved.lessons, Seed)
    BY DEF LessonInv, LessonsSaved
  <2> QED
    BY <1>2, <1>3, <2>1 DEF LessonsSaved
<1>6. LessonsOfRun'
  <2> SUFFICES ASSUME NEW c \in Known', Lasting(c)', crashes = 0
               PROVE  IF Running' THEN Taught(memory'.lessons, c)
                      ELSE Taught(saved'.lessons, c)
    BY DEF LessonsOfRun
  <2>1. CASE c \in Known /\ Lasting(c)
    <3>1. Taught(memory.lessons, c)
      BY <2>1 DEF LessonInv, LessonsOfRun
    <3> QED
      BY <1>3, <3>1
  <2>2. CASE ~(c \in Known /\ Lasting(c))
    BY <2>2
  <2> QED
    BY <2>1, <2>2
<1>7. LessonsLast'
  <2> SUFFICES ASSUME NEW c \in Known', Lasting(c)', records'[c].kind # "repair",
                      forgotten' = 0
               PROVE  /\ Taught(saved'.lessons, c) \/ Again(c)'
                      /\ Running' => \/ Taught(memory'.lessons, c)
                                     \/ (Measuring /\ c \in todo)'
    BY DEF LessonsLast
  <2>1. CASE c \in Known /\ Lasting(c)
    <3>1. records[c].kind # "repair" /\ forgotten = 0
      BY <1>4, <2>1
    <3>2. /\ Taught(saved.lessons, c) \/ Again(c)
          /\ Taught(memory.lessons, c) \/ (Measuring /\ c \in todo)
      BY <2>1, <3>1 DEF LessonInv, LessonsLast
    <3> QED
      BY <1>3, <2>1, <3>1, <3>2
  <2>2. CASE ~(c \in Known /\ Lasting(c))
    BY <2>2
  <2> QED
    BY <2>1, <2>2
<1> QED
  BY <1>5, <1>6, <1>7

(* Most steps do not measure, and keep the checkpoint or start a stage.    *)
LEMMA LessonSame ==
  ASSUME LessonInv, Running, Running', Steady,
         memory.lessons \subseteq memory'.lessons,
         saved'.lessons \in {saved.lessons, memory.lessons},
         crashes' = crashes, forgotten' = forgotten,
         \A c \in Known' : Lasting(c)' => c \in Known /\ Lasting(c),
         \/ saved'.phase = saved.phase /\ saved'.ids = saved.ids
         \/ saved.phase # "selected"
         \/ saved'.lessons = memory.lessons /\ ~(Measuring /\ todo # {}),
         ~(Measuring /\ todo # {}) \/ UNCHANGED <<pc, todo>>
  PROVE  LessonsSaved' /\ LessonsOfRun' /\ LessonsLast'
<1>1. ASSUME NEW c \in Known, Lasting(c), records[c].kind # "repair", forgotten = 0,
             Again(c)
      PROVE  Again(c)' \/ Taught(saved'.lessons, c)
  <2>1. CASE saved'.phase = saved.phase /\ saved'.ids = saved.ids
    BY <1>1, <2>1 DEF Again
  <2>2. CASE saved.phase # "selected"
    BY <1>1, <2>2 DEF Again
  <2>3. CASE saved'.lessons = memory.lessons /\ ~(Measuring /\ todo # {})
    <3>1. Taught(memory.lessons, c)
      BY <1>1, <2>3 DEF LessonInv, LessonsLast
    <3> QED
      BY <2>3, <3>1
  <2> QED
    BY <2>1, <2>2, <2>3
<1>2. \A c \in Known : Measuring /\ c \in todo => (Measuring /\ c \in todo)'
  BY DEF Measuring
<1> HIDE DEF Running, Taught, Lasting, Again, Measuring
<1> QED
  BY <1>1, <1>2, LessonKept

LEMMA LessonStep ==
  ASSUME Inv1, ModelInv, LessonInv, [Next]_vars
  PROVE  LessonInv'
<1>0. /\ TypeInv /\ CandidatesInv /\ StageInv /\ pc \in Stages
      /\ todo \in SUBSET Known /\ ids \in SUBSET Known /\ todo \subseteq ids
  BY DEF Inv1, TypeInv, StageInv
<1>s. /\ saved \in [phase : Phases, round : Nat, ids : SUBSET Known,
                    repairs : 0..MaxRepairs, observations : Seq(Observation),
                    lessons : SUBSET (Known \X LessonKinds)]
      /\ memory.lessons = memory.lessons
  BY <1>0 DEF TypeInv
<1>r. Running => /\ saved.phase = PhaseOf(pc) /\ saved.ids \subseteq ids
                 /\ saved.lessons \subseteq memory.lessons
  BY <1>0 DEF StageInv, LessonInv, LessonsSaved
<1>l. LessonsSaved /\ LessonsOfRun /\ LessonsLast /\ Timed
  BY DEF LessonInv
<1>p. Persist => /\ saved'.phase = saved.phase /\ saved'.ids = saved.ids
                 /\ saved'.lessons = memory.lessons
  BY <1>s DEF Persist
(* Steps that leave the archive alone, but for new candidates.             *)
<1>1. ASSUME Known \subseteq Known', \A d \in Known : records'[d] = records[d],
             \A d \in Known' \ Known : ~records'[d].measured
      PROVE  /\ Steady /\ Timed'
             /\ \A d \in Known' : Lasting(d)' => d \in Known /\ Lasting(d)
  <2>1. Steady
    BY <1>1 DEF Steady
  <2>2. \A d \in Known' : d \in Known \/ ~records'[d].measured
    BY <1>1
  <2>3. Timed'
    BY <1>1, <1>l, <2>2 DEF Timed, Correct
  <2>4. \A d \in Known' : Lasting(d)' => d \in Known /\ Lasting(d)
    BY <1>1, <2>2 DEF Lasting
  <2> QED
    BY <2>1, <2>3, <2>4
<1>2. ASSUME UNCHANGED records
      PROVE  /\ Steady /\ Timed'
             /\ \A d \in Known' : Lasting(d)' => d \in Known /\ Lasting(d)
  BY <1>1, <1>2 DEF Known
<1>3. ASSUME UNCHANGED <<records, memory, crashes, forgotten>>, Running, Running',
             saved'.lessons \in {saved.lessons, memory.lessons},
             ~(Measuring /\ todo # {}),
             saved.phase # "selected" \/ saved'.lessons = memory.lessons
      PROVE  LessonInv'
  BY <1>2, <1>3, <1>l, LessonSame DEF LessonInv
<1>4. ASSUME NEW parent \in {Seed, Incumbent}, NEW failure \in {"none", "static"},
             Propose(parent, failure)
      PROVE  LessonInv'
  <2>1. parent \in Known /\ failure \in Failures
    BY <1>0, IncumbentKnown DEF TypeInv, Failures
  <2>2. Added(parent, "proposal", failure)
    BY <1>0, <1>4, <2>1, AddedFacts DEF Propose
  <2>3. /\ pc = "generate" /\ pc' = "generate" /\ UNCHANGED <<crashes, forgotten>>
        /\ memory.lessons \subseteq memory'.lessons
        /\ Persist \/ UNCHANGED saved
    <3>1. memory'.lessons = memory.lessons \cup Lesson(Len(records'), records')
      BY <1>0, <1>4 DEF Propose, Remember, TypeInv
    <3> QED
      BY <1>4, <3>1 DEF Propose, bounds
  <2>4. /\ Known \subseteq Known' /\ \A d \in Known : records'[d] = records[d]
        /\ \A d \in Known' \ Known : ~records'[d].measured
    BY <2>2 DEF Added, Proposed
  <2>5. saved.phase # "selected" /\ Running /\ Running' /\ ~(Measuring /\ todo # {})
    BY <1>r, <2>3 DEF Running, PhaseOf, Measuring
  <2>6. saved'.lessons \in {saved.lessons, memory.lessons}
    BY <1>p, <2>3
  <2> QED
    BY <1>1, <1>l, <2>3, <2>4, <2>5, <2>6, LessonSame DEF LessonInv
<1>5. ASSUME NEW c \in Known, Model(c) \/ ModelRepair(c)
      PROVE  LessonInv'
  <2>1. /\ UNCHANGED <<ids, saved, crashes, forgotten>> /\ Running /\ Running'
        /\ c \in todo
    BY <1>5 DEF Model, ModelRepair, bounds, Running
  <2>2. CASE Model(c) /\ UNCHANGED <<records, memory>>
    <3>1. pc = "model" /\ saved.phase # "selected"
      BY <1>r, <2>1, <2>2 DEF Model, PhaseOf
    <3> QED
      BY <1>3, <2>1, <2>2, <3>1 DEF Measuring
  <2>3. CASE ~(Model(c) /\ UNCHANGED <<records, memory>>)
    <3>1. PICK model \in Models, failure \in {"none", "model", "infrastructure"} :
            Modelled(c, model, failure)
      BY <1>5, <2>3 DEF Model, ModelRepair
    <3>2. ModelStep(c)
      BY <1>0, <3>1, ModelStepFacts
    <3>3. /\ Known' = Known /\ Steady
          /\ \A d \in Known : d # c => records'[d] = records[d]
          /\ records'[c].measured = records[c].measured
          /\ records'[c].latency = records[c].latency
          /\ records'[c].kind = records[c].kind
          /\ records'[c].failure \in {"none", "model", "infrastructure"}
          /\ memory.lessons \subseteq memory'.lessons
      <4>1. memory.lessons \subseteq memory'.lessons
        BY <3>2 DEF ModelStep
      <4> QED
        BY <3>2, <4>1, OnlySteady DEF ModelStep, Only
    <3>4. records[c].measured => records[c].failure = "none"
      <4>1. CASE Model(c)
        <5>1. ~records[c].modelled /\ policy = "tilesight"
          BY <1>0, <2>3, <4>1, Constants DEF Model, TypeInv
        <5>2. pc = "model" /\ c \in ids
          BY <1>0, <4>1 DEF Model
        <5> QED
          BY <5>1, <5>2 DEF ModelInv
      <4>2. CASE ModelRepair(c)
        BY <1>0, <4>2 DEF ModelRepair, StageInv
      <4> QED
        BY <1>5, <4>1, <4>2
    <3>5. \A d \in Known' : Lasting(d)' => d \in Known /\ Lasting(d)
      BY <3>3, <3>4 DEF Lasting
    <3>6. Timed'
      BY <1>l, <3>3, <3>4 DEF Timed, Correct
    <3>7. \/ ~(Measuring /\ todo # {})
          \/ UNCHANGED <<pc, todo>>
          \/ \A d \in Known : d \in todo => records[d].kind = "repair"
      <4>1. CASE Model(c)
        BY <4>1 DEF Model, Measuring
      <4>2. CASE ModelRepair(c)
        BY <1>0, <4>2 DEF ModelRepair, StageInv
      <4> QED
        BY <1>5, <4>1, <4>2
    <3>8. \A d \in Known : Again(d) => Again(d)'
      BY <2>1 DEF Again
    <3>9. Measuring /\ UNCHANGED <<pc, todo>> => (Measuring' /\ todo' = todo)
      BY DEF Measuring
    <3>10. saved'.lessons \in {saved.lessons, memory.lessons}
      BY <2>1
    <3> HIDE DEF Running, Taught, Lasting, Again, Measuring
    <3> QED
      BY <1>l, <2>1, <3>3, <3>5, <3>6, <3>7, <3>8, <3>9, <3>10, LessonKept
      DEF LessonInv
  <2> QED
    BY <2>2, <2>3
<1>6. ASSUME NEW c \in Known, Repair(c)
      PROVE  LessonInv'
  <2>1. /\ pc \in {"model", "measure"} /\ todo = {} /\ memory' = memory
        /\ pc' \in {pc, Repaired} /\ UNCHANGED <<crashes, forgotten>> /\ Persist
    BY <1>6 DEF Repair, CanRepair, bounds
  <2>2. Running /\ Running' /\ ~(Measuring /\ todo # {})
    BY <2>1 DEF Running, Repaired
  <2>3. /\ Steady /\ Timed'
        /\ \A d \in Known' : Lasting(d)' => d \in Known /\ Lasting(d)
    <3>1. CASE UNCHANGED records
      BY <1>2, <3>1
    <3>2. CASE ~UNCHANGED records
      <4>1. records' = Append(records, Proposed(round, c, "repair", "none"))
        BY <1>6, <3>2 DEF Repair
      <4>2. Added(c, "repair", "none")
        BY <1>0, <4>1, AddedFacts DEF Failures
      <4>3. /\ Known \subseteq Known' /\ \A d \in Known : records'[d] = records[d]
            /\ \A d \in Known' \ Known : ~records'[d].measured
        BY <4>2 DEF Added, Proposed
      <4> QED
        BY <1>1, <4>3
    <3> QED
      BY <3>1, <3>2
  <2> QED
    BY <1>l, <1>p, <2>1, <2>2, <2>3, LessonSame DEF LessonInv
<1>7. ASSUME NEW c \in Known, Measure(c)
      PROVE  LessonInv'
  <2>1. /\ pc = "measure" /\ pc' = "measure" /\ todo' = todo \ {c} /\ c \in todo
        /\ UNCHANGED <<ids, saved, crashes, forgotten>> /\ Running /\ Running'
    BY <1>7 DEF Measure, Walked, bounds, Running
  <2>2. MeasureStep(c)
    BY <1>0, <1>7, MeasureStepFacts
  <2>3. /\ Known' = Known /\ Steady /\ records'[c] \in Candidate
        /\ \A d \in Known : d # c => records'[d] = records[d]
        /\ records'[c].kind = records[c].kind
        /\ memory'.lessons = memory.lessons \cup Lesson(c, records')
    <3>1. records' \in Seq(Candidate) /\ c \in DOMAIN records'
      BY <2>2 DEF MeasureStep, Only, Known
    <3>2. records'[c] \in Candidate
      BY <3>1
    <3> QED
      BY <2>2, <3>2, OnlySteady DEF MeasureStep, Only
  <2>4. records'[c].failure = "none" => Correct(c, records')
    <3>1. CASE records[c].measured
      BY <1>l, <2>2, <3>1 DEF MeasureStep, Timed, Correct
    <3>2. CASE ~records[c].measured
      BY <2>2, <3>2, Constants DEF MeasureStep, Correct
    <3> QED
      BY <3>1, <3>2
  <2>5. records'[c].failure # "infrastructure" => Taught(memory'.lessons, c)
    <3>1. records'[c].failure \in Failures
      BY <2>3 DEF Candidate
    <3> QED
      BY <2>3, <2>4, <3>1, LessonOf
  <2>6. Timed'
    BY <1>l, <2>3, <2>4 DEF Timed, Correct
  <2>7. records[c].kind # "repair" => Again(c)'
    <3>1. saved.phase = "selected"
      BY <1>r, <2>1 DEF PhaseOf
    <3>2. records[c].kind # "repair" => c \in saved.ids
      BY <1>0, <2>1 DEF StageInv
    <3> QED
      BY <2>1, <3>1, <3>2 DEF Again
  <2>8. \A d \in Known' : Lasting(d)' =>
          \/ d \in Known /\ Lasting(d)
          \/ /\ Running' /\ Taught(memory'.lessons, d)
             /\ records'[d].kind # "repair" => Again(d)'
    <3> SUFFICES ASSUME NEW d \in Known', Lasting(d)', ~Lasting(d)
                 PROVE  /\ Running' /\ Taught(memory'.lessons, d)
                        /\ records'[d].kind # "repair" => Again(d)'
      BY <2>3
    <3>1. d = c
      BY <2>3 DEF Lasting
    <3> QED
      BY <2>1, <2>3, <2>5, <2>7, <3>1 DEF Lasting
  <2>9. \A d \in Known : Again(d) => Again(d)'
    BY <2>1 DEF Again
  <2>10. \A d \in Known :
           /\ Lasting(d) /\ records[d].kind # "repair" /\ forgotten = 0
           /\ Measuring /\ d \in todo
           => Taught(memory'.lessons, d) \/ (Measuring /\ d \in todo)'
    <3> SUFFICES ASSUME NEW d \in Known, Lasting(d), d \in todo
                 PROVE  Taught(memory'.lessons, d) \/ (Measuring /\ d \in todo)'
      OBVIOUS
    <3>1. CASE d = c
      <4>1. records'[c].failure # "infrastructure"
        BY <2>2, <3>1 DEF Lasting, MeasureStep
      <4> QED
        BY <2>5, <3>1, <4>1
    <3>2. CASE d # c
      BY <2>1, <3>2 DEF Measuring
    <3> QED
      BY <3>1, <3>2
  <2>11. memory.lessons \subseteq memory'.lessons
         /\ saved'.lessons \in {saved.lessons, memory.lessons}
    BY <2>1, <2>3
  <2> HIDE DEF Running, Taught, Lasting, Again, Measuring
  <2> QED
    BY <2>1, <2>3, <2>6, <2>8, <2>9, <2>10, <2>11, LessonKept DEF LessonInv
<1>8. ASSUME NEW c \in Known, Profiled(c), UNCHANGED <<saved, crashes, forgotten>>,
             Running, Running', ~Measuring
      PROVE  LessonInv'
  <2>1. ProfileStep(c)
    BY <1>0, <1>8, ProfileStepFacts
  <2>2. /\ Known' = Known /\ Steady
        /\ \A d \in Known : /\ records'[d].measured = records[d].measured
                            /\ records'[d].failure = records[d].failure
                            /\ records'[d].latency = records[d].latency
        /\ memory'.lessons = memory.lessons \cup Lesson(c, records')
    BY <2>1, OnlySteady DEF ProfileStep, Only
  <2>3. Timed'
    BY <1>l, <2>2 DEF Timed, Correct
  <2>4. \A d \in Known' : Lasting(d)' => d \in Known /\ Lasting(d)
    BY <2>2 DEF Lasting
  <2>5. memory.lessons \subseteq memory'.lessons
    BY <2>2
  <2> QED
    BY <1>8, <1>l, <2>2, <2>3, <2>4, <2>5, LessonSame DEF LessonInv
<1>9. CASE GenerationEnds
  <2>1. saved'.lessons = memory.lessons
    BY <1>9, CheckpointFields DEF GenerationEnds
  <2> QED
    BY <1>3, <1>9, <2>1 DEF GenerationEnds, Running, Measuring, bounds
<1>10. CASE ModelEnds
  <2>1. saved'.lessons = memory.lessons
    BY <1>10, CheckpointFields DEF ModelEnds, Save
  <2> QED
    BY <1>3, <1>10, <2>1 DEF ModelEnds, Running, Measuring, bounds
<1>11. CASE Select
  <2>1. saved'.lessons = memory.lessons
    BY <1>11, CheckpointFields DEF Select
  <2> QED
    BY <1>3, <1>11, <2>1 DEF Select, Running, Measuring, bounds
<1>12. CASE MeasureEnds
  <2>1. CASE policy = "ncu"
    <3>1. /\ UNCHANGED <<records, memory, saved, crashes, forgotten>>
          /\ pc = "measure" /\ pc' = "profile-all" /\ todo = {}
      BY <1>12, <2>1 DEF MeasureEnds, NoRepair, bounds
    <3>2. Running /\ Running' /\ memory.lessons \subseteq memory'.lessons
      BY <3>1 DEF Running
    <3> QED
      BY <1>2, <1>l, <3>1, <3>2, LessonSame DEF LessonInv
  <2>2. CASE policy # "ncu"
    <3>1. saved'.lessons = memory.lessons
      BY <1>12, <2>2, CheckpointFields DEF MeasureEnds, Save
    <3> QED
      BY <1>3, <1>12, <3>1 DEF MeasureEnds, NoRepair, Running, Measuring, bounds
  <2> QED
    BY <2>1, <2>2
<1>13. CASE ProfileAll
  <2>1. CASE todo = {}
    <3>1. Save("measured") /\ pc = "profile-all" /\ pc' = "profile"
          /\ UNCHANGED <<records, memory, crashes, forgotten>>
      BY <1>13, <2>1 DEF ProfileAll, bounds
    <3>2. saved'.lessons = memory.lessons
      BY <3>1, CheckpointFields DEF Save
    <3> QED
      BY <1>3, <3>1, <3>2 DEF Running, Measuring
  <2>2. CASE todo # {}
    BY <1>0, <1>8, <1>13, <2>2 DEF ProfileAll, bounds, Running, Measuring
  <2> QED
    BY <2>1, <2>2
<1>14. CASE Milestone
  BY <1>8, <1>14 DEF Milestone, bounds, Running, Measuring
<1>15. CASE RoundEnds
  <2>1. /\ UNCHANGED <<records, memory, crashes, forgotten>>
        /\ saved'.lessons = memory.lessons
        /\ pc \in {"profile", "finish", "generate"}
        /\ pc' \in {"generate", "over"}
    BY <1>15 DEF RoundEnds, EmptyRound, bounds
  <2>2. Running /\ saved.phase # "selected" /\ ~Measuring
    BY <1>r, <2>1 DEF Running, PhaseOf, Measuring
  <2>3. CASE pc' = "generate"
    BY <1>3, <2>1, <2>2, <2>3 DEF Running
  <2>4. CASE pc' = "over"
    <3>1. ~Running'
      BY <2>4 DEF Running
    <3>2. \A d : ~Again(d)
      BY <2>2 DEF Again
    <3> HIDE DEF Running, Taught, Lasting, Again, Measuring
    <3> QED
      BY <1>2, <1>l, <2>1, <2>2, <3>1, <3>2, LessonKept DEF LessonInv
  <2> QED
    BY <2>1, <2>3, <2>4
<1>16. CASE Crash
  <2>1. /\ UNCHANGED <<records, saved, forgotten>> /\ ~Running' /\ crashes' > 0
        /\ saved.lessons \subseteq saved'.lessons
    BY <1>0, <1>16 DEF Crash, Down, Running, TypeInv
  <2>2. crashes' # 0
    BY <2>1
  <2>3. LessonsLast'
    BY <1>l, <2>1 DEF LessonsLast, Lasting, Again, Known
  <2> QED
    BY <1>2, <1>l, <2>1, <2>2, <2>3 DEF LessonInv, LessonsSaved, LessonsOfRun
<1>17. CASE OutOfTime
  <2>1. /\ UNCHANGED <<records, crashes>> /\ ~Running' /\ Running
        /\ \/ Checkpoint(saved.phase, ids, memory, repairs) /\ forgotten' = forgotten
           \/ Checkpoint("", {}, memory, repairs) /\ forgotten' = round
    BY <1>17 DEF OutOfTime, Down, Running, Save
  <2>2. /\ saved'.lessons = memory.lessons
        /\ \/ /\ saved'.phase = saved.phase /\ saved'.ids = ids
              /\ forgotten' = forgotten
           \/ forgotten' = round
    BY <2>1, CheckpointFields
  <2>n. round # 0
    BY <1>0, RoundIs
  <2>3. \A d \in Known : forgotten' = 0 /\ Again(d) => Again(d)'
    BY <1>r, <2>n, <2>1, <2>2 DEF Again
  <2>4. forgotten # 0 => forgotten' # 0
    BY <2>n, <2>2
  <2> HIDE DEF Running, Taught, Lasting, Again, Measuring
  <2> QED
    BY <1>2, <1>l, <2>1, <2>2, <2>3, <2>4, LessonKept DEF LessonInv
<1>18. CASE Resume
  <2>1. /\ UNCHANGED <<records, saved, crashes, forgotten>> /\ ids' = saved.ids
        /\ pc = "down" /\ pc' = Stage(saved.phase)
        /\ todo' = IF pc' \in {"model", "measure"} THEN saved.ids ELSE {}
    BY <1>18 DEF Resume, bounds
  <2>2. memory'.lessons = saved.lessons
    <3>1. saved.lessons # {}
      BY <1>l DEF LessonsSaved, Taught
    <3> QED
      BY <1>18, <3>1 DEF Resume, Restored
  <2>3. ~Running
    BY <2>1 DEF Running
  <2>4. \A d \in Known : Again(d) => (Measuring /\ d \in todo)'
    BY <2>1 DEF Again, Stage, Measuring
  <2>5. LessonsLast'
    BY <1>l, <2>1, <2>2, <2>4 DEF LessonsLast, Lasting, Again, Known
  <2>6. LessonsOfRun'
    BY <1>l, <2>1, <2>2, <2>3 DEF LessonsOfRun, Lasting, Known
  <2>7. LessonsSaved'
    BY <1>l, <2>1, <2>2 DEF LessonsSaved
  <2> QED
    BY <1>2, <2>1, <2>5, <2>6, <2>7 DEF LessonInv
<1>19. CASE UNCHANGED vars
  BY <1>19 DEF vars, bounds, LessonInv, LessonsSaved, LessonsOfRun, LessonsLast,
               Timed, Lasting, Again, Measuring, Running, Known, Taught, Correct
<1> QED
  BY <1>4, <1>5, <1>6, <1>7, <1>9, <1>10, <1>11, <1>12, <1>13, <1>14,
     <1>15, <1>16, <1>17, <1>18, <1>19 DEF Next

-----------------------------------------------------------------------------
(* Observations *)

LEMMA ObserveFacts ==
  ASSUME NEW o \in Seq(Observation), NEW c, NEW rs, c \in DOMAIN rs,
         AccurateIn(o, rs)
  PROVE  /\ Prefix(o, Observe(o, c, rs))
         /\ AccurateIn(Observe(o, c, rs), rs)
         /\ Ranked(c, rs) => ObservedIn(Observe(o, c, rs), c, rs)
         /\ o # <<>> => Observe(o, c, rs) # <<>>
<1> DEFINE r == [of |-> c, regime |-> rs[c].model.regime,
                 ms |-> rs[c].model.ms, latency |-> rs[c].latency]
<1>1. CASE ~Ranked(c, rs)
  <2>1. Observe(o, c, rs) = o
    BY <1>1 DEF Observe, Ranked
  <2> QED
    BY <1>1, <2>1 DEF Prefix
<1>2. CASE Ranked(c, rs) /\ \E i \in DOMAIN o : o[i].of = c
  <2>1. Observe(o, c, rs) = o
    BY <1>2 DEF Observe
  <2>2. ObservedIn(o, c, rs)
    BY <1>2 DEF AccurateIn, ObservedIn
  <2> QED
    BY <2>1, <2>2 DEF Prefix
<1>3. CASE Ranked(c, rs) /\ ~\E i \in DOMAIN o : o[i].of = c
  <2>1. Observe(o, c, rs) = Append(o, r)
    BY <1>3 DEF Observe, Ranked
  <2> DEFINE n == Len(o) + 1
             p == Append(o, r)
  <2>2. /\ r.of = c /\ r.ms = rs[c].model.ms /\ r.latency = rs[c].latency
    OBVIOUS
  <2> HIDE DEF r
  <2>3. /\ Len(o) \in Nat /\ DOMAIN o = 1..Len(o) /\ DOMAIN p = 1..n
        /\ \A i \in DOMAIN o : p[i] = o[i]
        /\ p[n] = r
    OBVIOUS
  <2>4. DOMAIN p = DOMAIN o \cup {n} /\ n \notin DOMAIN o
    BY <2>3
  <2> HIDE DEF p, n
  <2>5. Prefix(o, p)
    BY <2>3, <2>4 DEF Prefix
  <2>6. AccurateIn(p, rs)
    <3>1. ASSUME NEW i \in DOMAIN p
          PROVE  /\ p[i].of \in DOMAIN rs /\ Ranked(p[i].of, rs)
                 /\ p[i].ms = rs[p[i].of].model.ms
                 /\ p[i].latency = rs[p[i].of].latency
      <4>1. CASE i = n
        BY <1>3, <2>2, <2>3, <4>1
      <4>2. CASE i # n
        BY <2>3, <2>4, <4>2 DEF AccurateIn
      <4> QED
        BY <4>1, <4>2
    <3>2. ASSUME NEW i \in DOMAIN p, NEW j \in DOMAIN p, p[i].of = p[j].of
          PROVE  i = j
      <4>1. CASE i = n /\ j # n
        BY <1>3, <2>2, <2>3, <2>4, <3>2, <4>1
      <4>2. CASE i # n /\ j = n
        BY <1>3, <2>2, <2>3, <2>4, <3>2, <4>2
      <4>3. CASE i # n /\ j # n
        BY <2>3, <2>4, <3>2, <4>3 DEF AccurateIn
      <4> QED
        BY <4>1, <4>2, <4>3
    <3> QED
      BY <3>1, <3>2 DEF AccurateIn
  <2>7. ObservedIn(p, c, rs) /\ p # <<>>
    <3>1. n \in DOMAIN p /\ p[n] = r
      BY <2>3, <2>4
    <3>2. p # <<>>
      BY <3>1
    <3>3. ObservedIn(p, c, rs)
      BY <2>2, <3>1 DEF ObservedIn
    <3> QED
      BY <3>2, <3>3
  <2> QED
    BY <2>1, <2>5, <2>6, <2>7 DEF p
<1> QED
  BY <1>1, <1>2, <1>3

LEMMA ObservedMore ==
  ASSUME NEW o, NEW p, NEW c, NEW rs, NEW rt, Prefix(o, p),
         ObservedIn(o, c, rs), rt[c].model.ms = rs[c].model.ms,
         rt[c].latency = rs[c].latency
  PROVE  ObservedIn(p, c, rt)
BY DEF Prefix, ObservedIn

(* Who is ranked stays so, as it is.                                       *)
RanksStay ==
  \A d \in Known : Ranked(d, records) =>
    /\ Ranked(d, records') /\ records'[d].model = records[d].model
    /\ records'[d].latency = records[d].latency

LEMMA AccurateStays ==
  ASSUME RanksStay, Known \subseteq Known', NEW o, AccurateIn(o, records)
  PROVE  AccurateIn(o, records')
<1>1. ASSUME NEW i \in DOMAIN o
      PROVE  /\ o[i].of \in Known' /\ Ranked(o[i].of, records')
             /\ o[i].ms = records'[o[i].of].model.ms
             /\ o[i].latency = records'[o[i].of].latency
  <2>1. /\ o[i].of \in Known /\ Ranked(o[i].of, records)
        /\ o[i].ms = records[o[i].of].model.ms
        /\ o[i].latency = records[o[i].of].latency
    BY DEF AccurateIn, Known
  <2> QED
    BY <2>1 DEF RanksStay
<1>2. \A i, j \in DOMAIN o : o[i].of = o[j].of => i = j
  BY DEF AccurateIn
<1> QED
  BY <1>1, <1>2 DEF AccurateIn, Known

(* The ncu policy observes nothing, and under the other one state.json     *)
(* has at least the seed: what is restored is what was saved.              *)
LEMMA RestoredIsSaved ==
  ASSUME TypeInv, CandidatesInv, ObservedInv
  PROVE  Restored.observations = saved.observations
<1>1. CASE policy = "tilesight"
  BY <1>1 DEF ObservedInv, ObservedSaved, Restored
<1>2. CASE policy = "ncu"
  <2> DEFINE n == Len(records)
  <2>1. PICK f \in [0..n -> Seq(Observation)] :
          /\ f[0] = <<>>
          /\ \A c \in Known : f[c] = Observe(f[c - 1], c, records)
          /\ AllObservations = f[n]
    BY ObserveSteps
  <2>2. n \in Nat /\ Known = 1..n
    BY KnownIs
  <2>3. \A c \in Known : ~records[c].model.valid
    BY <1>2 DEF CandidatesInv, Sane
  <2>4. \A c \in Known : \A o : Observe(o, c, records) = o
    BY <2>3 DEF Observe
  <2> DEFINE P == {c \in 0..n : f[c] = <<>>}
  <2>5. 0 \in P
    BY <2>1, <2>2
  <2>6. ASSUME NEW c \in 0..n, c < n, c \in P  PROVE c + 1 \in P
    <3>1. c + 1 \in Known /\ c + 1 \in 0..n /\ (c + 1) - 1 = c
      BY <2>2, <2>6
    <3>2. f[c + 1] = Observe(f[c], c + 1, records)
      BY <2>1, <3>1
    <3> QED
      BY <2>4, <2>6, <3>1, <3>2
  <2> HIDE DEF P
  <2>7. \A c \in 0..n : c \in P
    BY <2>2, <2>5, <2>6, RangeInduction
  <2>8. AllObservations = <<>>
    BY <2>1, <2>2, <2>7 DEF P
  <2> QED
    BY <2>8 DEF Restored
<1> QED
  BY <1>1, <1>2, Constants DEF TypeInv

LEMMA InitObserved == Init => ObservedInv
<1> SUFFICES ASSUME Init  PROVE ObservedInv
  OBVIOUS
<1>1. TypeInv /\ CandidatesInv
  BY InitType
<1>2. Known = {Seed}
  <2>1. PICK r : records = <<r>>
    BY DEF Init
  <2>2. Len(records) = 1
    BY <2>1
  <2>3. Known = 1..1
    BY <1>1, <2>2, KnownIs
  <2> QED
    BY <2>3 DEF Seed
<1>3. <<>> \in Seq(Observation) /\ AccurateIn(<<>>, records)
  BY DEF AccurateIn
<1>4. /\ memory.observations = Observe(<<>>, Seed, records) /\ Running
      /\ saved.observations = memory.observations
  BY DEF Init, Running
<1>5. Seed \in DOMAIN records
  BY <1>2 DEF Known
<1>6. /\ AccurateIn(memory.observations, records)
      /\ Ranked(Seed, records) => ObservedIn(memory.observations, Seed, records)
  BY <1>3, <1>4, <1>5, ObserveFacts
<1>7. policy = "tilesight" => memory.observations # <<>>
  <2>1. policy = "tilesight" => Ranked(Seed, records)
    BY <1>1, <1>2 DEF CandidatesInv, Sane, Ranked
  <2> QED
    BY <1>6, <2>1 DEF ObservedIn
<1> QED
  BY <1>2, <1>4, <1>6, <1>7
  DEF ObservedInv, ObservedSaved, ObservedOfRun, ObservedLast, Observable, Prefix

(* What a step of a running process has to show.                           *)
LEMMA ObservedKept ==
  ASSUME ObservedInv, Running, Steady, RanksStay, policy' = policy,
         Running' => Prefix(memory.observations, memory'.observations),
         Running' /\ memory.observations # <<>> => memory'.observations # <<>>,
         AccurateIn(memory'.observations, records'),
         saved'.observations \in {saved.observations, memory.observations},
         ~Running' => saved'.observations = memory.observations,
         crashes' = crashes, forgotten # 0 => forgotten' # 0,
         \A c \in Known' : Observable(c)' =>
           \/ c \in Known /\ Ranked(c, records)
           \/ /\ Running' /\ ObservedIn(memory'.observations, c, records')
              /\ records'[c].kind # "repair" => Again(c)',
         \A c \in Known :
           /\ Observable(c) /\ records[c].kind # "repair" /\ forgotten' = 0
           /\ Again(c)
           => Again(c)' \/ ObservedIn(saved'.observations, c, records'),
         Running' => \A c \in Known :
           /\ Observable(c) /\ records[c].kind # "repair" /\ forgotten = 0
           /\ Measuring /\ c \in todo
           => \/ ObservedIn(memory'.observations, c, records')
              \/ (Measuring /\ c \in todo)'
  PROVE  ObservedInv'
<1>1. /\ Prefix(saved.observations, memory.observations)
      /\ AccurateIn(memory.observations, records)
      /\ AccurateIn(saved.observations, records)
  BY DEF ObservedInv, ObservedSaved
<1>2. \A o : Prefix(o, o)
  BY DEF Prefix
<1>3. \A o, p, q : Prefix(o, p) /\ Prefix(p, q) => Prefix(o, q)
  BY DEF Prefix
<1>4. /\ Prefix(saved.observations, saved'.observations)
      /\ Running' => Prefix(saved'.observations, memory'.observations)
  BY <1>1, <1>2, <1>3
<1>5. ASSUME NEW c \in Known, Ranked(c, records)
      PROVE  /\ ObservedIn(saved.observations, c, records) =>
                  ObservedIn(saved'.observations, c, records')
             /\ ObservedIn(memory.observations, c, records) /\ Running' =>
                  ObservedIn(memory'.observations, c, records')
             /\ ObservedIn(memory.observations, c, records) /\ ~Running' =>
                  ObservedIn(saved'.observations, c, records')
  <2>1. /\ records'[c].model = records[c].model
        /\ records'[c].latency = records[c].latency
    BY <1>5 DEF RanksStay
  <2> QED
    BY <1>2, <1>4, <2>1, ObservedMore
<1>6. \A d \in Known : records'[d].kind = records[d].kind
  BY DEF Steady
<1>7. ObservedSaved'
  <2>1. AccurateIn(saved'.observations, records')
    BY <1>1, AccurateStays DEF Steady
  <2>2. policy = "tilesight" => /\ saved.observations # <<>>
                                /\ memory.observations # <<>>
    BY DEF ObservedInv, ObservedSaved
  <2>3. policy = "tilesight" => /\ saved'.observations # <<>>
                                /\ Running' => memory'.observations # <<>>
    BY <2>2
  <2> HIDE DEF Running
  <2> QED
    BY <1>4, <2>1, <2>3 DEF ObservedSaved
<1> HIDE DEF Running, ObservedIn, Again, Measuring
<1>8. ASSUME NEW c \in Known', Observable(c)', c \in Known, Ranked(c, records)
      PROVE  Observable(c)
  BY <1>6, <1>8 DEF Observable
<1>9. ObservedOfRun'
  <2> SUFFICES ASSUME NEW c \in Known', Observable(c)', crashes = 0
               PROVE  IF Running' THEN ObservedIn(memory'.observations, c, records')
                      ELSE ObservedIn(saved'.observations, c, records')
    BY DEF ObservedOfRun
  <2>1. CASE c \in Known /\ Ranked(c, records)
    <3>1. ObservedIn(memory.observations, c, records)
      BY <1>8, <2>1 DEF ObservedInv, ObservedOfRun
    <3> QED
      BY <1>5, <2>1, <3>1
  <2>2. CASE ~(c \in Known /\ Ranked(c, records))
    BY <2>2
  <2> QED
    BY <2>1, <2>2
<1>10. ObservedLast'
  <2> SUFFICES ASSUME NEW c \in Known', Observable(c)', records'[c].kind # "repair",
                      forgotten' = 0
               PROVE  /\ ObservedIn(saved'.observations, c, records') \/ Again(c)'
                      /\ Running' => \/ ObservedIn(memory'.observations, c, records')
                                     \/ (Measuring /\ c \in todo)'
    BY DEF ObservedLast
  <2>1. CASE c \in Known /\ Ranked(c, records)
    <3>1. Observable(c) /\ records[c].kind # "repair" /\ forgotten = 0
      BY <1>6, <1>8, <2>1
    <3>2. /\ ObservedIn(saved.observations, c, records) \/ Again(c)
          /\ ObservedIn(memory.observations, c, records) \/ (Measuring /\ c \in todo)
      BY <2>1, <3>1 DEF ObservedInv, ObservedLast
    <3> QED
      BY <1>5, <2>1, <3>1, <3>2
  <2>2. CASE ~(c \in Known /\ Ranked(c, records))
    BY <2>2
  <2> QED
    BY <2>1, <2>2
<1> QED
  BY <1>7, <1>9, <1>10 DEF ObservedInv

(* Most steps observe nothing, and keep the checkpoint or start a stage.   *)
LEMMA ObservedSame ==
  ASSUME ObservedInv, Running, Running', Steady, RanksStay, policy' = policy,
         memory'.observations = memory.observations,
         saved'.observations \in {saved.observations, memory.observations},
         crashes' = crashes, forgotten' = forgotten,
         \A c \in Known' : Observable(c)' => c \in Known /\ Ranked(c, records),
         \/ saved'.phase = saved.phase /\ saved'.ids = saved.ids
         \/ saved.phase # "selected"
         \/ saved'.observations = memory.observations /\ ~(Measuring /\ todo # {}),
         \/ ~(Measuring /\ todo # {})
         \/ UNCHANGED <<pc, todo>>
         \/ \A d \in todo : records[d].kind = "repair"
  PROVE  ObservedInv'
<1>1. ASSUME NEW c \in Known, Observable(c), records[c].kind # "repair", forgotten = 0,
             Again(c)
      PROVE  Again(c)' \/ ObservedIn(saved'.observations, c, records')
  <2>1. CASE saved'.phase = saved.phase /\ saved'.ids = saved.ids
    BY <1>1, <2>1 DEF Again
  <2>2. CASE saved.phase # "selected"
    BY <1>1, <2>2 DEF Again
  <2>3. CASE saved'.observations = memory.observations /\ ~(Measuring /\ todo # {})
    <3>1. ObservedIn(memory.observations, c, records)
      BY <1>1, <2>3 DEF ObservedInv, ObservedLast
    <3>2. /\ records'[c].model = records[c].model
          /\ records'[c].latency = records[c].latency
      BY <1>1 DEF RanksStay, Observable
    <3>3. Prefix(memory.observations, memory.observations)
      BY DEF Prefix
    <3> QED
      BY <2>3, <3>1, <3>2, <3>3, ObservedMore
  <2> QED
    BY <2>1, <2>2, <2>3
<1>2. \A c \in Known : Measuring /\ c \in todo /\ records[c].kind # "repair" =>
                         (Measuring /\ c \in todo)'
  BY DEF Measuring
<1>3. Prefix(memory.observations, memory'.observations)
  BY DEF Prefix
<1>4. AccurateIn(memory'.observations, records')
  BY AccurateStays DEF ObservedInv, ObservedSaved, Steady
<1> HIDE DEF Running, ObservedIn, Again, Measuring
<1> QED
  BY <1>1, <1>2, <1>3, <1>4, ObservedKept

LEMMA ObservedStep ==
  ASSUME Inv1, ModelInv, ObservedInv, [Next]_vars
  PROVE  ObservedInv'
<1>0. /\ TypeInv /\ CandidatesInv /\ StageInv /\ pc \in Stages
      /\ todo \in SUBSET Known /\ ids \in SUBSET Known /\ todo \subseteq ids
      /\ memory.observations \in Seq(Observation)
  BY DEF Inv1, TypeInv, StageInv
<1>s. saved \in [phase : Phases, round : Nat, ids : SUBSET Known,
                 repairs : 0..MaxRepairs, observations : Seq(Observation),
                 lessons : SUBSET (Known \X LessonKinds)]
  BY <1>0 DEF TypeInv
<1>r. Running => saved.phase = PhaseOf(pc) /\ saved.ids \subseteq ids
  BY <1>0 DEF StageInv
<1>p. Persist => /\ saved'.phase = saved.phase /\ saved'.ids = saved.ids
                 /\ saved'.observations = memory.observations
  BY <1>s DEF Persist
<1>o. ObservedSaved /\ ObservedOfRun /\ ObservedLast
  BY DEF ObservedInv
(* Steps that leave the archive alone, but for new candidates.             *)
<1>1. ASSUME Known \subseteq Known', \A d \in Known : records'[d] = records[d],
             \A d \in Known' \ Known : ~Ranked(d, records')
      PROVE  /\ Steady /\ RanksStay
             /\ \A d \in Known' : Observable(d)' => d \in Known /\ Ranked(d, records)
  <2>1. Steady
    BY <1>1 DEF Steady
  <2>2. \A d \in Known : Ranked(d, records') <=> Ranked(d, records)
    BY <1>1 DEF Ranked, Correct
  <2>3. RanksStay
    BY <1>1, <2>2 DEF RanksStay
  <2>4. \A d \in Known' : Observable(d)' => d \in Known /\ Ranked(d, records)
    BY <1>1, <2>2 DEF Observable
  <2> QED
    BY <2>1, <2>3, <2>4
<1>2. ASSUME UNCHANGED records
      PROVE  /\ Steady /\ RanksStay
             /\ \A d \in Known' : Observable(d)' => d \in Known /\ Ranked(d, records)
  BY <1>1, <1>2 DEF Known
<1>3. ASSUME UNCHANGED <<policy, records, memory, crashes, forgotten>>,
             Running, Running',
             saved'.observations \in {saved.observations, memory.observations},
             ~(Measuring /\ todo # {}),
             saved.phase # "selected" \/ saved'.observations = memory.observations
      PROVE  ObservedInv'
  BY <1>2, <1>3, ObservedSame
<1>4. ASSUME NEW parent \in {Seed, Incumbent}, NEW failure \in {"none", "static"},
             Propose(parent, failure)
      PROVE  ObservedInv'
  <2>1. parent \in Known /\ failure \in Failures
    BY <1>0, IncumbentKnown DEF TypeInv, Failures
  <2>2. Added(parent, "proposal", failure)
    BY <1>0, <1>4, <2>1, AddedFacts DEF Propose
  <2>3. /\ pc = "generate" /\ pc' = "generate"
        /\ UNCHANGED <<policy, crashes, forgotten>>
        /\ memory'.observations = memory.observations
        /\ Persist \/ UNCHANGED saved
    <3>1. memory'.observations = memory.observations
      BY <1>0, <1>4 DEF Propose, TypeInv
    <3> QED
      BY <1>4, <3>1 DEF Propose, bounds
  <2>4. /\ Known \subseteq Known' /\ \A d \in Known : records'[d] = records[d]
        /\ \A d \in Known' \ Known : ~Ranked(d, records')
    BY <2>2 DEF Added, Proposed, Ranked, Correct
  <2>5. saved.phase # "selected" /\ Running /\ Running' /\ ~(Measuring /\ todo # {})
    BY <1>r, <2>3 DEF Running, PhaseOf, Measuring
  <2>6. saved'.observations \in {saved.observations, memory.observations}
    BY <1>p, <2>3
  <2>7. /\ Steady /\ RanksStay
        /\ \A d \in Known' : Observable(d)' => d \in Known /\ Ranked(d, records)
    BY <1>1, <2>4
  <2> QED
    BY <2>3, <2>5, <2>6, <2>7, ObservedSame
<1>5. ASSUME NEW c \in Known, Model(c) \/ ModelRepair(c)
      PROVE  ObservedInv'
  <2>1. /\ UNCHANGED <<policy, ids, saved, crashes, forgotten>>
        /\ Running /\ Running' /\ c \in todo
    BY <1>5 DEF Model, ModelRepair, bounds, Running
  <2>2. CASE Model(c) /\ UNCHANGED <<records, memory>>
    <3>1. pc = "model" /\ saved.phase # "selected"
      BY <1>r, <2>1, <2>2 DEF Model, PhaseOf
    <3> QED
      BY <1>3, <2>1, <2>2, <3>1 DEF Measuring
  <2>3. CASE ~(Model(c) /\ UNCHANGED <<records, memory>>)
    <3>1. PICK model \in Models, failure \in {"none", "model", "infrastructure"} :
            Modelled(c, model, failure)
      BY <1>5, <2>3 DEF Model, ModelRepair
    <3>2. ModelStep(c)
      BY <1>0, <3>1, ModelStepFacts
    <3>3. /\ Known' = Known /\ Steady
          /\ \A d \in Known : d # c => records'[d] = records[d]
          /\ records'[c].latency = records[c].latency
          /\ records'[c].kind = records[c].kind
          /\ memory'.observations = memory.observations
      BY <3>2, OnlySteady DEF ModelStep, Only
    <3>4. ~Ranked(c, records) /\ (Ranked(c, records') => /\ forgotten # 0
                                                         /\ records[c].kind = "repair")
      <4>1. CASE Model(c)
        <5>1. ~records[c].modelled /\ policy = "tilesight"
          BY <1>0, <2>3, <4>1, Constants DEF Model, TypeInv
        <5>2. pc = "model" /\ c \in ids /\ saved.phase = "generated"
          BY <1>0, <1>r, <2>1, <4>1 DEF Model, PhaseOf
        <5>3. ~Ranked(c, records)
          BY <1>0, <5>1 DEF CandidatesInv, Sane, Ranked
        <5>4. ASSUME Ranked(c, records')
              PROVE  forgotten # 0 /\ records[c].kind = "repair"
          <6>1. Correct(c, records)
            BY <3>3, <5>4 DEF Ranked, Correct
          <6>2. records[c].measured
            BY <1>0, <6>1 DEF CandidatesInv, Sane
          <6>3. records[c].generation = round
            BY <1>0, <5>2 DEF StageInv
          <6>4. forgotten # 0
            <7>1. saved.phase \notin {"selected", "measured"}
              BY <5>2
            <7> QED
              BY <5>1, <6>2, <6>3, <7>1 DEF ModelInv
          <6>5. records[c].kind # "proposal"
            BY <5>1, <6>2 DEF ModelInv
          <6>6. c # Seed
            BY <1>0, <5>1 DEF CandidatesInv, Sane
          <6>7. records[c].kind # "seed"
            BY <1>0, <6>6 DEF CandidatesInv, Sane
          <6>8. records[c].kind \in {"seed", "proposal", "repair"}
            BY <1>0, KnownIs DEF Candidate
          <6> QED
            BY <6>4, <6>5, <6>7, <6>8
        <5> QED
          BY <5>3, <5>4
      <4>2. CASE ModelRepair(c)
        <5>1. ~records[c].measured
          BY <1>0, <4>2 DEF ModelRepair, StageInv
        <5>2. ~Correct(c, records)
          BY <1>0, <5>1 DEF CandidatesInv, Sane
        <5> QED
          BY <3>3, <5>2 DEF Ranked, Correct
      <4> QED
        BY <1>5, <4>1, <4>2
    <3>5. \A d \in Known' : Observable(d)' => d \in Known /\ Ranked(d, records)
      <4> SUFFICES ASSUME NEW d \in Known, Observable(d)'
                   PROVE  Ranked(d, records)
        BY <3>3
      <4>1. CASE d = c
        BY <2>1, <3>3, <3>4, <4>1 DEF Observable
      <4>2. CASE d # c
        BY <3>3, <4>2 DEF Observable, Ranked, Correct
      <4> QED
        BY <4>1, <4>2
    <3>6. RanksStay
      BY <3>3, <3>4 DEF RanksStay, Ranked, Correct
    <3>7. \/ ~(Measuring /\ todo # {})
          \/ UNCHANGED <<pc, todo>>
          \/ \A d \in todo : records[d].kind = "repair"
      <4>1. CASE Model(c)
        BY <4>1 DEF Model, Measuring
      <4>2. CASE ModelRepair(c)
        BY <1>0, <4>2 DEF ModelRepair, StageInv
      <4> QED
        BY <1>5, <4>1, <4>2
    <3> QED
      BY <2>1, <3>3, <3>5, <3>6, <3>7, ObservedSame
  <2> QED
    BY <2>2, <2>3
<1>6. ASSUME NEW c \in Known, Repair(c)
      PROVE  ObservedInv'
  <2>1. /\ pc \in {"model", "measure"} /\ todo = {} /\ memory' = memory
        /\ pc' \in {pc, Repaired} /\ UNCHANGED <<policy, crashes, forgotten>>
        /\ Persist
    BY <1>6 DEF Repair, CanRepair, bounds
  <2>2. Running /\ Running' /\ ~(Measuring /\ todo # {})
    BY <2>1 DEF Running, Repaired
  <2>3. /\ Steady /\ RanksStay
        /\ \A d \in Known' : Observable(d)' => d \in Known /\ Ranked(d, records)
    <3>1. CASE UNCHANGED records
      BY <1>2, <3>1
    <3>2. CASE ~UNCHANGED records
      <4>1. records' = Append(records, Proposed(round, c, "repair", "none"))
        BY <1>6, <3>2 DEF Repair
      <4>2. Added(c, "repair", "none")
        BY <1>0, <4>1, AddedFacts DEF Failures
      <4>3. /\ Known \subseteq Known' /\ \A d \in Known : records'[d] = records[d]
            /\ \A d \in Known' \ Known : ~Ranked(d, records')
        BY <4>2 DEF Added, Proposed, Ranked, Correct
      <4> QED
        BY <1>1, <4>3
    <3> QED
      BY <3>1, <3>2
  <2> QED
    BY <1>p, <2>1, <2>2, <2>3, ObservedSame
<1>7. ASSUME NEW c \in Known, Measure(c)
      PROVE  ObservedInv'
  <2>1. /\ pc = "measure" /\ pc' = "measure" /\ todo' = todo \ {c} /\ c \in todo
        /\ UNCHANGED <<policy, ids, saved, crashes, forgotten>>
        /\ Running /\ Running'
    BY <1>7 DEF Measure, Walked, bounds, Running
  <2>2. MeasureStep(c)
    BY <1>0, <1>7, MeasureStepFacts
  <2>3. /\ Known' = Known /\ Steady
        /\ \A d \in Known : d # c => records'[d] = records[d]
        /\ records'[c].kind = records[c].kind
        /\ records'[c].model = records[c].model
        /\ memory'.observations = Observe(memory.observations, c, records')
    BY <2>2, OnlySteady DEF MeasureStep, Only
  <2>4. RanksStay
    <3>1. Correct(c, records) => records[c].measured
      BY <1>0 DEF CandidatesInv, Sane
    <3>2. records[c].measured => records'[c] = records[c]
      BY <2>2 DEF MeasureStep
    <3> QED
      BY <2>3, <3>1, <3>2 DEF RanksStay, Ranked, Correct
  <2>5. AccurateIn(memory.observations, records')
    BY <1>o, <2>3, <2>4, AccurateStays DEF ObservedSaved
  <2>6. c \in DOMAIN records'
    BY <2>3 DEF Known
  <2>7. /\ Prefix(memory.observations, memory'.observations)
        /\ AccurateIn(memory'.observations, records')
        /\ Ranked(c, records') => ObservedIn(memory'.observations, c, records')
        /\ memory.observations # <<>> => memory'.observations # <<>>
    BY <1>0, <2>3, <2>5, <2>6, ObserveFacts
  <2>8. records[c].kind # "repair" => Again(c)'
    <3>1. saved.phase = "selected"
      BY <1>r, <2>1 DEF PhaseOf
    <3>2. records[c].kind # "repair" => c \in saved.ids
      BY <1>0, <2>1 DEF StageInv
    <3> QED
      BY <2>1, <3>1, <3>2 DEF Again
  <2>9. \A d \in Known' : Observable(d)' =>
          \/ d \in Known /\ Ranked(d, records)
          \/ /\ Running' /\ ObservedIn(memory'.observations, d, records')
             /\ records'[d].kind # "repair" => Again(d)'
    <3> SUFFICES ASSUME NEW d \in Known', Observable(d)', ~Ranked(d, records)
                 PROVE  /\ Running' /\ ObservedIn(memory'.observations, d, records')
                        /\ records'[d].kind # "repair" => Again(d)'
      BY <2>3
    <3>1. Ranked(d, records')
      BY DEF Observable
    <3>2. d = c
      BY <2>3, <3>1 DEF Ranked, Correct
    <3> QED
      BY <2>1, <2>3, <2>7, <2>8, <3>1, <3>2
  <2>10. \A d \in Known : Again(d) => Again(d)'
    BY <2>1 DEF Again
  <2>11. \A d \in Known :
           /\ Observable(d) /\ records[d].kind # "repair" /\ forgotten = 0
           /\ Measuring /\ d \in todo
           => \/ ObservedIn(memory'.observations, d, records')
              \/ (Measuring /\ d \in todo)'
    <3> SUFFICES ASSUME NEW d \in Known, Observable(d), d \in todo
                 PROVE  \/ ObservedIn(memory'.observations, d, records')
                        \/ (Measuring /\ d \in todo)'
      OBVIOUS
    <3>1. CASE d = c
      <4>1. Ranked(c, records')
        BY <2>4, <3>1 DEF Observable, RanksStay
      <4> QED
        BY <2>7, <3>1, <4>1
    <3>2. CASE d # c
      BY <2>1, <3>2 DEF Measuring
    <3> QED
      BY <3>1, <3>2
  <2>12. saved'.observations \in {saved.observations, memory.observations}
    BY <2>1
  <2> HIDE DEF Running, ObservedIn, Again, Measuring
  <2> QED
    BY <2>1, <2>3, <2>4, <2>7, <2>9, <2>10, <2>11, <2>12, ObservedKept
<1>8. ASSUME NEW c \in Known, Profiled(c), UNCHANGED <<policy, saved, crashes, forgotten>>,
             Running, Running', ~Measuring
      PROVE  ObservedInv'
  <2>1. ProfileStep(c)
    BY <1>0, <1>8, ProfileStepFacts
  <2>2. /\ Known' = Known /\ Steady
        /\ \A d \in Known : /\ records'[d].model = records[d].model
                            /\ records'[d].latency = records[d].latency
        /\ memory'.observations = memory.observations
    BY <2>1, OnlySteady DEF ProfileStep, Only
  <2>3. RanksStay
    BY <2>2 DEF RanksStay, Ranked, Correct
  <2>4. \A d \in Known' : Observable(d)' => d \in Known /\ Ranked(d, records)
    BY <2>2 DEF Observable, Ranked, Correct
  <2> QED
    BY <1>8, <2>2, <2>3, <2>4, ObservedSame
<1>9. CASE GenerationEnds
  <2>1. saved'.observations = memory.observations
    BY <1>9, CheckpointFields DEF GenerationEnds
  <2> QED
    BY <1>3, <1>9, <2>1 DEF GenerationEnds, Running, Measuring, bounds
<1>10. CASE ModelEnds
  <2>1. saved'.observations = memory.observations
    BY <1>10, CheckpointFields DEF ModelEnds, Save
  <2> QED
    BY <1>3, <1>10, <2>1 DEF ModelEnds, Running, Measuring, bounds
<1>11. CASE Select
  <2>1. saved'.observations = memory.observations
    BY <1>11, CheckpointFields DEF Select
  <2> QED
    BY <1>3, <1>11, <2>1 DEF Select, Running, Measuring, bounds
<1>12. CASE MeasureEnds
  <2>1. CASE policy = "ncu"
    <3>1. /\ UNCHANGED <<policy, records, memory, saved, crashes, forgotten>>
          /\ pc = "measure" /\ pc' = "profile-all" /\ todo = {}
      BY <1>12, <2>1 DEF MeasureEnds, NoRepair, bounds
    <3>2. Running /\ Running'
      BY <3>1 DEF Running
    <3> QED
      BY <1>2, <3>1, <3>2, ObservedSame
  <2>2. CASE policy # "ncu"
    <3>1. saved'.observations = memory.observations
      BY <1>12, <2>2, CheckpointFields DEF MeasureEnds, Save
    <3> QED
      BY <1>3, <1>12, <3>1 DEF MeasureEnds, NoRepair, Running, Measuring, bounds
  <2> QED
    BY <2>1, <2>2
<1>13. CASE ProfileAll
  <2>1. CASE todo = {}
    <3>1. Save("measured") /\ pc = "profile-all" /\ pc' = "profile"
          /\ UNCHANGED <<policy, records, memory, crashes, forgotten>>
      BY <1>13, <2>1 DEF ProfileAll, bounds
    <3>2. saved'.observations = memory.observations
      BY <3>1, CheckpointFields DEF Save
    <3> QED
      BY <1>3, <3>1, <3>2 DEF Running, Measuring
  <2>2. CASE todo # {}
    BY <1>0, <1>8, <1>13, <2>2 DEF ProfileAll, bounds, Running, Measuring
  <2> QED
    BY <2>1, <2>2
<1>14. CASE Milestone
  BY <1>8, <1>14 DEF Milestone, bounds, Running, Measuring
<1>15. CASE RoundEnds
  <2>1. /\ UNCHANGED <<policy, records, memory, crashes, forgotten>>
        /\ saved'.observations = memory.observations
        /\ pc \in {"profile", "finish", "generate"}
        /\ pc' \in {"generate", "over"}
    BY <1>15 DEF RoundEnds, EmptyRound, bounds
  <2>2. Running /\ saved.phase # "selected" /\ ~Measuring
    BY <1>r, <2>1 DEF Running, PhaseOf, Measuring
  <2>3. CASE pc' = "generate"
    BY <1>3, <2>1, <2>2, <2>3 DEF Running
  <2>4. CASE pc' = "over"
    <3>1. ~Running'
      BY <2>4 DEF Running
    <3>2. \A d : ~Again(d)
      BY <2>2 DEF Again
    <3>3. AccurateIn(memory'.observations, records')
      BY <1>o, <2>1 DEF ObservedSaved
    <3> HIDE DEF Running, ObservedIn, Again, Measuring
    <3> QED
      BY <1>2, <2>1, <2>2, <3>1, <3>2, <3>3, ObservedKept
  <2> QED
    BY <2>1, <2>3, <2>4
<1>16. CASE Crash
  <2>1. /\ UNCHANGED <<policy, records, saved, forgotten>> /\ ~Running'
        /\ crashes' # 0 /\ memory'.observations = <<>>
    BY <1>0, <1>16 DEF Crash, Down, Running, TypeInv, NewMemory
  <2>2. AccurateIn(<<>>, records)
    BY DEF AccurateIn
  <2>3. ObservedLast'
    BY <1>o, <2>1 DEF ObservedLast, Observable, Again, Known
  <2>4. ObservedSaved'
    BY <1>o, <2>1, <2>2 DEF ObservedSaved
  <2>5. ObservedOfRun'
    BY <2>1 DEF ObservedOfRun
  <2> QED
    BY <2>3, <2>4, <2>5 DEF ObservedInv
<1>17. CASE OutOfTime
  <2>1. /\ UNCHANGED <<policy, records, crashes>> /\ ~Running' /\ Running
        /\ memory'.observations = <<>>
        /\ \/ Checkpoint(saved.phase, ids, memory, repairs) /\ forgotten' = forgotten
           \/ Checkpoint("", {}, memory, repairs) /\ forgotten' = round
    BY <1>17 DEF OutOfTime, Down, Running, Save, NewMemory
  <2>2. /\ saved'.observations = memory.observations
        /\ \/ /\ saved'.phase = saved.phase /\ saved'.ids = ids
              /\ forgotten' = forgotten
           \/ forgotten' = round
    BY <2>1, CheckpointFields
  <2>n. round # 0
    BY <1>0, RoundIs
  <2>3. \A d \in Known : forgotten' = 0 /\ Again(d) => Again(d)'
    BY <1>r, <2>n, <2>1, <2>2 DEF Again
  <2>4. forgotten # 0 => forgotten' # 0
    BY <2>n, <2>2
  <2>5. AccurateIn(memory'.observations, records')
    <3>1. AccurateIn(<<>>, records)
      BY DEF AccurateIn
    <3> QED
      BY <2>1, <3>1
  <2> HIDE DEF Running, ObservedIn, Again, Measuring
  <2> QED
    BY <1>2, <2>1, <2>2, <2>3, <2>4, <2>5, ObservedKept
<1>18. CASE Resume
  <2>1. /\ UNCHANGED <<policy, records, saved, crashes, forgotten>>
        /\ ids' = saved.ids /\ pc = "down" /\ pc' = Stage(saved.phase)
        /\ todo' = IF pc' \in {"model", "measure"} THEN saved.ids ELSE {}
    BY <1>18 DEF Resume, bounds
  <2>2. memory'.observations = saved.observations
    BY <1>0, <1>18, RestoredIsSaved DEF Resume
  <2>3. ~Running
    BY <2>1 DEF Running
  <2>4. \A d \in Known : Again(d) => (Measuring /\ d \in todo)'
    BY <2>1 DEF Again, Stage, Measuring
  <2>5. ObservedLast'
    BY <1>o, <2>1, <2>2, <2>4 DEF ObservedLast, Observable, Again, Known
  <2>6. ObservedOfRun'
    BY <1>o, <2>1, <2>2, <2>3 DEF ObservedOfRun, Observable, Known
  <2>7. ObservedSaved'
    BY <1>o, <2>1, <2>2 DEF ObservedSaved, Prefix
  <2> QED
    BY <2>5, <2>6, <2>7 DEF ObservedInv
<1>19. CASE UNCHANGED vars
  BY <1>19 DEF vars, bounds, ObservedInv, ObservedSaved, ObservedOfRun, ObservedLast,
               Observable, Again, Measuring, Running, Known
<1> QED
  BY <1>4, <1>5, <1>6, <1>7, <1>9, <1>10, <1>11, <1>12, <1>13, <1>14,
     <1>15, <1>16, <1>17, <1>18, <1>19 DEF Next

(***************************************************************************)
(* MeasurementsLearned for every number of crashes and stops: what a       *)
(* search has measured teaches it a lesson and calibrates its model, once, *)
(* whatever process measured it (controller.py:2300-2326, evidence.py and  *)
(* calibration.py).                                                        *)
(***************************************************************************)
THEOREM MeasurementsAreLearned == Spec => []MeasurementsLearned
<1>1. Init => LessonInv /\ ObservedInv
  BY InitLesson, InitObserved
<1>2. Inv2 /\ (LessonInv /\ ObservedInv) /\ [Next]_vars
        => (LessonInv /\ ObservedInv)'
  BY LessonStep, ObservedStep DEF Inv2
<1>3. LessonInv /\ ObservedInv => MeasurementsLearned
  <2> SUFFICES ASSUME LessonInv, ObservedInv  PROVE MeasurementsLearned
    OBVIOUS
  <2>1. ASSUME NEW i \in DOMAIN memory.observations,
               NEW j \in DOMAIN memory.observations,
               memory.observations[i].of = memory.observations[j].of
        PROVE  i = j
    BY <2>1 DEF ObservedInv, ObservedSaved, AccurateIn
  <2>2. ASSUME Running, ~Measuring, NEW c \in Known, Settled(c)
        PROVE  Learned(c)
    <3>1. /\ Lasting(c)
          /\ crashes = 0 \/ (records[c].kind # "repair" /\ forgotten = 0)
      BY <2>2 DEF Settled, Lasting
    <3>2. Taught(memory.lessons, c)
      BY <2>2, <3>1 DEF LessonInv, LessonsOfRun, LessonsLast
    <3>3. ASSUME Observable(c)
          PROVE  Observed(memory.observations, c)
      <4>1. ObservedIn(memory.observations, c, records)
        BY <2>2, <3>1, <3>3 DEF ObservedInv, ObservedOfRun, ObservedLast
      <4> QED
        BY <4>1 DEF ObservedIn, Observed
    <3> QED
      BY <3>2, <3>3 DEF Learned, Taught, Observable
  <2> QED
    BY <2>1, <2>2 DEF MeasurementsLearned
<1> QED
  BY <1>1, <1>2, <1>3, Inv2Holds, PTL DEF Spec

-----------------------------------------------------------------------------
(* Scales *)

Early == {"", "generated", "modeled"}

LEMMA InitScale == Init => ScaleInv
<1> SUFFICES ASSUME Init, policy = "tilesight"  PROVE ScaleInv
  BY DEF ScaleInv
<1>1. TypeInv /\ CandidatesInv
  BY InitType
<1>2. Known = {Seed} /\ records[Seed].generation = 0 /\ round = 1
  <2>1. PICK r : records = <<r>>
    BY DEF Init
  <2>2. Len(records) = 1
    BY <2>1
  <2>3. Known = 1..1
    BY <1>1, <2>2, KnownIs
  <2>4. Known = {Seed}
    BY <2>3 DEF Seed
  <2>5. round = 1
    BY DEF Init
  <2>6. records[Seed].generation = 0
    BY <1>1, <2>4 DEF CandidatesInv, Sane
  <2> QED
    BY <2>4, <2>5, <2>6
<1>3. memory.observations = saved.observations
  BY DEF Init
<1>4. InRound("proposal") = {}
  BY <1>2 DEF InRound
<1>5. \A c \in Known : records[c].generation # round
  BY <1>2
<1> HIDE DEF InRound
<1> QED
  BY <1>3, <1>4, <1>5 DEF ScaleInv

(* What a step within a round has to show.                                 *)
LEMMA ScaleKept ==
  ASSUME ScaleInv, policy = "tilesight", Steady, round' = round,
         pc' \in {"generate", "model", "select"} =>
           memory'.observations = saved'.observations,
         forgotten' # round' /\ saved'.phase \in Early =>
           /\ forgotten # round /\ saved.phase \in Early
           /\ saved'.observations = saved.observations,
         \A d \in Known' :
           \/ d \in Known /\ records'[d].model = records[d].model
           \/ Scaled(d)'
           \/ saved'.phase = "selected"
  PROVE  ScaleInv'
<1>1. ASSUME forgotten' # round', saved'.phase \in Early,
             NEW c \in Known', records'[c].generation = round'
      PROVE  Scaled(c)'
  <2>1. saved'.phase # "selected"
    BY <1>1 DEF Early
  <2>2. CASE c \in Known /\ records'[c].model = records[c].model
    <3>1. records[c].generation = round
      BY <1>1, <2>2 DEF Steady
    <3>2. Scaled(c)
      BY <1>1, <2>2, <3>1 DEF ScaleInv, Early
    <3> QED
      BY <1>1, <2>2, <3>2 DEF Scaled
  <2> QED
    BY <2>1, <2>2
<1> HIDE DEF Scaled
<1> QED
  BY <1>1 DEF ScaleInv, Early

(* Most steps do not touch a model.                                        *)
LEMMA ScaleSame ==
  ASSUME ScaleInv, policy = "tilesight", Steady, Known' = Known, round' = round,
         \A d \in Known : records'[d].model = records[d].model,
         pc' \in {"generate", "model", "select"} =>
           memory'.observations = saved'.observations,
         forgotten' # round' /\ saved'.phase \in Early =>
           /\ forgotten # round /\ saved.phase \in Early
           /\ saved'.observations = saved.observations
  PROVE  ScaleInv'
BY ScaleKept

LEMMA ScaleStep ==
  ASSUME Inv1, ModelInv, ObservedInv, ScaleInv, [Next]_vars
  PROVE  ScaleInv'
<1> SUFFICES ASSUME policy = "tilesight"  PROVE ScaleInv'
  <2>1. policy' = policy
    BY DEF Next, vars, Propose, GenerationEnds, Model, Repair, ModelEnds, Select,
           ModelRepair, Measure, MeasureEnds, ProfileAll, Milestone, RoundEnds,
           Crash, OutOfTime, Down, Resume
  <2> QED
    BY <2>1 DEF ScaleInv
<1>0. /\ TypeInv /\ CandidatesInv /\ StageInv /\ pc \in Stages
      /\ todo \in SUBSET Known /\ ids \in SUBSET Known /\ todo \subseteq ids
      /\ saved.phase \in Phases
  BY DEF Inv1, TypeInv, StageInv
<1>s. saved \in [phase : Phases, round : Nat, ids : SUBSET Known,
                 repairs : 0..MaxRepairs, observations : Seq(Observation),
                 lessons : SUBSET (Known \X LessonKinds)]
  BY <1>0 DEF TypeInv
<1>r. Running => saved.phase = PhaseOf(pc)
  BY <1>0 DEF StageInv
<1>p. Persist => saved'.phase = saved.phase /\ saved'.observations = memory.observations
  BY <1>s DEF Persist
<1>c. pc \in {"generate", "model", "select"} =>
        memory.observations = saved.observations
  BY DEF ScaleInv
<1>e. /\ pc \in {"generate", "model", "select"} => Running /\ saved.phase \in Early
      /\ Running /\ pc \notin {"generate", "model", "select"} =>
           saved.phase \in {"selected", "measured"}
  BY <1>0, <1>r DEF Running, PhaseOf, Early, Stages
(* Steps that leave the archive alone.                                     *)
<1>1. ASSUME UNCHANGED <<records, round>>,
             pc' \in {"generate", "model", "select"} =>
               memory'.observations = saved'.observations,
             forgotten' # round' /\ saved'.phase \in Early =>
               /\ forgotten # round /\ saved.phase \in Early
               /\ saved'.observations = saved.observations
      PROVE  ScaleInv'
  <2>1. Steady /\ Known' = Known
    BY <1>1 DEF Steady, Known
  <2> QED
    BY <1>1, <2>1, ScaleSame
<1>2. ASSUME NEW parent \in {Seed, Incumbent}, NEW failure \in {"none", "static"},
             Propose(parent, failure)
      PROVE  ScaleInv'
  <2>1. parent \in Known /\ failure \in Failures
    BY <1>0, IncumbentKnown DEF TypeInv, Failures
  <2>2. Added(parent, "proposal", failure)
    BY <1>0, <1>2, <2>1, AddedFacts DEF Propose
  <2>3. /\ pc = "generate" /\ pc' = "generate" /\ ~AllProposed
        /\ UNCHANGED <<round, forgotten>>
        /\ memory'.observations = memory.observations
        /\ Persist \/ UNCHANGED saved
    <3>1. memory'.observations = memory.observations
      BY <1>0, <1>2 DEF Propose, TypeInv
    <3> QED
      BY <1>2, <3>1 DEF Propose, bounds
  <2>4. saved'.observations = saved.observations /\ saved'.phase = saved.phase
    BY <1>c, <1>p, <2>3
  <2>5. \A d \in Known' : \/ d \in Known /\ records'[d] = records[d]
                          \/ ~records'[d].model.valid
    BY <2>2 DEF Added, Proposed, NoModel
  <2>6. \A d \in Known' : (d \in Known /\ Scaled(d) => Scaled(d)')
                          /\ (d \notin Known => Scaled(d)')
    BY <2>4, <2>5 DEF Scaled
  <2>9. ASSUME forgotten' # round', saved'.phase \in {"", "generated", "modeled"},
               NEW c \in Known', records'[c].generation = round'
        PROVE  Scaled(c)'
    <3>1. CASE c \in Known /\ records'[c] = records[c]
      BY <2>3, <2>4, <2>6, <2>9, <3>1 DEF ScaleInv
    <3>2. CASE ~records'[c].model.valid
      BY <3>2 DEF Scaled
    <3> QED
      BY <2>5, <3>1, <3>2
  <2> HIDE DEF Scaled
  <2> QED
    BY <1>c, <2>3, <2>4, <2>9 DEF ScaleInv
<1>3. ASSUME NEW c \in Known, Model(c)
      PROVE  ScaleInv'
  <2>1. /\ UNCHANGED <<round, pc, ids, saved, forgotten>> /\ pc = "model"
        /\ c \in ids
    BY <1>0, <1>3 DEF Model, bounds
  <2>2. CASE UNCHANGED <<records, memory>>
    BY <1>1, <1>c, <2>1, <2>2
  <2>3. CASE ~UNCHANGED <<records, memory>>
    <3>1. PICK model \in Models, failure \in {"none", "model", "infrastructure"} :
            Modelled(c, model, failure)
      BY <1>3, <2>3 DEF Model
    <3>2. ModelStep(c) /\ ~records[c].modelled
      BY <1>0, <1>3, <2>3, <3>1, ModelStepFacts DEF Model
    <3>3. /\ Known' = Known /\ Steady
          /\ \A d \in Known : d # c => records'[d] = records[d]
          /\ memory'.observations = memory.observations
      BY <3>2, OnlySteady DEF ModelStep, Only
    <3>5. Scaled(c)'
      <4>1. memory.observations = saved.observations
        BY <1>c, <2>1
      <4>2. records'[c].model.valid =>
              records'[c].model.scale = Scale(memory.observations, records'[c].model.regime)
        BY <3>2 DEF ModelStep, NoModel
      <4> QED
        BY <2>1, <4>1, <4>2 DEF Scaled
    <3>9. \A d \in Known' : \/ d \in Known /\ records'[d].model = records[d].model
                            \/ Scaled(d)'
      <4> SUFFICES ASSUME NEW d \in Known, d # c
                   PROVE  records'[d].model = records[d].model
        BY <3>3, <3>5
      <4> QED
        BY <3>3
    <3> HIDE DEF Scaled
    <3> QED
      BY <1>c, <2>1, <3>3, <3>9, ScaleKept
  <2> QED
    BY <2>2, <2>3
<1>4. ASSUME NEW c \in Known, ModelRepair(c)
      PROVE  ScaleInv'
  <2>1. /\ UNCHANGED <<round, ids, saved, forgotten>> /\ pc = "model-repair"
        /\ pc' = "measure" /\ records[c].kind = "repair"
    BY <1>0, <1>4 DEF ModelRepair, bounds, StageInv
  <2>2. PICK model \in Models, failure \in {"none", "model", "infrastructure"} :
          Modelled(c, model, failure)
    BY <1>4 DEF ModelRepair
  <2>3. ModelStep(c)
    BY <1>0, <2>2, ModelStepFacts
  <2>4. /\ Known' = Known /\ Steady
        /\ \A d \in Known : d # c => records'[d] = records[d]
    BY <2>3, OnlySteady DEF ModelStep, Only
  <2>5. saved.phase = "selected"
    BY <1>r, <2>1 DEF Running, PhaseOf
  <2> HIDE DEF Scaled
  <2> QED
    BY <2>1, <2>4, <2>5, ScaleKept DEF Early
<1>5. ASSUME NEW c \in Known, Measure(c)
      PROVE  ScaleInv'
  <2>1. /\ UNCHANGED <<round, ids, saved, forgotten>> /\ pc = "measure"
        /\ pc' = "measure" /\ c \in ids
    BY <1>0, <1>5 DEF Measure, bounds
  <2>2. MeasureStep(c)
    BY <1>0, <1>5, MeasureStepFacts
  <2>3. /\ Known' = Known /\ Steady
        /\ \A d \in Known : d # c => records'[d] = records[d]
        /\ records'[c].modelled = records[c].modelled
        /\ records'[c].model = records[c].model
    BY <2>2, OnlySteady DEF MeasureStep, Only
  <2>4. saved.phase = "selected" /\ Running
    BY <1>r, <2>1 DEF Running, PhaseOf
  <2>7. \A d \in Known : records'[d].model = records[d].model
    BY <2>3
  <2> QED
    BY <2>1, <2>3, <2>4, <2>7, ScaleSame DEF Early
<1>6. ASSUME NEW c \in Known, Profiled(c), UNCHANGED <<round, saved, forgotten>>,
             Running, pc \notin {"generate", "model", "select"},
             pc' \notin {"generate", "model", "select"}
      PROVE  ScaleInv'
  <2>1. ProfileStep(c)
    BY <1>0, <1>6, ProfileStepFacts
  <2>2. /\ Known' = Known /\ Steady
        /\ \A d \in Known : /\ records'[d].model = records[d].model
                            /\ records'[d].modelled = records[d].modelled
                            /\ records'[d].failure = records[d].failure
    BY <2>1, OnlySteady DEF ProfileStep, Only
  <2>5. saved'.phase \notin Early
    BY <1>e, <1>6 DEF Early
  <2> QED
    BY <1>6, <2>2, <2>5, ScaleSame
<1>7. ASSUME NEW c \in Known, Repair(c)
      PROVE  ScaleInv'
  <2>1. /\ UNCHANGED <<round, forgotten, memory>> /\ Persist /\ Running
        /\ pc \in {"model", "measure"} /\ pc' \in {pc, Repaired}
    BY <1>7 DEF Repair, CanRepair, bounds, Running
  <2>2. saved'.phase = saved.phase /\ saved'.observations = memory.observations
    BY <1>p, <2>1
  <2>3. \/ saved'.observations = saved.observations
        \/ saved.phase \in {"selected", "measured"}
    BY <1>c, <1>e, <2>1, <2>2
  <2>4. forgotten' # round' /\ saved'.phase \in Early =>
           /\ forgotten # round /\ saved.phase \in Early
           /\ saved'.observations = saved.observations
    BY <2>1, <2>2, <2>3 DEF Early
  <2>5. memory'.observations = saved'.observations
    BY <2>1, <2>2
  <2>6. CASE UNCHANGED records
    BY <1>1, <2>1, <2>4, <2>5, <2>6
  <2>7. CASE ~UNCHANGED records
    <3>1. records' = Append(records, Proposed(round, c, "repair", "none"))
      BY <1>7, <2>7 DEF Repair
    <3>2. Added(c, "repair", "none")
      BY <1>0, <3>1, AddedFacts DEF Failures
    <3>4. \A d \in Known' : \/ d \in Known /\ records'[d] = records[d]
                            \/ ~records'[d].model.valid
      BY <3>2 DEF Added, Proposed, NoModel
    <3>5. \A d \in Known' : \/ d \in Known /\ records'[d].model = records[d].model
                            \/ Scaled(d)'
      BY <3>4 DEF Scaled
    <3>6. Steady /\ \A d \in Known : records'[d] = records[d]
      BY <3>2 DEF Added, Steady
    <3> HIDE DEF Scaled
    <3> QED
      BY <2>1, <2>4, <2>5, <3>5, <3>6, ScaleKept
  <2> QED
    BY <2>6, <2>7
<1>8. CASE GenerationEnds
  <2>1. /\ UNCHANGED <<records, round, forgotten, memory>> /\ pc = "generate"
        /\ saved'.observations = memory.observations
    BY <1>8, CheckpointFields DEF GenerationEnds, bounds
  <2> QED
    BY <1>1, <1>c, <1>e, <2>1
<1>9. CASE ModelEnds
  <2>1. /\ UNCHANGED <<records, round, forgotten, memory>> /\ pc = "model"
        /\ saved'.observations = memory.observations
    BY <1>9, CheckpointFields DEF ModelEnds, Save, bounds
  <2> QED
    BY <1>1, <1>c, <1>e, <2>1
<1>10. CASE Select
  <2>1. /\ UNCHANGED <<records, round, forgotten, memory>> /\ pc = "select"
        /\ saved'.observations = memory.observations
    BY <1>10, CheckpointFields DEF Select, bounds
  <2> QED
    BY <1>1, <1>c, <1>e, <2>1
<1>11. CASE MeasureEnds
  <2>1. /\ UNCHANGED <<records, round, forgotten, memory>> /\ pc = "measure"
        /\ pc' = "profile" /\ Save("measured")
    BY <1>11 DEF MeasureEnds, bounds
  <2>2. saved'.phase = "measured"
    BY <2>1, CheckpointFields DEF Save
  <2> QED
    BY <1>1, <1>e, <2>1, <2>2 DEF Early, Running
<1>12. CASE ProfileAll
  <2>1. CASE todo = {}
    <3>1. /\ UNCHANGED <<records, round, forgotten, memory>> /\ pc = "profile-all"
          /\ pc' = "profile" /\ Save("measured")
      BY <1>12, <2>1 DEF ProfileAll, bounds
    <3>2. saved'.phase = "measured"
      BY <3>1, CheckpointFields DEF Save
    <3> QED
      BY <1>1, <1>e, <3>1, <3>2 DEF Early, Running
  <2>2. CASE todo # {}
    BY <1>0, <1>6, <1>12, <2>2 DEF ProfileAll, bounds, Running
  <2> QED
    BY <2>1, <2>2
<1>13. CASE Milestone
  BY <1>6, <1>13 DEF Milestone, bounds, Running
<1>14. CASE RoundEnds
  <2>1. /\ round' = round + 1 /\ records' = records /\ memory' = memory
        /\ saved'.observations = memory.observations
    BY <1>14 DEF RoundEnds
  <2>2. \A d \in Known : records[d].generation # round + 1
    <3>1. \A d \in Known : /\ records[d].generation <= round
                           /\ records[d].generation \in Nat
      BY <1>0, KnownIs DEF CandidatesInv, Sane, Candidate
    <3> QED
      BY <1>0, <3>1, RoundIs
  <2> QED
    BY <2>1, <2>2 DEF ScaleInv, Known
<1>15. CASE Crash
  <2>1. UNCHANGED <<records, round, saved, forgotten>> /\ pc' = "down"
    BY <1>15 DEF Crash, Down
  <2> QED
    BY <1>1, <2>1
<1>16. CASE OutOfTime
  <2>1. /\ UNCHANGED <<records, round>> /\ pc' = "down" /\ Running
        /\ saved'.observations = memory.observations
        /\ \/ saved'.phase = saved.phase /\ forgotten' = forgotten
           \/ forgotten' = round
    BY <1>16, CheckpointFields DEF OutOfTime, Down, Save
  <2>2. \/ saved'.observations = saved.observations
        \/ saved.phase \in {"selected", "measured"}
    BY <1>c, <1>e, <2>1
  <2>3. forgotten' # round' /\ saved'.phase \in Early =>
          /\ forgotten # round /\ saved.phase \in Early
          /\ saved'.observations = saved.observations
    BY <2>1, <2>2 DEF Early
  <2> QED
    BY <1>1, <2>1, <2>2, <2>3
<1>17. CASE Resume
  <2>1. UNCHANGED <<records, round, saved, forgotten>>
    BY <1>17 DEF Resume, bounds
  <2>2. memory'.observations = saved.observations
    BY <1>0, <1>17, RestoredIsSaved DEF Resume
  <2> QED
    BY <1>1, <2>1, <2>2
<1>18. CASE UNCHANGED vars
  BY <1>1, <1>c, <1>18 DEF vars, bounds
<1> QED
  BY <1>2, <1>3, <1>4, <1>5, <1>7, <1>8, <1>9, <1>10, <1>11, <1>12, <1>13, <1>14,
     <1>15, <1>16, <1>17, <1>18 DEF Next

(***************************************************************************)
(* OneScale for every number of crashes and stops: one selection compares  *)
(* predictions of a regime on one scale, whichever process made them       *)
(* (calibration.py, controller.py:2200-2215 and 2219-2250).                *)
(***************************************************************************)
THEOREM SelectionHasOneScale == Spec => []OneScale
<1>1. Init => LessonInv /\ ObservedInv /\ ScaleInv
  BY InitLesson, InitObserved, InitScale
<1>2. Inv2 /\ (LessonInv /\ ObservedInv /\ ScaleInv) /\ [Next]_vars
        => (LessonInv /\ ObservedInv /\ ScaleInv)'
  BY LessonStep, ObservedStep, ScaleStep DEF Inv2
<1>3. Inv2 /\ ScaleInv => OneScale
  <2> SUFFICES ASSUME TypeInv, CandidatesInv, StageInv, ScaleInv, pc = "select",
                      NEW c \in Promotable, NEW d \in Promotable,
                      forgotten # round,
                      records[c].model.regime = records[d].model.regime
               PROVE  records[c].model.scale = records[d].model.scale
    BY DEF OneScale, Inv1, Inv2
  <2>1. /\ c \in ids /\ d \in ids /\ c \in Known /\ d \in Known
        /\ records[c].generation = round /\ records[d].generation = round
    BY DEF Promotable, TypeInv, StageInv
  <2>2. CASE policy = "ncu"
    <3>1. records[c].model = NoModel /\ records[d].model = NoModel
      BY <2>1, <2>2 DEF CandidatesInv, Sane
    <3> QED
      BY <3>1
  <2>3. CASE policy = "tilesight"
    <3>1. saved.phase = "modeled"
      BY DEF StageInv, Running, PhaseOf
    <3>2. Scaled(c) /\ Scaled(d)
      BY <2>1, <2>3, <3>1 DEF ScaleInv
    <3>3. records[c].model.valid /\ records[d].model.valid
      BY <2>3 DEF Promotable
    <3> QED
      BY <3>2, <3>3 DEF Scaled
  <2> QED
    BY <2>2, <2>3, Constants DEF TypeInv
<1> QED
  BY <1>1, <1>2, <1>3, Inv2Holds, PTL DEF Spec

=============================================================================
