------------------------ MODULE NcuMilestonesProofs ------------------------
(***************************************************************************)
(* What the profile policies promise, for every budget, every batch of     *)
(* kernels and any number of crashes, stops and resumes.                   *)
(*                                                                         *)
(* A resumed round is decided again, from the memory of its checkpoint.    *)
(* The inductive invariant, MilestoneInv, says why that decision profiles  *)
(* no second kernel but an equally fast one: once a kernel was profiled in *)
(* the round, the memory of the checkpoint may lead to the same kernel, or *)
(* it already has the mark of the profile and leads to none.  All that one *)
(* memory leads to has one reason, and is one kernel unless the reason is  *)
(* staleness or a plateau, and equally fast then.                          *)
(***************************************************************************)
EXTENDS NcuMilestones, SequenceTheorems, WellFoundedInduction, TLAPS

-----------------------------------------------------------------------------
(* The milestone decision, as a function of the memory *)

FreeIn(m, S) == S \ m.profiled
GainedFrom(m, pct) ==
  /\ Improved /\ Best \notin m.profiled
  /\ (Lat(before) - Lat(Best)) * 100 >= pct * Lat(before)
DisagreeingFrom(m) ==
  {k \in FreeIn(m, Batch) :
     (kernels[k].predicted < kernels[Parent(k)].predicted)
       # (Lat(k) < Lat(Parent(k)))}
LargestFrom(m) ==
  {k \in DisagreeingFrom(m) : \A j \in DisagreeingFrom(m) : LargerStep(k, j)}
UnsureFrom(m) == {k \in FreeIn(m, Batch) : ~kernels[k].sure}
PlateauFrom(m) == IF Improved THEN 0 ELSE m.plateau + 1

ChoicesFrom(m) ==
  IF GainedFrom(m, BreakthroughPct)
    THEN Choose({Best}, "breakthrough-measured-improvement")
  ELSE IF ~(round - m.last >= MinInterval) THEN {}
  ELSE IF GainedFrom(m, ImprovementPct)
    THEN Choose({Best}, "meaningful-measured-improvement")
  ELSE IF DisagreeingFrom(m) # {}
    THEN Choose(LargestFrom(m), "model-measurement-disagreement")
  ELSE IF UnsureFrom(m) # {}
    THEN Choose(FirstOf(Fastest(UnsureFrom(m))), "low-model-confidence")
  ELSE IF round - m.last >= Larger(MaxStaleness, MinInterval)
    THEN Choose(Fastest(FreeIn(m, Known)), "profile-staleness")
  ELSE IF PlateauFrom(m) >= PlateauRounds
    THEN Choose(Fastest(FreeIn(m, Known)), "search-plateau")
  ELSE {}

-----------------------------------------------------------------------------
(* The inductive invariant *)

Archived ==
  [name : Nat, lat : Nat \ {0}, predicted : Nat \ {0},
   sure : BOOLEAN, onSeed : BOOLEAN, profile : Profile]

(* The checkpoint is that of the active round.                             *)
SavedInv ==
  /\ kernels \in Seq(Archived) /\ kernels # <<>>
  /\ round = saved.round /\ first = saved.first /\ before = saved.before
  /\ stage \in {"measure", "over"} => saved.stage = stage
  /\ stage \in {"decide", "profile", "finish"} => saved.stage = "decide"
  /\ stage = "down" => saved.stage \in {"measure", "decide"}
  /\ saved.stage # "over" => round <= Rounds
  /\ stage \in {"measure", "decide"} => memory = saved.memory
  /\ stage = "profile" => chosen # NoChoice

(* What the decision did to the memory, and the profile after it.          *)
Decided == [saved.memory EXCEPT !.plateau = PlateauFrom(saved.memory)]
Profiled(k) ==
  [last |-> round, plateau |-> PlateauFrom(saved.memory),
   profiled |-> saved.memory.profiled \cup {k}]
DecisionInv ==
  policy = "milestone" =>
    /\ stage = "profile" => memory = Decided /\ chosen \in ChoicesFrom(saved.memory)
    /\ stage = "finish" =>
         \/ /\ chosen = NoChoice /\ ChoicesFrom(saved.memory) = {}
            /\ memory = Decided
         \/ /\ chosen \in ChoicesFrom(saved.memory) /\ chosen # NoChoice
            /\ kernels[chosen.kernel].profile = "valid"
            /\ memory = Profiled(chosen.kernel)
         \/ /\ chosen \in ChoicesFrom(saved.memory) /\ chosen # NoChoice
            /\ kernels[chosen.kernel].profile = "failed"
            /\ memory = Decided

(* The profiles taken so far: each is in the archive.  One of the active   *)
(* round is known to its checkpoint, or the checkpoint may lead to it;     *)
(* the undisputed ones of earlier rounds are known to the checkpoint.      *)
Quiet(m) == m.last = round /\ ~GainedFrom(m, BreakthroughPct)
LeadsTo(m, k) == \E d \in ChoicesFrom(m) : d.kernel = k
TakenInv ==
  /\ \A s \in taken :
       /\ s.kernel \in Known /\ kernels[s.kernel].profile # "none"
       /\ s.round <= round
       /\ saved.stage # "decide" => s.round < round
  /\ policy = "milestone" =>
       \A s \in taken :
         /\ s.round = round =>
              Quiet(saved.memory) \/ LeadsTo(saved.memory, s.kernel)
         /\ s.round < round /\ Undisputed(s.kernel) =>
              s.round <= saved.memory.last

MilestoneInv == TypeOK /\ SavedInv /\ DecisionInv /\ TakenInv /\ EvidenceFresh

-----------------------------------------------------------------------------
(* Lemmas on the policy *)

LEMMA LeastExists ==
  ASSUME NEW S \in SUBSET Nat, S # {}
  PROVE  \E m \in S : \A n \in S : m <= n
<1> DEFINE R == OpToRel(<, Nat)
<1>1. IsWellFoundedOn(R, Nat)
  BY NatLessThanWellFounded
<1> HIDE DEF R
<1>2. PICK m \in S : \A n \in S : ~ (<<n, m>> \in R)
  BY <1>1, WFMin
<1>3. ASSUME NEW n \in S, ~ (m <= n)  PROVE FALSE
  <2>1. n \in Nat /\ m \in Nat /\ n < m
    BY <1>3
  <2>2. <<n, m>> \in R
    BY <2>1 DEF R, OpToRel
  <2> QED
    BY <1>2, <2>2
<1> QED
  BY <1>3

(* What the proofs need to know of the kernels.                            *)
Measurable == kernels \in Seq(Archived) /\ kernels # <<>> /\ before \in Known
                /\ first \in 2..Len(kernels) + 1

LEMMA KernelParts ==
  ASSUME Measurable
  PROVE  /\ Len(kernels) \in Nat /\ Len(kernels) >= 1
         /\ Seed \in Known /\ Batch \subseteq Known /\ Known \subseteq Nat
         /\ \A k \in Known :
              /\ kernels[k] \in Archived
              /\ Lat(k) \in Nat /\ kernels[k].predicted \in Nat
              /\ kernels[k].name \in Nat
              /\ kernels[k].predicted > 0 /\ Parent(k) \in {Seed, before}
              /\ Parent(k) \in Known
<1>1. Len(kernels) \in Nat /\ Len(kernels) >= 1
  BY EmptySeq DEF Measurable
<1>2. \A k \in Known : kernels[k] \in Archived
  BY ElementOfSeq DEF Measurable, Known
<1>3. Seed \in Known /\ Batch \subseteq Known /\ Known \subseteq Nat
  BY <1>1 DEF Seed, Known, Batch, Measurable
<1> QED
  BY <1>1, <1>2, <1>3 DEF Archived, Lat, Parent, Measurable

(* A set of kernels has some that are fastest, one that is listed first,   *)
(* and one that has the first identifier.                                  *)
LEMMA SomeFastest ==
  ASSUME Measurable, NEW S \in SUBSET Known, S # {}
  PROVE  Fastest(S) # {} /\ Fastest(S) \in SUBSET S
<1>0. \A k \in S : k \in Nat /\ Lat(k) \in Nat
  BY KernelParts
<1> DEFINE L == {Lat(k) : k \in S}
<1>1. PICK l \in L : \A n \in L : l <= n
  <2>1. L \in SUBSET Nat /\ L # {}
    BY <1>0
  <2> HIDE DEF L
  <2> QED
    BY <2>1, LeastExists
<1>2. PICK k \in S : Lat(k) = l
  BY <1>1
<1>3. \A j \in S : Lat(k) <= Lat(j)
  BY <1>1, <1>2
<1> QED
  BY <1>2, <1>3 DEF Fastest

LEMMA OneFirst ==
  ASSUME Measurable, NEW S \in SUBSET Known, S # {}
  PROVE  \E k \in S : FirstOf(S) = {k}
<1>0. S \in SUBSET Nat
  BY KernelParts
<1>1. PICK k \in S : \A n \in S : k <= n
  BY <1>0, LeastExists
<1>2. \A j \in S : j <= k => j = k
  BY <1>0, <1>1
<1> QED
  BY <1>1, <1>2 DEF FirstOf

LEMMA OneEarliest ==
  ASSUME Measurable, NEW S \in SUBSET Known, S # {}
  PROVE  \E k \in S : \A j \in S : Earlier(k, j) /\ (Earlier(j, k) => j = k)
<1>0. S \subseteq Nat /\ \A k \in S : k \in Nat /\ kernels[k].name \in Nat
  BY KernelParts
<1> DEFINE N == {kernels[k].name : k \in S}
<1>1. PICK l \in N : \A n \in N : l <= n
  <2>1. N \in SUBSET Nat /\ N # {}
    BY <1>0
  <2> HIDE DEF N
  <2> QED
    BY <2>1, LeastExists
<1> DEFINE F == {k \in S : kernels[k].name = l}
<1>2. PICK k \in F : \A n \in F : k <= n
  <2>1. F \in SUBSET Nat /\ F # {}
    BY <1>0, <1>1
  <2> HIDE DEF F
  <2> QED
    BY <2>1, LeastExists
<1>3. k \in S /\ kernels[k].name = l /\ k \in Nat /\ l \in Nat
  BY <1>0, <1>2
<1>4. ASSUME NEW j \in S  PROVE Earlier(k, j) /\ (Earlier(j, k) => j = k)
  <2>1. l <= kernels[j].name /\ kernels[j].name \in Nat /\ j \in Nat
    BY <1>0, <1>1
  <2>2. kernels[j].name = l => k <= j
    BY <1>2
  <2> QED
    BY <1>3, <2>1, <2>2 DEF Earlier
<1> QED
  BY <1>3, <1>4

(* A set of kernels has one quickest.                                      *)
LEMMA OneQuickest ==
  ASSUME Measurable, NEW S \in SUBSET Known, S # {}
  PROVE  \E k \in S : /\ Quickest(S) = {k}
                      /\ \A j \in S : Quicker(k, j)
<1>0. \A k \in S : Lat(k) \in Nat
  BY KernelParts
<1>1. Fastest(S) # {} /\ Fastest(S) \in SUBSET S
  BY SomeFastest
<1>2. PICK k \in Fastest(S) :
        \A j \in Fastest(S) : Earlier(k, j) /\ (Earlier(j, k) => j = k)
  BY <1>1, OneEarliest
<1>3. k \in S /\ \A j \in S : Lat(k) <= Lat(j)
  BY <1>2 DEF Fastest
<1>4. ASSUME NEW j \in S  PROVE Quicker(k, j) /\ (Quicker(j, k) => j = k)
  <2>1. Lat(k) \in Nat /\ Lat(j) \in Nat /\ Lat(k) <= Lat(j)
    BY <1>0, <1>3
  <2>2. CASE Lat(j) = Lat(k)
    <3>1. j \in Fastest(S)
      BY <1>3, <2>2 DEF Fastest
    <3> QED
      BY <1>2, <2>1, <2>2, <3>1 DEF Quicker
  <2>3. CASE Lat(j) # Lat(k)
    BY <2>1, <2>3 DEF Quicker
  <2> QED
    BY <2>2, <2>3
<1>5. Quickest(S) = {k}
  BY <1>3, <1>4 DEF Quickest
<1> QED
  BY <1>3, <1>4, <1>5

(* The incumbent is the quickest of all, and nothing else is.              *)
LEMMA BestIsQuickest ==
  ASSUME Measurable
  PROVE  /\ Best \in Known /\ \A j \in Known : Quicker(Best, j)
         /\ \A k \in Known : (\A j \in Known : Quicker(k, j)) => k = Best
<1>1. Known # {} /\ Known \in SUBSET Known
  BY KernelParts
<1>2. PICK k \in Known : Quickest(Known) = {k} /\ \A j \in Known : Quicker(k, j)
  BY <1>1, OneQuickest
<1>3. Best \in Known /\ \A j \in Known : Quicker(Best, j)
  BY <1>2 DEF Best
<1>4. \A i \in Known : (\A j \in Known : Quicker(i, j)) => i \in Quickest(Known)
  BY DEF Quickest
<1> QED
  BY <1>2, <1>3, <1>4

(* Fractions over the two parents there are compare as weights.            *)
Weight(k) ==
  IF Parent(k) = Seed THEN PredictedStep(k) * kernels[before].predicted
                      ELSE PredictedStep(k) * kernels[Seed].predicted

LEMMA TimesKeepsOrder ==
  ASSUME NEW x \in Nat, NEW y \in Nat, NEW a \in Nat, a > 0
  PROVE  /\ x * a \in Nat
         /\ x * a > y * a <=> x > y
         /\ x * a = y * a <=> x = y
<1>1. x * a \in Nat /\ y * a \in Nat
  OBVIOUS
<1>2. ASSUME NEW p \in Nat, NEW q \in Nat, p > q
      PROVE  p * a > q * a
  <2>1. p - q \in Nat /\ p - q >= 1 /\ p = q + (p - q)
    BY <1>2
  <2> DEFINE d == p - q
  <2>2. d \in Nat /\ d >= 1 /\ p = q + d
    BY <2>1
  <2> HIDE DEF d
  <2>3. (q + d) * a = q * a + d * a
    BY <2>2
  <2>4. d * a >= 1
    BY <2>2
  <2>5. q * a \in Nat /\ d * a \in Nat
    BY <2>2
  <2> QED
    BY <2>2, <2>3, <2>4, <2>5
<1>3. x > y => x * a > y * a
  BY <1>2
<1>4. y > x => y * a > x * a
  BY <1>2
<1> QED
  BY <1>1, <1>3, <1>4

LEMMA StepIsNat ==
  ASSUME Measurable, NEW k \in Known
  PROVE  PredictedStep(k) \in Nat /\ Weight(k) \in Nat
<1>1. /\ kernels[k].predicted \in Nat /\ kernels[Parent(k)].predicted \in Nat
      /\ kernels[before].predicted \in Nat /\ kernels[Seed].predicted \in Nat
  BY KernelParts DEF Measurable
<1>2. PredictedStep(k) \in Nat
  BY <1>1 DEF PredictedStep
<1> QED
  BY <1>1, <1>2 DEF Weight

LEMMA LargerStepIsWeight ==
  ASSUME Measurable, NEW k \in Known, NEW j \in Known
  PROVE  LargerStep(k, j) <=>
           Weight(k) > Weight(j) \/ (Weight(k) = Weight(j) /\ Earlier(j, k))
<1> DEFINE a == kernels[Seed].predicted
           b == kernels[before].predicted
           x == PredictedStep(k)
           y == PredictedStep(j)
<1>1. a \in Nat /\ a > 0 /\ b \in Nat /\ b > 0
  BY KernelParts DEF Measurable
<1>2. x \in Nat /\ y \in Nat
  BY StepIsNat
<1>3. /\ Parent(k) = Seed \/ Parent(k) = before
      /\ Parent(j) = Seed \/ Parent(j) = before
  BY KernelParts
<1>4. /\ x * a > y * a <=> x > y
      /\ x * a = y * a <=> x = y
      /\ x * b > y * b <=> x > y
      /\ x * b = y * b <=> x = y
  BY <1>1, <1>2, TimesKeepsOrder
<1>5. LargerStep(k, j) <=>
        \/ x * kernels[Parent(j)].predicted > y * kernels[Parent(k)].predicted
        \/ /\ x * kernels[Parent(j)].predicted = y * kernels[Parent(k)].predicted
           /\ Earlier(j, k)
  BY DEF LargerStep
<1>6. /\ Weight(k) = IF Parent(k) = Seed THEN x * b ELSE x * a
      /\ Weight(j) = IF Parent(j) = Seed THEN y * b ELSE y * a
  BY DEF Weight
<1>7. /\ kernels[Parent(k)].predicted = IF Parent(k) = Seed THEN a ELSE b
      /\ kernels[Parent(j)].predicted = IF Parent(j) = Seed THEN a ELSE b
  BY <1>3
<1> HIDE DEF a, b, x, y
<1>8. CASE Parent(k) = Seed /\ Parent(j) = Seed
  BY <1>4, <1>5, <1>6, <1>7, <1>8
<1>9. CASE Parent(k) = Seed /\ Parent(j) # Seed
  BY <1>5, <1>6, <1>7, <1>9
<1>10. CASE Parent(k) # Seed /\ Parent(j) = Seed
  BY <1>5, <1>6, <1>7, <1>10
<1>11. CASE Parent(k) # Seed /\ Parent(j) # Seed
  BY <1>4, <1>5, <1>6, <1>7, <1>11
<1> QED
  BY <1>8, <1>9, <1>10, <1>11

Heavier(k, j) ==
  Weight(k) > Weight(j) \/ (Weight(k) = Weight(j) /\ Earlier(j, k))

LEMMA OneMore ==
  ASSUME Measurable, NEW S \in SUBSET Known, NEW n \in Nat, NEW k \in S,
         \A j \in S : j <= n - 1 => Heavier(k, j)
  PROVE  \E i \in S : \A j \in S : j <= n => Heavier(i, j)
<1>0. \A i \in S : i \in Nat /\ Weight(i) \in Nat /\ kernels[i].name \in Nat
  BY KernelParts, StepIsNat
<1>1. \A j \in S : j <= n => j <= n - 1 \/ j = n
  BY <1>0
<1>2. CASE n \notin S \/ Heavier(k, n)
  BY <1>1, <1>2
<1>3. CASE n \in S /\ ~Heavier(k, n)
  <2>1. ASSUME NEW j \in S, j <= n  PROVE Heavier(n, j)
    <3>1. /\ k \in Nat /\ Weight(k) \in Nat /\ Weight(n) \in Nat
          /\ j \in Nat /\ Weight(j) \in Nat
          /\ {kernels[k].name, kernels[n].name, kernels[j].name} \subseteq Nat
      BY <1>0, <1>3
    <3>2. j = n \/ Heavier(k, j)
      BY <1>1, <2>1
    <3> QED
      BY <1>3, <3>1, <3>2 DEF Heavier, Earlier
  <2> QED
    BY <1>3, <2>1
<1> QED
  BY <1>2, <1>3

(* A set of kernels has one that the model misjudged most.                 *)
LEMMA OneLargest ==
  ASSUME Measurable, NEW S \in SUBSET Known, S # {}
  PROVE  \E k \in S : {i \in S : \A j \in S : LargerStep(i, j)} = {k}
<1>0. \A k \in S : /\ k \in Nat /\ Weight(k) \in Nat /\ k <= Len(kernels) /\ k >= 1
                   /\ kernels[k].name \in Nat
  <2>1. \A k \in S : k \in Nat /\ k <= Len(kernels) /\ k >= 1
    BY KernelParts DEF Known
  <2>2. \A k \in S : kernels[k].name \in Nat
    BY KernelParts
  <2>3. \A k \in S : Weight(k) \in Nat
    BY StepIsNat
  <2> QED
    BY <2>1, <2>2, <2>3
<1>n. Len(kernels) \in Nat
  BY KernelParts
<1> DEFINE Above(k, j) ==
             Weight(k) > Weight(j) \/ (Weight(k) = Weight(j) /\ Earlier(j, k))
           Upto(n) == \E k \in S : \A j \in S : j <= n => Above(k, j)
           Bad == {n \in Nat : ~Upto(n)}
<1>1. Bad = {}
  <2> SUFFICES ASSUME Bad # {}  PROVE FALSE
    OBVIOUS
  <2>1. PICK n \in Bad : \A m \in Bad : n <= m
    <3>1. Bad \in SUBSET Nat /\ Bad # {}
      OBVIOUS
    <3> HIDE DEF Bad
    <3> QED
      BY <3>1, LeastExists
  <2>2. n \in Nat /\ ~Upto(n)
    BY <2>1
  <2>3. n # 0
    <3>1. CASE n = 0
      <4>1. \A j \in S : ~(j <= 0)
        BY <1>0
      <4>2. Upto(0)
        BY <4>1
      <4> QED
        BY <2>2, <3>1, <4>2
    <3> QED
      BY <3>1
  <2>4. n - 1 \in Nat /\ Upto(n - 1)
    <3>1. n - 1 \in Nat /\ ~(n <= n - 1)
      BY <2>2, <2>3
    <3>2. n - 1 \notin Bad
      BY <2>1, <3>1
    <3> QED
      BY <3>1, <3>2
  <2>5. PICK k \in S : \A j \in S : j <= n - 1 => Above(k, j)
    BY <2>4
  <2>6. \E i \in S : \A j \in S : j <= n => Above(i, j)
    <3>1. n \in Nat
      BY <2>2
    <3> HIDE DEF Bad
    <3> QED
      BY <2>5, <3>1, OneMore DEF Heavier
  <2> QED
    BY <2>2, <2>6
<1>2. PICK k \in S : \A j \in S : j <= Len(kernels) => Above(k, j)
  BY <1>1, <1>n
<1>3. \A i, j \in S : LargerStep(i, j) <=> Above(i, j)
  BY LargerStepIsWeight
<1>4. \A j \in S : LargerStep(k, j)
  BY <1>0, <1>2, <1>3
<1>5. ASSUME NEW i \in S, \A j \in S : LargerStep(i, j)
      PROVE  i = k
  <2>1. Above(i, k) /\ Above(k, i)
    BY <1>3, <1>4, <1>5
  <2> QED
    BY <1>0, <2>1 DEF Earlier
<1> QED
  BY <1>4, <1>5

(* The decision of the model is a function of the memory.                  *)
LEMMA ChoicesOfMemory == MilestoneChoices = ChoicesFrom(memory)
<1>1. /\ \A S : Unprofiled(S) = FreeIn(memory, S)
      /\ \A pct : Gained(pct) = GainedFrom(memory, pct)
      /\ Disagreeing = DisagreeingFrom(memory)
      /\ LowConfidence = UnsureFrom(memory)
      /\ Plateau = PlateauFrom(memory)
  BY DEF Unprofiled, FreeIn, Gained, GainedFrom, Disagreeing, DisagreeingFrom,
         LowConfidence, UnsureFrom, Plateau, PlateauFrom
<1>2. LargestDisagreement = LargestFrom(memory)
  BY <1>1 DEF LargestDisagreement, LargestFrom
<1> QED
  BY <1>1, <1>2 DEF MilestoneChoices, ChoicesFrom, SpacingReady, Stale

(* It chooses none, for staleness only if no kernel is left; or one kernel *)
(* without a mark, out of turn only for a breakthrough; or, for staleness  *)
(* or a plateau, any of the fastest without a mark.                        *)
Tied == {"profile-staleness", "search-plateau"}

LEMMA ChoicesCases ==
  ASSUME Measurable, NEW m
  PROVE  \/ /\ ChoicesFrom(m) = {} /\ ~GainedFrom(m, BreakthroughPct)
            /\ round - m.last >= MinInterval =>
                 \/ ~(round - m.last >= Larger(MaxStaleness, MinInterval))
                 \/ FreeIn(m, Known) = {}
         \/ \E k \in FreeIn(m, Known) : \E reason \in Reasons :
              /\ ChoicesFrom(m) = Choose({k}, reason)
              /\ \/ reason = "breakthrough-measured-improvement"
                 \/ round - m.last >= MinInterval
         \/ \E reason \in Tied :
              /\ ChoicesFrom(m) = Choose(Fastest(FreeIn(m, Known)), reason)
              /\ FreeIn(m, Known) # {} /\ round - m.last >= MinInterval
<1> DEFINE free == FreeIn(m, Known)
           One(S, reason) == ChoicesFrom(m) = Choose(S, reason)
<1>r. \A reason : Choose({}, reason) = {}
  BY DEF Choose
<1>2. Best \in Known /\ Known # {} /\ Batch \subseteq Known
  BY BestIsQuickest, KernelParts
<1>3. \A S \in SUBSET free : S # {} => \E k \in free : FirstOf(Fastest(S)) = {k}
  <2> SUFFICES ASSUME NEW S \in SUBSET free, S # {}
               PROVE  \E k \in free : FirstOf(Fastest(S)) = {k}
    OBVIOUS
  <2>1. S \in SUBSET Known
    BY DEF FreeIn
  <2>2. Fastest(S) # {} /\ Fastest(S) \in SUBSET S
    BY <2>1, SomeFastest
  <2>3. PICK k \in Fastest(S) : FirstOf(Fastest(S)) = {k}
    BY <2>1, <2>2, OneFirst
  <2> QED
    BY <2>2, <2>3
<1>4. /\ DisagreeingFrom(m) \in SUBSET free
      /\ UnsureFrom(m) \in SUBSET free /\ free \in SUBSET free
  BY <1>2 DEF DisagreeingFrom, UnsureFrom, FreeIn
<1>5. DisagreeingFrom(m) # {} => \E k \in free : LargestFrom(m) = {k}
  BY <1>4, OneLargest DEF LargestFrom, FreeIn
<1>6. {"breakthrough-measured-improvement", "meaningful-measured-improvement",
       "model-measurement-disagreement", "low-model-confidence"} \subseteq Reasons
  BY DEF Reasons
<1>7. CASE GainedFrom(m, BreakthroughPct)
  <2>1. One({Best}, "breakthrough-measured-improvement")
    BY <1>7 DEF ChoicesFrom
  <2>2. Best \in free
    BY <1>2, <1>7 DEF GainedFrom, FreeIn
  <2> QED
    BY <1>6, <2>1, <2>2
<1>8. CASE ~GainedFrom(m, BreakthroughPct) /\ ~(round - m.last >= MinInterval)
  <2>1. ChoicesFrom(m) = {}
    BY <1>8 DEF ChoicesFrom
  <2> QED
    BY <1>8, <2>1
<1>9. CASE ~GainedFrom(m, BreakthroughPct) /\ round - m.last >= MinInterval
  <2>1. CASE GainedFrom(m, ImprovementPct)
    <3>1. One({Best}, "meaningful-measured-improvement")
      BY <1>9, <2>1 DEF ChoicesFrom
    <3>2. Best \in free
      BY <1>2, <2>1 DEF GainedFrom, FreeIn
    <3> QED
      BY <1>6, <1>9, <3>1, <3>2
  <2>2. CASE ~GainedFrom(m, ImprovementPct) /\ DisagreeingFrom(m) # {}
    <3>1. One(LargestFrom(m), "model-measurement-disagreement")
      BY <1>9, <2>2 DEF ChoicesFrom
    <3>2. PICK k \in free : LargestFrom(m) = {k}
      BY <1>5, <2>2
    <3> QED
      BY <1>6, <1>9, <3>1, <3>2
  <2>3. CASE /\ ~GainedFrom(m, ImprovementPct) /\ DisagreeingFrom(m) = {}
             /\ UnsureFrom(m) # {}
    <3>1. One(FirstOf(Fastest(UnsureFrom(m))), "low-model-confidence")
      BY <1>9, <2>3 DEF ChoicesFrom
    <3>2. PICK k \in free : FirstOf(Fastest(UnsureFrom(m))) = {k}
      BY <1>3, <1>4, <2>3
    <3> QED
      BY <1>6, <1>9, <3>1, <3>2
  <2>4. CASE /\ ~GainedFrom(m, ImprovementPct) /\ DisagreeingFrom(m) = {}
             /\ UnsureFrom(m) = {}
    <3>1. CASE \/ round - m.last >= Larger(MaxStaleness, MinInterval)
               \/ PlateauFrom(m) >= PlateauRounds
      <4>1. \E reason \in Tied : One(Fastest(free), reason)
        BY <1>9, <2>4, <3>1 DEF ChoicesFrom, Tied
      <4>2. CASE free = {}
        <5>1. Fastest(free) = {}
          BY <4>2 DEF Fastest
        <5>2. ChoicesFrom(m) = {}
          BY <1>r, <4>1, <5>1
        <5> QED
          BY <1>9, <4>2, <5>2
      <4>3. CASE free # {}
        BY <1>9, <4>1, <4>3
      <4> QED
        BY <4>2, <4>3
    <3>2. CASE /\ ~(round - m.last >= Larger(MaxStaleness, MinInterval))
               /\ ~(PlateauFrom(m) >= PlateauRounds)
      <4>1. ChoicesFrom(m) = {}
        BY <1>9, <2>4, <3>2 DEF ChoicesFrom
      <4> QED
        BY <1>9, <3>2, <4>1
    <3> QED
      BY <3>1, <3>2
  <2> QED
    BY <2>1, <2>2, <2>3, <2>4
<1> QED
  BY <1>7, <1>8, <1>9

LEMMA ChoiceParts ==
  ASSUME NEW S, NEW reason, NEW d \in Choose(S, reason)
  PROVE  d.kernel \in S /\ d.reason = reason /\ d = [kernel |-> d.kernel, reason |-> reason]
BY DEF Choose

(* What it chooses has no mark, and is out of turn for a breakthrough only.*)
LEMMA ChoicesShape ==
  ASSUME Measurable, NEW m
  PROVE  /\ ChoicesFrom(m) = {} =>
              /\ ~GainedFrom(m, BreakthroughPct)
              /\ round - m.last >= MinInterval =>
                   \/ ~(round - m.last >= Larger(MaxStaleness, MinInterval))
                   \/ FreeIn(m, Known) = {}
         /\ \A d \in ChoicesFrom(m) :
              /\ d.kernel \in FreeIn(m, Known) /\ d.reason \in Reasons
              /\ d = [kernel |-> d.kernel, reason |-> d.reason]
              /\ \/ d.reason = "breakthrough-measured-improvement"
                 \/ round - m.last >= MinInterval
<1> DEFINE free == FreeIn(m, Known)
<1>1. CASE ChoicesFrom(m) = {}
  <2>1. \A k, reason : Choose({k}, reason) # {}
    BY DEF Choose
  <2>2. free # {} => Fastest(free) # {}
    BY SomeFastest DEF FreeIn
  <2>3. \A S, reason : S # {} => Choose(S, reason) # {}
    BY DEF Choose
  <2>4. \A reason : free # {} => Choose(Fastest(free), reason) # {}
    BY <2>2, <2>3
  <2> QED
    BY <1>1, <2>1, <2>4, ChoicesCases
<1>2. ASSUME NEW k \in free, NEW reason \in Reasons,
             ChoicesFrom(m) = Choose({k}, reason),
             \/ reason = "breakthrough-measured-improvement"
             \/ round - m.last >= MinInterval,
             NEW d \in ChoicesFrom(m)
      PROVE  /\ d.kernel \in free /\ d.reason \in Reasons
             /\ d = [kernel |-> d.kernel, reason |-> d.reason]
             /\ \/ d.reason = "breakthrough-measured-improvement"
                \/ round - m.last >= MinInterval
  <2>1. d.kernel \in {k} /\ d.reason = reason
        /\ d = [kernel |-> d.kernel, reason |-> reason]
    BY <1>2, ChoiceParts
  <2> QED
    BY <1>2, <2>1
<1>3. ASSUME NEW reason \in Tied, ChoicesFrom(m) = Choose(Fastest(free), reason),
             round - m.last >= MinInterval, NEW d \in ChoicesFrom(m)
      PROVE  /\ d.kernel \in free /\ d.reason \in Reasons
             /\ d = [kernel |-> d.kernel, reason |-> d.reason]
             /\ \/ d.reason = "breakthrough-measured-improvement"
                \/ round - m.last >= MinInterval
  <2>1. d.kernel \in Fastest(free) /\ d.reason = reason
        /\ d = [kernel |-> d.kernel, reason |-> reason]
    BY <1>3, ChoiceParts
  <2>2. reason \in Reasons /\ d.kernel \in free
    BY <2>1 DEF Tied, Reasons, Fastest
  <2> QED
    BY <1>3, <2>1, <2>2
<1> QED
  BY <1>1, <1>2, <1>3, ChoicesCases

(* One memory has one reason, and leads to one kernel or to equally fast   *)
(* ones.                                                                   *)
Alike(d, e) ==
  /\ d.reason = e.reason
  /\ \/ d.kernel = e.kernel
     \/ d.reason \in Tied /\ AsFast(d.kernel, e.kernel)

LEMMA ChoicesAgree ==
  ASSUME Measurable, NEW m, NEW d \in ChoicesFrom(m), NEW e \in ChoicesFrom(m)
  PROVE  Alike(d, e)
<1> DEFINE free == FreeIn(m, Known)
<1>1. ASSUME NEW k, NEW reason, ChoicesFrom(m) = Choose({k}, reason)
      PROVE  Alike(d, e)
  <2>1. d.kernel \in {k} /\ d.reason = reason /\ e.kernel \in {k} /\ e.reason = reason
    BY <1>1, ChoiceParts
  <2> QED
    BY <2>1 DEF Alike
<1>2. ASSUME NEW reason \in Tied, ChoicesFrom(m) = Choose(Fastest(free), reason)
      PROVE  Alike(d, e)
  <2>1. /\ d.kernel \in Fastest(free) /\ d.reason = reason
        /\ e.kernel \in Fastest(free) /\ e.reason = reason
    BY <1>2, ChoiceParts
  <2>2. /\ d.kernel \in Known /\ e.kernel \in Known
        /\ Lat(d.kernel) <= Lat(e.kernel) /\ Lat(e.kernel) <= Lat(d.kernel)
    BY <2>1 DEF Fastest, FreeIn
  <2>3. Lat(d.kernel) \in Nat /\ Lat(e.kernel) \in Nat
    BY <2>2, KernelParts
  <2>4. Lat(d.kernel) = Lat(e.kernel)
    BY <2>2, <2>3
  <2> QED
    BY <1>2, <2>1, <2>4 DEF Alike, AsFast
<1> QED
  BY <1>1, <1>2, ChoicesCases

(* After a profile of this round, nothing more is chosen in it.            *)
LEMMA QuietChoosesNone ==
  ASSUME NEW m, Quiet(m), round \in Nat
  PROVE  ChoicesFrom(m) = {}
<1>1. ~GainedFrom(m, BreakthroughPct) /\ round - m.last = 0
  BY DEF Quiet
<1>2. ~(round - m.last >= MinInterval)
  BY <1>1, MilestonesAssumption
<1> QED
  BY <1>1, <1>2 DEF ChoicesFrom

(* The plateau that a decision counts does not change it, since a count    *)
(* that led to a kernel only grows.                                        *)
LEMMA PlateauKeepsChoice ==
  ASSUME Measurable, NEW m \in Memory, NEW k, LeadsTo(m, k)
  PROVE  LeadsTo([m EXCEPT !.plateau = PlateauFrom(m)], k)
<1> DEFINE p == PlateauFrom(m)
           d == [m EXCEPT !.plateau = p]
<1>1. d.profiled = m.profiled /\ d.last = m.last /\ d.plateau = p
  BY DEF Memory
<1>2. m.plateau \in Nat /\ PlateauRounds \in Nat /\ PlateauRounds > 0
  BY MilestonesAssumption DEF Memory
<1>3. PlateauFrom(m) >= PlateauRounds => PlateauFrom(d) >= PlateauRounds
  BY <1>1, <1>2 DEF PlateauFrom
<1> HIDE DEF d
<1>4. /\ \A S : FreeIn(d, S) = FreeIn(m, S)
      /\ \A pct : GainedFrom(d, pct) = GainedFrom(m, pct)
  BY <1>1 DEF FreeIn, GainedFrom
<1>5. DisagreeingFrom(d) = DisagreeingFrom(m) /\ UnsureFrom(d) = UnsureFrom(m)
  BY <1>4 DEF DisagreeingFrom, UnsureFrom
<1>6. LargestFrom(d) = LargestFrom(m)
  BY <1>5 DEF LargestFrom
<1>7. ChoicesFrom(m) # {}
  BY DEF LeadsTo
<1>8. ChoicesFrom(d) = ChoicesFrom(m)
  BY <1>1, <1>3, <1>4, <1>5, <1>6, <1>7 DEF ChoicesFrom
<1>9. LeadsTo(d, k)
  BY <1>8 DEF LeadsTo
<1> QED
  BY <1>9 DEF d

(* The choice depends on what was measured and not on other profiles.      *)
SameMeasurements ==
  /\ round' = round /\ first' = first /\ before' = before
  /\ Len(kernels') = Len(kernels)
  /\ \A k \in Known :
       /\ kernels'[k].name = kernels[k].name
       /\ kernels'[k].lat = kernels[k].lat
       /\ kernels'[k].predicted = kernels[k].predicted
       /\ kernels'[k].sure = kernels[k].sure
       /\ kernels'[k].onSeed = kernels[k].onSeed

LEMMA SameChoices ==
  ASSUME Measurable, SameMeasurements, NEW m
  PROVE  /\ ChoicesFrom(m)' = ChoicesFrom(m)
         /\ PlateauFrom(m)' = PlateauFrom(m)
         /\ GainedFrom(m, BreakthroughPct)' <=> GainedFrom(m, BreakthroughPct)
<1>1. Known' = Known /\ Batch' = Batch
  BY DEF Known, Batch, SameMeasurements
<1>2. /\ \A k \in Known : Lat(k)' = Lat(k) /\ Parent(k)' = Parent(k)
      /\ Lat(before)' = Lat(before)
      /\ Seed \in Known /\ before \in Known /\ before' = before
  BY KernelParts DEF SameMeasurements, Lat, Parent, Measurable
<1>3. \A j, k \in Known : /\ Earlier(j, k)' = Earlier(j, k)
                            /\ Quicker(j, k)' = Quicker(j, k)
  BY <1>2 DEF Quicker, Earlier, SameMeasurements
<1>4. Best' = Best
  <2>1. Best \in Known' /\ \A j \in Known' : Quicker(Best, j)
    BY <1>1, BestIsQuickest
  <2>2. \E k \in Known' : \A j \in Known' : Quicker(k, j)'
    BY <1>1, <1>3, <2>1
  <2>3. PICK b : b = Best'
    OBVIOUS
  <2>4. b \in Known' /\ \A j \in Known' : Quicker(b, j)'
    BY <2>2, <2>3 DEF Best
  <2>5. b \in Known /\ \A j \in Known : Quicker(b, j)
    BY <1>1, <1>3, <2>4
  <2> QED
    BY <2>3, <2>5, BestIsQuickest
<1>5. (Improved' <=> Improved) /\ Best \in Known /\ Lat(Best)' = Lat(Best)
  BY <1>2, <1>4, BestIsQuickest DEF Improved
<1>6. /\ \A S \in SUBSET Known : FreeIn(m, S)' = FreeIn(m, S)
      /\ FreeIn(m, Known)' = FreeIn(m, Known)
      /\ FreeIn(m, Batch)' = FreeIn(m, Batch)
      /\ FreeIn(m, Batch) \subseteq Known /\ FreeIn(m, Known) \subseteq Known
      /\ UnsureFrom(m) \subseteq Known /\ DisagreeingFrom(m) \subseteq Known
  BY <1>1, KernelParts DEF FreeIn, UnsureFrom, DisagreeingFrom
<1>7. \A pct : GainedFrom(m, pct)' <=> GainedFrom(m, pct)
  BY <1>2, <1>4, <1>5 DEF GainedFrom
<1>8. \A k \in Known :
        /\ kernels'[k].predicted = kernels[k].predicted
        /\ kernels'[k].sure = kernels[k].sure
        /\ Parent(k) \in Known
        /\ kernels'[Parent(k)'].predicted = kernels[Parent(k)].predicted
        /\ Lat(Parent(k))' = Lat(Parent(k))
  BY <1>2, KernelParts DEF SameMeasurements
<1>9. DisagreeingFrom(m)' = DisagreeingFrom(m) /\ UnsureFrom(m)' = UnsureFrom(m)
  BY <1>2, <1>6, <1>8 DEF DisagreeingFrom, UnsureFrom
<1>10. \A j, k \in Known : LargerStep(k, j)' = LargerStep(k, j)
  BY <1>3, <1>8 DEF LargerStep, PredictedStep
<1>11. LargestFrom(m)' = LargestFrom(m)
  BY <1>6, <1>9, <1>10 DEF LargestFrom
<1>12. \A S \in SUBSET Known : Fastest(S)' = Fastest(S)
  BY <1>2 DEF Fastest
<1>13. /\ FirstOf(Fastest(UnsureFrom(m)))' = FirstOf(Fastest(UnsureFrom(m)))
       /\ Fastest(FreeIn(m, Known))' = Fastest(FreeIn(m, Known))
  BY <1>2, <1>6, <1>9 DEF Fastest, FirstOf
<1>14. PlateauFrom(m)' = PlateauFrom(m)
  BY <1>5 DEF PlateauFrom
<1>15. ChoicesFrom(m)' = ChoicesFrom(m)
  BY <1>4, <1>6, <1>7, <1>9, <1>11, <1>13, <1>14
     DEF ChoicesFrom, SameMeasurements
<1> QED
  BY <1>7, <1>14, <1>15

LEMMA SameLead ==
  ASSUME Measurable, SameMeasurements, NEW m, saved'.memory = m
  PROVE  /\ ChoicesFrom(saved.memory)' = ChoicesFrom(m)
         /\ PlateauFrom(saved.memory)' = PlateauFrom(m)
         /\ Quiet(saved.memory)' <=> Quiet(m)
         /\ \A k : LeadsTo(saved.memory, k)' <=> LeadsTo(m, k)
<1>1. /\ ChoicesFrom(saved.memory)' = ChoicesFrom(m)
      /\ PlateauFrom(saved.memory)' = PlateauFrom(m)
      /\ GainedFrom(saved.memory, BreakthroughPct)'
           <=> GainedFrom(m, BreakthroughPct)
  BY SameChoices
<1>2. Quiet(saved.memory)' <=> Quiet(m)
  BY <1>1 DEF Quiet, SameMeasurements
<1>3. \A k : LeadsTo(saved.memory, k)' <=> LeadsTo(m, k)
  BY <1>1 DEF LeadsTo, Choose
<1> QED
  BY <1>1, <1>2, <1>3

(* What is undisputed after a step was so before it.                       *)
LEMMA StaysDisputed ==
  ASSUME Known \subseteq Known', \A j \in Known : Lat(j)' = Lat(j),
         \A j \in Known : kernels[j].profile = "failed" =>
                             kernels'[j].profile = "failed",
         NEW k \in Known, kernels'[k].profile = kernels[k].profile,
         Undisputed(k)'
  PROVE  Undisputed(k)
BY DEF Undisputed, AsFast

LEMMA SameDisputes ==
  ASSUME kernels' = kernels, NEW k
  PROVE  Undisputed(k)' <=> Undisputed(k)
BY DEF Undisputed, AsFast, Known, Lat

(* Every policy chooses kernels there are.                                 *)
LEMMA DecisionsShape ==
  ASSUME Measurable, policy \in Policies, NEW d \in Decisions
  PROVE  d.kernel \in Known /\ d.reason \in Reasons /\ d # NoChoice
<1>1. CASE policy = "milestone"
  <2>1. d \in ChoicesFrom(memory)
    BY <1>1, ChoicesOfMemory DEF Decisions
  <2>2. /\ d.kernel \in FreeIn(memory, Known) /\ d.reason \in Reasons
        /\ d = [kernel |-> d.kernel, reason |-> d.reason]
    BY <2>1, ChoicesShape
  <2>3. d.kernel \in Known /\ 0 \notin Known
    BY <2>2, KernelParts DEF FreeIn, Known
  <2> QED
    BY <2>2, <2>3 DEF NoChoice
<1>2. CASE policy = "every-round"
  <2>1. d \in EveryRoundChoices
    BY <1>2 DEF Decisions
  <2>2. PICK k : /\ d = [kernel |-> k, reason |-> "every-round"]
                 /\ k \in Unprofiled(Batch) \cup Unprofiled(Known)
    BY <2>1 DEF EveryRoundChoices, Choose, Quickest
  <2>3. k \in Known /\ "every-round" \in Reasons
    BY <2>2, KernelParts DEF Unprofiled, Reasons
  <2> QED
    BY <2>2, <2>3, KernelParts DEF NoChoice, Known
<1>3. CASE policy = "none"
  BY <1>3 DEF Decisions
<1> QED
  BY <1>1, <1>2, <1>3, MilestonesAssumption

LEMMA InitCorrect == Init => MilestoneInv
<1> SUFFICES ASSUME Init  PROVE MilestoneInv
  OBVIOUS
<1>1. PICK profile \in IF policy = "none" THEN {"none"} ELSE {"valid", "failed"} :
        /\ kernels = <<Record(SeedKernel, profile)>>
        /\ memory = [last |-> 0, plateau |-> 0,
                     profiled |-> IF profile = "valid" THEN {Seed} ELSE {}]
        /\ taken = IF profile = "none" THEN {}
                   ELSE {[round |-> 0, kernel |-> Seed]}
  BY DEF Init
<1>2. /\ policy \in Policies /\ round = 1 /\ stage = "measure"
      /\ first = 2 /\ before = Seed /\ chosen = NoChoice /\ restarts = 0
      /\ saved = Checkpoint(1, "measure", memory, 2, Seed)
  BY DEF Init
<1>3. /\ saved.round = 1 /\ saved.stage = "measure" /\ saved.memory = memory
      /\ saved.first = 2 /\ saved.before = Seed
  BY <1>2 DEF Checkpoint
<1>4. profile \in Profile
  BY <1>1 DEF Profile
<1>5. SeedKernel \in Kernels
  BY MilestonesAssumption
<1>6. Record(SeedKernel, profile) \in Archived
  BY <1>4, <1>5 DEF Record, Archived, Kernels
<1>7. /\ kernels \in Seq(Archived) /\ kernels # <<>> /\ Len(kernels) = 1
      /\ kernels[1].profile = profile
  BY <1>1, <1>6 DEF Record
<1>8. Known = {1} /\ Seed \in Known
  BY <1>7 DEF Known, Seed
<1>9. memory \in Memory
  BY <1>1, <1>8, MilestonesAssumption DEF Memory
<1>10. taken \subseteq [round : 0..Rounds, kernel : Known]
  BY <1>1, <1>8, MilestonesAssumption
<1>11. 1 \in 1..Rounds + 1 /\ 2 \in 2..Len(kernels) + 1 /\ 0 \in 0..MaxRestarts
  BY <1>7, MilestonesAssumption
<1>12. TypeOK
  BY <1>2, <1>3, <1>4, <1>7, <1>8, <1>9, <1>10, <1>11 DEF TypeOK
<1>13. SavedInv
  BY <1>2, <1>3, <1>7, MilestonesAssumption DEF SavedInv
<1>14. DecisionInv /\ EvidenceFresh
  BY <1>2 DEF DecisionInv, EvidenceFresh
<1>15. \A s \in taken : s.round = 0 /\ s.kernel = 1 /\ profile # "none"
  BY <1>1 DEF Seed
<1>16. TakenInv
  <2>1. \A s \in taken :
          /\ s.kernel \in Known /\ kernels[s.kernel].profile # "none"
          /\ s.round < round /\ s.round <= round
    BY <1>2, <1>7, <1>8, <1>15
  <2>2. \A s \in taken : s.round <= saved.memory.last /\ s.round # round
    BY <1>1, <1>2, <1>3, <1>15
  <2> QED
    BY <1>2, <2>1, <2>2 DEF TakenInv
<1> QED
  BY <1>12, <1>13, <1>14, <1>16 DEF MilestoneInv

LEMMA InvParts ==
  ASSUME MilestoneInv
  PROVE  /\ TypeOK /\ SavedInv /\ DecisionInv /\ TakenInv /\ EvidenceFresh
         /\ Measurable /\ Len(kernels) \in Nat /\ round \in Nat /\ Rounds \in Nat
         /\ Known \subseteq Nat /\ 0 \notin Known
<1>1. TypeOK /\ SavedInv /\ DecisionInv /\ TakenInv /\ EvidenceFresh
  BY DEF MilestoneInv
<1>2. Measurable
  BY <1>1 DEF TypeOK, SavedInv, Measurable
<1>3. Rounds \in Nat /\ round \in 1..Rounds + 1
  BY <1>1, MilestonesAssumption DEF TypeOK
<1>4. round \in Nat
  BY <1>3
<1>5. Len(kernels) \in Nat /\ Known \subseteq Nat
  BY <1>2, KernelParts
<1>6. 0 \notin Known
  BY <1>5 DEF Known
<1> QED
  BY <1>1, <1>2, <1>3, <1>4, <1>5, <1>6

-----------------------------------------------------------------------------
(* Each step preserves the invariant *)

LEMMA MeasurePreserves ==
  ASSUME MilestoneInv, MeasureRound
  PROVE  MilestoneInv'
<1>0. /\ TypeOK /\ SavedInv /\ TakenInv /\ Measurable /\ Len(kernels) \in Nat
      /\ round \in Nat
  BY InvParts
<1>1. /\ stage = "measure" /\ stage' = "decide"
      /\ first' = Len(kernels) + 1 /\ before' = Best
      /\ saved' = Checkpoint(round, "decide", memory, first', before')
      /\ UNCHANGED <<policy, round, memory, chosen, restarts, taken>>
  BY DEF MeasureRound
<1>2. PICK batch \in BoundedSeq(Outcomes, BatchSize) :
        kernels' = kernels \o [i \in DOMAIN batch |-> Record(batch[i], "none")]
  BY DEF MeasureRound
<1>3. PICK n \in Nat : batch \in [1..n -> Outcomes]
  <2>1. batch \in UNION {[1..m -> Outcomes] : m \in 0..BatchSize}
    BY <1>2 DEF BoundedSeq, SeqOf
  <2>2. BatchSize \in Nat
    BY MilestonesAssumption
  <2>3. PICK m \in 0..BatchSize : batch \in [1..m -> Outcomes]
    BY <2>1
  <2> QED
    BY <2>2, <2>3
<1> DEFINE more == [i \in DOMAIN batch |-> Record(batch[i], "none")]
<1>4. more \in Seq(Archived)
  <2>1. DOMAIN batch = 1..n /\ \A i \in 1..n : batch[i] \in Kernels
    BY <1>3, MilestonesAssumption
  <2>2. \A i \in 1..n : more[i] \in Archived
    BY <2>1 DEF Record, Archived, Kernels, Profile
  <2>3. more \in [1..n -> Archived]
    BY <2>1, <2>2
  <2> QED
    BY <2>3, SeqDef
<1> HIDE DEF more
<1>5. kernels' = kernels \o more
  BY <1>2 DEF more
<1>6. /\ kernels' \in Seq(Archived) /\ Len(kernels') = Len(kernels) + Len(more)
      /\ Len(more) \in Nat /\ Len(kernels) \in Nat
      /\ \A k \in 1..Len(kernels) : kernels'[k] = kernels[k]
  BY <1>0, <1>4, <1>5, ConcatProperties, LenProperties DEF SavedInv
<1>7. Len(kernels') \in Nat /\ Len(kernels') >= Len(kernels) /\ Len(kernels) >= 1
  BY <1>0, <1>6, KernelParts
<1>8. Known \subseteq Known' /\ \A k \in Known : kernels'[k] = kernels[k]
  BY <1>6, <1>7 DEF Known
<1>9. /\ saved'.round = round /\ saved'.stage = "decide"
      /\ saved'.memory = memory /\ saved'.first = first'
      /\ saved'.before = before'
  BY <1>1 DEF Checkpoint
<1>10. SavedInv'
  <2>1. kernels' # <<>>
    BY <1>6, <1>7, EmptySeq
  <2>2. round <= Rounds
    BY <1>0, <1>1 DEF SavedInv
  <2> QED
    BY <1>1, <1>6, <1>9, <2>1, <2>2 DEF SavedInv
<1>11. TypeOK'
  <2>1. Best \in Known'
    BY <1>0, <1>8, BestIsQuickest
  <2>2. \A k \in Known' : kernels'[k].profile \in Profile
    <3>1. \A k \in 1..Len(kernels') : kernels'[k] \in Archived
      BY <1>6, ElementOfSeq
    <3> QED
      BY <3>1 DEF Known, Archived
  <2>3. first' \in 2..Len(kernels') + 1
    BY <1>1, <1>6, <1>7
  <2>4. memory \in Memory'
    BY <1>0, <1>8 DEF TypeOK, Memory
  <2>5. taken' \subseteq [round : 0..Rounds, kernel : Known']
    BY <1>0, <1>1, <1>8 DEF TypeOK
  <2>6. /\ policy' \in Policies /\ round' \in 1..Rounds + 1
        /\ stage' \in {"measure", "decide", "profile", "finish", "over", "down"}
        /\ restarts' \in 0..MaxRestarts
    BY <1>0, <1>1 DEF TypeOK
  <2>7. chosen' = NoChoice \/ (chosen'.kernel \in Known' /\ chosen'.reason \in Reasons)
    BY <1>0, <1>1, <1>8 DEF TypeOK
  <2> QED
    BY <1>1, <1>9, <2>1, <2>2, <2>3, <2>4, <2>5, <2>6, <2>7 DEF TypeOK
<1>12. DecisionInv' /\ EvidenceFresh'
  BY <1>1 DEF DecisionInv, EvidenceFresh
<1>13. TakenInv'
  <2>1. saved.stage = "measure" /\ saved.memory = memory
    BY <1>0, <1>1 DEF SavedInv
  <2>2. \A s \in taken :
          /\ s.kernel \in Known' /\ kernels'[s.kernel] = kernels[s.kernel]
          /\ kernels[s.kernel].profile # "none"
          /\ s.round < round /\ s.round <= round /\ s.round \in 0..Rounds
    BY <1>0, <1>8, <2>1 DEF TakenInv, TypeOK
  <2>3. policy = "milestone" =>
          \A s \in taken : s.round < round /\ Undisputed(s.kernel)
                             => s.round <= saved.memory.last
    BY <1>0 DEF TakenInv
  <2>4. ~(saved'.stage # "decide")
    BY <1>9
  <2>5. \A s \in taken' :
          /\ s.kernel \in Known' /\ kernels'[s.kernel].profile # "none"
          /\ s.round <= round' /\ s.round # round'
    <3> SUFFICES ASSUME NEW s \in taken
                 PROVE  /\ s.kernel \in Known' /\ kernels'[s.kernel].profile # "none"
                        /\ s.round <= round' /\ s.round # round'
      BY <1>1
    <3>1. s.round < round /\ s.round \in Nat /\ round' = round
      BY <1>1, <2>2
    <3> QED
      BY <1>0, <2>2, <3>1
  <2>6. policy' = "milestone" =>
          \A s \in taken' : s.round < round' /\ Undisputed(s.kernel)'
                             => s.round <= saved'.memory.last
    <3>1. \A s \in taken : Undisputed(s.kernel)' => Undisputed(s.kernel)
      <4>1. \A j \in Known : Lat(j)' = Lat(j)
        BY <1>8 DEF Lat
      <4>2. \A s \in taken : s.kernel \in Known
        BY <1>0 DEF TakenInv
      <4>3. ASSUME NEW s \in taken, Undisputed(s.kernel)'
            PROVE  Undisputed(s.kernel)
        BY <1>8, <2>2, <4>1, <4>2, <4>3, StaysDisputed
      <4> QED
        BY <4>3
    <3> QED
      BY <1>1, <1>9, <2>1, <2>2, <2>3, <3>1
  <2> QED
    BY <2>4, <2>5, <2>6 DEF TakenInv
<1> QED
  BY <1>10, <1>11, <1>12, <1>13 DEF MilestoneInv

LEMMA DecidePreserves ==
  ASSUME MilestoneInv, Decide
  PROVE  MilestoneInv'
<1>0. /\ TypeOK /\ SavedInv /\ TakenInv /\ Measurable /\ Len(kernels) \in Nat
      /\ round \in Nat /\ Rounds \in Nat
  BY InvParts
<1>1. /\ stage = "decide"
      /\ UNCHANGED <<policy, round, kernels, first, before, saved, restarts, taken>>
      /\ memory' = IF policy = "milestone"
                   THEN [memory EXCEPT !.plateau = Plateau] ELSE memory
  BY DEF Decide
<1>2. \/ Decisions = {} /\ chosen' = NoChoice /\ stage' = "finish"
      \/ chosen' \in Decisions /\ stage' = "profile"
  BY DEF Decide
<1>3. memory = saved.memory /\ memory \in Memory /\ saved.stage = "decide"
  BY <1>0, <1>1 DEF SavedInv, TypeOK
<1>4. SameMeasurements /\ saved'.memory = saved.memory /\ Known' = Known
  BY <1>1 DEF SameMeasurements, Known
<1>5. /\ ChoicesFrom(saved.memory)' = ChoicesFrom(saved.memory)
      /\ PlateauFrom(saved.memory)' = PlateauFrom(saved.memory)
      /\ Quiet(saved.memory)' <=> Quiet(saved.memory)
      /\ \A k : LeadsTo(saved.memory, k)' <=> LeadsTo(saved.memory, k)
  BY <1>0, <1>4, SameLead
<1>6. Plateau = PlateauFrom(saved.memory) /\ Plateau \in Nat
  BY <1>3 DEF Plateau, PlateauFrom, Memory
<1>7. chosen' # NoChoice =>
        chosen'.kernel \in Known /\ chosen'.reason \in Reasons /\ stage' = "profile"
  BY <1>0, <1>2, DecisionsShape DEF TypeOK
<1>8. stage' = "profile" => chosen' # NoChoice
  BY <1>0, <1>2, DecisionsShape DEF TypeOK
<1>9. SavedInv'
  BY <1>0, <1>1, <1>2, <1>3, <1>8 DEF SavedInv
<1>10. TypeOK'
  <2>1. memory' \in Memory'
    BY <1>1, <1>3, <1>4, <1>6 DEF Memory
  <2>2. saved'.memory \in Memory'
    BY <1>3, <1>4 DEF Memory
  <2>3. /\ policy' \in Policies /\ round' \in 1..Rounds + 1
        /\ stage' \in {"measure", "decide", "profile", "finish", "over", "down"}
        /\ restarts' \in 0..MaxRestarts
        /\ first' \in 2..Len(kernels') + 1 /\ before' \in Known'
        /\ \A k \in Known' : kernels'[k].profile \in Profile
        /\ taken' \subseteq [round : 0..Rounds, kernel : Known']
    BY <1>0, <1>1, <1>2, <1>4 DEF TypeOK
  <2> QED
    BY <1>4, <1>7, <2>1, <2>2, <2>3 DEF TypeOK
<1>11. policy = "milestone" => Decisions = ChoicesFrom(saved.memory)
  BY <1>3, ChoicesOfMemory DEF Decisions
<1>12. policy = "milestone" => memory' = Decided'
  BY <1>1, <1>3, <1>5, <1>6 DEF Decided
<1>13. DecisionInv'
  BY <1>1, <1>2, <1>5, <1>11, <1>12 DEF DecisionInv
<1>14. TakenInv'
  <2>1. \A s \in taken :
          /\ s.kernel \in Known /\ kernels[s.kernel].profile # "none"
          /\ s.round <= round
          /\ saved.stage # "decide" => s.round < round
    BY <1>0 DEF TakenInv
  <2>2. policy' = "milestone" =>
          \A s \in taken :
            /\ s.round = round =>
                 Quiet(saved.memory)' \/ LeadsTo(saved.memory, s.kernel)'
            /\ s.round < round /\ Undisputed(s.kernel) =>
                 s.round <= saved.memory.last
    BY <1>0, <1>1, <1>5 DEF TakenInv
  <2>3. \A k : Undisputed(k)' <=> Undisputed(k)
    BY <1>1, SameDisputes
  <2> QED
    BY <1>1, <1>4, <2>1, <2>2, <2>3 DEF TakenInv
<1>15. EvidenceFresh'
  <2> SUFFICES ASSUME policy' = "milestone", stage' = "finish"
               PROVE  \/ round' - memory'.last < Larger(MaxStaleness, MinInterval)
                      \/ Unprofiled(Known)' = {}
    BY DEF EvidenceFresh
  <2>1. ChoicesFrom(memory) = {} /\ policy = "milestone"
    BY <1>1, <1>2, <1>3, <1>11
  <2>2. memory'.last = memory.last /\ memory'.profiled = memory.profiled
    BY <1>1, <1>3, <2>1 DEF Memory
  <2>3. round - memory.last >= MinInterval =>
          \/ ~(round - memory.last >= Larger(MaxStaleness, MinInterval))
          \/ FreeIn(memory, Known) = {}
    BY <1>0, <2>1, ChoicesShape
  <2>4. /\ round - memory.last \in Int /\ MinInterval \in Nat
        /\ Larger(MaxStaleness, MinInterval) \in Nat
        /\ Larger(MaxStaleness, MinInterval) >= MinInterval
    BY SMTT(20), <1>0, <1>3, MilestonesAssumption DEF Memory, Larger
  <2>5. \/ round - memory.last < Larger(MaxStaleness, MinInterval)
        \/ FreeIn(memory, Known) = {}
    BY <2>3, <2>4
  <2> QED
    BY <1>1, <1>4, <2>2, <2>5 DEF Unprofiled, FreeIn
<1> QED
  BY <1>9, <1>10, <1>13, <1>14, <1>15 DEF MilestoneInv

(* What the memory of the checkpoint leads to is what was chosen, or is    *)
(* equally fast.                                                           *)
LEMMA ChosenIsLed ==
  ASSUME Measurable, NEW m, NEW d \in ChoicesFrom(m), NEW k, LeadsTo(m, k)
  PROVE  d.kernel = k \/ (d.reason \in Tied /\ AsFast(k, d.kernel))
<1>1. PICK e \in ChoicesFrom(m) : e.kernel = k
  BY DEF LeadsTo
<1>2. Alike(e, d)
  BY ChoicesAgree
<1> QED
  BY <1>1, <1>2 DEF Alike

LEMMA ProfilePreserves ==
  ASSUME MilestoneInv, ProfileChosen
  PROVE  MilestoneInv'
<1>0. /\ TypeOK /\ SavedInv /\ DecisionInv /\ TakenInv /\ Measurable
      /\ Len(kernels) \in Nat /\ round \in Nat /\ Rounds \in Nat
  BY InvParts
<1> DEFINE k == chosen.kernel
<1>1. /\ stage = "profile" /\ stage' = "finish"
      /\ UNCHANGED <<policy, round, first, before, chosen, saved, restarts>>
  BY DEF ProfileChosen
<1>2. PICK profile \in IF kernels[k].profile = "none" THEN {"valid", "failed"}
                       ELSE {kernels[k].profile} :
        /\ kernels' = [kernels EXCEPT ![k].profile = profile]
        /\ taken' = IF kernels[k].profile = "none"
                    THEN taken \cup {[round |-> round, kernel |-> k]} ELSE taken
        /\ memory' = IF CountsAsEvidence(profile) THEN Marked(k) ELSE memory
  BY DEF ProfileChosen
<1>3. chosen # NoChoice /\ k \in Known /\ chosen.reason \in Reasons
  BY <1>0, <1>1 DEF SavedInv, TypeOK
<1>4. profile \in {"valid", "failed"} /\ profile \in Profile
  BY <1>0, <1>2, <1>3 DEF TypeOK, Profile
<1>5. /\ kernels' \in Seq(Archived) /\ Len(kernels') = Len(kernels)
      /\ kernels' # <<>> /\ kernels'[k].profile = profile
      /\ \A j \in Known :
           /\ kernels'[j].name = kernels[j].name
           /\ kernels'[j].lat = kernels[j].lat
           /\ kernels'[j].predicted = kernels[j].predicted
           /\ kernels'[j].sure = kernels[j].sure
           /\ kernels'[j].onSeed = kernels[j].onSeed
           /\ j # k => kernels'[j] = kernels[j]
  <2>1. kernels \in Seq(Archived) /\ Known = 1..Len(kernels)
    BY <1>0 DEF Measurable, Known
  <2>2. \A j \in Known : kernels[j] \in Archived
    BY <2>1, ElementOfSeq
  <2> DEFINE new == [kernels[k] EXCEPT !.profile = profile]
  <2>3. /\ new \in Archived /\ new.profile = profile
        /\ new.name = kernels[k].name
        /\ new.lat = kernels[k].lat /\ new.predicted = kernels[k].predicted
        /\ new.sure = kernels[k].sure /\ new.onSeed = kernels[k].onSeed
    BY <1>3, <1>4, <2>2 DEF Archived
  <2>4. kernels' = [kernels EXCEPT ![k] = new]
    BY <1>2
  <2> HIDE DEF new
  <2>5. /\ kernels' \in Seq(Archived) /\ Len(kernels') = Len(kernels)
        /\ \A j \in 1..Len(kernels) :
             kernels'[j] = IF j = k THEN new ELSE kernels[j]
    BY <1>3, <2>1, <2>3, <2>4, ExceptSeq
  <2>6. kernels' # <<>>
    BY <1>0, <2>5, KernelParts, EmptySeq
  <2> QED
    BY <1>3, <2>1, <2>3, <2>5, <2>6
<1>6. SameMeasurements /\ saved'.memory = saved.memory /\ Known' = Known
  BY <1>1, <1>5 DEF SameMeasurements, Known
<1>7. /\ ChoicesFrom(saved.memory)' = ChoicesFrom(saved.memory)
      /\ PlateauFrom(saved.memory)' = PlateauFrom(saved.memory)
      /\ Quiet(saved.memory)' <=> Quiet(saved.memory)
      /\ \A j : LeadsTo(saved.memory, j)' <=> LeadsTo(saved.memory, j)
  BY <1>0, <1>6, SameLead
<1>8. round <= Rounds /\ saved.stage = "decide"
  BY <1>0, <1>1 DEF SavedInv
<1>9. memory \in Memory /\ saved.memory \in Memory
  BY <1>0 DEF TypeOK
<1>10. /\ profile = "valid" => memory' = [memory EXCEPT !.profiled = memory.profiled \cup {k},
                                                        !.last = round]
       /\ profile = "failed" => memory' = memory
  BY <1>2, <1>4 DEF CountsAsEvidence, Marked
<1>11. SavedInv'
  BY <1>0, <1>1, <1>5, <1>8 DEF SavedInv
<1>12. TypeOK'
  <2>1. memory' \in Memory'
    <3>1. memory \in Memory'
      BY <1>6, <1>9 DEF Memory
    <3>2. round \in 0..Rounds /\ k \in Known'
      BY <1>0, <1>3, <1>6, <1>8
    <3>3. CASE profile = "valid"
      <4>1. [memory EXCEPT !.profiled = memory.profiled \cup {k},
                           !.last = round] \in Memory'
        BY <3>1, <3>2 DEF Memory
      <4> QED
        BY <1>10, <3>3, <4>1
    <3>4. CASE profile = "failed"
      BY <1>10, <3>1, <3>4
    <3> QED
      BY <1>4, <3>3, <3>4
  <2>2. saved'.memory \in Memory'
    BY <1>1, <1>6, <1>9 DEF Memory
  <2>3. \A j \in Known' : kernels'[j].profile \in Profile
    BY <1>0, <1>4, <1>5, <1>6 DEF TypeOK
  <2>4. [round |-> round, kernel |-> k] \in [round : 0..Rounds, kernel : Known]
    BY <1>0, <1>3, <1>8
  <2>5. taken' \subseteq [round : 0..Rounds, kernel : Known']
    BY <1>0, <1>2, <1>6, <2>4 DEF TypeOK
  <2>6. /\ policy' \in Policies /\ round' \in 1..Rounds + 1
        /\ stage' \in {"measure", "decide", "profile", "finish", "over", "down"}
        /\ restarts' \in 0..MaxRestarts
        /\ first' \in 2..Len(kernels') + 1 /\ before' \in Known'
    BY <1>0, <1>1, <1>5, <1>6 DEF TypeOK
  <2> QED
    BY <1>1, <1>3, <1>6, <2>1, <2>2, <2>3, <2>5, <2>6 DEF TypeOK
<1>13. policy = "milestone" =>
         /\ memory = Decided /\ chosen \in ChoicesFrom(saved.memory)
  BY <1>0, <1>1 DEF DecisionInv
<1>14. DecisionInv'
  <2> SUFFICES ASSUME policy' = "milestone"  PROVE DecisionInv'
    BY DEF DecisionInv
  <2>0. policy = "milestone" /\ memory = Decided /\ chosen' = chosen
        /\ chosen \in ChoicesFrom(saved.memory)' /\ saved' = saved /\ round' = round
    BY <1>1, <1>7, <1>13
  <2>1. Decided' = Decided
    BY <1>7, <2>0 DEF Decided
  <2>2. CASE profile = "valid"
    <3>1. memory' = Profiled(k)
      BY <1>9, <1>10, <2>0, <2>2 DEF Decided, Profiled, Memory
    <3>2. Profiled(chosen.kernel)' = Profiled(k)
      BY <1>7, <2>0 DEF Profiled
    <3> QED
      BY <1>1, <1>3, <1>5, <2>0, <2>2, <3>1, <3>2 DEF DecisionInv
  <2>3. CASE profile = "failed"
    BY <1>1, <1>3, <1>5, <1>10, <2>0, <2>1, <2>3 DEF DecisionInv
  <2> QED
    BY <1>4, <2>2, <2>3
<1>15. TakenInv'
  <2>1. \A s \in taken :
          /\ s.kernel \in Known /\ s.round <= round
          /\ kernels[s.kernel].profile # "none"
          /\ kernels'[s.kernel].profile = kernels[s.kernel].profile
    <3> SUFFICES ASSUME NEW s \in taken
                 PROVE  /\ s.kernel \in Known /\ s.round <= round
                        /\ kernels[s.kernel].profile # "none"
                        /\ kernels'[s.kernel].profile = kernels[s.kernel].profile
      OBVIOUS
    <3>1. s.kernel \in Known /\ s.round <= round /\ kernels[s.kernel].profile # "none"
      BY <1>0 DEF TakenInv
    <3>2. CASE s.kernel = k
      <4>1. profile = kernels[k].profile
        BY <1>2, <3>1, <3>2
      <4> QED
        BY <1>5, <3>1, <3>2, <4>1
    <3>3. CASE s.kernel # k
      BY <1>5, <3>1, <3>3
    <3> QED
      BY <3>2, <3>3
  <2>2. \A s \in taken' : s \in taken \/ (s.round = round /\ s.kernel = k)
    BY <1>2
  <2>3. profile # "none"
    BY <1>4
  <2>4. policy = "milestone" => LeadsTo(saved.memory, k)
    <3> SUFFICES ASSUME policy = "milestone"  PROVE LeadsTo(saved.memory, k)
      OBVIOUS
    <3>1. chosen \in ChoicesFrom(saved.memory)
      BY <1>13
    <3> QED
      BY <3>1 DEF LeadsTo
  <2>5. \A s \in taken' :
          /\ s.kernel \in Known' /\ kernels'[s.kernel].profile # "none"
          /\ s.round <= round' /\ (saved'.stage # "decide" => s.round < round')
    BY <1>0, <1>1, <1>3, <1>5, <1>6, <1>8, <2>1, <2>2, <2>3
  <2>6. policy = "milestone" =>
          \A s \in taken : /\ s.round = round =>
                                Quiet(saved.memory) \/ LeadsTo(saved.memory, s.kernel)
                           /\ s.round < round /\ Undisputed(s.kernel) =>
                                s.round <= saved.memory.last
    BY <1>0 DEF TakenInv
  <2>7. policy' = "milestone" =>
          \A s \in taken' :
            /\ s.round = round' =>
                 Quiet(saved.memory)' \/ LeadsTo(saved.memory, s.kernel)'
            /\ s.round < round' /\ Undisputed(s.kernel)' =>
                 s.round <= saved'.memory.last
    <3> SUFFICES ASSUME policy = "milestone", NEW s \in taken'
                 PROVE  /\ s.round = round =>
                             Quiet(saved.memory) \/ LeadsTo(saved.memory, s.kernel)
                        /\ s.round < round /\ Undisputed(s.kernel)' =>
                             s.round <= saved.memory.last
      BY <1>1, <1>7
    <3>1. CASE s \in taken
      <4>1. Known \subseteq Known' /\ \A j \in Known : Lat(j)' = Lat(j)
        BY <1>5, <1>6 DEF Lat
      <4>2. \A j \in Known : kernels[j].profile = "failed" =>
                                kernels'[j].profile = "failed"
        BY <1>2, <1>5
      <4>3. Undisputed(s.kernel)' => Undisputed(s.kernel)
        BY <2>1, <3>1, <4>1, <4>2, StaysDisputed
      <4> QED
        BY <2>6, <3>1, <4>3
    <3>2. CASE s.round = round /\ s.kernel = k
      BY <1>0, <2>4, <3>2
    <3> QED
      BY <2>2, <3>1, <3>2
  <2> QED
    BY <2>5, <2>7 DEF TakenInv
<1>16. EvidenceFresh'
  <2>1. CASE profile = "valid"
    <3>1. memory'.last = round /\ round' = round
      BY <1>1, <1>9, <1>10, <2>1 DEF Memory
    <3>2. Larger(MaxStaleness, MinInterval) > 0
      BY MilestonesAssumption DEF Larger
    <3>3. round - round = 0
      BY <1>0
    <3> QED
      BY <3>1, <3>2, <3>3 DEF EvidenceFresh
  <2>2. CASE profile = "failed"
    BY <1>1, <1>3, <1>5, <2>2 DEF EvidenceFresh
  <2> QED
    BY <1>4, <2>1, <2>2
<1> QED
  BY <1>11, <1>12, <1>14, <1>15, <1>16 DEF MilestoneInv

LEMMA FinishPreserves ==
  ASSUME MilestoneInv, FinishRound
  PROVE  MilestoneInv'
<1>0. /\ TypeOK /\ SavedInv /\ DecisionInv /\ TakenInv /\ Measurable
      /\ Len(kernels) \in Nat /\ round \in Nat /\ Rounds \in Nat
  BY InvParts
<1>1. /\ stage = "finish" /\ round' = round + 1
      /\ stage' = IF round = Rounds THEN "over" ELSE "measure"
      /\ saved' = Checkpoint(round + 1, stage', memory, first, before)
      /\ UNCHANGED <<policy, kernels, first, before, memory, chosen, restarts, taken>>
  BY DEF FinishRound
<1>2. /\ saved'.round = round + 1 /\ saved'.stage = stage'
      /\ saved'.memory = memory /\ saved'.first = first /\ saved'.before = before
  BY <1>1 DEF Checkpoint
<1>3. round <= Rounds /\ saved.stage = "decide" /\ Known' = Known
  BY <1>0, <1>1 DEF SavedInv, Known
<1>4. round' \in 1..Rounds + 1 /\ (stage' # "over" => round' <= Rounds)
      /\ stage' \in {"measure", "over"}
  BY <1>0, <1>1, <1>3
<1>5. SavedInv'
  BY <1>0, <1>1, <1>2, <1>4 DEF SavedInv
<1>6. TypeOK'
  <2>1. memory' \in Memory' /\ saved'.memory \in Memory'
    BY <1>0, <1>1, <1>2, <1>3 DEF TypeOK, Memory
  <2>2. /\ policy' \in Policies
        /\ stage' \in {"measure", "decide", "profile", "finish", "over", "down"}
        /\ restarts' \in 0..MaxRestarts
        /\ first' \in 2..Len(kernels') + 1 /\ before' \in Known'
        /\ \A j \in Known' : kernels'[j].profile \in Profile
        /\ taken' \subseteq [round : 0..Rounds, kernel : Known']
    BY <1>0, <1>1, <1>3, <1>4 DEF TypeOK
  <2>3. chosen' = NoChoice \/ (chosen'.kernel \in Known' /\ chosen'.reason \in Reasons)
    BY <1>0, <1>1, <1>3 DEF TypeOK
  <2> QED
    BY <1>4, <2>1, <2>2, <2>3 DEF TypeOK
<1>7. DecisionInv' /\ EvidenceFresh'
  BY <1>4 DEF DecisionInv, EvidenceFresh
<1>8. \A s \in taken :
        /\ s.kernel \in Known /\ kernels[s.kernel].profile # "none"
        /\ s.round \in Nat /\ s.round <= round /\ s.round < round'
        /\ s.round <= round'
  <2>1. \A s \in taken :
          /\ s.kernel \in Known /\ kernels[s.kernel].profile # "none"
          /\ s.round \in Nat /\ s.round <= round
    BY <1>0 DEF TypeOK, TakenInv
  <2>2. \A n \in Nat : n <= round => n < round' /\ n <= round'
    BY <1>0, <1>1
  <2> QED
    BY <2>1, <2>2
<1>9. ASSUME policy = "milestone", NEW s \in taken,
             Undisputed(s.kernel)
      PROVE  s.round <= memory.last
  <2> DEFINE m == saved.memory
             k == chosen.kernel
  <2>0. m \in Memory /\ m.last \in Nat
    BY <1>0 DEF TypeOK, Memory
  <2>1. /\ s.round = round => Quiet(m) \/ LeadsTo(m, s.kernel)
        /\ s.round < round => s.round <= m.last
        /\ s.round = round \/ s.round < round
        /\ s.round <= round
    BY <1>0, <1>8, <1>9 DEF TakenInv
  <2>2. \/ ChoicesFrom(m) = {} /\ memory = Decided
        \/ memory = Profiled(k)
        \/ /\ chosen \in ChoicesFrom(m) /\ kernels[k].profile = "failed"
           /\ memory = Decided
    BY <1>0, <1>1, <1>9 DEF DecisionInv
  <2>3. Decided.last = m.last /\ Profiled(k).last = round
    BY <2>0 DEF Decided, Profiled, Memory
  <2>4. Quiet(m) => m.last = round
    BY DEF Quiet
  <2>5. CASE memory = Profiled(k)
    BY <2>1, <2>3, <2>5
  <2>6. CASE s.round < round /\ memory = Decided
    BY <2>1, <2>3, <2>6
  <2>7. CASE s.round = round /\ Quiet(m) /\ memory = Decided
    BY <2>1, <2>3, <2>4, <2>7
  <2>8. CASE s.round = round /\ LeadsTo(m, s.kernel) /\ memory = Decided
    <3>1. CASE ChoicesFrom(m) = {}
      BY <2>8, <3>1 DEF LeadsTo, Choose
    <3>2. CASE chosen \in ChoicesFrom(m) /\ kernels[k].profile = "failed"
      <4>1. k = s.kernel \/ AsFast(s.kernel, k)
        BY <1>0, <2>8, <3>2, ChosenIsLed
      <4>2. k \in Known
        BY <1>0, <3>2, ChoicesShape DEF FreeIn
      <4> QED
        BY <1>9, <3>2, <4>1, <4>2 DEF Undisputed, AsFast
    <3>3. CASE memory = Profiled(k)
      BY <2>5, <3>3
    <3> QED
      BY <2>2, <3>1, <3>2, <3>3
  <2> QED
    BY <2>1, <2>2, <2>5, <2>6, <2>7, <2>8
<1>10. TakenInv'
  <2>1. \A s \in taken' : s.round # round'
    <3>1. \A s \in taken : s.round # round'
      BY <1>0, <1>1, <1>8
    <3> QED
      BY <1>1, <3>1
  <2>2. policy' = "milestone" =>
          \A s \in taken' : Undisputed(s.kernel)'
                              => s.round <= saved'.memory.last
    BY <1>1, <1>2, <1>9, SameDisputes
  <2>3. \A s \in taken' :
          /\ s.kernel \in Known' /\ kernels'[s.kernel].profile # "none"
          /\ s.round <= round' /\ s.round < round'
    BY <1>1, <1>3, <1>8
  <2> QED
    BY <2>1, <2>2, <2>3 DEF TakenInv
<1> QED
  BY <1>5, <1>6, <1>7, <1>10 DEF MilestoneInv

(* A stop saves the memory of now.                                         *)
LEMMA StopPreserves ==
  ASSUME MilestoneInv, OutOfTime
  PROVE  MilestoneInv'
<1>0. /\ TypeOK /\ SavedInv /\ DecisionInv /\ TakenInv /\ Measurable
      /\ Len(kernels) \in Nat /\ round \in Nat /\ Rounds \in Nat
  BY InvParts
<1>1. /\ stage \in {"decide", "finish"} /\ stage' = "down"
      /\ saved' = Checkpoint(round, "decide", memory, first, before)
      /\ UNCHANGED <<policy, round, kernels, first, before, memory, chosen, restarts, taken>>
  BY DEF OutOfTime
<1>2. /\ saved'.round = round /\ saved'.stage = "decide"
      /\ saved'.memory = memory /\ saved'.first = first /\ saved'.before = before
  BY <1>1 DEF Checkpoint
<1>3. round <= Rounds /\ saved.stage = "decide" /\ Known' = Known
  BY <1>0, <1>1 DEF SavedInv, Known
<1>4. SavedInv'
  BY <1>0, <1>1, <1>2, <1>3 DEF SavedInv
<1>5. TypeOK'
  <2>1. memory' \in Memory' /\ saved'.memory \in Memory'
    BY <1>0, <1>1, <1>2, <1>3 DEF TypeOK, Memory
  <2>2. /\ policy' \in Policies /\ round' \in 1..Rounds + 1
        /\ stage' \in {"measure", "decide", "profile", "finish", "over", "down"}
        /\ restarts' \in 0..MaxRestarts
        /\ first' \in 2..Len(kernels') + 1 /\ before' \in Known'
        /\ \A j \in Known' : kernels'[j].profile \in Profile
        /\ taken' \subseteq [round : 0..Rounds, kernel : Known']
    BY <1>0, <1>1, <1>3 DEF TypeOK
  <2>3. chosen' = NoChoice \/ (chosen'.kernel \in Known' /\ chosen'.reason \in Reasons)
    BY <1>0, <1>1, <1>3 DEF TypeOK
  <2> QED
    BY <2>1, <2>2, <2>3 DEF TypeOK
<1>6. DecisionInv' /\ EvidenceFresh'
  BY <1>1 DEF DecisionInv, EvidenceFresh
<1>7. SameMeasurements
  BY <1>1 DEF SameMeasurements
<1>8. /\ Quiet(saved.memory)' <=> Quiet(memory)
      /\ \A j : LeadsTo(saved.memory, j)' <=> LeadsTo(memory, j)
  BY <1>0, <1>2, <1>7, SameLead
<1>9. ASSUME policy = "milestone", NEW s \in taken
      PROVE  /\ s.round = round => Quiet(memory) \/ LeadsTo(memory, s.kernel)
             /\ s.round < round /\ Undisputed(s.kernel) =>
                  s.round <= memory.last
  <2> DEFINE m == saved.memory
             k == chosen.kernel
  <2>0. m \in Memory /\ m.last \in Nat /\ s.round \in Nat
    BY <1>0 DEF TypeOK, Memory
  <2>1. /\ s.round = round => Quiet(m) \/ LeadsTo(m, s.kernel)
        /\ s.round < round /\ Undisputed(s.kernel) =>
             s.round <= m.last
    BY <1>0, <1>9 DEF TakenInv
  <2>2. CASE memory = m
    BY <2>1, <2>2
  <2>3. CASE memory = Decided
    <3>1. /\ Decided.last = m.last /\ Decided.profiled = m.profiled
          /\ Decided = [m EXCEPT !.plateau = PlateauFrom(m)]
      BY <2>0 DEF Decided, Memory
    <3>2. Quiet(m) => Quiet(Decided)
      BY <3>1 DEF Quiet, GainedFrom
    <3>3. LeadsTo(m, s.kernel) => LeadsTo(Decided, s.kernel)
      BY <1>0, <2>0, <3>1, PlateauKeepsChoice
    <3> QED
      BY <2>1, <2>3, <3>1, <3>2, <3>3
  <2>4. CASE chosen \in ChoicesFrom(m) /\ memory = Profiled(k)
    <3>1. memory.last = round /\ memory.profiled = m.profiled \cup {k}
      BY <2>4 DEF Profiled
    <3>2. ~GainedFrom(memory, BreakthroughPct)
      <4> SUFFICES ASSUME GainedFrom(memory, BreakthroughPct)  PROVE FALSE
        OBVIOUS
      <4>1. Best # k /\ GainedFrom(m, BreakthroughPct)
        BY <3>1 DEF GainedFrom
      <4>2. ChoicesFrom(m) = Choose({Best}, "breakthrough-measured-improvement")
        BY <4>1 DEF ChoicesFrom
      <4> QED
        BY <2>4, <4>1, <4>2 DEF Choose
    <3>3. Quiet(memory)
      BY <3>1, <3>2 DEF Quiet
    <3> QED
      BY <1>0, <2>0, <3>1, <3>3
  <2>5. memory = m \/ memory = Decided
          \/ (chosen \in ChoicesFrom(m) /\ memory = Profiled(k))
    BY <1>0, <1>1, <1>9 DEF DecisionInv, SavedInv
  <2> QED
    BY <2>2, <2>3, <2>4, <2>5
<1>10. TakenInv'
  <2>1. \A s \in taken :
          /\ s.kernel \in Known /\ kernels[s.kernel].profile # "none"
          /\ s.round <= round
    BY <1>0 DEF TakenInv
  <2>2. policy' = "milestone" =>
          \A s \in taken :
            /\ s.round = round =>
                 Quiet(saved.memory)' \/ LeadsTo(saved.memory, s.kernel)'
            /\ s.round < round /\ Undisputed(s.kernel) =>
                 s.round <= memory.last
    BY <1>1, <1>8, <1>9
  <2>3. \A k : Undisputed(k)' <=> Undisputed(k)
    BY <1>1, SameDisputes
  <2> QED
    BY <1>1, <1>2, <1>3, <2>1, <2>2, <2>3 DEF TakenInv
<1> QED
  BY <1>4, <1>5, <1>6, <1>10 DEF MilestoneInv

(* A process that dies or starts again leaves the archive and the          *)
(* checkpoint alone, and so does no step at all.                           *)
LEMMA OtherPreserves ==
  ASSUME MilestoneInv, Crash \/ Resume \/ UNCHANGED vars
  PROVE  MilestoneInv'
<1>0. /\ TypeOK /\ SavedInv /\ DecisionInv /\ TakenInv /\ Measurable
      /\ Len(kernels) \in Nat /\ round \in Nat /\ Rounds \in Nat
  BY InvParts
<1>1. UNCHANGED <<policy, kernels, saved, taken>>
  BY DEF Crash, Resume, vars
<1>2. round' = round /\ first' = first /\ before' = before
  BY <1>0 DEF Crash, Resume, vars, SavedInv
<1>3. SameMeasurements /\ saved'.memory = saved.memory /\ Known' = Known
  BY <1>1, <1>2 DEF SameMeasurements, Known
<1>4. /\ ChoicesFrom(saved.memory)' = ChoicesFrom(saved.memory)
      /\ PlateauFrom(saved.memory)' = PlateauFrom(saved.memory)
      /\ Quiet(saved.memory)' <=> Quiet(saved.memory)
      /\ \A j : LeadsTo(saved.memory, j)' <=> LeadsTo(saved.memory, j)
  BY <1>0, <1>3, SameLead
<1>5. \/ stage' = "down" /\ stage \notin {"down", "over"}
         /\ UNCHANGED <<memory, chosen, restarts>>
      \/ /\ stage = "down" /\ stage' = saved.stage /\ memory' = saved.memory
         /\ chosen' = NoChoice /\ restarts < MaxRestarts /\ restarts' = restarts + 1
      \/ UNCHANGED <<stage, memory, chosen, restarts>>
  BY DEF Crash, Resume, vars
<1>6. stage \in {"measure", "decide", "profile", "finish", "over", "down"}
  BY <1>0 DEF TypeOK
<1>7. SavedInv'
  BY <1>0, <1>1, <1>2, <1>5, <1>6 DEF SavedInv
<1>8. stage' \in {"measure", "decide", "down"} \/ UNCHANGED <<stage, memory, chosen>>
  BY <1>0, <1>5 DEF SavedInv
<1>9. TypeOK'
  <2>1. memory' \in Memory' /\ saved'.memory \in Memory'
    BY <1>0, <1>1, <1>3, <1>5 DEF TypeOK, Memory
  <2>2. restarts' \in 0..MaxRestarts
    <3>1. restarts \in 0..MaxRestarts /\ MaxRestarts \in Nat
      BY <1>0, MilestonesAssumption DEF TypeOK
    <3>2. restarts' = restarts \/ (restarts < MaxRestarts /\ restarts' = restarts + 1)
      BY <1>5
    <3> QED
      BY <3>1, <3>2
  <2>3. stage' \in {"measure", "decide", "profile", "finish", "over", "down"}
    BY <1>6, <1>8
  <2>4. /\ policy' \in Policies /\ round' \in 1..Rounds + 1
        /\ first' \in 2..Len(kernels') + 1 /\ before' \in Known'
        /\ \A j \in Known' : kernels'[j].profile \in Profile
        /\ taken' \subseteq [round : 0..Rounds, kernel : Known']
    BY <1>0, <1>1, <1>2, <1>3 DEF TypeOK
  <2>5. chosen' = NoChoice \/ (chosen'.kernel \in Known' /\ chosen'.reason \in Reasons)
    BY <1>0, <1>3, <1>5 DEF TypeOK
  <2> QED
    BY <2>1, <2>2, <2>3, <2>4, <2>5 DEF TypeOK
<1>10. DecisionInv'
  <2>1. CASE stage' \in {"measure", "decide", "down"}
    BY <2>1 DEF DecisionInv
  <2>2. CASE UNCHANGED <<stage, memory, chosen>>
    <3>1. Decided' = Decided /\ Profiled(chosen.kernel)' = Profiled(chosen.kernel)
      BY <1>1, <1>2, <1>4, <2>2 DEF Decided, Profiled
    <3> QED
      BY <1>0, <1>1, <1>4, <2>2, <3>1 DEF DecisionInv
  <2> QED
    BY <1>8, <2>1, <2>2
<1>11. TakenInv'
  <2>1. \A s \in taken :
          /\ s.kernel \in Known /\ kernels[s.kernel].profile # "none"
          /\ s.round <= round
          /\ saved.stage # "decide" => s.round < round
    BY <1>0 DEF TakenInv
  <2>2. policy' = "milestone" =>
          \A s \in taken :
            /\ s.round = round =>
                 Quiet(saved.memory)' \/ LeadsTo(saved.memory, s.kernel)'
            /\ s.round < round /\ Undisputed(s.kernel) =>
                 s.round <= saved.memory.last
    BY <1>0, <1>1, <1>4 DEF TakenInv
  <2>3. \A k : Undisputed(k)' <=> Undisputed(k)
    BY <1>1, SameDisputes
  <2> QED
    BY <1>1, <1>2, <1>3, <2>1, <2>2, <2>3 DEF TakenInv
<1>12. EvidenceFresh'
  <2>1. CASE stage' \in {"measure", "decide", "down"}
    BY <2>1 DEF EvidenceFresh
  <2>2. CASE UNCHANGED <<stage, memory, chosen>>
    BY <1>1, <1>2, <1>3, <2>2, InvParts DEF EvidenceFresh, Unprofiled
  <2> QED
    BY <1>8, <2>1, <2>2
<1> QED
  BY <1>7, <1>9, <1>10, <1>11, <1>12 DEF MilestoneInv

-----------------------------------------------------------------------------
(* Theorems *)

LEMMA MilestonesCorrect == Spec => []MilestoneInv
<1>1. MilestoneInv /\ [Next]_vars => MilestoneInv'
  BY MeasurePreserves, DecidePreserves, ProfilePreserves, FinishPreserves,
     StopPreserves, OtherPreserves DEF Next
<1> QED
  BY InitCorrect, <1>1, PTL DEF Spec

(* The memory, the checkpoint and the archive keep their shape: the round  *)
(* stays within the budget, every mark of a profile is a measured kernel.  *)
THEOREM TypeCorrect == Spec => []TypeOK
<1>1. MilestoneInv => TypeOK
  BY DEF MilestoneInv
<1> QED
  BY <1>1, MilestonesCorrect, PTL

(* Under the milestone policy, evidence never gets older than the bound    *)
(* while there is a kernel left to profile and NCU works on it             *)
(* (milestones.py decide, the staleness trigger).                          *)
THEOREM FreshEvidence == Spec => []EvidenceFresh
<1>1. MilestoneInv => EvidenceFresh
  BY DEF MilestoneInv
<1> QED
  BY <1>1, MilestonesCorrect, PTL

(* However often a round is decided again, it profiles one kernel at most, *)
(* or, after staleness or a plateau, others that are exactly as fast; and  *)
(* only a breakthrough is profiled sooner than the spacing allows after an *)
(* earlier round's undisputed profile.                                     *)
THEOREM MilestonesAreSpaced == Spec => SpacedMilestones
<1> DEFINE Spaced(t) ==
      /\ \A s \in taken : s.round = t.round =>
           \/ s.kernel = t.kernel
           \/ /\ chosen.reason \in {"profile-staleness", "search-plateau"}
              /\ AsFast(s.kernel, t.kernel)
      /\ \/ chosen.reason = "breakthrough-measured-improvement"
         \/ \A s \in taken :
              Undisputed(s.kernel) /\ s.round < t.round
                => t.round - s.round >= MinInterval
<1>1. ASSUME MilestoneInv, [Next]_vars, policy = "milestone", NEW t \in taken' \ taken
      PROVE  Spaced(t)
  <2>0. /\ TypeOK /\ SavedInv /\ DecisionInv /\ TakenInv /\ Measurable
        /\ round \in Nat
    BY <1>1, InvParts
  <2>1. CASE ProfileChosen
    <3> DEFINE m == saved.memory
    <3>1. stage = "profile" /\ t = [round |-> round, kernel |-> chosen.kernel]
      BY <1>1, <2>1 DEF ProfileChosen
    <3>2. chosen \in ChoicesFrom(m)
      BY <1>1, <2>0, <3>1 DEF DecisionInv
    <3>3. \A s \in taken :
            /\ s.round = round => Quiet(m) \/ LeadsTo(m, s.kernel)
            /\ s.round < round /\ Undisputed(s.kernel) =>
                 s.round <= m.last
            /\ s.round \in Nat
      BY <1>1, <2>0 DEF TakenInv, TypeOK
    <3>4. ~Quiet(m)
      BY <2>0, <3>2, QuietChoosesNone
    <3>5. \A s \in taken : s.round = round =>
            \/ s.kernel = chosen.kernel
            \/ /\ chosen.reason \in {"profile-staleness", "search-plateau"}
               /\ AsFast(s.kernel, chosen.kernel)
      BY <2>0, <3>2, <3>3, <3>4, ChosenIsLed DEF Tied
    <3>6. \/ chosen.reason = "breakthrough-measured-improvement"
          \/ round - m.last >= MinInterval
      BY <2>0, <3>2, ChoicesShape
    <3>7. m.last \in Nat /\ MinInterval \in Nat
      BY <2>0, MilestonesAssumption DEF TypeOK, Memory
    <3>8. ASSUME round - m.last >= MinInterval, NEW s \in taken,
                 Undisputed(s.kernel), s.round < round
          PROVE  round - s.round >= MinInterval
      <4>1. s.round <= m.last /\ s.round \in Nat
        BY <3>3, <3>8
      <4> QED
        BY <2>0, <3>7, <3>8, <4>1
    <3>9. t.round = round /\ t.kernel = chosen.kernel
      BY <3>1
    <3> QED
      BY <3>5, <3>6, <3>8, <3>9
  <2>2. CASE ~ProfileChosen
    BY <1>1, <2>2 DEF Next, vars, MeasureRound, Decide, FinishRound, OutOfTime,
                      Crash, Resume
  <2> QED
    BY <2>1, <2>2
<1>2. MilestoneInv /\ [Next]_vars =>
        [policy = "milestone" => \A t \in taken' \ taken : Spaced(t)]_vars
  BY <1>1
<1> QED
  BY <1>2, MilestonesCorrect, PTL DEF Spec, SpacedMilestones

=============================================================================
