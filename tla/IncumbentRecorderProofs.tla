---------------------- MODULE IncumbentRecorderProofs ----------------------
(***************************************************************************)
(* What the incumbent recorder promises of its two histories, for every    *)
(* set of candidates and latencies, every interval and every bound.        *)
(*                                                                         *)
(* Everything rests on one inductive invariant, RecorderInv: where the     *)
(* controller stands with the seed and the checkpoints, who holds the      *)
(* lock, how the counter, the two files and the clocks relate, which slots *)
(* are taken, and what a scan in progress has seen of an archive that      *)
(* changes under it.                                                       *)
(***************************************************************************)
EXTENDS IncumbentRecorder, WellFoundedInduction, TLAPS

-----------------------------------------------------------------------------
(* The inductive invariant *)

Holding   == {"scan", "jsonl", "csv"}
SeedSteps == {"seed", "seed_saved", "seed_measured"}
AtCsv     == \E t \in Threads : call[t].at = "csv"
AtJsonl   == \E t \in Threads : call[t].at = "jsonl"

(* What the archive holds at each step of the controller.                  *)
StageInv ==
  /\ pc \in SeedSteps => phase = ""
  /\ pc = "seed_measured" => rec[Seed] > 0
  /\ pc \in {"running", "final"} => phase # ""
  /\ phase # "" => rec[Seed] > 0
  /\ pc = "final" => best \in Cand /\ rec[best] > 0
  /\ phase \in FinalPhases => best \in Cand /\ rec[best] > 0

(* Who stands where: the lock has one holder, and only a process that has  *)
(* been started records.                                                   *)
LockInv ==
  /\ \A t \in Threads : call[t].at \in Holding <=> lock = t
  /\ call["main"].at \in {"idle", "wait"} \cup Holding
  /\ pc \in {"new", "joining"} \cup SeedSteps \cup Ended =>
       call["main"].at = "idle"
  /\ pc \in {"new", "starting"} \cup Ended => call["timer"].at = "absent"
  /\ startedAt = Absent =>
       call["main"].at = "idle" /\ call["timer"].at = "absent"
  /\ pc \notin {"new", "closing", "joining"} \cup Ended => startedAt # Absent
  /\ pc = "new" => startedAt = Absent

(* The counter and the two files.                                          *)
CountInv ==
  /\ Alive /\ failures = 0 => seq = IF AtJsonl THEN lines + 1 ELSE lines
  /\ \A t \in Threads :
       call[t].at = "jsonl" /\ failures = 0 => call[t].snap.seq = lines + 1
  /\ \A t \in Threads : call[t].at = "csv" => row = call[t].snap
  /\ csvLines <= lines
  /\ AtCsv => csvLines + 1 <= lines
  /\ lines <= csvLines + restarts + failures + 1
  /\ Alive /\ ~AtCsv => lines <= csvLines + restarts + failures

(* The clocks.                                                             *)
TimeInv ==
  /\ startedAt # Absent => startedAt <= now
  /\ row.elapsed <= active
  /\ Alive => row.elapsed <= Elapsed /\ Elapsed <= active
  /\ \A t \in Threads : call[t].at = "jsonl" =>
       row.elapsed <= call[t].snap.elapsed /\ call[t].snap.elapsed <= Elapsed

(* The slots: the timer's next one has not been sampled.                   *)
SlotInv ==
  /\ slot <= row.elapsed
  /\ call["main"].at \in {"wait"} \cup Holding =>
       call["main"].snap.reason # "interval"
  /\ call["timer"].at \in {"wait"} \cup Holding =>
       /\ call["timer"].snap.reason = "interval"
       /\ call["timer"].snap.sched = next
       /\ Elapsed >= next
  /\ call["timer"].at = "jsonl" => call["timer"].snap.elapsed >= next
  /\ call["timer"].at \in {"idle", "wait", "scan", "jsonl"} => slot < next
  /\ call["timer"].at = "csv" => slot <= next

(* What a scan has seen of the archive, and the rows made of it.           *)
WellNamed(s) == s = NoSignature \/ (s[1] \in Cand /\ s[2] \in Lat)
ScanInv ==
  /\ WellNamed(standard)
  /\ standard # NoSignature => phase # "" /\ rec[standard[1]] > 0
  /\ \A t \in Threads : call[t].at = "scan" =>
       /\ call[t].todo \subseteq Listed
       /\ \A c \in Cand : call[t].seen[c] > 0 => c = Seed \/ rec[c] > 0
       /\ Stands(standard) => \/ standard[1] \in call[t].todo
                              \/ call[t].seen[standard[1]] = standard[2]
  /\ \A t \in Threads : call[t].at = "jsonl" =>
       LET snap == call[t].snap
       IN  /\ WellNamed(snap.sig)
           /\ snap.phase # "" => phase # ""
           /\ snap.phase # "" /\ snap.sig # NoSignature =>
                rec[snap.sig[1]] > 0
           /\ snap.phase = "search" /\ Stands(standard) =>
                snap.sig # NoSignature /\ ~Worse(snap.sig, standard)

(* The last row, and the signature that changes are compared with.         *)
ChangeInv ==
  /\ Alive /\ failures = 0 /\ ~AtCsv => last = row.sig
  /\ \A t \in Threads :
       call[t].at = "jsonl" /\ call[t].snap.reason = "change" =>
         call[t].snap.sig # last
  /\ call["main"].at = "scan" =>
       call["main"].todo = {} /\ call["main"].seen = AllRead
  /\ call["main"].at \in {"jsonl", "csv"} => call["main"].snap.sig = Named

(* After the controller's closing row nothing else can be told.            *)
ClosingInv ==
  (/\ pc \in {"closing", "joining"} /\ call["main"].at = "idle"
   /\ startedAt # Absent /\ failures = 0 /\ phase \in FinalPhases) =>
    /\ row.sig[1] = best
    /\ call["timer"].at = "scan" =>
         best \in call["timer"].todo \/ call["timer"].seen[best] > 0
    /\ call["timer"].at = "jsonl" => call["timer"].snap.sig[1] = best

RecorderInv ==
  /\ TypeOK /\ StageInv /\ LockInv /\ CountInv /\ TimeInv /\ SlotInv
  /\ ScanInv /\ ChangeInv /\ ClosingInv

-----------------------------------------------------------------------------
(* Lemmas on the model's operators *)

USE DEF None, Unmeasured, Absent

(* Identifiers and latencies are positive.                                 *)
LEMMA Positive ==
  ASSUME RecorderAssumption
  PROVE  /\ \A c \in Cand : c \in Nat /\ c > 0
         /\ \A l \in Lat : l \in Nat /\ l > 0
         /\ Cand \subseteq Nat /\ Seed \in Cand
         /\ Interval \in Nat /\ Interval > 0
BY DEF RecorderAssumption

(* Latencies and identifiers have a least one.                             *)
LEMMA LeastExists ==
  ASSUME NEW S \in SUBSET Nat, S # {}
  PROVE  \E m \in S : \A n \in S : m <= n
<1> DEFINE R == OpToRel(<, Nat)
<1>1. IsWellFoundedOn(R, Nat)
  BY NatLessThanWellFounded
<1> HIDE DEF R
<1>2. PICK m \in S : \A n \in S : ~ (<<n, m>> \in R)
  BY <1>1, WFMin
<1>3. ASSUME NEW n \in S, ~ (m <= n)  PROVE FALSE
  <2>1. n \in Nat /\ m \in Nat /\ n < m
    BY <1>3
  <2>2. <<n, m>> \in R
    BY <2>1 DEF R, OpToRel
  <2> QED
    BY <1>2, <2>2
<1> QED
  BY <1>3

(* Best names the least of the latencies, and of those with it the least   *)
(* identifier.                                                             *)
LEMMA BestIsLeast ==
  ASSUME RecorderAssumption, NEW seen, NEW S \in SUBSET Cand, S # {},
         \A c \in S : seen[c] \in Nat
  PROVE  /\ Best(seen, S) \in S
         /\ \A d \in S : \/ seen[Best(seen, S)] < seen[d]
                         \/ seen[Best(seen, S)] = seen[d] /\ Best(seen, S) <= d
<1> DEFINE L == {seen[c] : c \in S}
<1>1. PICK m \in L : \A n \in L : m <= n
  <2>1. L \in SUBSET Nat /\ L # {}
    OBVIOUS
  <2> HIDE DEF L
  <2> QED
    BY <2>1, LeastExists
<1> DEFINE F == {c \in S : seen[c] = m}
<1>2. PICK b \in F : \A n \in F : b <= n
  <2>1. F \in SUBSET Nat /\ F # {}
    BY <1>1 DEF RecorderAssumption
  <2> HIDE DEF F
  <2> QED
    BY <2>1, LeastExists
<1>3. ASSUME NEW d \in S
      PROVE  seen[b] < seen[d] \/ (seen[b] = seen[d] /\ b <= d)
  <2>1. m <= seen[d] /\ seen[b] = m /\ seen[d] \in Nat /\ m \in Nat
    BY <1>1, <1>2
  <2>2. CASE seen[d] = m
    BY <2>1, <2>2, <1>2
  <2>3. CASE seen[d] # m
    BY <2>1, <2>3
  <2> QED
    BY <2>2, <2>3
<1>4. b \in S
  BY <1>2
<1> HIDE DEF F
<1> QED
  BY <1>3, <1>4 DEF Best

Latencies == [Cand -> Lat \cup {Unmeasured}]

(* The incumbent is a measured candidate if there is one; outside of the   *)
(* final phases no measured candidate is better, in one it is the one that *)
(* the checkpoint names.                                                   *)
LEMMA SelectedIncumbent ==
  ASSUME RecorderAssumption, NEW seen \in Latencies, NEW ph, NEW b
  PROVE  LET i == SelectIncumbent(seen, ph, b)
         IN  /\ i # None => i \in Cand /\ seen[i] \in Lat
             /\ i = None => \A c \in Cand : seen[c] = Unmeasured
             /\ ph \notin FinalPhases => \A c \in Cand : seen[c] > 0 =>
                  \/ seen[i] < seen[c]
                  \/ seen[i] = seen[c] /\ i <= c
             /\ ph \in FinalPhases /\ b \in Cand /\ seen[b] > 0 => i = b
<1> DEFINE measured == {c \in Cand : seen[c] > 0}
<1>1. \A c \in Cand : seen[c] \in Nat /\ (seen[c] > 0 <=> seen[c] \in Lat)
                      /\ (seen[c] = 0 \/ seen[c] > 0)
  <2> SUFFICES ASSUME NEW c \in Cand
               PROVE  seen[c] \in Nat /\ (seen[c] > 0 <=> seen[c] \in Lat)
                      /\ (seen[c] = 0 \/ seen[c] > 0)
    OBVIOUS
  <2>1. seen[c] \in Lat \/ seen[c] = 0
    BY DEF Latencies
  <2>2. CASE seen[c] \in Lat
    BY <2>2, Positive
  <2>3. CASE seen[c] = 0
    <3>1. 0 \notin Lat
      BY Positive
    <3> QED
      BY <2>3, <3>1
  <2> QED
    BY <2>1, <2>2, <2>3
<1>2. \A c \in Cand : c # None
  BY Positive
<1>3. CASE measured = {}
  <2>1. SelectIncumbent(seen, ph, b) = None
    BY <1>3 DEF SelectIncumbent
  <2>2. \A c \in Cand : ~ (seen[c] > 0)
    BY <1>3
  <2> QED
    BY <2>1, <2>2, <1>1
<1>4. CASE measured # {} /\ ph \in FinalPhases /\ b \in measured
  <2>1. SelectIncumbent(seen, ph, b) = b
    BY <1>4 DEF SelectIncumbent
  <2> QED
    BY <2>1, <1>1, <1>2, <1>4
<1>5. CASE measured # {} /\ ~ (ph \in FinalPhases /\ b \in measured)
  <2>1. SelectIncumbent(seen, ph, b) = Best(seen, measured)
    BY <1>5 DEF SelectIncumbent
  <2>2. /\ Best(seen, measured) \in measured
        /\ \A d \in measured :
             \/ seen[Best(seen, measured)] < seen[d]
             \/ seen[Best(seen, measured)] = seen[d] /\ Best(seen, measured) <= d
    <3>1. measured \in SUBSET Cand /\ \A c \in measured : seen[c] \in Nat
      BY <1>1
    <3> HIDE DEF measured
    <3> QED
      BY <3>1, <1>5, BestIsLeast
  <2> QED
    BY <2>1, <2>2, <1>1, <1>2, <1>5
<1> QED
  BY <1>3, <1>4, <1>5

(* The same of the signature that a row is given.                          *)
LEMMA SelectedSignature ==
  ASSUME RecorderAssumption, NEW seen \in Latencies, NEW ph, NEW b
  PROVE  LET s == IncumbentSignature(seen, SelectIncumbent(seen, ph, b))
         IN  /\ s \in Signature /\ WellNamed(s)
             /\ s # NoSignature => seen[s[1]] = s[2] /\ s[2] > 0
             /\ ph \notin FinalPhases => \A c \in Cand : seen[c] > 0 =>
                  s # NoSignature /\ ~Worse(s, <<c, seen[c]>>)
             /\ ph \in FinalPhases /\ b \in Cand /\ seen[b] > 0 => s[1] = b
<1> DEFINE i == SelectIncumbent(seen, ph, b)
           s == IncumbentSignature(seen, i)
<1>1. /\ i # None => i \in Cand /\ seen[i] \in Lat
      /\ i = None => \A c \in Cand : seen[c] = Unmeasured
      /\ ph \notin FinalPhases => \A c \in Cand : seen[c] > 0 =>
           \/ seen[i] < seen[c]
           \/ seen[i] = seen[c] /\ i <= c
      /\ ph \in FinalPhases /\ b \in Cand /\ seen[b] > 0 => i = b
  BY SelectedIncumbent
<1>2. \A c \in Cand : c # None /\ c \in Nat /\ seen[c] \in Nat
  <2> SUFFICES ASSUME NEW c \in Cand  PROVE seen[c] \in Nat
    BY Positive
  <2>1. seen[c] \in Lat \/ seen[c] = 0
    BY DEF Latencies
  <2>2. CASE seen[c] \in Lat
    BY <2>2, Positive
  <2>3. CASE seen[c] = 0
    <3>1. 0 \notin Lat
      BY Positive
    <3> QED
      BY <2>3, <3>1
  <2> QED
    BY <2>1, <2>2, <2>3
<1>3. \A l \in Lat : l > 0 /\ l \in Nat
  BY Positive
<1> HIDE DEF i
<1>4. CASE i = None
  <2>1. s = NoSignature
    BY <1>4 DEF IncumbentSignature
  <2>2. s \in Signature
    BY <2>1 DEF NoSignature, Signature
  <2> QED
    BY <2>1, <2>2, <1>1, <1>2, <1>4 DEF WellNamed, i
<1>5. CASE i # None
  <2>1. s = <<i, seen[i]>> /\ s[1] = i /\ s[2] = seen[i]
    BY <1>5 DEF IncumbentSignature
  <2>2. s \in Signature /\ WellNamed(s)
    BY <2>1, <1>1, <1>5 DEF Signature, WellNamed
  <2>3. s # NoSignature
    BY <2>1, <1>5 DEF NoSignature
  <2>4. ASSUME ph \notin FinalPhases, NEW c \in Cand, seen[c] > 0
        PROVE  ~Worse(s, <<c, seen[c]>>)
    <3> DEFINE t == <<c, seen[c]>>
    <3>1. t[1] = c /\ t[2] = seen[c]
      OBVIOUS
    <3>2. seen[i] < seen[c] \/ (seen[i] = seen[c] /\ i <= c)
      BY <2>4, <1>1
    <3>3. i \in Nat /\ seen[i] \in Nat /\ c \in Nat /\ seen[c] \in Nat
      BY <1>1, <1>2, <1>5
    <3> HIDE DEF t, s
    <3>4. ~Worse(s, t)
      BY <2>1, <3>1, <3>2, <3>3 DEF Worse
    <3> QED
      BY <3>4 DEF t
  <2> HIDE DEF s
  <2>5. s[2] > 0 /\ seen[s[1]] = s[2]
    BY <2>1, <1>1, <1>3, <1>5
  <2> QED
    BY <2>1, <2>2, <2>3, <2>4, <2>5, <1>1 DEF i, s
<1> QED
  BY <1>4, <1>5

-----------------------------------------------------------------------------
(* Types *)

Wheres == Resting \cup {"wait", "scan", "jsonl", "csv"}

(* What the model builds for a call is one.                                *)
LEMMA CallShapes ==
  ASSUME RecorderAssumption
  PROVE  /\ Nothing \in Latencies /\ NoSignature \in Signature
         /\ \A reason \in Reasons, sched \in Nat : Snap(reason, sched) \in Snapshot
         /\ \A at \in Wheres, todo \in SUBSET Cand, seen \in Latencies,
               snap \in Snapshot :
              [at |-> at, todo |-> todo, seen |-> seen, snap |-> snap] \in Call
         /\ \A at \in Wheres : At(at) \in Call
<1>1. Nothing \in Latencies /\ NoSignature \in Signature
  BY DEF Nothing, Latencies, NoSignature, Signature
<1>2. \A reason \in Reasons, sched \in Nat : Snap(reason, sched) \in Snapshot
  BY <1>1 DEF Snap, Snapshot, Phases
<1>3. \A at \in Wheres, todo \in SUBSET Cand, seen \in Latencies,
         snap \in Snapshot :
        [at |-> at, todo |-> todo, seen |-> seen, snap |-> snap] \in Call
  BY DEF Call, Latencies, Wheres
<1>4. \A at \in Wheres : At(at) \in Call
  <2>1. "event" \in Reasons /\ None \in Nat /\ {} \in SUBSET Cand
    BY DEF Reasons
  <2> QED
    BY <1>1, <1>2, <1>3, <2>1 DEF At
<1> QED
  BY <1>1, <1>2, <1>3, <1>4

(* The parts of a call.                                                    *)
LEMMA CallParts ==
  ASSUME NEW k \in Call
  PROVE  /\ k.at \in Wheres /\ k.todo \in SUBSET Cand /\ k.seen \in Latencies
         /\ k.snap \in Snapshot
         /\ k.snap.seq \in Nat /\ k.snap.reason \in Reasons
         /\ k.snap.sched \in Nat /\ k.snap.elapsed \in Nat
         /\ k.snap.phase \in Phases /\ k.snap.sig \in Signature
BY DEF Call, Wheres, Latencies, Snapshot

(* One thread's call is replaced.                                          *)
LEMMA CallReplaced ==
  ASSUME call \in [Threads -> Call], NEW t \in Threads, NEW k \in Call,
         call' = [call EXCEPT ![t] = k]
  PROVE  /\ call' \in [Threads -> Call] /\ call'[t] = k
         /\ \A u \in Threads : u # t => call'[u] = call[u]
OBVIOUS

(* The active time is one.                                                 *)
LEMMA ElapsedIsTime ==
  ASSUME TypeOK, startedAt # Absent => startedAt <= now
  PROVE  Elapsed \in Nat
BY DEF TypeOK, Elapsed

LEMMA TimeSince ==
  ASSUME NEW a \in Nat, NEW b \in Nat, NEW c \in Nat, c <= b
  PROVE  a + b - c \in Nat
OBVIOUS

LEMMA ElapsedIsTimeNext ==
  ASSUME TypeOK', startedAt' # Absent => startedAt' <= now'
  PROVE  Elapsed' \in Nat
<1>1. offset' \in Nat /\ now' \in Nat /\ startedAt' \in Nat \cup {Absent}
  BY DEF TypeOK
<1>2. CASE startedAt' = Absent
  BY <1>1, <1>2 DEF Elapsed
<1>3. CASE startedAt' # Absent
  <2>1. startedAt' \in Nat
    BY <1>1, <1>3
  <2>2. offset' + now' - startedAt' \in Nat
    BY <1>1, <1>3, <2>1, TimeSince
  <2>3. Elapsed' = offset' + now' - startedAt'
    BY <1>3 DEF Elapsed
  <2> QED
    BY <2>2, <2>3
<1> QED
  BY <1>2, <1>3

(* What is read of the archive in one step are latencies.                  *)
LEMMA AllReadIs ==
  ASSUME TypeOK
  PROVE  AllRead \in Latencies
BY DEF TypeOK, AllRead, Latencies

(* A process that is constructed or gone has the state of one.             *)
LEMMA FreshTypes ==
  ASSUME RecorderAssumption, NEW n \in Nat, NEW sig \in Signature, NEW time \in Nat,
         Fresh(n, sig, time)
  PROVE  /\ call' \in [Threads -> Call] /\ lock' \in Threads \cup {"free"}
         /\ seq' \in Nat /\ last' \in Signature /\ offset' \in Nat
         /\ startedAt' \in Nat \cup {Absent} /\ next' \in Nat
         /\ stopping' \in BOOLEAN /\ events' \in Nat
         /\ call'["main"] = At("idle") /\ call'["timer"] = At("absent")
<1>1. At("idle") \in Call /\ At("absent") \in Call
  BY CallShapes DEF Wheres, Resting
<1> QED
  BY <1>1 DEF Fresh, Threads

(* Entering _record is a call.                                             *)
LEMMA EnterTypes ==
  ASSUME RecorderAssumption, call \in [Threads -> Call], NEW t \in Threads,
         NEW reason \in Reasons, NEW sched \in Nat, Enter(t, reason, sched)
  PROVE  /\ call' \in [Threads -> Call] /\ call'[t].at = "wait"
         /\ call'[t].snap.reason = reason /\ call'[t].snap.sched = sched
         /\ \A u \in Threads : u # t => call'[u] = call[u]
<1> DEFINE k == [at |-> "wait", todo |-> {}, seen |-> Nothing,
                 snap |-> Snap(reason, sched)]
<1>1. k \in Call
  BY CallShapes DEF Wheres
<1>2. k.at = "wait" /\ k.snap.reason = reason /\ k.snap.sched = sched
  BY DEF Snap
<1>3. call' = [call EXCEPT ![t] = k]
  BY DEF Enter
<1> HIDE DEF k
<1> QED
  BY <1>1, <1>2, <1>3, CallReplaced

(* The time that the timer waits for next is later than the present, and   *)
(* positive.                                                               *)
LEMMA NextSlotIsLater ==
  ASSUME RecorderAssumption, NEW time \in Nat
  PROVE  NextSlot(time) \in Nat /\ NextSlot(time) > time
<1> DEFINE q == time \div Interval
           r == time % Interval
<1>1. Interval \in Nat /\ Interval > 0
  BY Positive
<1>2. q \in Int /\ r \in Int /\ 0 <= r /\ r < Interval
  BY <1>1
<1>3. time = Interval * q + r
  BY <1>1
<1>4. q >= 0
  BY <1>1
<1>5. (q + 1) * Interval = Interval * q + Interval
  BY <1>1, <1>2
<1>6. Interval * q \in Int
  BY <1>1, <1>2
<1> HIDE DEF q, r
<1>7. NextSlot(time) = Interval * q + Interval
  BY <1>5 DEF NextSlot, q
<1> QED
  BY <1>1, <1>2, <1>3, <1>6, <1>7

(* The state of the archive, of the files and of the recorder, typed.      *)
ArchiveTypes ==
  /\ rec \in [Cand -> Lat \cup {Unmeasured, Absent}]
  /\ phase \in Phases /\ best \in Cand \cup {None}
FileTypes ==
  /\ lines \in Nat /\ row \in Snapshot /\ csvLines \in Nat
  /\ slot \in Nat /\ standard \in Signature
ProcessTypes ==
  /\ pc \in {"new", "starting", "running", "final", "closing", "joining"}
              \cup SeedSteps \cup Ended
  /\ call \in [Threads -> Call]
  /\ lock \in Threads \cup {"free"}
  /\ seq \in Nat /\ last \in Signature
  /\ offset \in Nat /\ startedAt \in Nat \cup {Absent} /\ next \in Nat
  /\ stopping \in BOOLEAN
ClockTypes ==
  /\ now \in Nat /\ active \in Nat /\ events \in Nat
  /\ failures \in Nat /\ restarts \in Nat

LEMMA TypeParts ==
  /\ TypeOK <=> ArchiveTypes /\ FileTypes /\ ProcessTypes /\ ClockTypes
  /\ TypeOK' <=> ArchiveTypes' /\ FileTypes' /\ ProcessTypes' /\ ClockTypes'
<1>1. {"new", "starting", "seed", "seed_saved", "seed_measured",
       "running", "final", "closing", "joining"} \cup Ended
      = {"new", "starting", "running", "final", "closing", "joining"}
          \cup SeedSteps \cup Ended
  BY DEF SeedSteps
<1> QED
  BY <1>1 DEF TypeOK, ArchiveTypes, FileTypes, ProcessTypes, ClockTypes

(* Every step keeps the types.                                             *)
LEMMA TypeNext ==
  ASSUME RecorderAssumption, TypeOK, StageInv, ScanInv,
         startedAt # Absent => startedAt <= now, [Next]_vars
  PROVE  TypeOK'
<1>0. /\ ArchiveTypes /\ FileTypes /\ ProcessTypes /\ ClockTypes
      /\ Elapsed \in Nat /\ AllRead \in Latencies
  BY TypeParts, ElapsedIsTime, AllReadIs
<1>q. /\ row.elapsed \in Nat /\ row.sig \in Signature
      /\ NoSignature \in Signature /\ 0 \in Nat
      /\ "main" \in Threads /\ "timer" \in Threads
      /\ {"event", "change", "interval"} \subseteq Reasons /\ None \in Nat
      /\ {"idle", "begin", "done", "absent", "wait", "scan", "jsonl", "csv"}
           \subseteq Wheres
      /\ \A w \in Wheres : At(w) \in Call
  BY <1>0, CallShapes
     DEF FileTypes, Snapshot, Threads, Reasons, Wheres, Resting
<1> SUFFICES ArchiveTypes' /\ FileTypes' /\ ProcessTypes' /\ ClockTypes'
  BY TypeParts
<1> USE DEF archive, files, jsonl, memory, timing, clock, bounds
<1>1. CASE Resume
  BY <1>0, <1>1, <1>q, FreshTypes
     DEF Resume, ArchiveTypes, FileTypes, ProcessTypes, ClockTypes,
         LineCount, LastSignature, LastElapsed
<1>2. CASE Die \/ Exit
  BY <1>0, <1>2, <1>q, FreshTypes
     DEF Die, Exit, ArchiveTypes, FileTypes, ProcessTypes, ClockTypes, Ended
<1>3. CASE Tick
  BY <1>0, <1>3 DEF Tick, ArchiveTypes, FileTypes, ProcessTypes, ClockTypes
<1>4. CASE Start
  BY <1>0, <1>4, <1>q, EnterTypes
     DEF Start, ArchiveTypes, FileTypes, ProcessTypes, ClockTypes
<1>5. CASE StartTimer
  <2>1. call' \in [Threads -> Call]
    BY <1>0, <1>5, <1>q DEF StartTimer, ProcessTypes
  <2> QED
    BY <1>0, <1>5, <2>1
       DEF StartTimer, ArchiveTypes, FileTypes, ProcessTypes, ClockTypes, SeedSteps
<1>6. CASE Stop
  BY <1>0, <1>6 DEF Stop, ArchiveTypes, FileTypes, ProcessTypes, ClockTypes
<1>7. CASE SaveSeed \/ MeasureSeed \/ \E c \in Cand : Generate(c) \/ Measure(c)
  <2>1. rec' \in [Cand -> Lat \cup {Unmeasured, Absent}]
    BY <1>0, <1>7 DEF SaveSeed, MeasureSeed, Generate, Measure, ArchiveTypes
  <2> QED
    BY <1>0, <1>7, <2>1
       DEF SaveSeed, MeasureSeed, Generate, Measure, Quietly, Writes,
           ArchiveTypes, FileTypes, ProcessTypes, ClockTypes, SeedSteps
<1>8. CASE SeedCompleted
  BY <1>0, <1>8, <1>q, EnterTypes
     DEF SeedCompleted, Writes, ArchiveTypes, FileTypes, ProcessTypes, ClockTypes,
         Phases
<1>9. CASE EndOfStage
  <2>1. call' \in [Threads -> Call]
    BY <1>0, <1>9, <1>q, EnterTypes DEF EndOfStage, ProcessTypes
  <2> QED
    <3>1. /\ events' = events + 1 /\ phase' = "search"
          /\ Writes /\ UNCHANGED <<rec, best, pc>>
      BY <1>9 DEF EndOfStage
    <3>2. ArchiveTypes' /\ ProcessTypes'
      BY <1>0, <2>1, <3>1 DEF Writes, ArchiveTypes, ProcessTypes, Phases
    <3>3. FileTypes' /\ ClockTypes'
      BY <1>0, <3>1 DEF Writes, FileTypes, ClockTypes
    <3> QED
      BY <3>2, <3>3
<1>10. CASE Finalize
  BY <1>0, <1>10, <1>q, EnterTypes
     DEF Finalize, Writes, Measured, ArchiveTypes, FileTypes, ProcessTypes,
         ClockTypes, Phases, FinalPhases
<1>11. CASE Complete
  <2>1. best' \in Cand \cup {None}
    <3>1. CASE Finalizes \/ best' = best
      BY <1>0, <1>11, <3>1 DEF Complete, ArchiveTypes
    <3>2. CASE ~Finalizes /\ best' = Best(rec, Measured)
      <4>1. pc = "running"
        BY <1>11, <3>2 DEF Complete
      <4>2. Measured # {} /\ Measured \in SUBSET Cand
        BY <4>1, Positive DEF StageInv, Measured
      <4>3. \A c \in Measured : rec[c] \in Nat
        <5> SUFFICES ASSUME NEW c \in Measured  PROVE rec[c] \in Nat
          OBVIOUS
        <5>1. rec[c] > 0 /\ (rec[c] \in Lat \/ rec[c] = 0 \/ rec[c] = -1)
          BY <1>0 DEF Measured, ArchiveTypes
        <5>2. CASE rec[c] \in Lat
          BY <5>2, Positive
        <5> QED
          BY <5>1, <5>2
      <4>4. Best(rec, Measured) \in Measured
        BY <4>2, <4>3, BestIsLeast
      <4> QED
        BY <4>2, <4>4, <3>2
    <3> QED
      BY <1>11, <3>1, <3>2 DEF Complete
  <2> QED
    BY <1>0, <1>11, <1>q, <2>1, EnterTypes
       DEF Complete, Writes, ArchiveTypes, FileTypes, ProcessTypes, ClockTypes,
           Phases, FinalPhases
<1>12. CASE Fail
  <2>1. call' \in [Threads -> Call]
    BY <1>0, <1>12, <1>q, EnterTypes DEF Fail, ProcessTypes
  <2> QED
    BY <1>0, <1>12, <2>1
       DEF Fail, Writes, ArchiveTypes, FileTypes, ProcessTypes, ClockTypes
<1>13. CASE TimerBegins \/ TimerFires \/ TimerEnds
  <2>1. call' \in [Threads -> Call]
    BY <1>0, <1>13, <1>q, EnterTypes
       DEF TimerBegins, TimerFires, TimerEnds, ProcessTypes
  <2>2. next' \in Nat
    BY <1>0, <1>13, NextSlotIsLater
       DEF TimerBegins, TimerFires, TimerEnds, ProcessTypes
  <2> QED
    BY <1>0, <1>13, <2>1, <2>2
       DEF TimerBegins, TimerFires, TimerEnds, Steps, ArchiveTypes, FileTypes,
           ProcessTypes, ClockTypes
<1>14. ASSUME NEW t \in Threads, Record(t)
       PROVE  ArchiveTypes' /\ FileTypes' /\ ProcessTypes' /\ ClockTypes'
  <2>k. /\ call[t] \in Call /\ call[t].at \in Wheres
        /\ call[t].todo \in SUBSET Cand /\ call[t].seen \in Latencies
        /\ call[t].snap \in Snapshot /\ call[t].snap.sig \in Signature
        /\ call[t].snap.sched \in Nat
    BY <1>0, CallParts DEF ProcessTypes
  <2>r. ASSUME Return(t)
        PROVE  /\ call' \in [Threads -> Call] /\ lock' = "free" /\ next' \in Nat
    BY <1>0, <1>q, <2>r, Positive DEF Return, ProcessTypes
  <2>1. CASE Acquire(t)
    <3> DEFINE k == [at |-> "scan", snap |-> call[t].snap,
                     todo |-> IF t = "main" THEN {} ELSE Listed,
                     seen |-> IF t = "main" THEN AllRead ELSE Nothing]
    <3>1. k \in Call
      BY <1>0, <1>q, <2>k, CallShapes DEF Call, Latencies, Listed
    <3>2. call' \in [Threads -> Call]
      BY <1>0, <2>1, <3>1 DEF Acquire, Begun, ProcessTypes
    <3> QED
      BY <1>0, <2>1, <3>2
         DEF Acquire, Steps, ArchiveTypes, FileTypes, ProcessTypes, ClockTypes
  <2>2. CASE ReadRecord(t)
    <3>1. PICK c \in call[t].todo :
            call' = [call EXCEPT ![t] =
                      [at |-> "scan", snap |-> call[t].snap,
                       todo |-> call[t].todo \ {c},
                       seen |-> [call[t].seen EXCEPT ![c] = rec[c]]]]
      BY <2>2 DEF ReadRecord
    <3>2. rec[c] \in Lat \cup {Unmeasured}
      BY <1>0, <2>2 DEF ReadRecord, ScanInv, Listed, ArchiveTypes
    <3>3. [call[t].seen EXCEPT ![c] = rec[c]] \in Latencies
      BY <2>k, <3>2 DEF Latencies
    <3>4. call' \in [Threads -> Call]
      <4>1. call[t].todo \ {c} \in SUBSET Cand
        BY <2>k
      <4>2. [at |-> "scan", snap |-> call[t].snap, todo |-> call[t].todo \ {c},
             seen |-> [call[t].seen EXCEPT ![c] = rec[c]]] \in Call
        BY <2>k, <3>3, <4>1, <1>q DEF Call, Latencies
      <4> QED
        BY <1>0, <3>1, <4>2 DEF ProcessTypes
    <3> QED
      BY <1>0, <2>2, <3>4
         DEF ReadRecord, Steps, ArchiveTypes, FileTypes, ProcessTypes, ClockTypes
  <2>3. CASE Decide(t)
    <3>1. CASE Unchanged(t)
      BY <1>0, <2>3, <2>r, <3>1
         DEF Decide, Steps, ArchiveTypes, FileTypes, ProcessTypes, ClockTypes
    <3>2. CASE ~Unchanged(t)
      <4>1. Seen(t) \in Signature
        BY <2>k, SelectedSignature DEF Seen
      <4> DEFINE snap == [call[t].snap EXCEPT !.seq = seq', !.elapsed = Elapsed,
                                              !.phase = phase, !.sig = Seen(t)]
                 k == [at |-> "jsonl", todo |-> {}, seen |-> Nothing, snap |-> snap]
      <4>2. seq' \in Nat
        BY <1>0, <2>3, <3>2 DEF Decide, Numbered, ProcessTypes
      <4>3. snap \in Snapshot
        BY <1>0, <2>k, <4>1, <4>2 DEF Snapshot, ArchiveTypes
      <4>4. k \in Call
        <5> HIDE DEF snap
        <5> QED
          BY <1>q, <4>3, CallShapes DEF Call, Latencies
      <4>5. call' = [call EXCEPT ![t] = k]
        BY <2>3, <3>2 DEF Decide, Numbered
      <4> HIDE DEF k
      <4>6. call' \in [Threads -> Call]
        BY <1>0, <4>4, <4>5 DEF ProcessTypes
      <4> QED
        BY <1>0, <2>3, <3>2, <4>2, <4>6
           DEF Decide, Numbered, Steps, ArchiveTypes, FileTypes, ProcessTypes,
               ClockTypes
    <3> QED
      BY <3>1, <3>2
  <2>4. CASE AppendJsonl(t)
    <3>1. call' \in [Threads -> Call]
      BY <1>0, <1>q, <2>4, <2>k
         DEF AppendJsonl, Written, ProcessTypes, Call, Wheres
    <3>2. FileTypes'
      BY <1>0, <2>4, <2>k DEF AppendJsonl, Written, Steps, FileTypes
    <3> QED
      BY <1>0, <2>4, <3>1, <3>2
         DEF AppendJsonl, Written, Steps, ArchiveTypes, ProcessTypes, ClockTypes
  <2>5. CASE AppendCsv(t)
    BY <1>0, <2>5, <2>k, <2>r
       DEF AppendCsv, Steps, ArchiveTypes, FileTypes, ProcessTypes, ClockTypes
  <2>6. CASE AppendFails(t)
    BY <1>0, <2>6, <2>k, <2>r
       DEF AppendFails, ArchiveTypes, FileTypes, ProcessTypes, ClockTypes
  <2> QED
    BY <1>14, <2>1, <2>2, <2>3, <2>4, <2>5, <2>6 DEF Record
<1>15. CASE UNCHANGED vars
  BY <1>0, <1>15 DEF vars, ArchiveTypes, FileTypes, ProcessTypes, ClockTypes
<1> QED
  BY <1>1, <1>2, <1>3, <1>4, <1>5, <1>6, <1>7, <1>8, <1>9, <1>10, <1>11, <1>12,
     <1>13, <1>14, <1>15
     DEF Next, Controller, Timer

-----------------------------------------------------------------------------
(* What each step does to the calls *)

Others(t) == \A u \in Threads : u # t => call'[u] = call[u]

LEMMA AcquireEffect ==
  ASSUME TypeOK, NEW t \in Threads, Acquire(t)
  PROVE  /\ Others(t) /\ call'[t].at = "scan" /\ call'[t].snap = call[t].snap
         /\ call'[t].todo = IF t = "main" THEN {} ELSE Listed
         /\ call'[t].seen = IF t = "main" THEN AllRead ELSE Nothing
BY DEF TypeOK, Acquire, Begun, Others

LEMMA ReadEffect ==
  ASSUME TypeOK, NEW t \in Threads, ReadRecord(t)
  PROVE  /\ Others(t) /\ call'[t].at = "scan" /\ call'[t].snap = call[t].snap
         /\ \E c \in call[t].todo :
              /\ call'[t].todo = call[t].todo \ {c}
              /\ call'[t].seen = [call[t].seen EXCEPT ![c] = rec[c]]
<1>1. PICK c \in call[t].todo :
        call' = [call EXCEPT ![t] =
                  [at |-> "scan", snap |-> call[t].snap,
                   todo |-> call[t].todo \ {c},
                   seen |-> [call[t].seen EXCEPT ![c] = rec[c]]]]
  BY DEF ReadRecord
<1> QED
  BY <1>1 DEF TypeOK, Others

LEMMA ReturnEffect ==
  ASSUME TypeOK, NEW t \in Threads, Return(t)
  PROVE  /\ Others(t) /\ call'[t].at = "idle"
BY DEF TypeOK, Return, Others, At

LEMMA NumberedEffect ==
  ASSUME TypeOK, NEW t \in Threads, Numbered(t)
  PROVE  /\ Others(t) /\ call'[t].at = "jsonl"
         /\ call'[t].snap.seq = seq' /\ call'[t].snap.elapsed = Elapsed
         /\ call'[t].snap.phase = phase /\ call'[t].snap.sig = Seen(t)
         /\ call'[t].snap.reason = call[t].snap.reason
         /\ call'[t].snap.sched = call[t].snap.sched
<1> DEFINE snap == [call[t].snap EXCEPT !.seq = seq', !.elapsed = Elapsed,
                                        !.phase = phase, !.sig = Seen(t)]
<1>1. call[t].snap \in Snapshot
  BY CallParts DEF TypeOK
<1>2. /\ snap.seq = seq' /\ snap.elapsed = Elapsed /\ snap.phase = phase
      /\ snap.sig = Seen(t) /\ snap.reason = call[t].snap.reason
      /\ snap.sched = call[t].snap.sched
  BY <1>1 DEF Snapshot
<1>3. call' = [call EXCEPT ![t] = [at |-> "jsonl", todo |-> {}, seen |-> Nothing,
                                   snap |-> snap]]
  BY DEF Numbered
<1> HIDE DEF snap
<1> QED
  BY <1>2, <1>3 DEF TypeOK, Others

LEMMA WrittenEffect ==
  ASSUME TypeOK, NEW t \in Threads, Written(t)
  PROVE  /\ Others(t) /\ call'[t].at = "csv" /\ call'[t].snap = call[t].snap
BY DEF TypeOK, Written, Others, Call

LEMMA FreshEffect ==
  ASSUME NEW n, NEW sig, NEW time, Fresh(n, sig, time)
  PROVE  call'["main"].at = "idle" /\ call'["timer"].at = "absent"
BY DEF Fresh, Threads, At

(* Main enters _record.                                                    *)
LEMMA EnterEffect ==
  ASSUME TypeOK, NEW t \in Threads, NEW reason, NEW sched,
         Enter(t, reason, sched)
  PROVE  /\ Others(t) /\ call'[t].at = "wait" /\ call'[t].snap.reason = reason
         /\ call'[t].snap.sched = sched
<1> DEFINE k == [at |-> "wait", todo |-> {}, seen |-> Nothing,
                 snap |-> Snap(reason, sched)]
<1>2. k.at = "wait" /\ k.snap.reason = reason /\ k.snap.sched = sched
  BY DEF Snap
<1>3. call' = [call EXCEPT ![t] = k]
  BY DEF Enter
<1> HIDE DEF k
<1> QED
  BY <1>2, <1>3 DEF TypeOK, Others

(* The controller's steps that call the recorder.                          *)
Records ==
  \/ Start \/ SeedCompleted \/ EndOfStage \/ Finalize \/ Complete
  \/ (Fail /\ startedAt # Absent)
LEMMA RecordsEffect ==
  ASSUME TypeOK, LockInv, Records
  PROVE  /\ Others("main") /\ call["main"].at = "idle" /\ call'["main"].at = "wait"
         /\ call'["main"].snap.reason \in {"event", "change"}
         /\ UNCHANGED <<rec, files, lock, memory, offset, next, stopping, now,
                        active, failures, restarts>>
<1> USE DEF Writes, Idle, Threads, clock, timing
<1>1. CASE Start
  BY <1>1, EnterEffect DEF Start, LockInv, bounds, archive
<1>2. CASE SeedCompleted
  BY <1>2, EnterEffect DEF SeedCompleted, LockInv, SeedSteps
<1>3. CASE EndOfStage
  <2>1. PICK reason \in {"change", "event"} : Enter("main", reason, None)
    BY <1>3 DEF EndOfStage
  <2> QED
    BY <1>3, <2>1, EnterEffect DEF EndOfStage
<1>4. CASE Finalize
  BY <1>4, EnterEffect DEF Finalize
<1>5. CASE Complete
  <2>1. /\ call["main"].at = "idle" /\ Enter("main", "event", None)
        /\ Writes /\ rec' = rec
    BY <1>5 DEF Complete
  <2> QED
    BY <2>1, EnterEffect
<1>6. CASE Fail /\ startedAt # Absent
  <2>1. /\ call["main"].at = "idle" /\ Enter("main", "event", None)
        /\ Writes /\ rec' = rec
    BY <1>6 DEF Fail, archive
  <2> QED
    BY <2>1, EnterEffect
<1> QED
  BY <1>1, <1>2, <1>3, <1>4, <1>5, <1>6 DEF Records

(* The controller's steps that write records.                              *)
WritesRecord ==
  SaveSeed \/ MeasureSeed \/ \E c \in Cand : Generate(c) \/ Measure(c)

(* The timer's thread, when it is not in _record.                          *)
LEMMA TimerEffect ==
  ASSUME TypeOK, StartTimer \/ TimerBegins \/ TimerFires \/ TimerEnds
  PROVE  /\ call'["main"] = call["main"]
         /\ call'["timer"].at \in {"begin", "idle", "wait", "done"}
         /\ call'["timer"].at = "wait" => TimerFires
<1>0. "main" \in Threads /\ "timer" \in Threads /\ "main" # "timer"
      /\ call \in [Threads -> Call]
  BY DEF Threads, TypeOK
<1>1. \A w : At(w).at = w
  BY DEF At
<1>2. CASE StartTimer
  BY <1>0, <1>1, <1>2 DEF StartTimer
<1>3. CASE TimerBegins
  BY <1>0, <1>1, <1>3 DEF TimerBegins
<1>4. CASE TimerFires
  BY <1>0, <1>4, EnterEffect DEF TimerFires, Others
<1>5. CASE TimerEnds
  BY <1>0, <1>1, <1>5 DEF TimerEnds
<1> QED
  BY <1>2, <1>3, <1>4, <1>5

(* The steps by cases, as the proofs below take them.                      *)
LEMMA NextCases ==
  ASSUME [Next]_vars
  PROVE  \/ Resume \/ Die \/ Exit \/ Tick
         \/ Alive /\ Records
         \/ Alive /\ Fail /\ startedAt = Absent
         \/ Alive /\ (StartTimer \/ Stop \/ WritesRecord)
         \/ Alive /\ (TimerBegins \/ TimerFires \/ TimerEnds)
         \/ Alive /\ \E t \in Threads : Acquire(t)
         \/ Alive /\ \E t \in Threads : ReadRecord(t)
         \/ Alive /\ \E t \in Threads : Decide(t)
         \/ Alive /\ \E t \in Threads : AppendJsonl(t)
         \/ Alive /\ \E t \in Threads : AppendCsv(t)
         \/ Alive /\ \E t \in Threads : AppendFails(t)
         \/ UNCHANGED vars
<1>1. CASE Alive /\ Controller
  <2>1. \/ Records \/ Exit \/ (Fail /\ startedAt = Absent)
        \/ StartTimer \/ Stop \/ WritesRecord
    BY <1>1 DEF Controller, Records, WritesRecord
  <2> QED
    BY <1>1, <2>1
<1>2. CASE Alive /\ Timer
  BY <1>2 DEF Timer
<1>3. CASE Alive /\ \E t \in Threads : Record(t)
  BY <1>3 DEF Record
<1>4. CASE Resume \/ Die \/ Tick \/ UNCHANGED vars
  BY <1>4
<1> QED
  BY <1>1, <1>2, <1>3, <1>4 DEF Next

-----------------------------------------------------------------------------
(* Each part of the invariant is kept *)

LEMMA StageNext ==
  ASSUME RecorderAssumption, TypeOK, StageInv, [Next]_vars
  PROVE  StageInv'
<1>p. Seed \in Cand /\ rec \in [Cand -> Lat \cup {Unmeasured, Absent}]
  BY Positive DEF TypeOK
<1>1. CASE Resume \/ Die \/ Exit
  BY <1>1 DEF Resume, Die, Exit, StageInv, archive, SeedSteps
<1>2. CASE Tick \/ Stop \/ Fail \/ Start
  BY <1>2 DEF Tick, Stop, Fail, Start, StageInv, archive, SeedSteps
<1>3. CASE StartTimer
  BY <1>3 DEF StartTimer, StageInv, archive, SeedSteps
<1>4. CASE SaveSeed
  BY <1>4, <1>p DEF SaveSeed, Quietly, StageInv, SeedSteps, FinalPhases
<1>5. CASE MeasureSeed
  <2>1. PICK l \in Lat : rec' = [rec EXCEPT ![Seed] = l]
    BY <1>5 DEF MeasureSeed
  <2>2. rec'[Seed] = l
    BY <2>1, <1>p
  <2>3. rec'[Seed] > 0
    BY <2>2, Positive
  <2> QED
    BY <1>5, <2>3 DEF MeasureSeed, Quietly, StageInv, SeedSteps, FinalPhases
<1>6. CASE SeedCompleted
  BY <1>6 DEF SeedCompleted, StageInv, SeedSteps, FinalPhases
<1>7. ASSUME NEW c \in Cand, Generate(c) \/ Measure(c)  PROVE StageInv'
  <2>1. ~(rec[c] > 0) /\ pc = "running" /\ UNCHANGED <<phase, best, pc>>
    BY <1>7 DEF Generate, Measure, Quietly
  <2>2. \A d \in Cand : d # c => rec'[d] = rec[d]
    BY <1>7, <1>p DEF Generate, Measure
  <2>3. \A d \in Cand : rec[d] > 0 => rec'[d] = rec[d]
    BY <2>1, <2>2
  <2> QED
    BY <2>1, <2>3, <1>p DEF StageInv, SeedSteps
<1>8. CASE EndOfStage
  BY <1>8 DEF EndOfStage, StageInv, SeedSteps, FinalPhases
<1>9. CASE Finalize
  BY <1>9 DEF Finalize, Measured, StageInv, SeedSteps, FinalPhases
<1>10. CASE Complete
  <2>1. pc' = "closing" /\ rec' = rec /\ pc \in {"running", "final"}
    BY <1>10 DEF Complete
  <2>2. CASE UNCHANGED <<phase, best>>
    BY <2>1, <2>2 DEF StageInv, SeedSteps
  <2>3. CASE Finalizes /\ best' = best /\ phase' = "run_completed"
    <3>1. pc = "final"
      BY <1>10, <2>3 DEF Complete
    <3> QED
      BY <2>1, <2>3, <3>1 DEF StageInv, SeedSteps
  <2>4. CASE ~Finalizes /\ best' = Best(rec, Measured) /\ phase' = "run_completed"
    <3>1. pc = "running"
      BY <1>10, <2>4 DEF Complete
    <3>2. Measured # {} /\ Measured \in SUBSET Cand
      BY <3>1, Positive DEF StageInv, Measured
    <3>3. \A c \in Measured : rec[c] \in Nat
      <4> SUFFICES ASSUME NEW c \in Measured  PROVE rec[c] \in Nat
        OBVIOUS
      <4>1. rec[c] > 0 /\ (rec[c] \in Lat \/ rec[c] = 0 \/ rec[c] = -1)
        BY <1>p DEF Measured
      <4>2. CASE rec[c] \in Lat
        BY <4>2, Positive
      <4> QED
        BY <4>1, <4>2
    <3>4. Best(rec, Measured) \in Measured
      BY <3>2, <3>3, BestIsLeast
    <3>5. best' \in Cand /\ rec[best'] > 0
      BY <2>4, <3>4 DEF Measured
    <3> QED
      BY <2>1, <2>4, <3>1, <3>5 DEF StageInv, SeedSteps
  <2> QED
    BY <1>10, <2>2, <2>3, <2>4 DEF Complete
<1>11. CASE Timer
  BY <1>11 DEF Timer, TimerBegins, TimerFires, TimerEnds, Steps, StageInv, archive
<1>12. ASSUME NEW t \in Threads, Record(t)  PROVE StageInv'
  BY <1>12 DEF Record, Acquire, ReadRecord, Decide, AppendJsonl, AppendCsv,
               AppendFails, Steps, StageInv, archive
<1>13. CASE UNCHANGED vars
  BY <1>13 DEF vars, StageInv, archive
<1> QED
  BY <1>1, <1>2, <1>3, <1>4, <1>5, <1>6, <1>7, <1>8, <1>9, <1>10, <1>11, <1>12,
     <1>13 DEF Next, Controller

LEMMA LockNext ==
  ASSUME RecorderAssumption, TypeOK, TypeOK', LockInv, [Next]_vars
  PROVE  LockInv'
<1> USE DEF Threads, Holding, SeedSteps, Ended
<1>a. \A t \in Threads : t # "free"
  OBVIOUS
<1>1. CASE Resume \/ Die \/ Exit
  <2>1. /\ call'["main"].at = "idle" /\ call'["timer"].at = "absent"
        /\ lock' = "free" /\ startedAt' = Absent
        /\ pc' \in {"new", "dead", "exited"}
    BY <1>1, FreshEffect DEF Resume, Die, Exit, Fresh
  <2> QED
    BY <2>1 DEF LockInv
<1>2. CASE Tick \/ UNCHANGED vars
  BY <1>2 DEF Tick, vars, LockInv, timing
<1>3. CASE Records
  <2>1. /\ Others("main") /\ call["main"].at = "idle" /\ call'["main"].at = "wait"
        /\ lock' = lock
    BY <1>3, RecordsEffect
  <2>2. /\ pc' \notin {"new", "joining"} \cup SeedSteps \cup Ended
        /\ startedAt' # Absent /\ (startedAt = Absent => pc = "new")
        /\ (pc' = "starting" => pc = "new")
    BY <1>3
       DEF Records, Start, SeedCompleted, EndOfStage, Finalize, Complete, Fail,
           Writes, timing, LockInv, TypeOK
  <2> QED
    BY <2>1, <2>2 DEF LockInv, Others
<1>4. CASE Fail /\ startedAt = Absent
  BY <1>4 DEF Fail, Writes, timing, LockInv
<1>5. CASE StartTimer
  <2>1. /\ call'["timer"].at = "begin" /\ call'["main"] = call["main"]
        /\ call["main"].at = "idle"
    BY <1>5 DEF StartTimer, Idle, TypeOK, At
  <2> QED
    BY <1>5, <2>1 DEF StartTimer, LockInv, timing
<1>6. CASE Stop
  BY <1>6 DEF Stop, Idle, LockInv
<1>7. CASE WritesRecord
  <2>1. /\ UNCHANGED <<call, lock, startedAt>>
        /\ pc' \in SeedSteps \cup {"running"}
        /\ pc \in SeedSteps \cup {"running"}
        /\ (pc = "running" <=> pc' = "running")
    BY <1>7
       DEF WritesRecord, SaveSeed, MeasureSeed, Generate, Measure, Quietly, Writes,
           timing
  <2> QED
    BY <2>1 DEF LockInv
<1>8. CASE TimerBegins \/ TimerFires \/ TimerEnds
  <2>1. /\ call["timer"].at \in {"begin", "idle"} /\ call'["main"] = call["main"]
        /\ call'["timer"].at \in {"idle", "wait", "done"}
        /\ UNCHANGED <<lock, pc, startedAt>>
    BY <1>8, EnterEffect
       DEF TimerBegins, TimerFires, TimerEnds, Steps, TypeOK, At, Others
  <2> QED
    BY <2>1 DEF LockInv
<1>9. ASSUME NEW t \in Threads, Record(t)
      PROVE  LockInv'
  <2>1. UNCHANGED <<pc, startedAt>>
    BY <1>9 DEF Record, Acquire, ReadRecord, Decide, AppendJsonl, AppendCsv,
                AppendFails, Steps
  <2>2. CASE Acquire(t)
    <3>1. call[t].at = "wait" /\ lock = "free" /\ lock' = t
      BY <2>2 DEF Acquire
    <3>2. Others(t) /\ call'[t].at = "scan"
      BY <2>2, AcquireEffect
    <3> QED
      BY <2>1, <3>1, <3>2 DEF LockInv, Others
  <2>3. CASE \/ ReadRecord(t) \/ AppendJsonl(t)
             \/ Decide(t) /\ ~Unchanged(t)
    <3>1. /\ Others(t) /\ call[t].at \in Holding /\ call'[t].at \in Holding
          /\ lock' = lock
      BY <2>3, ReadEffect, WrittenEffect, NumberedEffect
         DEF ReadRecord, AppendJsonl, Written, Decide, Scanned, Numbered
    <3> QED
      BY <2>1, <3>1 DEF LockInv, Others
  <2>4. CASE \/ AppendCsv(t) \/ AppendFails(t)
             \/ Decide(t) /\ Unchanged(t)
    <3>1. Return(t) /\ call[t].at \in Holding
      BY <2>4 DEF AppendCsv, AppendFails, Decide, Scanned
    <3>2. Others(t) /\ call'[t].at = "idle" /\ lock' = "free"
      BY <3>1, ReturnEffect DEF Return
    <3> QED
      BY <2>1, <3>1, <3>2 DEF LockInv, Others
  <2> QED
    BY <1>9, <2>2, <2>3, <2>4 DEF Record
<1> QED
  BY <1>1, <1>2, <1>3, <1>4, <1>5, <1>6, <1>7, <1>8, <1>9, NextCases DEF Record

LEMMA TimeNext ==
  ASSUME RecorderAssumption, TypeOK, TypeOK', LockInv, TimeInv, [Next]_vars
  PROVE  TimeInv' /\ (Alive /\ Alive' => Elapsed <= Elapsed') /\ active <= active'
<1> DEFINE Told ==
      \A t \in Threads : call'[t].at = "jsonl" =>
        row'.elapsed <= call'[t].snap.elapsed /\ call'[t].snap.elapsed <= Elapsed'
<1>0. /\ Elapsed \in Nat /\ now \in Nat /\ active \in Nat /\ row.elapsed \in Nat
      /\ offset \in Nat /\ startedAt \in Nat \cup {Absent}
      /\ now' \in Nat /\ active' \in Nat
      /\ \A t \in Threads : call[t].snap.elapsed \in Nat
      /\ "main" \in Threads /\ "timer" \in Threads
  BY CallParts, ElapsedIsTime DEF TypeOK, TimeInv, Snapshot, Threads
<1>s. ASSUME UNCHANGED <<offset, startedAt, now>>  PROVE Elapsed' = Elapsed
  BY <1>s DEF Elapsed
<1> SUFFICES TimeInv' /\ (Alive /\ Alive' => Elapsed <= Elapsed') /\ active <= active'
  OBVIOUS
<1> USE DEF Threads, Ended, Alive, clock, timing, files, jsonl, Holding
<1>1. CASE Resume
  <2>1. /\ call'["main"].at = "idle" /\ call'["timer"].at = "absent"
        /\ startedAt' = Absent /\ offset' = row.elapsed /\ pc' = "new"
        /\ UNCHANGED <<files, clock>> /\ pc \in Ended
    BY <1>1, FreshEffect DEF Resume, Fresh, LastElapsed
  <2>2. Elapsed' = row.elapsed
    BY <2>1 DEF Elapsed
  <2> QED
    BY <2>1, <2>2, <1>0 DEF TimeInv
<1>2. CASE Die \/ Exit
  <2>1. /\ call'["main"].at = "idle" /\ call'["timer"].at = "absent"
        /\ startedAt' = Absent /\ pc' \in Ended
        /\ UNCHANGED <<files, clock>>
    BY <1>2, FreshEffect DEF Die, Exit, Fresh
  <2> QED
    BY <2>1, <1>0 DEF TimeInv
<1>3. CASE Tick
  <2>1. /\ now' = now + 1 /\ active' = IF Alive THEN active + 1 ELSE active
        /\ UNCHANGED <<files, pc, call, offset, startedAt>>
    BY <1>3 DEF Tick
  <2>2. Elapsed' = IF startedAt = Absent THEN Elapsed ELSE Elapsed + 1
    BY <2>1, <1>0 DEF Elapsed
  <2>3. startedAt' # Absent => startedAt' <= now'
    BY <2>1, <1>0 DEF TimeInv
  <2>4. row'.elapsed <= active' /\ active <= active'
    BY <2>1, <1>0 DEF TimeInv
  <2>5. Elapsed <= Elapsed'
    BY <2>2, <1>0
  <2>6. Alive' => row'.elapsed <= Elapsed' /\ Elapsed' <= active'
    BY <2>1, <2>2, <1>0 DEF TimeInv
  <2>7. Told
    BY <2>1, <2>5, <2>2, <1>0 DEF TimeInv
  <2> QED
    BY <2>3, <2>4, <2>5, <2>6, <2>7 DEF TimeInv
<1>4. CASE Alive /\ Records
  <2>1. /\ Others("main") /\ call'["main"].at = "wait"
        /\ UNCHANGED <<files, offset, now, active>>
    BY <1>4, RecordsEffect
  <2>2. startedAt' = startedAt \/ startedAt' = now
    BY <1>4 DEF Records, Start, SeedCompleted, EndOfStage, Finalize, Complete,
                Fail, Writes
  <2>3. startedAt' # Absent => startedAt' <= now'
    BY <2>1, <2>2, <1>0 DEF TimeInv
  <2>4. Elapsed' = Elapsed
    <3>1. CASE startedAt' = startedAt
      BY <3>1, <2>1, <1>s
    <3>2. CASE startedAt' # startedAt
      <4>1. startedAt = Absent /\ startedAt' = now
        BY <1>4, <3>2
           DEF Records, Start, SeedCompleted, EndOfStage, Finalize, Complete,
               Fail, Writes, LockInv, SeedSteps
      <4> QED
        BY <4>1, <2>1, <1>0 DEF Elapsed
    <3> QED
      BY <3>1, <3>2
  <2>5. Told
    BY <2>1, <2>4 DEF TimeInv, Others
  <2> QED
    BY <1>4, <2>1, <2>3, <2>4, <2>5, <1>0 DEF TimeInv
<1>5. CASE \/ (Fail /\ startedAt = Absent) \/ StartTimer \/ Stop \/ WritesRecord
           \/ TimerBegins \/ TimerFires \/ TimerEnds \/ UNCHANGED vars
  <2>1. UNCHANGED <<files, clock, offset, startedAt>> /\ (Alive' => Alive)
    BY <1>5
       DEF Fail, StartTimer, Stop, WritesRecord, SaveSeed, MeasureSeed, Generate,
           Measure, Quietly, Writes, TimerBegins, TimerFires, TimerEnds, Steps, vars
  <2>2. \A t \in Threads : call'[t].at = "jsonl" => call'[t] = call[t]
    <3>1. CASE (Fail /\ startedAt = Absent) \/ Stop \/ WritesRecord \/ UNCHANGED vars
      BY <3>1
         DEF Fail, Stop, WritesRecord, SaveSeed, MeasureSeed, Generate,
             Measure, Quietly, vars
    <3>2. CASE StartTimer \/ TimerBegins \/ TimerEnds \/ TimerFires
      BY <3>2, TimerEffect
    <3> QED
      BY <1>5, <3>1, <3>2
  <2>3. Elapsed' = Elapsed
    BY <2>1, <1>s
  <2>4. Told
    BY <2>1, <2>2, <2>3 DEF TimeInv
  <2> QED
    BY <2>1, <2>3, <2>4, <1>0 DEF TimeInv
<1>6. ASSUME NEW t \in Threads, Alive, Record(t)
      PROVE  TimeInv' /\ Elapsed <= Elapsed' /\ active <= active'
  <2>1. UNCHANGED <<clock, offset, startedAt, pc>>
    BY <1>6 DEF Record, Acquire, ReadRecord, Decide, AppendJsonl, AppendCsv,
                AppendFails, Steps
  <2>2. Elapsed' = Elapsed
    BY <2>1, <1>s
  <2>3. CASE \/ Acquire(t) \/ ReadRecord(t) \/ AppendCsv(t) \/ AppendFails(t)
             \/ (Decide(t) /\ Unchanged(t))
    <3>1. UNCHANGED jsonl
      BY <2>3 DEF Acquire, ReadRecord, AppendCsv, AppendFails, Decide
    <3>2. Others(t) /\ call'[t].at # "jsonl"
      BY <2>3, AcquireEffect, ReadEffect, ReturnEffect
         DEF AppendCsv, AppendFails, Decide
    <3>3. Told
      BY <2>1, <2>2, <3>1, <3>2 DEF TimeInv, Others
    <3> QED
      BY <2>1, <2>2, <3>1, <3>3, <1>0 DEF TimeInv
  <2>4. CASE Decide(t) /\ ~Unchanged(t)
    <3>1. UNCHANGED jsonl
      BY <2>4 DEF Decide
    <3>2. Others(t) /\ call'[t].snap.elapsed = Elapsed
      BY <2>4, NumberedEffect DEF Decide
    <3>3. Told
      BY <1>6, <2>1, <2>2, <3>1, <3>2, <1>0 DEF TimeInv, Others
    <3> QED
      BY <2>1, <2>2, <3>1, <3>3, <1>0 DEF TimeInv
  <2>5. CASE AppendJsonl(t)
    <3>1. /\ Others(t) /\ call'[t].at = "csv" /\ row' = call[t].snap
          /\ call[t].at = "jsonl"
      BY <2>5, WrittenEffect DEF AppendJsonl, Written
    <3>2. row'.elapsed <= Elapsed'
      BY <3>1, <2>2 DEF TimeInv
    <3>3. \A u \in Threads : call'[u].at # "jsonl"
      BY <3>1 DEF LockInv, Others
    <3>4. row'.elapsed <= active'
      BY <1>6, <2>1, <2>2, <3>1, <3>2, <1>0 DEF TimeInv
    <3> QED
      BY <2>1, <2>2, <3>2, <3>3, <3>4, <1>0 DEF TimeInv
  <2> QED
    BY <1>6, <2>3, <2>4, <2>5 DEF Record
<1> QED
  BY <1>1, <1>2, <1>3, <1>4, <1>5, <1>6, NextCases DEF Record

(* What the steps outside of _record leave alone: the files, the counter,  *)
(* and every call that is past the lock.                                   *)
Outside ==
  /\ UNCHANGED <<files, lock, memory, failures, restarts>>
  /\ Alive' = Alive
  /\ \A t \in Threads : call'[t].at \in Holding => call'[t] = call[t]
  /\ \A t \in Threads : call[t].at \in Holding => call'[t] = call[t]

LEMMA OutsideSteps ==
  ASSUME RecorderAssumption, TypeOK, TypeOK', LockInv,
         \/ Tick \/ (Alive /\ Records) \/ (Alive /\ Fail /\ startedAt = Absent)
         \/ (Alive /\ (StartTimer \/ Stop \/ WritesRecord))
         \/ (Alive /\ (TimerBegins \/ TimerFires \/ TimerEnds))
         \/ UNCHANGED vars
  PROVE  Outside
<1> USE DEF Threads, Holding, Alive, Ended
<1>1. CASE Tick \/ UNCHANGED vars
  BY <1>1 DEF Tick, vars, Outside, bounds
<1>2. CASE Alive /\ Records
  <2>1. /\ Others("main") /\ call["main"].at = "idle" /\ call'["main"].at = "wait"
        /\ UNCHANGED <<files, lock, memory, failures, restarts>>
    BY <1>2, RecordsEffect
  <2>2. pc' \notin Ended
    BY <1>2 DEF Records, Start, SeedCompleted, EndOfStage, Finalize, Complete, Fail
  <2> QED
    BY <1>2, <2>1, <2>2 DEF Outside, Others
<1>3. CASE \/ (Alive /\ Fail /\ startedAt = Absent)
           \/ (Alive /\ (Stop \/ WritesRecord))
  BY <1>3
     DEF Fail, Stop, WritesRecord, SaveSeed, MeasureSeed, Generate, Measure,
         Quietly, Writes, Outside, bounds
<1>4. CASE Alive /\ (StartTimer \/ TimerBegins \/ TimerFires \/ TimerEnds)
  <2>1. /\ UNCHANGED <<files, lock, memory, failures, restarts>>
        /\ Alive'
    BY <1>4
       DEF StartTimer, TimerBegins, TimerFires, TimerEnds, Steps, bounds
  <2>2. /\ call'["main"] = call["main"]
        /\ call'["timer"].at \in {"begin", "idle", "wait", "done"}
    BY <1>4, TimerEffect
  <2>3. call["timer"].at \in {"begin", "idle", "absent"}
    BY <1>4 DEF StartTimer, TimerBegins, TimerFires, TimerEnds, LockInv
  <2> QED
    BY <1>4, <2>1, <2>2, <2>3 DEF Outside
<1> QED
  BY <1>1, <1>2, <1>3, <1>4

LEMMA CountNext ==
  ASSUME RecorderAssumption, TypeOK, TypeOK', LockInv, LockInv', CountInv, [Next]_vars
  PROVE  CountInv'
<1> USE DEF Threads, Holding, Alive, Ended
<1>0. /\ lines \in Nat /\ csvLines \in Nat /\ failures \in Nat /\ restarts \in Nat
      /\ seq \in Nat /\ lines' \in Nat /\ csvLines' \in Nat
      /\ failures' \in Nat /\ restarts' \in Nat /\ seq' \in Nat
  BY DEF TypeOK
<1>1. CASE Resume \/ Die \/ Exit
  <2>1. /\ call'["main"].at = "idle" /\ call'["timer"].at = "absent"
        /\ UNCHANGED <<files, failures>>
    BY <1>1, FreshEffect DEF Resume, Die, Exit
  <2>2. ~AtCsv' /\ ~AtJsonl'
    BY <2>1 DEF AtCsv, AtJsonl
  <2>3. CASE Resume
    BY <1>0, <2>1, <2>2, <2>3
       DEF Resume, Fresh, LineCount, CountInv, files, jsonl
  <2>4. CASE Die \/ Exit
    BY <1>0, <2>1, <2>2, <2>4 DEF Die, Exit, CountInv, files, jsonl
  <2> QED
    BY <1>1, <2>3, <2>4
<1>2. CASE Outside
  <2>1. AtCsv' = AtCsv /\ AtJsonl' = AtJsonl
    BY <1>2 DEF Outside, AtCsv, AtJsonl
  <2> QED
    BY <1>0, <1>2, <2>1 DEF Outside, CountInv, files, jsonl, memory
<1>3. ASSUME NEW t \in Threads, Alive, Record(t)
      PROVE  CountInv'
  <2>0. UNCHANGED <<pc, restarts>>
    BY <1>3 DEF Record, Acquire, ReadRecord, Decide, AppendJsonl, AppendCsv,
                AppendFails, Steps, bounds
  <2>1. CASE Acquire(t) \/ ReadRecord(t)
    <3>1. /\ Others(t) /\ call[t].at \in {"wait", "scan"} /\ call'[t].at = "scan"
          /\ UNCHANGED <<files, memory, failures>>
      BY <2>1, AcquireEffect, ReadEffect DEF Acquire, ReadRecord, Steps, bounds
    <3>2. AtCsv' = AtCsv /\ AtJsonl' = AtJsonl
      BY <3>1 DEF AtCsv, AtJsonl, Others
    <3> QED
      BY <1>0, <1>3, <2>0, <3>1, <3>2 DEF Others, CountInv, files, jsonl, memory
  <2>2. CASE Decide(t) /\ Unchanged(t)
    <3>1. /\ Others(t) /\ call[t].at = "scan" /\ call'[t].at = "idle"
          /\ UNCHANGED <<files, memory, failures>>
      BY <2>2, ReturnEffect DEF Decide, Scanned, Steps, bounds, memory
    <3>2. AtCsv' = AtCsv /\ AtJsonl' = AtJsonl
      BY <3>1 DEF AtCsv, AtJsonl, Others
    <3> QED
      BY <1>0, <1>3, <2>0, <3>1, <3>2 DEF Others, CountInv, files, jsonl, memory
  <2>3. CASE Decide(t) /\ ~Unchanged(t)
    <3>1. /\ Others(t) /\ call[t].at = "scan" /\ call'[t].at = "jsonl"
          /\ call'[t].snap.seq = seq' /\ seq' = seq + 1
          /\ UNCHANGED <<files, failures>>
      BY <2>3, NumberedEffect DEF Decide, Scanned, Steps, bounds, Numbered
    <3>2. \A u \in Threads : u # t => call[u].at \notin Holding
      BY <3>1 DEF LockInv
    <3>3. ~AtCsv' /\ AtJsonl' /\ ~AtCsv /\ ~AtJsonl
      BY <3>1, <3>2 DEF AtCsv, AtJsonl, Others
    <3> QED
      BY <1>0, <1>3, <2>0, <3>1, <3>2, <3>3 DEF Others, CountInv, files, jsonl
  <2>4. CASE AppendJsonl(t)
    <3>1. /\ Others(t) /\ call[t].at = "jsonl" /\ call'[t].at = "csv"
          /\ call'[t].snap = call[t].snap /\ row' = call[t].snap
          /\ lines' = lines + 1
          /\ UNCHANGED <<csvLines, memory, failures>>
      BY <2>4, WrittenEffect DEF AppendJsonl, Written, Steps, bounds
    <3>2. \A u \in Threads : u # t => call[u].at \notin Holding
      BY <3>1 DEF LockInv
    <3>3. AtCsv' /\ ~AtJsonl' /\ ~AtCsv /\ AtJsonl
      BY <3>1, <3>2 DEF AtCsv, AtJsonl, Others
    <3> QED
      BY <1>0, <1>3, <2>0, <3>1, <3>2, <3>3 DEF Others, CountInv, memory
  <2>5. CASE AppendCsv(t)
    <3>1. /\ Others(t) /\ call[t].at = "csv" /\ call'[t].at = "idle"
          /\ csvLines' = csvLines + 1
          /\ UNCHANGED <<jsonl, seq, failures>>
      BY <2>5, ReturnEffect DEF AppendCsv, Steps, bounds
    <3>2. \A u \in Threads : u # t => call[u].at \notin Holding
      BY <3>1 DEF LockInv
    <3>3. ~AtCsv' /\ ~AtJsonl' /\ AtCsv /\ ~AtJsonl
      BY <3>1, <3>2 DEF AtCsv, AtJsonl, Others
    <3> QED
      BY <1>0, <1>3, <2>0, <3>1, <3>2, <3>3 DEF Others, CountInv, jsonl
  <2>6. CASE AppendFails(t)
    <3>1. /\ Others(t) /\ call[t].at \in {"csv", "jsonl"} /\ call'[t].at = "idle"
          /\ failures' = failures + 1
          /\ UNCHANGED files
      BY <2>6, ReturnEffect DEF AppendFails
    <3>2. \A u \in Threads : u # t => call[u].at \notin Holding
      BY <3>1 DEF LockInv
    <3>3. ~AtCsv' /\ ~AtJsonl'
      BY <3>1, <3>2 DEF AtCsv, AtJsonl, Others
    <3> QED
      BY <1>0, <1>3, <2>0, <3>1, <3>2, <3>3 DEF Others, CountInv, files, jsonl
  <2> QED
    BY <1>3, <2>1, <2>2, <2>3, <2>4, <2>5, <2>6 DEF Record
<1> QED
  BY <1>1, <1>2, <1>3, NextCases, OutsideSteps DEF Record

LEMMA SlotNext ==
  ASSUME RecorderAssumption, TypeOK, TypeOK', LockInv, LockInv', TimeInv, TimeInv',
         Alive /\ Alive' => Elapsed <= Elapsed', SlotInv, [Next]_vars
  PROVE  SlotInv'
<1> USE DEF Threads, Holding
<1>0. /\ slot \in Nat /\ next \in Nat /\ slot' \in Nat /\ next' \in Nat
      /\ row.elapsed \in Nat /\ row'.elapsed \in Nat
      /\ Elapsed \in Nat /\ Elapsed' \in Nat
      /\ Interval \in Nat /\ Interval > 0
      /\ \A t \in Threads :
           /\ call[t].snap.sched \in Nat /\ call[t].snap.elapsed \in Nat
           /\ call'[t].snap.sched \in Nat /\ call'[t].snap.elapsed \in Nat
  <2>1. \A t \in Threads : call[t] \in Call /\ call'[t] \in Call
    BY DEF TypeOK
  <2>2. Elapsed \in Nat /\ Elapsed' \in Nat
    <3>1. Elapsed \in Nat
      BY ElapsedIsTime DEF TimeInv
    <3>2. Elapsed' \in Nat
      BY ElapsedIsTimeNext DEF TimeInv
    <3> QED
      BY <3>1, <3>2
  <2> QED
    BY <2>1, <2>2, CallParts, Positive DEF TypeOK, Snapshot
<1>1. CASE Resume \/ Die \/ Exit
  <2>1. /\ call'["main"].at = "idle" /\ call'["timer"].at = "absent"
        /\ UNCHANGED <<row, slot>>
    BY <1>1, FreshEffect DEF Resume, Die, Exit, files, jsonl
  <2> QED
    BY <2>1 DEF SlotInv
<1>2. CASE Tick \/ UNCHANGED vars
  <2>1. UNCHANGED <<pc, call, row, slot, next>>
    BY <1>2 DEF Tick, vars, files, jsonl, timing
  <2>2. CASE Alive
    <3>1. Elapsed <= Elapsed'
      BY <2>1, <2>2 DEF Alive
    <3> QED
      BY <1>0, <2>1, <3>1 DEF SlotInv
  <2>3. CASE ~Alive
    BY <2>1, <2>3 DEF SlotInv, LockInv, Alive
  <2> QED
    BY <2>2, <2>3
<1>3. CASE Alive /\ Records
  <2>1. /\ Others("main") /\ call'["main"].snap.reason \in {"event", "change"}
        /\ UNCHANGED <<row, slot, next>>
    BY <1>3, RecordsEffect DEF files, jsonl
  <2>2. Elapsed <= Elapsed'
    BY <1>3, OutsideSteps DEF Outside
  <2> QED
    BY <1>0, <2>1, <2>2 DEF SlotInv, Others
<1>4. CASE \/ (Alive /\ Fail /\ startedAt = Absent)
           \/ (Alive /\ (Stop \/ WritesRecord))
  <2>1. UNCHANGED <<call, row, slot, next>>
    BY <1>4 DEF Fail, Stop, WritesRecord, SaveSeed, MeasureSeed, Generate,
                Measure, Quietly, Writes, files, jsonl, timing
  <2>2. Elapsed <= Elapsed'
    BY <1>4, OutsideSteps DEF Outside
  <2> QED
    BY <1>0, <2>1, <2>2 DEF SlotInv
<1>5. CASE Alive /\ (StartTimer \/ TimerBegins \/ TimerFires \/ TimerEnds)
  <2>1. /\ call'["main"] = call["main"]
        /\ call'["timer"].at \in {"begin", "idle", "wait", "done"}
        /\ (call'["timer"].at = "wait" => TimerFires)
        /\ UNCHANGED <<row, slot>>
    BY <1>5, TimerEffect
       DEF StartTimer, TimerBegins, TimerFires, TimerEnds, files, jsonl
  <2>2. Elapsed' = Elapsed
    BY <1>5 DEF StartTimer, TimerBegins, TimerFires, TimerEnds, Steps, Elapsed,
                timing, clock
  <2>3. call'["timer"].at = "idle" => slot' < next'
    <3>1. CASE StartTimer
      BY <3>1 DEF StartTimer, At, TypeOK
    <3>2. CASE TimerBegins
      <4>1. next' > Elapsed
        BY <3>2, <1>0, NextSlotIsLater DEF TimerBegins
      <4>2. slot <= Elapsed
        BY <1>0, <1>5 DEF SlotInv, TimeInv
      <4> QED
        BY <4>1, <4>2, <2>1, <1>0
    <3>3. CASE TimerFires \/ TimerEnds
      BY <3>3, <2>1, EnterEffect DEF TimerFires, TimerEnds, At, SlotInv
    <3> QED
      BY <1>5, <3>1, <3>2, <3>3
  <2>4. ASSUME call'["timer"].at = "wait"
        PROVE  /\ call'["timer"].snap.reason = "interval"
               /\ call'["timer"].snap.sched = next'
               /\ Elapsed' >= next' /\ slot' < next'
    <3>1. TimerFires
      BY <2>1, <2>4
    <3>2. /\ call'["timer"].snap.reason = "interval"
          /\ call'["timer"].snap.sched = next /\ next' = next
          /\ Elapsed >= next /\ call["timer"].at = "idle"
      BY <3>1, EnterEffect DEF TimerFires
    <3> QED
      BY <3>2, <2>1, <2>2 DEF SlotInv
  <2> QED
    BY <2>1, <2>3, <2>4 DEF SlotInv
<1>6. ASSUME NEW t \in Threads, Alive, Record(t)
      PROVE  SlotInv'
  <2>0. Elapsed' = Elapsed
    BY <1>6 DEF Record, Acquire, ReadRecord, Decide, AppendJsonl, AppendCsv,
                AppendFails, Steps, Elapsed, clock
  <2>1. CASE Acquire(t) \/ ReadRecord(t)
    <3>1. /\ Others(t) /\ call[t].at \in {"wait", "scan"} /\ call'[t].at = "scan"
          /\ call'[t].snap = call[t].snap
          /\ UNCHANGED <<row, slot, next>>
      BY <2>1, AcquireEffect, ReadEffect DEF Acquire, ReadRecord, files, jsonl
    <3> QED
      BY <1>0, <2>0, <3>1 DEF Others, SlotInv
  <2>2. CASE Decide(t) /\ ~Unchanged(t)
    <3>1. /\ Others(t) /\ call[t].at = "scan" /\ call'[t].at = "jsonl"
          /\ call'[t].snap.reason = call[t].snap.reason
          /\ call'[t].snap.sched = call[t].snap.sched
          /\ call'[t].snap.elapsed = Elapsed
          /\ UNCHANGED <<row, slot, next>>
      BY <2>2, NumberedEffect DEF Decide, Scanned, Numbered, files, jsonl
    <3> QED
      BY <1>0, <2>0, <3>1 DEF Others, SlotInv
  <2>3. CASE AppendJsonl(t)
    <3>1. /\ Others(t) /\ call[t].at = "jsonl" /\ call'[t].at = "csv"
          /\ call'[t].snap = call[t].snap /\ row' = call[t].snap
          /\ slot' = IF row'.reason = "interval" THEN row'.sched ELSE slot
          /\ next' = next
      BY <2>3, WrittenEffect DEF AppendJsonl, Written
    <3>2. \A u \in Threads : u # t => call[u].at \notin Holding
      BY <3>1 DEF LockInv
    <3>3. row.elapsed <= row'.elapsed
      BY <3>1 DEF TimeInv
    <3>4. CASE t = "main"
      <4>1. slot' = slot /\ call'["timer"] = call["timer"]
        BY <3>1, <3>4 DEF SlotInv, Others
      <4> QED
        BY <1>0, <2>0, <3>1, <3>2, <3>3, <3>4, <4>1 DEF SlotInv
    <3>5. CASE t = "timer"
      <4>1. slot' = next /\ row'.elapsed >= next /\ call'["main"] = call["main"]
        BY <3>1, <3>5 DEF SlotInv, Others
      <4> QED
        BY <1>0, <2>0, <3>1, <3>2, <3>3, <3>5, <4>1 DEF SlotInv
    <3> QED
      BY <3>4, <3>5
  <2>4. CASE \/ AppendCsv(t) \/ AppendFails(t)
             \/ (Decide(t) /\ Unchanged(t))
    <3>1. /\ Return(t) /\ call[t].at \in Holding /\ UNCHANGED <<row, slot>>
      BY <2>4 DEF AppendCsv, AppendFails, Decide, Scanned, files, jsonl
    <3>2. Others(t) /\ call'[t].at = "idle"
      BY <3>1, ReturnEffect
    <3>3. CASE t = "main"
      <4>1. next' = next /\ call'["timer"] = call["timer"]
        BY <3>1, <3>2, <3>3 DEF Return, Others
      <4> QED
        BY <1>0, <2>0, <3>1, <3>2, <3>3, <4>1 DEF SlotInv
    <3>4. CASE t = "timer"
      <4>1. next' = next + Interval /\ call'["main"] = call["main"]
        BY <3>1, <3>2, <3>4 DEF Return, Others
      <4>2. slot <= next
        BY <1>0, <3>1, <3>4 DEF SlotInv
      <4>3. slot' < next'
        BY <1>0, <3>1, <4>1, <4>2
      <4> QED
        BY <1>0, <2>0, <3>1, <3>2, <3>4, <4>1, <4>3 DEF SlotInv
    <3> QED
      BY <3>3, <3>4
  <2> QED
    BY <1>6, <2>1, <2>2, <2>3, <2>4 DEF Record
<1> QED
  BY <1>1, <1>2, <1>3, <1>4, <1>5, <1>6, NextCases DEF Record

(* What the controller's writes do to a measured record: only the seed's   *)
(* is ever written again, and only before the first checkpoint.            *)
LEMMA RecordKept ==
  ASSUME RecorderAssumption, TypeOK, StageInv, [Next]_vars, NEW c \in Cand
  PROVE  /\ rec[c] > 0 => rec'[c] = rec[c] \/ (c = Seed /\ phase = "")
         /\ rec[c] # Absent => rec'[c] # Absent
         /\ phase # "" => phase' # ""
<1>p. Seed \in Cand /\ rec \in [Cand -> Lat \cup {Unmeasured, Absent}]
  BY Positive DEF TypeOK
<1>l. \A l \in Lat : l # Absent
  <2> SUFFICES ASSUME NEW l \in Lat PROVE l # Absent
    OBVIOUS
  <2> QED
    BY Positive
<1>1. CASE SaveSeed \/ MeasureSeed
  <2>1. phase = "" /\ phase' = phase
    BY <1>1 DEF SaveSeed, MeasureSeed, Quietly, StageInv, SeedSteps
  <2>2. \E l \in Lat \cup {Unmeasured} : rec' = [rec EXCEPT ![Seed] = l]
    BY <1>1 DEF SaveSeed, MeasureSeed
  <2>3. c # Seed => rec'[c] = rec[c]
    BY <2>2, <1>p
  <2>4. rec'[Seed] # Absent
    BY <2>2, <1>p, <1>l
  <2> QED
    BY <2>1, <2>3, <2>4
<1>2. ASSUME NEW d \in Cand, Generate(d) \/ Measure(d)
      PROVE  /\ rec[c] > 0 => rec'[c] = rec[c]
             /\ rec[c] # Absent => rec'[c] # Absent
             /\ phase' = phase
  <2>1. ~(rec[d] > 0)
    BY <1>2 DEF Generate, Measure
  <2>2. c # d => rec'[c] = rec[c]
    BY <1>2, <1>p DEF Generate, Measure
  <2>3. rec[d] # Absent => rec'[d] # Absent
    BY <1>2, <1>p, <1>l DEF Generate, Measure
  <2> QED
    BY <1>2, <2>1, <2>2, <2>3 DEF Generate, Measure, Quietly
<1>3. CASE Resume \/ Die \/ Exit \/ Tick \/ Start \/ StartTimer \/ Stop \/ Fail
           \/ Timer \/ UNCHANGED vars
  BY <1>3 DEF Resume, Die, Exit, Tick, Start, StartTimer, Stop, Fail, Timer,
              TimerBegins, TimerFires, TimerEnds, Steps, vars, archive
<1>4. CASE SeedCompleted \/ EndOfStage \/ Finalize \/ Complete
  BY <1>4 DEF SeedCompleted, EndOfStage, Finalize, Complete
<1>5. ASSUME NEW t \in Threads, Record(t)  PROVE UNCHANGED archive
  BY <1>5 DEF Record, Acquire, ReadRecord, Decide, AppendJsonl, AppendCsv,
              AppendFails, Steps
<1>6. CASE WritesRecord
  BY <1>1, <1>2, <1>6 DEF WritesRecord
<1> QED
  BY <1>3, <1>4, <1>5, <1>6, NextCases DEF Records, Timer, Record, archive

(* A standard that stands after a step stood before it.                    *)
LEMMA StandsBefore ==
  ASSUME RecorderAssumption, TypeOK, StageInv, ScanInv, [Next]_vars,
         standard' = standard, Stands(standard)'
  PROVE  Stands(standard)
<1>1. standard # NoSignature /\ rec'[standard[1]] = standard[2]
  BY DEF Stands
<1>2. standard[1] \in Cand /\ phase # "" /\ rec[standard[1]] > 0
  BY <1>1 DEF ScanInv, WellNamed
<1>3. rec'[standard[1]] = rec[standard[1]]
  BY <1>2, RecordKept
<1> QED
  BY <1>1, <1>3 DEF Stands

(* What a decided row says of the archive, whoever read it.                *)
LEMMA SeenIs ==
  ASSUME RecorderAssumption, TypeOK, NEW t \in Threads
  PROVE  /\ Seen(t) \in Signature /\ WellNamed(Seen(t))
         /\ Seen(t) # NoSignature =>
              call[t].seen[Seen(t)[1]] = Seen(t)[2] /\ Seen(t)[2] > 0
         /\ phase \notin FinalPhases => \A c \in Cand : call[t].seen[c] > 0 =>
              Seen(t) # NoSignature /\ ~Worse(Seen(t), <<c, call[t].seen[c]>>)
         /\ (phase \in FinalPhases /\ best \in Cand /\ call[t].seen[best] > 0)
              => Seen(t)[1] = best
<1>1. call[t].seen \in Latencies
  BY CallParts DEF TypeOK
<1> QED
  BY <1>1, SelectedSignature DEF Seen

(* One scan, or one row to be written, keeps what the invariant says of it *)
(* while the archive goes on and the standard stays.                       *)
ScanOf(k) ==
  /\ k.todo \subseteq Listed
  /\ \A c \in Cand : k.seen[c] > 0 => c = Seed \/ rec[c] > 0
  /\ Stands(standard) => \/ standard[1] \in k.todo
                         \/ k.seen[standard[1]] = standard[2]
RowOf(k) ==
  /\ WellNamed(k.snap.sig)
  /\ k.snap.phase # "" => phase # ""
  /\ k.snap.phase # "" /\ k.snap.sig # NoSignature => rec[k.snap.sig[1]] > 0
  /\ k.snap.phase = "search" /\ Stands(standard) =>
       k.snap.sig # NoSignature /\ ~Worse(k.snap.sig, standard)

LEMMA ScanParts ==
  ScanInv <=>
    /\ WellNamed(standard)
    /\ standard # NoSignature => phase # "" /\ rec[standard[1]] > 0
    /\ \A t \in Threads : call[t].at = "scan" => ScanOf(call[t])
    /\ \A t \in Threads : call[t].at = "jsonl" => RowOf(call[t])
BY DEF ScanInv, ScanOf, RowOf

LEMMA ScanKept ==
  ASSUME RecorderAssumption, TypeOK, StageInv, ScanInv, [Next]_vars,
         standard' = standard, NEW t \in Threads, call'[t] = call[t]
  PROVE  /\ standard' # NoSignature => phase' # "" /\ rec'[standard'[1]] > 0
         /\ call[t].at = "scan" => ScanOf(call[t])'
         /\ call[t].at = "jsonl" => RowOf(call[t])'
<1>1. Stands(standard)' => Stands(standard)
  BY StandsBefore
<1>2. \A c \in Cand : (rec[c] > 0 => rec'[c] > 0 \/ c = Seed)
                      /\ (rec[c] > 0 /\ phase # "" => rec'[c] > 0)
                      /\ (rec[c] # Absent => rec'[c] # Absent)
  BY RecordKept
<1>3. phase # "" => phase' # ""
  BY RecordKept, Positive
<1>4. standard # NoSignature => standard[1] \in Cand
  BY DEF ScanInv, WellNamed
<1>5. standard' # NoSignature => phase' # "" /\ rec'[standard'[1]] > 0
  BY <1>2, <1>3, <1>4 DEF ScanInv
<1>6. ASSUME call[t].at = "scan"  PROVE ScanOf(call[t])'
  BY <1>1, <1>2, <1>6 DEF ScanInv, ScanOf, Listed
<1>7. ASSUME call[t].at = "jsonl"  PROVE RowOf(call[t])'
  <2>1. RowOf(call[t])
    BY <1>7, ScanParts
  <2>2. call[t].snap.sig # NoSignature => call[t].snap.sig[1] \in Cand
    BY <2>1 DEF RowOf, WellNamed
  <2>3. call'[t].snap = call[t].snap
    OBVIOUS
  <2> QED
    BY <1>1, <1>2, <1>3, <2>1, <2>2, <2>3 DEF RowOf
<1> QED
  BY <1>5, <1>6, <1>7

LEMMA ScanNext ==
  ASSUME RecorderAssumption, TypeOK, TypeOK', StageInv, LockInv, LockInv', ScanInv,
         [Next]_vars
  PROVE  ScanInv'
<1> DEFINE Kept(t) == /\ call'[t].at = "scan" => ScanOf(call[t])'
                      /\ call'[t].at = "jsonl" => RowOf(call[t])'
           Standard == standard # NoSignature => phase # "" /\ rec[standard[1]] > 0
<1>p. ASSUME WellNamed(standard'), Standard', \A t \in Threads : Kept(t)
      PROVE  ScanInv'
  BY <1>p DEF ScanInv, ScanOf, RowOf, WellNamed
<1>q. "main" \in Threads /\ "timer" \in Threads
      /\ \A t \in Threads : t = "main" \/ t = "timer"
  BY DEF Threads
<1>s. ASSUME standard' = standard
      PROVE  /\ WellNamed(standard') /\ Standard'
             /\ \A t \in Threads : call'[t] = call[t] => Kept(t)
  <2>1. WellNamed(standard')
    BY <1>s DEF ScanInv
  <2>2. Standard'
    <3>1. standard # NoSignature => standard[1] \in Cand
      BY DEF ScanInv, WellNamed
    <3>2. \A c \in Cand : rec[c] > 0 /\ phase # "" => rec'[c] > 0 /\ phase' # ""
      BY RecordKept
    <3> QED
      BY <1>s, <3>1, <3>2 DEF ScanInv
  <2>3. ASSUME NEW t \in Threads, call'[t] = call[t]  PROVE Kept(t)
    BY <1>s, <2>3, ScanKept
  <2> QED
    BY <2>1, <2>2, <2>3
<1>1. CASE Resume \/ Die \/ Exit
  <2>1. /\ call'["main"].at = "idle" /\ call'["timer"].at = "absent"
        /\ standard' = standard
    BY <1>1, FreshEffect DEF Resume, Die, Exit, files, jsonl
  <2>2. \A t \in Threads : Kept(t)
    BY <2>1, <1>q
  <2> QED
    BY <1>p, <1>s, <2>1, <2>2
<1>2. CASE Outside
  <2>1. standard' = standard
    BY <1>2 DEF Outside, files, jsonl
  <2>2. \A t \in Threads : call'[t].at \in Holding => call'[t] = call[t]
    BY <1>2 DEF Outside
  <2>3. \A t \in Threads : Kept(t)
    <3> SUFFICES ASSUME NEW t \in Threads  PROVE Kept(t)
      OBVIOUS
    <3>1. CASE call'[t].at \in Holding
      BY <1>s, <2>1, <2>2, <3>1
    <3>2. CASE call'[t].at \notin Holding
      BY <3>2 DEF Holding
    <3> QED
      BY <3>1, <3>2
  <2> QED
    BY <1>p, <1>s, <2>1, <2>3
<1>3. ASSUME NEW t \in Threads, Record(t)
      PROVE  ScanInv'
  <2>0. UNCHANGED archive /\ (\A u \in Threads : u # t /\ call[t].at \in Holding =>
                                  call[u].at \notin Holding)
    BY <1>3 DEF LockInv, Record, Acquire, ReadRecord, Decide, AppendJsonl,
                AppendCsv, AppendFails, Steps
  <2>1. ASSUME standard' = standard, Others(t), Kept(t)
        PROVE  ScanInv'
    <3>1. \A u \in Threads : Kept(u)
      <4> SUFFICES ASSUME NEW u \in Threads  PROVE Kept(u)
        OBVIOUS
      <4>1. CASE u # t
        <5>1. call'[u] = call[u]
          BY <2>1, <4>1 DEF Others
        <5> QED
          BY <5>1, <1>s, <2>1
      <4> QED
        BY <4>1, <2>1
    <3> QED
      BY <1>p, <1>s, <2>1, <3>1
  <2>2. CASE Acquire(t)
    <3>1. /\ Others(t) /\ call'[t].at = "scan"
          /\ call'[t].todo = IF t = "main" THEN {} ELSE Listed
          /\ call'[t].seen = IF t = "main" THEN AllRead ELSE Nothing
          /\ standard' = standard
      BY <2>2, AcquireEffect DEF Acquire, files, jsonl
    <3>2. Listed' = Listed /\ rec' = rec
      BY <2>0 DEF Listed, archive
    <3>3. call'[t].todo \subseteq Listed'
      BY <3>1, <3>2
    <3>4. \A c \in Cand : call'[t].seen[c] > 0 => rec'[c] > 0
      BY <3>1, <3>2 DEF AllRead, Nothing
    <3>5. ASSUME Stands(standard)'
          PROVE  \/ standard'[1] \in call'[t].todo
                 \/ call'[t].seen[standard'[1]] = standard'[2]
      <4>1. standard[1] \in Cand /\ rec[standard[1]] = standard[2]
            /\ rec[standard[1]] > 0
        BY <3>1, <3>2, <3>5 DEF Stands, ScanInv, WellNamed
      <4>2. rec[standard[1]] # Absent
        BY <4>1
      <4> QED
        BY <3>1, <4>1, <4>2 DEF Listed, AllRead
    <3>6. Kept(t)
      BY <3>1, <3>3, <3>4, <3>5 DEF ScanOf
    <3> QED
      BY <2>1, <3>1, <3>6
  <2>3. CASE ReadRecord(t)
    <3>1. /\ Others(t) /\ call'[t].at = "scan" /\ call[t].at = "scan"
          /\ standard' = standard
      BY <2>3, ReadEffect DEF ReadRecord, files, jsonl
    <3>2. PICK c \in call[t].todo :
            /\ call'[t].todo = call[t].todo \ {c}
            /\ call'[t].seen = [call[t].seen EXCEPT ![c] = rec[c]]
      BY <2>3, ReadEffect
    <3>3. ScanOf(call[t])
      BY <3>1, ScanParts
    <3>4. call[t].seen \in Latencies /\ c \in Cand
      BY CallParts DEF TypeOK
    <3>5. rec' = rec /\ Listed' = Listed
      BY <2>0 DEF Listed, archive
    <3>6. /\ call'[t].seen[c] = rec[c]
          /\ \A d \in Cand : d # c => call'[t].seen[d] = call[t].seen[d]
      BY <3>2, <3>4 DEF Latencies
    <3>7. ASSUME Stands(standard)'
          PROVE  \/ standard'[1] \in call'[t].todo
                 \/ call'[t].seen[standard'[1]] = standard'[2]
      <4>1. Stands(standard) /\ standard[1] \in Cand /\ rec[standard[1]] = standard[2]
        BY <3>1, <3>5, <3>7 DEF Stands, ScanInv, WellNamed
      <4> QED
        BY <3>1, <3>2, <3>3, <3>6, <4>1 DEF ScanOf
    <3>8. Kept(t)
      BY <3>1, <3>2, <3>3, <3>5, <3>6, <3>7 DEF ScanOf
    <3> QED
      BY <2>1, <3>1, <3>8
  <2>4. CASE Decide(t) /\ ~Unchanged(t)
    <3>1. /\ Others(t) /\ call[t].at = "scan" /\ call[t].todo = {}
          /\ call'[t].at = "jsonl"
          /\ call'[t].snap.phase = phase /\ call'[t].snap.sig = Seen(t)
          /\ standard' = standard
      BY <2>4, NumberedEffect DEF Decide, Scanned, files, jsonl
    <3>2. rec' = rec /\ phase' = phase
      BY <2>0 DEF archive
    <3>3. ScanOf(call[t])
      BY <3>1, ScanParts
    <3>4. WellNamed(Seen(t))
      BY SeenIs
    <3>5. ASSUME phase # "", Seen(t) # NoSignature
          PROVE  rec[Seen(t)[1]] > 0
      <4>1. Seen(t)[1] \in Cand /\ call[t].seen[Seen(t)[1]] > 0
        BY <3>5, SeenIs DEF WellNamed
      <4> QED
        BY <3>3, <3>5, <4>1 DEF ScanOf, StageInv
    <3>6. ASSUME phase = "search", Stands(standard)
          PROVE  Seen(t) # NoSignature /\ ~Worse(Seen(t), standard)
      <4>1. standard[1] \in Cand /\ standard[2] \in Lat
            /\ call[t].seen[standard[1]] = standard[2]
        BY <3>1, <3>3, <3>6 DEF ScanOf, ScanInv, WellNamed, Stands
      <4>2. standard[2] > 0
        BY <4>1, Positive
      <4>3. phase \notin FinalPhases
        BY <3>6 DEF FinalPhases
      <4>4. /\ Seen(t) # NoSignature
            /\ ~Worse(Seen(t), <<standard[1], call[t].seen[standard[1]]>>)
        BY <4>1, <4>2, <4>3, SeenIs
      <4> QED
        BY <4>1, <4>4 DEF Worse
    <3>7. RowOf(call[t])'
      BY <3>1, <3>2, <3>4, <3>5, <3>6 DEF RowOf, WellNamed, Stands
    <3> QED
      BY <2>1, <3>1, <3>7
  <2>5. CASE AppendJsonl(t)
    <3>1. /\ Others(t) /\ call[t].at = "jsonl" /\ call'[t].at = "csv"
          /\ row' = call[t].snap
          /\ standard' = IF row'.phase = "search" THEN row'.sig ELSE standard
      BY <2>5, WrittenEffect DEF AppendJsonl, Written
    <3>2. RowOf(call[t]) /\ WellNamed(standard)
          /\ (standard # NoSignature => phase # "" /\ rec[standard[1]] > 0)
      BY <3>1, ScanParts
    <3>3. rec' = rec /\ phase' = phase
      BY <2>0 DEF archive
    <3>4. WellNamed(standard') /\ Standard'
      BY <3>1, <3>2, <3>3 DEF RowOf
    <3>5. \A u \in Threads : Kept(u)
      BY <2>0, <3>1 DEF Others, Holding
    <3> QED
      BY <1>p, <3>4, <3>5
  <2>6. CASE \/ AppendCsv(t) \/ AppendFails(t)
             \/ (Decide(t) /\ Unchanged(t))
    <3>1. Return(t) /\ standard' = standard
      BY <2>6 DEF AppendCsv, AppendFails, Decide, files, jsonl
    <3>2. Others(t) /\ call'[t].at = "idle"
      BY <3>1, ReturnEffect
    <3> QED
      BY <2>1, <3>1, <3>2
  <2> QED
    BY <1>3, <2>2, <2>3, <2>4, <2>5, <2>6 DEF Record
<1> QED
  BY <1>1, <1>2, <1>3, NextCases, OutsideSteps DEF Record

(* While the controller is in _record, the archive is as it was.           *)
LEMMA ArchiveHeld ==
  ASSUME LockInv, [Next]_vars, call["main"].at \in {"scan", "jsonl", "csv"}
  PROVE  UNCHANGED archive \/ ~Alive'
<1>1. pc \notin SeedSteps /\ ~Idle
  BY DEF LockInv, Idle
<1>2. ~SaveSeed /\ ~MeasureSeed /\ ~SeedCompleted
  BY <1>1 DEF SaveSeed, MeasureSeed, SeedCompleted, SeedSteps
<1>3. \A c \in Cand : ~Generate(c) /\ ~Measure(c)
  BY <1>1 DEF Generate, Measure
<1>4. ~EndOfStage /\ ~Finalize /\ ~Complete
  BY <1>1 DEF EndOfStage, Finalize, Complete
<1>5. CASE Resume \/ Die \/ Exit \/ Tick \/ Start \/ StartTimer \/ Stop \/ Fail
           \/ TimerBegins \/ TimerFires \/ TimerEnds \/ UNCHANGED vars
  BY <1>5 DEF Resume, Die, Exit, Tick, Start, StartTimer, Stop, Fail,
              TimerBegins, TimerFires, TimerEnds, Steps, vars
<1>6. ASSUME NEW t \in Threads, Record(t)  PROVE UNCHANGED archive
  BY <1>6 DEF Record, Acquire, ReadRecord, Decide, AppendJsonl, AppendCsv,
              AppendFails, Steps
<1> QED
  BY <1>2, <1>3, <1>4, <1>5, <1>6, NextCases DEF Records, WritesRecord, Record

(* The incumbent of the archive depends on nothing else.                   *)
LEMMA NamedKept ==
  ASSUME UNCHANGED archive
  PROVE  AllRead' = AllRead /\ Named' = Named
BY DEF archive, AllRead, Named, SelectIncumbent, IncumbentSignature, Best

LEMMA ChangeNext ==
  ASSUME RecorderAssumption, TypeOK, TypeOK', LockInv, LockInv', CountInv,
         ChangeInv, [Next]_vars
  PROVE  ChangeInv'
<1> USE DEF Threads, Holding
<1>q. "main" \in Threads /\ "timer" \in Threads
  OBVIOUS
<1>1. CASE Resume \/ Die \/ Exit
  <2>1. /\ call'["main"].at = "idle" /\ call'["timer"].at = "absent"
        /\ UNCHANGED <<row, failures>>
    BY <1>1, FreshEffect DEF Resume, Die, Exit, files, jsonl
  <2>2. Alive' => last' = row'.sig
    BY <1>1, <2>1 DEF Resume, Die, Exit, Fresh, LastSignature, Alive, Ended
  <2> QED
    BY <2>1, <2>2 DEF ChangeInv
<1>2. CASE Outside
  <2>1. /\ UNCHANGED <<row, last, failures>> /\ Alive' = Alive
        /\ \A t \in Threads : call'[t].at \in Holding => call'[t] = call[t]
        /\ \A t \in Threads : call[t].at \in Holding => call'[t] = call[t]
    BY <1>2 DEF Outside, files, jsonl, memory
  <2>2. AtCsv' = AtCsv
    BY <2>1 DEF AtCsv
  <2>3. ASSUME call'["main"].at \in Holding
        PROVE  AllRead' = AllRead /\ Named' = Named /\ call'["main"] = call["main"]
    <3>1. call'["main"] = call["main"]
      BY <2>1, <2>3
    <3>2. Alive
      BY <3>1, <2>3 DEF LockInv, Alive
    <3>3. UNCHANGED archive
      BY <3>1, <3>2, <2>1, <2>3, ArchiveHeld
    <3> QED
      BY <3>1, <3>3, NamedKept
  <2> QED
    BY <2>1, <2>2, <2>3 DEF ChangeInv
<1>3. ASSUME NEW t \in Threads, Alive, Record(t)
      PROVE  ChangeInv'
  <2>0. UNCHANGED archive /\ AllRead' = AllRead /\ Named' = Named /\ Alive'
    BY <1>3, NamedKept
       DEF Record, Acquire, ReadRecord, Decide, AppendJsonl, AppendCsv,
           AppendFails, Steps, Alive
  <2>o. ASSUME call[t].at \in Holding
        PROVE  \A u \in Threads : u # t => call[u].at \notin Holding
    BY <2>o DEF LockInv
  <2>1. CASE Acquire(t)
    <3>1. /\ Others(t) /\ call[t].at = "wait" /\ call'[t].at = "scan"
          /\ (t = "main" => call'[t].todo = {} /\ call'[t].seen = AllRead)
          /\ UNCHANGED <<row, last, failures>>
      BY <2>1, AcquireEffect DEF Acquire, files, jsonl, memory, Steps, bounds
    <3>2. AtCsv' = AtCsv
      BY <3>1 DEF AtCsv, Others
    <3> QED
      BY <1>3, <2>0, <3>1, <3>2 DEF Others, ChangeInv
  <2>2. CASE ReadRecord(t)
    <3>1. /\ Others(t) /\ call[t].at = "scan" /\ call'[t].at = "scan"
          /\ (call[t].todo # {})
          /\ UNCHANGED <<row, last, failures>>
      BY <2>2, ReadEffect DEF ReadRecord, files, jsonl, memory, Steps, bounds
    <3>2. t = "timer" /\ AtCsv' = AtCsv
      BY <3>1 DEF AtCsv, Others, ChangeInv
    <3> QED
      BY <1>3, <2>0, <3>1, <3>2 DEF Others, ChangeInv
  <2>3. CASE Decide(t) /\ ~Unchanged(t)
    <3>1. /\ Others(t) /\ call[t].at = "scan" /\ call'[t].at = "jsonl"
          /\ call'[t].snap.reason = call[t].snap.reason
          /\ call'[t].snap.sig = Seen(t)
          /\ UNCHANGED <<row, last, failures>>
      BY <2>3, NumberedEffect DEF Decide, Scanned, files, jsonl, Steps, bounds
    <3>2. AtCsv' = AtCsv
      BY <3>1 DEF AtCsv, Others
    <3>3. call'[t].snap.reason = "change" => call'[t].snap.sig # last'
      BY <2>3, <3>1 DEF Unchanged
    <3>4. t = "main" => Seen(t) = Named
      BY <3>1 DEF ChangeInv, Seen, Named
    <3> QED
      BY <1>3, <2>0, <3>1, <3>2, <3>3, <3>4 DEF Others, ChangeInv
  <2>4. CASE AppendJsonl(t)
    <3>1. /\ Others(t) /\ call[t].at = "jsonl" /\ call'[t].at = "csv"
          /\ call'[t].snap = call[t].snap
          /\ UNCHANGED <<last, failures>>
      BY <2>4, WrittenEffect DEF AppendJsonl, Written, memory, Steps, bounds
    <3>2. AtCsv' /\ \A u \in Threads : u # t => call'[u].at \notin Holding
      BY <2>o, <3>1 DEF AtCsv, Others
    <3> QED
      BY <1>3, <2>0, <3>1, <3>2 DEF Others, ChangeInv
  <2>5. CASE AppendCsv(t)
    <3>1. /\ Others(t) /\ call[t].at = "csv" /\ call'[t].at = "idle"
          /\ last' = call[t].snap.sig
          /\ UNCHANGED <<row, failures>>
      BY <2>5, ReturnEffect DEF AppendCsv, jsonl, Steps, bounds
    <3>2. \A u \in Threads : call'[u].at \notin Holding
      BY <2>o, <3>1 DEF Others
    <3>3. row = call[t].snap
      BY <3>1 DEF CountInv
    <3> QED
      BY <1>3, <2>0, <3>1, <3>2, <3>3 DEF ChangeInv
  <2>6. CASE AppendFails(t)
    <3>1. /\ Others(t) /\ call[t].at \in Holding /\ call'[t].at = "idle"
          /\ failures' = failures + 1
      BY <2>6, ReturnEffect DEF AppendFails
    <3>2. \A u \in Threads : call'[u].at \notin Holding
      BY <2>o, <3>1 DEF Others
    <3>3. failures' # 0
      BY <3>1 DEF TypeOK
    <3> QED
      BY <3>2, <3>3 DEF ChangeInv
  <2>7. CASE Decide(t) /\ Unchanged(t)
    <3>1. /\ Others(t) /\ call[t].at = "scan" /\ call'[t].at = "idle"
          /\ UNCHANGED <<row, last, failures>>
      BY <2>7, ReturnEffect DEF Decide, Scanned, files, jsonl, Steps, bounds
    <3>2. AtCsv' = AtCsv
      BY <3>1 DEF AtCsv, Others
    <3> QED
      BY <1>3, <2>0, <3>1, <3>2 DEF Others, ChangeInv
  <2> QED
    BY <1>3, <2>1, <2>2, <2>3, <2>4, <2>5, <2>6, <2>7 DEF Record
<1> QED
  BY <1>1, <1>2, <1>3, NextCases, OutsideSteps DEF Record

(* An incumbent of a final phase is the checkpoint's.                      *)
LEMMA FinalNamed ==
  ASSUME RecorderAssumption, TypeOK, StageInv, phase \in FinalPhases
  PROVE  Named[1] = best
<1>1. best \in Cand /\ rec[best] > 0
  BY DEF StageInv
<1>2. AllRead[best] > 0
  BY <1>1 DEF AllRead
<1>3. AllRead \in Latencies
  BY AllReadIs
<1> QED
  BY <1>1, <1>2, <1>3, SelectedSignature DEF Named

ClosedNow ==
  /\ pc \in {"closing", "joining"} /\ call["main"].at = "idle"
  /\ startedAt # Absent /\ failures = 0 /\ phase \in FinalPhases

LEMMA ClosingNext ==
  ASSUME RecorderAssumption, TypeOK, TypeOK', StageInv, LockInv, LockInv', CountInv,
         ChangeInv, ClosingInv, [Next]_vars
  PROVE  ClosingInv'
<1> USE DEF Threads, Holding
<1>0. SUFFICES ASSUME ClosedNow'
               PROVE  /\ row'.sig[1] = best'
                      /\ call'["timer"].at = "scan" =>
                           \/ best' \in call'["timer"].todo
                           \/ call'["timer"].seen[best'] > 0
                      /\ call'["timer"].at = "jsonl" =>
                           call'["timer"].snap.sig[1] = best'
  BY DEF ClosingInv, ClosedNow
<1>1. CASE Resume \/ Die \/ Exit
  BY <1>0, <1>1 DEF Resume, Die, Exit, ClosedNow
<1>2. CASE \/ Tick \/ (Alive /\ StartTimer) \/ (Alive /\ (Stop \/ WritesRecord))
           \/ (Alive /\ (TimerBegins \/ TimerFires \/ TimerEnds))
           \/ (Alive /\ Fail /\ startedAt = Absent) \/ UNCHANGED vars
  <2>1. Outside
    BY <1>2, OutsideSteps
  <2>2. ~WritesRecord /\ ~StartTimer
    BY <1>0
       DEF ClosedNow, WritesRecord, SaveSeed, MeasureSeed, Generate, Measure,
           Quietly, StartTimer
  <2>3. ~(Fail /\ startedAt = Absent)
    BY <1>0 DEF ClosedNow, Fail, Writes, timing
  <2>4. UNCHANGED archive /\ UNCHANGED startedAt
        /\ pc \in {"closing", "joining"}
    BY <1>0, <1>2, <2>2, <2>3
       DEF Tick, Stop, TimerBegins, TimerFires, TimerEnds, Steps, vars, timing,
           ClosedNow
  <2>5. call'["main"] = call["main"]
    BY <1>2, <2>2, <2>3, TimerEffect DEF Tick, Stop, vars
  <2>6. ClosedNow /\ row' = row
    BY <1>0, <2>1, <2>4, <2>5 DEF ClosedNow, Outside, archive, files, jsonl
  <2> QED
    BY <2>1, <2>4, <2>6 DEF Outside, ClosingInv, ClosedNow, archive
<1>3. CASE Alive /\ Records
  BY <1>0, <1>3, RecordsEffect DEF ClosedNow
<1>4. ASSUME NEW t \in Threads, Alive, Record(t)
      PROVE  /\ row'.sig[1] = best'
             /\ call'["timer"].at = "scan" =>
                  \/ best' \in call'["timer"].todo
                  \/ call'["timer"].seen[best'] > 0
             /\ call'["timer"].at = "jsonl" =>
                  call'["timer"].snap.sig[1] = best'
  <2>0. UNCHANGED <<archive, pc, startedAt>>
    BY <1>4 DEF Record, Acquire, ReadRecord, Decide, AppendJsonl, AppendCsv,
                AppendFails, Steps
  <2>f. failures = 0 /\ failures' = 0 /\ ~AppendFails(t)
    BY <1>0, <1>4
       DEF ClosedNow, Record, Acquire, ReadRecord, Decide, AppendJsonl, AppendCsv,
           AppendFails, Steps, bounds, TypeOK
  <2>p. phase \in FinalPhases /\ best \in Cand /\ rec[best] > 0
        /\ best' = best /\ rec' = rec /\ phase' = phase
    BY <1>0, <2>0 DEF ClosedNow, archive, StageInv
  <2>o. ASSUME call[t].at \in Holding
        PROVE  \A u \in Threads : u # t => call[u].at \notin Holding
    BY <2>o DEF LockInv
  <2>1. CASE t = "main"
    <3>1. ~Acquire(t) /\ ~ReadRecord(t) /\ ~AppendJsonl(t)
          /\ ~(Decide(t) /\ ~Unchanged(t))
      BY <1>0, <2>1, AcquireEffect, ReadEffect, WrittenEffect, NumberedEffect
         DEF ClosedNow, AppendJsonl, Decide
    <3>2. (AppendCsv(t) \/ (Decide(t) /\ Unchanged(t)))
      BY <1>4, <2>f, <3>1 DEF Record
    <3>3. Return(t) /\ call[t].at \in Holding /\ row' = row
      BY <3>2 DEF AppendCsv, Decide, Scanned, files, jsonl
    <3>4. Others(t) /\ call'["timer"].at \notin Holding
      BY <2>1, <2>o, <3>3, ReturnEffect DEF Others
    <3>5. row.sig = Named
      <4>1. CASE AppendCsv(t)
        BY <2>1, <4>1 DEF AppendCsv, CountInv, ChangeInv
      <4>2. CASE Decide(t) /\ Unchanged(t)
        <5>1. call[t].at = "scan" /\ Seen(t) = last
          BY <4>2 DEF Decide, Scanned, Unchanged
        <5>2. ~AtCsv
          BY <5>1, <2>o DEF AtCsv
        <5>3. last = row.sig
          BY <1>4, <2>f, <5>2 DEF ChangeInv
        <5>4. Seen(t) = Named
          BY <2>1, <5>1 DEF ChangeInv, Seen, Named
        <5> QED
          BY <5>1, <5>3, <5>4
      <4> QED
        BY <3>2, <4>1, <4>2
    <3>6. Named[1] = best
      BY <2>p, FinalNamed
    <3> QED
      BY <2>p, <3>3, <3>4, <3>5, <3>6
  <2>2. CASE t = "timer"
    <3>0. Others(t) /\ call'["main"] = call["main"]
      <4>1. Others(t)
        BY <1>4, AcquireEffect, ReadEffect, WrittenEffect, NumberedEffect,
           ReturnEffect
           DEF Record, AppendJsonl, AppendCsv, AppendFails, Decide
      <4> QED
        BY <2>2, <4>1 DEF Others
    <3>1. ClosedNow
      BY <1>0, <2>0, <2>f, <2>p, <3>0 DEF ClosedNow
    <3>2. /\ row.sig[1] = best
          /\ call["timer"].at = "scan" =>
               best \in call["timer"].todo \/ call["timer"].seen[best] > 0
          /\ call["timer"].at = "jsonl" => call["timer"].snap.sig[1] = best
      BY <3>1 DEF ClosedNow, ClosingInv
    <3>3. CASE Acquire(t)
      <4>1. /\ call'["timer"].at = "scan" /\ call'["timer"].todo = Listed
            /\ row' = row
        BY <2>2, <3>3, AcquireEffect DEF Acquire, files, jsonl
      <4>2. best \in Listed
        BY <2>p DEF Listed
      <4> QED
        BY <2>p, <3>2, <4>1, <4>2
    <3>4. CASE ReadRecord(t)
      <4>1. call["timer"].at = "scan" /\ call'["timer"].at = "scan" /\ row' = row
        BY <2>2, <3>4, ReadEffect DEF ReadRecord, files, jsonl
      <4>2. PICK c \in call["timer"].todo :
              /\ call'["timer"].todo = call["timer"].todo \ {c}
              /\ call'["timer"].seen = [call["timer"].seen EXCEPT ![c] = rec[c]]
        BY <2>2, <3>4, ReadEffect
      <4>3. call["timer"].seen \in Latencies
        BY CallParts DEF TypeOK
      <4>4. best \in call'["timer"].todo \/ call'["timer"].seen[best] > 0
        <5>1. CASE best = c
          <6>1. call'["timer"].seen[best] = rec[best]
            BY <4>2, <4>3, <5>1, <2>p DEF Latencies
          <6> QED
            BY <6>1, <2>p
        <5>2. CASE best # c
          BY <3>2, <4>1, <4>2, <4>3, <5>2, <2>p DEF Latencies
        <5> QED
          BY <5>1, <5>2
      <4> QED
        BY <2>p, <3>2, <4>1, <4>4
    <3>5. CASE Decide(t) /\ ~Unchanged(t)
      <4>1. /\ call["timer"].at = "scan" /\ call["timer"].todo = {}
            /\ call'["timer"].at = "jsonl" /\ call'["timer"].snap.sig = Seen(t)
            /\ row' = row
        BY <2>2, <3>5, NumberedEffect DEF Decide, Scanned, files, jsonl
      <4>2. Seen(t)[1] = best
        BY <2>2, <2>p, <3>2, <4>1, SeenIs
      <4> QED
        BY <2>p, <3>2, <4>1, <4>2
    <3>6. CASE AppendJsonl(t)
      <4>1. /\ call["timer"].at = "jsonl" /\ call'["timer"].at = "csv"
            /\ row' = call["timer"].snap
        BY <2>2, <3>6, WrittenEffect DEF AppendJsonl, Written
      <4> QED
        BY <2>p, <3>2, <4>1
    <3>7. CASE AppendCsv(t) \/ (Decide(t) /\ Unchanged(t))
      <4>1. call'["timer"].at = "idle" /\ row' = row
        BY <2>2, <3>7, ReturnEffect DEF AppendCsv, Decide, files, jsonl
      <4> QED
        BY <2>p, <3>2, <4>1
    <3> QED
      BY <1>4, <2>f, <3>3, <3>4, <3>5, <3>6, <3>7 DEF Record
  <2> QED
    BY <2>1, <2>2
<1> QED
  BY <1>1, <1>2, <1>3, <1>4, NextCases DEF Record

-----------------------------------------------------------------------------
(* The theorems *)

LEMMA InvInit ==
  ASSUME RecorderAssumption, Init
  PROVE  RecorderInv
<1>0. /\ call["main"].at = "idle" /\ call["timer"].at = "absent"
      /\ Threads = {"main", "timer"}
  BY DEF Init, Threads, At
<1>1. TypeOK
  <2>1. At("idle") \in Call /\ At("absent") \in Call
    BY CallShapes DEF Wheres, Resting
  <2>2. call \in [Threads -> Call]
    BY <2>1 DEF Init, Threads
  <2>3. row \in Snapshot /\ NoSignature \in Signature
    BY CallShapes DEF Init, Reasons
  <2> QED
    BY <2>2, <2>3 DEF Init, TypeOK, Phases
<1>2. StageInv /\ LockInv
  BY <1>0 DEF Init, StageInv, LockInv, Holding, SeedSteps, Ended, FinalPhases
<1>3. CountInv /\ TimeInv /\ SlotInv
  <2>1. ~AtCsv /\ ~AtJsonl
    BY <1>0 DEF AtCsv, AtJsonl
  <2>2. row.elapsed = 0 /\ Elapsed = 0
    BY DEF Init, Snap, Elapsed
  <2> QED
    <3>0. /\ \A t \in Threads : call[t].at \notin {"wait", "scan", "jsonl", "csv"}
          /\ call["timer"].at # "idle"
      BY <1>0
    <3>4. /\ lines = 0 /\ csvLines = 0 /\ seq = 0 /\ restarts = 0 /\ failures = 0
          /\ startedAt = Absent /\ active = 0 /\ slot = 0
      BY DEF Init
    <3>1. CountInv
      <4>1. /\ seq = IF AtJsonl THEN lines + 1 ELSE lines
            /\ lines <= csvLines + restarts + failures
        BY <2>1, <3>4
      <4>2. lines <= csvLines + restarts + failures + 1
        BY <3>4
      <4> QED
        BY <2>1, <3>0, <3>4, <4>1, <4>2 DEF CountInv
    <3>2. TimeInv
      BY <2>2, <3>0, <3>4 DEF TimeInv
    <3>3. SlotInv
      BY <1>0, <2>2, <3>0, <3>4 DEF SlotInv, Holding
    <3> QED
      BY <3>1, <3>2, <3>3
<1>4. ScanInv
  BY <1>0 DEF Init, ScanInv, WellNamed, Stands
<1>5. ChangeInv /\ ClosingInv
  <2>1. row.sig = NoSignature
    BY DEF Init, Snap
  <2> QED
    BY <1>0, <2>1 DEF Init, ChangeInv, ClosingInv
<1> QED
  BY <1>1, <1>2, <1>3, <1>4, <1>5 DEF RecorderInv

LEMMA InvNext ==
  ASSUME RecorderAssumption, RecorderInv, [Next]_vars
  PROVE  RecorderInv'
<1> USE DEF RecorderInv
<1>1. startedAt # Absent => startedAt <= now
  BY DEF TimeInv
<1>2. TypeOK'
  BY <1>1, TypeNext
<1>3. StageInv' /\ LockInv'
  BY <1>2, StageNext, LockNext
<1>4. TimeInv' /\ (Alive /\ Alive' => Elapsed <= Elapsed')
  BY <1>2, TimeNext
<1>5. CountInv' /\ ScanInv' /\ ChangeInv' /\ ClosingInv'
  BY <1>2, <1>3, CountNext, ScanNext, ChangeNext, ClosingNext
<1>6. SlotInv'
  BY <1>2, <1>3, <1>4, SlotNext
<1> QED
  BY <1>2, <1>3, <1>4, <1>5, <1>6

(* The inductive invariant holds.                                          *)
LEMMA RecorderCorrect == Spec => []RecorderInv
<1>1. Init => RecorderInv
  BY InvInit, RecorderAssumption
<1>2. RecorderInv /\ [Next]_vars => RecorderInv'
  BY InvNext, RecorderAssumption
<1> QED
  BY <1>1, <1>2, PTL DEF Spec

(* The recorder's variables keep their types: no clock reading makes the   *)
(* active time negative, and an incumbent is always one that was measured. *)
THEOREM TypeCorrect == Spec => []TypeOK
<1>1. RecorderInv => TypeOK
  BY DEF RecorderInv
<1> QED
  BY <1>1, RecorderCorrect, PTL

(* The run that ends by itself after its final validation closes the       *)
(* history with the kernel it exports, even if the timer writes after the  *)
(* controller did.                                                         *)
THEOREM ClosingIsFinal == Spec => []ClosingRowFinal
<1>1. RecorderInv => ClosingRowFinal
  BY DEF RecorderInv, ClosingInv, ClosingRowFinal, LockInv
<1> QED
  BY <1>1, RecorderCorrect, PTL

(* Only an append to the JSONL history makes a new row.                    *)
LEMMA NewRowIs ==
  ASSUME RecorderAssumption, RecorderInv, [Next]_vars, NewRow
  PROVE  \E t \in Threads : AppendJsonl(t) /\ Alive
<1>1. CASE Resume \/ Die \/ Exit
  BY <1>1 DEF Resume, Die, Exit, NewRow, files, jsonl
<1>2. CASE Outside
  BY <1>2 DEF Outside, NewRow, files, jsonl
<1>3. ASSUME NEW t \in Threads, Alive, Record(t)  PROVE AppendJsonl(t)
  BY <1>3 DEF Record, Acquire, ReadRecord, Decide, AppendCsv, AppendFails,
              NewRow, files, jsonl
<1>4. \/ Resume \/ Die \/ Exit \/ Outside
      \/ Alive /\ \E t \in Threads : Record(t)
  <2>1. TypeOK /\ TypeOK' /\ LockInv
    BY InvNext DEF RecorderInv
  <2> QED
    BY <2>1, NextCases, OutsideSteps DEF Record
<1> QED
  BY <1>1, <1>2, <1>3, <1>4

LEMMA RowAppended ==
  ASSUME RecorderAssumption, RecorderInv, [Next]_vars, NewRow
  PROVE  \E t \in Threads :
           /\ Alive /\ call[t].at = "jsonl" /\ row' = call[t].snap
           /\ lines' = lines + 1 /\ UNCHANGED <<archive, failures, active>>
           /\ \A u \in Threads : call[u].at # "csv"
<1>1. PICK t \in Threads : AppendJsonl(t) /\ Alive
  BY NewRowIs
<1>2. \A u \in Threads : call[u].at # "csv"
  BY <1>1 DEF AppendJsonl, Written, RecorderInv, LockInv, Holding
<1> QED
  BY <1>1, <1>2 DEF AppendJsonl, Written, Steps, bounds, clock

(* The numbers, the active time and the two files continue over failures,  *)
(* crashes and resumes, as many as there may be.                           *)
THEOREM HistoryGoesOn == Spec => HistoryContinues
<1>1. ASSUME RecorderInv, [Next]_vars
      PROVE  /\ NewRow => /\ failures = 0 => row'.seq = lines'
                          /\ row.elapsed <= row'.elapsed /\ row'.elapsed <= active
             /\ csvLines' <= lines'
             /\ lines' <= csvLines' + restarts' + failures' + 1
  <2>0. RecorderInv'
    BY <1>1, InvNext, RecorderAssumption
  <2>1. ASSUME NewRow
        PROVE  /\ failures = 0 => row'.seq = lines'
               /\ row.elapsed <= row'.elapsed /\ row'.elapsed <= active
    <3>1. PICK t \in Threads :
            /\ Alive /\ call[t].at = "jsonl" /\ row' = call[t].snap
            /\ lines' = lines + 1 /\ UNCHANGED <<archive, failures, active>>
      BY <1>1, <2>1, RowAppended, RecorderAssumption
    <3>2. /\ row.elapsed <= row'.elapsed /\ row'.elapsed <= Elapsed
          /\ Elapsed <= active
      BY <1>1, <3>1 DEF RecorderInv, TimeInv
    <3>3. /\ row'.elapsed \in Nat /\ active \in Nat /\ Elapsed \in Nat
      <4>1. call[t] \in Call
        BY <1>1 DEF RecorderInv, TypeOK
      <4>2. Elapsed \in Nat
        BY <1>1, ElapsedIsTime DEF RecorderInv, TimeInv
      <4> QED
        BY <1>1, <3>1, <4>1, <4>2, CallParts DEF RecorderInv, TypeOK
    <3>4. row'.elapsed <= active
      BY <3>2, <3>3
    <3>5. failures = 0 => row'.seq = lines'
      BY <1>1, <3>1 DEF RecorderInv, CountInv
    <3> QED
      BY <3>2, <3>4, <3>5
  <2>2. csvLines' <= lines' /\ lines' <= csvLines' + restarts' + failures' + 1
    BY <2>0 DEF RecorderInv, CountInv
  <2> QED
    BY <2>1, <2>2
<1> QED
  BY <1>1, RecorderCorrect, PTL DEF Spec, HistoryContinues

(* No slot is sampled twice or early, in one process or over several.      *)
THEOREM SlotsAreSampledOnce == Spec => SlotsSampledOnce
<1>1. ASSUME RecorderInv, [Next]_vars, NewRow, row'.reason = "interval"
      PROVE  row'.sched > slot /\ row'.elapsed >= row'.sched
  <2>1. PICK t \in Threads :
          /\ Alive /\ call[t].at = "jsonl" /\ row' = call[t].snap
    BY <1>1, RowAppended, RecorderAssumption
  <2>2. t = "timer"
    BY <1>1, <2>1 DEF RecorderInv, SlotInv, Threads, Holding
  <2>3. /\ row'.sched = next /\ slot < next /\ row'.elapsed >= next
    BY <1>1, <2>1, <2>2 DEF RecorderInv, SlotInv, Holding
  <2> QED
    BY <1>1, <2>3 DEF RecorderInv, TypeOK
<1> QED
  BY <1>1, RecorderCorrect, PTL DEF Spec, SlotsSampledOnce

(* The incumbent of the search rows never gets worse, although the timer   *)
(* reads an archive that the controller is writing.                        *)
THEOREM IncumbentNeverRegresses == Spec => SnapshotsNeverRegress
<1>1. ASSUME RecorderInv, [Next]_vars, NewRow, row'.phase = "search",
             Stands(standard)
      PROVE  row'.sig # NoSignature /\ ~Worse(row'.sig, standard)
  <2>1. PICK t \in Threads : call[t].at = "jsonl" /\ row' = call[t].snap
    BY <1>1, RowAppended, RecorderAssumption
  <2> QED
    BY <1>1, <2>1 DEF RecorderInv, ScanInv
<1> QED
  BY <1>1, RecorderCorrect, PTL DEF Spec, SnapshotsNeverRegress

(* A change row names a change, and a call that looks for one leaves the   *)
(* history with the archive's incumbent in its last row.                   *)
THEOREM EveryChangeIsRecorded == Spec => ChangesRecorded
<1>1. ASSUME RecorderInv, [Next]_vars, NewRow, row'.reason = "change", failures = 0
      PROVE  row'.sig # row.sig
  <2>1. PICK t \in Threads :
          /\ Alive /\ call[t].at = "jsonl" /\ row' = call[t].snap
          /\ \A u \in Threads : call[u].at # "csv"
    BY <1>1, RowAppended, RecorderAssumption
  <2>2. last = row.sig
    BY <1>1, <2>1 DEF RecorderInv, ChangeInv, AtCsv
  <2> QED
    BY <1>1, <2>1, <2>2 DEF RecorderInv, ChangeInv
<1>2. ASSUME RecorderInv, [Next]_vars,
             call["main"].at # "idle", call'["main"].at = "idle", pc' = pc,
             call["main"].snap.reason = "change", failures' = 0
      PROVE  row'.sig = Named
  <2>t. /\ TypeOK /\ TypeOK' /\ LockInv /\ CountInv /\ ChangeInv
        /\ "main" \in Threads /\ \A t \in Threads : t = "main" \/ t = "timer"
    BY <1>2, InvNext, RecorderAssumption DEF RecorderInv, Threads
  <2>1. ~Resume /\ ~Die /\ ~Exit
    BY <1>2 DEF Resume, Die, Exit, Alive, Ended
  <2>2. ~(Alive /\ Records)
    BY <1>2, <2>t, RecordsEffect
  <2>3. CASE \/ Tick \/ (Alive /\ (StartTimer \/ Stop \/ WritesRecord))
             \/ (Alive /\ (TimerBegins \/ TimerFires \/ TimerEnds))
             \/ (Alive /\ Fail /\ startedAt = Absent) \/ UNCHANGED vars
    <3>1. call'["main"] = call["main"]
      BY <2>3, <2>t, TimerEffect
         DEF Tick, Stop, WritesRecord, SaveSeed, MeasureSeed, Generate, Measure,
             Quietly, Fail, vars
    <3> QED
      BY <1>2, <3>1
  <2>4. ASSUME NEW t \in Threads, Alive, Record(t)
        PROVE  row'.sig = Named
    <3>1. CASE t = "timer"
      <4>1. Others(t)
        BY <2>4, <2>t, AcquireEffect, ReadEffect, WrittenEffect, NumberedEffect,
           ReturnEffect
           DEF Record, AppendJsonl, AppendCsv, AppendFails, Decide
      <4>2. call'["main"] = call["main"]
        BY <2>t, <3>1, <4>1 DEF Others
      <4> QED
        BY <1>2, <4>2
    <3>2. CASE t = "main"
      <4>1. ~Acquire(t) /\ ~ReadRecord(t) /\ ~AppendJsonl(t)
            /\ ~(Decide(t) /\ ~Unchanged(t))
        BY <1>2, <2>t, <3>2, AcquireEffect, ReadEffect, WrittenEffect, NumberedEffect
           DEF AppendJsonl, Decide
      <4>2. ~AppendFails(t)
        BY <1>2, <2>t DEF AppendFails, TypeOK
      <4>3. CASE AppendCsv(t)
        BY <2>t, <3>2, <4>3 DEF AppendCsv, CountInv, ChangeInv, jsonl
      <4>4. CASE Decide(t) /\ Unchanged(t)
        <5>1. call[t].at = "scan" /\ Seen(t) = last /\ row' = row /\ failures' = failures
          BY <4>4 DEF Decide, Scanned, Unchanged, files, jsonl, Steps, bounds
        <5>2. ~AtCsv
          BY <5>1, <2>t DEF AtCsv, LockInv, Holding
        <5>3. last = row.sig
          BY <1>2, <2>4, <2>t, <5>1, <5>2 DEF ChangeInv
        <5>4. Seen(t) = Named
          BY <2>t, <3>2, <5>1 DEF ChangeInv, Seen, Named
        <5> QED
          BY <5>1, <5>3, <5>4
      <4> QED
        BY <2>4, <4>1, <4>2, <4>3, <4>4 DEF Record
    <3> QED
      BY <2>t, <3>1, <3>2
  <2> QED
    BY <1>2, <2>1, <2>2, <2>3, <2>4, NextCases DEF Record
<1> QED
  BY <1>1, <1>2, RecorderCorrect, PTL DEF Spec, ChangesRecorded

=============================================================================
