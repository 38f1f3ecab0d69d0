------------------------- MODULE IncumbentRecorder -------------------------
(***************************************************************************)
(* The incumbent recorder (src/src/kernel_optimization/                    *)
(* incumbent_tracking.py).  It appends to incumbent_history.jsonl, and     *)
(* then to incumbent_history.csv, which kernel is the best measured one:   *)
(* at fixed intervals of active time, and at events of the controller.     *)
(*                                                                         *)
(* Two threads take snapshots: "main", the controller, which also writes   *)
(* the archive that snapshots are made of, and "timer".  A snapshot is     *)
(* made and appended under one lock, but the archive is written without    *)
(* it, so what the timer reads, record by record, changes while it reads.  *)
(* The process can die at any point and be resumed.                        *)
(*                                                                         *)
(* A candidate is its identifier.  Latencies are positive naturals; a      *)
(* record without a valid measurement reads as Unmeasured.  Time is in     *)
(* whole seconds.  Rows keep only the fields that the properties compare.  *)
(***************************************************************************)
EXTENDS Integers, FiniteSets

CONSTANTS
  Cand,        \* identifiers of the candidates
  Seed,        \* the identifier of the input kernel
  Lat,         \* latencies a measurement can report
  Interval,    \* interval_seconds
  Finalizes,   \* budget.final_validation_candidates > 0
  MaxClock,    \* bound: seconds the clock advances
  MaxEvents,   \* bound: round events a process records
  MaxFaults    \* bound: appends that raise and resumes of a stopped run

None       == 0   \* no candidate, no scheduled time
Unmeasured == 0   \* a record.json without a valid measurement
Absent     == -1  \* no record.json; no clock reading yet

ASSUME RecorderAssumption ==
  /\ IsFiniteSet(Cand) /\ Cand \subseteq Nat \ {0} /\ Seed \in Cand
  /\ Lat \subseteq Nat \ {0}
  /\ Interval \in Nat \ {0}
  /\ Finalizes \in BOOLEAN
  /\ {MaxClock, MaxEvents, MaxFaults} \subseteq Nat

VARIABLES
  rec,       \* candidates/*/record.json: the measured latency of each
  phase,     \* state.json: phase, "" before the first checkpoint
  best,      \* state.json: best_candidate_id of the last final phase
  lines,     \* incumbent_history.jsonl: how many lines it has
  row,       \* incumbent_history.jsonl: its last line
  csvLines,  \* incumbent_history.csv: how many rows it has
  pc,        \* where the controller stands
  call,      \* where each thread stands in _record, and its locals
  lock,      \* who holds self._lock
  seq,       \* self._sequence
  last,      \* self._last_signature
  offset,    \* self._elapsed_offset
  startedAt, \* self._started_at
  next,      \* next_scheduled, local to the timer's loop
  stopping,  \* self._stop_event is set
  now,       \* the clock
  active,    \* history: seconds during which a process was running
  slot,      \* history: scheduled time of the last interval row
  standard,  \* history: signature of the last row of a search phase
  events,    \* bound: round events recorded by this process
  failures,  \* history: appends that raised so far
  restarts   \* history: resumes so far

archive == <<rec, phase, best>>
jsonl   == <<lines, row, slot, standard>>
files   == <<jsonl, csvLines>>
memory  == <<seq, last>>
timing  == <<offset, startedAt, next, stopping>>
clock   == <<now, active>>
bounds  == <<events, failures, restarts>>
vars == <<archive, files, pc, call, lock, memory, timing, clock, bounds>>

-----------------------------------------------------------------------------
(* Shapes of the state *)

Threads     == {"main", "timer"}
FinalPhases == {"finalized", "run_completed"}
Phases      == {"", "search"} \cup FinalPhases
Reasons     == {"event", "change", "interval"}
Ended       == {"exited", "dead"}
Resting     == {"absent", "begin", "idle", "done"}

Signature == (Cand \cup {None}) \X (Lat \cup {None})
NoSignature == <<None, None>>

Snapshot ==
  [seq : Nat, reason : Reasons, sched : Nat, elapsed : Nat, phase : Phases,
   sig : Signature]
Call ==
  [at : Resting \cup {"wait", "scan", "jsonl", "csv"},
   todo : SUBSET Cand, seen : [Cand -> Lat \cup {Unmeasured}], snap : Snapshot]

Nothing == [c \in Cand |-> Unmeasured]
Snap(reason, sched) ==
  [seq |-> 0, reason |-> reason, sched |-> sched, elapsed |-> 0,
   phase |-> "", sig |-> NoSignature]
At(where) ==
  [at |-> where, todo |-> {}, seen |-> Nothing, snap |-> Snap("event", None)]

Alive == pc \notin Ended
Bug_ElapsedReversed == offset + startedAt - now
Elapsed == IF startedAt = Absent THEN offset ELSE offset + now - startedAt

-----------------------------------------------------------------------------
(* Choosing the incumbent among the records a scan has read *)

Best(seen, S) ==
  CHOOSE c \in S : \A d \in S : \/ seen[c] < seen[d]
                                \/ seen[c] = seen[d] /\ c <= d

Bug_FinalIgnored(seen, ph, b) ==
  LET measured == {c \in Cand : seen[c] > 0}
  IN  IF measured = {} THEN None ELSE Best(seen, measured)
SelectIncumbent(seen, ph, b) ==
  LET measured == {c \in Cand : seen[c] > 0}
  IN  IF measured = {} THEN None
      ELSE IF ph \in FinalPhases /\ b \in measured THEN b
      ELSE Best(seen, measured)

IncumbentSignature(seen, c) ==
  IF c = None THEN NoSignature ELSE <<c, seen[c]>>

-----------------------------------------------------------------------------
(* A process: constructed, started, stopped, killed, resumed *)

(* What __init__ reads back from the history.                              *)
Bug_CsvCounted == csvLines
LineCount == lines
LastElapsed == row.elapsed
LastSignature == row.sig

(* A process that is constructed, or gone: none of its memory is left.     *)
Fresh(n, sig, t) ==
  /\ call' = [th \in Threads |-> At(IF th = "main" THEN "idle" ELSE "absent")]
  /\ lock' = "free" /\ seq' = n /\ last' = sig /\ offset' = t
  /\ startedAt' = Absent /\ next' = 0 /\ stopping' = FALSE /\ events' = 0

Init ==
  /\ rec = [c \in Cand |-> Absent] /\ phase = "" /\ best = None
  /\ lines = 0 /\ row = Snap("event", None) /\ csvLines = 0
  /\ pc = "new"
  /\ call = [t \in Threads |-> At(IF t = "main" THEN "idle" ELSE "absent")]
  /\ lock = "free" /\ seq = 0 /\ last = NoSignature /\ offset = 0
  /\ startedAt = Absent /\ next = 0 /\ stopping = FALSE
  /\ now = 0 /\ active = 0 /\ slot = 0 /\ standard = NoSignature
  /\ events = 0 /\ failures = 0 /\ restarts = 0

Resume ==
  /\ ~Alive /\ failures + restarts < MaxFaults
  /\ restarts' = restarts + 1
  /\ pc' = "new"
  /\ Fresh(LineCount, LastSignature, LastElapsed)
  /\ UNCHANGED <<archive, files, clock, failures>>

Die ==
  /\ Alive
  /\ pc' = "dead"
  /\ Fresh(0, NoSignature, 0)
  /\ UNCHANGED <<archive, files, clock, failures, restarts>>

(* The clock goes on whether or not a process is running.                  *)
Tick ==
  /\ now < MaxClock
  /\ now' = now + 1
  /\ active' = IF Alive THEN active + 1 ELSE active
  /\ UNCHANGED <<archive, files, pc, call, lock, memory, timing, bounds>>

(* A thread enters _record; main does nothing else until it returns.       *)
Enter(t, reason, sched) ==
  call' = [call EXCEPT ![t] =
             [at |-> "wait", todo |-> {}, seen |-> Nothing,
              snap |-> Snap(reason, sched)]]

Idle == call["main"].at = "idle"

(* start(): the timer's thread is started when record_now has returned.    *)
Start ==
  /\ pc = "new"
  /\ pc' = "starting"
  /\ startedAt' = now
  /\ Enter("main", "event", None)
  /\ UNCHANGED <<archive, files, lock, memory, offset, next, stopping, clock,
                 bounds>>
StartTimer ==
  /\ pc = "starting" /\ Idle
  /\ pc' = IF phase = "" THEN "seed" ELSE "running"
  /\ call' = [call EXCEPT !["timer"] = At("begin")]
  /\ UNCHANGED <<archive, files, lock, memory, timing, clock, bounds>>

(* stop(): join waits for the timer, but five seconds at most, and the     *)
(* interpreter does not wait for a daemon thread.                          *)
Stop ==
  /\ pc = "closing" /\ Idle
  /\ stopping' = TRUE
  /\ pc' = "joining"
  /\ UNCHANGED <<archive, files, call, lock, memory, offset, startedAt, next,
                 clock, bounds>>
Exit ==
  /\ pc = "joining"
  /\ pc' = "exited"
  /\ Fresh(0, NoSignature, 0)
  /\ UNCHANGED <<archive, files, clock, failures, restarts>>

-----------------------------------------------------------------------------
(* The controller, as far as the recorder sees it *)

Writes == UNCHANGED <<files, lock, memory, timing, clock, failures, restarts>>
Quietly == Writes /\ UNCHANGED <<phase, best, call, events>>

(* _initialize_seed saves a blank record, over an older one if a run ended *)
(* before its first checkpoint, and saves it again when it is measured.    *)
SaveSeed ==
  /\ pc = "seed"
  /\ rec' = [rec EXCEPT ![Seed] = Unmeasured]
  /\ pc' = "seed_saved"
  /\ Quietly
MeasureSeed ==
  /\ pc = "seed_saved"
  /\ \E l \in Lat : rec' = [rec EXCEPT ![Seed] = l]
  /\ pc' = "seed_measured"
  /\ Quietly
SeedCompleted ==
  /\ pc = "seed_measured"
  /\ phase' = "search"
  /\ Enter("main", "change", None)
  /\ pc' = "running"
  /\ Writes /\ UNCHANGED <<rec, best, events>>

Generate(c) ==
  /\ pc = "running" /\ Idle
  /\ rec[c] = Absent
  /\ rec' = [rec EXCEPT ![c] = Unmeasured]
  /\ Quietly /\ UNCHANGED pc
Measure(c) ==
  /\ pc = "running" /\ Idle
  /\ rec[c] = Unmeasured
  /\ \E l \in Lat : rec' = [rec EXCEPT ![c] = l]
  /\ Quietly /\ UNCHANGED pc

(* A checkpoint of a round, followed by record_if_changed when the beam    *)
(* was updated, by record_now when the round or the time was over.         *)
EndOfStage ==
  /\ pc = "running" /\ Idle /\ events < MaxEvents
  /\ events' = events + 1
  /\ phase' = "search"
  /\ \E reason \in {"change", "event"} : Enter("main", reason, None)
  /\ Writes /\ UNCHANGED <<rec, best, pc>>

Measured == {c \in Cand : rec[c] > 0}

Finalize ==
  /\ pc = "running" /\ Idle /\ Finalizes
  /\ phase' = "finalized"
  /\ best' \in Measured
  /\ Enter("main", "change", None)
  /\ pc' = "final"
  /\ Writes /\ UNCHANGED <<rec, events>>

(* Without final validation the beam's head is the best measured; a run    *)
(* stopped by its time budget takes no further checkpoint.                 *)
Complete ==
  /\ pc = (IF Finalizes THEN "final" ELSE "running") /\ Idle
  /\ \/ /\ phase' = "run_completed"
        /\ best' = IF Finalizes THEN best ELSE Best(rec, Measured)
     \/ UNCHANGED <<phase, best>>
  /\ Enter("main", "event", None)
  /\ pc' = "closing"
  /\ Writes /\ UNCHANGED <<rec, events>>

(* Any exception of run(): record_now("run-failed") does nothing before    *)
(* start().                                                                *)
Fail ==
  /\ pc \in {"new", "starting", "seed", "seed_saved", "seed_measured",
             "running", "final"}
  /\ Idle
  /\ IF startedAt = Absent THEN UNCHANGED call
                           ELSE Enter("main", "event", None)
  /\ pc' = "closing"
  /\ Writes /\ UNCHANGED <<archive, events>>

Controller ==
  \/ Start \/ StartTimer \/ Stop \/ Exit
  \/ SaveSeed \/ MeasureSeed \/ SeedCompleted
  \/ \E c \in Cand : Generate(c) \/ Measure(c)
  \/ EndOfStage \/ Finalize \/ Complete \/ Fail

-----------------------------------------------------------------------------
(* _record, one step at a time *)

Steps == UNCHANGED <<archive, pc, offset, startedAt, stopping, clock, bounds>>

(* _record returns to the controller, or to the timer's loop.              *)
Return(t) ==
  /\ lock' = "free"
  /\ call' = [call EXCEPT ![t] = At("idle")]
  /\ next' = IF t = "timer" THEN next + Interval ELSE next

(* The lock is free: the records are listed.  The controller writes none   *)
(* while it reads them, so it reads them all in this step.                 *)
Listed == {c \in Cand : rec[c] # Absent}
AllRead == [c \in Cand |-> IF rec[c] = Absent THEN Unmeasured ELSE rec[c]]
Begun(t) ==
  [call EXCEPT ![t] =
     [at |-> "scan", snap |-> call[t].snap,
      todo |-> IF t = "main" THEN {} ELSE Listed,
      seen |-> IF t = "main" THEN AllRead ELSE Nothing]]
Bug_NoLock(t) ==
  /\ call[t].at = "wait"
  /\ lock' = t /\ call' = Begun(t)
  /\ Steps /\ UNCHANGED <<files, memory, next>>
Acquire(t) ==
  /\ call[t].at = "wait" /\ lock = "free"
  /\ lock' = t /\ call' = Begun(t)
  /\ Steps /\ UNCHANGED <<files, memory, next>>

(* The timer reads them one by one, in the order of their names.           *)
ReadRecord(t) ==
  /\ call[t].at = "scan"
  /\ \E c \in call[t].todo :
       /\ \A d \in call[t].todo : c <= d
       /\ call' = [call EXCEPT ![t] =
                     [at |-> "scan", snap |-> call[t].snap,
                      todo |-> call[t].todo \ {c},
                      seen |-> [call[t].seen EXCEPT ![c] = rec[c]]]]
  /\ Steps /\ UNCHANGED <<lock, files, memory, next>>

(* All records read: state.json is read, the incumbent selected, the       *)
(* active time taken.  An unchanged incumbent needs no change row.         *)
Seen(t) ==
  LET seen == call[t].seen
  IN  IncumbentSignature(seen, SelectIncumbent(seen, phase, best))

Bug_SameLatency(t) ==
  call[t].snap.reason = "change" /\ Seen(t)[2] = last[2]
Unchanged(t) == call[t].snap.reason = "change" /\ Seen(t) = last

Numbered(t) ==
  /\ seq' = seq + 1
  /\ call' = [call EXCEPT ![t] =
       [at |-> "jsonl", todo |-> {}, seen |-> Nothing,
        snap |-> [call[t].snap EXCEPT !.seq = seq', !.elapsed = Elapsed,
                                      !.phase = phase, !.sig = Seen(t)]]]
  /\ UNCHANGED <<lock, next>>
Scanned(t) == call[t].at = "scan" /\ call[t].todo = {}
Decide(t) ==
  /\ Scanned(t)
  /\ IF Unchanged(t) THEN Return(t) /\ UNCHANGED seq ELSE Numbered(t)
  /\ Steps /\ UNCHANGED <<files, last>>

Written(t) ==
  /\ call[t].at = "jsonl"
  /\ lines' = lines + 1 /\ row' = call[t].snap
  /\ slot' = IF row'.reason = "interval" THEN row'.sched ELSE slot
  /\ standard' = IF row'.phase = "search" THEN row'.sig ELSE standard
  /\ call' = [call EXCEPT ![t].at = "csv"]
AppendJsonl(t) ==
  /\ Written(t)
  /\ Steps /\ UNCHANGED <<lock, csvLines, memory, next>>

AppendCsv(t) ==
  /\ call[t].at = "csv"
  /\ csvLines' = csvLines + 1
  /\ last' = call[t].snap.sig
  /\ Return(t)
  /\ Steps /\ UNCHANGED <<jsonl, seq>>

(* An append raises: the error is kept in _last_error, nothing is undone.  *)
AppendFails(t) ==
  /\ call[t].at \in {"jsonl", "csv"} /\ failures + restarts < MaxFaults
  /\ failures' = failures + 1
  /\ Return(t)
  /\ UNCHANGED <<archive, files, pc, memory, offset, startedAt, stopping, clock,
                 events, restarts>>

Record(t) ==
  \/ Acquire(t) \/ ReadRecord(t) \/ Decide(t)
  \/ AppendJsonl(t) \/ AppendCsv(t) \/ AppendFails(t)

-----------------------------------------------------------------------------
(* _periodic_loop *)

Bug_SlotAgain(t) == (t \div Interval) * Interval
NextSlot(t) == (t \div Interval + 1) * Interval

TimerBegins ==
  /\ call["timer"].at = "begin"
  /\ next' = NextSlot(Elapsed)
  /\ call' = [call EXCEPT !["timer"] = At("idle")]
  /\ UNCHANGED <<lock, files, memory>> /\ Steps
TimerFires ==
  /\ call["timer"].at = "idle" /\ ~stopping /\ Elapsed >= next
  /\ Enter("timer", "interval", next)
  /\ UNCHANGED <<lock, files, memory, next>> /\ Steps
TimerEnds ==
  /\ call["timer"].at = "idle" /\ stopping
  /\ call' = [call EXCEPT !["timer"] = At("done")]
  /\ UNCHANGED <<lock, files, memory, next>> /\ Steps

Timer == TimerBegins \/ TimerFires \/ TimerEnds

Next ==
  \/ Resume \/ Die \/ Tick
  \/ Alive /\ (Controller \/ Timer \/ \E t \in Threads : Record(t))

Spec == Init /\ [][Next]_vars

-----------------------------------------------------------------------------
(* Properties *)

TypeOK ==
  /\ rec \in [Cand -> Lat \cup {Unmeasured, Absent}]
  /\ phase \in Phases /\ best \in Cand \cup {None}
  /\ lines \in Nat /\ row \in Snapshot /\ csvLines \in Nat
  /\ slot \in Nat /\ standard \in Signature
  /\ pc \in {"new", "starting", "seed", "seed_saved", "seed_measured",
             "running", "final", "closing", "joining"} \cup Ended
  /\ call \in [Threads -> Call]
  /\ lock \in Threads \cup {"free"}
  /\ seq \in Nat /\ last \in Signature
  /\ offset \in Nat /\ startedAt \in Nat \cup {Absent} /\ next \in Nat
  /\ stopping \in BOOLEAN
  /\ now \in Nat /\ active \in Nat /\ events \in Nat
  /\ failures \in Nat /\ restarts \in Nat

NewRow == lines' # lines

(* The history continues over restarts: the n-th row of the JSONL history  *)
(* is number n, whoever appended it, and active time never runs backwards  *)
(* along the rows and never counts a second in which no process ran.  The  *)
(* CSV history follows, lacking at most the one row that each dead         *)
(* process, or each failure, left out.                                     *)
HistoryContinues ==
  [][ /\ NewRow => /\ failures = 0 => row'.seq = lines'
                   /\ row.elapsed <= row'.elapsed /\ row'.elapsed <= active
      /\ csvLines' <= lines' /\ lines' <= csvLines' + restarts' + failures' + 1 ]_vars

(* The fixed-time observations: no slot is sampled twice or early, in one  *)
(* process or over several.                                                *)
SlotsSampledOnce ==
  [][ NewRow /\ row'.reason = "interval" =>
        row'.sched > slot /\ row'.elapsed >= row'.sched ]_vars

(* The incumbent of the search rows never gets worse, although the timer's *)
(* scan runs against the controller's writes.  (A resumed run that had no  *)
(* checkpoint measures its seed again: a row that names the old latency    *)
(* sets no standard.)                                                      *)
Worse(s, t) == s[2] > t[2] \/ (s[2] = t[2] /\ s[1] > t[1])
Stands(s) == s # NoSignature /\ rec[s[1]] = s[2]
SnapshotsNeverRegress ==
  [][ NewRow /\ row'.phase = "search" /\ Stands(standard) =>
        row'.sig # NoSignature /\ ~Worse(row'.sig, standard) ]_vars

(* Changes are recorded once: a change row names another incumbent than    *)
(* the row before it, which may be one of another process, and when        *)
(* record_if_changed returns, the last row names that of the archive.      *)
Named == IncumbentSignature(AllRead, SelectIncumbent(AllRead, phase, best))
ChangesRecorded ==
  [][ /\ NewRow /\ row'.reason = "change" /\ failures = 0 =>
           row'.sig # row.sig
      /\ (/\ call["main"].at # "idle" /\ call'["main"].at = "idle" /\ pc' = pc
          /\ call["main"].snap.reason = "change" /\ failures' = 0)
         => row'.sig = Named ]_vars

(* A run that ended by itself after its final validation closes the        *)
(* history with the kernel it exports.                                     *)
ClosingRowFinal ==
  (/\ pc = "joining" /\ phase \in FinalPhases /\ startedAt # Absent
   /\ failures = 0) => row.sig[1] = best

=============================================================================
