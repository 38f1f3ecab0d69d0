----------------------- MODULE EvaluatorWorkerProofs -----------------------
(***************************************************************************)
(* What holds of EvaluatorWorker for any number of calls and requests,     *)
(* whatever the workers do.                                                *)
(***************************************************************************)
EXTENDS EvaluatorWorker, TLAPS

-----------------------------------------------------------------------------
(* Output text *)

NoAck(text) == \A i \in 1..Len(text) : text[i].kind # "ack"
OneAck(text) ==
  \A i, j \in 1..Len(text) :
    text[i].kind = "ack" /\ text[j].kind = "ack" => i = j

LEMMA NoAckConcat ==
  ASSUME NEW s \in Seq(Output), NEW t \in Seq(Output), NoAck(s), NoAck(t)
  PROVE  s \o t \in Seq(Output) /\ NoAck(s \o t)
  BY DEF NoAck

LEMMA OneAckConcat ==
  ASSUME NEW s \in Seq(Output), NEW t \in Seq(Output), OneAck(s), OneAck(t),
         NoAck(s) \/ NoAck(t)
  PROVE  OneAck(s \o t)
  BY DEF NoAck, OneAck

LEMMA NoAckAppend ==
  ASSUME NEW s \in Seq(Output), NEW o \in Output, NoAck(s), o.kind # "ack"
  PROVE  NoAck(Append(s, o))
  BY DEF NoAck

LEMMA OneAckAppend ==
  ASSUME NEW s \in Seq(Output), NEW o \in Output, NoAck(s)
  PROVE  OneAck(Append(s, o))
  BY DEF NoAck, OneAck

LEMMA LineLengthType ==
  ASSUME NEW s \in Seq(Output)
  PROVE  /\ LineLength(s) \in 0..2 /\ LineLength(s) <= Len(s)
         /\ SubSeq(s, LineLength(s) + 1, Len(s)) \in Seq(Output)
  <1>1. LineLength(s) \in 0..2 /\ LineLength(s) <= Len(s)
    BY DEF LineLength
  <1> QED
    BY <1>1

LEMMA Suffix ==
  ASSUME NEW s \in Seq(Output), NEW k \in Nat, k <= Len(s)
  PROVE  LET rest == SubSeq(s, k + 1, Len(s)) IN
         /\ rest \in Seq(Output) /\ Len(rest) = Len(s) - k
         /\ \A i \in 1..Len(rest) : rest[i] = s[i + k] /\ i + k \in 1..Len(s)
  OBVIOUS

LEMMA ConsumedNoAck ==
  ASSUME NEW s \in Seq(Output), NoAck(s)
  PROVE  NoAck(SubSeq(s, LineLength(s) + 1, Len(s)))
  <1>1. LineLength(s) \in Nat /\ LineLength(s) <= Len(s)
    BY LineLengthType
  <1> QED
    BY SMTT(20), <1>1, Suffix DEF NoAck

LEMMA SuffixOneAck ==
  ASSUME NEW s \in Seq(Output), NEW k \in Nat, k <= Len(s), OneAck(s)
  PROVE  OneAck(SubSeq(s, k + 1, Len(s)))
  <1> DEFINE rest == SubSeq(s, k + 1, Len(s))
  <1>1. \A i \in 1..Len(rest) : rest[i] = s[i + k] /\ i + k \in 1..Len(s)
    BY Suffix
  <1>2. \A i, j \in 1..Len(rest) : i + k = j + k => i = j
    OBVIOUS
  <1> HIDE DEF rest
  <1>3. \A i, j \in 1..Len(rest) :
          rest[i].kind = "ack" /\ rest[j].kind = "ack" => i + k = j + k
    BY <1>1 DEF OneAck
  <1>4. OneAck(rest)
    BY <1>2, <1>3 DEF OneAck
  <1> QED
    BY <1>4 DEF rest

LEMMA ConsumedOneAck ==
  ASSUME NEW s \in Seq(Output), OneAck(s)
  PROVE  OneAck(SubSeq(s, LineLength(s) + 1, Len(s)))
  <1>1. LineLength(s) \in Nat /\ LineLength(s) <= Len(s)
    BY LineLengthType
  <1> QED
    BY <1>1, SuffixOneAck

(* The answer was the only one.                                            *)
LEMMA AckConsumed ==
  ASSUME NEW s \in Seq(Output), OneAck(s), LineLength(s) > 0,
         Head(s).kind = "ack"
  PROVE  NoAck(SubSeq(s, LineLength(s) + 1, Len(s)))
  <1>1. LineLength(s) = 1 /\ Len(s) > 0
    BY DEF LineLength
  <1>2. s[1].kind = "ack"
    BY <1>1
  <1> QED
    BY <1>1, <1>2 DEF OneAck, NoAck

-----------------------------------------------------------------------------
(* The inductive invariant *)

Stopping == {"stop", "shutdown", "stopping", "terminate", "terminating",
             "killing"}
Ensuring == pc \in {"ensure", "reuse"} \/ (pc \in Stopping /\ then = "reuse")

Pcs == {"idle", "ensure", "reuse", "send", "select", "readline", "final",
        "closed"} \cup Stopping
ProcState ==
  [life : {"unborn", "running", "exited"}, signal : {"none", "term", "kill"},
   stdin : Seq(Request \cup {Shutdown}), job : Request \cup {None},
   out : Seq(Output), buffer : Seq(Output), chatter : 0..MaxChatter]

(* TypeOK, variable by variable.                                           *)
Typed ==
  /\ pc \in Pcs /\ then \in {"idle", "reuse", "final", "closed"}
  /\ calls \in 0..MaxCalls /\ starts \in 0..MaxCalls
  /\ requests \in 0..WorkerMaxRequests
  /\ worker \in Process \cup {None} /\ victim \in Process \cup {None}
  /\ proc \in [Process -> ProcState]
  /\ sent \in [Process -> Nat] /\ served \in [Process -> Nat]

LEMMA TypedTypeOK == Typed <=> TypeOK
  BY DEF Typed, TypeOK, Pcs, Stopping, ProcState

(***************************************************************************)
(* A process is started by a call that has not started one yet; the count  *)
(* of requests is that of the worker there is; where it is given up.       *)
(***************************************************************************)
CountInv ==
  /\ starts <= calls
  /\ Ensuring => starts < calls
  /\ IF worker = None THEN requests = 0
     ELSE worker <= starts /\ requests = sent[worker]
  /\ \A p \in Process :
       /\ sent[p] <= WorkerMaxRequests
       /\ p > starts => proc[p] = Unborn /\ sent[p] = 0 /\ served[p] = 0
  /\ pc = "send" => requests < WorkerMaxRequests
  /\ pc \in {"send", "select", "readline", "shutdown", "stopping"} =>
       worker # None
  /\ pc \in {"reuse", "terminating", "killing", "final", "closed"} =>
       worker = None
  /\ pc \in {"terminating", "killing"} =>
       victim # None /\ victim <= starts

(* No process but the worker, and the one that is being terminated.        *)
StrayInv ==
  \A p \in Process :
    Active(p) => p = worker \/ (p = victim /\ pc = "terminating")

(* A worker between requests, and with one request under way.              *)
Quiet(p) ==
  /\ proc[p].stdin = <<>> /\ proc[p].job = None
  /\ NoAck(proc[p].out) /\ NoAck(proc[p].buffer)
OneJob(p) ==
  /\ Len(proc[p].stdin) <= 1
  /\ proc[p].stdin # <<>> \/ proc[p].job # None =>
       NoAck(proc[p].out) /\ NoAck(proc[p].buffer)
  /\ proc[p].stdin # <<>> => proc[p].job = None
  /\ OneAck(proc[p].out) /\ OneAck(proc[p].buffer)
  /\ NoAck(proc[p].out) \/ NoAck(proc[p].buffer)

AnswerInv ==
  /\ \A p \in Process : sent[p] <= served[p] + 1
  /\ pc \in {"idle", "ensure", "send"} /\ worker # None =>
       Quiet(worker) /\ sent[worker] = served[worker]
  /\ pc \in {"select", "readline"} =>
       OneJob(worker) /\ sent[worker] = served[worker] + 1

WorkerInv == Typed /\ CountInv /\ StrayInv /\ AnswerInv

-----------------------------------------------------------------------------
(* Steps of the controller's thread *)

LEMMA Bounds ==
  /\ WorkerMaxRequests \in Nat /\ WorkerMaxRequests > 0
  /\ MaxCalls \in Nat /\ MaxChatter \in Nat
  BY WorkerAssumption

LEMMA InitOk == Init => WorkerInv
  <1> SUFFICES ASSUME Init PROVE WorkerInv
    OBVIOUS
  <1>1. Typed
    BY Bounds, TypedTypeOK DEF Init, TypeOK, Unborn, None, Process, Request,
       Output
  <1>2. CountInv
    BY Bounds DEF Init, CountInv, Ensuring, Stopping, None, Process, Unborn
  <1>3. StrayInv
    BY DEF Init, StrayInv, Active, Running, Unborn
  <1>4. AnswerInv
    BY DEF Init, AnswerInv, None, Process
  <1> QED
    BY <1>1, <1>2, <1>3, <1>4 DEF WorkerInv

(***************************************************************************)
(* What a change of one process does to the table of processes.            *)
(***************************************************************************)
SameButFor(p) == \A q \in Process \ {p} : proc'[q] = proc[q]
SameLife(p) == /\ proc'[p].life = proc[p].life
               /\ proc'[p].signal = proc[p].signal

LEMMA StdinChange ==
  ASSUME Typed, NEW p \in Process, NEW m \in Request \cup {Shutdown},
         proc' = [proc EXCEPT ![p].stdin = Append(@, m)]
  PROVE  /\ proc' \in [Process -> ProcState] /\ SameButFor(p) /\ SameLife(p)
         /\ proc'[p].stdin = Append(proc[p].stdin, m)
         /\ proc'[p].job = proc[p].job
         /\ proc'[p].out = proc[p].out /\ proc'[p].buffer = proc[p].buffer
  <1>1. proc \in [Process -> ProcState] /\ proc[p] \in ProcState
    BY DEF Typed
  <1>2. proc[p].stdin \in Seq(Request \cup {Shutdown})
    BY <1>1 DEF ProcState
  <1>3. Append(proc[p].stdin, m) \in Seq(Request \cup {Shutdown})
    BY <1>2
  <1> DEFINE t == Append(proc[p].stdin, m)
             x == [proc[p] EXCEPT !.stdin = t]
  <1>4. proc' = [proc EXCEPT ![p] = x]
    BY <1>1
  <1> HIDE DEF t
  <1>5. /\ x \in ProcState /\ x.stdin = t /\ x.job = proc[p].job
        /\ x.out = proc[p].out /\ x.buffer = proc[p].buffer
        /\ x.life = proc[p].life /\ x.signal = proc[p].signal
    BY <1>1, <1>3 DEF ProcState, t
  <1> HIDE DEF x
  <1> QED
    BY <1>1, <1>4, <1>5 DEF t, SameButFor, SameLife

LEMMA OutputChange ==
  ASSUME Typed, NEW p \in Process, NEW o \in Seq(Output), NEW b \in Seq(Output),
         proc' = [proc EXCEPT ![p] = [@ EXCEPT !.buffer = b, !.out = o]]
  PROVE  /\ proc' \in [Process -> ProcState] /\ SameButFor(p) /\ SameLife(p)
         /\ proc'[p].stdin = proc[p].stdin /\ proc'[p].job = proc[p].job
         /\ proc'[p].out = o /\ proc'[p].buffer = b
  <1>1. proc \in [Process -> ProcState] /\ proc[p] \in ProcState
    BY DEF Typed
  <1> DEFINE x == [proc[p] EXCEPT !.buffer = b, !.out = o]
  <1>2. proc' = [proc EXCEPT ![p] = x]
    BY <1>1
  <1>3. /\ x \in ProcState /\ x.stdin = proc[p].stdin /\ x.job = proc[p].job
        /\ x.out = o /\ x.buffer = b
        /\ x.life = proc[p].life /\ x.signal = proc[p].signal
    BY <1>1 DEF ProcState
  <1> HIDE DEF x
  <1> QED
    BY <1>1, <1>2, <1>3 DEF SameButFor, SameLife

LEMMA BufferChange ==
  ASSUME Typed, NEW p \in Process, NEW b \in Seq(Output),
         proc' = [proc EXCEPT ![p].buffer = b]
  PROVE  /\ proc' \in [Process -> ProcState] /\ SameButFor(p) /\ SameLife(p)
         /\ proc'[p].stdin = proc[p].stdin /\ proc'[p].job = proc[p].job
         /\ proc'[p].out = proc[p].out /\ proc'[p].buffer = b
  <1>1. proc \in [Process -> ProcState] /\ proc[p] \in ProcState
    BY DEF Typed
  <1> DEFINE x == [proc[p] EXCEPT !.buffer = b]
  <1>2. proc' = [proc EXCEPT ![p] = x]
    BY <1>1
  <1>3. /\ x \in ProcState /\ x.stdin = proc[p].stdin /\ x.job = proc[p].job
        /\ x.out = proc[p].out /\ x.buffer = b
        /\ x.life = proc[p].life /\ x.signal = proc[p].signal
    BY <1>1 DEF ProcState
  <1> HIDE DEF x
  <1> QED
    BY <1>1, <1>2, <1>3 DEF SameButFor, SameLife

LEMMA PipesClosed ==
  ASSUME Typed, NEW p \in Process,
         proc' = [proc EXCEPT ![p] = [@ EXCEPT !.out = <<>>, !.buffer = <<>>]]
  PROVE  proc' \in [Process -> ProcState] /\ SameButFor(p) /\ SameLife(p)
  <1>1. /\ proc \in [Process -> ProcState] /\ proc[p] \in ProcState
        /\ <<>> \in Seq(Output)
    BY DEF Typed
  <1> DEFINE x == [proc[p] EXCEPT !.out = <<>>, !.buffer = <<>>]
  <1>2. proc' = [proc EXCEPT ![p] = x]
    BY <1>1
  <1>3. /\ x \in ProcState
        /\ x.life = proc[p].life /\ x.signal = proc[p].signal
    BY <1>1 DEF ProcState
  <1> HIDE DEF x
  <1> QED
    BY <1>1, <1>2, <1>3 DEF SameButFor, SameLife

LEMMA SignalChange ==
  ASSUME Typed, NEW p \in Process, NEW g \in {"term", "kill"},
         proc' = [proc EXCEPT ![p].signal = g]
  PROVE  /\ proc' \in [Process -> ProcState] /\ SameButFor(p)
         /\ proc'[p].signal = g
  <1>1. proc \in [Process -> ProcState] /\ proc[p] \in ProcState
    BY DEF Typed
  <1> DEFINE x == [proc[p] EXCEPT !.signal = g]
  <1>2. proc' = [proc EXCEPT ![p] = x]
    BY <1>1
  <1>3. x \in ProcState /\ x.signal = g
    BY <1>1 DEF ProcState
  <1> HIDE DEF x
  <1> QED
    BY <1>1, <1>2, <1>3 DEF SameButFor

(* The process that a call may start is there, and is not the worker.      *)
LEMMA WorkerIsProcess ==
  ASSUME Typed, CountInv
  PROVE  /\ worker # None => worker \in Process /\ starts > 0
         /\ worker \in Process => worker # None
         /\ Ensuring => starts + 1 \in Process /\ starts + 1 # worker
  BY Bounds DEF Typed, CountInv, Process, None


LEMMA RunOk ==
  ASSUME WorkerInv, NEW stage \in {"search", "final"}, Run(stage)
  PROVE  WorkerInv'
  <1>1. Typed'
    BY Bounds DEF WorkerInv, Typed, CountInv, Pcs, Stopping, Run, FirstStep,
       history
  <1>2. CountInv'
    BY Bounds DEF WorkerInv, Typed, CountInv, Ensuring, Stopping, Process,
       None, Run, FirstStep, history
  <1>3. StrayInv'
    BY DEF WorkerInv, CountInv, StrayInv, Active, Running, None, Run,
       FirstStep, history
  <1>4. AnswerInv'
    BY DEF WorkerInv, CountInv, AnswerInv, Quiet, OneJob, None, Run, FirstStep,
       history
  <1> QED
    BY <1>1, <1>2, <1>3, <1>4 DEF WorkerInv

LEMMA CloseOk ==
  ASSUME WorkerInv, Close
  PROVE  WorkerInv'
  <1>1. Typed'
    BY Bounds DEF WorkerInv, Typed, CountInv, Pcs, Stopping, Close, history
  <1>2. CountInv'
    BY Bounds DEF WorkerInv, Typed, CountInv, Ensuring, Stopping, Process,
       None, Close, history
  <1>3. StrayInv'
    BY DEF WorkerInv, CountInv, StrayInv, Active, Running, None, Close, history
  <1>4. AnswerInv'
    BY DEF WorkerInv, CountInv, AnswerInv, Quiet, OneJob, None, Close, history
  <1> QED
    BY <1>1, <1>2, <1>3, <1>4 DEF WorkerInv

LEMMA RecycleOk ==
  ASSUME WorkerInv, Recycle
  PROVE  WorkerInv'
  <1>1. Typed'
    BY Bounds DEF WorkerInv, Typed, CountInv, Pcs, Stopping, Recycle,
       AtRequestBound, history
  <1>2. CountInv'
    BY Bounds DEF WorkerInv, Typed, CountInv, Ensuring, Stopping, Process,
       None, Recycle, AtRequestBound, history
  <1>3. StrayInv'
    BY DEF WorkerInv, CountInv, StrayInv, Active, Running, None, Recycle,
       AtRequestBound, history
  <1>4. AnswerInv'
    BY DEF WorkerInv, CountInv, AnswerInv, Quiet, OneJob, None, Recycle,
       AtRequestBound, history
  <1> QED
    BY <1>1, <1>2, <1>3, <1>4 DEF WorkerInv

LEMMA SelectOk ==
  ASSUME WorkerInv, Select
  PROVE  WorkerInv'
  <1>1. Typed'
    BY Bounds DEF WorkerInv, Typed, CountInv, Pcs, Stopping, Select, history
  <1>2. CountInv'
    BY Bounds DEF WorkerInv, Typed, CountInv, Ensuring, Stopping, Process,
       None, Select, history
  <1>3. StrayInv'
    BY DEF WorkerInv, CountInv, StrayInv, Active, Running, None, Select,
       history
  <1>4. AnswerInv'
    BY DEF WorkerInv, CountInv, AnswerInv, Quiet, OneJob, None, Select, history
  <1> QED
    BY <1>1, <1>2, <1>3, <1>4 DEF WorkerInv

LEMMA TimeOutOk ==
  ASSUME WorkerInv, TimeOut
  PROVE  WorkerInv'
  <1>1. Typed'
    BY Bounds DEF WorkerInv, Typed, CountInv, Pcs, Stopping, TimeOut,
       OutOfTime, Fail, history
  <1>2. CountInv'
    BY Bounds DEF WorkerInv, Typed, CountInv, Ensuring, Stopping, Process,
       None, TimeOut, OutOfTime, Fail, history
  <1>3. StrayInv'
    BY DEF WorkerInv, CountInv, StrayInv, Active, Running, None, TimeOut,
       OutOfTime, Fail, history
  <1>4. AnswerInv'
    BY DEF WorkerInv, CountInv, AnswerInv, Quiet, OneJob, None, TimeOut,
       OutOfTime, Fail, history
  <1> QED
    BY <1>1, <1>2, <1>3, <1>4 DEF WorkerInv

LEMMA StopTimesOutOk ==
  ASSUME WorkerInv, StopTimesOut
  PROVE  WorkerInv'
  <1>1. Typed'
    BY Bounds DEF WorkerInv, Typed, CountInv, Pcs, Stopping, StopTimesOut,
       history
  <1>2. CountInv'
    BY Bounds DEF WorkerInv, Typed, CountInv, Ensuring, Stopping, Process,
       None, StopTimesOut, history
  <1>3. StrayInv'
    BY DEF WorkerInv, CountInv, StrayInv, Active, Running, None, StopTimesOut,
       history
  <1>4. AnswerInv'
    BY DEF WorkerInv, CountInv, AnswerInv, Quiet, OneJob, None, StopTimesOut,
       history
  <1> QED
    BY <1>1, <1>2, <1>3, <1>4 DEF WorkerInv

LEMMA KillTimesOutOk ==
  ASSUME WorkerInv, KillTimesOut
  PROVE  WorkerInv'
  <1>1. Typed'
    BY Bounds DEF WorkerInv, Typed, CountInv, Pcs, Stopping, KillTimesOut,
       Raised, history
  <1>2. CountInv'
    BY Bounds DEF WorkerInv, Typed, CountInv, Ensuring, Stopping, Process,
       None, KillTimesOut, Raised, history
  <1>3. StrayInv'
    BY DEF WorkerInv, CountInv, StrayInv, Active, Running, None, KillTimesOut,
       Raised, history
  <1>4. AnswerInv'
    BY DEF WorkerInv, CountInv, AnswerInv, Quiet, OneJob, None, KillTimesOut,
       Raised, history
  <1> QED
    BY <1>1, <1>2, <1>3, <1>4 DEF WorkerInv

LEMMA FinalEndsOk ==
  ASSUME WorkerInv, FinalEnds
  PROVE  WorkerInv'
  <1>1. Typed'
    BY Bounds DEF WorkerInv, Typed, CountInv, Pcs, Stopping, FinalEnds, history
  <1>2. CountInv'
    BY Bounds DEF WorkerInv, Typed, CountInv, Ensuring, Stopping, Process,
       None, FinalEnds, history
  <1>3. StrayInv'
    BY DEF WorkerInv, CountInv, StrayInv, Active, Running, None, FinalEnds,
       history
  <1>4. AnswerInv'
    BY DEF WorkerInv, CountInv, AnswerInv, Quiet, OneJob, None, FinalEnds,
       history
  <1> QED
    BY <1>1, <1>2, <1>3, <1>4 DEF WorkerInv

LEMMA SendOk ==
  ASSUME WorkerInv, Send
  PROVE  WorkerInv'
  <1> USE DEF WorkerInv
  <1>1. worker \in Process /\ worker # None
    BY WorkerIsProcess DEF Send, CountInv
  <1>2. CASE Running(worker)
    <2>1. calls \in Request /\ calls \in Request \cup {Shutdown}
      BY Bounds, <1>1 DEF Typed, CountInv, Request, Process, None
    <2>2. proc' = [proc EXCEPT ![worker].stdin = Append(@, calls)]
      BY <1>2 DEF Send
    <2>3. /\ proc' \in [Process -> ProcState] /\ SameButFor(worker)
          /\ SameLife(worker)
          /\ proc'[worker].stdin = Append(proc[worker].stdin, calls)
          /\ proc'[worker].job = proc[worker].job
          /\ proc'[worker].out = proc[worker].out
          /\ proc'[worker].buffer = proc[worker].buffer
      BY <1>1, <2>1, <2>2, StdinChange
    <2>4. requests < WorkerMaxRequests /\ requests = sent[worker]
          /\ sent[worker] \in Nat
      BY <1>1 DEF Send, CountInv, Typed
    <2>a. sent' = [sent EXCEPT ![worker] = @ + 1]
      BY <1>2 DEF Send
    <2>5. /\ sent' \in [Process -> Nat] /\ sent'[worker] = sent[worker] + 1
          /\ \A q \in Process \ {worker} : sent'[q] = sent[q]
      BY <1>1, <2>a, <2>4 DEF Typed
    <2>6. Typed'
      BY Bounds, <1>2, <2>3, <2>4, <2>5 DEF Send, Typed, Pcs
    <2>7. CountInv'
      <3>1. /\ pc' = "select" /\ requests' = requests + 1
            /\ UNCHANGED <<calls, starts, worker, victim, served>>
        BY <1>2 DEF Send
      <3>2. worker <= starts /\ starts <= calls
        BY <1>1 DEF CountInv
      <3>3. requests' = sent'[worker]
        BY <2>4, <2>5, <3>1
      <3>4. ASSUME NEW p \in Process
            PROVE  /\ sent'[p] <= WorkerMaxRequests
                   /\ p > starts =>
                        proc'[p] = Unborn /\ sent'[p] = 0 /\ served'[p] = 0
        <4>1. CASE p = worker
          BY <4>1, Bounds, <1>1, <2>4, <2>5, <3>2 DEF Typed, Process
        <4>2. CASE p # worker
          BY <4>2, <2>3, <2>5, <3>1 DEF CountInv, SameButFor
        <4> QED
          BY <4>1, <4>2
      <3> QED
        BY <1>1, <3>1, <3>2, <3>3, <3>4 DEF CountInv, Ensuring, Stopping
    <2>8. StrayInv'
      BY <1>1, <1>2, <2>3
         DEF Send, StrayInv, Active, Running, SameButFor, SameLife
    <2>9. AnswerInv'
      <3>1. Quiet(worker) /\ sent[worker] = served[worker]
        BY <1>1 DEF Send, AnswerInv
      <3>2. OneJob(worker)'
        BY <1>2, <2>3, <3>1 DEF Quiet, OneJob, NoAck, OneAck, Send
      <3>3. /\ pc' = "select" /\ worker' = worker /\ served' = served
            /\ served[worker] \in Nat
        BY <1>1, <1>2 DEF Send, Typed
      <3>4. \A q \in Process : sent'[q] <= served'[q] + 1
        BY <1>1, <2>5, <3>1, <3>3 DEF AnswerInv
      <3> QED
        BY <2>5, <3>1, <3>2, <3>3, <3>4 DEF AnswerInv
    <2> QED
      BY <2>6, <2>7, <2>8, <2>9
  <1>3. CASE ~Running(worker)
    <2>1. /\ pc = "send" /\ pc' = "terminate" /\ then' = "idle"
          /\ UNCHANGED <<calls, worker, requests, starts, victim, proc, sent,
                         served>>
      BY <1>3 DEF Send, Fail
    <2>2. Typed'
      BY <2>1 DEF Typed, Pcs, Stopping
    <2>3. CountInv' /\ StrayInv' /\ AnswerInv'
      BY <2>1 DEF CountInv, Ensuring, StrayInv, Active, Running, AnswerInv
    <2> QED
      BY <2>2, <2>3
  <1> QED
    BY <1>2, <1>3

(* Reading does not change what the worker is doing.                       *)
LEMMA FillBufferOk ==
  ASSUME WorkerInv, FillBuffer
  PROVE  WorkerInv'
  <1> USE DEF WorkerInv
  <1>1. worker \in Process /\ worker # None /\ pc = "readline"
    BY WorkerIsProcess DEF FillBuffer, CountInv
  <1>2. proc[worker].out \in Seq(Output) /\ proc[worker].buffer \in Seq(Output)
    BY <1>1 DEF Typed, ProcState
  <1> DEFINE b == proc[worker].buffer \o proc[worker].out
  <1>3. b \in Seq(Output)
    BY <1>2
  <1>4. proc' = [proc EXCEPT ![worker] = [@ EXCEPT !.buffer = b, !.out = <<>>]]
    <2>1. proc \in [Process -> ProcState] /\ proc[worker] \in ProcState
      BY <1>1 DEF Typed
    <2>2. [proc[worker] EXCEPT !.buffer = @ \o proc[worker].out, !.out = <<>>]
            = [proc[worker] EXCEPT !.buffer = b, !.out = <<>>]
      BY <2>1 DEF ProcState
    <2>3. proc' = [proc EXCEPT ![worker] =
                     [proc[worker] EXCEPT !.buffer = @ \o proc[worker].out,
                                          !.out = <<>>]]
      BY DEF FillBuffer
    <2> QED
      BY <2>2, <2>3
  <1>5. /\ proc' \in [Process -> ProcState] /\ SameButFor(worker)
        /\ SameLife(worker)
        /\ proc'[worker].stdin = proc[worker].stdin
        /\ proc'[worker].job = proc[worker].job
        /\ proc'[worker].out = <<>> /\ proc'[worker].buffer = b
    <2> HIDE DEF b
    <2>1. <<>> \in Seq(Output)
      OBVIOUS
    <2> QED
      BY ZenonT(30), <1>1, <1>3, <1>4, <2>1, OutputChange
  <1>6. Typed'
    BY <1>5 DEF FillBuffer, Typed, Pcs, backend, history
  <1>7. CountInv'
    BY <1>1, <1>5
       DEF FillBuffer, Typed, CountInv, Ensuring, Stopping, SameButFor, Process,
           backend, history
  <1>8. StrayInv'
    BY <1>1, <1>5
       DEF FillBuffer, StrayInv, Active, Running, SameButFor, SameLife, backend
  <1>9. AnswerInv'
    <2>1. OneJob(worker) /\ sent[worker] = served[worker] + 1
      BY <1>1 DEF AnswerInv
    <2>2. NoAck(<<>>)
      BY DEF NoAck
    <2>3. NoAck(proc[worker].out) /\ NoAck(proc[worker].buffer) => NoAck(b)
      BY <1>2, NoAckConcat
    <2>a. /\ OneAck(proc[worker].out) /\ OneAck(proc[worker].buffer)
          /\ NoAck(proc[worker].out) \/ NoAck(proc[worker].buffer)
      BY <2>1 DEF OneJob
    <2>b. OneAck(<<>>)
      BY DEF OneAck
    <2>4. OneAck(b) /\ OneAck(<<>>)
      BY <1>2, <2>a, <2>b, OneAckConcat
    <2> HIDE DEF b
    <2>5. OneJob(worker)'
      BY <1>5, <2>1, <2>2, <2>3, <2>4 DEF OneJob, FillBuffer, backend
    <2> QED
      BY <1>1, <2>1, <2>5 DEF AnswerInv, FillBuffer, backend, history
  <1> QED
    BY <1>6, <1>7, <1>8, <1>9

(* Consuming a line leaves no more answers than there were.                *)
LEMMA ConsumeLineFacts ==
  ASSUME Typed, CountInv, pc = "readline", ConsumeLine
  PROVE  /\ worker \in Process
         /\ proc' \in [Process -> ProcState] /\ SameButFor(worker)
         /\ SameLife(worker)
         /\ proc'[worker].stdin = proc[worker].stdin
         /\ proc'[worker].job = proc[worker].job
         /\ proc'[worker].out = proc[worker].out
         /\ proc'[worker].buffer =
              SubSeq(Buffered, LineLength(Buffered) + 1, Len(Buffered))
         /\ Buffered \in Seq(Output)
  <1>1. worker \in Process
    BY WorkerIsProcess DEF CountInv
  <1>2. Buffered \in Seq(Output)
    BY <1>1 DEF Typed, ProcState, Buffered
  <1> DEFINE b == SubSeq(Buffered, LineLength(Buffered) + 1, Len(Buffered))
  <1>3. b \in Seq(Output)
    BY <1>2, LineLengthType
  <1>4. proc' = [proc EXCEPT ![worker].buffer = b]
    BY <1>1 DEF ConsumeLine, Buffered, Typed
  <1> HIDE DEF b
  <1>5. /\ proc' \in [Process -> ProcState] /\ SameButFor(worker)
        /\ SameLife(worker)
        /\ proc'[worker].stdin = proc[worker].stdin
        /\ proc'[worker].job = proc[worker].job
        /\ proc'[worker].out = proc[worker].out
        /\ proc'[worker].buffer = b
    BY <1>1, <1>3, <1>4, BufferChange
  <1> QED
    BY <1>1, <1>2, <1>5 DEF b

LEMMA SkipLineOk ==
  ASSUME WorkerInv, SkipLine
  PROVE  WorkerInv'
  <1> USE DEF WorkerInv
  <1>1. /\ pc = "readline" /\ pc' = "select" /\ ConsumeLine
        /\ UNCHANGED <<then, calls, worker, requests, starts, victim, sent,
                       served>>
    BY DEF SkipLine, history
  <1>2. /\ worker \in Process
        /\ proc' \in [Process -> ProcState] /\ SameButFor(worker)
        /\ SameLife(worker)
        /\ proc'[worker].stdin = proc[worker].stdin
        /\ proc'[worker].job = proc[worker].job
        /\ proc'[worker].out = proc[worker].out
        /\ proc'[worker].buffer =
             SubSeq(Buffered, LineLength(Buffered) + 1, Len(Buffered))
        /\ Buffered \in Seq(Output)
    BY <1>1, ConsumeLineFacts
  <1>3. Typed'
    BY <1>1, <1>2 DEF Typed, Pcs
  <1>4. CountInv'
    BY <1>1, <1>2 DEF Typed, CountInv, Ensuring, Stopping, SameButFor, Process
  <1>5. StrayInv'
    BY <1>1, <1>2 DEF StrayInv, Active, Running, SameButFor, SameLife
  <1>6. AnswerInv'
    <2>1. OneJob(worker) /\ sent[worker] = served[worker] + 1
      BY <1>1 DEF AnswerInv
    <2>2. OneAck(Buffered)
      BY <2>1 DEF OneJob, Buffered
    <2>3. /\ OneAck(proc'[worker].buffer)
          /\ NoAck(Buffered) => NoAck(proc'[worker].buffer)
      BY <1>2, <2>2, ConsumedOneAck, ConsumedNoAck
    <2>4. OneJob(worker)'
      BY <1>1, <1>2, <2>1, <2>3 DEF OneJob, Buffered
    <2> QED
      BY <1>1, <2>1, <2>4 DEF AnswerInv
  <1> QED
    BY <1>3, <1>4, <1>5, <1>6

LEMMA AcknowledgedOk ==
  ASSUME WorkerInv, Acknowledged
  PROVE  WorkerInv'
  <1> USE DEF WorkerInv
  <1>1. /\ pc = "readline" /\ ConsumeLine /\ LineLength(Buffered) > 0
        /\ Head(Buffered).kind = "ack"
        /\ UNCHANGED <<calls, worker, requests, starts, victim, sent>>
    BY DEF Acknowledged
  <1>2. /\ worker \in Process
        /\ proc' \in [Process -> ProcState] /\ SameButFor(worker)
        /\ SameLife(worker)
        /\ proc'[worker].stdin = proc[worker].stdin
        /\ proc'[worker].job = proc[worker].job
        /\ proc'[worker].out = proc[worker].out
        /\ proc'[worker].buffer =
             SubSeq(Buffered, LineLength(Buffered) + 1, Len(Buffered))
        /\ Buffered \in Seq(Output)
    BY <1>1, ConsumeLineFacts
  <1>3. \/ /\ Head(Buffered).status = "ok"
           /\ pc' = "idle" /\ then' = then
        \/ /\ Head(Buffered).status # "ok"
           /\ pc' = "terminate" /\ then' = "idle"
    BY DEF Acknowledged, Accept, Fail
  <1>4. served' = [served EXCEPT ![worker] =
                     IF Head(Buffered).status = "ok" THEN @ + 1 ELSE @]
    BY DEF Acknowledged
  <1>5. /\ served' \in [Process -> Nat]
        /\ \A q \in Process \ {worker} : served'[q] = served[q]
        /\ served'[worker] =
             IF Head(Buffered).status = "ok" THEN served[worker] + 1
             ELSE served[worker]
    BY <1>2, <1>4 DEF Typed
  <1>6. Typed'
    BY <1>1, <1>2, <1>3, <1>5 DEF Typed, Pcs, Stopping
  <1>7. worker <= starts /\ starts \in Nat
    BY <1>2, WorkerIsProcess DEF Typed, CountInv
  <1>8. CountInv'
    BY <1>1, <1>2, <1>3, <1>5, <1>7
       DEF Typed, CountInv, Ensuring, Stopping, SameButFor, Process
  <1>9. StrayInv'
    BY <1>1, <1>2, <1>3 DEF StrayInv, Active, Running, SameButFor, SameLife
  <1>10. AnswerInv'
    <2>1. OneJob(worker) /\ sent[worker] = served[worker] + 1
      BY <1>1 DEF AnswerInv
    <2>2. OneAck(Buffered) /\ ~NoAck(Buffered)
      <3>1. OneAck(Buffered)
        BY <2>1 DEF OneJob, Buffered
      <3>2. Len(Buffered) > 0
        BY <1>1, <1>2, LineLengthType
      <3> QED
        BY <1>1, <1>2, <3>1, <3>2 DEF NoAck
    <2>3. NoAck(proc'[worker].buffer)
      BY <1>1, <1>2, <2>2, AckConsumed
    <2>4. Quiet(worker)'
      <3>1. /\ NoAck(proc[worker].out)
            /\ proc[worker].stdin = <<>> /\ proc[worker].job = None
        BY <2>1, <2>2 DEF OneJob, Buffered
      <3> QED
        BY <1>1, <1>2, <2>3, <3>1 DEF Quiet
    <2>5. \A q \in Process : sent'[q] <= served'[q] + 1
      <3>1. sent'[worker] <= served'[worker] + 1
        BY <1>1, <1>2, <1>5, <2>1 DEF Typed
      <3> QED
        BY <1>1, <1>5, <3>1 DEF AnswerInv
    <2>6. pc' = "idle" => sent'[worker'] = served'[worker']
      BY <1>1, <1>3, <1>5, <2>1
    <2> QED
      BY <1>1, <1>3, <2>4, <2>5, <2>6 DEF AnswerInv
  <1> QED
    BY <1>6, <1>8, <1>9, <1>10

LEMMA WorkerExitedOk ==
  ASSUME WorkerInv, WorkerExited
  PROVE  WorkerInv'
  <1> USE DEF WorkerInv
  <1>1. /\ pc = "readline" /\ worker \in Process
        /\ UNCHANGED <<calls, worker, requests, starts, victim, sent, served>>
    BY WorkerIsProcess DEF WorkerExited, CountInv, history
  <1>2. CASE Buffered = <<>>
    <2>1. UNCHANGED proc /\ pc' = "terminate" /\ then' = "idle"
      BY <1>2 DEF WorkerExited, Fail
    <2>2. Typed'
      BY <1>1, <2>1 DEF Typed, Pcs, Stopping
    <2>3. CountInv' /\ StrayInv' /\ AnswerInv'
      BY <1>1, <2>1 DEF CountInv, Ensuring, StrayInv, Active, Running,
         AnswerInv
    <2> QED
      BY <2>2, <2>3
  <1>3. CASE Buffered # <<>>
    <2>1. /\ proc' = [proc EXCEPT ![worker].buffer = <<>>]
          /\ pc' = "select" /\ then' = then
      BY <1>3 DEF WorkerExited
    <2>2. <<>> \in Seq(Output) /\ NoAck(<<>>) /\ OneAck(<<>>)
      BY DEF NoAck, OneAck
    <2>3. /\ proc' \in [Process -> ProcState] /\ SameButFor(worker)
          /\ SameLife(worker)
          /\ proc'[worker].stdin = proc[worker].stdin
          /\ proc'[worker].job = proc[worker].job
          /\ proc'[worker].out = proc[worker].out
          /\ proc'[worker].buffer = <<>>
      BY <1>1, <2>1, <2>2, BufferChange
    <2>4. Typed'
      BY <1>1, <2>1, <2>3 DEF Typed, Pcs
    <2>5. CountInv'
      BY <1>1, <2>1, <2>3
         DEF Typed, CountInv, Ensuring, Stopping, SameButFor, Process
    <2>6. StrayInv'
      BY <1>1, <2>1, <2>3 DEF StrayInv, Active, Running, SameButFor, SameLife
    <2>7. AnswerInv'
      <3>1. OneJob(worker) /\ sent[worker] = served[worker] + 1
        BY <1>1 DEF AnswerInv
      <3>2. OneJob(worker)'
        BY <1>1, <2>2, <2>3, <3>1 DEF OneJob
      <3> QED
        BY <1>1, <2>1, <3>1, <3>2 DEF AnswerInv
    <2> QED
      BY <2>4, <2>5, <2>6, <2>7
  <1> QED
    BY <1>2, <1>3

-----------------------------------------------------------------------------
(* Stopping and starting a worker *)

(* A worker that has exited, or none, is given up.                         *)
LEMMA DropFacts ==
  ASSUME Typed, StrayInv, Drop, worker = None \/ ~Running(worker)
  PROVE  /\ worker' = None /\ requests' = 0
         /\ proc' \in [Process -> ProcState]
         /\ \A q \in Process \ {worker} : proc'[q] = proc[q]
         /\ \A q \in Process : Active(q)' => Active(q) /\ q # worker
  <1>1. worker' = None /\ requests' = 0
    BY DEF Drop
  <1>2. CASE worker = None
    BY <1>1, <1>2 DEF Drop, Typed, Active, Running, None, Process
  <1>3. CASE worker # None
    <2>1. worker \in Process /\ <<>> \in Seq(Output)
      BY <1>3 DEF Typed
    <2>2. proc' = [proc EXCEPT ![worker] =
                     [@ EXCEPT !.out = <<>>, !.buffer = <<>>]]
      BY <1>3 DEF Drop, ClosePipes
    <2>3. /\ proc' \in [Process -> ProcState] /\ SameButFor(worker)
          /\ SameLife(worker)
      BY <2>1, <2>2, PipesClosed
    <2> QED
      BY <1>1, <1>3, <2>1, <2>3 DEF Active, Running, SameButFor, SameLife
  <1> QED
    BY <1>2, <1>3

(* What is left of the invariant once there is no worker.                  *)
LEMMA NoWorker ==
  ASSUME WorkerInv, worker' = None, requests' = 0,
         proc' \in [Process -> ProcState],
         pc' \notin {"send", "select", "readline", "shutdown", "stopping",
                     "terminating", "killing"},
         pc' \in Pcs, then' = then, starts' = starts, calls' = calls,
         victim' \in Process \cup {None}, sent' = sent, served' = served,
         \A p \in Process : p > starts => proc'[p] = proc[p],
         \A p \in Process : ~Active(p)',
         Ensuring' => Ensuring
  PROVE  WorkerInv'
  <1>1. Typed'
    BY Bounds DEF WorkerInv, Typed
  <1>2. CountInv'
    BY Bounds DEF WorkerInv, CountInv, Typed, Process, None
  <1>3. StrayInv' /\ AnswerInv'
    BY DEF WorkerInv, StrayInv, AnswerInv
  <1> QED
    BY <1>1, <1>2, <1>3 DEF WorkerInv

LEMMA StopWorkerOk ==
  ASSUME WorkerInv, StopWorker
  PROVE  WorkerInv'
  <1> USE DEF WorkerInv
  <1>1. /\ pc = "stop"
        /\ UNCHANGED <<then, calls, starts, victim, sent, served>>
    BY DEF StopWorker, history
  <1>2. CASE worker # None /\ Running(worker)
    <2>1. pc' = "shutdown" /\ UNCHANGED <<worker, requests, proc>>
      BY <1>2 DEF StopWorker
    <2>2. Typed'
      BY <1>1, <2>1 DEF Typed, Pcs, Stopping
    <2>3. CountInv' /\ StrayInv' /\ AnswerInv'
      BY <1>1, <1>2, <2>1
         DEF CountInv, Ensuring, Stopping, StrayInv, Active, Running, AnswerInv
    <2> QED
      BY <2>2, <2>3
  <1>3. CASE ~(worker # None /\ Running(worker))
    <2>1. pc' = then /\ Drop
      BY <1>3 DEF StopWorker
    <2>2. /\ worker' = None /\ requests' = 0
          /\ proc' \in [Process -> ProcState]
          /\ \A q \in Process \ {worker} : proc'[q] = proc[q]
          /\ \A q \in Process : Active(q)' => Active(q) /\ q # worker
      BY <1>3, <2>1, DropFacts
    <2>3. \A q \in Process : ~Active(q)'
      BY <1>1, <2>2 DEF StrayInv
    <2>4. \A q \in Process : q > starts => proc'[q] = proc[q]
      BY <1>1, <2>2 DEF CountInv, Typed, Process, None
    <2>5. Ensuring' => Ensuring
      BY <1>1, <2>1 DEF Ensuring, Stopping, Typed
    <2> QED
      BY <1>1, <2>1, <2>2, <2>3, <2>4, <2>5, NoWorker DEF Typed, Pcs
  <1> QED
    BY <1>2, <1>3

LEMMA StoppedOk ==
  ASSUME WorkerInv, Stopped
  PROVE  WorkerInv'
  <1> USE DEF WorkerInv
  <1>1. /\ pc = "stopping" /\ pc' = then /\ Drop /\ ~Running(worker)
        /\ UNCHANGED <<then, calls, starts, victim, sent, served>>
    BY DEF Stopped, history
  <1>2. /\ worker' = None /\ requests' = 0
        /\ proc' \in [Process -> ProcState]
        /\ \A q \in Process \ {worker} : proc'[q] = proc[q]
        /\ \A q \in Process : Active(q)' => Active(q) /\ q # worker
    BY <1>1, DropFacts
  <1>3. \A q \in Process : ~Active(q)'
    BY <1>1, <1>2 DEF StrayInv
  <1>4. \A q \in Process : q > starts => proc'[q] = proc[q]
    BY <1>1, <1>2 DEF CountInv, Typed, Process, None
  <1>5. Ensuring' => Ensuring
    BY <1>1 DEF Ensuring, Stopping, Typed
  <1> QED
    BY <1>1, <1>2, <1>3, <1>4, <1>5, NoWorker DEF Typed, Pcs

LEMMA SendShutdownOk ==
  ASSUME WorkerInv, SendShutdown
  PROVE  WorkerInv'
  <1> USE DEF WorkerInv
  <1>1. /\ pc = "shutdown" /\ worker \in Process /\ worker # None
        /\ UNCHANGED <<then, calls, starts, victim, sent, served>>
    BY WorkerIsProcess DEF SendShutdown, CountInv, history
  <1>2. CASE Running(worker)
    <2>1. /\ proc' = [proc EXCEPT ![worker].stdin = Append(@, Shutdown)]
          /\ pc' = "stopping" /\ UNCHANGED <<worker, requests>>
      BY <1>2 DEF SendShutdown
    <2>2. Shutdown \in Request \cup {Shutdown}
      OBVIOUS
    <2>3. /\ proc' \in [Process -> ProcState] /\ SameButFor(worker)
          /\ SameLife(worker)
      BY <1>1, <2>1, <2>2, StdinChange
    <2>4. Typed'
      BY <1>1, <2>1, <2>3 DEF Typed, Pcs, Stopping
    <2>5. CountInv'
      BY <1>1, <2>1, <2>3
         DEF Typed, CountInv, Ensuring, Stopping, SameButFor, Process
    <2>6. StrayInv' /\ AnswerInv'
      BY <1>1, <2>1, <2>3
         DEF StrayInv, Active, Running, SameButFor, SameLife, AnswerInv
    <2> QED
      BY <2>4, <2>5, <2>6
  <1>3. CASE ~Running(worker)
    <2>1. pc' = Raised /\ Drop
      BY <1>3 DEF SendShutdown
    <2>2. /\ worker' = None /\ requests' = 0
          /\ proc' \in [Process -> ProcState]
          /\ \A q \in Process \ {worker} : proc'[q] = proc[q]
          /\ \A q \in Process : Active(q)' => Active(q) /\ q # worker
      BY <1>3, <2>1, DropFacts
    <2>3. \A q \in Process : ~Active(q)'
      BY <1>1, <2>2 DEF StrayInv
    <2>4. \A q \in Process : q > starts => proc'[q] = proc[q]
      BY <1>1, <2>2 DEF CountInv, Typed, Process, None
    <2>5. pc' \in {"idle", "closed"} /\ ~Ensuring'
      BY <2>1 DEF Raised, Ensuring, Stopping
    <2> QED
      BY <1>1, <2>2, <2>3, <2>4, <2>5, NoWorker DEF Typed, Pcs
  <1> QED
    BY <1>2, <1>3

LEMMA TerminateWorkerOk ==
  ASSUME WorkerInv, TerminateWorker
  PROVE  WorkerInv'
  <1> USE DEF WorkerInv
  <1>1. /\ pc = "terminate"
        /\ UNCHANGED <<then, calls, starts, sent, served>>
    BY DEF TerminateWorker, history
  <1>2. CASE worker # None /\ Running(worker)
    <2>1. /\ worker' = None /\ requests' = 0 /\ victim' = worker
          /\ proc' = [proc EXCEPT ![worker].signal = "term"]
          /\ pc' = "terminating" /\ worker \in Process
      BY <1>2 DEF TerminateWorker, Signal, Typed
    <2>2. proc' \in [Process -> ProcState] /\ SameButFor(worker)
      BY <2>1, SignalChange
    <2>3. Typed'
      BY Bounds, <1>1, <2>1, <2>2 DEF Typed, Pcs, Stopping
    <2>4. worker <= starts
      BY <1>2 DEF CountInv
    <2>5. CountInv'
      BY <1>1, <1>2, <2>1, <2>2, <2>4
         DEF Typed, CountInv, Ensuring, Stopping, SameButFor, Process
    <2>6. StrayInv'
      BY <1>1, <2>1, <2>2 DEF StrayInv, Active, Running, SameButFor
    <2>7. AnswerInv'
      BY <1>1, <2>1 DEF AnswerInv
    <2> QED
      BY <2>3, <2>5, <2>6, <2>7
  <1>3. CASE ~(worker # None /\ Running(worker))
    <2>1. pc' = then /\ Drop /\ victim' = victim
      BY <1>3 DEF TerminateWorker
    <2>2. /\ worker' = None /\ requests' = 0
          /\ proc' \in [Process -> ProcState]
          /\ \A q \in Process \ {worker} : proc'[q] = proc[q]
          /\ \A q \in Process : Active(q)' => Active(q) /\ q # worker
      BY <1>3, <2>1, DropFacts
    <2>3. \A q \in Process : ~Active(q)'
      BY <1>1, <2>2 DEF StrayInv
    <2>4. \A q \in Process : q > starts => proc'[q] = proc[q]
      BY <1>1, <2>2 DEF CountInv, Typed, Process, None
    <2>5. Ensuring' => Ensuring
      BY <1>1, <2>1 DEF Ensuring, Stopping, Typed
    <2> QED
      BY <1>1, <2>1, <2>2, <2>3, <2>4, <2>5, NoWorker DEF Typed, Pcs
  <1> QED
    BY <1>2, <1>3

LEMMA TerminatedOk ==
  ASSUME WorkerInv, Terminated
  PROVE  WorkerInv'
  <1> USE DEF WorkerInv
  <1>1. /\ pc \in {"terminating", "killing"} /\ ~Running(victim)
        /\ victim' = None /\ pc' = then
        /\ proc' = [proc EXCEPT ![victim] =
                      [@ EXCEPT !.out = <<>>, !.buffer = <<>>]]
        /\ UNCHANGED <<then, calls, worker, requests, starts, sent, served>>
    BY DEF Terminated, ClosePipes, history
  <1>2. worker = None /\ victim # None /\ requests = 0 /\ victim \in Process
    BY <1>1 DEF CountInv, Typed
  <1>3. /\ proc' \in [Process -> ProcState] /\ SameButFor(victim)
        /\ SameLife(victim)
    BY <1>1, <1>2, PipesClosed
  <1>4. \A q \in Process : ~Active(q)
    BY <1>1, <1>2 DEF StrayInv, Active, Running, Typed, None, Process
  <1>5. \A q \in Process : ~Active(q)'
    BY <1>2, <1>3, <1>4 DEF Active, Running, SameButFor, SameLife
  <1>6. Typed'
    BY <1>1, <1>2, <1>3 DEF Typed, Pcs, Stopping
  <1>7. victim <= starts
    BY <1>1 DEF CountInv
  <1>8. CountInv'
    BY <1>1, <1>2, <1>3, <1>7
       DEF Typed, CountInv, Ensuring, Stopping, SameButFor, Process
  <1>9. StrayInv' /\ AnswerInv'
    BY <1>1, <1>2, <1>5 DEF StrayInv, AnswerInv, Typed
  <1> QED
    BY <1>6, <1>8, <1>9

LEMMA TerminateTimesOutOk ==
  ASSUME WorkerInv, TerminateTimesOut
  PROVE  WorkerInv'
  <1> USE DEF WorkerInv
  <1>1. /\ pc = "terminating" /\ pc' = "killing" /\ Running(victim)
        /\ proc' = [proc EXCEPT ![victim].signal = "kill"]
        /\ UNCHANGED <<then, calls, worker, requests, starts, victim, sent,
                       served>>
    BY DEF TerminateTimesOut, KillVictim, Signal, history
  <1>2. worker = None /\ victim # None /\ victim \in Process
    BY <1>1 DEF CountInv, Typed
  <1>3. /\ proc' \in [Process -> ProcState] /\ SameButFor(victim)
        /\ proc'[victim].signal = "kill"
    BY <1>1, <1>2, SignalChange
  <1>4. Typed'
    BY <1>1, <1>3 DEF Typed, Pcs, Stopping
  <1>5. victim <= starts
    BY <1>1 DEF CountInv
  <1>6. CountInv'
    BY <1>1, <1>2, <1>3, <1>5
       DEF Typed, CountInv, Ensuring, Stopping, SameButFor, Process
  <1>7. \A q \in Process : ~Active(q)'
    BY <1>1, <1>2, <1>3
       DEF StrayInv, Active, Running, SameButFor, Typed, None, Process
  <1>8. StrayInv' /\ AnswerInv'
    BY <1>1, <1>7 DEF StrayInv, AnswerInv
  <1> QED
    BY <1>4, <1>6, <1>8

LEMMA EnsureWorkerOk ==
  ASSUME WorkerInv, EnsureWorker
  PROVE  WorkerInv'
  <1> USE DEF WorkerInv
  <1>1. /\ Ensuring /\ pc' = "send"
        /\ pc \in {"ensure", "reuse"}
        /\ pc = "ensure" => requests < WorkerMaxRequests
        /\ UNCHANGED <<then, calls, victim, sent, served>>
    BY Bounds DEF EnsureWorker, Ensuring, AtRequestBound, history, Typed
  <1>2. starts + 1 \in Process /\ starts + 1 # worker /\ starts \in Nat
    BY <1>1, WorkerIsProcess DEF Typed
  <1>3. CASE worker # None /\ Running(worker)
    <2>1. UNCHANGED <<worker, requests, starts, proc>>
      BY <1>3 DEF EnsureWorker
    <2>2. pc = "ensure"
      BY <1>1, <1>3 DEF CountInv
    <2>3. Typed'
      BY <1>1, <2>1 DEF Typed, Pcs
    <2>4. CountInv'
      BY <1>1, <1>3, <2>1, <2>2 DEF CountInv, Ensuring, Stopping
    <2>5. StrayInv' /\ AnswerInv'
      BY <1>1, <1>3, <2>1, <2>2
         DEF StrayInv, Active, Running, AnswerInv, Quiet, NoAck
    <2> QED
      BY <2>3, <2>4, <2>5
  <1>4. CASE ~(worker # None /\ Running(worker))
    <2>1. /\ worker' = starts + 1 /\ requests' = 0 /\ starts' = starts + 1
          /\ proc' = [p \in Process |->
               CASE p = starts + 1 -> [Unborn EXCEPT !.life = "running"]
                 [] p = worker     -> [Unborn EXCEPT !.life = "exited"]
                 [] OTHER          -> proc[p]]
      BY <1>4 DEF EnsureWorker
    <2>a. Unborn \in ProcState
      BY Bounds DEF Unborn, ProcState
    <2>2. /\ [Unborn EXCEPT !.life = "running"] \in ProcState
          /\ [Unborn EXCEPT !.life = "exited"] \in ProcState
          /\ [Unborn EXCEPT !.life = "exited"].life # "running"
          /\ [Unborn EXCEPT !.life = "running"].stdin = <<>>
          /\ [Unborn EXCEPT !.life = "running"].job = None
          /\ [Unborn EXCEPT !.life = "running"].out = <<>>
          /\ [Unborn EXCEPT !.life = "running"].buffer = <<>>
      BY <2>a DEF Unborn, ProcState
    <2>3. /\ proc'[starts + 1] = [Unborn EXCEPT !.life = "running"]
          /\ \A p \in Process \ {starts + 1} :
               IF p = worker THEN proc'[p] = [Unborn EXCEPT !.life = "exited"]
               ELSE proc'[p] = proc[p]
          /\ \A p \in Process : proc'[p] \in ProcState
          /\ proc' \in [Process -> ProcState]
      BY <1>2, <2>1, <2>2 DEF Typed
    <2>b. /\ starts' \in Process /\ worker' = starts' /\ starts' > starts
          /\ starts' \in 0..MaxCalls /\ starts' <= calls' /\ worker' # None
          /\ \A p \in Process : p > starts' => p > starts /\ p # starts'
      BY <1>1, <1>2, <2>1 DEF CountInv, Typed, Process, None
    <2>4. sent[starts'] = 0 /\ served[starts'] = 0
      BY <2>b DEF CountInv
    <2>5. Typed'
      BY Bounds, <1>1, <2>1, <2>3, <2>b DEF Typed, Pcs
    <2>6. CountInv'
      <3>1. \A p \in Process : p > starts' => proc'[p] = proc[p]
        BY <1>2, <2>1, <2>3, <2>b DEF CountInv, Typed, Process, None
      <3>2. \A p \in Process :
              /\ sent'[p] <= WorkerMaxRequests
              /\ p > starts' =>
                   proc'[p] = Unborn /\ sent'[p] = 0 /\ served'[p] = 0
        BY <1>1, <2>b, <3>1 DEF CountInv
      <3>3. requests' < WorkerMaxRequests /\ requests' = sent'[worker']
        BY Bounds, <1>1, <2>1, <2>4, <2>b
      <3>4. worker' <= starts' /\ ~Ensuring'
        BY <1>1, <2>b DEF Ensuring, Stopping, Process
      <3> QED
        BY <1>1, <2>b, <3>2, <3>3, <3>4 DEF CountInv
    <2>7. StrayInv'
      BY <1>1, <1>2, <1>4, <2>1, <2>2, <2>3
         DEF StrayInv, Active, Running
    <2>8. Quiet(worker)'
      <3>1. proc'[worker'] = [Unborn EXCEPT !.life = "running"]
        BY <2>1, <2>3
      <3>2. NoAck(<<>>)
        BY DEF NoAck
      <3>3. /\ proc'[worker'].stdin = <<>> /\ proc'[worker'].job = None
            /\ proc'[worker'].out = <<>> /\ proc'[worker'].buffer = <<>>
        BY <2>2, <3>1
      <3> QED
        BY <3>2, <3>3 DEF Quiet
    <2>9. AnswerInv'
      BY <1>1, <2>4, <2>8, <2>b DEF AnswerInv
    <2> QED
      BY <2>5, <2>6, <2>7, <2>9
  <1> QED
    BY <1>3, <1>4

LEMMA StartFailsOk ==
  ASSUME WorkerInv, StartFails
  PROVE  WorkerInv'
  <1> USE DEF WorkerInv
  <1>1. /\ pc \in {"ensure", "reuse"} /\ pc' = "idle" /\ Drop
        /\ ~(worker # None /\ Running(worker))
        /\ UNCHANGED <<then, calls, starts, victim, sent, served>>
    BY DEF StartFails, history
  <1>2. /\ worker' = None /\ requests' = 0
        /\ proc' \in [Process -> ProcState]
        /\ \A q \in Process \ {worker} : proc'[q] = proc[q]
        /\ \A q \in Process : Active(q)' => Active(q) /\ q # worker
    BY <1>1, DropFacts
  <1>3. \A q \in Process : ~Active(q)'
    BY <1>1, <1>2 DEF StrayInv
  <1>4. \A q \in Process : q > starts => proc'[q] = proc[q]
    BY <1>1, <1>2 DEF CountInv, Typed, Process, None
  <1>5. ~Ensuring'
    BY <1>1 DEF Ensuring, Stopping
  <1> QED
    BY <1>1, <1>2, <1>3, <1>4, <1>5, NoWorker DEF Typed, Pcs

-----------------------------------------------------------------------------
(* Steps of a worker *)

(***************************************************************************)
(* A worker's own step, which starts no process and forgets no signal: it  *)
(* is enough that a worker between requests stays so, and that one with a  *)
(* request under way has no second answer.                                 *)
(***************************************************************************)
LEMMA WorkerStep ==
  ASSUME WorkerInv, UNCHANGED <<backend, history>>,
         NEW p \in Process, Running(p),
         NEW x \in ProcState, proc' = [proc EXCEPT ![p] = x],
         x.life = "running" => x.signal = proc[p].signal,
         Quiet(p) => Quiet(p)', OneJob(p) => OneJob(p)'
  PROVE  WorkerInv'
  <1> USE DEF WorkerInv
  <1>1. UNCHANGED <<pc, then, calls, worker, requests, starts, victim, sent,
                    served>>
    BY DEF backend, history
  <1>2. /\ proc' \in [Process -> ProcState] /\ proc'[p] = x
        /\ \A q \in Process \ {p} : proc'[q] = proc[q]
    BY DEF Typed
  <1>3. Typed'
    BY <1>1, <1>2 DEF Typed
  <1>4. ~(p > starts)
    BY DEF CountInv, Running, Unborn
  <1>5. CountInv'
    BY <1>1, <1>2, <1>4 DEF CountInv, Ensuring
  <1>6. StrayInv'
    BY <1>1, <1>2 DEF StrayInv, Active, Running
  <1>7. \A q \in Process : (Quiet(q) => Quiet(q)') /\ (OneJob(q) => OneJob(q)')
    BY <1>2 DEF Quiet, OneJob
  <1>8. /\ pc \in {"idle", "ensure", "send"} /\ worker # None =>
             worker \in Process
        /\ pc \in {"select", "readline"} => worker \in Process
    BY WorkerIsProcess DEF CountInv
  <1>9. AnswerInv'
    <2>1. pc' \in {"idle", "ensure", "send"} /\ worker' # None =>
            Quiet(worker)' /\ sent'[worker'] = served'[worker']
      BY <1>1, <1>7, <1>8 DEF AnswerInv
    <2>2. pc' \in {"select", "readline"} =>
            OneJob(worker)' /\ sent'[worker'] = served'[worker'] + 1
      BY <1>1, <1>7, <1>8 DEF AnswerInv
    <2> QED
      BY <1>1, <2>1, <2>2 DEF AnswerInv
  <1> QED
    BY <1>3, <1>5, <1>6, <1>9

(* What the system keeps of a process that exits.                          *)
LEMMA ExitedFacts ==
  ASSUME Typed, NEW p \in Process
  PROVE  LET x == Exited(p) IN
         /\ x \in ProcState /\ x.life # "running"
         /\ x.stdin = <<>> /\ x.job = None
         /\ x.out = proc[p].out /\ x.buffer = proc[p].buffer
  <1>1. proc[p] \in ProcState
    BY DEF Typed
  <1>2. /\ proc[p].out \in Seq(Output) /\ proc[p].buffer \in Seq(Output)
        /\ Unborn \in ProcState
    BY <1>1, Bounds DEF ProcState, Unborn
  <1> QED
    BY <1>2 DEF Exited, Unborn, ProcState

(* An exit answers nothing.                                                *)
LEMMA ExitOk ==
  ASSUME WorkerInv, UNCHANGED <<backend, history>>,
         NEW p \in Process, Running(p),
         proc' = [proc EXCEPT ![p] = Exited(p)]
  PROVE  WorkerInv'
  <1> DEFINE x == Exited(p)
  <1>1. /\ x \in ProcState /\ x.life # "running"
        /\ x.stdin = <<>> /\ x.job = None
        /\ x.out = proc[p].out /\ x.buffer = proc[p].buffer
    BY ExitedFacts DEF WorkerInv
  <1>2. proc' = [proc EXCEPT ![p] = x]
    OBVIOUS
  <1> HIDE DEF x
  <1>3. proc'[p] = x
    BY <1>2 DEF WorkerInv, Typed
  <1>4. (Quiet(p) => Quiet(p)') /\ (OneJob(p) => OneJob(p)')
    <2>1. Quiet(p) => Quiet(p)'
      BY <1>1, <1>3 DEF Quiet
    <2>2. OneJob(p) => OneJob(p)'
      <3>1. Len(<<>>) <= 1
        OBVIOUS
      <3> QED
        BY <1>1, <1>3, <3>1 DEF OneJob
    <2> QED
      BY <2>1, <2>2
  <1> QED
    BY <1>1, <1>2, <1>4, WorkerStep

LEMMA DieOk ==
  ASSUME WorkerInv, NEW p \in Process, Die(p)
  PROVE  WorkerInv'
  BY ExitOk DEF Die

LEMMA ServeOk ==
  ASSUME WorkerInv, NEW p \in Process, Serve(p)
  PROVE  WorkerInv'
  <1>1. /\ Running(p) /\ proc[p].job = None /\ proc[p].stdin # <<>>
        /\ UNCHANGED <<backend, history>>
    BY DEF Serve, Active
  <1>2. CASE Head(proc[p].stdin) = Shutdown
    BY <1>1, <1>2, ExitOk DEF Serve
  <1>3. CASE Head(proc[p].stdin) # Shutdown
    <2> DEFINE m == Head(proc[p].stdin)
               rest == Tail(proc[p].stdin)
               x == [proc[p] EXCEPT !.job = m, !.stdin = rest]
    <2>1. proc \in [Process -> ProcState] /\ proc[p] \in ProcState
      BY DEF WorkerInv, Typed
    <2>2. proc[p].stdin \in Seq(Request \cup {Shutdown})
      BY <2>1 DEF ProcState
    <2>3. m \in Request /\ rest \in Seq(Request \cup {Shutdown})
      BY <1>1, <1>3, <2>2
    <2>4. Len(proc[p].stdin) <= 1 => rest = <<>>
      BY <1>1, <2>2
    <2>5. proc' = [proc EXCEPT ![p] = x]
      <3>1. [proc[p] EXCEPT !.job = Head(proc[p].stdin), !.stdin = Tail(@)] = x
        BY <2>1 DEF ProcState
      <3>2. proc' = [proc EXCEPT ![p] =
               IF Head(proc[p].stdin) = Shutdown THEN Exited(p)
               ELSE [proc[p] EXCEPT !.job = Head(proc[p].stdin),
                                    !.stdin = Tail(@)]]
        BY DEF Serve
      <3> HIDE DEF x
      <3> QED
        BY <1>3, <3>1, <3>2
    <2> HIDE DEF m, rest
    <2>6. /\ x \in ProcState /\ x.stdin = rest /\ x.job = m
          /\ x.out = proc[p].out /\ x.buffer = proc[p].buffer
          /\ x.signal = proc[p].signal
      BY <2>1, <2>3 DEF ProcState
    <2> HIDE DEF x
    <2>7. proc'[p] = x
      BY <2>1, <2>5
    <2>8. ~Quiet(p)
      BY <1>1 DEF Quiet
    <2>9. OneJob(p) => OneJob(p)'
      <3>1. Len(<<>>) <= 1
        OBVIOUS
      <3> QED
        BY <1>1, <2>4, <2>6, <2>7, <3>1 DEF OneJob
    <2> QED
      BY <1>1, <2>5, <2>6, <2>8, <2>9, WorkerStep
  <1> QED
    BY <1>2, <1>3

(* A line of a worker is an answer only if an answer was written.          *)
LEMMA LineFacts ==
  ASSUME NEW p \in Process, NEW o \in Output
  PROVE  Line(p, o) \in Output /\ (Line(p, o).kind = "ack" => o.kind = "ack")
  BY DEF Line, Text, Output

LEMMA OtherAppend ==
  ASSUME NEW s \in Seq(Output), NEW o \in Output, OneAck(s), o.kind # "ack"
  PROVE  OneAck(Append(s, o))
  BY DEF OneAck

LEMMA AnswerOk ==
  ASSUME WorkerInv, NEW p \in Process, NEW status \in {"ok", "error"},
         Answer(p, status)
  PROVE  WorkerInv'
  <1>1. /\ Running(p) /\ proc[p].job # None
        /\ UNCHANGED <<backend, history>>
    BY DEF Answer, Active
  <1>2. proc \in [Process -> ProcState] /\ proc[p] \in ProcState
    BY DEF WorkerInv, Typed
  <1>3. proc[p].out \in Seq(Output) /\ proc[p].job \in Request
    BY <1>1, <1>2 DEF ProcState
  <1> DEFINE o == Line(p, Ack(proc[p].job, status))
             text == Append(proc[p].out, o)
             x == [proc[p] EXCEPT !.out = text, !.job = None]
  <1>4. o \in Output
    <2>1. Ack(proc[p].job, status) \in Output
      BY <1>3 DEF Ack, Output
    <2> QED
      BY <2>1, LineFacts
  <1>5. proc' = [proc EXCEPT ![p] = x]
    <2>1. [proc[p] EXCEPT !.out = Append(@, Line(p, Ack(proc[p].job, status))),
                          !.job = None] = x
      BY <1>2 DEF ProcState
    <2>2. proc' = [proc EXCEPT ![p] =
            [proc[p] EXCEPT !.out =
                              Append(@, Line(p, Ack(proc[p].job, status))),
                            !.job = None]]
      BY DEF Answer
    <2> HIDE DEF x
    <2> QED
      BY <2>1, <2>2
  <1> HIDE DEF o
  <1>6. text \in Seq(Output)
    BY <1>3, <1>4
  <1>7. NoAck(proc[p].out) => OneAck(text)
    BY <1>3, <1>4, OneAckAppend
  <1> HIDE DEF text
  <1>8. /\ x \in ProcState /\ x.stdin = proc[p].stdin /\ x.job = None
        /\ x.out = text /\ x.buffer = proc[p].buffer
        /\ x.signal = proc[p].signal
    BY <1>2, <1>6 DEF ProcState
  <1> HIDE DEF x
  <1>9. proc'[p] = x
    BY <1>2, <1>5
  <1>10. ~Quiet(p)
    BY <1>1 DEF Quiet
  <1>11. OneJob(p) => OneJob(p)'
    BY <1>1, <1>7, <1>8, <1>9 DEF OneJob
  <1> QED
    BY <1>1, <1>5, <1>8, <1>10, <1>11, WorkerStep

LEMMA ChatterOk ==
  ASSUME WorkerInv, NEW p \in Process, NEW kind \in {"line", "part"},
         Chatter(p, kind)
  PROVE  WorkerInv'
  <1>1. /\ Running(p) /\ proc[p].job = None /\ proc[p].chatter < MaxChatter
        /\ UNCHANGED <<backend, history>>
    BY DEF Chatter, Active
  <1>2. proc \in [Process -> ProcState] /\ proc[p] \in ProcState
    BY DEF WorkerInv, Typed
  <1>3. proc[p].out \in Seq(Output) /\ proc[p].chatter + 1 \in 0..MaxChatter
    BY <1>1, <1>2, Bounds DEF ProcState
  <1> DEFINE o == Line(p, Text(kind))
             text == Append(proc[p].out, o)
             k == proc[p].chatter + 1
             x == [proc[p] EXCEPT !.out = text, !.chatter = k]
  <1>4. o \in Output /\ o.kind # "ack"
    <2>1. Text(kind) \in Output /\ Text(kind).kind # "ack"
      BY DEF Text, Output
    <2> QED
      BY <2>1, LineFacts
  <1>5. proc' = [proc EXCEPT ![p] = x]
    <2>1. [proc[p] EXCEPT !.out = Append(@, Line(p, Text(kind))),
                          !.chatter = @ + 1] = x
      BY <1>2 DEF ProcState
    <2>2. proc' = [proc EXCEPT ![p] =
            [proc[p] EXCEPT !.out = Append(@, Line(p, Text(kind))),
                            !.chatter = @ + 1]]
      BY DEF Chatter
    <2> HIDE DEF x
    <2> QED
      BY <2>1, <2>2
  <1> HIDE DEF o, k
  <1>6. /\ text \in Seq(Output)
        /\ NoAck(proc[p].out) => NoAck(text)
        /\ OneAck(proc[p].out) => OneAck(text)
    BY <1>3, <1>4, NoAckAppend, OtherAppend
  <1>7. k \in 0..MaxChatter
    BY <1>3 DEF k
  <1> HIDE DEF text
  <1>8. /\ x \in ProcState /\ x.stdin = proc[p].stdin
        /\ x.job = proc[p].job
        /\ x.out = text /\ x.buffer = proc[p].buffer
        /\ x.signal = proc[p].signal
    BY <1>2, <1>6, <1>7 DEF ProcState
  <1> HIDE DEF x
  <1>9. proc'[p] = x
    BY <1>2, <1>5
  <1>10. Quiet(p) => Quiet(p)'
    BY <1>6, <1>8, <1>9 DEF Quiet
  <1>11. OneJob(p) => OneJob(p)'
    BY <1>6, <1>8, <1>9 DEF OneJob
  <1> QED
    BY <1>1, <1>5, <1>8, <1>10, <1>11, WorkerStep

-----------------------------------------------------------------------------
(* The theorems *)

LEMMA StepOk ==
  ASSUME WorkerInv, Step
  PROVE  WorkerInv'
  BY RecycleOk, EnsureWorkerOk, StartFailsOk, SendOk, SelectOk, TimeOutOk, FillBufferOk,
     SkipLineOk, AcknowledgedOk, WorkerExitedOk, StopWorkerOk, SendShutdownOk,
     StoppedOk, StopTimesOutOk, TerminateWorkerOk, TerminatedOk,
     TerminateTimesOutOk, KillTimesOutOk, FinalEndsOk
     DEF Step

LEMMA NextOk ==
  ASSUME WorkerInv, [Next]_vars
  PROVE  WorkerInv'
  <1>1. ASSUME NEW stage \in {"search", "final"}, Run(stage)
        PROVE  WorkerInv'
    BY <1>1, RunOk
  <1>2. CASE Close
    BY <1>2, CloseOk
  <1>3. CASE Step
    BY <1>3, StepOk
  <1>4. ASSUME NEW p \in Process, Worker(p)
        PROVE  WorkerInv'
    BY <1>4, ServeOk, AnswerOk, ChatterOk, DieOk DEF Worker
  <1>5. CASE UNCHANGED vars
    <2>1. Typed' /\ CountInv'
      BY <1>5 DEF vars, WorkerInv, Typed, CountInv, Ensuring
    <2>2. StrayInv' /\ AnswerInv'
      BY <1>5 DEF vars, WorkerInv, StrayInv, Active, Running, AnswerInv, Quiet,
         OneJob
    <2> QED
      BY <2>1, <2>2 DEF WorkerInv
  <1> QED
    BY <1>1, <1>2, <1>3, <1>4, <1>5 DEF Next

(* The inductive invariant holds of every state of every run.              *)
THEOREM Invariance == Spec => []WorkerInv
  BY InitOk, NextOk, PTL DEF Spec

(***************************************************************************)
(* Every variable of the backend and every process of a worker has its     *)
(* type in every state (CommandBackend.__init__ and _run_persistent): in   *)
(* particular the count of requests never passes worker_max_requests.      *)
(***************************************************************************)
THEOREM TypeCorrect == Spec => []TypeOK
  <1>1. WorkerInv => TypeOK
    BY TypedTypeOK DEF WorkerInv
  <1> QED
    BY <1>1, Invariance, PTL

(***************************************************************************)
(* No worker process is ever sent more than worker_max_requests requests,  *)
(* however each of them ended (_ensure_worker).                            *)
(***************************************************************************)
THEOREM RequestsStayBounded == Spec => []RequestBudget
  <1>1. WorkerInv => RequestBudget
    BY DEF WorkerInv, CountInv, RequestBudget
  <1> QED
    BY <1>1, Invariance, PTL

(***************************************************************************)
(* A worker gets no request after a failed one, and a request is sent only *)
(* to a worker that holds nothing of an earlier one and has no answer      *)
(* under way (_run_persistent, _read_worker_response).                     *)
(***************************************************************************)
THEOREM QuietBeforeRequest == Spec => []WorkerIsQuiet
  <1>1. ASSUME WorkerInv, pc = "send"
        PROVE  /\ proc[worker].stdin = <<>> /\ proc[worker].job = None
               /\ \A text \in ToSet(proc[worker].out \o proc[worker].buffer) :
                    text.kind # "ack"
    <2>1. worker \in Process /\ Quiet(worker)
      BY <1>1, WorkerIsProcess DEF WorkerInv, CountInv, AnswerInv
    <2>2. /\ proc[worker].out \in Seq(Output)
          /\ proc[worker].buffer \in Seq(Output)
      BY <1>1, <2>1 DEF WorkerInv, Typed, ProcState
    <2> DEFINE written == proc[worker].out \o proc[worker].buffer
    <2>3. written \in Seq(Output) /\ NoAck(written)
      BY <2>1, <2>2, NoAckConcat DEF Quiet
    <2> HIDE DEF written
    <2>4. \A text \in ToSet(written) : text.kind # "ack"
      BY <2>3 DEF NoAck, ToSet
    <2> QED
      BY <2>1, <2>4 DEF Quiet, written
  <1>2. WorkerInv => FailedWorkerGone
    BY DEF WorkerInv, AnswerInv, FailedWorkerGone
  <1>3. WorkerInv => WorkerIsQuiet
    BY <1>1, <1>2 DEF WorkerIsQuiet
  <1> QED
    BY <1>3, Invariance, PTL

(***************************************************************************)
(* Between calls, and while a request is served, the only process that     *)
(* has not been killed is the worker of the backend (_terminate_worker);   *)
(* beside the final stage there is none.                                   *)
(***************************************************************************)
THEOREM NoneStrays == Spec => []NoStrayWorker
  <1>1. WorkerInv => FinalIsolated
    BY DEF WorkerInv, Typed, CountInv, StrayInv, FinalIsolated, Process, None
  <1>2. WorkerInv => NoStrayWorker
    BY <1>1 DEF WorkerInv, StrayInv, NoStrayWorker
  <1> QED
    BY <1>2, Invariance, PTL

-----------------------------------------------------------------------------
(***************************************************************************)
(* The command backend implements the abstract service, for any number of  *)
(* calls and requests and whatever the workers do.                         *)
(***************************************************************************)

(***************************************************************************)
(* The worker of the backend is the newest process, and nobody has killed  *)
(* it yet.                                                                 *)
(***************************************************************************)
WorkerIsNewest ==
  worker # None => worker = starts /\ proc[worker].signal # "kill"

ServiceInv == WorkerInv /\ WorkerIsNewest

(* What most steps do to the processes: none starts to run, and of the     *)
(* running ones none is killed.                                            *)
Calm == \A q \in Process : Active(q)' => Active(q)
Spared ==
  \A q \in Process : proc[q].signal # "kill" => proc'[q].signal # "kill"

LEMMA SameLifeIsCalm ==
  ASSUME NEW p \in Process, SameButFor(p), SameLife(p)
  PROVE  Calm /\ Spared
  BY DEF Calm, Spared, SameButFor, SameLife, Active, Running

LEMMA UnchangedIsCalm ==
  ASSUME UNCHANGED proc
  PROVE  Calm /\ Spared
  BY DEF Calm, Spared, Active, Running

LEMMA ExitIsCalm ==
  ASSUME Typed, NEW p \in Process, proc' = [proc EXCEPT ![p] = Exited(p)]
  PROVE  Calm /\ Spared
  <1> DEFINE x == Exited(p)
  <1>1. x.life # "running" /\ x.signal = "none"
    BY DEF Exited, Unborn
  <1>2. proc' = [proc EXCEPT ![p] = x]
    OBVIOUS
  <1> HIDE DEF x
  <1>3. proc'[p] = x /\ \A q \in Process \ {p} : proc'[q] = proc[q]
    BY <1>2 DEF Typed
  <1> QED
    BY <1>1, <1>3 DEF Calm, Spared, Active, Running

LEMMA DropIsCalm ==
  ASSUME Typed, StrayInv, Drop, ~(worker # None /\ Running(worker))
  PROVE  /\ worker' = None /\ Calm
         /\ pc # "terminating" => ~Alive /\ ~Alive'
  <1>1. /\ worker' = None
        /\ \A q \in Process : Active(q)' => Active(q) /\ q # worker
    BY DropFacts
  <1>2. \A q \in Process : Active(q) => q # worker
    BY DEF Active, Typed, Process, None
  <1>3. pc # "terminating" => \A q \in Process : ~Active(q)
    BY <1>2 DEF StrayInv
  <1> QED
    BY <1>1, <1>3 DEF Calm, Alive
-----------------------------------------------------------------------------
(* Steps of the workers *)

LEMMA WorkersAreCalm ==
  ASSUME WorkerInv, NEW p \in Process, Worker(p)
  PROVE  UNCHANGED <<backend, history>> /\ Calm /\ Spared
  <1>1. Running(p) /\ UNCHANGED <<backend, history>>
    BY DEF Worker, Serve, Answer, Chatter, Die, Active
  <1>2. proc \in [Process -> ProcState] /\ proc[p] \in ProcState
    BY DEF WorkerInv, Typed
  <1>3. ASSUME proc' = [proc EXCEPT ![p] = Exited(p)]
        PROVE  Calm /\ Spared
    BY <1>3, ExitIsCalm DEF WorkerInv
  <1>4. ASSUME NEW x, proc' = [proc EXCEPT ![p] = x],
               x.life = proc[p].life, x.signal = proc[p].signal
        PROVE  Calm /\ Spared
    <2>1. SameButFor(p) /\ SameLife(p)
      BY <1>2, <1>4 DEF SameButFor, SameLife
    <2> QED
      BY <2>1, SameLifeIsCalm
  <1>5. CASE Die(p)
    BY <1>3, <1>5 DEF Die
  <1>6. CASE Serve(p)
    <2> DEFINE x == [proc[p] EXCEPT !.job = Head(proc[p].stdin),
                                    !.stdin = Tail(@)]
    <2>1. proc' = [proc EXCEPT ![p] =
            IF Head(proc[p].stdin) = Shutdown THEN Exited(p) ELSE x]
      BY <1>6 DEF Serve
    <2>2. x.life = proc[p].life /\ x.signal = proc[p].signal
      BY <1>2 DEF ProcState
    <2> HIDE DEF x
    <2> QED
      BY <1>1, <1>3, <1>4, <2>1, <2>2
  <1>7. ASSUME NEW status \in {"ok", "error"}, Answer(p, status)
        PROVE  Calm /\ Spared
    <2> DEFINE x == [proc[p] EXCEPT
                      !.out = Append(@, Line(p, Ack(proc[p].job, status))),
                      !.job = None]
    <2>1. proc' = [proc EXCEPT ![p] = x]
      BY <1>7 DEF Answer
    <2>2. x.life = proc[p].life /\ x.signal = proc[p].signal
      BY <1>2 DEF ProcState
    <2> HIDE DEF x
    <2> QED
      BY <1>4, <2>1, <2>2
  <1>8. ASSUME NEW kind \in {"line", "part"}, Chatter(p, kind)
        PROVE  Calm /\ Spared
    <2> DEFINE x == [proc[p] EXCEPT !.out = Append(@, Line(p, Text(kind))),
                                    !.chatter = @ + 1]
    <2>1. proc' = [proc EXCEPT ![p] = x]
      BY <1>8 DEF Chatter
    <2>2. x.life = proc[p].life /\ x.signal = proc[p].signal
      BY <1>2 DEF ProcState
    <2> HIDE DEF x
    <2> QED
      BY <1>4, <2>1, <2>2
  <1> QED
    BY <1>1, <1>5, <1>6, <1>7, <1>8 DEF Worker

-----------------------------------------------------------------------------
(* Steps of the thread that leave the processes alone, or change a pipe.   *)

LEMMA SendIsCalm ==
  ASSUME WorkerInv, Send \/ SendShutdown, Running(worker)
  PROVE  Calm /\ Spared
  <1>1. worker \in Process /\ calls \in Request
    BY WorkerIsProcess, Bounds
       DEF WorkerInv, CountInv, Typed, Send, SendShutdown, Request, Process
  <1>2. \/ proc' = [proc EXCEPT ![worker].stdin = Append(@, calls)]
        \/ proc' = [proc EXCEPT ![worker].stdin = Append(@, Shutdown)]
    BY DEF Send, SendShutdown
  <1>3. SameButFor(worker) /\ SameLife(worker)
    BY <1>1, <1>2, StdinChange DEF WorkerInv
  <1> QED
    BY <1>1, <1>3, SameLifeIsCalm

LEMMA ReadIsCalm ==
  ASSUME WorkerInv, FillBuffer \/ SkipLine \/ Acknowledged \/ WorkerExited
  PROVE  Calm /\ Spared
  <1>1. pc = "readline" /\ worker \in Process
    BY WorkerIsProcess
       DEF WorkerInv, CountInv, FillBuffer, SkipLine, Acknowledged, WorkerExited
  <1>2. /\ proc[worker].out \in Seq(Output) /\ <<>> \in Seq(Output)
        /\ proc[worker].buffer \in Seq(Output)
    BY SMTT(20), <1>1 DEF WorkerInv, Typed, ProcState
  <1>3. CASE FillBuffer
    <2> DEFINE o == <<>>
               b == proc[worker].buffer \o proc[worker].out
    <2>1. b \in Seq(Output)
      BY <1>2
    <2>2. proc' = [proc EXCEPT ![worker] = [@ EXCEPT !.buffer = b, !.out = o]]
      <3>1. proc[worker] \in ProcState /\ proc \in [Process -> ProcState]
        BY <1>1 DEF WorkerInv, Typed
      <3>2. [proc[worker] EXCEPT !.buffer = @ \o proc[worker].out, !.out = <<>>]
              = [proc[worker] EXCEPT !.buffer = b, !.out = o]
        BY <3>1 DEF ProcState
      <3>3. proc' = [proc EXCEPT ![worker] =
               [proc[worker] EXCEPT !.buffer = @ \o proc[worker].out,
                                    !.out = <<>>]]
        BY <1>3 DEF FillBuffer
      <3> QED
        BY <3>1, <3>2, <3>3
    <2> HIDE DEF b, o
    <2>3. SameButFor(worker) /\ SameLife(worker)
      BY <1>1, <1>2, <2>1, <2>2, OutputChange DEF WorkerInv, o
    <2> QED
      BY <1>1, <2>3, SameLifeIsCalm
  <1>4. CASE SkipLine \/ Acknowledged
    <2>1. SameButFor(worker) /\ SameLife(worker)
      BY <1>1, <1>4, ConsumeLineFacts DEF WorkerInv, SkipLine, Acknowledged
    <2> QED
      BY <1>1, <2>1, SameLifeIsCalm
  <1>5. CASE WorkerExited
    <2>1. CASE UNCHANGED proc
      BY <2>1, UnchangedIsCalm
    <2>2. CASE proc' = [proc EXCEPT ![worker].buffer = <<>>]
      <3>1. SameButFor(worker) /\ SameLife(worker)
        BY <1>1, <1>2, <2>2, BufferChange DEF WorkerInv
      <3> QED
        BY <1>1, <3>1, SameLifeIsCalm
    <2> QED
      BY <1>5, <2>1, <2>2 DEF WorkerExited
  <1> QED
    BY <1>3, <1>4, <1>5

(***************************************************************************)
(* Steps of the thread that change no process at all.                      *)
(***************************************************************************)
Pure == \/ Recycle \/ Select \/ TimeOut \/ StopTimesOut \/ KillTimesOut
        \/ FinalEnds \/ Close \/ \E stage \in {"search", "final"} : Run(stage)

LEMMA PureIsCalm ==
  ASSUME Pure
  PROVE  UNCHANGED <<worker, starts, proc, sent, served>> /\ Calm /\ Spared
  <1>1. UNCHANGED <<worker, starts, proc, sent, served>>
    BY DEF Pure, Recycle, Select, TimeOut, OutOfTime, Fail, StopTimesOut,
       KillTimesOut, FinalEnds, Close, Run, history
  <1> QED
    BY <1>1, UnchangedIsCalm

-----------------------------------------------------------------------------
(* The worker is the newest process *)

LEMMA NewestInit == Init => WorkerIsNewest
  BY DEF Init, WorkerIsNewest

LEMMA NewestStays ==
  ASSUME ServiceInv, [Next]_vars
  PROVE  WorkerIsNewest'
  <1> USE DEF ServiceInv
  <1>0. worker # None => worker \in Process
    BY WorkerIsProcess DEF WorkerInv
  <1>1. ASSUME UNCHANGED <<worker, starts>>, Spared
        PROVE  WorkerIsNewest'
    BY <1>0, <1>1 DEF WorkerIsNewest, Spared
  <1>2. ASSUME worker' = None
        PROVE  WorkerIsNewest'
    BY <1>2 DEF WorkerIsNewest
  <1>3. CASE Pure
    BY <1>1, <1>3, PureIsCalm
  <1>4. CASE EnsureWorker
    <2>1. CASE worker # None /\ Running(worker)
      BY <1>1, <1>4, <2>1, UnchangedIsCalm DEF EnsureWorker
    <2>2. CASE ~(worker # None /\ Running(worker))
      <3>1. starts + 1 \in Process /\ starts + 1 # worker
        BY <1>4, WorkerIsProcess
           DEF WorkerInv, EnsureWorker, Ensuring
      <3>2. /\ worker' = starts + 1 /\ starts' = starts + 1
            /\ proc' = [p \in Process |->
                 CASE p = starts + 1 -> [Unborn EXCEPT !.life = "running"]
                   [] p = worker     -> [Unborn EXCEPT !.life = "exited"]
                   [] OTHER          -> proc[p]]
        BY <1>4, <2>2 DEF EnsureWorker
      <3> DEFINE new == [Unborn EXCEPT !.life = "running"]
                 old == [Unborn EXCEPT !.life = "exited"]
      <3>3. new.signal = "none"
        BY DEF Unborn
      <3> HIDE DEF new, old
      <3>4. proc'[worker'] = new
        <4>1. proc' = [p \in Process |-> CASE p = starts + 1 -> new
                                           [] p = worker     -> old
                                           [] OTHER          -> proc[p]]
          BY <3>2 DEF new, old
        <4>2. PICK n \in Process : n = starts + 1
          BY <3>1
        <4>3. n # worker /\ worker' = n
          BY <3>1, <3>2, <4>2
        <4>4. proc'[n] = CASE n = starts + 1 -> new
                           [] n = worker     -> old
                           [] OTHER          -> proc[n]
          BY <4>1, <4>2
        <4> QED
          BY <4>2, <4>3, <4>4
      <3> QED
        BY <3>2, <3>3, <3>4 DEF WorkerIsNewest
    <2> QED
      BY <2>1, <2>2
  <1>5. CASE StartFails \/ Stopped
    BY <1>2, <1>5 DEF StartFails, Stopped, Drop
  <1>6. CASE Send \/ SendShutdown
    <2>1. CASE Running(worker)
      <3>1. UNCHANGED <<worker, starts>>
        BY <1>6, <2>1 DEF Send, SendShutdown
      <3> QED
        BY <1>1, <1>6, <2>1, <3>1, SendIsCalm
    <2>2. CASE ~Running(worker)
      BY <1>1, <1>2, <1>6, <2>2, UnchangedIsCalm DEF Send, SendShutdown, Drop
    <2> QED
      BY <2>1, <2>2
  <1>7. CASE FillBuffer \/ SkipLine \/ Acknowledged \/ WorkerExited
    <2>1. UNCHANGED <<worker, starts>>
      BY <1>7 DEF FillBuffer, SkipLine, Acknowledged, WorkerExited, backend
    <2> QED
      BY <1>1, <1>7, <2>1, ReadIsCalm
  <1>8. CASE StopWorker
    BY <1>1, <1>2, <1>8, UnchangedIsCalm DEF StopWorker, Drop
  <1>9. CASE TerminateWorker
    BY <1>2, <1>9 DEF TerminateWorker, Drop
  <1>10. CASE Terminated \/ TerminateTimesOut
    BY <1>2, <1>10
       DEF Terminated, TerminateTimesOut, WorkerInv, CountInv
  <1>11. ASSUME NEW p \in Process, Worker(p)
         PROVE  WorkerIsNewest'
    BY <1>1, <1>11, WorkersAreCalm DEF backend
  <1>12. CASE UNCHANGED vars
    BY <1>1, <1>12, UnchangedIsCalm DEF vars
  <1> QED
    BY <1>3, <1>4, <1>5, <1>6, <1>7, <1>8, <1>9, <1>10, <1>11, <1>12
       DEF Next, Step, Pure

LEMMA ServiceInvariance == Spec => []ServiceInv
  <1>1. Init => ServiceInv
    BY InitOk, NewestInit DEF ServiceInv
  <1>2. ServiceInv /\ [Next]_vars => ServiceInv'
    BY NextOk, NewestStays DEF ServiceInv
  <1> QED
    BY <1>1, <1>2, PTL DEF Spec

-----------------------------------------------------------------------------
(* The refinement *)

Implements == [Service!Next]_(Service!serviceVars)

(* What the thread counts, next to the counts of the newest process.       *)
LEMMA SameCounts ==
  ASSUME UNCHANGED <<starts, sent, served>>
  PROVE  UNCHANGED <<Load, Replied>>
  BY DEF Load, Replied, Newest

(* No call moves on: nothing happens, or the last process ends.            *)
LEMMA EndsOrStutters ==
  ASSUME UNCHANGED <<CallState, calls, starts, sent, served>>, Calm
  PROVE  Implements
  <1>1. UNCHANGED <<Load, Replied>>
    BY SameCounts
  <1>2. Alive' => Alive
    BY DEF Calm, Alive
  <1>3. CASE Alive' <=> Alive
    <2>1. UNCHANGED Alive
      BY <1>3 DEF Alive
    <2> QED
      BY <1>1, <2>1 DEF Implements, Service!serviceVars, Service!evaluator
  <1>4. CASE Alive /\ ~Alive'
    <2>1. Alive' = FALSE
      BY <1>4 DEF Alive
    <2> QED
      BY <1>1, <1>4, <2>1 DEF Implements, Service!Next, Service!Ends
  <1> QED
    BY <1>2, <1>3, <1>4

(* The evaluator is left alone.                                            *)
LEMMA Untouched ==
  ASSUME UNCHANGED <<starts, sent, served>>, UNCHANGED proc \/ (~Alive /\ ~Alive')
  PROVE  UNCHANGED Service!evaluator
  <1>1. UNCHANGED Alive
    BY DEF Alive, Active, Running
  <1> QED
    BY <1>1, SameCounts DEF Service!evaluator

(* A call that has failed, and one whose worker has been stopped.          *)
LEMMA FailsOk ==
  ASSUME UNCHANGED <<calls, starts, sent, served, proc>>, Fail,
         pc \in {"send", "select", "readline"}
  PROVE  Implements
  <1>1. CallState \in {"search", "submitted"} /\ CallState' = "failing"
    BY DEF Fail, CallState, Preparing
  <1>2. UNCHANGED Service!evaluator
    BY Untouched
  <1> QED
    BY <1>1, <1>2 DEF Implements, Service!Next, Service!Failing

LEMMA ReturnsOk ==
  ASSUME Typed, UNCHANGED <<then, calls, starts, sent, served>>,
         pc \in Stopping, pc' \in {then, Raised}, ~Alive, ~Alive'
  PROVE  Implements
  <1>1. UNCHANGED Service!evaluator
    BY Untouched
  <1>2. then \in {"idle", "reuse", "final", "closed"}
    BY DEF Typed
  <1>3. CASE CallState \in {"search", "failing", "isolating"} /\ CallState' = "idle"
    BY <1>1, <1>3 DEF Implements, Service!Next, Service!Failed
  <1>4. CASE then = "reuse" /\ pc' = "reuse"
    <2>1. CallState = "search" /\ CallState' = "search"
      BY <1>4 DEF CallState, Preparing, Stopping
    <2> QED
      BY <1>1, <2>1 DEF Implements, Service!serviceVars
  <1>5. CASE then = "final" /\ pc' = "final"
    <2>1. CallState = "isolating" /\ CallState' = "final"
      BY <1>5 DEF CallState, Preparing, Stopping
    <2> QED
      BY <1>1, <2>1 DEF Implements, Service!Next, Service!Isolated
  <1>6. CASE then = "closed"
    <2>1. CallState = "closing" /\ CallState' = "closed"
      BY <1>6 DEF CallState, Preparing, Stopping, Raised
    <2> QED
      BY <1>1, <2>1 DEF Implements, Service!Next, Service!Closed
  <1>7. CASE then # "closed" /\ pc' = "idle"
    <2>1. /\ CallState \in {"search", "failing", "isolating"}
          /\ CallState' = "idle"
      BY <1>2, <1>7 DEF CallState, Preparing, Stopping
    <2> QED
      BY <1>3, <2>1
  <1> QED
    BY <1>2, <1>4, <1>5, <1>6, <1>7 DEF Raised

(* The worker that is started, or written to, runs.                        *)
LEMMA NewRuns ==
  ASSUME WorkerInv, EnsureWorker, ~(worker # None /\ Running(worker))
  PROVE  Running(worker)'
  <1>1. starts + 1 \in Process /\ starts + 1 # worker
    BY WorkerIsProcess DEF WorkerInv, EnsureWorker, Ensuring
  <1>2. /\ worker' = starts + 1
        /\ proc' = [p \in Process |->
             CASE p = starts + 1 -> [Unborn EXCEPT !.life = "running"]
               [] p = worker     -> [Unborn EXCEPT !.life = "exited"]
               [] OTHER          -> proc[p]]
    BY DEF EnsureWorker
  <1> DEFINE new == [Unborn EXCEPT !.life = "running"]
             old == [Unborn EXCEPT !.life = "exited"]
  <1>3. new.life = "running"
    BY DEF Unborn
  <1>4. proc' = [p \in Process |-> CASE p = starts + 1 -> new
                                     [] p = worker     -> old
                                     [] OTHER          -> proc[p]]
    BY <1>2
  <1> HIDE DEF new, old
  <1>5. PICK n \in Process : n = starts + 1
    BY <1>1
  <1>6. n # worker /\ worker' = n
    BY <1>1, <1>2, <1>5
  <1>7. proc'[n] = CASE n = starts + 1 -> new
                     [] n = worker     -> old
                     [] OTHER          -> proc[n]
    BY <1>4, <1>5
  <1> QED
    BY <1>3, <1>5, <1>6, <1>7 DEF Running

LEMMA StillRuns ==
  ASSUME WorkerInv, Send, Running(worker), worker \in Process
  PROVE  Running(worker)'
  <1>1. worker' = worker /\ calls \in Request
    BY Bounds DEF WorkerInv, CountInv, Typed, Send, Request, Process
  <1>2. proc' = [proc EXCEPT ![worker].stdin = Append(@, calls)]
    BY DEF Send
  <1>3. SameLife(worker)
    BY <1>1, <1>2, StdinChange DEF WorkerInv
  <1> QED
    BY <1>1, <1>3 DEF SameLife, Running

(* Who is active while a call is looking for a worker, or is served.       *)
LEMMA AliveWorker ==
  ASSUME ServiceInv, pc # "terminating"
  PROVE  /\ Alive => worker # None /\ Active(worker)
         /\ worker # None /\ Running(worker) => Alive
  <1>1. ASSUME NEW p \in Process, Active(p)
        PROVE  p = worker /\ worker # None
    BY <1>1 DEF ServiceInv, WorkerInv, StrayInv, Process, None
  <1>2. worker # None => worker \in Process
    BY WorkerIsProcess DEF ServiceInv, WorkerInv
  <1> QED
    BY <1>1, <1>2 DEF Alive, Active, ServiceInv, WorkerIsNewest

LEMMA PureImplements ==
  ASSUME ServiceInv, Pure
  PROVE  Implements
  <1> USE DEF ServiceInv, WorkerInv
  <1>1. UNCHANGED <<worker, starts, proc, sent, served>> /\ Calm
    BY PureIsCalm
  <1>2. UNCHANGED Service!evaluator
    BY <1>1, Untouched
  <1>3. CASE Recycle \/ Select \/ StopTimesOut
    <2>1. UNCHANGED <<CallState, calls>>
      BY <1>3 DEF Recycle, Select, StopTimesOut, CallState, Preparing
    <2> QED
      BY <1>1, <2>1, EndsOrStutters
  <1>4. CASE TimeOut
    BY <1>1, <1>4, FailsOk DEF TimeOut, OutOfTime
  <1>5. CASE KillTimesOut
    <2>1. /\ pc = "killing" /\ pc' = Raised
          /\ UNCHANGED <<then, calls>>
      BY <1>5 DEF KillTimesOut
    <2>2. worker = None
      BY <2>1 DEF CountInv
    <2>3. ~Alive
      BY <2>1, <2>2, AliveWorker
    <2>4. ~Alive'
      BY <1>1, <2>3 DEF Alive, Calm
    <2> QED
      BY <1>1, <2>1, <2>3, <2>4, ReturnsOk DEF Stopping
  <1>6. CASE FinalEnds
    <2>1. CallState = "final" /\ CallState' = "idle" /\ calls' = calls
      BY <1>6 DEF FinalEnds, CallState, Preparing
    <2> QED
      BY <1>2, <2>1 DEF Implements, Service!Next, Service!FinalEnds
  <1>7. CASE Close
    <2>1. CallState = "idle" /\ CallState' = "closing" /\ calls' = calls
      BY <1>7 DEF Close, CallState, Preparing
    <2> QED
      BY <1>2, <2>1 DEF Implements, Service!Next, Service!Close
  <1>8. ASSUME NEW stage \in {"search", "final"}, Run(stage)
        PROVE  Implements
    <2>1. /\ CallState = "idle" /\ CallState' \in {"search", "isolating"}
          /\ calls < MaxCalls /\ calls' = calls + 1
      BY <1>8 DEF Run, FirstStep, CallState, Preparing
    <2> QED
      BY <1>2, <2>1 DEF Implements, Service!Next, Service!Begin
  <1> QED
    BY <1>3, <1>4, <1>5, <1>6, <1>7, <1>8 DEF Pure

LEMMA EnsureImplements ==
  ASSUME ServiceInv, EnsureWorker
  PROVE  Implements
  <1> USE DEF ServiceInv, WorkerInv
  <1>1. /\ pc \in {"ensure", "reuse"} /\ pc' = "send"
        /\ UNCHANGED <<then, calls, sent, served>>
    BY DEF EnsureWorker, history
  <1>2. CallState = "search" /\ CallState' = "search"
    BY <1>1 DEF CallState, Preparing
  <1>3. CASE worker # None /\ Running(worker)
    <2>1. UNCHANGED <<starts, proc>>
      BY <1>3 DEF EnsureWorker
    <2> QED
      BY <1>1, <1>2, <2>1, UnchangedIsCalm, EndsOrStutters
  <1>4. CASE ~(worker # None /\ Running(worker))
    <2>1. ~Alive
      BY <1>1, <1>4, AliveWorker DEF Active
    <2>2. WorkerInv' /\ WorkerIsNewest'
      BY EnsureWorkerOk, NewestStays DEF Next, Step
    <2>3. /\ worker' = starts + 1 /\ starts' = starts + 1
          /\ worker' # None /\ worker' \in Process
      <3>1. starts + 1 \in Process
        BY <1>1, WorkerIsProcess DEF Ensuring
      <3>2. worker' = starts + 1 /\ starts' = starts + 1
        BY <1>4 DEF EnsureWorker
      <3> QED
        BY <3>1, <3>2 DEF Process, None
    <2>4. Running(worker)'
      BY <2>3, <1>1, <1>4, NewRuns
    <2>5. Active(worker)'
      BY <2>2, <2>3, <2>4 DEF Active, WorkerIsNewest
    <2>6. Alive' = TRUE
      BY <2>3, <2>5 DEF Alive
    <2>7. Load' = 0 /\ Replied' = 0
      <3>1. starts \in Nat /\ starts + 1 \in Process
        BY <2>3 DEF Typed
      <3>2. sent[starts + 1] = 0 /\ served[starts + 1] = 0
        BY <3>1 DEF CountInv
      <3>3. starts' # 0 /\ sent'[starts'] = 0 /\ served'[starts'] = 0
        BY <1>1, <2>3, <3>1, <3>2 DEF None
      <3> QED
        BY <3>3 DEF Load, Replied, Newest
    <2> QED
      BY <1>1, <1>2, <2>1, <2>3, <2>6, <2>7
         DEF Implements, Service!Next, Service!Incarnate
  <1> QED
    BY <1>3, <1>4

LEMMA SendImplements ==
  ASSUME ServiceInv, Send
  PROVE  Implements
  <1> USE DEF ServiceInv, WorkerInv
  <1>1. pc = "send" /\ UNCHANGED <<calls, worker, starts, served>>
    BY DEF Send
  <1>2. worker # None /\ worker = starts /\ worker \in Process
    BY <1>1, WorkerIsProcess DEF CountInv, WorkerIsNewest
  <1>3. CASE Running(worker)
    <2>1. pc' = "select" /\ sent' = [sent EXCEPT ![worker] = @ + 1]
      BY <1>3 DEF Send
    <2>2. CallState = "search" /\ CallState' = "submitted"
      BY <1>1, <2>1 DEF CallState, Preparing
    <2>3. Calm
      BY <1>3, SendIsCalm
    <2>4. Alive
      BY <1>1, <1>2, <1>3, AliveWorker
    <2>5. WorkerInv' /\ WorkerIsNewest'
      BY SendOk, NewestStays DEF Next, Step
    <2>6. Active(worker)'
      <3>1. Running(worker)'
        BY <1>2, <1>3, StillRuns
      <3> QED
        BY <1>1, <1>2, <2>5, <3>1 DEF Active, WorkerIsNewest
    <2>7. UNCHANGED Alive
      BY <1>1, <1>2, <2>4, <2>6 DEF Alive
    <2>8. /\ Load = sent[starts] /\ Replied = served[starts]
          /\ Load' = sent[starts] + 1 /\ Replied' = served[starts]
      <3>1. starts # 0
        BY <1>2 DEF None
      <3>2. sent'[starts] = sent[starts] + 1
        BY <1>2, <2>1 DEF Typed
      <3> QED
        BY <1>1, <3>1, <3>2 DEF Load, Replied, Newest
    <2>9. sent[starts] = served[starts] /\ sent[starts] < WorkerMaxRequests
      BY <1>1, <1>2 DEF AnswerInv, CountInv
    <2> QED
      BY <1>1, <2>2, <2>4, <2>7, <2>8, <2>9
         DEF Implements, Service!Next, Service!Submit
  <1>4. CASE ~Running(worker)
    BY <1>1, <1>4, FailsOk DEF Send
  <1> QED
    BY <1>3, <1>4

(* Reading on, and the end of the pipe.                                    *)
LEMMA ReadImplements ==
  ASSUME ServiceInv, FillBuffer \/ SkipLine \/ WorkerExited
  PROVE  Implements
  <1> USE DEF ServiceInv, WorkerInv
  <1>1. pc = "readline" /\ UNCHANGED <<calls, starts, sent, served>>
    BY DEF FillBuffer, SkipLine, WorkerExited, backend, history
  <1>2. CASE pc' \in {"select", "readline"}
    <2>1. CallState = "submitted" /\ CallState' = "submitted"
      BY <1>1, <1>2 DEF CallState, Preparing
    <2> QED
      BY <1>1, <2>1, ReadIsCalm, EndsOrStutters
  <1>3. CASE WorkerExited /\ Fail /\ UNCHANGED proc
    BY <1>1, <1>3, FailsOk
  <1>4. pc' \in {"select", "readline"} \/ (WorkerExited /\ Fail /\ UNCHANGED proc)
    <2>1. CASE FillBuffer
      BY <1>1, <2>1 DEF FillBuffer, backend
    <2>2. CASE SkipLine
      BY <2>2 DEF SkipLine
    <2>3. CASE WorkerExited
      BY <2>3 DEF WorkerExited
    <2> QED
      BY <2>1, <2>2, <2>3
  <1> QED
    BY <1>2, <1>3, <1>4

LEMMA AcknowledgedImplements ==
  ASSUME ServiceInv, Acknowledged
  PROVE  Implements
  <1> USE DEF ServiceInv, WorkerInv
  <1>1. /\ pc = "readline" /\ ConsumeLine /\ Accept(Head(Buffered).status)
        /\ UNCHANGED <<calls, worker, starts, sent>>
    BY DEF Acknowledged
  <1>2. worker # None /\ worker = starts /\ worker \in Process
    BY <1>1, WorkerIsProcess DEF CountInv, WorkerIsNewest
  <1>3. SameButFor(worker) /\ SameLife(worker)
    BY <1>1, ConsumeLineFacts
  <1>4. UNCHANGED Alive
    <2>1. \A q \in Process : Active(q)' <=> Active(q)
      BY <1>3 DEF SameButFor, SameLife, Active, Running
    <2> QED
      BY <2>1 DEF Alive
  <1>5. CallState = "submitted"
    BY <1>1 DEF CallState, Preparing
  <1>6. CASE Head(Buffered).status = "ok"
    <2>1. pc' = "idle"
      BY <1>1, <1>6 DEF Accept
    <2>2. CallState' = "idle"
      BY <2>1 DEF CallState, Preparing
    <2>3. sent[starts] = served[starts] + 1
      BY <1>1, <1>2 DEF AnswerInv
    <2>4. served' = [served EXCEPT ![worker] = @ + 1]
      BY <1>6 DEF Acknowledged
    <2>5. served'[starts] = served[starts] + 1
      BY <1>2, <2>4 DEF Typed
    <2>6. /\ Load = sent[starts] /\ Replied = served[starts]
          /\ Load' = sent[starts] /\ Replied' = sent[starts]
      <3>1. starts # 0
        BY <1>2 DEF None
      <3> QED
        BY <1>1, <2>3, <2>5, <3>1 DEF Load, Replied, Newest
    <2>7. Load = Replied + 1 /\ Replied' = Load /\ Load' = Load
      BY <2>3, <2>6
    <2> QED
      BY <1>1, <1>4, <1>5, <2>2, <2>7
         DEF Implements, Service!Next, Service!Answered
  <1>7. CASE Head(Buffered).status # "ok"
    <2>1. Fail
      BY <1>1, <1>7 DEF Accept
    <2>2. CallState' = "failing"
      BY <2>1 DEF Fail, CallState, Preparing
    <2>3. served' = served
      <3>1. served' = [served EXCEPT ![worker] = @]
        BY <1>7 DEF Acknowledged
      <3> QED
        BY <3>1 DEF Typed
    <2>4. UNCHANGED <<Load, Replied>>
      BY <1>1, <2>3, SameCounts
    <2> QED
      BY <1>1, <1>4, <1>5, <2>2, <2>4
         DEF Implements, Service!Next, Service!Failing, Service!evaluator
  <1> QED
    BY <1>6, <1>7

(* A worker that is given up has exited, and it was the last.              *)
LEMMA DropReturns ==
  ASSUME ServiceInv, Drop, ~(worker # None /\ Running(worker)),
         pc \in Stopping \ {"terminating"}, pc' \in {then, Raised},
         UNCHANGED <<then, calls, starts, sent, served>>
  PROVE  Implements
  <1>1. Typed /\ StrayInv /\ pc # "terminating"
    BY DEF ServiceInv, WorkerInv
  <1>2. ~Alive /\ ~Alive'
    BY <1>1, DropIsCalm
  <1> QED
    BY <1>1, <1>2, ReturnsOk

LEMMA StartFailsImplements ==
  ASSUME ServiceInv, StartFails
  PROVE  Implements
  <1>1. /\ pc \in {"ensure", "reuse"} /\ pc' = "idle" /\ Drop
        /\ ~(worker # None /\ Running(worker))
        /\ UNCHANGED <<calls, starts, sent, served>>
    BY DEF StartFails, history
  <1>2. Typed /\ StrayInv /\ pc # "terminating"
    BY <1>1 DEF ServiceInv, WorkerInv
  <1>3. ~Alive /\ ~Alive'
    BY <1>1, <1>2, DropIsCalm
  <1>4. CallState = "search" /\ CallState' = "idle"
    BY <1>1 DEF CallState, Preparing
  <1>5. UNCHANGED Service!evaluator
    BY <1>1, <1>3, Untouched
  <1> QED
    BY <1>1, <1>3, <1>4, <1>5 DEF Implements, Service!Next, Service!Failed

LEMMA StopImplements ==
  ASSUME ServiceInv, StopWorker \/ SendShutdown \/ Stopped
  PROVE  Implements
  <1> USE DEF ServiceInv, WorkerInv
  <1>1. /\ pc \in {"stop", "shutdown", "stopping"}
        /\ UNCHANGED <<then, calls, starts, sent, served>>
    BY DEF StopWorker, SendShutdown, Stopped, history
  <1>2. ASSUME pc' \in {"shutdown", "stopping"}, Calm
        PROVE  Implements
    <2>1. UNCHANGED CallState
      BY <1>1, <1>2 DEF CallState, Preparing
    <2> QED
      BY <1>1, <1>2, <2>1, EndsOrStutters
  <1>3. ASSUME pc' \in {then, Raised}, Drop, ~(worker # None /\ Running(worker))
        PROVE  Implements
    BY <1>1, <1>3, DropReturns DEF Stopping
  <1>4. CASE StopWorker
    BY <1>2, <1>3, <1>4, UnchangedIsCalm DEF StopWorker
  <1>5. CASE SendShutdown
    <2>1. CASE Running(worker)
      BY <1>2, <1>5, <2>1, SendIsCalm DEF SendShutdown
    <2>2. CASE ~Running(worker)
      BY <1>3, <1>5, <2>2 DEF SendShutdown
    <2> QED
      BY <2>1, <2>2
  <1>6. CASE Stopped
    BY <1>3, <1>6 DEF Stopped
  <1> QED
    BY <1>4, <1>5, <1>6

LEMMA SignalIsCalm ==
  ASSUME Typed, NEW p \in Process, NEW g \in {"term", "kill"}, Signal(p, g),
         g = "kill" \/ proc[p].signal # "kill"
  PROVE  Calm
  <1>1. proc \in [Process -> ProcState] /\ proc[p] \in ProcState
    BY DEF Typed
  <1> DEFINE x == [proc[p] EXCEPT !.signal = g]
  <1>2. proc' = [proc EXCEPT ![p] = x]
    BY <1>1 DEF Signal
  <1>3. x.life = proc[p].life /\ x.signal = g
    BY <1>1 DEF ProcState
  <1> HIDE DEF x
  <1>4. proc'[p] = x /\ \A q \in Process \ {p} : proc'[q] = proc[q]
    BY <1>1, <1>2
  <1> QED
    BY <1>3, <1>4 DEF Calm, Active, Running

LEMMA TerminateImplements ==
  ASSUME ServiceInv, TerminateWorker \/ TerminateTimesOut
  PROVE  Implements
  <1> USE DEF ServiceInv, WorkerInv
  <1>1. /\ pc \in {"terminate", "terminating"}
        /\ UNCHANGED <<then, calls, starts, sent, served>>
    BY DEF TerminateWorker, TerminateTimesOut, history
  <1>2. ASSUME pc' \in {"terminating", "killing"}, Calm
        PROVE  Implements
    <2>1. UNCHANGED CallState
      BY <1>1, <1>2 DEF CallState, Preparing
    <2> QED
      BY <1>1, <1>2, <2>1, EndsOrStutters
  <1>3. CASE TerminateWorker
    <2>1. CASE worker # None /\ Running(worker)
      <3>1. pc' = "terminating" /\ Signal(worker, "term")
        BY <1>3, <2>1 DEF TerminateWorker
      <3>2. worker \in Process /\ proc[worker].signal # "kill"
        BY <2>1, WorkerIsProcess DEF WorkerIsNewest
      <3> QED
        BY <1>2, <3>1, <3>2, SignalIsCalm
    <2>2. CASE ~(worker # None /\ Running(worker))
      <3>1. pc = "terminate" /\ pc' = then /\ Drop
        BY <1>3, <2>2 DEF TerminateWorker
      <3> QED
        BY <1>1, <2>2, <3>1, DropReturns DEF Stopping
    <2> QED
      BY <2>1, <2>2
  <1>4. CASE TerminateTimesOut
    <2>1. pc = "terminating" /\ pc' = "killing" /\ Signal(victim, "kill")
      BY <1>4 DEF TerminateTimesOut, KillVictim
    <2>2. victim \in Process
      BY <2>1 DEF CountInv, Typed
    <2> QED
      BY <1>2, <2>1, <2>2, SignalIsCalm
  <1> QED
    BY <1>3, <1>4

LEMMA TerminatedImplements ==
  ASSUME ServiceInv, Terminated
  PROVE  Implements
  <1> USE DEF ServiceInv, WorkerInv
  <1>1. /\ pc \in {"terminating", "killing"} /\ ~Running(victim)
        /\ pc' = then
        /\ proc' = [proc EXCEPT ![victim] =
                      [@ EXCEPT !.out = <<>>, !.buffer = <<>>]]
        /\ UNCHANGED <<then, calls, worker, requests, starts, sent, served>>
    BY DEF Terminated, ClosePipes, history
  <1>2. worker = None /\ victim \in Process
    BY <1>1 DEF CountInv, Typed
  <1>3. SameButFor(victim) /\ SameLife(victim)
    BY <1>1, <1>2, PipesClosed
  <1>4. \A q \in Process : ~Active(q)
    BY <1>1, <1>2 DEF StrayInv, Active, Running, None, Process
  <1>5. \A q \in Process : ~Active(q)'
    BY <1>2, <1>3, <1>4 DEF Active, Running, SameButFor, SameLife
  <1>6. ~Alive /\ ~Alive'
    BY <1>4, <1>5 DEF Alive
  <1> QED
    BY <1>1, <1>6, ReturnsOk DEF Stopping

LEMMA StepImplements ==
  ASSUME ServiceInv, [Next]_vars
  PROVE  Implements
  <1>1. ASSUME NEW p \in Process, Worker(p)
        PROVE  Implements
    <2>1. UNCHANGED <<backend, history>> /\ Calm
      BY <1>1, WorkersAreCalm DEF ServiceInv
    <2>2. UNCHANGED <<CallState, calls, starts, sent, served>>
      BY <2>1 DEF backend, history, CallState, Preparing
    <2> QED
      BY <2>1, <2>2, EndsOrStutters
  <1>2. CASE UNCHANGED vars
    <2>1. UNCHANGED <<CallState, calls, starts, sent, served>> /\ Calm
      BY <1>2, UnchangedIsCalm DEF vars, CallState, Preparing
    <2> QED
      BY <2>1, EndsOrStutters
  <1> QED
    BY <1>1, <1>2, PureImplements, EnsureImplements, StartFailsImplements,
       SendImplements, ReadImplements, AcknowledgedImplements, StopImplements,
       TerminateImplements, TerminatedImplements
       DEF Next, Step, Pure

LEMMA InitImplements == Init => Service!Init
  <1> SUFFICES ASSUME Init
               PROVE  Service!Init
    OBVIOUS
  <1>1. CallState = "idle"
    BY DEF Init, CallState, Preparing
  <1>2. Alive = FALSE
    BY DEF Init, Alive, Active, Running, Unborn
  <1>3. Load = 0 /\ Replied = 0
    BY DEF Init, Load, Replied, Newest
  <1> QED
    BY <1>1, <1>2, <1>3 DEF Init, Service!Init

(***************************************************************************)
(* Every run of the command backend is a run of the abstract service: what *)
(* the pipes, waits, signals and leftover lines of command.py:212-440 add  *)
(* to it never shows as a second worker, a second submission of one call,  *)
(* a request to a worker that failed one, or a call that comes back while  *)
(* the worker that it failed with can still run.                           *)
(***************************************************************************)
THEOREM BackendImplementsService == Spec => ServesAsPromised
  <1>1. ServiceInv /\ [Next]_vars => [Service!Next]_(Service!serviceVars)
    BY StepImplements DEF Implements
  <1> QED
    BY <1>1, InitImplements, ServiceInvariance, PTL
       DEF Spec, ServesAsPromised, Service!Spec

=============================================================================
