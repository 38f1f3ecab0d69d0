------------------------ MODULE EvaluatorWorker ---------------------------
(***************************************************************************)
(* The command backend (src/src/kernel_optimization/backends/command.py)   *)
(* with a persistent evaluator process.  The controller's thread asks for  *)
(* one stage of one candidate at a time; search stages go to a warmed      *)
(* worker through its stdin, and the worker acknowledges each of them by a *)
(* line on its stdout; the final stage runs in a process of its own.       *)
(*                                                                         *)
(* The worker side is persistent_worker of src/examples/                   *)
(* tilesight_kernel_evaluator.py.  A worker can answer late or never, crash *)
(* while it evaluates a candidate, and write text of its own, whole lines  *)
(* or not, to the stdout it answers on.  The operating system keeps what is *)
(* written in a pipe; what Python has read of it is in a text buffer, where *)
(* select() cannot see it.                                                 *)
(*                                                                         *)
(* A process is the number of the start that made it, a request the number *)
(* of the call that sent it.  Candidates, artifact files, environment and  *)
(* metadata are left out; a deadline or the end of a wait may come at any  *)
(* time.  One thread makes every call, so _worker_lock is never contended. *)
(***************************************************************************)
EXTENDS Integers, Sequences, SequencesExt

CONSTANTS
  WorkerMaxRequests, \* worker_max_requests: the life of a worker
  MaxCalls,          \* bound: stage calls of the controller
  MaxChatter         \* bound: times a worker writes text of its own

ASSUME WorkerAssumption ==
  /\ WorkerMaxRequests \in Nat \ {0}
  /\ MaxCalls \in Nat \ {0}
  /\ MaxChatter \in Nat

None     == 0
Shutdown == 0   \* the message {"action": "shutdown"}, among request numbers

Process == 1..MaxCalls   \* a call starts at most one worker
Request == 1..MaxCalls

(***************************************************************************)
(* What a worker writes: acknowledgements, complete lines of its own, the  *)
(* unterminated beginning of a line, and text that completes one.          *)
(***************************************************************************)
Ack(r, s) == [kind |-> "ack", request |-> r, status |-> s]
Text(k)   == [kind |-> k, request |-> None, status |-> "none"]
Output    == [kind : {"ack", "line", "part", "rest"},
              request : Request \cup {None}, status : {"ok", "error", "none"}]

Unborn == [life |-> "unborn", signal |-> "none", stdin |-> <<>>, job |-> None,
           out |-> <<>>, buffer |-> <<>>, chatter |-> 0]

VARIABLES
  pc,        \* where the controller's thread is inside of CommandBackend
  then,      \* where it goes when the worker is stopped or terminated
  calls,     \* number of stage calls so far; the current request
  worker,    \* self._worker, by number; None if there is none
  requests,  \* self._worker_requests
  starts,    \* self._worker_starts
  victim,    \* the process that is waited for
  proc,      \* the processes and their pipes
  sent,      \* history: requests written to each process
  served     \* history: "ok" acknowledgements accepted from each process

backend == <<pc, then, calls, worker, requests, starts, victim>>
history == <<sent, served>>
vars    == <<pc, then, calls, worker, requests, starts, victim, proc, sent,
             served>>

Running(p) == proc[p].life = "running"

Init ==
  /\ pc = "idle" /\ then = "idle"
  /\ calls = 0 /\ worker = None /\ requests = 0 /\ starts = 0 /\ victim = None
  /\ proc = [p \in Process |-> Unborn]
  /\ sent = [p \in Process |-> 0]
  /\ served = [p \in Process |-> 0]

-----------------------------------------------------------------------------
(***************************************************************************)
(* Calls.  A search stage needs a worker; the final stage and close() stop *)
(* the one there is.                                                       *)
(***************************************************************************)
Bug_FinalBesideWorker(stage) == IF stage = "search" THEN "ensure" ELSE "final"
FirstStep(stage) == IF stage = "search" THEN "ensure" ELSE "stop"

Run(stage) ==
  /\ pc = "idle" /\ calls < MaxCalls
  /\ calls' = calls + 1
  /\ pc' = FirstStep(stage)
  /\ then' = IF stage = "search" THEN "idle" ELSE "final"
  /\ UNCHANGED <<worker, requests, starts, victim, proc, history>>

\* The controller closes the backend once, when its run ends.
Close ==
  /\ pc = "idle"
  /\ pc' = "stop" /\ then' = "closed"
  /\ UNCHANGED <<calls, worker, requests, starts, victim, proc, history>>

(***************************************************************************)
(* An exception out of stopping or terminating a worker ends the call, and *)
(* the controller swallows the one out of close().                         *)
(***************************************************************************)
Raised == IF then = "closed" THEN "closed" ELSE "idle"

(***************************************************************************)
(* _close_worker_pipes, of a process that has exited.                      *)
(***************************************************************************)
ClosePipes(p) ==
  proc' = [proc EXCEPT ![p] = [@ EXCEPT !.out = <<>>, !.buffer = <<>>]]

\* A worker that has exited, or none, is given up.
Drop ==
  /\ worker' = None /\ requests' = 0
  /\ IF worker = None THEN UNCHANGED proc ELSE ClosePipes(worker)

(***************************************************************************)
(* _ensure_worker: a worker at the bound is stopped first; one that is     *)
(* dead is replaced.                                                       *)
(***************************************************************************)
Bug_OneTooMany == requests > WorkerMaxRequests
AtRequestBound == requests >= WorkerMaxRequests

Recycle ==
  /\ pc = "ensure" /\ AtRequestBound
  /\ pc' = "stop" /\ then' = "reuse"
  /\ UNCHANGED <<calls, worker, requests, starts, victim, proc, history>>

EnsureWorker ==
  /\ pc = "reuse" \/ (pc = "ensure" /\ ~AtRequestBound)
  /\ pc' = "send"
  /\ IF worker # None /\ Running(worker)
     THEN UNCHANGED <<worker, requests, starts, proc>>
     ELSE /\ worker' = starts + 1
          /\ requests' = 0
          /\ starts' = starts + 1
          /\ proc' = [p \in Process |->
               CASE p = starts + 1 -> [Unborn EXCEPT !.life = "running"]
                 [] p = worker     -> [Unborn EXCEPT !.life = "exited"]
                 [] OTHER          -> proc[p]]
  /\ UNCHANGED <<then, calls, victim, history>>

\* The new worker cannot be started.
StartFails ==
  /\ pc = "reuse" \/ (pc = "ensure" /\ ~AtRequestBound)
  /\ ~(worker # None /\ Running(worker))
  /\ pc' = "idle" /\ Drop
  /\ UNCHANGED <<then, calls, starts, victim, history>>

-----------------------------------------------------------------------------
(***************************************************************************)
(* _run_persistent and _read_worker_response.  Every exception terminates  *)
(* the worker and fails the call.                                          *)
(***************************************************************************)
Fail == pc' = "terminate" /\ then' = "idle"

Send ==
  /\ pc = "send"
  /\ IF Running(worker)
     THEN /\ proc' = [proc EXCEPT ![worker].stdin = Append(@, calls)]
          /\ requests' = requests + 1
          /\ sent' = [sent EXCEPT ![worker] = @ + 1]
          /\ pc' = "select"
          /\ UNCHANGED then
     ELSE Fail /\ UNCHANGED <<proc, requests, sent>>   \* broken pipe
  /\ UNCHANGED <<calls, worker, starts, victim, served>>

\* select() reports output in the pipe, or its end.
Select ==
  /\ pc = "select"
  /\ proc[worker].out # <<>> \/ ~Running(worker)
  /\ pc' = "readline"
  /\ UNCHANGED <<then, calls, worker, requests, starts, victim, proc, history>>

\* The deadline passes at the top of the loop or inside of select().
Bug_TimeoutKeepsWorker == pc' = "idle" /\ UNCHANGED then
Bug_NeverTimesOut == FALSE /\ UNCHANGED <<pc, then>>
OutOfTime == Fail

TimeOut ==
  /\ pc = "select"
  /\ OutOfTime
  /\ UNCHANGED <<calls, worker, requests, starts, victim, proc, history>>

(***************************************************************************)
(* readline(): the text buffer up to its first line end, filled with all   *)
(* that is in the pipe when it holds none.  It blocks without a deadline.  *)
(***************************************************************************)
LineLength(text) ==
  IF text = <<>> THEN 0
  ELSE IF Head(text).kind # "part" THEN 1
  ELSE IF Len(text) > 1 THEN 2 ELSE 0

Buffered == proc[worker].buffer

FillBuffer ==
  /\ pc = "readline" /\ LineLength(Buffered) = 0
  /\ proc[worker].out # <<>>
  /\ proc' = [proc EXCEPT ![worker] =
                [proc[worker] EXCEPT !.buffer = @ \o proc[worker].out,
                                     !.out = <<>>]]
  /\ UNCHANGED <<backend, history>>

ConsumeLine ==
  proc' = [proc EXCEPT ![worker].buffer =
             SubSeq(@, LineLength(@) + 1, Len(@))]

\* Text of the worker, or an answer to another request: read on.
SkipLine ==
  /\ pc = "readline" /\ LineLength(Buffered) > 0
  /\ Head(Buffered).kind = "ack" => Head(Buffered).request # calls
  /\ ConsumeLine
  /\ pc' = "select"
  /\ UNCHANGED <<then, calls, worker, requests, starts, victim, history>>

(***************************************************************************)
(* An "ok" answer ends the call, with the response file or an error if it  *)
(* is not there or not an object; an error answer costs the worker.        *)
(***************************************************************************)
Bug_ErrorKeepsWorker(status) == pc' = "idle" /\ UNCHANGED then
Accept(status) ==
  IF status = "ok" THEN pc' = "idle" /\ UNCHANGED then ELSE Fail

Acknowledged ==
  /\ pc = "readline" /\ LineLength(Buffered) > 0
  /\ Head(Buffered).kind = "ack" /\ Head(Buffered).request = calls
  /\ ConsumeLine
  /\ Accept(Head(Buffered).status)
  /\ served' = [served EXCEPT ![worker] =
                  IF Head(Buffered).status = "ok" THEN @ + 1 ELSE @]
  /\ UNCHANGED <<calls, worker, requests, starts, victim, sent>>

\* The end of the pipe: text without a line end is returned first.
WorkerExited ==
  /\ pc = "readline" /\ LineLength(Buffered) = 0
  /\ proc[worker].out = <<>> /\ ~Running(worker)
  /\ IF Buffered = <<>>
     THEN Fail /\ UNCHANGED proc
     ELSE /\ proc' = [proc EXCEPT ![worker].buffer = <<>>]
          /\ pc' = "select" /\ UNCHANGED then
  /\ UNCHANGED <<calls, worker, requests, starts, victim, history>>

-----------------------------------------------------------------------------
(***************************************************************************)
(* _stop_worker: ask for a shutdown and wait five seconds.  The worker may *)
(* die between poll() and the write, which then breaks the pipe, as does   *)
(* the flush of closing it: that exception ends the call.                  *)
(***************************************************************************)
StopWorker ==
  /\ pc = "stop"
  /\ IF worker # None /\ Running(worker)
     THEN pc' = "shutdown" /\ UNCHANGED <<worker, requests, proc>>
     ELSE pc' = then /\ Drop
  /\ UNCHANGED <<then, calls, starts, victim, history>>

SendShutdown ==
  /\ pc = "shutdown"
  /\ IF Running(worker)
     THEN /\ proc' = [proc EXCEPT ![worker].stdin = Append(@, Shutdown)]
          /\ pc' = "stopping"
          /\ UNCHANGED <<worker, requests>>
     ELSE pc' = Raised /\ Drop
  /\ UNCHANGED <<then, calls, starts, victim, history>>

Stopped ==
  /\ pc = "stopping" /\ ~Running(worker)
  /\ pc' = then /\ Drop
  /\ UNCHANGED <<then, calls, starts, victim, history>>

StopTimesOut ==
  /\ pc = "stopping"
  /\ pc' = "terminate"
  /\ UNCHANGED <<then, calls, worker, requests, starts, victim, proc, history>>

(***************************************************************************)
(* _terminate_worker: the worker is given up first, then told to terminate *)
(* and killed if it has not within two seconds.  If it has not died of     *)
(* that after two seconds more, the exception ends the call.               *)
(***************************************************************************)
Signal(p, s) == proc' = [proc EXCEPT ![p].signal = s]

TerminateWorker ==
  /\ pc = "terminate"
  /\ IF worker # None /\ Running(worker)
     THEN /\ worker' = None /\ requests' = 0
          /\ victim' = worker
          /\ Signal(worker, "term")
          /\ pc' = "terminating"
     ELSE Drop /\ pc' = then /\ UNCHANGED victim
  /\ UNCHANGED <<then, calls, starts, history>>

Terminated ==
  /\ pc \in {"terminating", "killing"} /\ ~Running(victim)
  /\ ClosePipes(victim) /\ victim' = None
  /\ pc' = then
  /\ UNCHANGED <<then, calls, worker, requests, starts, history>>

KillVictim == pc' = "killing" /\ Signal(victim, "kill")

TerminateTimesOut ==
  /\ pc = "terminating" /\ Running(victim)
  /\ KillVictim
  /\ UNCHANGED <<then, calls, worker, requests, starts, victim, history>>

KillTimesOut ==
  /\ pc = "killing" /\ Running(victim)
  /\ pc' = Raised /\ victim' = None
  /\ UNCHANGED <<then, calls, worker, requests, starts, proc, history>>

\* The one-shot final stage completes, fails or times out.
FinalEnds ==
  /\ pc = "final"
  /\ pc' = "idle"
  /\ UNCHANGED <<then, calls, worker, requests, starts, victim, proc, history>>

-----------------------------------------------------------------------------
(***************************************************************************)
(* A worker.  It serves its stdin in order, one message at a time, and     *)
(* while it serves one its output goes to that request's log.              *)
(***************************************************************************)
Active(p) == Running(p) /\ proc[p].signal # "kill"

MidLine(p) ==
  /\ proc[p].out \o proc[p].buffer # <<>>
  /\ LET text == proc[p].buffer \o proc[p].out
     IN text[Len(text)].kind = "part"

\* What reaches the reader when the worker writes a complete line.
Line(p, text) == IF MidLine(p) THEN Text("rest") ELSE text

\* The system forgets all of a process that exits but its unread output.
Exited(p) == [Unborn EXCEPT !.life = "exited", !.out = proc[p].out,
                            !.buffer = proc[p].buffer]

Serve(p) ==
  /\ Active(p) /\ proc[p].job = None /\ proc[p].stdin # <<>>
  /\ proc' = [proc EXCEPT ![p] =
       IF Head(proc[p].stdin) = Shutdown THEN Exited(p)
       ELSE [proc[p] EXCEPT !.job = Head(proc[p].stdin), !.stdin = Tail(@)]]
  /\ UNCHANGED <<backend, history>>

Answer(p, status) ==
  /\ Active(p) /\ proc[p].job # None
  /\ proc' = [proc EXCEPT ![p] =
       [proc[p] EXCEPT !.out = Append(@, Line(p, Ack(proc[p].job, status))),
                       !.job = None]]
  /\ UNCHANGED <<backend, history>>

\* Imports and late flushes write outside of any request.
Chatter(p, kind) ==
  /\ Active(p) /\ proc[p].job = None
  /\ proc[p].chatter < MaxChatter
  /\ kind = "part" => ~MidLine(p)
  /\ proc' = [proc EXCEPT ![p] =
       [proc[p] EXCEPT !.out = Append(@, Line(p, Text(kind))),
                       !.chatter = @ + 1]]
  /\ UNCHANGED <<backend, history>>

\* A candidate crashes its evaluator, or a signal takes effect.
Die(p) ==
  /\ Running(p)
  /\ proc' = [proc EXCEPT ![p] = Exited(p)]
  /\ UNCHANGED <<backend, history>>

-----------------------------------------------------------------------------
(***************************************************************************)
(* Every step of the thread inside of a call.                              *)
(***************************************************************************)
Step ==
  \/ Recycle \/ EnsureWorker \/ StartFails
  \/ Send \/ Select \/ TimeOut \/ FillBuffer \/ SkipLine \/ Acknowledged
  \/ WorkerExited
  \/ StopWorker \/ SendShutdown \/ Stopped \/ StopTimesOut
  \/ TerminateWorker \/ Terminated \/ TerminateTimesOut \/ KillTimesOut
  \/ FinalEnds

Worker(p) ==
  \/ Serve(p)
  \/ \E status \in {"ok", "error"} : Answer(p, status)
  \/ \E kind \in {"line", "part"} : Chatter(p, kind)
  \/ Die(p)

Next ==
  \/ \E stage \in {"search", "final"} : Run(stage)
  \/ Close
  \/ Step
  \/ \E p \in Process : Worker(p)

(***************************************************************************)
(* The controller's thread runs and time passes, so a step it can take is  *)
(* taken.  Nothing is assumed of the workers, nor that a call is made.     *)
(***************************************************************************)
Fairness == WF_vars(Step)

Spec == Init /\ [][Next]_vars /\ Fairness

-----------------------------------------------------------------------------
(* Properties                                                              *)

TypeOK ==
  /\ pc \in {"idle", "ensure", "reuse", "send", "select", "readline", "stop",
             "shutdown", "stopping", "terminate", "terminating", "killing",
             "final", "closed"}
  /\ then \in {"idle", "reuse", "final", "closed"}
  /\ {calls, starts} \subseteq 0..MaxCalls
  /\ requests \in 0..WorkerMaxRequests
  /\ {worker, victim} \subseteq Process \cup {None}
  /\ proc \in [Process ->
       [life : {"unborn", "running", "exited"},
        signal : {"none", "term", "kill"},
        stdin : Seq(Request \cup {Shutdown}), job : Request \cup {None},
        out : Seq(Output), buffer : Seq(Output), chatter : 0..MaxChatter]]
  /\ sent \in [Process -> Nat]
  /\ served \in [Process -> Nat]

(***************************************************************************)
(* A worker is not sent another request after a failed one: it has been    *)
(* answered with "ok" for all it was sent but the last (command.py:315-318 *)
(* and the handler of every exception in _run_persistent).  And when a     *)
(* request is about to be sent, nothing of an earlier one is left in the   *)
(* worker or on the way from it, so that neither a late evaluation nor a   *)
(* late answer can meet the new one.                                       *)
(***************************************************************************)
FailedWorkerGone == \A p \in Process : sent[p] <= served[p] + 1

WorkerIsQuiet ==
  /\ FailedWorkerGone
  /\ pc = "send" =>
       /\ proc[worker].stdin = <<>> /\ proc[worker].job = None
       /\ \A text \in ToSet(proc[worker].out \o proc[worker].buffer) :
            text.kind # "ack"

\* No process outlives its worker_max_requests, however requests ended.
RequestBudget == \A p \in Process : sent[p] <= WorkerMaxRequests

(***************************************************************************)
(* While no worker is being stopped, a process that has not been killed is *)
(* the one the backend knows: none is left behind with GPU memory.  The    *)
(* final stage runs with no search worker beside it (command.py:150-152)   *)
(* and close() leaves none: what has not exited has been killed.           *)
(***************************************************************************)
FinalIsolated == pc \in {"final", "closed"} => \A p \in Process : ~Active(p)

NoStrayWorker ==
  /\ FinalIsolated
  /\ pc \in {"idle", "send", "select", "readline"} =>
       \A p \in Process : Active(p) => p = worker

(***************************************************************************)
(* A stage call ends whatever the worker does, within the deadline and the *)
(* waits.  The one exception is a readline() on text that the worker never *)
(* ends, which has no deadline.                                            *)
(***************************************************************************)
BlockedMidLine ==
  /\ pc = "readline" /\ LineLength(Buffered) = 0
  /\ proc[worker].out = <<>> /\ Buffered # <<>> /\ Running(worker)

CallsEnd == []<>(pc \in {"idle", "closed"}) \/ <>[]BlockedMidLine

-----------------------------------------------------------------------------
(* The abstract service *)

(***************************************************************************)
(* How far the call is that the controller waits for.  A call that has     *)
(* failed goes on to be a failing one until its worker is terminated.      *)
(***************************************************************************)
Preparing == \/ pc \in {"ensure", "reuse", "send"}
             \/ pc \notin {"idle", "select", "readline", "final", "closed"}
                  /\ then = "reuse"

CallState ==
  CASE pc \in {"idle", "final", "closed"} -> pc
    [] pc \in {"select", "readline"}      -> "submitted"
    [] Preparing                          -> "search"
    [] OTHER -> IF then = "final" THEN "isolating"
                ELSE IF then = "closed" THEN "closing" ELSE "failing"

Alive == \E p \in Process : Active(p)

Newest(count) == IF starts = 0 THEN 0 ELSE count[starts]
Load    == Newest(sent)
Replied == Newest(served)

Service == INSTANCE EvaluatorService WITH
  MaxRequests <- WorkerMaxRequests,
  call <- CallState,
  incarnation <- starts,
  alive <- Alive,
  load <- Load,
  answered <- Replied

(***************************************************************************)
(* The backend, with its pipes, waits, signals and leftover text, does     *)
(* nothing that the abstract service does not allow: no retry inside of a  *)
(* call, no call to a worker that failed one, no failed call that comes    *)
(* back while its worker could still occupy the GPU, no second worker.     *)
(***************************************************************************)
ServesAsPromised == Service!Spec
=============================================================================
