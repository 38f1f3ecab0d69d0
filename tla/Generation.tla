---------------------------- MODULE Generation ----------------------------
(***************************************************************************)
(* Calls to the hosted model: the API client (src/src/kernel_optimization/ *)
(* generators/api.py), the pool of agents that share one generation call   *)
(* (generators/parallel.py), and what the controller makes of a call: its  *)
(* counters and the strategy slots it binds the answers to.                *)
(*                                                                         *)
(* An agent is a thread with a client of its own; agents run concurrently, *)
(* and share nothing until their results are merged.  The provider may     *)
(* answer, refuse, fail transiently, or fail in a way that the client does *)
(* not classify, such as a connection that breaks or times out while the   *)
(* response is awaited, or a body that is not JSON.                        *)
(*                                                                         *)
(* Prompts, sources and exchanges are left out; a proposal is the slot it  *)
(* names.  Slots are numbered in the order of the round's plan.  The usage *)
(* of an answer is one unit.  Delays of a retry take any time.             *)
(***************************************************************************)
EXTENDS Integers, Sequences, FiniteSets, SequencesExt, FiniteSetsExt

CONSTANTS
  AgentWorkers, \* --agent-workers
  MaxRetries,   \* max_retries
  MaxCount,     \* bound: slots of a generation call
  MaxCalls      \* bound: calls of the controller

ASSUME GenerationAssumption ==
  /\ AgentWorkers \in Nat \ {0} /\ MaxRetries \in Nat
  /\ MaxCount \in Nat \ {0} /\ MaxCalls \in Nat

Kinds == {"plan", "generate", "repair"}

NoSlot == 0
Slot   == 1..MaxCount

Primary == 0                   \* the client of every serial call
Client  == 0..AgentWorkers     \* and one for each agent

(***************************************************************************)
(* last_call_metadata: the attempts and the usage of a call; {} before the *)
(* first one.                                                              *)
(***************************************************************************)
NoMeta == [attempts |-> -1, usage |-> 0]
Attempts(meta, default) == IF meta = NoMeta THEN default ELSE meta.attempts

Fresh == [at |-> "off", tries |-> 0, recovering |-> FALSE, first |-> NoMeta,
          meta |-> NoMeta, out |-> <<>>]

VARIABLES
  pc,       \* "idle", "calling", or "stopped": the process has ended
  calls,    \* number of calls of the controller
  call,     \* the present call: its kind and how many candidates it asks for
  active,   \* the clients it runs on
  client,   \* state of each client
  counted,  \* api_request_attempts and generator_usage, also persisted
  bound,    \* the proposals of the last generation and their slots
  made,     \* history: requests sent to the provider
  billed,   \* history: usage of the answers of the provider
  sent,     \* history: requests of each client in the present call
  raised    \* history: the transport has raised an unclassified exception

vars == <<pc, calls, call, active, client, counted, bound, made, billed, sent,
          raised>>

(***************************************************************************)
(* Between calls there is the primary client with its metadata.  In a new  *)
(* process they are those of the preflight, which can be skipped and may   *)
(* be retried.  A process whose preflight fails ends at once: it has no    *)
(* controller, and nothing counts its requests.                            *)
(***************************************************************************)
Preflights == {NoMeta} \cup [attempts : 1..MaxRetries + 1, usage : {1}]
Resting(meta) ==
  [c \in Client |-> IF c = Primary THEN [Fresh EXCEPT !.meta = meta] ELSE Fresh]

Init ==
  /\ pc = "idle" /\ calls = 0 /\ call = [kind |-> "plan", count |-> 1]
  /\ active = {} /\ bound = <<>> /\ raised = FALSE
  /\ sent = [c \in Client |-> 0]
  /\ \E preflight \in Preflights :
       /\ client = Resting(preflight)
       /\ counted = [attempts |-> Attempts(preflight, 0),
                     usage |-> preflight.usage]
       /\ made = counted.attempts /\ billed = counted.usage

-----------------------------------------------------------------------------
(***************************************************************************)
(* _balanced_partitions: the slots of an agent are those after its start.  *)
(***************************************************************************)
Share(total, parts, i) ==
  total \div parts + (IF i <= total % parts THEN 1 ELSE 0)

Start(total, parts) ==
  LET start[i \in 1..parts] ==
        IF i = 1 THEN 0 ELSE start[i - 1] + Share(total, parts, i - 1)
  IN start

\* The slots that a client is asked for in the present call.
SlotsOf(c) ==
  IF c = Primary THEN 1..call.count
  ELSE LET parts == Cardinality(active)
           start == Start(call.count, parts)[c]
       IN start + 1 .. start + Share(call.count, parts, c)

Asked(state) == [state EXCEPT !.at = "prompt"]

(***************************************************************************)
(* Planning, repairs and a call for one agent use the primary client, with *)
(* the metadata it has from its last call.  The agents of a parallel call  *)
(* get new clients.                                                        *)
(***************************************************************************)
Workers(count) ==
  LET agents == Min({AgentWorkers, count})
  IN IF agents = 1 THEN {Primary} ELSE 1..agents

Call(kind, count) ==
  /\ pc = "idle" /\ calls < MaxCalls
  /\ kind # "generate" => count = 1
  /\ pc' = "calling" /\ calls' = calls + 1
  /\ call' = [kind |-> kind, count |-> count]
  /\ active' = Workers(count)
  /\ client' = [c \in Client |->
       IF c \in active' THEN Asked(client[c]) ELSE client[c]]
  /\ sent' = [c \in Client |-> 0]
  /\ bound' = <<>>
  /\ UNCHANGED <<counted, made, billed, raised>>

-----------------------------------------------------------------------------
(***************************************************************************)
(* A client.  A request whose prompt exceeds the local budget is not sent. *)
(***************************************************************************)
Send(c) ==
  /\ client[c].at \in {"prompt", "sleep"}
  /\ client' = [client EXCEPT ![c] =
       [client[c] EXCEPT !.at = "wait", !.tries = client[c].tries + 1]]
  /\ made' = made + 1 /\ sent' = [sent EXCEPT ![c] = @ + 1]
  /\ UNCHANGED <<pc, calls, call, active, counted, bound, billed, raised>>

(***************************************************************************)
(* _merge_schema_attempts: the metadata of a call with a recovery request  *)
(* is that of its first answer and what the client has then.               *)
(***************************************************************************)
Bug_Merged(c, meta) == meta
Merged(c, meta) ==
  LET first == client[c].first
  IN IF client[c].recovering
     THEN [attempts |-> first.attempts + Attempts(meta, 0),
           usage    |-> first.usage + meta.usage]
     ELSE meta

End(c, at, meta, out) ==
  client' = [client EXCEPT ![c] =
    [client[c] EXCEPT !.at = at, !.meta = Merged(c, meta), !.out = out]]

Quiet == UNCHANGED <<pc, calls, call, active, counted, bound, made, sent>>

TooLarge(c) ==
  /\ client[c].at = "prompt"
  /\ End(c, "failed", [attempts |-> 0, usage |-> 0], <<>>)
  /\ Quiet /\ UNCHANGED <<billed, raised>>

\* A provider error has the attempts, and no usage.
Errored(c) == [attempts |-> client[c].tries, usage |-> 0]

Bug_OneMoreRetry(c) == client[c].tries > MaxRetries + 1
Bug_RetriesForever(c) == FALSE
Exhausted(c) == client[c].tries > MaxRetries

TransientError(c) ==
  /\ client[c].at = "wait"
  /\ IF Exhausted(c)
     THEN End(c, "failed", Errored(c), <<>>)
     ELSE client' = [client EXCEPT ![c] =
            [client[c] EXCEPT !.at = "sleep", !.meta = Errored(c)]]
  /\ Quiet /\ UNCHANGED <<billed, raised>>

PermanentError(c) ==
  /\ client[c].at = "wait"
  /\ End(c, "failed", Errored(c), <<>>)
  /\ Quiet /\ UNCHANGED <<billed, raised>>

\* Any other exception passes through the client, which records nothing.
Raises(c) ==
  /\ client[c].at = "wait"
  /\ End(c, "failed", client[c].meta, <<>>)
  /\ raised' = TRUE
  /\ Quiet /\ UNCHANGED billed

(***************************************************************************)
(* An answer has usage whether or not it is of use.  One without content,  *)
(* without JSON or without a plan fails the call.  One without a complete  *)
(* source file is followed by one recovery request for one candidate.      *)
(***************************************************************************)
Answered(c) == [attempts |-> client[c].tries, usage |-> 1]

Unusable(c) ==
  /\ client[c].at = "wait"
  /\ End(c, "failed", Answered(c), <<>>)
  /\ billed' = billed + 1
  /\ Quiet /\ UNCHANGED raised

Proposed(c, out) ==
  /\ client[c].at = "wait"
  /\ IF out # <<>>
     THEN End(c, "done", Answered(c), out)
     ELSE IF client[c].recovering
     THEN End(c, "failed", Answered(c), <<>>)
     ELSE client' = [client EXCEPT ![c] =
            [client[c] EXCEPT !.at = "prompt", !.tries = 0,
                              !.recovering = TRUE, !.meta = Answered(c),
                              !.first = Answered(c)]]
  /\ billed' = billed + 1
  /\ Quiet /\ UNCHANGED raised

(***************************************************************************)
(* The proposals a client accepts: at most as many as it asked for.  A     *)
(* proposal may name any slot of the call, or none.                        *)
(***************************************************************************)
Answers(c) ==
  LET most == IF client[c].recovering THEN 1 ELSE Cardinality(SlotsOf(c))
  IN CASE call.kind = "plan"   -> {<<NoSlot>>}
       [] call.kind = "repair" -> {<<>>, <<NoSlot>>}
       [] OTHER -> BoundedSeq(1..call.count \cup {NoSlot}, most)

-----------------------------------------------------------------------------
(***************************************************************************)
(* bind_strategy_assignments: a proposal gets the slot it names if that is *)
(* free, and the first free one otherwise.                                 *)
(***************************************************************************)
Bug_Chosen(free, p) == Min(free)
Chosen(free, p) == IF p.names \in free THEN p.names ELSE Min(free)

Taken(free, slot) == free \ {slot}

Place(acc, p) ==
  IF acc.free = {} THEN acc
  ELSE LET slot == Chosen(acc.free, p)
       IN [free  |-> Taken(acc.free, slot),
           bound |-> Append(acc.bound, [p EXCEPT !.slot = slot])]

Bind(proposals, slots) ==
  LET after[i \in 0..Len(proposals)] ==
        IF i = 0 THEN [free |-> slots, bound |-> <<>>]
        ELSE Place(after[i - 1], proposals[i])
  IN after[Len(proposals)].bound

(***************************************************************************)
(* The results of the agents that did not fail, in the order of the agents *)
(***************************************************************************)
Proposal == [by : Client, names : Slot \cup {NoSlot}, slot : Slot \cup {NoSlot}]

Agents   == Cardinality(active)
Agent(i) == IF active = {Primary} THEN Primary ELSE i

Proposals(c) ==
  [i \in 1..Len(client[c].out) |->
     [by |-> c, names |-> client[c].out[i], slot |-> NoSlot]]

Merge == FlattenSeq([i \in 1..Agents |-> Proposals(Agent(i))])

(***************************************************************************)
(* The call returns when every agent has.  The controller counts what the  *)
(* generator's metadata says, whether the call has failed or not; without  *)
(* attempts it counts one.  Only a failed generation ends the process.     *)
(***************************************************************************)
Bug_Returned(c) == client[c].at = "done"
Returned(c) == client[c].at \in {"done", "failed"}

AttemptsOf(c) ==
  Attempts(client[c].meta, IF active = {Primary} THEN 1 ELSE 0)

UsageOf(c) == client[c].meta.usage

Sum(numbers) ==
  LET sum[i \in 0..Len(numbers)] ==
        IF i = 0 THEN 0 ELSE sum[i - 1] + numbers[i]
  IN sum[Len(numbers)]

Total(of) == Sum([i \in 1..Agents |-> of[Agent(i)]])

Return ==
  /\ pc = "calling"
  /\ \A c \in active : Returned(c)
  /\ counted' = [attempts |-> counted.attempts + Total([c \in Client |-> AttemptsOf(c)]),
                 usage    |-> counted.usage + Total([c \in Client |-> UsageOf(c)])]
  /\ bound' = IF call.kind = "generate" THEN Bind(Merge, 1..call.count)
              ELSE <<>>
  /\ pc' = IF call.kind = "generate"
               /\ \A c \in active : client[c].at = "failed"
           THEN "stopped" ELSE "idle"
  /\ client' = Resting(client[Primary].meta)
  /\ UNCHANGED <<calls, call, active, made, billed, sent, raised>>

(***************************************************************************)
(* A stopped run is resumed: the counters are restored, and those of a new *)
(* preflight added.                                                        *)
(***************************************************************************)
Resume ==
  /\ pc = "stopped"
  /\ pc' = "idle"
  /\ \E preflight \in Preflights :
       /\ client' = Resting(preflight)
       /\ counted' = [attempts |-> counted.attempts + Attempts(preflight, 0),
                      usage    |-> counted.usage + preflight.usage]
       /\ made' = made + Attempts(preflight, 0)
       /\ billed' = billed + preflight.usage
  /\ UNCHANGED <<calls, call, active, bound, sent, raised>>

-----------------------------------------------------------------------------
Step(c) ==
  /\ c \in active
  /\ \/ Send(c) \/ TooLarge(c)
     \/ TransientError(c) \/ PermanentError(c) \/ Raises(c) \/ Unusable(c)
     \/ \E out \in Answers(c) : Proposed(c, out)

Next ==
  \/ \E kind \in Kinds, count \in Slot :
       Call(kind, count)
  \/ \E c \in Client : Step(c)
  \/ Return
  \/ Resume

(***************************************************************************)
(* Threads run, and a request ends because it has a timeout.               *)
(***************************************************************************)
Fairness == WF_vars(Return) /\ \A c \in Client : WF_vars(Step(c))

Spec == Init /\ [][Next]_vars /\ Fairness

-----------------------------------------------------------------------------
(* Properties                                                              *)

Meta == {NoMeta} \cup [attempts : Nat, usage : Nat]
State ==
  [at : {"off", "prompt", "wait", "sleep", "done", "failed"},
   tries : 0..MaxRetries + 1, recovering : BOOLEAN,
   first : Meta, meta : Meta, out : Seq(Slot \cup {NoSlot})]

TypeOK ==
  /\ pc \in {"idle", "calling", "stopped"}
  /\ calls \in 0..MaxCalls
  /\ call \in [kind : Kinds, count : Slot]
  /\ active \subseteq Client
  /\ client \in [Client -> State]
  /\ counted \in [attempts : Nat, usage : Nat]
  /\ bound \in Seq(Proposal)
  /\ made \in Nat /\ billed \in Nat
  /\ sent \in [Client -> Nat]
  /\ raised \in BOOLEAN

(***************************************************************************)
(* However answers and errors alternate, a call makes at most twice        *)
(* max_retries + 1 requests on each client: the retries of the request and *)
(* those of one recovery.                                                  *)
(***************************************************************************)
RequestsBounded == \A c \in Client : sent[c] <= 2 * (MaxRetries + 1)

(***************************************************************************)
(* As long as every failure of the transport is one that the client        *)
(* classifies, the controller counts every request and all usage, over     *)
(* retries, recoveries, failed agents, failed calls and resumes.           *)
(***************************************************************************)
AttemptsCounted ==
  pc # "calling" /\ ~raised =>
    counted.attempts = made /\ counted.usage = billed

(***************************************************************************)
(* Two proposals never get the same slot, however agents name slots twice, *)
(* name none or fail; and a proposal gets a slot that its own agent was    *)
(* asked for if all proposals name different slots that their agents were  *)
(* asked for, or if no agent failed or fell short and none names a slot.   *)
(***************************************************************************)
InOwnSlot(p) == p.slot \in SlotsOf(p.by)

AllNamed ==
  /\ \A i \in DOMAIN bound : bound[i].names \in SlotsOf(bound[i].by)
  /\ \A i, j \in DOMAIN bound : bound[i].names = bound[j].names => i = j

AllComplete ==
  /\ \A i \in DOMAIN bound : bound[i].names = NoSlot
  /\ Len(bound) = call.count

UniformBinding ==
  /\ \A i, j \in DOMAIN bound : bound[i].slot = bound[j].slot => i = j
  /\ AllNamed \/ AllComplete => \A i \in DOMAIN bound : InOwnSlot(bound[i])

(***************************************************************************)
(* "Bind model responses to requested slots" (structural_search.py:955):   *)
(* proposals that name no slot, or one their agent was asked for, get a    *)
(* slot that their agent was asked for.                                    *)
(***************************************************************************)
BoundToRequested ==
  (\A i \in DOMAIN bound :
     bound[i].names \in SlotsOf(bound[i].by) \cup {NoSlot})
  => \A i \in DOMAIN bound : InOwnSlot(bound[i])

(***************************************************************************)
(* Every call returns: retries and recoveries end.                         *)
(***************************************************************************)
CallsReturn == pc = "calling" ~> pc # "calling"
=============================================================================
