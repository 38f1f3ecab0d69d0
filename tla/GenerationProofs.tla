-------------------------- MODULE GenerationProofs --------------------------
(***************************************************************************)
(* The bound on the requests of a call, the counters, and the binding of   *)
(* proposals to slots, for any number of agents, retries, slots and calls. *)
(*                                                                         *)
(* None of the three is inductive.  RequestInv says where the requests of  *)
(* a client come from: those of the present attempt loop (tries) and, in a *)
(* recovery, those of the loop before it; and when a loop goes on.         *)
(* CountInv adds what the metadata of a client says of them at each place, *)
(* and that sums over the agents are what was sent since the call began.   *)
(* Binding is a fold: its invariant is carried along the proposals by      *)
(* induction over the natural numbers (Recursion).                         *)
(***************************************************************************)
EXTENDS Generation, Recursion, FiniteSetTheorems, SequenceTheorems, TLAPS

\* What the bound needs of the types.
Typed ==
  /\ call \in [kind : Kinds, count : Slot]
  /\ active \subseteq Client
  /\ client \in [Client -> State]
  /\ sent \in [Client -> Nat]

\* A loop starts with no attempt and goes on while one is left.
LoopInv ==
  \A c \in Client :
    /\ client[c].at = "prompt" => client[c].tries = 0
    /\ client[c].at = "sleep" => client[c].tries <= MaxRetries
    /\ client[c].recovering => client[c].first # NoMeta

\* What has been sent, by the loops that sent it.
SentInv ==
  \A c \in Client :
    sent[c] <= client[c].tries
               + (IF client[c].recovering THEN MaxRetries + 1 ELSE 0)

\* Between calls the clients are as new, up to their metadata.
AtRest(c) ==
  /\ client[c].at = "off" /\ client[c].tries = 0
  /\ ~client[c].recovering

RequestInv ==
  /\ Typed /\ LoopInv /\ RequestsBounded
  /\ pc = "calling" => SentInv
  /\ pc # "calling" => \A c \in Client : AtRest(c)

LEMMA Bounds ==
  /\ MaxRetries \in Nat /\ AgentWorkers \in Nat /\ AgentWorkers > 0
  /\ Primary \in Client
  /\ Attempts(NoMeta, 0) = 0
  BY GenerationAssumption DEF Primary, Client, Attempts

(* New or reset clients, whatever metadata the primary one has.            *)
LEMMA RestingType ==
  ASSUME NEW m \in Meta
  PROVE  /\ Resting(m) \in [Client -> State]
         /\ \A c \in Client :
              /\ Resting(m)[c].at = "off" /\ Resting(m)[c].tries = 0
              /\ ~Resting(m)[c].recovering
  <1>1. NoMeta \in Meta
    BY DEF Meta
  <1>2. Fresh \in State
    BY <1>1, Bounds DEF Fresh, State
  <1>3. [Fresh EXCEPT !.meta = m] \in State
    BY <1>2 DEF State
  <1> QED
    BY <1>2, <1>3 DEF Resting, Fresh

LEMMA PreflightType == Preflights \subseteq Meta
  BY Bounds DEF Preflights, Meta

(* A step of one client in a call keeps the invariant if it keeps the      *)
(* parts of it that speak of that client.                                  *)
LEMMA ClientStep ==
  ASSUME RequestInv, pc = "calling", NEW c \in Client, NEW s \in State,
         client' = [client EXCEPT ![c] = s],
         sent' \in [Client -> Nat],
         \A d \in Client \ {c} : sent'[d] = sent[d],
         sent'[c] <= s.tries + (IF s.recovering THEN MaxRetries + 1 ELSE 0),
         s.at = "prompt" => s.tries = 0,
         s.at = "sleep" => s.tries <= MaxRetries,
         s.recovering => s.first # NoMeta,
         UNCHANGED <<pc, call, active>>
  PROVE  RequestInv'
  <1>1. Typed'
    BY DEF RequestInv, Typed
  <1>2. /\ client'[c] = s
        /\ \A d \in Client \ {c} : client'[d] = client[d]
    BY DEF RequestInv, Typed
  <1>3. LoopInv'
    BY <1>2 DEF RequestInv, LoopInv
  <1>4. SentInv'
    BY <1>2 DEF RequestInv, SentInv
  <1>5. s.tries \in Nat /\ s.tries <= MaxRetries + 1 /\ sent'[c] \in Nat
    BY Bounds DEF State
  <1>6. sent'[c] <= 2 * (MaxRetries + 1)
    <2>1. sent'[c] <= s.tries + (MaxRetries + 1)
      BY <1>5, Bounds
    <2> QED
      BY <2>1, <1>5, Bounds
  <1>7. RequestsBounded'
    BY <1>6 DEF RequestInv, RequestsBounded
  <1> QED
    BY <1>1, <1>3, <1>4, <1>7 DEF RequestInv

(* A client that acts does so in a call.                                   *)
LEMMA ActsInCall ==
  ASSUME RequestInv, NEW c \in Client, client[c].at # "off"
  PROVE  pc = "calling"
  BY DEF RequestInv, AtRest

LEMMA MergedType ==
  ASSUME RequestInv, NEW c \in Client, NEW m \in Meta
  PROVE  Merged(c, m) \in Meta
  <1>1. client[c] \in State
    BY DEF RequestInv, Typed
  <1>2. Attempts(m, 0) \in Nat /\ m.usage \in Nat
    BY DEF Meta, Attempts, NoMeta
  <1>3. ASSUME client[c].recovering
        PROVE  Merged(c, m) \in Meta
    <2>1. client[c].first \in [attempts : Nat, usage : Nat]
      BY <1>1, <1>3 DEF RequestInv, LoopInv, State, Meta
    <2>2. /\ client[c].first.attempts + Attempts(m, 0) \in Nat
          /\ client[c].first.usage + m.usage \in Nat
      BY <2>1, <1>2
    <2> QED
      BY <2>2, <1>3 DEF Merged, Meta
  <1>4. ASSUME ~client[c].recovering
        PROVE  Merged(c, m) \in Meta
    BY <1>4 DEF Merged
  <1> QED
    BY <1>3, <1>4

(* The end of a call on one client: an attempt loop that stops.            *)
LEMMA EndStep ==
  ASSUME RequestInv, NEW c \in Client, client[c].at \in {"prompt", "wait"},
         NEW at \in {"done", "failed"}, NEW m \in Meta,
         NEW out \in Seq(Slot \cup {NoSlot}),
         End(c, at, m, out), Quiet
  PROVE  RequestInv'
  <1> DEFINE s == [client[c] EXCEPT !.at = at, !.meta = Merged(c, m),
                                    !.out = out]
  <1>1. pc = "calling"
    BY ActsInCall
  <1>2. client[c] \in State
    BY DEF RequestInv, Typed
  <1>3. Merged(c, m) \in Meta
    BY MergedType
  <1>4. s \in State
    BY <1>2, <1>3 DEF State
  <1>5. /\ s.at = at /\ s.tries = client[c].tries
        /\ s.recovering = client[c].recovering
        /\ s.first = client[c].first
    BY <1>2 DEF State
  <1>6. client' = [client EXCEPT ![c] = s]
    BY DEF End
  <1>7. sent' \in [Client -> Nat] /\ sent' = sent
    BY DEF Quiet, RequestInv, Typed
  <1>8. sent'[c] <= s.tries + (IF s.recovering THEN MaxRetries + 1 ELSE 0)
    BY <1>1, <1>5, <1>7 DEF RequestInv, SentInv
  <1>9. s.recovering => s.first # NoMeta
    BY <1>5 DEF RequestInv, LoopInv
  <1>10. UNCHANGED <<pc, call, active>>
    BY DEF Quiet
  <1> HIDE DEF s
  <1> QED
    BY <1>1, <1>4, <1>5, <1>6, <1>7, <1>8, <1>9, <1>10, ClientStep

LEMMA SendStep ==
  ASSUME RequestInv, NEW c \in Client, Send(c)
  PROVE  RequestInv'
  <1> DEFINE s == [client[c] EXCEPT !.at = "wait",
                                    !.tries = client[c].tries + 1]
  <1>1. pc = "calling" /\ client[c].at \in {"prompt", "sleep"}
    BY ActsInCall DEF Send
  <1>2. client[c] \in State
    BY DEF RequestInv, Typed
  <1>3. client[c].tries <= MaxRetries
    BY <1>1, Bounds DEF RequestInv, LoopInv
  <1>4. client[c].tries + 1 \in 0..MaxRetries + 1
    BY <1>2, <1>3, Bounds DEF State
  <1>5. s \in State
    BY <1>2, <1>4 DEF State
  <1>6. /\ s.at = "wait" /\ s.tries = client[c].tries + 1
        /\ s.recovering = client[c].recovering
        /\ s.first = client[c].first
    BY <1>2 DEF State
  <1>7. client' = [client EXCEPT ![c] = s]
    BY DEF Send
  <1>8. sent' = [sent EXCEPT ![c] = @ + 1] /\ sent \in [Client -> Nat]
    BY DEF Send, RequestInv, Typed
  <1>9. /\ sent' \in [Client -> Nat] /\ sent'[c] = sent[c] + 1
        /\ \A d \in Client \ {c} : sent'[d] = sent[d]
    BY <1>8
  <1>10. sent'[c] <= s.tries + (IF s.recovering THEN MaxRetries + 1 ELSE 0)
    <2>1. sent[c] <= client[c].tries
                     + (IF client[c].recovering THEN MaxRetries + 1 ELSE 0)
      BY <1>1 DEF RequestInv, SentInv
    <2> HIDE DEF s
    <2>2. sent[c] \in Nat /\ client[c].tries \in Nat
      BY <1>2, <1>8, Bounds DEF State
    <2> QED
      BY <2>1, <2>2, <1>6, <1>9, Bounds
  <1>11. s.recovering => s.first # NoMeta
    BY <1>6 DEF RequestInv, LoopInv
  <1>12. UNCHANGED <<pc, call, active>>
    BY DEF Send
  <1> HIDE DEF s
  <1> QED
    BY <1>1, <1>5, <1>6, <1>7, <1>9, <1>10, <1>11, <1>12, ClientStep

LEMMA NoAttempt == [attempts |-> 0, usage |-> 0] \in Meta
  BY DEF Meta

LEMMA TriedType ==
  ASSUME RequestInv, NEW c \in Client
  PROVE  /\ Errored(c) \in Meta /\ Answered(c) \in Meta
         /\ Answered(c) # NoMeta
  <1>1. client[c].tries \in Nat
    BY Bounds DEF RequestInv, Typed, State
  <1> QED
    BY <1>1 DEF Errored, Answered, Meta, NoMeta

LEMMA TooLargeStep ==
  ASSUME RequestInv, NEW c \in Client, TooLarge(c)
  PROVE  RequestInv'
  <1>1. <<>> \in Seq(Slot \cup {NoSlot})
    OBVIOUS
  <1> QED
    BY <1>1, NoAttempt, EndStep DEF TooLarge

LEMMA TransientErrorStep ==
  ASSUME RequestInv, NEW c \in Client, TransientError(c)
  PROVE  RequestInv'
  <1>1. client[c].at = "wait" /\ Quiet
    BY DEF TransientError
  <1>2. CASE Exhausted(c)
    <2>1. End(c, "failed", Errored(c), <<>>)
      BY <1>2 DEF TransientError
    <2>2. <<>> \in Seq(Slot \cup {NoSlot})
      OBVIOUS
    <2> QED
      BY <1>1, <2>1, <2>2, TriedType, EndStep
  <1>3. CASE ~Exhausted(c)
    <2> DEFINE s == [client[c] EXCEPT !.at = "sleep", !.meta = Errored(c)]
    <2>1. client' = [client EXCEPT ![c] = s]
      BY <1>3 DEF TransientError
    <2>2. pc = "calling"
      BY <1>1, ActsInCall
    <2>3. client[c] \in State
      BY DEF RequestInv, Typed
    <2>4. s \in State
      BY <2>3, TriedType DEF State
    <2>5. /\ s.at = "sleep" /\ s.tries = client[c].tries
          /\ s.recovering = client[c].recovering
          /\ s.first = client[c].first
      BY <2>3 DEF State
    <2>6. s.tries <= MaxRetries
      BY <1>3, <2>3, <2>5, Bounds DEF Exhausted, State
    <2>7. sent' \in [Client -> Nat] /\ sent' = sent
      BY <1>1 DEF Quiet, RequestInv, Typed
    <2>8. sent'[c] <= s.tries + (IF s.recovering THEN MaxRetries + 1 ELSE 0)
      BY <2>2, <2>5, <2>7 DEF RequestInv, SentInv
    <2>9. s.recovering => s.first # NoMeta
      BY <2>5 DEF RequestInv, LoopInv
    <2>10. UNCHANGED <<pc, call, active>>
      BY <1>1 DEF Quiet
    <2> HIDE DEF s
    <2> QED
      BY <2>1, <2>2, <2>4, <2>5, <2>6, <2>7, <2>8, <2>9, <2>10, ClientStep
  <1> QED
    BY <1>2, <1>3

LEMMA PermanentErrorStep ==
  ASSUME RequestInv, NEW c \in Client, PermanentError(c)
  PROVE  RequestInv'
  <1>1. <<>> \in Seq(Slot \cup {NoSlot})
    OBVIOUS
  <1> QED
    BY <1>1, TriedType, EndStep DEF PermanentError

LEMMA RaisesStep ==
  ASSUME RequestInv, NEW c \in Client, Raises(c)
  PROVE  RequestInv'
  <1>1. <<>> \in Seq(Slot \cup {NoSlot})
    OBVIOUS
  <1>2. client[c].meta \in Meta
    BY DEF RequestInv, Typed, State
  <1> QED
    BY <1>1, <1>2, EndStep DEF Raises

LEMMA UnusableStep ==
  ASSUME RequestInv, NEW c \in Client, Unusable(c)
  PROVE  RequestInv'
  <1>1. <<>> \in Seq(Slot \cup {NoSlot})
    OBVIOUS
  <1> QED
    BY <1>1, TriedType, EndStep DEF Unusable

(* An answer without a proposal starts the recovery's own loop.            *)
LEMMA ProposedStep ==
  ASSUME RequestInv, NEW c \in Client,
         NEW out \in Seq(Slot \cup {NoSlot}), Proposed(c, out)
  PROVE  RequestInv'
  <1>1. client[c].at = "wait" /\ Quiet
    BY DEF Proposed
  <1>2. CASE out # <<>>
    <2>1. End(c, "done", Answered(c), out)
      BY <1>2 DEF Proposed
    <2> QED
      BY <1>1, <2>1, TriedType, EndStep
  <1>3. CASE out = <<>> /\ client[c].recovering
    <2>1. End(c, "failed", Answered(c), <<>>)
      BY <1>3 DEF Proposed
    <2>2. <<>> \in Seq(Slot \cup {NoSlot})
      OBVIOUS
    <2> QED
      BY <1>1, <2>1, <2>2, TriedType, EndStep
  <1>4. CASE out = <<>> /\ ~client[c].recovering
    <2> DEFINE s == [client[c] EXCEPT !.at = "prompt", !.tries = 0,
                              !.recovering = TRUE, !.meta = Answered(c),
                              !.first = Answered(c)]
    <2>1. client' = [client EXCEPT ![c] = s]
      BY <1>4 DEF Proposed
    <2>2. pc = "calling"
      BY <1>1, ActsInCall
    <2>3. client[c] \in State
      BY DEF RequestInv, Typed
    <2>4. s \in State
      <3>1. Answered(c) \in Meta /\ 0 \in 0..MaxRetries + 1
        BY TriedType, Bounds
      <3> QED
        BY <2>3, <3>1 DEF State
    <2>5. /\ s.at = "prompt" /\ s.tries = 0 /\ s.recovering
          /\ s.first = Answered(c)
      BY <2>3 DEF State
    <2>6. sent' \in [Client -> Nat] /\ sent' = sent
      BY <1>1 DEF Quiet, RequestInv, Typed
    <2>7. client[c].tries \in Nat /\ client[c].tries <= MaxRetries + 1
      BY <2>3, Bounds DEF State
    <2>8. sent[c] <= client[c].tries + 0
      BY <1>4, <2>2 DEF RequestInv, SentInv
    <2> HIDE DEF s
    <2>9. sent'[c] <= s.tries + (IF s.recovering THEN MaxRetries + 1 ELSE 0)
      BY <2>5, <2>6, <2>7, <2>8, Bounds
    <2>10. s.recovering => s.first # NoMeta
      BY <2>5, TriedType
    <2>11. UNCHANGED <<pc, call, active>>
      BY <1>1 DEF Quiet
    <2> QED
      BY <2>1, <2>2, <2>4, <2>5, <2>6, <2>9, <2>10, <2>11, ClientStep
  <1> QED
    BY <1>2, <1>3, <1>4

(* What a client accepts is a sequence of slot names, whatever it is asked. *)
LEMMA AnswersType ==
  ASSUME NEW c \in Client, call \in [kind : Kinds, count : Slot]
  PROVE  Answers(c) \subseteq Seq(Slot \cup {NoSlot})
  <1>1. 1..call.count \cup {NoSlot} \subseteq Slot \cup {NoSlot}
    BY GenerationAssumption DEF Slot, NoSlot
  <1>2. \A n : BoundedSeq(1..call.count \cup {NoSlot}, n)
                 \subseteq Seq(Slot \cup {NoSlot})
    BY <1>1 DEF BoundedSeq, SeqOf
  <1>3. <<>> \in Seq(Slot \cup {NoSlot}) /\ <<NoSlot>> \in Seq(Slot \cup {NoSlot})
    OBVIOUS
  <1> QED
    BY <1>2, <1>3 DEF Answers

LEMMA StepInv ==
  ASSUME RequestInv, NEW c \in Client, Step(c)
  PROVE  RequestInv'
  <1>1. CASE Send(c)
    BY <1>1, SendStep
  <1>2. CASE TooLarge(c)
    BY <1>2, TooLargeStep
  <1>3. CASE TransientError(c)
    BY <1>3, TransientErrorStep
  <1>4. CASE PermanentError(c)
    BY <1>4, PermanentErrorStep
  <1>5. CASE Raises(c)
    BY <1>5, RaisesStep
  <1>6. CASE Unusable(c)
    BY <1>6, UnusableStep
  <1>7. ASSUME NEW out \in Answers(c), Proposed(c, out)
        PROVE  RequestInv'
    <2>1. out \in Seq(Slot \cup {NoSlot})
      BY AnswersType DEF RequestInv, Typed
    <2> QED
      BY <1>7, <2>1, ProposedStep
  <1> QED
    BY <1>1, <1>2, <1>3, <1>4, <1>5, <1>6, <1>7 DEF Step

(* A new call: every client starts its first loop with nothing sent.       *)
LEMMA CallStep ==
  ASSUME RequestInv, NEW kind \in Kinds,
         NEW count \in Slot, Call(kind, count)
  PROVE  RequestInv'
  <1>1. pc # "calling" /\ pc' = "calling"
    BY DEF Call
  <1>2. call' \in [kind : Kinds, count : Slot]
    BY DEF Call
  <1>3. active' \subseteq Client
    <2>1. count \in Nat /\ count > 0
      BY DEF Slot
    <2>2. Min({AgentWorkers, count}) \in Nat
          /\ Min({AgentWorkers, count}) <= AgentWorkers
      BY <2>1, Bounds DEF Min
    <2> QED
      BY <2>2, Bounds DEF Call, Workers, Client
  <1>4. \A c \in Client : client[c] \in State /\ AtRest(c)
    BY <1>1 DEF RequestInv, Typed
  <1>5. \A c \in Client :
          /\ Asked(client[c]) \in State
          /\ Asked(client[c]).at = "prompt"
          /\ Asked(client[c]).tries = 0
          /\ ~Asked(client[c]).recovering
    BY <1>4 DEF Asked, State, AtRest
  <1>6. client' = [c \in Client |->
          IF c \in active' THEN Asked(client[c]) ELSE client[c]]
    BY DEF Call
  <1>7. \A c \in Client : client'[c] \in {Asked(client[c]), client[c]}
    BY <1>6
  <1>8. client' \in [Client -> State]
    BY <1>4, <1>5, <1>6
  <1>9. sent' = [c \in Client |-> 0]
    BY DEF Call
  <1>10. Typed'
    BY <1>2, <1>3, <1>8, <1>9 DEF Typed
  <1>11. \A c \in Client : client'[c].at \in {"prompt", "off"}
                            /\ client'[c].tries = 0
                            /\ ~client'[c].recovering
    BY <1>4, <1>5, <1>7 DEF AtRest
  <1>12. LoopInv'
    BY <1>11 DEF LoopInv
  <1>13. SentInv'
    BY <1>9, <1>11 DEF SentInv
  <1>14. RequestsBounded'
    BY <1>9, Bounds DEF RequestsBounded
  <1> QED
    BY <1>1, <1>10, <1>12, <1>13, <1>14 DEF RequestInv

(* Back to rest, with the requests of the last call.                       *)
LEMMA RestStep ==
  ASSUME RequestInv, NEW m \in Meta, client' = Resting(m), pc' # "calling",
         UNCHANGED <<call, active, sent>>
  PROVE  RequestInv'
  <1>1. Typed'
    BY RestingType DEF RequestInv, Typed
  <1>2. (\A c \in Client : AtRest(c))'
    BY RestingType DEF AtRest
  <1>3. LoopInv'
    BY <1>2 DEF LoopInv, AtRest
  <1>4. RequestsBounded'
    BY DEF RequestInv, RequestsBounded
  <1> QED
    BY <1>1, <1>2, <1>3, <1>4 DEF RequestInv

LEMMA ReturnStep ==
  ASSUME RequestInv, Return
  PROVE  RequestInv'
  <1>1. client[Primary].meta \in Meta
    BY Bounds DEF RequestInv, Typed, State
  <1>2. client' = Resting(client[Primary].meta)
    BY DEF Return
  <1>3. pc' # "calling" /\ UNCHANGED <<call, active, sent>>
    BY DEF Return
  <1> QED
    BY <1>1, <1>2, <1>3, RestStep

LEMMA ResumeStep ==
  ASSUME RequestInv, Resume
  PROVE  RequestInv'
  <1>1. PICK m \in Preflights : client' = Resting(m)
    BY DEF Resume
  <1>2. pc' # "calling" /\ UNCHANGED <<call, active, sent>>
    BY DEF Resume
  <1> QED
    BY <1>1, <1>2, PreflightType, RestStep

LEMMA InitInv == Init => RequestInv
  <1> SUFFICES ASSUME Init PROVE RequestInv
    OBVIOUS
  <1>1. PICK m \in Preflights : client = Resting(m)
    BY DEF Init
  <1>2. m \in Meta
    BY PreflightType
  <1>3. call \in [kind : Kinds, count : Slot]
    BY GenerationAssumption DEF Init, Slot, Kinds
  <1>4. Typed
    BY <1>1, <1>2, <1>3, RestingType DEF Init, Typed
  <1>5. \A c \in Client : AtRest(c)
    BY <1>1, <1>2, RestingType DEF AtRest
  <1>6. LoopInv
    BY <1>5 DEF LoopInv, AtRest
  <1>7. RequestsBounded
    BY Bounds DEF Init, RequestsBounded
  <1> QED
    BY <1>4, <1>5, <1>6, <1>7 DEF RequestInv, Init

LEMMA NextInv == RequestInv /\ [Next]_vars => RequestInv'
  <1> SUFFICES ASSUME RequestInv, [Next]_vars PROVE RequestInv'
    OBVIOUS
  <1>1. ASSUME NEW kind \in Kinds, NEW count \in Slot,
               Call(kind, count)
        PROVE  RequestInv'
    BY <1>1, CallStep
  <1>2. ASSUME NEW c \in Client, Step(c)
        PROVE  RequestInv'
    BY <1>2, StepInv
  <1>3. CASE Return
    BY <1>3, ReturnStep
  <1>4. CASE Resume
    BY <1>4, ResumeStep
  <1>5. CASE UNCHANGED vars
    BY <1>5 DEF vars, RequestInv, Typed, LoopInv, SentInv, AtRest,
                RequestsBounded
  <1> QED
    BY <1>1, <1>2, <1>3, <1>4, <1>5 DEF Next

(***************************************************************************)
(* For any number of agents, slots, retries and calls, a call makes at     *)
(* most twice max_retries + 1 requests on each client, however errors,     *)
(* answers without a source and recoveries alternate (_request,            *)
(* _generate_from_prompt).                                                 *)
(***************************************************************************)
THEOREM CallsStayBounded == Spec => []RequestsBounded
  <1>1. Init => RequestInv
    BY InitInv
  <1>2. RequestInv /\ [Next]_vars => RequestInv'
    BY NextInv
  <1>3. RequestInv => RequestsBounded
    BY DEF RequestInv
  <1> QED
    BY <1>1, <1>2, <1>3, PTL DEF Spec


-----------------------------------------------------------------------------
(* Sums over the agents of a call *)

LEMMA SumSteps ==
  ASSUME NEW s \in Seq(Nat)
  PROVE  \E f \in [0..Len(s) -> Nat] :
           /\ f[0] = 0 /\ \A i \in 1..Len(s) : f[i] = f[i - 1] + s[i]
           /\ Sum(s) = f[Len(s)]
<1> DEFINE n == Len(s)
           step == [p \in (1..n) \X Nat |-> p[2] + s[p[1]]]
<1>1. n \in Nat /\ \A i \in 1..n : s[i] \in Nat
  OBVIOUS
<1>2. step \in [(1..n) \X Nat -> Nat]
  BY <1>1
<1>3. \A i \in 1..n, v \in Nat : step[<<i, v>>] = v + s[i]
  OBVIOUS
<1> HIDE DEF step
<1>r. Recurs(n, Nat, 0, step)
  BY <1>1, <1>2 DEF Recurs
<1>s. PICK g : Solves(g, n, Nat, 0, step)
  BY <1>r, RecursionExists
<1>4. /\ g \in [0..n -> Nat] /\ g[0] = 0
      /\ \A i \in 1..n : g[i] = step[<<i, g[i - 1]>>]
  BY <1>s DEF Solves
<1>5. \A i \in 1..n : g[i] = g[i - 1] + s[i]
  <2> SUFFICES ASSUME NEW i \in 1..n  PROVE g[i] = g[i - 1] + s[i]
    OBVIOUS
  <2>1. i - 1 \in 0..n
    BY <1>1
  <2> QED
    BY <1>3, <1>4, <2>1
<1> DEFINE F == CHOOSE f : f = [i \in 0..n |-> IF i = 0 THEN 0 ELSE f[i - 1] + s[i]]
<1>6. g = [i \in 0..n |-> IF i = 0 THEN 0 ELSE g[i - 1] + s[i]]
  <2>1. \A i \in 0..n : g[i] = IF i = 0 THEN 0 ELSE g[i - 1] + s[i]
    <3> SUFFICES ASSUME NEW i \in 0..n
                 PROVE  g[i] = IF i = 0 THEN 0 ELSE g[i - 1] + s[i]
      OBVIOUS
    <3>1. i = 0 \/ i \in 1..n
      BY <1>1
    <3> QED
      BY <1>4, <1>5, <3>1
  <2> QED
    BY <1>4, <2>1
<1>7. F = [i \in 0..n |-> IF i = 0 THEN 0 ELSE F[i - 1] + s[i]]
  BY <1>6
<1>8. Sum(s) = F[n]
  BY DEF Sum
<1> HIDE DEF F
<1>9. F[0] = 0 /\ \A i \in 1..n : F[i] = F[i - 1] + s[i]
  <2>1. 0 \in 0..n /\ \A i \in 1..n : i \in 0..n /\ i # 0
    BY <1>1
  <2> QED
    BY <1>7, <2>1
<1>10. \A i \in 0..n : F[i] \in Nat
  <2> DEFINE P == {i \in 0..n : F[i] \in Nat}
  <2>1. 0 \in P
    BY <1>1, <1>9
  <2>2. ASSUME NEW i \in 0..n, i < n, i \in P  PROVE i + 1 \in P
    <3>1. i + 1 \in 1..n /\ i + 1 \in 0..n /\ (i + 1) - 1 = i
      BY <1>1, <2>2
    <3>2. F[i + 1] = F[i] + s[i + 1] /\ s[i + 1] \in Nat /\ F[i] \in Nat
      BY <1>1, <1>9, <2>2, <3>1
    <3> QED
      BY <3>1, <3>2
  <2> HIDE DEF P
  <2>3. \A i \in 0..n : i \in P
    BY <1>1, <2>1, <2>2, RangeInduction
  <2> QED
    BY <2>3 DEF P
<1>11. F \in [0..n -> Nat]
  BY <1>7, <1>10
<1> QED
  BY <1>8, <1>9, <1>11

LEMMA SumIsNat ==
  ASSUME NEW s \in Seq(Nat)
  PROVE  Sum(s) \in Nat
<1>1. PICK f \in [0..Len(s) -> Nat] : Sum(s) = f[Len(s)]
  BY SumSteps
<1>2. Len(s) \in 0..Len(s)
  OBVIOUS
<1> QED
  BY <1>1, <1>2

(* One number more in one place is one more in the sum.                    *)
LEMMA SumGrows ==
  ASSUME NEW s \in Seq(Nat), NEW t \in Seq(Nat), Len(s) = Len(t),
         NEW k \in 1..Len(s), NEW d \in Nat, t[k] = s[k] + d,
         \A i \in 1..Len(s) : i # k => t[i] = s[i]
  PROVE  Sum(t) = Sum(s) + d
<1> DEFINE n == Len(s)
<1>1. PICK f \in [0..n -> Nat] :
        /\ f[0] = 0 /\ \A i \in 1..n : f[i] = f[i - 1] + s[i]
        /\ Sum(s) = f[n]
  BY SumSteps
<1>2. PICK g \in [0..n -> Nat] :
        /\ g[0] = 0 /\ \A i \in 1..n : g[i] = g[i - 1] + t[i]
        /\ Sum(t) = g[n]
  BY SumSteps
<1>3. n \in Nat /\ k \in Nat /\ 1 <= k /\ k <= n
      /\ \A i \in 1..n : s[i] \in Nat
  BY SMTT(20)
<1> DEFINE P == {i \in 0..n : g[i] = f[i] + (IF i < k THEN 0 ELSE d)}
<1>4. 0 \in P
  BY <1>1, <1>2, <1>3
<1>5. ASSUME NEW i \in 0..n, i < n, i \in P  PROVE i + 1 \in P
  <2>1. i + 1 \in 1..n /\ i + 1 \in 0..n /\ (i + 1) - 1 = i
    BY <1>3, <1>5
  <2>2. /\ f[i + 1] = f[i] + s[i + 1] /\ g[i + 1] = g[i] + t[i + 1]
        /\ f[i] \in Nat /\ s[i + 1] \in Nat
        /\ g[i] = f[i] + (IF i < k THEN 0 ELSE d)
    BY <1>1, <1>2, <1>3, <1>5, <2>1
  <2>3. CASE i + 1 = k
    <3>1. t[i + 1] = s[i + 1] + d /\ g[i] = f[i] + 0
      <4>1. t[i + 1] = s[i + 1] + d
        BY <2>3
      <4>2. i < k
        BY <1>3, <2>3
      <4> QED
        BY <2>2, <4>1, <4>2
    <3>2. g[i + 1] = f[i + 1] + d /\ ~(i + 1 < k)
      BY <1>3, <2>2, <2>3, <3>1
    <3> QED
      BY <2>1, <3>2
  <2>4. CASE i + 1 # k
    <3>1. t[i + 1] = s[i + 1]
      BY <2>1, <2>4
    <3>2. i < k <=> i + 1 < k
      BY <1>3, <2>4
    <3>3. g[i + 1] = f[i + 1] + (IF i + 1 < k THEN 0 ELSE d)
      BY SMTT(20), <2>2, <3>1, <3>2
    <3> QED
      BY <2>1, <3>3
  <2> QED
    BY <2>3, <2>4
<1> HIDE DEF P
<1>6. \A i \in 0..n : i \in P
  BY <1>3, <1>4, <1>5, RangeInduction
<1>7. g[n] = f[n] + d
  BY <1>3, <1>6 DEF P
<1> QED
  BY <1>1, <1>2, <1>7

LEMMA SumOfZeros ==
  ASSUME NEW s \in Seq(Nat), \A i \in 1..Len(s) : s[i] = 0
  PROVE  Sum(s) = 0
<1> DEFINE n == Len(s)
<1>1. PICK f \in [0..n -> Nat] :
        /\ f[0] = 0 /\ \A i \in 1..n : f[i] = f[i - 1] + s[i]
        /\ Sum(s) = f[n]
  BY SumSteps
<1> DEFINE P == {i \in 0..n : f[i] = 0}
<1>2. n \in Nat
  OBVIOUS
<1>3. 0 \in P
  BY <1>1, <1>2
<1>4. ASSUME NEW i \in 0..n, i < n, i \in P  PROVE i + 1 \in P
  <2>1. i + 1 \in 1..n /\ i + 1 \in 0..n /\ (i + 1) - 1 = i
    BY <1>2, <1>4
  <2>2. f[i + 1] = f[i] + 0 /\ f[i] = 0
    BY <1>1, <1>4, <2>1
  <2> QED
    BY <2>1, <2>2
<1> HIDE DEF P
<1>5. \A i \in 0..n : i \in P
  BY <1>2, <1>3, <1>4, RangeInduction
<1> QED
  BY <1>1, <1>2, <1>5 DEF P

-----------------------------------------------------------------------------
(* The ledger: what a call has sent and what its clients will report       *)

\* The sets of clients that a call runs on.
ActiveSets == {{}, {Primary}} \cup {1..n : n \in 2..AgentWorkers}
AgentsInv  == active \in ActiveSets /\ Agents <= call.count

PlainTyped ==
  /\ pc \in {"idle", "calling", "stopped"} /\ calls \in 0..MaxCalls
  /\ counted \in [attempts : Nat, usage : Nat]
  /\ made \in Nat /\ billed \in Nat /\ raised \in BOOLEAN

\* The requests and the usage of a client in the call: those it reports, or
\* those it has so far.
Spent(c) ==
  IF Returned(c) THEN AttemptsOf(c)
  ELSE client[c].tries
       + (IF client[c].recovering THEN client[c].first.attempts ELSE 0)
Used(c) ==
  IF Returned(c) THEN UsageOf(c)
  ELSE IF client[c].recovering THEN client[c].first.usage ELSE 0
SpentBy == [c \in Client |-> Spent(c)]
UsedBy  == [c \in Client |-> Used(c)]

LedgerInv ==
  ~raised =>
    /\ pc = "calling" => /\ made = counted.attempts + Total(SpentBy)
                         /\ billed = counted.usage + Total(UsedBy)
    /\ pc # "calling" => made = counted.attempts /\ billed = counted.usage

CountInv == RequestInv /\ AgentsInv /\ PlainTyped /\ LedgerInv

LEMMA AgentsCover ==
  ASSUME NEW A \in ActiveSets
  PROVE  /\ A \subseteq Client /\ Cardinality(A) \in Nat
         /\ \A i \in 1..Cardinality(A) : (IF A = {Primary} THEN Primary ELSE i) \in A
         /\ \A c \in A : \E k \in 1..Cardinality(A) :
              /\ c = IF A = {Primary} THEN Primary ELSE k
              /\ \A i \in 1..Cardinality(A) :
                   i # k => c # IF A = {Primary} THEN Primary ELSE i
<1>1. CASE A = {}
  BY <1>1, FS_EmptySet
<1>2. CASE A = {Primary}
  <2>1. Cardinality(A) = 1
    BY <1>2, FS_Singleton
  <2> QED
    BY <1>2, <2>1, Bounds
<1>3. ASSUME NEW n \in 2..AgentWorkers, A = 1..n
      PROVE  /\ A \subseteq Client /\ Cardinality(A) = n /\ n \in Nat /\ A # {Primary}
  <2>1. n \in Nat /\ n <= AgentWorkers /\ 1 \in 1..n /\ Primary = 0
    BY <1>3, Bounds DEF Primary
  <2>2. Cardinality(1..n) = n - 1 + 1
    BY <2>1, FS_Interval
  <2> QED
    BY <1>3, <2>1, <2>2, Bounds DEF Client
<1>4. ASSUME NEW n \in 2..AgentWorkers, A = 1..n
      PROVE  /\ \A i \in 1..Cardinality(A) : i \in A
             /\ \A c \in A : c \in 1..Cardinality(A)
  BY <1>3, <1>4
<1>5. A \in {{}, {Primary}} \/ \E n \in 2..AgentWorkers : A = 1..n
  BY DEF ActiveSets
<1> QED
  BY <1>1, <1>2, <1>3, <1>4, <1>5

(* What is added for one client is added to the total.                     *)
LEMMA TotalGrows ==
  ASSUME active \in ActiveSets, NEW c \in active, NEW d \in Nat,
         NEW f \in [Client -> Nat], NEW g \in [Client -> Nat],
         g[c] = f[c] + d, \A e \in Client \ {c} : g[e] = f[e]
  PROVE  Total(g) = Total(f) + d
<1>1. /\ Agents \in Nat /\ active \subseteq Client
      /\ \A i \in 1..Agents : Agent(i) \in Client
      /\ \E k \in 1..Agents :
           Agent(k) = c /\ \A i \in 1..Agents : i # k => Agent(i) # c
  BY AgentsCover DEF Agents, Agent
<1> DEFINE s == [i \in 1..Agents |-> f[Agent(i)]]
           t == [i \in 1..Agents |-> g[Agent(i)]]
<1>2. s \in Seq(Nat) /\ t \in Seq(Nat) /\ Len(s) = Agents /\ Len(t) = Agents
  BY <1>1
<1>3. PICK k \in 1..Agents :
        Agent(k) = c /\ \A i \in 1..Agents : i # k => Agent(i) # c
  BY <1>1
<1>4. t[k] = s[k] + d /\ \A i \in 1..Agents : i # k => t[i] = s[i]
  BY <1>1, <1>3
<1>5. Total(f) = Sum(s) /\ Total(g) = Sum(t)
  BY DEF Total
<1> HIDE DEF s, t
<1>6. /\ Len(s) = Len(t) /\ k \in 1..Len(s)
      /\ \A i \in 1..Len(s) : i # k => t[i] = s[i]
  BY <1>2, <1>4
<1>7. Sum(t) = Sum(s) + d
  BY <1>2, <1>4, <1>6, SumGrows
<1> QED
  BY <1>5, <1>7

LEMMA TotalIsNat ==
  ASSUME active \in ActiveSets, NEW f \in [Client -> Nat]
  PROVE  Total(f) \in Nat
<1>1. /\ Agents \in Nat /\ \A i \in 1..Agents : Agent(i) \in Client
  BY AgentsCover DEF Agents, Agent
<1> DEFINE s == [i \in 1..Agents |-> f[Agent(i)]]
<1>2. s \in Seq(Nat)
  BY <1>1
<1> HIDE DEF s
<1>3. Sum(s) \in Nat
  BY <1>2, SumIsNat
<1> QED
  BY <1>3 DEF Total, s

LEMMA TotalKept ==
  ASSUME active' = active, NEW f
  PROVE  Total(f)' = Total(f)
BY DEF Total, Agents, Agent

LEMMA TotalOfNothing ==
  ASSUME NEW A \in ActiveSets, active' = A, NEW f, \A c \in A : f[c] = 0
  PROVE  Total(f)' = 0
<1> DEFINE s == [i \in 1..Cardinality(A) |-> f[IF A = {Primary} THEN Primary ELSE i]]
<1>1. Total(f)' = Sum(s)
  BY DEF Total, Agents, Agent
<1>2. Cardinality(A) \in Nat /\ \A i \in 1..Cardinality(A) : s[i] = 0
  BY AgentsCover
<1>3. s \in Seq(Nat) /\ Len(s) = Cardinality(A)
  BY <1>2
<1> HIDE DEF s
<1> QED
  BY <1>1, <1>2, <1>3, SumOfZeros

LEMMA ReportsAreNat ==
  ASSUME RequestInv, NEW c \in Client
  PROVE  /\ Spent(c) \in Nat /\ Used(c) \in Nat
         /\ AttemptsOf(c) \in Nat /\ UsageOf(c) \in Nat
<1>1. client[c] \in State /\ client[c].tries \in Nat
  BY Bounds DEF RequestInv, Typed, State
<1>2. client[c].recovering => client[c].first \in [attempts : Nat, usage : Nat]
  BY <1>1 DEF RequestInv, LoopInv, State, Meta
<1>3. client[c].meta = NoMeta \/ client[c].meta \in [attempts : Nat, usage : Nat]
  BY <1>1 DEF State, Meta
<1>4. AttemptsOf(c) \in Nat /\ UsageOf(c) \in Nat
  BY <1>3 DEF AttemptsOf, UsageOf, Attempts, NoMeta
<1> QED
  BY <1>1, <1>2, <1>4 DEF Spent, Used

(* A client's step that sends and is answered as much as it will report    *)
(* keeps the ledger.                                                       *)
LEMMA LedgerStep ==
  ASSUME CountInv, RequestInv', pc = "calling", NEW c \in active,
         UNCHANGED <<pc, call, calls, active, counted, raised>>,
         \A e \in Client \ {c} : client'[e] = client[e],
         NEW a \in Nat, NEW u \in Nat,
         made' = made + a, billed' = billed + u,
         Spent(c)' = Spent(c) + a, Used(c)' = Used(c) + u
  PROVE  CountInv'
<1>1. active \in ActiveSets /\ active \subseteq Client /\ c \in Client
  BY DEF CountInv, AgentsInv, RequestInv, Typed
<1>2. AgentsInv' /\ PlainTyped'
  BY DEF CountInv, AgentsInv, PlainTyped, Agents
<1>3. \A e \in Client : Spent(e) \in Nat /\ Used(e) \in Nat
  BY ReportsAreNat DEF CountInv
<1>4. \A e \in Client \ {c} : Spent(e)' = Spent(e) /\ Used(e)' = Used(e)
  BY DEF Spent, Used, Returned, AttemptsOf, UsageOf
<1>5. PICK f, g, h, k : f = SpentBy /\ g = SpentBy' /\ h = UsedBy /\ k = UsedBy'
  OBVIOUS
<1>6. /\ f \in [Client -> Nat] /\ h \in [Client -> Nat]
      /\ \A e \in Client : f[e] = Spent(e) /\ h[e] = Used(e)
      /\ g = [e \in Client |-> Spent(e)'] /\ k = [e \in Client |-> Used(e)']
  BY <1>3, <1>5 DEF SpentBy, UsedBy
<1>7. Spent(c)' \in Nat /\ Used(c)' \in Nat
  BY <1>1, <1>3
<1>8. \A e \in Client : Spent(e)' \in Nat /\ Used(e)' \in Nat
  BY <1>3, <1>4, <1>7
<1>9. /\ g \in [Client -> Nat] /\ k \in [Client -> Nat]
      /\ g[c] = f[c] + a /\ k[c] = h[c] + u
      /\ \A e \in Client \ {c} : g[e] = f[e] /\ k[e] = h[e]
  BY <1>1, <1>4, <1>6, <1>8
<1>10. Total(g) = Total(f) + a
  BY <1>1, <1>6, <1>9, TotalGrows
<1>11. Total(k) = Total(h) + u
  BY <1>1, <1>6, <1>9, TotalGrows
<1>12. Total(f) \in Nat /\ Total(h) \in Nat
  BY <1>1, <1>6, TotalIsNat
<1>13. Total(SpentBy)' = Total(g) /\ Total(UsedBy)' = Total(k)
  BY <1>5, TotalKept
<1>14. Total(SpentBy) = Total(f) /\ Total(UsedBy) = Total(h)
  BY <1>5
<1>15. ASSUME ~raised'
       PROVE  /\ made' = counted'.attempts + Total(SpentBy)'
              /\ billed' = counted'.usage + Total(UsedBy)'
  <2>1. /\ made = counted.attempts + Total(f)
        /\ billed = counted.usage + Total(h)
        /\ counted.attempts \in Nat /\ counted.usage \in Nat
    BY <1>14, <1>15 DEF CountInv, LedgerInv, PlainTyped
  <2>2. /\ made' = counted.attempts + (Total(f) + a)
        /\ billed' = counted.usage + (Total(h) + u)
    BY <1>12, <2>1
  <2> QED
    BY <1>10, <1>11, <1>13, <2>2
<1>16. LedgerInv'
  BY <1>15 DEF LedgerInv
<1> QED
  BY <1>2, <1>16 DEF CountInv

(* The end of a call on one client: its metadata say what it has spent,    *)
(* and the usage of the last answer.                                       *)
LEMMA EndReports ==
  ASSUME CountInv, NEW c \in active, client[c].at \in {"prompt", "wait"},
         UNCHANGED active,
         NEW at \in {"done", "failed"}, NEW m \in [attempts : Nat, usage : Nat],
         m.attempts = client[c].tries, NEW out, End(c, at, m, out)
  PROVE  Spent(c)' = Spent(c) + 0 /\ Used(c)' = Used(c) + m.usage
<1>1. /\ c \in Client /\ client[c] \in State /\ client \in [Client -> State]
      /\ client[c].tries \in Nat
  BY Bounds DEF CountInv, RequestInv, Typed, State
<1>2. client[c].recovering => client[c].first \in [attempts : Nat, usage : Nat]
  BY <1>1 DEF CountInv, RequestInv, LoopInv, State, Meta
<1>3. m # NoMeta /\ m.attempts \in Nat /\ m.usage \in Nat
  BY DEF NoMeta
<1>4. client'[c].at = at /\ client'[c].meta = Merged(c, m)
  BY <1>1 DEF End, State
<1>5. Returned(c)' /\ ~Returned(c)
  BY <1>4 DEF Returned
<1>6. /\ Spent(c)' = AttemptsOf(c)' /\ Used(c)' = UsageOf(c)'
      /\ Spent(c) = client[c].tries + (IF client[c].recovering
                                       THEN client[c].first.attempts ELSE 0)
      /\ Used(c) = IF client[c].recovering THEN client[c].first.usage ELSE 0
  BY <1>5 DEF Spent, Used
<1>7. CASE client[c].recovering
  <2> DEFINE x == client[c].first.attempts + m.attempts
             y == client[c].first.usage + m.usage
  <2>1. Merged(c, m) = [attempts |-> x, usage |-> y]
    BY <1>3, <1>7 DEF Merged, Attempts
  <2>2. x \in Nat /\ y \in Nat
    BY <1>2, <1>3, <1>7
  <2> HIDE DEF x, y
  <2>3. Merged(c, m) # NoMeta /\ Merged(c, m).attempts = x /\ Merged(c, m).usage = y
    BY <2>1, <2>2 DEF NoMeta
  <2>4. Spent(c)' = x /\ Used(c)' = y
    BY <1>4, <1>6, <2>3 DEF AttemptsOf, UsageOf, Attempts
  <2> QED
    BY <1>1, <1>2, <1>3, <1>6, <1>7, <2>4 DEF x, y
<1>8. CASE ~client[c].recovering
  <2>1. Merged(c, m) = m
    BY <1>8 DEF Merged
  <2>2. Spent(c)' = m.attempts /\ Used(c)' = m.usage
    BY <1>3, <1>4, <1>6, <2>1 DEF AttemptsOf, UsageOf, Attempts
  <2> QED
    BY <1>1, <1>3, <1>6, <1>8, <2>2
<1> QED
  BY <1>7, <1>8

(* Such an end, by an error or an answer, keeps the ledger.                *)
LEMMA EndCounted ==
  ASSUME CountInv, RequestInv', NEW c \in active,
         client[c].at \in {"prompt", "wait"},
         NEW at \in {"done", "failed"}, NEW m \in [attempts : Nat, usage : Nat],
         m.attempts = client[c].tries, NEW out, End(c, at, m, out),
         Quiet, raised' = raised, billed' = billed + m.usage
  PROVE  CountInv'
<1>1. /\ UNCHANGED <<pc, call, calls, active, counted, raised>>
      /\ made' = made + 0 /\ made \in Nat /\ c \in Client
      /\ m.usage \in Nat /\ client[c].at # "off"
  BY DEF Quiet, CountInv, PlainTyped, RequestInv, Typed
<1>2. pc = "calling"
  BY <1>1, ActsInCall DEF CountInv
<1>3. \A e \in Client \ {c} : client'[e] = client[e]
  BY DEF End, CountInv, RequestInv, Typed
<1>4. Spent(c)' = Spent(c) + 0 /\ Used(c)' = Used(c) + m.usage
  BY <1>1, EndReports
<1> QED
  BY <1>1, <1>2, <1>3, <1>4, LedgerStep

LEMMA TriedCounts ==
  ASSUME RequestInv, NEW c \in Client
  PROVE  /\ Errored(c) \in [attempts : Nat, usage : Nat]
         /\ Answered(c) \in [attempts : Nat, usage : Nat]
         /\ Errored(c).attempts = client[c].tries /\ Errored(c).usage = 0
         /\ Answered(c).attempts = client[c].tries /\ Answered(c).usage = 1
<1>1. client[c].tries \in Nat
  BY Bounds DEF RequestInv, Typed, State
<1> QED
  BY <1>1 DEF Errored, Answered

LEMMA SendCounted ==
  ASSUME CountInv, RequestInv', NEW c \in active, Send(c)
  PROVE  CountInv'
<1>0. /\ c \in Client /\ client[c] \in State /\ client \in [Client -> State]
      /\ RequestInv /\ billed \in Nat
  BY DEF CountInv, RequestInv, Typed, PlainTyped
<1>1. /\ c \in Client /\ client[c] \in State /\ client \in [Client -> State]
      /\ client[c].tries \in Nat /\ RequestInv /\ billed \in Nat
  BY <1>0, Bounds DEF State
<1>2. /\ client[c].at \in {"prompt", "sleep"} /\ made' = made + 1
      /\ client' = [client EXCEPT ![c] =
           [client[c] EXCEPT !.at = "wait", !.tries = client[c].tries + 1]]
      /\ UNCHANGED <<pc, calls, call, active, counted, billed, raised>>
  BY DEF Send
<1>3. pc = "calling"
  BY <1>1, <1>2, ActsInCall
<1>4. /\ client'[c].at = "wait" /\ client'[c].tries = client[c].tries + 1
      /\ client'[c].recovering = client[c].recovering
      /\ client'[c].first = client[c].first
      /\ \A e \in Client \ {c} : client'[e] = client[e]
  BY <1>1, <1>2 DEF State
<1>5. ~Returned(c) /\ ~Returned(c)'
  BY <1>2, <1>4 DEF Returned
<1>6. client[c].recovering => client[c].first.attempts \in Nat
  BY <1>1 DEF RequestInv, LoopInv, State, Meta
<1>7. Spent(c)' = Spent(c) + 1
  BY <1>1, <1>4, <1>5, <1>6 DEF Spent
<1>8. Used(c)' = Used(c) + 0
  <2>1. Used(c)' = Used(c) /\ Used(c) \in Nat
    BY <1>1, <1>4, <1>5, ReportsAreNat DEF Used
  <2> QED
    BY <2>1
<1>9. billed' = billed + 0
  BY <1>1, <1>2
<1> QED
  BY <1>2, <1>3, <1>4, <1>7, <1>8, <1>9, LedgerStep

LEMMA TooLargeCounted ==
  ASSUME CountInv, RequestInv', NEW c \in active, TooLarge(c)
  PROVE  CountInv'
<1> DEFINE m == [attempts |-> 0, usage |-> 0]
<1>1. /\ c \in Client /\ client[c].at = "prompt" /\ client[c].tries = 0
      /\ billed \in Nat
  BY DEF TooLarge, CountInv, RequestInv, Typed, LoopInv, PlainTyped
<1>2. m \in [attempts : Nat, usage : Nat] /\ m.attempts = client[c].tries
      /\ billed' = billed + m.usage
  BY <1>1 DEF TooLarge
<1>3. End(c, "failed", m, <<>>) /\ Quiet /\ raised' = raised
  BY DEF TooLarge
<1> HIDE DEF m
<1> QED
  BY <1>1, <1>2, <1>3, EndCounted

LEMMA TransientErrorCounted ==
  ASSUME CountInv, RequestInv', NEW c \in active, TransientError(c)
  PROVE  CountInv'
<1>1. /\ c \in Client /\ client[c].at = "wait" /\ billed \in Nat /\ RequestInv
      /\ Quiet /\ billed' = billed /\ raised' = raised /\ made \in Nat
  BY DEF TransientError, CountInv, RequestInv, Typed, PlainTyped
<1>2. CASE Exhausted(c)
  <2>1. End(c, "failed", Errored(c), <<>>)
    BY <1>2 DEF TransientError
  <2>2. billed' = billed + Errored(c).usage
    BY <1>1, TriedCounts
  <2> QED
    BY <1>1, <2>1, <2>2, TriedCounts, EndCounted
<1>3. CASE ~Exhausted(c)
  <2>1. client' = [client EXCEPT ![c] =
                     [client[c] EXCEPT !.at = "sleep", !.meta = Errored(c)]]
    BY <1>3 DEF TransientError
  <2>2. client \in [Client -> State] /\ client[c] \in State
    BY <1>1 DEF RequestInv, Typed
  <2>3. /\ client'[c].at = "sleep" /\ client'[c].tries = client[c].tries
        /\ client'[c].recovering = client[c].recovering
        /\ client'[c].first = client[c].first
        /\ \A e \in Client \ {c} : client'[e] = client[e]
    BY <1>1, <2>1, <2>2 DEF State
  <2>4. Spent(c)' = Spent(c) /\ Used(c)' = Used(c)
    BY <1>1, <2>3 DEF Spent, Used, Returned
  <2>5. Spent(c) \in Nat /\ Used(c) \in Nat
    BY <1>1, ReportsAreNat
  <2>6. /\ Spent(c)' = Spent(c) + 0 /\ Used(c)' = Used(c) + 0
        /\ made' = made + 0 /\ billed' = billed + 0
    BY <1>1, <2>4, <2>5 DEF Quiet
  <2>7. UNCHANGED <<pc, call, calls, active, counted, raised>> /\ pc = "calling"
    BY <1>1, ActsInCall DEF Quiet
  <2> QED
    BY <2>3, <2>6, <2>7, LedgerStep
<1> QED
  BY <1>2, <1>3

LEMMA PermanentErrorCounted ==
  ASSUME CountInv, RequestInv', NEW c \in active, PermanentError(c)
  PROVE  CountInv'
<1>1. /\ c \in Client /\ client[c].at = "wait" /\ billed \in Nat /\ RequestInv
      /\ Quiet /\ billed' = billed /\ raised' = raised
      /\ End(c, "failed", Errored(c), <<>>)
  BY DEF PermanentError, CountInv, RequestInv, Typed, PlainTyped
<1>2. billed' = billed + Errored(c).usage
  BY <1>1, TriedCounts
<1> QED
  BY <1>1, <1>2, TriedCounts, EndCounted

LEMMA UnusableCounted ==
  ASSUME CountInv, RequestInv', NEW c \in active, Unusable(c)
  PROVE  CountInv'
<1>1. /\ c \in Client /\ client[c].at = "wait" /\ RequestInv
      /\ Quiet /\ billed' = billed + 1 /\ raised' = raised
      /\ End(c, "failed", Answered(c), <<>>)
  BY DEF Unusable, CountInv, RequestInv, Typed
<1>2. billed' = billed + Answered(c).usage
  BY <1>1, TriedCounts
<1> QED
  BY <1>1, <1>2, TriedCounts, EndCounted

LEMMA ProposedCounted ==
  ASSUME CountInv, RequestInv', NEW c \in active, NEW out, Proposed(c, out)
  PROVE  CountInv'
<1>1. /\ c \in Client /\ client[c].at = "wait" /\ RequestInv /\ made \in Nat
      /\ Quiet /\ billed' = billed + 1 /\ raised' = raised
  BY DEF Proposed, CountInv, RequestInv, Typed, PlainTyped
<1>2. billed' = billed + Answered(c).usage
  BY <1>1, TriedCounts
<1>3. CASE out # <<>> \/ client[c].recovering
  <2>1. \/ End(c, "done", Answered(c), out)
        \/ End(c, "failed", Answered(c), <<>>)
    BY <1>3 DEF Proposed
  <2> QED
    BY <1>1, <1>2, <2>1, TriedCounts, EndCounted
<1>4. CASE out = <<>> /\ ~client[c].recovering
  <2>1. client' = [client EXCEPT ![c] =
            [client[c] EXCEPT !.at = "prompt", !.tries = 0,
                              !.recovering = TRUE, !.meta = Answered(c),
                              !.first = Answered(c)]]
    BY <1>4 DEF Proposed
  <2>0. client \in [Client -> State] /\ client[c] \in State
    BY <1>1 DEF RequestInv, Typed
  <2>2. client \in [Client -> State] /\ client[c] \in State
        /\ client[c].tries \in Nat
    BY <2>0, Bounds DEF State
  <2>3. /\ client'[c].at = "prompt" /\ client'[c].tries = 0
        /\ client'[c].recovering /\ client'[c].first = Answered(c)
        /\ \A e \in Client \ {c} : client'[e] = client[e]
    BY <1>1, <2>1, <2>2 DEF State
  <2>4. /\ Spent(c)' = 0 + Answered(c).attempts /\ Used(c)' = Answered(c).usage
        /\ Spent(c) = client[c].tries + 0 /\ Used(c) = 0
    BY <1>1, <1>4, <2>3 DEF Spent, Used, Returned
  <2>5. /\ Spent(c)' = Spent(c) + 0 /\ Used(c)' = Used(c) + 1
        /\ made' = made + 0
    BY <1>1, <2>2, <2>4, TriedCounts DEF Quiet
  <2>6. UNCHANGED <<pc, call, calls, active, counted, raised>> /\ pc = "calling"
    BY <1>1, ActsInCall DEF Quiet
  <2> QED
    BY <1>1, <2>3, <2>5, <2>6, LedgerStep
<1> QED
  BY <1>3, <1>4

(* An exception that nobody classifies ends what the ledger promises.      *)
LEMMA RaisesCounted ==
  ASSUME CountInv, RequestInv', NEW c \in active, Raises(c)
  PROVE  CountInv'
<1>1. raised' = TRUE /\ UNCHANGED <<pc, calls, call, active, counted, made, billed>>
  BY DEF Raises, Quiet
<1>2. AgentsInv' /\ PlainTyped' /\ LedgerInv'
  BY <1>1 DEF CountInv, AgentsInv, PlainTyped, LedgerInv, Agents
<1> QED
  BY <1>2 DEF CountInv

LEMMA StepCounted ==
  ASSUME CountInv, NEW c \in Client, Step(c)
  PROVE  CountInv'
<1>1. RequestInv' /\ c \in active
  BY StepInv DEF CountInv, Step
<1>2. \/ Send(c) \/ TooLarge(c) \/ TransientError(c) \/ PermanentError(c)
      \/ Raises(c) \/ Unusable(c) \/ \E out \in Answers(c) : Proposed(c, out)
  BY DEF Step
<1> QED
  BY <1>1, <1>2, SendCounted, TooLargeCounted, TransientErrorCounted,
     PermanentErrorCounted, RaisesCounted, UnusableCounted, ProposedCounted

LEMMA WorkersShape ==
  ASSUME NEW count \in Slot
  PROVE  Workers(count) \in ActiveSets /\ Cardinality(Workers(count)) <= count
<1>1. count \in Nat /\ count > 0
  BY DEF Slot
<1> DEFINE n == Min({AgentWorkers, count})
<1>2. n \in {AgentWorkers, count} /\ n <= AgentWorkers /\ n <= count
  <2>1. \E x \in {AgentWorkers, count} : \A y \in {AgentWorkers, count} : x <= y
    BY <1>1, Bounds
  <2> QED
    BY <2>1 DEF Min
<1>3. n \in Nat /\ n >= 1
  BY <1>1, <1>2, Bounds
<1>4. Workers(count) = IF n = 1 THEN {Primary} ELSE 1..n
  BY DEF Workers
<1> HIDE DEF n
<1>5. CASE n = 1
  <2>1. Workers(count) = {Primary} /\ Cardinality({Primary}) = 1
    BY <1>4, <1>5, FS_Singleton
  <2> QED
    BY <1>1, <2>1 DEF ActiveSets
<1>6. CASE n # 1
  <2>1. n \in 2..AgentWorkers
    BY <1>2, <1>3, <1>6, Bounds
  <2>2. Cardinality(1..n) = n - 1 + 1
    BY <1>3, FS_Interval
  <2>3. Workers(count) \in ActiveSets /\ Cardinality(Workers(count)) = n
    BY <1>3, <1>4, <1>6, <2>1, <2>2 DEF ActiveSets
  <2> QED
    BY <1>2, <2>3
<1> QED
  BY <1>5, <1>6

(* A call starts with nothing spent.                                       *)
LEMMA CallCounted ==
  ASSUME CountInv, NEW kind \in Kinds, NEW count \in Slot, Call(kind, count)
  PROVE  CountInv'
<1>1. RequestInv' /\ RequestInv
  BY CallStep DEF CountInv
<1>2. /\ pc = "idle" /\ calls < MaxCalls /\ pc' = "calling" /\ calls' = calls + 1
      /\ active' = Workers(count) /\ call' = [kind |-> kind, count |-> count]
      /\ client' = [c \in Client |-> IF c \in active' THEN Asked(client[c]) ELSE client[c]]
      /\ UNCHANGED <<counted, made, billed, raised>>
  BY DEF Call
<1>3. AgentsInv'
  <2>1. call'.count = count
    BY <1>2
  <2> QED
    BY <1>2, <2>1, WorkersShape DEF AgentsInv, Agents
<1>4. PlainTyped'
  <2>1. calls \in 0..MaxCalls /\ MaxCalls \in Nat
    BY GenerationAssumption DEF CountInv, PlainTyped
  <2>2. calls' \in 0..MaxCalls
    BY <1>2, <2>1
  <2> QED
    BY <1>2, <2>2 DEF CountInv, PlainTyped
<1>5. PICK A : A = active'
  OBVIOUS
<1>6. A \in ActiveSets /\ A \subseteq Client
  BY <1>3, <1>5, AgentsCover DEF AgentsInv
<1>7. \A c \in Client : client[c] \in State /\ AtRest(c)
  BY <1>1, <1>2 DEF RequestInv, Typed
<1>8. \A c \in A : client'[c].at = "prompt" /\ client'[c].tries = 0
                     /\ ~client'[c].recovering
  BY <1>2, <1>5, <1>6, <1>7 DEF Asked, State, AtRest
<1>9. \A c \in A : Spent(c)' = 0 /\ Used(c)' = 0
  BY <1>8 DEF Spent, Used, Returned
<1>10. PICK f, g : f = SpentBy' /\ g = UsedBy'
  OBVIOUS
<1>11. \A c \in A : f[c] = 0 /\ g[c] = 0
  BY <1>6, <1>9, <1>10 DEF SpentBy, UsedBy
<1>12. Total(f)' = 0 /\ Total(g)' = 0
  BY <1>5, <1>6, <1>11, TotalOfNothing
<1>13. Total(SpentBy)' = 0 /\ Total(UsedBy)' = 0
  BY <1>10, <1>12
<1>14. LedgerInv'
  BY <1>2, <1>13 DEF LedgerInv, CountInv, PlainTyped
<1> QED
  BY <1>1, <1>3, <1>4, <1>14 DEF CountInv

(* When all agents have returned, what they report is what they spent.     *)
LEMMA ReturnCounted ==
  ASSUME CountInv, Return
  PROVE  CountInv'
<1>1. RequestInv' /\ RequestInv
  BY ReturnStep DEF CountInv
<1> DEFINE f == [c \in Client |-> AttemptsOf(c)]
           g == [c \in Client |-> UsageOf(c)]
<1>2. /\ pc = "calling" /\ pc' \in {"stopped", "idle"}
      /\ \A c \in active : Returned(c)
      /\ counted' = [attempts |-> counted.attempts + Total(f),
                     usage |-> counted.usage + Total(g)]
      /\ UNCHANGED <<calls, call, active, made, billed, raised>>
  BY DEF Return
<1>3. active \in ActiveSets /\ active \subseteq Client
  BY AgentsCover DEF CountInv, AgentsInv
<1>4. f \in [Client -> Nat] /\ g \in [Client -> Nat]
  BY <1>1, ReportsAreNat
<1>5. \A c \in active : f[c] = SpentBy[c] /\ g[c] = UsedBy[c]
  BY <1>2, <1>3 DEF SpentBy, UsedBy, Spent, Used
<1>6. \A i \in 1..Agents : Agent(i) \in active
  BY <1>3, AgentsCover DEF Agents, Agent
<1> HIDE DEF f, g
<1>7. Total(f) = Total(SpentBy) /\ Total(g) = Total(UsedBy)
  <2>1. [i \in 1..Agents |-> f[Agent(i)]] = [i \in 1..Agents |-> SpentBy[Agent(i)]]
    BY <1>5, <1>6
  <2>2. [i \in 1..Agents |-> g[Agent(i)]] = [i \in 1..Agents |-> UsedBy[Agent(i)]]
    BY <1>5, <1>6
  <2> QED
    BY <2>1, <2>2 DEF Total
<1>8. Total(f) \in Nat /\ Total(g) \in Nat
  BY <1>3, <1>4, TotalIsNat
<1>9. counted.attempts \in Nat /\ counted.usage \in Nat
  BY DEF CountInv, PlainTyped
<1>10. counted' \in [attempts : Nat, usage : Nat]
  BY <1>2, <1>8, <1>9
<1>11. AgentsInv' /\ PlainTyped'
  BY <1>2, <1>10 DEF CountInv, AgentsInv, PlainTyped, Agents
<1>12. LedgerInv'
  BY <1>2, <1>7 DEF CountInv, LedgerInv
<1> QED
  BY <1>1, <1>11, <1>12 DEF CountInv

LEMMA PreflightCounts ==
  ASSUME NEW m \in Preflights
  PROVE  Attempts(m, 0) \in Nat /\ m.usage \in Nat
BY Bounds DEF Preflights, Attempts, NoMeta

LEMMA ResumeCounted ==
  ASSUME CountInv, Resume
  PROVE  CountInv'
<1>1. RequestInv' /\ RequestInv
  BY ResumeStep DEF CountInv
<1>2. PICK m \in Preflights :
        /\ counted' = [attempts |-> counted.attempts + Attempts(m, 0),
                       usage    |-> counted.usage + m.usage]
        /\ made' = made + Attempts(m, 0)
        /\ billed' = billed + m.usage
  BY DEF Resume
<1>3. Attempts(m, 0) \in Nat /\ m.usage \in Nat
  BY PreflightCounts
<1>4. pc = "stopped" /\ pc' = "idle" /\ UNCHANGED <<calls, call, active, raised>>
  BY DEF Resume
<1>5. /\ counted.attempts \in Nat /\ counted.usage \in Nat
      /\ made \in Nat /\ billed \in Nat
  BY DEF CountInv, PlainTyped
<1>6. /\ counted'.attempts = counted.attempts + Attempts(m, 0)
      /\ counted'.usage = counted.usage + m.usage
      /\ counted' \in [attempts : Nat, usage : Nat]
      /\ made' \in Nat /\ billed' \in Nat
  BY <1>2, <1>3, <1>5
<1>7. AgentsInv' /\ PlainTyped'
  BY <1>4, <1>6 DEF CountInv, AgentsInv, PlainTyped, Agents
<1>8. LedgerInv'
  BY <1>2, <1>4, <1>6 DEF CountInv, LedgerInv
<1> QED
  BY <1>1, <1>7, <1>8 DEF CountInv

LEMMA InitCounted == Init => CountInv
<1> SUFFICES ASSUME Init  PROVE CountInv
  OBVIOUS
<1>1. PICK m \in Preflights :
        /\ counted = [attempts |-> Attempts(m, 0), usage |-> m.usage]
        /\ made = counted.attempts /\ billed = counted.usage
  BY DEF Init
<1>2. Attempts(m, 0) \in Nat /\ m.usage \in Nat
  BY PreflightCounts
<1>3. /\ counted \in [attempts : Nat, usage : Nat]
      /\ made \in Nat /\ billed \in Nat
  BY <1>1, <1>2
<1>4. PlainTyped
  <2>1. pc = "idle" /\ calls = 0 /\ raised = FALSE
    BY DEF Init
  <2>2. 0 \in 0..MaxCalls
    BY GenerationAssumption
  <2> QED
    BY <1>3, <2>1, <2>2 DEF PlainTyped
<1>5. AgentsInv
  BY FS_EmptySet DEF Init, AgentsInv, ActiveSets, Agents
<1>6. LedgerInv
  BY <1>1 DEF Init, LedgerInv
<1> QED
  BY <1>4, <1>5, <1>6, InitInv DEF CountInv

LEMMA NextCounted == CountInv /\ [Next]_vars => CountInv'
<1> SUFFICES ASSUME CountInv, [Next]_vars  PROVE CountInv'
  OBVIOUS
<1>1. ASSUME NEW kind \in Kinds, NEW count \in Slot, Call(kind, count)
      PROVE  CountInv'
  BY <1>1, CallCounted
<1>2. ASSUME NEW c \in Client, Step(c)
      PROVE  CountInv'
  BY <1>2, StepCounted
<1>3. CASE Return
  BY <1>3, ReturnCounted
<1>4. CASE Resume
  BY <1>4, ResumeCounted
<1>5. CASE UNCHANGED vars
  <2>1. RequestInv'
    BY <1>5, NextInv DEF CountInv
  <2>2. /\ UNCHANGED <<pc, calls, call, active, client, counted, made, billed, raised>>
    BY <1>5 DEF vars
  <2>3. SpentBy' = SpentBy /\ UsedBy' = UsedBy
    BY <2>2 DEF SpentBy, UsedBy, Spent, Used, Returned, AttemptsOf, UsageOf
  <2>4. PICK f, g : f = SpentBy /\ g = UsedBy
    OBVIOUS
  <2>5. Total(f)' = Total(f) /\ Total(g)' = Total(g)
    BY <2>2, TotalKept
  <2>6. Total(SpentBy)' = Total(SpentBy) /\ Total(UsedBy)' = Total(UsedBy)
    BY <2>3, <2>4, <2>5
  <2>7. AgentsInv' /\ PlainTyped' /\ LedgerInv'
    BY <2>2, <2>6 DEF CountInv, AgentsInv, PlainTyped, LedgerInv, Agents
  <2> QED
    BY <2>1, <2>7 DEF CountInv
<1> QED
  BY <1>1, <1>2, <1>3, <1>4, <1>5 DEF Next

(***************************************************************************)
(* While the transport raises nothing that the client does not classify,   *)
(* the controller's counters are what was sent and billed, for any number  *)
(* of agents, retries, recoveries, failed calls and resumes (_request,     *)
(* _merge_schema_attempts, the parallel metadata, _generate_from_parent).  *)
(***************************************************************************)
THEOREM EverythingIsCounted == Spec => []AttemptsCounted
<1>1. CountInv => AttemptsCounted
  BY DEF CountInv, LedgerInv, AttemptsCounted
<1> QED
  BY <1>1, InitCounted, NextCounted, PTL DEF Spec

-----------------------------------------------------------------------------
(* The slots of the agents *)

\* Where the slots of an agent begin, and where they end.
Begin(total, parts, i) ==
  (i - 1) * (total \div parts)
  + (IF i - 1 <= total % parts THEN i - 1 ELSE total % parts)
Finish(total, parts, i) ==
  i * (total \div parts) + (IF i <= total % parts THEN i ELSE total % parts)

LEMMA Division ==
  ASSUME NEW total \in Nat, NEW parts \in Nat, parts > 0
  PROVE  \E q, r \in Nat :
           /\ q = total \div parts /\ r = total % parts
           /\ r < parts /\ total = parts * q + r
<1>1. total \div parts \in Nat /\ total % parts \in 0..parts - 1
  BY SMTT(30)
<1>2. PICK q \in Nat, r \in 0..parts - 1 :
        q = total \div parts /\ r = total % parts
  BY <1>1
<1>3. total = parts * q + r
  BY <1>2
<1>4. r \in Nat /\ r < parts
  OBVIOUS
<1> QED
  BY <1>2, <1>3, <1>4

LEMMA BeginFinish ==
  ASSUME NEW total \in Nat, NEW parts \in Nat, parts > 0, NEW i \in 1..parts
  PROVE  /\ Begin(total, parts, 1) = 0
         /\ Begin(total, parts, i) \in Nat
         /\ Finish(total, parts, i)
              = Begin(total, parts, i) + Share(total, parts, i)
         /\ Begin(total, parts, i + 1) = Finish(total, parts, i)
         /\ Share(total, parts, i) \in Nat
         /\ Finish(total, parts, i) <= total
         /\ Finish(total, parts, parts) = total
         /\ parts <= total => Share(total, parts, i) > 0
<1>1. PICK q, r \in Nat :
        /\ q = total \div parts /\ r = total % parts
        /\ r < parts /\ total = parts * q + r
  BY Division
<1>2. q \in Nat /\ r \in Nat /\ r < parts /\ total = parts * q + r
  BY <1>1
<1>3. i \in Nat /\ 1 <= i /\ i <= parts
  OBVIOUS
<1>4. /\ Begin(total, parts, 1) = 0 * q + 0
      /\ Begin(total, parts, i) = (i - 1) * q + (IF i - 1 <= r THEN i - 1 ELSE r)
      /\ Begin(total, parts, i + 1) = ((i + 1) - 1) * q + (IF (i + 1) - 1 <= r THEN (i + 1) - 1 ELSE r)
      /\ Finish(total, parts, i) = i * q + (IF i <= r THEN i ELSE r)
      /\ Finish(total, parts, parts) = parts * q + (IF parts <= r THEN parts ELSE r)
      /\ Share(total, parts, i) = q + (IF i <= r THEN 1 ELSE 0)
  <2>1. 1 - 1 = 0 /\ 0 <= r
    BY <1>2
  <2> QED
    BY <1>1, <2>1 DEF Begin, Finish, Share
<1>5. PICK a, b, c : a = (i - 1) * q /\ b = i * q /\ c = (parts - i) * q
  OBVIOUS
<1>6. a \in Nat /\ b \in Nat /\ c \in Nat
  <2>1. i - 1 \in Nat /\ parts - i \in Nat
    BY <1>3
  <2>2. \A x \in Nat : x * q \in Nat
    BY <1>2
  <2> QED
    BY <1>3, <1>5, <2>1, <2>2
<1>7. b = a + q
  BY <1>2, <1>3, <1>5
<1>8. parts * q = b + c
  BY <1>2, <1>3, <1>5
<1>9. parts <= total => q >= 1
  <2> SUFFICES ASSUME parts <= total, q = 0  PROVE FALSE
    BY <1>2
  <2>1. total = 0 + r
    BY <1>2
  <2> QED
    BY <1>2, <2>1
<1>10. Begin(total, parts, i + 1) = b + (IF i <= r THEN i ELSE r)
  <2>1. (i + 1) - 1 = i
    BY <1>3
  <2> QED
    BY <1>4, <1>5, <2>1
<1>11. Begin(total, parts, 1) = 0
  BY <1>2, <1>4
<1> QED
  BY <1>2, <1>3, <1>4, <1>5, <1>6, <1>7, <1>8, <1>9, <1>10, <1>11

LEMMA StartIs ==
  ASSUME NEW total \in Nat, NEW parts \in Nat, parts > 0
  PROVE  \A i \in 1..parts : Start(total, parts)[i] = Begin(total, parts, i)
<1> DEFINE B == [i \in 1..parts |-> Begin(total, parts, i)]
           F == CHOOSE f : f = [i \in 1..parts |->
                  IF i = 1 THEN 0 ELSE f[i - 1] + Share(total, parts, i - 1)]
<1>1. ASSUME NEW i \in 1..parts, i # 1
      PROVE  /\ i - 1 \in 1..parts
             /\ Begin(total, parts, i)
                  = Begin(total, parts, i - 1) + Share(total, parts, i - 1)
  <2>1. i - 1 \in 1..parts /\ (i - 1) + 1 = i
    BY <1>1
  <2> QED
    BY <2>1, BeginFinish
<1>2. 1 \in 1..parts /\ Begin(total, parts, 1) = 0
  <2>1. 1 \in 1..parts
    OBVIOUS
  <2> QED
    BY <2>1, BeginFinish
<1>3. B = [i \in 1..parts |->
             IF i = 1 THEN 0 ELSE B[i - 1] + Share(total, parts, i - 1)]
  <2>1. \A i \in 1..parts :
          B[i] = IF i = 1 THEN 0 ELSE B[i - 1] + Share(total, parts, i - 1)
    BY <1>1, <1>2
  <2> HIDE DEF B
  <2>2. B = [i \in 1..parts |-> B[i]]
    BY DEF B
  <2> QED
    BY <2>1, <2>2
<1> HIDE DEF B
<1>4. F = [i \in 1..parts |->
             IF i = 1 THEN 0 ELSE F[i - 1] + Share(total, parts, i - 1)]
  BY <1>3
<1>5. Start(total, parts) = F
  BY DEF Start
<1> HIDE DEF F
<1> DEFINE P == {i \in 0..parts : i > 0 => F[i] = Begin(total, parts, i)}
<1>6. 0 \in P
  OBVIOUS
<1>7. ASSUME NEW i \in 0..parts, i < parts, i \in P  PROVE i + 1 \in P
  <2>1. i + 1 \in 1..parts /\ i + 1 \in 0..parts /\ (i + 1) - 1 = i
    BY <1>7
  <2>2. CASE i = 0
    BY <1>2, <1>4, <2>1, <2>2
  <2>3. CASE i # 0
    <3>1. i > 0 /\ i + 1 # 1
      BY <1>7, <2>3
    <3>2. F[i + 1] = F[i] + Share(total, parts, i)
      BY <1>4, <2>1, <3>1
    <3>3. F[i] = Begin(total, parts, i)
      BY <1>7, <3>1
    <3>4. Begin(total, parts, i + 1) = Begin(total, parts, i) + Share(total, parts, i)
      BY <1>1, <2>1, <3>1
    <3> QED
      BY <2>1, <3>2, <3>3, <3>4
  <2> QED
    BY <2>2, <2>3
<1> HIDE DEF P
<1>8. \A i \in 0..parts : i \in P
  BY <1>6, <1>7, RangeInduction
<1>9. ASSUME NEW i \in 1..parts  PROVE F[i] = Begin(total, parts, i)
  <2>1. i \in 0..parts /\ i > 0
    OBVIOUS
  <2> QED
    BY <1>8, <2>1 DEF P
<1> QED
  BY <1>5, <1>9

(* The agents of a call partition its slots, in order, and none has none.  *)
Partition(fin) ==
  /\ fin \in [0..Agents -> 0..call.count]
  /\ fin[0] = 0 /\ fin[Agents] = call.count
  /\ \A i \in 1..Agents :
       fin[i - 1] < fin[i] /\ SlotsOf(Agent(i)) = fin[i - 1] + 1..fin[i]

LEMMA PartitionExists ==
  ASSUME active \in ActiveSets, active # {}, call.count \in Nat,
         call.count > 0, Agents <= call.count
  PROVE  \E fin : Partition(fin)
<1> DEFINE count == call.count
<1>1. CASE active = {Primary}
  <2>1. Agents = 1 /\ \A i \in 1..Agents : Agent(i) = Primary /\ i = 1
    BY <1>1, FS_Singleton DEF Agents, Agent
  <2> DEFINE fin == [i \in 0..1 |-> IF i = 0 THEN 0 ELSE count]
  <2>2. fin \in [0..1 -> 0..count] /\ fin[0] = 0 /\ fin[1] = count
    OBVIOUS
  <2>3. SlotsOf(Primary) = 0 + 1..count
    BY DEF SlotsOf
  <2> HIDE DEF fin
  <2>4. \A i \in 1..Agents :
          fin[i - 1] < fin[i] /\ SlotsOf(Agent(i)) = fin[i - 1] + 1..fin[i]
    <3>1. \A i \in 1..Agents : i - 1 = 0 /\ i = 1
      BY <2>1
    <3> QED
      BY <2>1, <2>2, <2>3, <3>1
  <2>5. Partition(fin)
    BY <2>1, <2>2, <2>4 DEF Partition
  <2> QED
    BY <2>5
<1>2. CASE active # {Primary}
  <2>1. PICK n \in 2..AgentWorkers : active = 1..n
    BY <1>2 DEF ActiveSets
  <2>2. n \in Nat /\ n > 0 /\ 1..n # {Primary}
    <3>1. 1 \in 1..n /\ Primary = 0
      BY <2>1 DEF Primary
    <3> QED
      BY <2>1, <3>1
  <2>3. Agents = n
    <3>1. Cardinality(1..n) = n - 1 + 1
      BY <2>2, FS_Interval
    <3> QED
      BY <2>1, <2>2, <3>1 DEF Agents
  <2>4. \A i \in 1..n : Agent(i) = i /\ i # Primary
    BY <2>1, <2>2 DEF Agent, Primary
  <2> DEFINE fin == [i \in 0..n |-> IF i = 0 THEN 0 ELSE Finish(count, n, i)]
  <2>5. fin \in [0..n -> 0..count]
    <3>1. ASSUME NEW i \in 0..n, i # 0  PROVE Finish(count, n, i) \in 0..count
      <4>1. i \in 1..n
        BY <3>1
      <4>2. /\ Finish(count, n, i) = Begin(count, n, i) + Share(count, n, i)
            /\ Begin(count, n, i) \in Nat /\ Share(count, n, i) \in Nat
            /\ Finish(count, n, i) <= count
        BY <2>2, <4>1, BeginFinish
      <4> QED
        BY <4>2
    <3> QED
      BY <3>1
  <2>6. fin[0] = 0 /\ fin[n] = count
    <3>1. n \in 1..n
      BY <2>2
    <3>2. Finish(count, n, n) = count
      BY <2>2, <3>1, BeginFinish
    <3> QED
      BY <2>2, <3>2
  <2>7. ASSUME NEW i \in 1..n
        PROVE  fin[i - 1] < fin[i] /\ SlotsOf(Agent(i)) = fin[i - 1] + 1..fin[i]
    <3>1. /\ Finish(count, n, i) = Begin(count, n, i) + Share(count, n, i)
          /\ Begin(count, n, i) \in Nat /\ Share(count, n, i) \in Nat
          /\ Share(count, n, i) > 0
      BY <2>2, <2>3, BeginFinish
    <3>2. fin[i] = Finish(count, n, i)
      OBVIOUS
    <3>3. fin[i - 1] = Begin(count, n, i)
      <4>1. CASE i = 1
        <5>1. Begin(count, n, 1) = 0
          BY <2>2, BeginFinish
        <5> QED
          BY <4>1, <5>1
      <4>2. CASE i # 1
        <5>1. i - 1 \in 1..n /\ i - 1 \in 0..n /\ i - 1 # 0 /\ (i - 1) + 1 = i
          BY <4>2
        <5>2. Begin(count, n, (i - 1) + 1) = Finish(count, n, i - 1)
          BY <2>2, <5>1, BeginFinish
        <5> QED
          BY <5>1, <5>2
      <4> QED
        BY <4>1, <4>2
    <3>4. Start(count, n)[i] = Begin(count, n, i)
      BY <2>2, StartIs
    <3>5. SlotsOf(i) = Begin(count, n, i) + 1 .. Begin(count, n, i) + Share(count, n, i)
      BY <2>3, <2>4, <3>4 DEF SlotsOf, Agents
    <3> HIDE DEF fin
    <3> QED
      BY <2>4, <3>1, <3>2, <3>3, <3>5
  <2> HIDE DEF fin
  <2>8. Partition(fin)
    BY <2>3, <2>5, <2>6, <2>7 DEF Partition
  <2> QED
    BY <2>8
<1> QED
  BY <1>1, <1>2

-----------------------------------------------------------------------------
(* The proposals of the agents, one agent after the other *)

LEMMA FlattenSteps ==
  ASSUME NEW n \in Nat, n > 0, NEW S, NEW ss \in [1..n -> Seq(S)]
  PROVE  \E f \in [0..n -> Seq(S)] :
           /\ f[0] = <<>> /\ \A i \in 1..n : f[i] = f[i - 1] \o ss[i]
           /\ FlattenSeq(ss) = f[n]
<1> DEFINE step == [p \in (1..n) \X Seq(S) |-> p[2] \o ss[p[1]]]
<1>1. step \in [(1..n) \X Seq(S) -> Seq(S)]
  <2>1. \A p \in (1..n) \X Seq(S) : p[2] \o ss[p[1]] \in Seq(S)
    <3> SUFFICES ASSUME NEW i \in 1..n, NEW s \in Seq(S)
                 PROVE  s \o ss[i] \in Seq(S)
      OBVIOUS
    <3>1. ss[i] \in Seq(S)
      OBVIOUS
    <3> QED
      BY <3>1, ConcatProperties
  <2> QED
    BY <2>1
<1>2. \A i \in 1..n, v \in Seq(S) : step[<<i, v>>] = v \o ss[i]
  OBVIOUS
<1> HIDE DEF step
<1>3. Recurs(n, Seq(S), <<>>, step)
  BY <1>1 DEF Recurs
<1>4. PICK g : Solves(g, n, Seq(S), <<>>, step)
  BY <1>3, RecursionExists
<1>5. /\ g \in [0..n -> Seq(S)] /\ g[0] = <<>>
      /\ \A i \in 1..n : g[i] = step[<<i, g[i - 1]>>]
  BY <1>4 DEF Solves
<1>6. \A i \in 1..n : g[i] = g[i - 1] \o ss[i]
  <2> SUFFICES ASSUME NEW i \in 1..n  PROVE g[i] = g[i - 1] \o ss[i]
    OBVIOUS
  <2>1. i - 1 \in 0..n
    OBVIOUS
  <2> QED
    BY <1>2, <1>5, <2>1
<1>7. g[1] = ss[1]
  <2>1. 1 \in 1..n /\ 1 - 1 = 0 /\ ss[1] \in Seq(S)
    OBVIOUS
  <2>2. g[1] = <<>> \o ss[1]
    <3>1. g[1] = g[1 - 1] \o ss[1]
      BY <1>6, <2>1
    <3> QED
      BY <1>5, <2>1, <3>1
  <2> QED
    BY <2>1, <2>2, ConcatEmptySeq
<1> DEFINE h == [i \in 1..n |-> g[i]]
           F == CHOOSE f : f = [i \in 1..n |->
                  IF i = 1 THEN ss[i] ELSE f[i - 1] \o ss[i]]
<1>8. h = [i \in 1..n |-> IF i = 1 THEN ss[i] ELSE h[i - 1] \o ss[i]]
  <2>1. ASSUME NEW i \in 1..n
        PROVE  h[i] = IF i = 1 THEN ss[i] ELSE h[i - 1] \o ss[i]
    <3>1. CASE i = 1
      BY <1>7, <3>1
    <3>2. CASE i # 1
      <4>1. i - 1 \in 1..n
        BY <3>2
      <4>2. h[i] = g[i] /\ h[i - 1] = g[i - 1]
        BY <4>1
      <4> HIDE DEF h
      <4> QED
        BY <1>6, <3>2, <4>2
    <3> QED
      BY <3>1, <3>2
  <2> HIDE DEF h
  <2>2. h = [i \in 1..n |-> h[i]]
    BY DEF h
  <2> QED
    BY <2>1, <2>2
<1> HIDE DEF h
<1>9. F = [i \in 1..n |-> IF i = 1 THEN ss[i] ELSE F[i - 1] \o ss[i]]
  BY <1>8
<1>10. FlattenSeq(ss) = F[n]
  <2>1. ss \in Seq(Seq(S)) /\ Len(ss) = n
    OBVIOUS
  <2>2. FlattenSeq(ss) = (CHOOSE f : f = [i \in 1..Len(ss) |->
                  IF i = 1 THEN ss[i] ELSE f[i - 1] \o ss[i]])[Len(ss)]
    BY <2>1 DEF FlattenSeq
  <2> QED
    BY <2>1, <2>2
<1> HIDE DEF F
<1> DEFINE P == {i \in 0..n : i > 0 => F[i] = g[i]}
<1>11. 0 \in P
  OBVIOUS
<1>12. ASSUME NEW i \in 0..n, i < n, i \in P  PROVE i + 1 \in P
  <2>1. i + 1 \in 1..n /\ i + 1 \in 0..n /\ (i + 1) - 1 = i
    BY <1>12
  <2>2. CASE i = 0
    BY <1>7, <1>9, <2>1, <2>2
  <2>3. CASE i # 0
    <3>1. i > 0 /\ i + 1 # 1
      BY <1>12, <2>3
    <3>2. F[i + 1] = F[i] \o ss[i + 1] /\ g[i + 1] = g[i] \o ss[i + 1]
      BY <1>6, <1>9, <2>1, <3>1
    <3>3. F[i] = g[i]
      BY <1>12, <3>1
    <3> QED
      BY <2>1, <3>2, <3>3
  <2> QED
    BY <2>2, <2>3
<1> HIDE DEF P
<1>13. \A i \in 0..n : i \in P
  BY <1>11, <1>12, RangeInduction
<1>14. F[n] = g[n]
  <2>1. n \in 0..n
    OBVIOUS
  <2> QED
    BY <1>13, <2>1 DEF P
<1> QED
  BY <1>5, <1>6, <1>10, <1>14

\* No client answers with more than its slots, and none answers at rest.
OutInv ==
  /\ pc = "calling" =>
       /\ active # {}
       /\ call.kind = "generate" =>
            \A c \in active :
              client[c].out = <<>> \/ Len(client[c].out) <= Cardinality(SlotsOf(c))
  /\ pc # "calling" => \A c \in Client : client[c].out = <<>>

\* The merged proposals: as many as there are slots at most, and then each
\* stands at a slot of its own agent.
InOrder(ps) ==
  /\ ps \in Seq(Proposal) /\ Len(ps) <= call.count
  /\ \A k \in 1..Len(ps) : ps[k].by \in active
  /\ Len(ps) = call.count => \A k \in 1..Len(ps) : k \in SlotsOf(ps[k].by)

LEMMA MergeShape ==
  ASSUME RequestInv, AgentsInv, OutInv, pc = "calling", call.kind = "generate"
  PROVE  InOrder(Merge)
<1> DEFINE n == Agents
           ss == [i \in 1..n |-> Proposals(Agent(i))]
<1>1. /\ active \in ActiveSets /\ active # {} /\ active \subseteq Client
      /\ call.count \in Nat /\ call.count > 0 /\ Agents <= call.count
      /\ client \in [Client -> State]
  BY DEF RequestInv, Typed, AgentsInv, OutInv, Slot
<1>2. PICK fin : Partition(fin)
  BY <1>1, PartitionExists
<1>3. n \in Nat /\ n > 0 /\ \A i \in 1..n : Agent(i) \in active
  <2>1. /\ n \in Nat /\ \A i \in 1..n : Agent(i) \in active
        /\ \A c \in active : \E k \in 1..n : TRUE
    BY <1>1, AgentsCover DEF Agents, Agent
  <2> QED
    BY <1>1, <2>1
<1>4. ASSUME NEW i \in 1..n
      PROVE  /\ ss[i] \in Seq(Proposal) /\ Len(ss[i]) <= fin[i] - fin[i - 1]
             /\ \A k \in 1..Len(ss[i]) : ss[i][k].by = Agent(i)
  <2> DEFINE c == Agent(i)
  <2>1. c \in active /\ c \in Client /\ client[c] \in State
    BY <1>1, <1>3
  <2>2. client[c].out \in Seq(Slot \cup {NoSlot})
    BY <2>1 DEF State
  <2>3. client[c].out = <<>> \/ Len(client[c].out) <= Cardinality(SlotsOf(c))
    BY <2>1 DEF OutInv
  <2>4. /\ SlotsOf(c) = fin[i - 1] + 1..fin[i] /\ fin[i - 1] < fin[i]
        /\ fin[i - 1] \in Nat /\ fin[i] \in Nat
    <3>1. i \in 0..n /\ i - 1 \in 0..n
      BY <1>3
    <3>2. fin[i - 1] \in 0..call.count /\ fin[i] \in 0..call.count
      BY <1>2, <3>1 DEF Partition
    <3> QED
      BY <1>2, <3>2 DEF Partition
  <2>5. Cardinality(SlotsOf(c)) = fin[i] - fin[i - 1]
    <3>1. fin[i - 1] + 1 \in Int /\ fin[i] \in Int /\ ~(fin[i - 1] + 1 > fin[i])
      BY <2>4
    <3>2. Cardinality(fin[i - 1] + 1..fin[i]) = fin[i] - (fin[i - 1] + 1) + 1
      BY <3>1, FS_Interval
    <3> QED
      BY <2>4, <3>2
  <2>6. ss[i] = Proposals(c)
    OBVIOUS
  <2> HIDE DEF c, ss
  <2>7. /\ ss[i] \in Seq(Proposal) /\ Len(ss[i]) = Len(client[c].out)
        /\ \A k \in 1..Len(ss[i]) : ss[i][k].by = c
    <3>1. Len(client[c].out) \in Nat
          /\ \A k \in 1..Len(client[c].out) : client[c].out[k] \in Slot \cup {NoSlot}
      BY <2>2
    <3>2. \A k \in 1..Len(client[c].out) :
            [by |-> c, names |-> client[c].out[k], slot |-> NoSlot] \in Proposal
      BY <2>1, <3>1 DEF Proposal
    <3> QED
      BY <2>6, <3>1, <3>2 DEF Proposals
  <2>8. Len(client[c].out) <= fin[i] - fin[i - 1]
    <3>1. CASE client[c].out = <<>>
      BY <2>4, <3>1
    <3>2. CASE client[c].out # <<>>
      BY <2>3, <2>5, <3>2
    <3> QED
      BY <3>1, <3>2
  <2> QED
    BY <2>7, <2>8 DEF c
<1>5. ss \in [1..n -> Seq(Proposal)] /\ Merge = FlattenSeq(ss)
  BY <1>4 DEF Merge
<1> HIDE DEF ss
<1> HIDE DEF n
<1>6. PICK f \in [0..n -> Seq(Proposal)] :
        /\ f[0] = <<>> /\ \A i \in 1..n : f[i] = f[i - 1] \o ss[i]
        /\ FlattenSeq(ss) = f[n]
  BY <1>3, <1>5, FlattenSteps
<1>7. /\ fin \in [0..n -> 0..call.count] /\ fin[0] = 0 /\ fin[n] = call.count
      /\ \A i \in 1..n :
           fin[i - 1] < fin[i] /\ SlotsOf(Agent(i)) = fin[i - 1] + 1..fin[i]
  BY <1>2 DEF Partition, n
<1> DEFINE Q(i) ==
             /\ Len(f[i]) <= fin[i]
             /\ \A k \in 1..Len(f[i]) : f[i][k].by \in active
             /\ Len(f[i]) = fin[i] => \A k \in 1..Len(f[i]) : k \in SlotsOf(f[i][k].by)
           P == {i \in 0..n : Q(i)}
<1>8. 0 \in P
  <2>1. Len(f[0]) = 0 /\ 0 \in 0..n /\ 1..0 = {}
    BY <1>3, <1>6
  <2>2. Q(0)
    BY <1>7, <2>1
  <2> QED
    BY <2>1, <2>2
<1>9. ASSUME NEW i \in 0..n, i < n, i \in P  PROVE i + 1 \in P
  <2>0. i + 1 \in 1..n /\ i + 1 \in 0..n /\ (i + 1) - 1 = i
    BY <1>3, <1>9
  <2>1. PICK s, t, u, lo, hi, c :
          /\ s = f[i] /\ t = ss[i + 1] /\ u = f[i + 1]
          /\ lo = fin[i] /\ hi = fin[i + 1] /\ c = Agent(i + 1)
    OBVIOUS
  <2>2. /\ s \in Seq(Proposal) /\ t \in Seq(Proposal) /\ u = s \o t
        /\ lo \in 0..call.count /\ hi \in 0..call.count
    BY <1>5, <1>6, <1>7, <2>0, <2>1
  <2>3. /\ lo < hi /\ SlotsOf(c) = lo + 1..hi /\ c \in active
        /\ Len(t) <= hi - lo
        /\ \A k \in 1..Len(t) : t[k].by = c
    <3>1. /\ lo < hi /\ SlotsOf(c) = lo + 1..hi /\ c \in active
      BY <1>3, <1>7, <2>0, <2>1
    <3> QED
      BY <1>4, <2>0, <2>1, <3>1
  <2>4. /\ Len(s) <= lo
        /\ \A k \in 1..Len(s) : s[k].by \in active
        /\ Len(s) = lo => \A k \in 1..Len(s) : k \in SlotsOf(s[k].by)
    BY <1>9, <2>1
  <2> HIDE DEF P, Q
  <2>5. /\ Len(u) = Len(s) + Len(t)
        /\ \A k \in 1..Len(u) : u[k] = IF k <= Len(s) THEN s[k] ELSE t[k - Len(s)]
        /\ Len(s) \in Nat /\ Len(t) \in Nat
    BY <2>2, ConcatProperties
  <2>6. lo \in Nat /\ hi \in Nat
    BY <2>2
  <2>7. Len(u) <= hi
    BY <2>3, <2>4, <2>5, <2>6
  <2>8. ASSUME NEW k \in 1..Len(u)
        PROVE  \/ k \in 1..Len(s) /\ u[k] = s[k]
               \/ k \in Len(s) + 1..Len(s) + Len(t) /\ u[k].by = c
    <3>1. CASE k <= Len(s)
      BY <2>5, <3>1
    <3>2. CASE ~(k <= Len(s))
      <4>1. k - Len(s) \in 1..Len(t) /\ k \in Len(s) + 1..Len(s) + Len(t)
        BY <2>5, <3>2
      <4>2. u[k] = t[k - Len(s)]
        BY <2>5, <3>2
      <4> QED
        BY <2>3, <4>1, <4>2
    <3> QED
      BY <3>1, <3>2
  <2>9. \A k \in 1..Len(u) : u[k].by \in active
    BY <2>3, <2>4, <2>8
  <2>10. ASSUME Len(u) = hi, NEW k \in 1..Len(u)
         PROVE  k \in SlotsOf(u[k].by)
    <3>1. Len(s) = lo /\ Len(t) = hi - lo
      <4>1. PICK x, y : x = Len(s) /\ y = Len(t)
        OBVIOUS
      <4>2. /\ x \in Nat /\ y \in Nat /\ x <= lo /\ y <= hi - lo /\ hi = x + y
        BY <2>3, <2>4, <2>5, <2>10, <4>1
      <4>3. \A a, b, l, h \in Nat :
              a <= l /\ b <= h - l /\ h = a + b => a = l /\ b = h - l
        OBVIOUS
      <4>4. x = lo /\ y = hi - lo
        BY <2>6, <4>2, <4>3
      <4> QED
        BY <4>1, <4>4
    <3>2. CASE k \in 1..Len(s) /\ u[k] = s[k]
      BY <2>4, <3>1, <3>2
    <3>3. CASE k \in Len(s) + 1..Len(s) + Len(t) /\ u[k].by = c
      <4>1. k \in lo + 1..hi
        BY <2>6, <3>1, <3>3
      <4> QED
        BY <2>3, <3>3, <4>1
    <3> QED
      BY <2>8, <3>2, <3>3
  <2>11. Q(i + 1)
    BY <2>1, <2>7, <2>9, <2>10 DEF Q
  <2> QED
    BY <2>0, <2>11 DEF P
<1> HIDE DEF P
<1>10. \A i \in 0..n : i \in P
  BY <1>3, <1>8, <1>9, RangeInduction
<1>11. n \in 0..n
  BY <1>3
<1>12. Q(n)
  BY <1>10, <1>11 DEF P
<1>13. Merge = f[n] /\ f[n] \in Seq(Proposal)
  BY <1>5, <1>6, <1>11
<1> QED
  BY <1>7, <1>12, <1>13 DEF InOrder

-----------------------------------------------------------------------------
(* The binding of the proposals to the slots of the call *)

Binding == [free : SUBSET Slot, bound : Seq(Proposal)]

\* Every proposal names a slot of its own; none names one.
AllApart(b, slots) ==
  /\ \A k \in 1..Len(b) : b[k].names \in slots
  /\ \A j, k \in 1..Len(b) : b[j].names = b[k].names => j = k
NoneNamed(b) == \A k \in 1..Len(b) : b[k].names = NoSlot

\* The binding of the first i proposals: those that got a slot, each one of
\* its own, and the slots that are left.
BindingOf(a, ps, i, count) ==
  /\ Len(a.bound) <= i
  /\ a.free # {} => Len(a.bound) = i
  /\ \A k \in 1..Len(a.bound) :
       /\ a.bound[k].by = ps[k].by /\ a.bound[k].names = ps[k].names
       /\ a.bound[k].slot \in (1..count) \ a.free
  /\ \A j, k \in 1..Len(a.bound) : a.bound[j].slot = a.bound[k].slot => j = k
  /\ \A x \in 1..count :
       x \in a.free \/ \E k \in 1..Len(a.bound) : a.bound[k].slot = x
  /\ AllApart(a.bound, 1..count) =>
       \A k \in 1..Len(a.bound) : a.bound[k].slot = a.bound[k].names
  /\ NoneNamed(a.bound) =>
       /\ \A k \in 1..Len(a.bound) : a.bound[k].slot = k
       /\ a.free = Len(a.bound) + 1..count
  /\ a.free \subseteq 1..count

LEMMA LeastSlot ==
  ASSUME NEW free \in SUBSET Slot, free # {}
  PROVE  Min(free) \in free /\ \A x \in free : Min(free) <= x
<1>1. free \in SUBSET Nat
  BY DEF Slot
<1>2. \E x \in free : \A y \in free : x <= y
  BY <1>1, LeastExists
<1> QED
  BY <1>2 DEF Min

LEMMA PlaceShape ==
  ASSUME NEW a \in Binding, NEW p \in Proposal, a.free # {},
         NEW slot, slot = Chosen(a.free, p), NEW q, q = [p EXCEPT !.slot = slot]
  PROVE  /\ slot \in a.free /\ q \in Proposal
         /\ q.by = p.by /\ q.names = p.names /\ q.slot = slot
         /\ Place(a, p) = [free |-> a.free \ {slot}, bound |-> Append(a.bound, q)]
         /\ Place(a, p) \in Binding
<1>1. slot \in a.free /\ slot \in Slot
  BY LeastSlot DEF Chosen, Binding
<1>2. Place(a, p) = [free |-> a.free \ {slot}, bound |-> Append(a.bound, q)]
  BY DEF Place, Taken
<1>3. q \in Proposal /\ q.by = p.by /\ q.names = p.names /\ q.slot = slot
  BY <1>1 DEF Proposal
<1>4. Append(a.bound, q) \in Seq(Proposal) /\ a.free \ {slot} \in SUBSET Slot
  BY <1>3, AppendProperties DEF Binding
<1>5. Place(a, p) \in Binding
  BY <1>2, <1>4 DEF Binding
<1> QED
  BY <1>1, <1>2, <1>3, <1>5

LEMMA PlaceStep ==
  ASSUME NEW a \in Binding, NEW ps \in Seq(Proposal), NEW count \in Nat,
         NEW i \in Nat, i < Len(ps), BindingOf(a, ps, i, count)
  PROVE  BindingOf(Place(a, ps[i + 1]), ps, i + 1, count)
<1>1. CASE a.free = {}
  <2>1. Place(a, ps[i + 1]) = a
    BY <1>1 DEF Place
  <2>2. Len(a.bound) <= i + 1
    <3>1. Len(a.bound) \in Nat
      BY DEF Binding
    <3> QED
      BY <3>1 DEF BindingOf
  <2> QED
    BY ZenonT(30), <1>1, <2>1, <2>2 DEF BindingOf
<1>2. CASE a.free # {}
  <2>1. PICK p, slot, q, n, b, z :
          /\ p = ps[i + 1] /\ slot = Chosen(a.free, p) /\ q = [p EXCEPT !.slot = slot]
          /\ n = Len(a.bound) /\ b = a.bound /\ z = Place(a, p)
    OBVIOUS
  <2>2. p \in Proposal
    <3>1. i + 1 \in 1..Len(ps)
      OBVIOUS
    <3> QED
      BY <2>1, <3>1
  <2>3. /\ slot \in a.free /\ q \in Proposal
        /\ q.by = p.by /\ q.names = p.names /\ q.slot = slot
        /\ z = [free |-> a.free \ {slot}, bound |-> Append(b, q)]
    <3>1. slot = Chosen(a.free, p) /\ q = [p EXCEPT !.slot = slot]
      BY <2>1
    <3>2. /\ slot \in a.free /\ q \in Proposal
          /\ q.by = p.by /\ q.names = p.names /\ q.slot = slot
          /\ Place(a, p) = [free |-> a.free \ {slot}, bound |-> Append(a.bound, q)]
      BY <1>2, <2>2, <3>1, PlaceShape
    <3> QED
      BY <2>1, <3>2
  <2>4. /\ n = i /\ b \in Seq(Proposal) /\ Len(b) = n /\ n \in Nat
        /\ a.free \subseteq 1..count
    BY <1>2, <2>1 DEF BindingOf, Binding
  <2>5. PICK c : c = Append(b, q)
    OBVIOUS
  <2>6. /\ Len(c) = n + 1 /\ \A k \in 1..n : c[k] = b[k]
        /\ c[n + 1] = q
        /\ \A k \in 1..n + 1 : k \in 1..n \/ k = n + 1
    BY <2>3, <2>4, <2>5, AppendProperties
  <2>7. z.bound = c /\ z.free = a.free \ {slot}
    BY <2>3, <2>5
  <2>8. /\ \A k \in 1..n :
             /\ b[k].by = ps[k].by /\ b[k].names = ps[k].names
             /\ b[k].slot \in (1..count) \ a.free
        /\ \A j, k \in 1..n : b[j].slot = b[k].slot => j = k
        /\ \A x \in 1..count : x \in a.free \/ \E k \in 1..n : b[k].slot = x
        /\ AllApart(b, 1..count) => \A k \in 1..n : b[k].slot = b[k].names
        /\ NoneNamed(b) => /\ \A k \in 1..n : b[k].slot = k
                           /\ a.free = n + 1..count
    BY <2>1 DEF BindingOf
  <2>9. ASSUME NEW k \in 1..n + 1
        PROVE  /\ c[k].by = ps[k].by /\ c[k].names = ps[k].names
               /\ c[k].slot \in (1..count) \ z.free
    <3>1. CASE k \in 1..n
      BY <2>6, <2>7, <2>8, <3>1
    <3>2. CASE k = n + 1
      <4>1. c[k] = q /\ ps[k] = p
        BY <2>1, <2>4, <2>6, <3>2
      <4>2. slot \in (1..count) \ z.free
        BY <2>3, <2>4, <2>7
      <4> QED
        BY <2>3, <4>1, <4>2
    <3> QED
      BY <2>6, <3>1, <3>2
  <2>10. ASSUME NEW j \in 1..n + 1, NEW k \in 1..n + 1, c[j].slot = c[k].slot
         PROVE  j = k
    <3>1. \A l \in 1..n : c[l].slot # slot
      BY <2>3, <2>6, <2>8
    <3>2. c[n + 1].slot = slot
      BY <2>3, <2>6
    <3>3. CASE j \in 1..n /\ k \in 1..n
      BY <2>6, <2>8, <2>10, <3>3
    <3>4. CASE j = n + 1 \/ k = n + 1
      BY <2>6, <2>10, <3>1, <3>2, <3>4
    <3> QED
      BY <2>6, <3>3, <3>4
  <2>11. ASSUME NEW x \in 1..count
         PROVE  x \in z.free \/ \E k \in 1..n + 1 : c[k].slot = x
    <3>1. CASE x = slot
      <4>1. n + 1 \in 1..n + 1
        BY <2>4
      <4> QED
        BY <2>3, <2>6, <3>1, <4>1
    <3>2. CASE x # slot /\ x \in a.free
      BY <2>7, <3>2
    <3>3. CASE x \notin a.free
      <4>1. PICK k \in 1..n : b[k].slot = x
        BY <2>8, <3>3
      <4>2. k \in 1..n + 1 /\ c[k] = b[k]
        BY <2>4, <2>6
      <4> QED
        BY <4>1, <4>2
    <3> QED
      BY <3>1, <3>2, <3>3
  <2>12. \A k \in 1..n : k \in 1..n + 1 /\ k # n + 1
    BY <2>4
  <2>13. n + 1 \in 1..n + 1
    BY <2>4
  <2>14. ASSUME AllApart(c, 1..count)
         PROVE  \A k \in 1..n + 1 : c[k].slot = c[k].names
    <3>1. /\ \A k \in 1..n + 1 : c[k].names \in 1..count
          /\ \A j, k \in 1..n + 1 : c[j].names = c[k].names => j = k
      BY <2>6, <2>14 DEF AllApart
    <3>2. AllApart(b, 1..count)
      BY <2>4, <2>6, <2>12, <3>1 DEF AllApart
    <3>3. \A k \in 1..n : b[k].slot = b[k].names
      BY <2>8, <3>2
    <3>4. p.names \in 1..count /\ \A k \in 1..n : b[k].names # p.names
      BY <2>3, <2>6, <2>12, <2>13, <3>1
    <3>5. p.names \in a.free
      BY <2>8, <3>3, <3>4
    <3>6. slot = p.names
      BY <2>1, <3>5 DEF Chosen
    <3> QED
      BY <2>3, <2>6, <3>3, <3>6
  <2>15. ASSUME NoneNamed(c)
         PROVE  /\ \A k \in 1..n + 1 : c[k].slot = k
                /\ z.free = (n + 1) + 1..count
    <3>1. \A k \in 1..n + 1 : c[k].names = NoSlot
      BY <2>6, <2>15 DEF NoneNamed
    <3>2. NoneNamed(b)
      BY <2>4, <2>6, <2>12, <3>1 DEF NoneNamed
    <3>3. /\ \A k \in 1..n : b[k].slot = k
          /\ a.free = n + 1..count
      BY <2>8, <3>2
    <3>4. p.names = NoSlot
      BY <2>3, <2>6, <2>13, <3>1
    <3>5. p.names \notin a.free
      BY <2>4, <3>3, <3>4 DEF NoSlot
    <3>6. slot = Min(a.free)
      BY <2>1, <3>5 DEF Chosen
    <3>7. slot = n + 1
      <4>1. slot \in n + 1..count /\ \A x \in n + 1..count : slot <= x
        BY <1>2, <3>3, <3>6, LeastSlot DEF Binding
      <4>2. n + 1 \in n + 1..count
        BY <2>4, <4>1
      <4>3. slot <= n + 1
        BY <4>1, <4>2
      <4> QED
        BY <2>4, <4>1, <4>3
    <3>8. z.free = (n + 1) + 1..count
      BY <2>4, <2>7, <3>3, <3>7
    <3> QED
      BY <2>3, <2>6, <3>3, <3>7, <3>8
  <2>16. z.free \subseteq 1..count /\ n + 1 <= i + 1 /\ n + 1 = i + 1
    BY <2>4, <2>7
  <2>17. BindingOf(z, ps, i + 1, count)
    BY <2>6, <2>7, <2>9, <2>10, <2>11, <2>14, <2>15, <2>16 DEF BindingOf
  <2> QED
    BY <2>1, <2>17
<1> QED
  BY <1>1, <1>2

LEMMA BindSteps ==
  ASSUME NEW ps \in Seq(Proposal), NEW slots \in SUBSET Slot
  PROVE  \E f \in [0..Len(ps) -> Binding] :
           /\ f[0] = [free |-> slots, bound |-> <<>>]
           /\ \A i \in 1..Len(ps) : f[i] = Place(f[i - 1], ps[i])
           /\ Bind(ps, slots) = f[Len(ps)].bound
<1> DEFINE n == Len(ps)
           base == [free |-> slots, bound |-> <<>>]
           step == [p \in (1..n) \X Binding |-> Place(p[2], ps[p[1]])]
<1>1. n \in Nat /\ \A i \in 1..n : ps[i] \in Proposal
  OBVIOUS
<1>2. \A a \in Binding, p \in Proposal : Place(a, p) \in Binding
  <2> SUFFICES ASSUME NEW a \in Binding, NEW p \in Proposal
               PROVE  Place(a, p) \in Binding
    OBVIOUS
  <2>1. CASE a.free = {}
    BY <2>1 DEF Place
  <2>2. CASE a.free # {}
    BY <2>2, PlaceShape
  <2> QED
    BY <2>1, <2>2
<1>3. step \in [(1..n) \X Binding -> Binding]
  BY <1>1, <1>2
<1>4. \A i \in 1..n, v \in Binding : step[<<i, v>>] = Place(v, ps[i])
  OBVIOUS
<1>5. base \in Binding
  BY DEF Binding
<1> HIDE DEF step, base
<1>6. Recurs(n, Binding, base, step)
  BY <1>1, <1>3, <1>5 DEF Recurs
<1>7. PICK g : Solves(g, n, Binding, base, step)
  BY <1>6, RecursionExists
<1>8. /\ g \in [0..n -> Binding] /\ g[0] = base
      /\ \A i \in 1..n : g[i] = step[<<i, g[i - 1]>>]
  BY <1>7 DEF Solves
<1>9. \A i \in 1..n : g[i] = Place(g[i - 1], ps[i])
  <2> SUFFICES ASSUME NEW i \in 1..n  PROVE g[i] = Place(g[i - 1], ps[i])
    OBVIOUS
  <2>1. i - 1 \in 0..n
    BY <1>1
  <2> QED
    BY <1>4, <1>8, <2>1
<1> DEFINE F == CHOOSE f : f = [i \in 0..n |->
                  IF i = 0 THEN base ELSE Place(f[i - 1], ps[i])]
<1>10. g = [i \in 0..n |-> IF i = 0 THEN base ELSE Place(g[i - 1], ps[i])]
  <2>1. ASSUME NEW i \in 0..n
        PROVE  g[i] = IF i = 0 THEN base ELSE Place(g[i - 1], ps[i])
    <3>1. i = 0 \/ i \in 1..n
      BY <1>1
    <3> QED
      BY <1>8, <1>9, <3>1
  <2> QED
    BY <1>8, <2>1
<1>11. F = [i \in 0..n |-> IF i = 0 THEN base ELSE Place(F[i - 1], ps[i])]
  BY <1>10
<1>12. Bind(ps, slots) = F[n].bound
  BY DEF Bind, base
<1> HIDE DEF F
<1>13. F[0] = base /\ \A i \in 1..n : F[i] = Place(F[i - 1], ps[i])
  <2>1. 0 \in 0..n /\ \A i \in 1..n : i \in 0..n /\ i # 0
    BY <1>1
  <2> QED
    BY <1>11, <2>1
<1> DEFINE P == {i \in 0..n : F[i] \in Binding}
<1>14. 0 \in P
  BY <1>1, <1>5, <1>13
<1>15. ASSUME NEW i \in 0..n, i < n, i \in P  PROVE i + 1 \in P
  <2>1. i + 1 \in 1..n /\ i + 1 \in 0..n /\ (i + 1) - 1 = i
    BY <1>1, <1>15
  <2>2. F[i + 1] = Place(F[i], ps[i + 1]) /\ F[i] \in Binding
    BY <1>13, <1>15, <2>1
  <2> QED
    BY <1>1, <1>2, <2>1, <2>2
<1> HIDE DEF P
<1>16. \A i \in 0..n : i \in P
  BY <1>1, <1>14, <1>15, RangeInduction
<1>17. F \in [0..n -> Binding]
  BY <1>11, <1>16 DEF P
<1> QED
  BY <1>12, <1>13, <1>17 DEF base

LEMMA BindShape ==
  ASSUME NEW ps \in Seq(Proposal), NEW count \in Nat, 1..count \subseteq Slot
  PROVE  \E a \in Binding :
           /\ Bind(ps, 1..count) = a.bound
           /\ BindingOf(a, ps, Len(ps), count)
<1> DEFINE n == Len(ps)
<1>1. PICK f \in [0..n -> Binding] :
        /\ f[0] = [free |-> 1..count, bound |-> <<>>]
        /\ \A i \in 1..n : f[i] = Place(f[i - 1], ps[i])
        /\ Bind(ps, 1..count) = f[n].bound
  BY BindSteps
<1>2. n \in Nat
  OBVIOUS
<1> DEFINE P == {i \in 0..n : BindingOf(f[i], ps, i, count)}
<1>3. 0 \in P
  <2>1. /\ 0 \in 0..n /\ f[0].free = 1..count /\ Len(f[0].bound) = 0
        /\ 1..0 = {} /\ 0 + 1 = 1
    BY <1>1, <1>2
  <2>2. BindingOf(f[0], ps, 0, count)
    BY <2>1 DEF BindingOf
  <2> QED
    BY <2>1, <2>2
<1>4. ASSUME NEW i \in 0..n, i < n, i \in P  PROVE i + 1 \in P
  <2>1. i + 1 \in 1..n /\ i + 1 \in 0..n /\ (i + 1) - 1 = i /\ i \in Nat
    BY <1>2, <1>4
  <2>2. f[i + 1] = Place(f[i], ps[i + 1]) /\ f[i] \in Binding
        /\ BindingOf(f[i], ps, i, count)
    BY <1>1, <1>4, <2>1
  <2>3. BindingOf(f[i + 1], ps, i + 1, count)
    BY <1>4, <2>1, <2>2, PlaceStep
  <2> QED
    BY <2>1, <2>3
<1> HIDE DEF P
<1>5. \A i \in 0..n : i \in P
  BY <1>2, <1>3, <1>4, RangeInduction
<1>6. n \in 0..n
  BY <1>2
<1>7. f[n] \in Binding /\ BindingOf(f[n], ps, n, count)
  BY <1>5, <1>6 DEF P
<1> QED
  BY <1>1, <1>7

-----------------------------------------------------------------------------
(* What a call binds *)

BoundInv ==
  /\ bound \in Seq(Proposal) /\ UniformBinding
  /\ pc = "calling" => bound = <<>>

BindingInv == CountInv /\ OutInv /\ BoundInv

LEMMA SlotsWithin ==
  ASSUME RequestInv, AgentsInv, NEW c \in active
  PROVE  SlotsOf(c) \subseteq 1..call.count /\ 1 <= Cardinality(SlotsOf(c))
<1>1. /\ active \in ActiveSets /\ active # {}
      /\ call.count \in Nat /\ call.count > 0 /\ Agents <= call.count
  BY DEF RequestInv, Typed, AgentsInv, Slot
<1>2. PICK fin : Partition(fin)
  BY <1>1, PartitionExists
<1>3. Agents \in Nat /\ \E i \in 1..Agents : Agent(i) = c
  BY <1>1, AgentsCover DEF Agents, Agent
<1>4. PICK i \in 1..Agents : Agent(i) = c
  BY <1>3
<1>5. i \in 0..Agents /\ i - 1 \in 0..Agents
  BY <1>3
<1>6. fin[i - 1] \in 0..call.count /\ fin[i] \in 0..call.count
  BY <1>2, <1>5 DEF Partition
<1>7. fin[i - 1] < fin[i] /\ SlotsOf(c) = fin[i - 1] + 1..fin[i]
  BY <1>2, <1>4 DEF Partition
<1>8. Cardinality(fin[i - 1] + 1..fin[i]) = fin[i] - (fin[i - 1] + 1) + 1
  <2>1. fin[i - 1] + 1 \in Int /\ fin[i] \in Int /\ ~(fin[i - 1] + 1 > fin[i])
    BY <1>6, <1>7
  <2> QED
    BY <2>1, FS_Interval
<1>9. PICK lo, hi : lo = fin[i - 1] /\ hi = fin[i]
  OBVIOUS
<1>10. lo \in Nat /\ hi \in Nat /\ lo < hi /\ hi <= call.count
  BY <1>1, <1>6, <1>7, <1>9
<1>11. lo + 1..hi \subseteq 1..call.count /\ 1 <= hi - (lo + 1) + 1
  BY <1>1, <1>10
<1> QED
  BY <1>7, <1>8, <1>9, <1>11

(* What a step of a client leaves of its answer: an accepted one, if any.  *)
LEMMA StepOut ==
  ASSUME RequestInv, NEW c \in Client, Step(c)
  PROVE  /\ c \in active /\ UNCHANGED <<pc, call, active, bound>> /\ pc = "calling"
         /\ \A d \in Client \ {c} : client'[d] = client[d]
         /\ client'[c].out \in {<<>>, client[c].out} \cup Answers(c)
<1>0. client \in [Client -> State] /\ client[c] \in State /\ c \in active
  BY DEF RequestInv, Typed, Step
<1>1. ASSUME NEW at, NEW meta, NEW out, End(c, at, meta, out)
      PROVE  /\ \A d \in Client \ {c} : client'[d] = client[d]
             /\ client'[c].out = out
  BY <1>0, <1>1 DEF End, State
<1>2. ASSUME NEW s, client' = [client EXCEPT ![c] = s]
      PROVE  client'[c] = s /\ \A d \in Client \ {c} : client'[d] = client[d]
  BY <1>0, <1>2
<1>3. CASE Send(c)
  <2>1. client' = [client EXCEPT ![c] =
          [client[c] EXCEPT !.at = "wait", !.tries = client[c].tries + 1]]
    BY <1>3 DEF Send
  <2>2. client'[c].out = client[c].out
    BY <1>0, <1>2, <2>1 DEF State
  <2>3. pc = "calling" /\ UNCHANGED <<pc, call, active, bound>>
    BY <1>3, ActsInCall DEF Send
  <2> QED
    BY <1>0, <1>2, <2>1, <2>2, <2>3
<1>4. CASE TooLarge(c) \/ PermanentError(c) \/ Raises(c) \/ Unusable(c)
  <2>1. \E meta : End(c, "failed", meta, <<>>)
    BY <1>4 DEF TooLarge, PermanentError, Raises, Unusable
  <2>2. pc = "calling" /\ UNCHANGED <<pc, call, active, bound>>
    BY <1>4, ActsInCall DEF TooLarge, PermanentError, Raises, Unusable, Quiet
  <2> QED
    BY <1>0, <1>1, <2>1, <2>2
<1>5. CASE TransientError(c)
  <2>1. pc = "calling" /\ UNCHANGED <<pc, call, active, bound>>
    BY <1>5, ActsInCall DEF TransientError, Quiet
  <2>2. CASE Exhausted(c)
    BY <1>0, <1>1, <1>5, <2>1, <2>2 DEF TransientError
  <2>3. CASE ~Exhausted(c)
    <3>1. client' = [client EXCEPT ![c] =
            [client[c] EXCEPT !.at = "sleep", !.meta = Errored(c)]]
      BY <1>5, <2>3 DEF TransientError
    <3>2. client'[c].out = client[c].out
      BY <1>0, <1>2, <3>1 DEF State
    <3> QED
      BY <1>0, <1>2, <2>1, <3>1, <3>2
  <2> QED
    BY <2>2, <2>3
<1>6. ASSUME NEW out \in Answers(c), Proposed(c, out)
      PROVE  /\ c \in active /\ UNCHANGED <<pc, call, active, bound>> /\ pc = "calling"
             /\ \A d \in Client \ {c} : client'[d] = client[d]
             /\ client'[c].out \in {<<>>, client[c].out} \cup Answers(c)
  <2>1. pc = "calling" /\ UNCHANGED <<pc, call, active, bound>>
    BY <1>6, ActsInCall DEF Proposed, Quiet
  <2>2. CASE out # <<>> \/ client[c].recovering
    <3>1. \/ End(c, "done", Answered(c), out)
          \/ End(c, "failed", Answered(c), <<>>)
      BY <1>6, <2>2 DEF Proposed
    <3> QED
      BY <1>0, <1>1, <2>1, <3>1
  <2>3. CASE out = <<>> /\ ~client[c].recovering
    <3>1. client' = [client EXCEPT ![c] =
            [client[c] EXCEPT !.at = "prompt", !.tries = 0,
                              !.recovering = TRUE, !.meta = Answered(c),
                              !.first = Answered(c)]]
      BY <1>6, <2>3 DEF Proposed
    <3>2. client'[c].out = client[c].out
      BY <1>0, <1>2, <3>1 DEF State
    <3> QED
      BY <1>0, <1>2, <2>1, <3>1, <3>2
  <2> QED
    BY <2>2, <2>3
<1> QED
  BY <1>3, <1>4, <1>5, <1>6 DEF Step

LEMMA StepBinding ==
  ASSUME BindingInv, NEW c \in Client, Step(c)
  PROVE  OutInv' /\ BoundInv'
<1>1. RequestInv /\ AgentsInv /\ client \in [Client -> State]
  BY DEF BindingInv, CountInv, RequestInv, Typed
<1>2. /\ c \in active /\ UNCHANGED <<pc, call, active, bound>> /\ pc = "calling"
      /\ \A d \in Client \ {c} : client'[d] = client[d]
      /\ client'[c].out \in {<<>>, client[c].out} \cup Answers(c)
  BY <1>1, StepOut
<1>3. \A d : SlotsOf(d)' = SlotsOf(d)
  BY <1>2 DEF SlotsOf
<1>4. BoundInv'
  BY <1>2, <1>3 DEF BindingInv, BoundInv, UniformBinding, AllNamed, AllComplete, InOwnSlot
<1>5. ASSUME call.kind = "generate"
      PROVE  client'[c].out = <<>> \/ Len(client'[c].out) <= Cardinality(SlotsOf(c))
  <2>1. 1 <= Cardinality(SlotsOf(c))
    BY <1>1, <1>2, SlotsWithin
  <2>2. Cardinality(SlotsOf(c)) \in Nat
    <3>1. IsFiniteSet(SlotsOf(c))
      <4>1. SlotsOf(c) \subseteq 1..call.count /\ call.count \in Int
        BY <1>1, <1>2, SlotsWithin DEF RequestInv, Typed, Slot
      <4> QED
        BY <4>1, FS_Interval, FS_Subset
    <3> QED
      BY <3>1, FS_CardinalityType
  <2>3. CASE client'[c].out = <<>>
    BY <2>3
  <2>4. CASE client'[c].out = client[c].out
    BY <1>2, <1>5, <2>4 DEF BindingInv, OutInv
  <2>5. CASE client'[c].out \in Answers(c)
    <3>1. PICK most \in Nat :
            /\ most <= Cardinality(SlotsOf(c))
            /\ Answers(c) = BoundedSeq(1..call.count \cup {NoSlot}, most)
      BY <1>5, <2>1, <2>2 DEF Answers
    <3>2. PICK m \in 0..most : client'[c].out \in [1..m -> 1..call.count \cup {NoSlot}]
      BY <2>5, <3>1 DEF BoundedSeq, SeqOf
    <3>3. Len(client'[c].out) = m
      BY <3>2
    <3> QED
      BY <2>2, <3>1, <3>2, <3>3
  <2> QED
    BY <1>2, <2>3, <2>4, <2>5
<1>6. OutInv'
  <2>1. active' = active /\ active \subseteq Client
    BY <1>1, <1>2 DEF RequestInv, Typed
  <2>2. ASSUME call.kind = "generate", NEW d \in active
        PROVE  client'[d].out = <<>> \/ Len(client'[d].out) <= Cardinality(SlotsOf(d))
    BY <1>2, <1>5, <2>1, <2>2 DEF BindingInv, OutInv
  <2> QED
    BY <1>2, <1>3, <2>2 DEF BindingInv, OutInv
<1> QED
  BY <1>4, <1>6

(* Without proposals there is nothing to bind wrongly.                     *)
LEMMA NothingBound ==
  ASSUME bound' = <<>>, call'.count \in Nat, call'.count > 0
  PROVE  bound' \in Seq(Proposal) /\ UniformBinding'
<1>1. DOMAIN bound' = {} /\ bound' \in Seq(Proposal)
  OBVIOUS
<1> QED
  BY <1>1 DEF UniformBinding

LEMMA CallBinding ==
  ASSUME BindingInv, NEW kind \in Kinds, NEW count \in Slot, Call(kind, count)
  PROVE  OutInv' /\ BoundInv'
<1>1. /\ pc = "idle" /\ pc' = "calling" /\ bound' = <<>>
      /\ active' = Workers(count) /\ call' = [kind |-> kind, count |-> count]
      /\ client' = [c \in Client |-> IF c \in active' THEN Asked(client[c]) ELSE client[c]]
  BY DEF Call
<1>2. CountInv'
  BY CallCounted DEF BindingInv
<1>3. BoundInv'
  <2>1. call'.count \in Nat /\ call'.count > 0
    BY <1>1 DEF Slot
  <2> QED
    BY <1>1, <2>1, NothingBound DEF BoundInv
<1>4. \A c \in Client : client'[c].out = <<>>
  <2>1. \A c \in Client : client[c] \in State /\ client[c].out = <<>>
    BY <1>1 DEF BindingInv, OutInv, CountInv, RequestInv, Typed
  <2> QED
    BY <1>1, <2>1 DEF Asked, State
<1>5. active' # {}
  <2>1. \A n \in Nat : n # 1 => n = 0 \/ 1 \in 1..n
    OBVIOUS
  <2>2. Min({AgentWorkers, count}) \in Nat /\ Min({AgentWorkers, count}) # 0
    <3>1. AgentWorkers \in Slot \cup Nat /\ count \in Nat /\ count # 0
      BY Bounds DEF Slot
    <3>2. \E x \in {AgentWorkers, count} : \A y \in {AgentWorkers, count} : x <= y
      BY <3>1, Bounds
    <3>3. Min({AgentWorkers, count}) \in {AgentWorkers, count}
      BY <3>2 DEF Min
    <3> QED
      BY <3>1, <3>3, Bounds
  <2> QED
    BY <1>1, <2>1, <2>2 DEF Workers
<1>6. \A c \in active' : client'[c].out = <<>>
  BY <1>2, <1>4 DEF CountInv, RequestInv, Typed
<1>7. OutInv'
  BY <1>1, <1>5, <1>6 DEF OutInv
<1> QED
  BY <1>3, <1>7

LEMMA RestingOut ==
  ASSUME NEW m \in Meta, NEW c \in Client
  PROVE  Resting(m)[c].out = <<>>
BY DEF Resting, Fresh

(* The binding of a generation whose proposals are merged in order.        *)
LEMMA ReturnBinding ==
  ASSUME BindingInv, Return
  PROVE  OutInv' /\ BoundInv'
<1>1. /\ pc = "calling" /\ pc' # "calling"
      /\ bound' = IF call.kind = "generate" THEN Bind(Merge, 1..call.count) ELSE <<>>
      /\ client' = Resting(client[Primary].meta)
      /\ UNCHANGED <<call, active>>
  BY DEF Return
<1>2. /\ RequestInv /\ AgentsInv /\ OutInv
      /\ call.count \in Nat /\ call.count > 0 /\ 1..call.count \subseteq Slot
  BY GenerationAssumption DEF BindingInv, CountInv, RequestInv, Typed, Slot
<1>3. OutInv'
  <2>1. client[Primary].meta \in Meta
    BY <1>2, Bounds DEF RequestInv, Typed, State
  <2> QED
    BY <1>1, <2>1, RestingOut DEF OutInv
<1>4. CASE call.kind # "generate"
  BY <1>1, <1>2, <1>3, <1>4, NothingBound DEF BoundInv
<1>5. CASE call.kind = "generate"
  <2>1. InOrder(Merge)
    BY <1>1, <1>2, <1>5, MergeShape
  <2>2. PICK ps : ps = Merge
    OBVIOUS
  <2>3. /\ ps \in Seq(Proposal) /\ Len(ps) <= call.count
        /\ \A k \in 1..Len(ps) : ps[k].by \in active
        /\ Len(ps) = call.count => \A k \in 1..Len(ps) : k \in SlotsOf(ps[k].by)
    BY <2>1, <2>2 DEF InOrder
  <2>4. PICK a \in Binding :
          /\ bound' = a.bound
          /\ BindingOf(a, ps, Len(ps), call.count)
    BY <1>1, <1>2, <1>5, <2>2, <2>3, BindShape
  <2>5. PICK b : b = a.bound
    OBVIOUS
  <2>6. b \in Seq(Proposal) /\ DOMAIN b = 1..Len(b) /\ Len(b) \in Nat
    BY <2>5 DEF Binding
  <2>7. Len(b) <= Len(ps) /\ Len(ps) \in Nat /\ \A k \in 1..Len(b) : k \in 1..Len(ps)
    <3>1. Len(b) <= Len(ps)
      BY <2>4, <2>5 DEF BindingOf
    <3> QED
      BY <2>3, <2>6, <3>1
  <2>8. /\ \A k \in 1..Len(b) : b[k].by = ps[k].by /\ b[k].by \in active
        /\ \A j, k \in 1..Len(b) : b[j].slot = b[k].slot => j = k
        /\ AllApart(b, 1..call.count) => \A k \in 1..Len(b) : b[k].slot = b[k].names
        /\ NoneNamed(b) => \A k \in 1..Len(b) : b[k].slot = k
    BY <2>3, <2>4, <2>5, <2>7 DEF BindingOf
  <2>9. bound' = b /\ \A c : SlotsOf(c)' = SlotsOf(c)
    BY <1>1, <2>4, <2>5 DEF SlotsOf
  <2>10. ASSUME AllNamed'
         PROVE  \A k \in 1..Len(b) : b[k].slot \in SlotsOf(b[k].by)
    <3>1. /\ \A k \in 1..Len(b) : b[k].names \in SlotsOf(b[k].by)
          /\ \A j, k \in 1..Len(b) : b[j].names = b[k].names => j = k
      BY <2>6, <2>9, <2>10 DEF AllNamed
    <3>2. \A k \in 1..Len(b) : SlotsOf(b[k].by) \subseteq 1..call.count
      BY <1>2, <2>8, SlotsWithin
    <3>3. AllApart(b, 1..call.count)
      BY <3>1, <3>2 DEF AllApart
    <3> QED
      BY <2>8, <3>1, <3>3
  <2>11. ASSUME AllComplete'
         PROVE  \A k \in 1..Len(b) : b[k].slot \in SlotsOf(b[k].by)
    <3>1. NoneNamed(b) /\ Len(b) = call.count
      BY <1>1, <2>6, <2>9, <2>11 DEF AllComplete, NoneNamed
    <3>2. Len(ps) = call.count
      BY <1>2, <2>3, <2>7, <3>1
    <3> QED
      BY <2>3, <2>7, <2>8, <3>1, <3>2
  <2>12. UniformBinding'
    BY <2>6, <2>8, <2>9, <2>10, <2>11 DEF UniformBinding, InOwnSlot
  <2> QED
    BY <1>1, <1>3, <2>6, <2>9, <2>12 DEF BoundInv
<1> QED
  BY <1>4, <1>5

LEMMA ResumeBinding ==
  ASSUME BindingInv, Resume
  PROVE  OutInv' /\ BoundInv'
<1>1. PICK m \in Preflights : client' = Resting(m)
  BY DEF Resume
<1>2. pc' = "idle" /\ UNCHANGED <<call, active, bound>>
  BY DEF Resume
<1>3. OutInv'
  BY <1>1, <1>2, PreflightType, RestingOut DEF OutInv
<1>4. \A d : SlotsOf(d)' = SlotsOf(d)
  BY <1>2 DEF SlotsOf
<1>5. BoundInv'
  BY <1>2, <1>4 DEF BindingInv, BoundInv, UniformBinding, AllNamed, AllComplete, InOwnSlot
<1> QED
  BY <1>3, <1>5

LEMMA InitBinding == Init => BindingInv
<1> SUFFICES ASSUME Init  PROVE BindingInv
  OBVIOUS
<1>1. PICK m \in Preflights : client = Resting(m)
  BY DEF Init
<1>2. pc = "idle" /\ bound = <<>>
  BY DEF Init
<1>3. OutInv
  BY <1>1, <1>2, PreflightType, RestingOut DEF OutInv
<1>4. DOMAIN bound = {} /\ bound \in Seq(Proposal)
  BY <1>2
<1>5. BoundInv
  BY <1>2, <1>4 DEF BoundInv, UniformBinding
<1> QED
  BY <1>3, <1>5, InitCounted DEF BindingInv

LEMMA NextBinding == BindingInv /\ [Next]_vars => BindingInv'
<1> SUFFICES ASSUME BindingInv, [Next]_vars  PROVE BindingInv'
  OBVIOUS
<1>1. CountInv'
  BY NextCounted DEF BindingInv
<1>2. ASSUME NEW kind \in Kinds, NEW count \in Slot, Call(kind, count)
      PROVE  OutInv' /\ BoundInv'
  BY <1>2, CallBinding
<1>3. ASSUME NEW c \in Client, Step(c)
      PROVE  OutInv' /\ BoundInv'
  BY <1>3, StepBinding
<1>4. CASE Return
  BY <1>1, <1>4, ReturnBinding DEF BindingInv
<1>5. CASE Resume
  BY <1>1, <1>5, ResumeBinding DEF BindingInv
<1>6. CASE UNCHANGED vars
  <2>1. UNCHANGED <<pc, call, active, client, bound>>
    BY <1>6 DEF vars
  <2>2. \A d : SlotsOf(d)' = SlotsOf(d)
    BY <2>1 DEF SlotsOf
  <2>3. OutInv'
    BY <2>1, <2>2 DEF BindingInv, OutInv
  <2>4. BoundInv'
    BY <2>1, <2>2 DEF BindingInv, BoundInv, UniformBinding, AllNamed, AllComplete, InOwnSlot
  <2> QED
    BY <1>1, <2>3, <2>4 DEF BindingInv
<1> QED
  BY <1>1, <1>2, <1>3, <1>4, <1>5, <1>6 DEF Next, BindingInv

(***************************************************************************)
(* Two proposals never get the same slot, and each gets a slot its own     *)
(* agent was asked for when all name different slots of their agents or    *)
(* when no agent fell short and none names one, for any number of agents   *)
(* and slots (_balanced_partitions, the merge of ParallelGenerator,        *)
(* bind_strategy_assignments).                                             *)
(***************************************************************************)
THEOREM BindingIsUniform == Spec => []UniformBinding
<1>1. BindingInv => UniformBinding
  BY DEF BindingInv, BoundInv
<1> QED
  BY <1>1, InitBinding, NextBinding, PTL DEF Spec

(***************************************************************************)
(* Types, of what a call has bound and counted too.                        *)
(***************************************************************************)
THEOREM TypeCorrect == Spec => []TypeOK
<1>1. BindingInv => TypeOK
  BY DEF BindingInv, BoundInv, CountInv, RequestInv, Typed, PlainTyped, TypeOK
<1> QED
  BY <1>1, InitBinding, NextBinding, PTL DEF Spec

=============================================================================
