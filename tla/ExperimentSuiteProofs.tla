----------------------- MODULE ExperimentSuiteProofs -----------------------
(***************************************************************************)
(* What holds of the experiment scripts for any kernels, styles, options,  *)
(* budgets and failures, and for any number of invocations.                *)
(***************************************************************************)
EXTENDS ExperimentSuite, Recursion, TLAPS

-----------------------------------------------------------------------------
(* The matrix of the treatments, and the plan of an invocation.            *)

LEMMA Division ==
  ASSUME NEW k \in Nat, NEW l \in Nat, l >= 1, NEW i \in Nat, i < k * l
  PROVE  /\ i \div l \in Nat /\ i \div l < k
         /\ i % l \in Nat /\ i % l < l
         /\ i = l * (i \div l) + (i % l)
<1>1. /\ i \div l \in Nat /\ i % l \in Nat /\ i % l < l
      /\ i = l * (i \div l) + (i % l)
  OBVIOUS
<1>2. i \div l < k
  <2> SUFFICES ASSUME NEW q \in Nat, q = i \div l, q >= k  PROVE FALSE
    BY <1>1
  <2>1. \A a, b, c \in Nat : a >= b => c * a >= c * b
    OBVIOUS
  <2>2. l * q >= l * k
    BY <2>1
  <2>3. l * k = k * l
    OBVIOUS
  <2> QED
    BY <1>1, <2>2, <2>3
<1> QED
  BY <1>1, <1>2

LEMMA Constants ==
  /\ Kernels \in Seq(ToSet(Kernels)) /\ Len(Kernels) \in Nat /\ Len(Kernels) >= 1
  /\ Styles \in Seq(ToSet(Styles)) /\ Len(Styles) \in Nat /\ Len(Styles) >= 1
  /\ \A a, b \in 1..Len(Kernels) : Kernels[a] = Kernels[b] => a = b
  /\ \A a, b \in 1..Len(Styles) : Styles[a] = Styles[b] => a = b
  /\ \A a \in 1..Len(Kernels) : Kernels[a] \in ToSet(Kernels)
  /\ \A a \in 1..Len(Styles) : Styles[a] \in ToSet(Styles)
  /\ Treatment = ToSet(Kernels) \X ToSet(Styles)
<1> DEFINE Listed == {Kernels, Styles}
<1>1. ASSUME NEW s \in Listed
      PROVE  /\ s \in Seq(ToSet(s)) /\ Len(s) \in Nat /\ Len(s) >= 1
             /\ \A a, b \in 1..Len(s) : s[a] = s[b] => a = b
             /\ \A a \in 1..Len(s) : s[a] \in ToSet(s)
  <2>1. s \in Seq(ToSet(s)) /\ s # <<>> /\ IsInjective(s)
    BY <1>1, SuiteAssumption
  <2> DEFINE T == ToSet(s)
  <2>2. s \in Seq(T) /\ s # <<>>
    BY <2>1
  <2> HIDE DEF T
  <2>3. Len(s) \in Nat /\ Len(s) >= 1 /\ DOMAIN s = 1..Len(s)
    BY <2>2
  <2>4. \A a \in 1..Len(s) : s[a] \in T
    BY <2>2
  <2> QED
    BY <2>1, <2>3, <2>4 DEF IsInjective, T
<1>2. Kernels \in Listed /\ Styles \in Listed
  OBVIOUS
<1> QED
  BY <1>1, <1>2, SuiteAssumption

LEMMA MatrixIs ==
  /\ Len(Matrix) \in Nat /\ Len(Matrix) >= 1 /\ Matrix \in Seq(Treatment)
  /\ \A i \in 1..Len(Matrix) : Matrix[i] \in Treatment
  /\ \A i, j \in 1..Len(Matrix) : Matrix[i] = Matrix[j] => i = j
<1> DEFINE k == Len(Kernels)
           l == Len(Styles)
           n == k * l
           q(i) == (i - 1) \div l
           r(i) == (i - 1) % l
<1>0. /\ k \in Nat /\ k >= 1 /\ l \in Nat /\ l >= 1
  BY Constants
<1> HIDE DEF k, l
<1>1. n \in Nat /\ n >= 1
  <2>1. \A a, b \in Nat : a >= 1 /\ b >= 1 => a * b \in Nat /\ a * b >= 1
    OBVIOUS
  <2> QED
    BY <1>0, <2>1
<1>2. ASSUME NEW i \in 1..n
      PROVE  /\ q(i) \in Nat /\ q(i) < k /\ r(i) \in Nat /\ r(i) < l
             /\ i - 1 = l * q(i) + r(i)
  <2>1. i - 1 \in Nat /\ i - 1 < k * l
    BY <1>1, <1>2
  <2> QED
    BY <1>0, <2>1, Division
<1>3. Matrix = [i \in 1..n |-> <<Kernels[q(i) + 1], Styles[r(i) + 1]>>]
  BY DEF Matrix, k, l
<1> HIDE DEF n, q, r
<1>4. ASSUME NEW i \in 1..n
      PROVE  /\ q(i) + 1 \in 1..k /\ r(i) + 1 \in 1..l
             /\ Matrix[i] = <<Kernels[q(i) + 1], Styles[r(i) + 1]>>
  BY <1>0, <1>2, <1>3
<1>5. ASSUME NEW i \in 1..n  PROVE Matrix[i] \in Treatment
  <2>1. /\ Kernels[q(i) + 1] \in ToSet(Kernels)
        /\ Styles[r(i) + 1] \in ToSet(Styles)
    BY <1>4, Constants DEF k, l
  <2>2. \A A, B : \A a \in A : \A b \in B : <<a, b>> \in A \X B
    OBVIOUS
  <2>3. <<Kernels[q(i) + 1], Styles[r(i) + 1]>> \in ToSet(Kernels) \X ToSet(Styles)
    BY <2>1, <2>2
  <2> QED
    BY <1>4, <2>3, Constants
<1>6. ASSUME NEW i \in 1..n, NEW j \in 1..n, Matrix[i] = Matrix[j]
      PROVE  i = j
  <2>1. Kernels[q(i) + 1] = Kernels[q(j) + 1] /\ Styles[r(i) + 1] = Styles[r(j) + 1]
    BY <1>4, <1>6
  <2>2. q(i) + 1 = q(j) + 1 /\ r(i) + 1 = r(j) + 1
    BY <1>4, <2>1, Constants DEF k, l
  <2>3. q(i) = q(j) /\ r(i) = r(j)
    BY <1>2, <2>2
  <2>4. i - 1 = j - 1
    BY <1>2, <2>3
  <2> QED
    BY <1>1, <2>4
<1>7. Len(Matrix) = n
  BY <1>1, <1>3
<1>8. Matrix \in Seq(Treatment)
  BY <1>1, <1>3, <1>5
<1> QED
  BY <1>1, <1>5, <1>6, <1>7, <1>8

(* A part of the matrix, in its order; without filters it begins like it.  *)
Part(option, s, i) ==
  /\ s \in Seq(Treatment)
  /\ \A a \in 1..Len(s) : \E j \in 1..i : s[a] = Matrix[j]
  /\ \A a, b \in 1..Len(s) : s[a] = s[b] => a = b
  /\ option.kernels = {} /\ option.styles = {} /\ i >= 1 =>
       Len(s) >= 1 /\ s[1] = Matrix[1]

LEMMA PartGrows ==
  ASSUME NEW option, NEW i \in Nat, i + 1 <= Len(Matrix), NEW s,
         Part(option, s, i), i = 0 => s = <<>>
  PROVE  Part(option, IF Selects(option, Matrix[i + 1])
                      THEN Append(s, Matrix[i + 1]) ELSE s, i + 1)
<1>0. /\ s \in Seq(Treatment) /\ Len(s) \in Nat
      /\ \A a \in 1..Len(s) : \E j \in 1..i : s[a] = Matrix[j]
      /\ \A a, b \in 1..Len(s) : s[a] = s[b] => a = b
      /\ i + 1 \in 1..Len(Matrix) /\ i + 1 \in Nat
  BY MatrixIs DEF Part
<1> DEFINE m == Matrix[i + 1]
<1>1. m \in Treatment
  BY <1>0, MatrixIs
<1>2. \A a \in 1..Len(s) : \E j \in 1..i + 1 : s[a] = Matrix[j]
  <2>1. \A j \in 1..i : j \in 1..i + 1
    OBVIOUS
  <2> QED
    BY <1>0, <2>1
<1>3. \A a \in 1..Len(s) : s[a] # m
  <2> SUFFICES ASSUME NEW a \in 1..Len(s), s[a] = m  PROVE FALSE
    OBVIOUS
  <2>1. PICK j \in 1..i : s[a] = Matrix[j]
    BY <1>0
  <2>2. j \in 1..Len(Matrix) /\ j # i + 1
    BY <1>0, <2>1, MatrixIs
  <2> QED
    BY <1>0, <2>1, <2>2, MatrixIs
<1>4. CASE Selects(option, m)
  <2> DEFINE u == Append(s, m)
  <2>1. /\ u \in Seq(Treatment) /\ Len(u) = Len(s) + 1
        /\ \A a \in 1..Len(s) : u[a] = s[a]
        /\ u[Len(s) + 1] = m
    BY <1>0, <1>1
  <2>2. \A a \in 1..Len(u) : a \in 1..Len(s) \/ a = Len(s) + 1
    BY <1>0, <2>1
  <2> HIDE DEF u
  <2>3. \A a \in 1..Len(u) : \E j \in 1..i + 1 : u[a] = Matrix[j]
    <3>1. i + 1 \in 1..i + 1
      BY <1>0
    <3> QED
      BY <1>2, <2>1, <2>2, <3>1
  <2> HIDE DEF m
  <2>4. \A a, b \in 1..Len(u) : u[a] = u[b] => a = b
    BY <1>0, <1>3, <2>1, <2>2
  <2>5. ASSUME option.kernels = {}, option.styles = {}
        PROVE  Len(u) >= 1 /\ u[1] = Matrix[1]
    <3>1. CASE i = 0
      <4>1. Len(s) = 0
        BY <3>1
      <4> QED
        BY <2>1, <3>1, <4>1 DEF m
    <3>2. CASE i # 0
      <4>1. i >= 1
        BY <3>2
      <4>2. Len(s) >= 1 /\ s[1] = Matrix[1]
        BY <2>5, <4>1 DEF Part
      <4>3. 1 \in 1..Len(s)
        BY <1>0, <4>2
      <4> QED
        BY <1>0, <2>1, <4>2, <4>3
    <3> QED
      BY <3>1, <3>2
  <2>6. Part(option, u, i + 1)
    BY <2>1, <2>3, <2>4, <2>5 DEF Part
  <2> QED
    BY <1>4, <2>6 DEF m, u
<1>5. CASE ~Selects(option, m)
  <2>1. ASSUME option.kernels = {}, option.styles = {}  PROVE FALSE
    BY <1>5, <2>1 DEF Selects
  <2>2. Part(option, s, i + 1)
    BY <1>0, <1>2, <2>1 DEF Part
  <2> QED
    BY <1>5, <2>2
<1> QED
  BY <1>4, <1>5

LEMMA SelectedIs ==
  ASSUME NEW option
  PROVE  Part(option, SelectedTreatments(option), Len(Matrix))
<1> DEFINE n == Len(Matrix)
           S == Seq(Treatment)
           grown(s, i) == IF Selects(option, Matrix[i])
                          THEN Append(s, Matrix[i]) ELSE s
           step == [p \in (1..n) \X S |-> grown(p[2], p[1])]
<1>1. n \in Nat /\ n >= 1
  BY MatrixIs
<1>2. \A i \in 1..n, s \in S : grown(s, i) \in S
  BY MatrixIs
<1>3. <<>> \in S
  OBVIOUS
<1> HIDE DEF grown, S
<1>4. step \in [(1..n) \X S -> S]
  BY <1>2
<1>5. \A i \in 1..n, s \in S : step[<<i, s>>] = grown(s, i)
  OBVIOUS
<1> HIDE DEF step, n
<1>6. Recurs(n, S, <<>>, step)
  BY <1>1, <1>3, <1>4 DEF Recurs
<1>7. PICK g : Solves(g, n, S, <<>>, step)
  BY <1>6, RecursionExists
<1>8. /\ g \in [0..n -> S] /\ g[0] = <<>>
      /\ \A i \in 1..n : g[i] = step[<<i, g[i - 1]>>]
  BY <1>7 DEF Solves
<1>9. ASSUME NEW i \in 1..n  PROVE g[i] = grown(g[i - 1], i)
  <2>1. i - 1 \in 0..n
    BY <1>1
  <2> QED
    BY <1>5, <1>8, <2>1
<1> DEFINE F == CHOOSE f : f = [i \in 0..n |->
                  IF i = 0 THEN <<>> ELSE grown(f[i - 1], i)]
<1>10. g = [i \in 0..n |-> IF i = 0 THEN <<>> ELSE grown(g[i - 1], i)]
  <2>1. ASSUME NEW i \in 0..n
        PROVE  g[i] = IF i = 0 THEN <<>> ELSE grown(g[i - 1], i)
    <3>1. i = 0 \/ i \in 1..n
      BY <1>1
    <3> QED
      BY <1>8, <1>9, <3>1
  <2> QED
    BY <1>8, <2>1
<1>11. F = [i \in 0..n |-> IF i = 0 THEN <<>> ELSE grown(F[i - 1], i)]
  BY <1>10
<1>12. SelectedTreatments(option) = F[n]
  BY DEF SelectedTreatments, grown, n
<1> HIDE DEF F
<1>13. F[0] = <<>> /\ \A i \in 1..n : F[i] = grown(F[i - 1], i)
  <2>1. 0 \in 0..n /\ \A i \in 1..n : i \in 0..n /\ i # 0
    BY <1>1
  <2> QED
    BY <1>11, <2>1
<1> DEFINE P == {i \in 0..n : Part(option, F[i], i)}
<1>14. 0 \in P
  <2>1. Part(option, <<>>, 0)
    BY DEF Part
  <2> QED
    BY <1>1, <1>13, <2>1
<1>15. ASSUME NEW i \in 0..n, i < n, i \in P  PROVE i + 1 \in P
  <2>1. i + 1 \in 1..n /\ i + 1 \in 0..n /\ (i + 1) - 1 = i /\ i \in Nat
    BY <1>1, <1>15
  <2>2. F[i + 1] = grown(F[i], i + 1)
    BY <1>13, <2>1
  <2>3. Part(option, F[i], i) /\ (i = 0 => F[i] = <<>>)
    BY <1>13, <1>15
  <2>4. i + 1 <= Len(Matrix)
    BY <1>1, <2>1 DEF n
  <2>5. Part(option, grown(F[i], i + 1), i + 1)
    BY <2>1, <2>3, <2>4, PartGrows DEF grown
  <2> QED
    BY <2>1, <2>2, <2>5
<1> HIDE DEF P
<1>16. \A i \in 0..n : i \in P
  BY <1>1, <1>14, <1>15, RangeInduction
<1>17. n \in P
  BY <1>1, <1>16
<1> QED
  BY <1>12, <1>17 DEF P, n

(* The plan, of these options or of the next ones.                         *)
LEMMA SelectedFacts ==
  ASSUME NEW option
  PROVE  /\ SelectedTreatments(option) \in Seq(Treatment)
         /\ Len(SelectedTreatments(option)) \in Nat
         /\ \A a \in 1..Len(SelectedTreatments(option)) :
              SelectedTreatments(option)[a] \in Treatment
         /\ \A a, b \in 1..Len(SelectedTreatments(option)) :
              SelectedTreatments(option)[a] = SelectedTreatments(option)[b] => a = b
         /\ option \in Options /\ option.driver = "compression" =>
              /\ Len(SelectedTreatments(option)) >= 1
              /\ SelectedTreatments(option)[1] = Matrix[1]
<1> DEFINE p == SelectedTreatments(option)
<1>1. Part(option, p, Len(Matrix))
  BY SelectedIs
<1> HIDE DEF p
<1>2. option \in Options /\ option.driver = "compression" =>
        Len(p) >= 1 /\ p[1] = Matrix[1]
  BY <1>1, SuiteAssumption, MatrixIs DEF Part
<1>3. p \in Seq(Treatment) /\ \A a, b \in 1..Len(p) : p[a] = p[b] => a = b
  BY <1>1 DEF Part
<1> QED
  BY <1>2, <1>3 DEF p

-----------------------------------------------------------------------------
(* What a process adds to the work of its directory: the task x under the  *)
(* policies n, with the extras of the source as it is.                     *)
Entry(x, n) == [task |-> x, policies |-> n, extras |-> extras]

LEMMA EntryIs ==
  ASSUME NEW x, NEW n
  PROVE  /\ Entry(x, n).task = x /\ Entry(x, n).policies = n
         /\ x \in Task /\ n \in Versions /\ extras \in Versions => Entry(x, n) \in Work
BY DEF Entry, Work

(* The types of the directories and of the process.                        *)
Checkpoint == [rounds : 0..Rounds, spent : Spent, policies : Versions, until : BOOLEAN]
Directory ==
  [made : BOOLEAN, checkpoint : {NoCheckpoint} \cup Checkpoint,
   seed : {"unseen", "passed", "failed"}, limits : SUBSET Limits,
   failure : BOOLEAN, summary : Summary]
Process ==
  [at : {"open", "preflight", "begin", "search", "final", "report", "close", "exited"},
   code : {0, 1}, job : Job, rounds : 0..Rounds, spent : Spent,
   reason : Reasons \cup {"none"}]
EffectiveTask == [task : Task, mode : {"fixed-time", "rounds"}]
TaskFile == {NoTask, TornTask} \cup EffectiveTask
ReportRow == [t : Treatment, status : Statuses, summary : Summary]

TypeInv ==
  /\ archive \in [Treatment -> Directory]
  /\ worked \in [Treatment -> SUBSET Work]
  /\ policies \in Versions /\ extras \in Versions /\ faults \in Nat
  /\ child = NoJob \/ child \in Process
  /\ driver \in Drivers /\ asked \in Options /\ asked.driver = driver
  /\ report \in [on : BOOLEAN, option : Options, rows : Seq(ReportRow)]
  /\ rows \in Seq(ReportRow) /\ failed \in BOOLEAN
  /\ tasks \in [Treatment -> TaskFile]
  /\ pc \in {"off", "prepare", "loop"} /\ exit \in {"none", "ok", "error"}

(* Where the script is: it holds nothing before its loop, and its process  *)
(* is the one of the present treatment.                                    *)
PlaceInv ==
  /\ next \in 1..Len(Plan) + 1 /\ Len(rows) < next
  /\ pc # "loop" => next = 1 /\ rows = <<>> /\ failed = FALSE /\ child = NoJob
  /\ child # NoJob => /\ next <= Len(Plan)
                      /\ child.job.t = Now /\ child.job.task = asked.task
                      /\ driver = "related" => child.job.cap = asked.cap

(* A directory d with the work w: it is there before anything is in it,    *)
(* and all that is in it was made with one version of the named policies.  *)
Sound(d, w) ==
  /\ ~d.made => d = Unused
  /\ d.checkpoint = NoCheckpoint => w = {} /\ d.summary = NoSummary
  /\ d.checkpoint # NoCheckpoint =>
       w # {} /\ \A x \in w : x.policies = d.checkpoint.policies
  /\ d.summary # NoSummary => d.summary.policies = d.checkpoint.policies
  /\ d.summary.reason = "time-budget" => d.summary.spent >= d.summary.cap

(* What a process p with the policies n has done to its directory d.       *)
InStep(p, d, n) ==
  /\ p.at \notin {"open", "exited"} => d.made
  /\ p.at \in {"search", "final", "report", "close"} =>
       d.checkpoint # NoCheckpoint /\ d.checkpoint.policies = n
  /\ p.at \in {"final", "report", "close"} =>
       /\ p.reason \in Reasons
       /\ p.reason = "time-budget" => p.spent >= p.job.cap
  /\ p.at = "close" \/ (p.at = "exited" /\ p.code = 0) =>
       d.summary # NoSummary /\ d.summary.cap = p.job.cap

DirectoryInv ==
  /\ \A t \in Treatment : Sound(archive[t], worked[t])
  /\ child # NoJob => InStep(child, archive[child.job.t], policies)

(* The comparison works on a treatment only under its effective task.      *)
TaskInv ==
  driver = "related" =>
    /\ \A t \in Treatment : \A x \in worked[t] :
         tasks[t] # NoTask /\ tasks[t].task = x.task
    /\ pc = "loop" => \A i \in 1..Len(Plan) : tasks[Plan[i]] = Effective

(* A row is what its directory d and the effective task e say.             *)
Claim(row, d, e, option) ==
  Counted(row) =>
    /\ e # NoTask /\ e.task = option.task
    /\ d.checkpoint # NoCheckpoint /\ row.summary.policies = d.checkpoint.policies
    /\ option.mode = "fixed-time" => row.summary.spent >= option.cap

Current(row, d) ==
  Counted(row) => d.summary # NoSummary /\ row.summary = d.summary
InTime(row, option) ==
  Counted(row) /\ option.mode = "fixed-time" =>
    row.summary.reason = "time-budget" /\ row.summary.cap = option.cap

RowsInv ==
  pc = "loop" =>
    /\ driver # "compression" =>
         /\ Len(rows) = next - 1
         /\ \A i \in 1..Len(rows) :
              /\ rows[i].t = Plan[i] /\ Current(rows[i], archive[rows[i].t])
              /\ ~Counted(rows[i]) => failed
              /\ driver = "related" =>
                   /\ InTime(rows[i], asked)
                   /\ Claim(rows[i], archive[rows[i].t], tasks[rows[i].t], asked)
    /\ driver = "compression" /\ next > 1 /\ ~failed =>
         archive[Matrix[1]].summary # NoSummary

ReportInv ==
  driver = "related" => \A i \in 1..Len(report.rows) :
    Claim(report.rows[i], archive[report.rows[i].t], tasks[report.rows[i].t],
          report.option)

Inv == TypeInv /\ PlaceInv /\ DirectoryInv /\ TaskInv /\ RowsInv /\ ReportInv

-----------------------------------------------------------------------------
(* One step of the process: what it leaves in its directory.               *)

LEMMA NothingYet ==
  /\ Unused \in Directory /\ NoSummary \in Summary
  /\ NoCheckpoint \notin Checkpoint
  /\ \A s \in Summary : s.reason \in Reasons => s # NoSummary
  /\ 0 \in Versions /\ Versions \subseteq Nat /\ Spent \subseteq Nat
  /\ MaxSpent \in Spent /\ 0 \in Spent /\ 1 \in Spent /\ 0 \in 0..Rounds
  /\ Rounds \in Nat /\ NoJob \notin Process
<1>1. /\ 0 \in Versions /\ Versions \subseteq Nat /\ Spent \subseteq Nat
      /\ MaxSpent \in Spent /\ 0 \in Spent /\ 1 \in Spent /\ 0 \in 0..Rounds
      /\ Rounds \in Nat
  BY TreatmentAssumption DEF Versions, Spent
<1>2. NoSummary \in Summary
  BY <1>1 DEF NoSummary, Summary
<1>3. Unused \in Directory
  BY <1>2 DEF Unused, Directory
<1>4. NoCheckpoint \notin Checkpoint
  BY TreatmentAssumption DEF NoCheckpoint, Checkpoint
<1>5. \A s \in Summary : s.reason \in Reasons => s # NoSummary
  BY DEF NoSummary, Reasons
<1>6. NoJob \notin Process
  BY DEF NoJob, Process
<1> QED
  BY <1>1, <1>2, <1>3, <1>4, <1>5, <1>6

LEMMA Launches ==
  ASSUME NEW job \in Job
  PROVE  Launched(job) \in Process /\ Launched(job).job = job
         /\ \A d, n : InStep(Launched(job), d, n)
BY NothingYet DEF Launched, Process, InStep

LEMMA LongerIs ==
  ASSUME NEW s \in Spent
  PROVE  Min({s + 1, MaxSpent}) \in Spent /\ Min({s + 1, MaxSpent}) >= s
<1>1. s \in Int /\ s <= MaxSpent /\ s >= 0 /\ MaxSpent \in Int
  BY TreatmentAssumption DEF Spent
<1> DEFINE S == {s + 1, MaxSpent}
<1>2. \E x \in S : \A y \in S : x =< y
  <2>1. CASE s + 1 <= MaxSpent
    BY <1>1, <2>1
  <2>2. CASE s + 1 > MaxSpent
    BY <1>1, <2>2
  <2> QED
    BY <1>1, <2>1, <2>2
<1>3. Min(S) \in S
  BY <1>2 DEF Min
<1>4. Min(S) = s + 1 \/ Min(S) = MaxSpent
  BY <1>3
<1>5. \A y \in S : Min(S) =< y
  BY <1>2 DEF Min
<1>6. Min(S) <= MaxSpent
  BY <1>5
<1> HIDE DEF S
<1> QED
  BY <1>1, <1>4, <1>6 DEF S, Spent

(* The step of a process p, with directory d and work w, to q, e and v.    *)
Moves(p, q, d, e, w, v, n) ==
  /\ p \in Process /\ q \in Process /\ q.job = p.job /\ e \in Directory
  /\ v \subseteq w \cup {Entry(p.job.task, n)}
  /\ d.checkpoint # NoCheckpoint =>
       e.checkpoint # NoCheckpoint /\ e.checkpoint.policies = d.checkpoint.policies
  /\ d.summary # NoSummary => e.summary # NoSummary
  /\ Sound(e, v) /\ InStep(q, e, n)

LEMMA SoundCopies ==
  ASSUME NEW d, NEW e, NEW w, Sound(d, w),
         e.made, e.checkpoint = d.checkpoint, e.summary = d.summary
  PROVE  Sound(e, w)
BY DEF Sound

LEMMA Saves ==
  ASSUME NEW d \in Directory, NEW w, Sound(d, w), d.made, NEW c \in Checkpoint,
         d.checkpoint # NoCheckpoint => c.policies = d.checkpoint.policies,
         NEW x, NEW v, (v = w /\ d.checkpoint # NoCheckpoint)
                         \/ v = w \cup {Entry(x, c.policies)}
  PROVE  /\ [d EXCEPT !.checkpoint = c] \in Directory
         /\ Sound([d EXCEPT !.checkpoint = c], v)
         /\ [d EXCEPT !.checkpoint = c].made
         /\ [d EXCEPT !.checkpoint = c].checkpoint = c
         /\ [d EXCEPT !.checkpoint = c].summary = d.summary
         /\ [d EXCEPT !.checkpoint = c].seed = d.seed
<1> DEFINE e == [d EXCEPT !.checkpoint = c]
<1>1. /\ e \in Directory /\ e.made /\ e.checkpoint = c /\ e.summary = d.summary
      /\ e.seed = d.seed
  BY DEF Directory
<1> HIDE DEF e
<1>2. c # NoCheckpoint
  BY NothingYet
<1>3. v # {} /\ \A y \in v : y.policies = c.policies
  <2>1. d.checkpoint = NoCheckpoint => w = {}
    BY DEF Sound
  <2>2. d.checkpoint # NoCheckpoint => w # {} /\ \A y \in w : y.policies = c.policies
    BY DEF Sound
  <2>3. CASE v = w /\ d.checkpoint # NoCheckpoint
    BY <2>2, <2>3
  <2>4. CASE v = w \cup {Entry(x, c.policies)}
    <3> DEFINE z == Entry(x, c.policies)
    <3>1. z.policies = c.policies
      BY EntryIs
    <3> HIDE DEF z
    <3>2. v = w \cup {z}
      BY <2>4 DEF z
    <3> QED
      BY <2>1, <2>2, <3>1, <3>2
  <2> QED
    BY <2>3, <2>4
<1>4. d.summary # NoSummary => d.summary.policies = c.policies
  <2>1. d.checkpoint = NoCheckpoint => d.summary = NoSummary
    BY DEF Sound
  <2> QED
    BY <2>1 DEF Sound
<1>5. d.summary.reason = "time-budget" => d.summary.spent >= d.summary.cap
  BY DEF Sound
<1>6. Sound(e, v)
  BY <1>1, <1>2, <1>3, <1>4, <1>5 DEF Sound
<1> QED
  BY <1>1, <1>6 DEF e

LEMMA Marks ==
  ASSUME NEW d \in Directory
  PROVE  /\ [d EXCEPT !.made = TRUE] \in Directory
         /\ [d EXCEPT !.failure = TRUE] \in Directory
         /\ \A s \in {"passed", "failed"} : [d EXCEPT !.seed = s] \in Directory
         /\ \A l \in SUBSET Limits : [d EXCEPT !.limits = d.limits \cup l] \in Directory
         /\ \A s \in Summary : [d EXCEPT !.summary = s] \in Directory
BY DEF Directory

LEMMA WorkIsSound ==
  ASSUME NEW d, NEW w, Sound(d, w), d.checkpoint # NoCheckpoint, NEW x
  PROVE  Sound(d, w \cup {Entry(x, d.checkpoint.policies)})
<1> DEFINE z == Entry(x, d.checkpoint.policies)
<1>1. z.policies = d.checkpoint.policies
  BY EntryIs
<1> HIDE DEF z
<1>2. Sound(d, w \cup {z})
  BY <1>1 DEF Sound
<1> QED
  BY <1>2 DEF z

LEMMA GoesTo ==
  ASSUME NEW p \in Process, NEW at \in {"preflight", "begin", "search", "final",
                                         "report", "close"}
  PROVE  /\ [p EXCEPT !.at = at] \in Process
         /\ [p EXCEPT !.at = at].at = at /\ [p EXCEPT !.at = at].job = p.job
         /\ [p EXCEPT !.at = at].reason = p.reason
         /\ [p EXCEPT !.at = at].spent = p.spent
BY DEF Process

LEMMA Exits ==
  ASSUME NEW p \in Process, NEW code \in {0, 1}
  PROVE  /\ [p EXCEPT !.at = "exited", !.code = code] \in Process
         /\ [p EXCEPT !.at = "exited", !.code = code].at = "exited"
         /\ [p EXCEPT !.at = "exited", !.code = code].code = code
         /\ [p EXCEPT !.at = "exited", !.code = code].job = p.job
BY DEF Process

LEMMA Fails ==
  ASSUME NEW p \in Process, NEW d \in Directory, NEW w, Sound(d, w), NEW n,
         NEW e \in Directory, e.made, e.checkpoint = d.checkpoint,
         e.summary = d.summary,
         NEW v, v = w \/ (/\ v = w \cup {Entry(p.job.task, n)}
                          /\ d.checkpoint # NoCheckpoint /\ d.checkpoint.policies = n)
  PROVE  Moves(p, [p EXCEPT !.at = "exited", !.code = 1],
               d, [e EXCEPT !.failure = TRUE], w, v, n)
<1> DEFINE q == [p EXCEPT !.at = "exited", !.code = 1]
           f == [e EXCEPT !.failure = TRUE]
<1>1. q \in Process /\ q.at = "exited" /\ q.code = 1 /\ q.job = p.job
  BY Exits
<1>2. /\ f \in Directory /\ f.made /\ f.checkpoint = d.checkpoint
      /\ f.summary = d.summary
  BY DEF Directory
<1> HIDE DEF q, f
<1>3. Sound(d, v)
  <2>1. d.checkpoint # NoCheckpoint =>
          Sound(d, w \cup {Entry(p.job.task, d.checkpoint.policies)})
    BY WorkIsSound
  <2> QED
    BY <2>1
<1>4. Sound(f, v)
  BY <1>2, <1>3, SoundCopies
<1>5. InStep(q, f, n)
  BY <1>1 DEF InStep
<1>6. v \subseteq w \cup {Entry(p.job.task, n)}
  OBVIOUS
<1> QED
  BY <1>1, <1>2, <1>4, <1>5, <1>6 DEF Moves, q, f

(* A step that leaves the directory or only saves a checkpoint of it.      *)
LEMMA Continues ==
  ASSUME NEW p \in Process, NEW q \in Process, q.job = p.job,
         NEW d \in Directory, NEW w, Sound(d, w), NEW n,
         NEW e \in Directory, NEW v, Sound(e, v), e.summary = d.summary,
         v = w \/ v = w \cup {Entry(p.job.task, n)},
         d.checkpoint # NoCheckpoint =>
           e.checkpoint # NoCheckpoint /\ e.checkpoint.policies = d.checkpoint.policies,
         InStep(q, e, n)
  PROVE  Moves(p, q, d, e, w, v, n)
<1>1. v \subseteq w \cup {Entry(p.job.task, n)}
  OBVIOUS
<1> QED
  BY <1>1 DEF Moves

LEMMA Contents ==
  ASSUME TypeInv, DirectoryInv, child # NoJob
  PROVE  /\ child \in Process /\ child.job \in Job /\ child.job.t \in Treatment
         /\ child.job.task \in Task /\ child.job.until \in BOOLEAN
         /\ child.job.cap \in Nat
         /\ child.spent \in Spent /\ child.rounds \in 0..Rounds
         /\ archive \in [Treatment -> Directory] /\ Here \in Directory
         /\ worked \in [Treatment -> SUBSET Work]
         /\ policies \in Versions /\ faults \in Nat
         /\ Sound(Here, worked[child.job.t]) /\ InStep(child, Here, policies)
<1>1. child \in Process /\ child.job \in Job /\ child.job.t \in Treatment
  BY DEF TypeInv, Process, Job
<1>2. /\ child.job.task \in Task /\ child.job.until \in BOOLEAN
      /\ child.job.cap \in Nat
  BY <1>1 DEF Job
<1>3. child.spent \in Spent /\ child.rounds \in 0..Rounds
  BY <1>1 DEF Process
<1>4. archive \in [Treatment -> Directory] /\ Here \in Directory
  BY <1>1 DEF TypeInv, Here
<1>5. /\ worked \in [Treatment -> SUBSET Work]
      /\ policies \in Versions /\ faults \in Nat
  BY DEF TypeInv
<1>6. Sound(Here, worked[child.job.t]) /\ InStep(child, Here, policies)
  BY <1>1 DEF DirectoryInv, Here
<1> QED
  BY <1>1, <1>2, <1>3, <1>4, <1>5, <1>6

Stepped(q, e, v) ==
  /\ archive' = [archive EXCEPT ![child.job.t] = e] /\ child' = q
  /\ worked' = [worked EXCEPT ![child.job.t] = v]
  /\ Moves(child, q, Here, e, worked[child.job.t], v, policies)
  /\ policies' = policies /\ extras' = extras /\ faults' \in Nat

ChildMoves == \E q, e, v : Stepped(q, e, v)

LEMMA Same ==
  ASSUME TypeInv, DirectoryInv, child # NoJob
  PROVE  /\ archive = [archive EXCEPT ![child.job.t] = Here]
         /\ worked = [worked EXCEPT ![child.job.t] = worked[child.job.t]]
         /\ Fault => faults' \in Nat
BY Contents DEF Here, Fault

LEMMA OpenMoves ==
  ASSUME TypeInv, DirectoryInv, child # NoJob, Open  PROVE ChildMoves
<1> DEFINE w == worked[child.job.t]
           out == [child EXCEPT !.at = "exited", !.code = 1]
           on == [child EXCEPT !.at = "preflight"]
           e == [Here EXCEPT !.made = TRUE]
<1>0. /\ child \in Process /\ Here \in Directory /\ Sound(Here, w)
      /\ worked' = [worked EXCEPT ![child.job.t] = w]
      /\ policies' = policies /\ extras' = extras
      /\ faults' \in Nat
  BY Contents, Same DEF Open, presets
<1>1. CASE child' = out /\ archive' = archive
  <2>1. out \in Process /\ out.at = "exited" /\ out.code = 1 /\ out.job = child.job
    BY <1>0, Exits
  <2>2. InStep(out, Here, policies)
    BY <2>1 DEF InStep
  <2>3. Moves(child, out, Here, Here, w, w, policies)
    BY <1>0, <2>1, <2>2, Continues
  <2> QED
    BY <1>0, <1>1, <2>3, Same DEF Stepped, ChildMoves
<1>2. CASE child' = on /\ archive' = [archive EXCEPT ![child.job.t] = e]
  <2>1. on \in Process /\ on.at = "preflight" /\ on.job = child.job
    BY <1>0, GoesTo
  <2>2. /\ e \in Directory /\ e.made /\ e.summary = Here.summary
        /\ e.checkpoint = Here.checkpoint
    BY <1>0 DEF Directory
  <2>3. Sound(e, w)
    BY <1>0, <2>2, SoundCopies
  <2>4. InStep(on, e, policies)
    BY <2>1, <2>2 DEF InStep
  <2>5. Moves(child, on, Here, e, w, w, policies)
    BY <1>0, <2>1, <2>2, <2>3, <2>4, Continues
  <2> QED
    BY <1>0, <1>2, <2>5 DEF Stepped, ChildMoves
<1> QED
  BY <1>1, <1>2 DEF Open, Exit, Go, Put

(* A process that raises an exception or is killed: its directory e is as  *)
(* it was in all that matters.                                             *)
LEMMA RaiseMoves ==
  ASSUME TypeInv, DirectoryInv, child # NoJob, NEW e \in Directory, Raise(e),
         Here.made, e.made, e.checkpoint = Here.checkpoint,
         e.summary = Here.summary, policies' = policies, extras' = extras,
         faults' \in Nat,
         NEW v, worked' = [worked EXCEPT ![child.job.t] = v],
         \/ v = worked[child.job.t]
         \/ /\ v = worked[child.job.t] \cup {Entry(child.job.task, policies)}
            /\ Here.checkpoint # NoCheckpoint /\ Here.checkpoint.policies = policies
  PROVE  ChildMoves
<1> DEFINE q == [child EXCEPT !.at = "exited", !.code = 1]
           f == [e EXCEPT !.failure = TRUE]
           w == worked[child.job.t]
<1>1. child' = q /\ archive' = [archive EXCEPT ![child.job.t] = f]
  BY DEF Raise, Exit, Put
<1>2. child \in Process /\ Here \in Directory /\ Sound(Here, w)
  BY Contents
<1>3. Moves(child, q, Here, f, w, v, policies)
  BY <1>2, Fails
<1> QED
  BY <1>1, <1>3 DEF Stepped, ChildMoves

LEMMA PreflightMoves ==
  ASSUME TypeInv, DirectoryInv, child # NoJob, Preflight  PROVE ChildMoves
<1> DEFINE w == worked[child.job.t]
           on == [child EXCEPT !.at = "begin"]
<1>0. /\ child \in Process /\ Here \in Directory /\ Sound(Here, w)
      /\ worked' = [worked EXCEPT ![child.job.t] = w]
      /\ policies' = policies /\ extras' = extras
      /\ faults' \in Nat /\ Here.made
  BY Contents, Same DEF Preflight, InStep, presets
<1>1. CASE child' = on /\ archive' = archive
  <2>1. on \in Process /\ on.at = "begin" /\ on.job = child.job
    BY <1>0, GoesTo
  <2>2. InStep(on, Here, policies)
    BY <1>0, <2>1 DEF InStep
  <2>3. Moves(child, on, Here, Here, w, w, policies)
    BY <1>0, <2>1, <2>2, Continues
  <2> QED
    BY <1>0, <1>1, <2>3, Same DEF Stepped, ChildMoves
<1>2. CASE Raise(Here)
  BY <1>0, <1>2, RaiseMoves
<1> QED
  BY <1>1, <1>2 DEF Preflight, Go

LEMMA DieMoves ==
  ASSUME TypeInv, DirectoryInv, child # NoJob, Die  PROVE ChildMoves
<1> DEFINE w == worked[child.job.t]
           out == [child EXCEPT !.at = "exited", !.code = 1]
<1>0. /\ child \in Process /\ Here \in Directory /\ Sound(Here, w)
      /\ worked' = [worked EXCEPT ![child.job.t] = w]
      /\ policies' = policies /\ extras' = extras
      /\ faults' \in Nat /\ child' = out /\ archive' = archive
  BY Contents, Same DEF Die, Exit, presets
<1>1. out \in Process /\ out.at = "exited" /\ out.code = 1 /\ out.job = child.job
  BY <1>0, Exits
<1>2. InStep(out, Here, policies)
  BY <1>1 DEF InStep
<1>3. Moves(child, out, Here, Here, w, w, policies)
  BY <1>0, <1>1, <1>2, Continues
<1> QED
  BY <1>0, <1>3, Same DEF Stepped, ChildMoves

LEMMA SavedIs ==
  ASSUME TypeInv, DirectoryInv, child # NoJob, NEW r \in 0..Rounds, NEW s \in Spent
  PROVE  /\ Saved(r, s) \in Directory /\ Saved(r, s).made = Here.made
         /\ Saved(r, s).checkpoint \in Checkpoint
         /\ Saved(r, s).checkpoint.policies = policies
         /\ Saved(r, s).summary = Here.summary
<1> DEFINE c == [rounds |-> r, spent |-> s, policies |-> policies,
                 until |-> child.job.until]
<1>1. c \in Checkpoint /\ c.policies = policies
  BY Contents DEF Checkpoint
<1> HIDE DEF c
<1>2. Saved(r, s) = [Here EXCEPT !.checkpoint = c]
  BY DEF Saved, c
<1> QED
  BY <1>1, <1>2, Contents DEF Directory

(* A step that saves a checkpoint of this run.                             *)
LEMMA SaveMoves ==
  ASSUME TypeInv, DirectoryInv, child # NoJob, NEW e \in Directory,
         archive' = [archive EXCEPT ![child.job.t] = e],
         e.made, e.checkpoint \in Checkpoint, e.checkpoint.policies = policies,
         e.summary = Here.summary,
         Here.checkpoint # NoCheckpoint => Here.checkpoint.policies = policies,
         NEW q \in Process, child' = q, q.job = child.job, InStep(q, e, policies),
         policies' = policies, extras' = extras,
         faults' \in Nat,
         NEW v, worked' = [worked EXCEPT ![child.job.t] = v],
         \/ v = worked[child.job.t] /\ Here.checkpoint # NoCheckpoint
         \/ v = worked[child.job.t] \cup {Entry(child.job.task, policies)}
  PROVE  ChildMoves
<1> DEFINE w == worked[child.job.t]
<1>1. child \in Process /\ Here \in Directory /\ Sound(Here, w)
  BY Contents
<1>2. e.checkpoint # NoCheckpoint
  BY NothingYet
<1>3. v # {} /\ \A x \in v : x.policies = policies
  <2>1. Here.checkpoint = NoCheckpoint => w = {}
    BY <1>1 DEF Sound
  <2>2. Here.checkpoint # NoCheckpoint => w # {} /\ \A x \in w : x.policies = policies
    BY <1>1 DEF Sound
  <2>3. CASE v = w /\ Here.checkpoint # NoCheckpoint
    BY <2>2, <2>3
  <2>4. CASE v = w \cup {Entry(child.job.task, policies)}
    <3> DEFINE z == Entry(child.job.task, policies)
    <3>1. z.policies = policies
      BY EntryIs
    <3> HIDE DEF z
    <3>2. v = w \cup {z}
      BY <2>4 DEF z
    <3> QED
      BY <2>1, <2>2, <3>1, <3>2
  <2> QED
    BY <2>3, <2>4
<1>4. e.summary # NoSummary => e.summary.policies = policies
  <2>1. Here.checkpoint = NoCheckpoint => Here.summary = NoSummary
    BY <1>1 DEF Sound
  <2> QED
    BY <1>1, <2>1 DEF Sound
<1>5. e.summary.reason = "time-budget" => e.summary.spent >= e.summary.cap
  BY <1>1 DEF Sound
<1>6. Sound(e, v)
  BY <1>2, <1>3, <1>4, <1>5 DEF Sound
<1>7. v = w \/ v = w \cup {Entry(child.job.task, policies)}
  OBVIOUS
<1> HIDE DEF w
<1>8. Moves(child, q, Here, e, w, v, policies)
  BY <1>1, <1>2, <1>6, <1>7, Continues
<1> QED
  BY <1>8 DEF Stepped, ChildMoves, w

LEMMA BeginMoves ==
  ASSUME TypeInv, DirectoryInv, child # NoJob, Begin  PROVE ChildMoves
<1> DEFINE w == worked[child.job.t]
<1>0. /\ child \in Process /\ Here \in Directory /\ Sound(Here, w)
      /\ policies' = policies /\ extras' = extras /\ faults' \in Nat /\ Here.made
  BY Contents, Same DEF Begin, InStep, presets
<1>1. CASE /\ Here.checkpoint # NoCheckpoint
           /\ SameExperiment(Here.checkpoint) /\ Restored(Here.checkpoint)
           /\ archive' = archive /\ worked' = worked
  <2> DEFINE q == [child EXCEPT !.at = "search", !.rounds = Here.checkpoint.rounds,
                                !.spent = Here.checkpoint.spent]
  <2>1. /\ Here.checkpoint.rounds \in 0..Rounds /\ Here.checkpoint.spent \in Spent
        /\ Here.checkpoint.policies = policies
    BY <1>0, <1>1 DEF Directory, Checkpoint, SameExperiment
  <2>2. q \in Process /\ q.at = "search" /\ q.job = child.job
    BY <1>0, <2>1 DEF Process
  <2>3. child' = q
    BY <1>1 DEF Restored
  <2> HIDE DEF q
  <2>4. InStep(q, Here, policies)
    BY <1>0, <1>1, <2>1, <2>2 DEF InStep
  <2>5. Moves(child, q, Here, Here, w, w, policies)
    BY <1>0, <2>2, <2>4, Continues
  <2> QED
    BY <1>0, <1>1, <2>3, <2>5, Same DEF Stepped, ChildMoves
<1>2. CASE Raise(Here) /\ worked' = worked
  BY <1>0, <1>2, RaiseMoves, Same
<1>3. CASE /\ Here.checkpoint = NoCheckpoint
           /\ child' = [child EXCEPT !.at = "search", !.spent = 1]
           /\ Put(Saved(0, 1)) /\ Used
  <2> DEFINE q == [child EXCEPT !.at = "search", !.spent = 1]
             e == Saved(0, 1)
  <2>1. q \in Process /\ q.at = "search" /\ q.job = child.job
    BY <1>0, NothingYet DEF Process
  <2>2. /\ e \in Directory /\ e.made /\ e.checkpoint \in Checkpoint
        /\ e.checkpoint.policies = policies /\ e.summary = Here.summary
    BY <1>0, SavedIs, NothingYet
  <2>3. child' = q /\ archive' = [archive EXCEPT ![child.job.t] = e]
    BY <1>3 DEF Put
  <2>4. worked' = [worked EXCEPT ![child.job.t] =
                     w \cup {Entry(child.job.task, policies)}]
    BY <1>3 DEF Used, Entry
  <2> HIDE DEF q, e
  <2>5. InStep(q, e, policies)
    BY <2>1, <2>2, NothingYet DEF InStep
  <2> QED
    BY <1>0, <1>3, <2>1, <2>2, <2>3, <2>4, <2>5, SaveMoves
<1> QED
  BY <1>1, <1>2, <1>3 DEF Begin

(* What is known of a search in progress.                                  *)
LEMMA Searching ==
  ASSUME TypeInv, DirectoryInv, child # NoJob,
         child.at \in {"search", "final", "report", "close"}
  PROVE  /\ child \in Process /\ Here \in Directory /\ Here.made
         /\ Sound(Here, worked[child.job.t])
         /\ Here.checkpoint # NoCheckpoint /\ Here.checkpoint.policies = policies
         /\ child.spent \in Spent /\ child.rounds \in 0..Rounds
         /\ Longer \in Spent /\ Longer >= child.spent
BY Contents, LongerIs DEF InStep, Longer

LEMMA OperateMoves ==
  ASSUME TypeInv, DirectoryInv, child # NoJob, Operate  PROVE ChildMoves
<1> DEFINE w == worked[child.job.t]
           v == w \cup {Entry(child.job.task, policies)}
<1>0. /\ child \in Process /\ Here \in Directory /\ Here.made /\ Sound(Here, w)
      /\ Here.checkpoint # NoCheckpoint /\ Here.checkpoint.policies = policies
      /\ child.rounds \in 0..Rounds /\ Longer \in Spent
      /\ policies' = policies /\ extras' = extras /\ faults' \in Nat
      /\ child.rounds < Rounds /\ child.at = "search"
      /\ worked' = [worked EXCEPT ![child.job.t] = v]
  BY Searching, Contents DEF Operate, Used, Entry, presets
<1>1. PICK done \in BOOLEAN, saved \in BOOLEAN :
        /\ child' = [child EXCEPT !.rounds = child.rounds + (IF done THEN 1 ELSE 0),
                                  !.spent = Longer]
        /\ IF saved THEN Put(Saved(child.rounds + (IF done THEN 1 ELSE 0), Longer))
           ELSE UNCHANGED archive
  BY DEF Operate
<1> DEFINE r == child.rounds + (IF done THEN 1 ELSE 0)
           q == [child EXCEPT !.rounds = r, !.spent = Longer]
<1>2. r \in 0..Rounds
  BY <1>0, TreatmentAssumption
<1> HIDE DEF r
<1>3. q \in Process /\ q.at = "search" /\ q.job = child.job /\ child' = q
  BY <1>0, <1>1, <1>2 DEF Process, r
<1> HIDE DEF q
<1>4. CASE saved
  <2> DEFINE e == Saved(r, Longer)
  <2>1. /\ e \in Directory /\ e.made /\ e.checkpoint \in Checkpoint
        /\ e.checkpoint.policies = policies /\ e.summary = Here.summary
    BY <1>0, <1>2, SavedIs
  <2>2. archive' = [archive EXCEPT ![child.job.t] = e]
    BY <1>1, <1>4 DEF Put, r
  <2> HIDE DEF e
  <2>3. InStep(q, e, policies)
    BY <1>3, <2>1, NothingYet DEF InStep
  <2> QED
    BY <1>0, <1>3, <2>1, <2>2, <2>3, SaveMoves
<1>5. CASE ~saved
  <2>1. InStep(q, Here, policies)
    BY <1>0, <1>3 DEF InStep
  <2>2. Sound(Here, v)
    BY <1>0, WorkIsSound
  <2>3. Moves(child, q, Here, Here, w, v, policies)
    BY <1>0, <1>3, <2>1, <2>2, Continues
  <2>4. archive' = [archive EXCEPT ![child.job.t] = Here]
    BY <1>1, <1>5, Same
  <2> QED
    BY <1>0, <1>3, <2>3, <2>4 DEF Stepped, ChildMoves
<1> QED
  BY <1>4, <1>5

LEMMA OperationFailsMoves ==
  ASSUME TypeInv, DirectoryInv, child # NoJob, OperationFails  PROVE ChildMoves
<1>0. /\ Here \in Directory /\ Here.made
      /\ Here.checkpoint # NoCheckpoint /\ Here.checkpoint.policies = policies
      /\ policies' = policies /\ extras' = extras /\ faults' \in Nat
      /\ worked' = [worked EXCEPT ![child.job.t] =
                      worked[child.job.t] \cup {Entry(child.job.task, policies)}]
  BY Searching, Contents DEF OperationFails, Fault, Used, Entry, presets
<1>1. PICK limits \in SUBSET Limits : Raise([Here EXCEPT !.limits = @ \cup limits])
  BY DEF OperationFails
<1> DEFINE e == [Here EXCEPT !.limits = @ \cup limits]
<1>2. /\ e \in Directory /\ e.made /\ e.checkpoint = Here.checkpoint
      /\ e.summary = Here.summary
  BY <1>0 DEF Directory
<1>3. Raise(e)
  BY <1>1
<1> HIDE DEF e
<1> QED
  BY <1>0, <1>2, <1>3, RaiseMoves

(* The search is over: the budget is not used up for nothing.              *)
LEMMA Leaves ==
  ASSUME NEW p \in Process, NEW s \in Spent, NEW reason \in Reasons,
         reason = "time-budget" => s >= p.job.cap
  PROVE  /\ [p EXCEPT !.at = "final", !.spent = s, !.reason = reason] \in Process
         /\ [p EXCEPT !.at = "final", !.spent = s, !.reason = reason].job = p.job
         /\ \A d, n : d.made /\ d.checkpoint # NoCheckpoint /\ d.checkpoint.policies = n =>
              InStep([p EXCEPT !.at = "final", !.spent = s, !.reason = reason], d, n)
<1> DEFINE q == [p EXCEPT !.at = "final", !.spent = s, !.reason = reason]
<1>1. /\ q \in Process /\ q.at = "final" /\ q.spent = s /\ q.reason = reason
      /\ q.job = p.job
  BY DEF Process
<1> HIDE DEF q
<1>2. \A d, n : d.made /\ d.checkpoint # NoCheckpoint /\ d.checkpoint.policies = n =>
        InStep(q, d, n)
  BY <1>1 DEF InStep
<1> QED
  BY <1>1, <1>2 DEF q

LEMMA StopMoves ==
  ASSUME TypeInv, DirectoryInv, child # NoJob, StopForTime \/ StopEmpty
  PROVE  ChildMoves
<1> DEFINE w == worked[child.job.t]
<1>0. /\ child \in Process /\ Here \in Directory /\ Here.made
      /\ Here.checkpoint # NoCheckpoint /\ Here.checkpoint.policies = policies
      /\ child.rounds \in 0..Rounds /\ child.spent \in Spent /\ Longer \in Spent
      /\ faults' \in Nat /\ policies' = policies /\ extras' = extras
  BY Searching, Contents DEF StopForTime, StopEmpty, presets
<1>1. CASE StopForTime
  <2> DEFINE q == [child EXCEPT !.at = "final", !.spent = child.spent,
                                !.reason = "time-budget"]
             e == Saved(child.rounds, child.spent)
  <2>1. child' = q
    <3>1. child' = [child EXCEPT !.at = "final", !.reason = "time-budget"]
      BY <1>1 DEF StopForTime, Leave
    <3> QED
      BY <1>0, <3>1 DEF Process
  <2>2. child.spent >= child.job.cap
    BY <1>1 DEF StopForTime, OutOfTime
  <2>3. /\ e \in Directory /\ e.made /\ e.checkpoint \in Checkpoint
        /\ e.checkpoint.policies = policies /\ e.summary = Here.summary
    BY <1>0, SavedIs
  <2>4. archive' = [archive EXCEPT ![child.job.t] = e]
    BY <1>1 DEF StopForTime, Put
  <2>5. worked' = [worked EXCEPT ![child.job.t] = w]
    BY <1>1, Same DEF StopForTime
  <2> HIDE DEF e
  <2>6. "time-budget" \in Reasons
    BY DEF Reasons
  <2>7. q \in Process /\ q.job = child.job /\ InStep(q, e, policies)
    BY <1>0, <2>2, <2>3, <2>6, NothingYet, Leaves
  <2> HIDE DEF q, w
  <2> QED
    BY <1>0, <2>1, <2>3, <2>4, <2>5, <2>7, SaveMoves DEF w
<1>2. CASE StopEmpty
  <2> DEFINE q == [child EXCEPT !.at = "final", !.spent = Longer,
                                !.reason = "no-new-valid-candidates"]
             e == Saved(child.rounds, Longer)
             v == w \cup {Entry(child.job.task, policies)}
  <2>1. child' = q
    BY <1>2 DEF StopEmpty
  <2>3. /\ e \in Directory /\ e.made /\ e.checkpoint \in Checkpoint
        /\ e.checkpoint.policies = policies /\ e.summary = Here.summary
    BY <1>0, SavedIs
  <2>4. archive' = [archive EXCEPT ![child.job.t] = e]
    BY <1>2 DEF StopEmpty, Put
  <2>5. worked' = [worked EXCEPT ![child.job.t] = v]
    BY <1>2 DEF StopEmpty, Used, Entry
  <2> HIDE DEF e
  <2>6. /\ "no-new-valid-candidates" \in Reasons
        /\ "no-new-valid-candidates" # "time-budget"
    BY DEF Reasons
  <2>7. q \in Process /\ q.job = child.job /\ InStep(q, e, policies)
    BY <1>0, <2>3, <2>6, NothingYet, Leaves
  <2> HIDE DEF q, w
  <2> QED
    BY <1>0, <2>1, <2>3, <2>4, <2>5, <2>7, SaveMoves DEF w
<1> QED
  BY <1>1, <1>2

LEMMA RoundsOverMoves ==
  ASSUME TypeInv, DirectoryInv, child # NoJob, RoundsOver  PROVE ChildMoves
<1> DEFINE w == worked[child.job.t]
           reason == IF ~child.job.until THEN "round-budget-completed"
                     ELSE IF OutOfTime THEN "time-budget"
                     ELSE "round-ceiling-before-time-budget"
           q == [child EXCEPT !.at = "final", !.spent = child.spent,
                              !.reason = reason]
<1>0. /\ child \in Process /\ Here \in Directory /\ Here.made /\ Sound(Here, w)
      /\ Here.checkpoint # NoCheckpoint /\ Here.checkpoint.policies = policies
      /\ child.spent \in Spent /\ faults' \in Nat
      /\ policies' = policies /\ extras' = extras
      /\ archive' = archive /\ worked' = worked
  BY Searching, Contents DEF RoundsOver, presets
<1>1. reason \in Reasons /\ (reason = "time-budget" => child.spent >= child.job.cap)
  BY DEF Reasons, OutOfTime
<1>2. child' = q
  <2>1. child' = [child EXCEPT !.at = "final", !.reason = reason]
    BY DEF RoundsOver, Leave
  <2> HIDE DEF reason
  <2> QED
    BY <1>0, <2>1 DEF Process
<1> HIDE DEF reason
<1>3. q \in Process /\ q.job = child.job /\ InStep(q, Here, policies)
  BY <1>0, <1>1, Leaves
<1> HIDE DEF q
<1>4. Moves(child, q, Here, Here, w, w, policies)
  BY <1>0, <1>3, Continues
<1> QED
  BY <1>0, <1>2, <1>4, Same DEF Stepped, ChildMoves

LEMMA FinalizeMoves ==
  ASSUME TypeInv, DirectoryInv, child # NoJob, Finalize  PROVE ChildMoves
<1> DEFINE w == worked[child.job.t]
           v == w \cup {Entry(child.job.task, policies)}
           q == [child EXCEPT !.at = "report"]
           s == Saved(child.rounds, child.spent)
           e == [s EXCEPT !.seed = "passed"]
<1>0. /\ child \in Process /\ Here \in Directory /\ Here.made /\ child.at = "final"
      /\ Here.checkpoint # NoCheckpoint /\ Here.checkpoint.policies = policies
      /\ child.rounds \in 0..Rounds /\ child.spent \in Spent
      /\ InStep(child, Here, policies) /\ faults' \in Nat
      /\ policies' = policies /\ extras' = extras
  BY Searching, Contents DEF Finalize, Fault, presets
<1>1. /\ q \in Process /\ q.at = "report" /\ q.job = child.job
      /\ q.reason = child.reason /\ q.spent = child.spent
  BY <1>0, GoesTo
<1>2. /\ s \in Directory /\ s.made /\ s.checkpoint \in Checkpoint
      /\ s.checkpoint.policies = policies /\ s.summary = Here.summary
  BY <1>0, SavedIs
<1> HIDE DEF s
<1>3. /\ e \in Directory /\ e.made /\ e.checkpoint = s.checkpoint
      /\ e.summary = Here.summary
  BY <1>2 DEF Directory
<1>4. Go("report") => child' = q
  BY DEF Go
<1> HIDE DEF q, e
<1>5. /\ InStep(q, s, policies) /\ InStep(q, e, policies)
  BY <1>0, <1>1, <1>2, <1>3, NothingYet DEF InStep
<1>6. CASE Raise(Here) /\ UNCHANGED worked
  BY <1>0, <1>6, Same, RaiseMoves
<1>7. CASE Put(s) /\ Go("report") /\ UNCHANGED worked
  <2>1. /\ archive' = [archive EXCEPT ![child.job.t] = s] /\ child' = q
        /\ worked' = [worked EXCEPT ![child.job.t] = w]
    BY <1>4, <1>7, Same DEF Put
  <2> HIDE DEF w
  <2> QED
    BY <1>0, <1>1, <1>2, <1>5, <2>1, SaveMoves DEF w
<1>8. CASE Put(e) /\ Go("report") /\ Used
  <2>1. /\ archive' = [archive EXCEPT ![child.job.t] = e] /\ child' = q
        /\ worked' = [worked EXCEPT ![child.job.t] = v]
    BY <1>4, <1>8 DEF Put, Used, Entry
  <2> HIDE DEF w
  <2> QED
    BY <1>0, <1>1, <1>2, <1>3, <1>5, <2>1, SaveMoves DEF w
<1>9. CASE Raise([Here EXCEPT !.seed = "failed"]) /\ Used
  <2> DEFINE f == [Here EXCEPT !.seed = "failed"]
  <2>1. /\ f \in Directory /\ f.made /\ f.checkpoint = Here.checkpoint
        /\ f.summary = Here.summary
    BY <1>0 DEF Directory
  <2>2. worked' = [worked EXCEPT ![child.job.t] = v] /\ Raise(f)
    BY <1>9 DEF Used, Entry
  <2> HIDE DEF f, w
  <2> QED
    BY <1>0, <2>1, <2>2, RaiseMoves DEF w
<1> QED
  BY <1>6, <1>7, <1>8, <1>9 DEF Finalize, s, e

LEMMA ReportMoves ==
  ASSUME TypeInv, DirectoryInv, child # NoJob, Report  PROVE ChildMoves
<1> DEFINE w == worked[child.job.t]
           q == [child EXCEPT !.at = "close"]
           y == [reason |-> child.reason, cap |-> child.job.cap,
                 spent |-> child.spent, policies |-> policies, finals |-> TRUE]
           e == [Here EXCEPT !.summary = y]
<1>0. /\ child \in Process /\ Here \in Directory /\ Here.made /\ child.at = "report"
      /\ Here.checkpoint # NoCheckpoint /\ Here.checkpoint.policies = policies
      /\ child.spent \in Spent /\ child.job.cap \in Nat /\ policies \in Versions
      /\ Sound(Here, w) /\ InStep(child, Here, policies)
      /\ policies' = policies /\ extras' = extras /\ faults' \in Nat /\ worked' = worked
      /\ archive' = [archive EXCEPT ![child.job.t] = e] /\ child' = q
  BY Searching, Contents DEF Report, Put, Go, presets
<1>1. /\ q \in Process /\ q.at = "close" /\ q.job = child.job
      /\ q.reason = child.reason /\ q.spent = child.spent
  BY <1>0, GoesTo
<1>2. /\ child.reason \in Reasons
      /\ child.reason = "time-budget" => child.spent >= child.job.cap
  BY <1>0 DEF InStep
<1>3. /\ y \in Summary /\ y.reason = child.reason /\ y.cap = child.job.cap
      /\ y.spent = child.spent /\ y.policies = policies
  BY <1>0, <1>2 DEF Summary
<1> HIDE DEF y
<1>4. y # NoSummary
  BY <1>2, <1>3, NothingYet
<1>5. /\ e \in Directory /\ e.made /\ e.checkpoint = Here.checkpoint
      /\ e.summary = y
  BY <1>0, <1>3 DEF Directory
<1> HIDE DEF q, e
<1>6. InStep(q, e, policies)
  BY <1>0, <1>1, <1>2, <1>3, <1>4, <1>5 DEF InStep
<1>7. Sound(e, w)
  BY <1>0, <1>2, <1>3, <1>4, <1>5 DEF Sound
<1>8. Moves(child, q, Here, e, w, w, policies)
  BY <1>0, <1>1, <1>4, <1>5, <1>6, <1>7 DEF Moves
<1> QED
  BY <1>0, <1>8, Same DEF Stepped, ChildMoves

LEMMA CloseMoves ==
  ASSUME TypeInv, DirectoryInv, child # NoJob, Close  PROVE ChildMoves
<1> DEFINE w == worked[child.job.t]
           q == [child EXCEPT !.at = "exited", !.code = 0]
           s == Saved(child.rounds, child.spent)
<1>0. /\ child \in Process /\ Here \in Directory /\ Here.made /\ child.at = "close"
      /\ Here.checkpoint # NoCheckpoint /\ Here.checkpoint.policies = policies
      /\ child.rounds \in 0..Rounds /\ child.spent \in Spent
      /\ InStep(child, Here, policies) /\ faults' \in Nat
      /\ policies' = policies /\ extras' = extras
      /\ worked' = [worked EXCEPT ![child.job.t] = w]
  BY Searching, Contents, Same DEF Close, presets
<1>1. CASE Put(s) /\ Exit(0)
  <2>1. q \in Process /\ q.at = "exited" /\ q.code = 0 /\ q.job = child.job
    BY <1>0, Exits
  <2>2. /\ s \in Directory /\ s.made /\ s.checkpoint \in Checkpoint
        /\ s.checkpoint.policies = policies /\ s.summary = Here.summary
    BY <1>0, SavedIs
  <2>3. archive' = [archive EXCEPT ![child.job.t] = s] /\ child' = q
    BY <1>1 DEF Put, Exit
  <2> HIDE DEF s, q
  <2>4. InStep(q, s, policies)
    BY <1>0, <2>1, <2>2 DEF InStep
  <2> HIDE DEF w
  <2> QED
    BY <1>0, <2>1, <2>2, <2>3, <2>4, SaveMoves DEF w
<1>2. CASE Raise(Here)
  BY <1>0, <1>2, RaiseMoves
<1> QED
  BY <1>1, <1>2 DEF Close

LEMMA ChildStepMoves ==
  ASSUME TypeInv, DirectoryInv, ChildStep
  PROVE  child # NoJob /\ ChildMoves
<1>1. child # NoJob
  <2>1. /\ Open => child.at = "open"
        /\ Preflight => child.at = "preflight"
        /\ Begin => child.at = "begin"
        /\ Operate \/ OperationFails \/ StopForTime \/ StopEmpty \/ RoundsOver =>
             child.at = "search"
        /\ Finalize => child.at = "final"
        /\ Report => child.at = "report"
        /\ Close => child.at = "close"
        /\ Die => child.at # "none"
    BY DEF Open, Preflight, Begin, Operate, OperationFails, StopForTime, StopEmpty,
           RoundsOver, Finalize, Report, Close, Die, Running
  <2>2. child.at # "none"
    BY <2>1 DEF ChildStep
  <2> QED
    BY <2>2 DEF NoJob
<1> QED
  BY <1>1, OpenMoves, PreflightMoves, BeginMoves, OperateMoves,
     OperationFailsMoves, StopMoves, RoundsOverMoves, FinalizeMoves,
     ReportMoves, CloseMoves, DieMoves DEF ChildStep

-----------------------------------------------------------------------------
(* What the steps of the script leave alone.                               *)

LEMMA OptionIs ==
  ASSUME NEW option \in Options
  PROVE  /\ option.task \in Task /\ option.cap \in Nat
         /\ option.mode \in {"fixed-time", "rounds"}
         /\ [task |-> option.task, mode |-> option.mode] \in EffectiveTask
         /\ [task |-> option.task, mode |-> option.mode] # NoTask
         /\ option.mode = "fixed-time" => option.cap > 0
         /\ option.cap <= MaxSpent
<1>1. option \in Option
  BY SuiteAssumption
<1>2. /\ option.task \in Task /\ option.cap \in Nat
      /\ option.mode \in {"fixed-time", "rounds"}
  BY <1>1 DEF Option
<1> QED
  BY <1>2, SuiteAssumption DEF EffectiveTask, NoTask

LEMMA PlanIs ==
  /\ Plan \in Seq(Treatment) /\ Len(Plan) \in Nat
  /\ \A i \in 1..Len(Plan) : Plan[i] \in Treatment
  /\ \A i, j \in 1..Len(Plan) : Plan[i] = Plan[j] => i = j
  /\ asked \in Options /\ asked.driver = "compression" =>
       Len(Plan) >= 1 /\ Plan[1] = Matrix[1]
<1>1. Plan = SelectedTreatments(asked)
  BY DEF Plan
<1> QED
  BY <1>1, SelectedFacts

LEMMA Stays ==
  ASSUME asked' = asked
  PROVE  Plan' = Plan /\ Effective' = Effective
BY DEF Plan, Effective

LEMMA ClaimCarries ==
  ASSUME NEW row, NEW d, NEW e, NEW option, Claim(row, d, e, option), NEW f, NEW g,
         d.checkpoint # NoCheckpoint =>
           f.checkpoint # NoCheckpoint /\ f.checkpoint.policies = d.checkpoint.policies,
         e # NoTask => g = e
  PROVE  Claim(row, f, g, option)
BY DEF Claim

(* A report that is not written again stays true.                          *)
LEMMA ReportStays ==
  ASSUME TypeInv, ReportInv, driver' = driver, report' = report,
         \A t \in Treatment : tasks[t] # NoTask => tasks'[t] = tasks[t],
         \A t \in Treatment : archive[t].checkpoint # NoCheckpoint =>
           /\ archive'[t].checkpoint # NoCheckpoint
           /\ archive'[t].checkpoint.policies = archive[t].checkpoint.policies
  PROVE  ReportInv'
<1> SUFFICES ASSUME driver = "related", NEW i \in 1..Len(report.rows)
             PROVE  Claim(report.rows[i], archive'[report.rows[i].t],
                          tasks'[report.rows[i].t], report.option)
  BY DEF ReportInv
<1> DEFINE row == report.rows[i]
<1>1. row \in ReportRow
  BY DEF TypeInv
<1>2. row.t \in Treatment
  BY <1>1 DEF ReportRow
<1>3. Claim(row, archive[row.t], tasks[row.t], report.option)
  BY DEF ReportInv
<1> HIDE DEF row
<1>4. Claim(row, archive'[row.t], tasks'[row.t], report.option)
  BY <1>2, <1>3, ClaimCarries
<1> QED
  BY <1>4 DEF row

(* A report of rows that are true is true.                                 *)
LEMMA ReportWritten ==
  ASSUME TypeInv, NEW rs \in Seq(ReportRow), Write(rs),
         UNCHANGED <<archive, driver, tasks>>,
         driver = "related" => \A i \in 1..Len(rs) :
           Claim(rs[i], archive[rs[i].t], tasks[rs[i].t], asked)
  PROVE  /\ report' \in [on : BOOLEAN, option : Options, rows : Seq(ReportRow)]
         /\ report'.on /\ report'.option = asked /\ report'.rows = rs /\ ReportInv'
<1>1. report' = [on |-> TRUE, option |-> asked, rows |-> rs] /\ asked \in Options
  BY DEF Write, TypeInv
<1>2. /\ report' \in [on : BOOLEAN, option : Options, rows : Seq(ReportRow)]
      /\ report'.on /\ report'.option = asked /\ report'.rows = rs
  BY <1>1
<1>3. ReportInv'
  BY <1>2 DEF ReportInv
<1> QED
  BY <1>2, <1>3

(* A script that ends keeps nothing in memory.                             *)
LEMMA StopKeeps ==
  ASSUME TypeInv, DirectoryInv, NEW how \in {"ok", "error"}, Stop(how),
         child' = NoJob, faults' \in Nat,
         UNCHANGED <<archive, worked, policies, extras, driver, asked>>,
         tasks' \in [Treatment -> TaskFile],
         report' \in [on : BOOLEAN, option : Options, rows : Seq(ReportRow)],
         TaskInv', ReportInv'
  PROVE  Inv'
<1>1. /\ pc' = "off" /\ exit' = how /\ next' = 1 /\ rows' = <<>> /\ failed' = FALSE
  BY DEF Stop
<1>2. TypeInv'
  <2>1. rows' \in Seq(ReportRow)
    BY <1>1
  <2> QED
    BY <1>1, <2>1 DEF TypeInv
<1>3. PlaceInv'
  <2>1. Len(Plan) \in Nat /\ Plan' = Plan
    BY PlanIs, Stays
  <2>2. Len(rows') = 0
    BY <1>1
  <2> QED
    BY <1>1, <2>1, <2>2 DEF PlaceInv
<1>4. DirectoryInv'
  BY DEF DirectoryInv
<1>5. RowsInv'
  BY <1>1 DEF RowsInv
<1> QED
  BY <1>2, <1>3, <1>4, <1>5 DEF Inv

LEMMA Initially ==
  ASSUME Init  PROVE Inv
<1>1. asked \in Options /\ driver \in Drivers /\ asked.driver = driver
  BY SuiteAssumption DEF Init
<1>2. /\ OldResult(asked.cap, asked.task) \in Directory
      /\ OldResult(asked.cap, asked.task).made
      /\ OldResult(asked.cap, asked.task).checkpoint \in Checkpoint
      /\ OldResult(asked.cap, asked.task).checkpoint.policies = 0
      /\ OldResult(asked.cap, asked.task).summary.policies = 0
      /\ OldResult(asked.cap, asked.task).summary.spent
           >= OldResult(asked.cap, asked.task).summary.cap
  <2> DEFINE c == [rounds |-> 0, spent |-> asked.cap, policies |-> 0, until |-> TRUE]
             y == [reason |-> "time-budget", cap |-> asked.cap, spent |-> asked.cap,
                   policies |-> 0, finals |-> FALSE]
  <2>1. asked.cap \in Nat /\ asked.cap \in Spent
    <3>1. asked.cap \in Nat /\ asked.cap <= MaxSpent
      BY <1>1, OptionIs
    <3>2. MaxSpent \in Nat
      BY TreatmentAssumption
    <3> QED
      BY <3>1, <3>2 DEF Spent
  <2>2. c \in Checkpoint /\ y \in Summary /\ c.policies = 0 /\ y.policies = 0
        /\ y.spent >= y.cap
    BY <2>1, NothingYet DEF Checkpoint, Summary, Reasons
  <2>3. OldResult(asked.cap, asked.task) =
          [Unused EXCEPT !.made = TRUE, !.checkpoint = c, !.summary = y]
    BY DEF OldResult
  <2> HIDE DEF c, y
  <2> QED
    BY <2>2, <2>3, NothingYet DEF Directory
<1> DEFINE d == OldResult(asked.cap, asked.task)
<1> HIDE DEF d
<1>3. Sound(d, {Entry(asked.task, 0)})
  <2>1. d.checkpoint # NoCheckpoint
    BY <1>2, NothingYet DEF d
  <2>2. \A x \in {Entry(asked.task, 0)} : x.policies = 0
    BY EntryIs
  <2> QED
    BY <1>2, <2>1, <2>2 DEF Sound, d
<1>4. Sound(Unused, {})
  BY DEF Sound, Unused, NoCheckpoint, NoSummary
<1>5. /\ archive \in [Treatment -> Directory]
      /\ worked \in [Treatment -> SUBSET Work]
      /\ tasks \in [Treatment -> TaskFile]
      /\ \A t \in Treatment : Sound(archive[t], worked[t])
      /\ \A t \in Treatment : \A x \in worked[t] :
           tasks[t] # NoTask /\ tasks[t].task = x.task
  <2>1. CASE /\ archive = [t \in Treatment |-> Unused]
             /\ tasks = [t \in Treatment |-> NoTask]
             /\ worked = [t \in Treatment |-> {}]
    BY <1>4, <2>1, NothingYet DEF TaskFile
  <2>2. CASE /\ asked.mode = "fixed-time"
             /\ \E o \in Treatment :
                  /\ archive = [t \in Treatment |-> IF t = o THEN d ELSE Unused]
                  /\ tasks = [t \in Treatment |-> IF t = o
                       THEN [task |-> asked.task, mode |-> "fixed-time"] ELSE NoTask]
                  /\ worked = [t \in Treatment |->
                       IF t = o THEN {[task |-> asked.task, policies |-> 0, extras |-> 0]}
                       ELSE {}]
    <3>0. Entry(asked.task, 0) = [task |-> asked.task, policies |-> 0, extras |-> 0]
      BY DEF Entry, Init
    <3>1. PICK o \in Treatment :
            /\ archive = [t \in Treatment |-> IF t = o THEN d ELSE Unused]
            /\ tasks = [t \in Treatment |-> IF t = o
                 THEN [task |-> asked.task, mode |-> "fixed-time"] ELSE NoTask]
            /\ worked = [t \in Treatment |->
                 IF t = o THEN {Entry(asked.task, 0)} ELSE {}]
      BY <2>2, <3>0
    <3> DEFINE e == [task |-> asked.task, mode |-> "fixed-time"]
               u == {Entry(asked.task, 0)}
    <3>2. e \in TaskFile /\ NoTask \in TaskFile /\ e # NoTask /\ e.task = asked.task
      BY <1>1, <2>2, OptionIs DEF TaskFile
    <3>3. u \in SUBSET Work /\ \A x \in u : x.task = asked.task
      <4>1. asked.task \in Task /\ 0 \in Versions
        BY <1>1, OptionIs, NothingYet
      <4>2. extras = 0 /\ Entry(asked.task, 0).task = asked.task
        BY EntryIs DEF Init
      <4>3. Entry(asked.task, 0) \in Work
        BY <4>1, <4>2, EntryIs
      <4> QED
        BY <4>2, <4>3
    <3>4. d \in Directory
      BY <1>2 DEF d
    <3> HIDE DEF e, u
    <3>5. /\ archive = [t \in Treatment |-> IF t = o THEN d ELSE Unused]
          /\ tasks = [t \in Treatment |-> IF t = o THEN e ELSE NoTask]
          /\ worked = [t \in Treatment |-> IF t = o THEN u ELSE {}]
      BY <3>1 DEF e, u
    <3>6. Sound(d, u)
      BY <1>3 DEF u
    <3>7. /\ archive \in [Treatment -> Directory]
          /\ worked \in [Treatment -> SUBSET Work]
          /\ tasks \in [Treatment -> TaskFile]
      BY <3>2, <3>3, <3>4, <3>5, NothingYet
    <3>8. \A t \in Treatment : Sound(archive[t], worked[t])
      BY <1>4, <3>5, <3>6
    <3>9. \A t \in Treatment : \A x \in worked[t] :
            tasks[t] # NoTask /\ tasks[t].task = x.task
      BY <3>2, <3>3, <3>5
    <3> QED
      BY <3>7, <3>8, <3>9
  <2> QED
    BY <2>1, <2>2 DEF Init, d
<1>6. /\ pc = "off" /\ next = 1 /\ rows = <<>> /\ failed = FALSE /\ exit = "none"
      /\ report = NoReport /\ child = NoJob /\ policies = 0 /\ extras = 0
      /\ faults = 0
  BY DEF Init
<1>7. /\ report \in [on : BOOLEAN, option : Options, rows : Seq(ReportRow)]
      /\ report.rows = <<>>
  <2>1. (CHOOSE o \in Options : TRUE) \in Options
    BY <1>1
  <2> DEFINE o == CHOOSE o \in Options : TRUE
  <2> HIDE DEF o
  <2>2. report = [on |-> FALSE, option |-> o, rows |-> <<>>] /\ o \in Options
    BY <1>6, <2>1 DEF NoReport, o
  <2> QED
    BY <2>2
<1>8. TypeInv
  BY <1>1, <1>5, <1>6, <1>7, NothingYet DEF TypeInv
<1>9. PlaceInv
  <2>1. Len(Plan) \in Nat /\ Len(rows) = 0
    BY <1>6, PlanIs
  <2> QED
    BY <1>6, <2>1 DEF PlaceInv
<1>10. DirectoryInv /\ TaskInv /\ RowsInv
  BY <1>5, <1>6 DEF DirectoryInv, TaskInv, RowsInv
<1>11. ReportInv
  <2>1. Len(report.rows) = 0
    BY <1>7
  <2> QED
    BY <2>1 DEF ReportInv
<1> QED
  BY <1>8, <1>9, <1>10, <1>11 DEF Inv

-----------------------------------------------------------------------------
(* The steps of the script.                                                *)

LEMMA StartKeeps ==
  ASSUME Inv, NEW option \in Options, Start(option)  PROVE Inv'
<1>1. /\ pc = "off" /\ option.driver = driver /\ asked' = option /\ pc' = "prepare"
      /\ exit' = "none"
      /\ UNCHANGED <<archive, child, policies, extras, faults, worked,
                     driver, next, rows, failed, tasks, report>>
  BY DEF Start, runVars, presets
<1>2. next = 1 /\ rows = <<>> /\ failed = FALSE /\ child = NoJob
  BY <1>1 DEF Inv, PlaceInv
<1>3. TypeInv'
  BY <1>1 DEF Inv, TypeInv
<1>4. PlaceInv'
  <2>1. Plan' = SelectedTreatments(option)
    BY <1>1 DEF Plan
  <2>2. Len(SelectedTreatments(option)) \in Nat
    BY SelectedFacts
  <2>3. 1 \in 1..Len(SelectedTreatments(option)) + 1 /\ Len(rows') < 1
    BY <1>1, <1>2, <2>2
  <2> QED
    BY <1>1, <1>2, <2>1, <2>3 DEF PlaceInv
<1>5. DirectoryInv' /\ TaskInv' /\ RowsInv'
  BY <1>1 DEF Inv, DirectoryInv, TaskInv, RowsInv
<1>6. ReportInv'
  BY <1>1 DEF Inv, ReportInv
<1> QED
  BY <1>3, <1>4, <1>5, <1>6 DEF Inv

LEMMA FirstConflictIs ==
  /\ FirstConflict \in 1..Len(Plan) + 1
  /\ \A i \in 1..FirstConflict - 1 : i \in 1..Len(Plan) /\ ~Conflicts(Plan[i])
<1> DEFINE p == Plan
           C == {i \in DOMAIN p : Conflicts(p[i])}
<1>0. Len(p) \in Nat /\ DOMAIN p = 1..Len(p)
  BY PlanIs
<1>1. FirstConflict = IF C = {} THEN Len(p) + 1 ELSE Min(C)
  BY DEF FirstConflict
<1>2. C \subseteq Nat /\ \A i \in C : i \in 1..Len(p) /\ Conflicts(p[i])
  BY <1>0
<1>3. \A i \in 1..Len(p) : Conflicts(p[i]) => i \in C
  BY <1>0
<1> HIDE DEF C, p
<1>4. CASE C = {}
  BY <1>0, <1>1, <1>3, <1>4 DEF p
<1>5. CASE C # {}
  <2>1. \E x \in C : \A y \in C : x =< y
    BY <1>2, <1>5, LeastExists
  <2>2. Min(C) \in C /\ \A y \in C : Min(C) =< y
    BY <2>1 DEF Min
  <2>3. FirstConflict \in C /\ \A y \in C : FirstConflict =< y
    BY <1>1, <1>5, <2>2
  <2>4. FirstConflict \in 1..Len(p)
    BY <1>2, <2>3
  <2>5. ASSUME NEW i \in 1..FirstConflict - 1
        PROVE  i \in 1..Len(p) /\ ~Conflicts(p[i])
    <3>1. i \in 1..Len(p) /\ i < FirstConflict
      BY <1>0, <2>4
    <3> QED
      BY <1>3, <2>3, <2>4, <3>1
  <2> QED
    BY <1>0, <2>4, <2>5 DEF p
<1> QED
  BY <1>4, <1>5

LEMMA WrittenIs ==
  ASSUME TypeInv, NEW n \in 0..FirstConflict - 1
  PROVE  /\ WrittenTo(n) \in [Treatment -> TaskFile]
         /\ \A t \in Treatment : tasks[t] # NoTask => WrittenTo(n)[t] = tasks[t]
         /\ \A i \in 1..n : WrittenTo(n)[Plan[i]] = Effective
<1>1. /\ tasks \in [Treatment -> TaskFile] /\ Effective \in TaskFile
  BY OptionIs DEF TypeInv, Effective, TaskFile
<1>2. /\ FirstConflict \in 1..Len(Plan) + 1 /\ Len(Plan) \in Nat
      /\ \A i \in 1..n : /\ i \in 1..FirstConflict - 1 /\ i \in 1..Len(Plan)
                         /\ ~Conflicts(Plan[i]) /\ Plan[i] \in Treatment
  BY FirstConflictIs, PlanIs
<1>3. \A t \in Treatment : tasks[t] # NoTask => WrittenTo(n)[t] = tasks[t]
  <2> SUFFICES ASSUME NEW t \in Treatment, tasks[t] # NoTask,
                      NEW i \in 1..n, Plan[i] = t
               PROVE  Effective = tasks[t]
    BY DEF WrittenTo
  <2> QED
    BY <1>2 DEF Conflicts
<1>4. \A i \in 1..n : WrittenTo(n)[Plan[i]] = Effective
  BY <1>2 DEF WrittenTo
<1> QED
  BY <1>1, <1>3, <1>4 DEF WrittenTo

(* An interrupt among the task files loses none of them, and tears none    *)
(* that the comparison had.                                                *)
LEMMA TornIs ==
  ASSUME TypeInv, NEW files \in TornTasks
  PROVE  /\ files \in [Treatment -> TaskFile]
         /\ driver = "related" =>
              \A t \in Treatment : tasks[t] # NoTask => files[t] = tasks[t]
<1>1. tasks \in [Treatment -> TaskFile] /\ TornTask \in TaskFile
  BY DEF TypeInv, TaskFile
<1>2. CASE driver = "related"
  <2>1. \/ \E n \in 0..FirstConflict - 1 : files = WrittenTo(n)
        \/ \E n \in 0..FirstConflict - 2 :
             /\ tasks[Plan[n + 1]] = NoTask
             /\ files = [WrittenTo(n) EXCEPT ![Plan[n + 1]] = TornTask]
    BY <1>2 DEF TornTasks
  <2>2. CASE \E n \in 0..FirstConflict - 1 : files = WrittenTo(n)
    BY <2>2, WrittenIs
  <2>3. CASE \E n \in 0..FirstConflict - 2 :
               /\ tasks[Plan[n + 1]] = NoTask
               /\ files = [WrittenTo(n) EXCEPT ![Plan[n + 1]] = TornTask]
    <3>1. PICK n \in 0..FirstConflict - 2 :
            /\ tasks[Plan[n + 1]] = NoTask
            /\ files = [WrittenTo(n) EXCEPT ![Plan[n + 1]] = TornTask]
      BY <2>3
    <3>2. n \in 0..FirstConflict - 1
      BY FirstConflictIs, PlanIs
    <3> DEFINE w == WrittenTo(n)
               o == Plan[n + 1]
    <3>3. /\ w \in [Treatment -> TaskFile]
          /\ \A t \in Treatment : tasks[t] # NoTask => w[t] = tasks[t]
      BY <3>2, WrittenIs
    <3> HIDE DEF w, o
    <3>4. files = [w EXCEPT ![o] = TornTask] /\ tasks[o] = NoTask
      BY <3>1 DEF w, o
    <3> QED
      BY <1>1, <3>3, <3>4
  <2> QED
    BY <2>1, <2>2, <2>3
<1>3. CASE driver # "related"
  <2>1. files = tasks \/ files = [t \in Treatment |-> TornTask]
    BY <1>3 DEF TornTasks
  <2> QED
    BY <1>1, <1>3, <2>1
<1> QED
  BY <1>2, <1>3

LEMMA PrepareKeeps ==
  ASSUME Inv, Prepare  PROVE Inv'
<1>1. /\ pc = "prepare"
      /\ UNCHANGED <<archive, child, policies, extras, faults, worked, driver,
                     asked, report>>
  BY DEF Prepare, runVars, presets
<1>2. /\ TypeInv /\ DirectoryInv /\ TaskInv /\ ReportInv /\ asked \in Options
      /\ next = 1 /\ rows = <<>> /\ failed = FALSE /\ child = NoJob
      /\ faults \in Nat
      /\ tasks \in [Treatment -> TaskFile]
      /\ report \in [on : BOOLEAN, option : Options, rows : Seq(ReportRow)]
  BY <1>1 DEF Inv, PlaceInv, TypeInv
<1>3. Effective \in TaskFile /\ Effective # NoTask /\ Effective.task = asked.task
  BY <1>2, OptionIs DEF Effective, TaskFile
<1>4. /\ tasks' \in [Treatment -> TaskFile]
      /\ driver = "related" =>
           /\ \A t \in Treatment : tasks[t] # NoTask => tasks'[t] = tasks[t]
           /\ \A i \in 1..FirstConflict - 1 : tasks'[Plan[i]] = Effective
           /\ FirstConflict <= Len(Plan) => Stop("error")
           /\ FirstConflict > Len(Plan) => GoOn
      /\ driver # "related" => Stop("error") \/ GoOn
  <2>1. CASE driver = "related"
    <3>1. /\ tasks' = WrittenTo(FirstConflict - 1)
          /\ FirstConflict <= Len(Plan) => Stop("error")
          /\ ~(FirstConflict <= Len(Plan)) => GoOn
      BY <2>1 DEF Prepare
    <3>2. FirstConflict - 1 \in 0..FirstConflict - 1
      BY FirstConflictIs, PlanIs
    <3>3. /\ tasks' \in [Treatment -> TaskFile]
          /\ \A t \in Treatment : tasks[t] # NoTask => tasks'[t] = tasks[t]
      BY <1>2, <3>1, <3>2, WrittenIs
    <3>4. \A i \in 1..FirstConflict - 1 : tasks'[Plan[i]] = Effective
      BY <1>2, <3>1, <3>2, WrittenIs
    <3>5. FirstConflict \in Int /\ Len(Plan) \in Int
      BY FirstConflictIs, PlanIs
    <3> QED
      BY <2>1, <3>1, <3>3, <3>4, <3>5
  <2>2. CASE driver = "compression"
    <3>1. \/ Stop("error") /\ tasks' = tasks
          \/ tasks' = [t \in Treatment |-> Effective] /\ GoOn
      BY <2>2 DEF Prepare
    <3> QED
      BY <1>2, <1>3, <2>2, <3>1
  <2>3. CASE driver \notin {"related", "compression"}
    <3>1. GoOn /\ tasks' = tasks
      BY <2>3 DEF Prepare
    <3> QED
      BY <1>2, <2>3, <3>1
  <2> QED
    BY <2>1, <2>2, <2>3
<1>5. Plan' = Plan /\ Effective' = Effective
  BY <1>1, Stays
<1>6. ReportInv'
  <2>1. CASE driver = "related"
    BY <1>1, <1>2, <1>4, <2>1, ReportStays
  <2>2. CASE driver # "related"
    BY <1>1, <2>2 DEF ReportInv
  <2> QED
    BY <2>1, <2>2
<1>7. driver = "related" =>
        /\ \A t \in Treatment : \A x \in worked'[t] :
             tasks'[t] # NoTask /\ tasks'[t].task = x.task
  BY <1>1, <1>2, <1>4 DEF TaskInv
<1>8. CASE Stop("error") /\ (driver = "related" => FirstConflict <= Len(Plan))
  <2>1. pc' = "off"
    BY <1>8 DEF Stop
  <2>2. TaskInv'
    BY <1>1, <1>7, <2>1 DEF TaskInv
  <2> QED
    BY <1>1, <1>2, <1>4, <1>6, <1>8, <2>2, StopKeeps
<1>9. CASE GoOn /\ (driver = "related" => FirstConflict > Len(Plan))
  <2>1. /\ pc' = "loop" /\ exit' = exit /\ next' = next /\ rows' = rows
        /\ failed' = failed
    BY <1>9 DEF GoOn
  <2>2. TypeInv'
    BY <1>1, <1>2, <1>4, <2>1 DEF TypeInv
  <2>3. Len(Plan) \in Nat /\ Len(rows) = 0
    BY <1>2, PlanIs
  <2>4. PlaceInv'
    BY <1>1, <1>2, <1>5, <2>1, <2>3 DEF PlaceInv
  <2>5. DirectoryInv'
    BY <1>1, <1>2 DEF DirectoryInv
  <2>6. TaskInv'
    <3>1. driver = "related" => \A i \in 1..Len(Plan) : tasks'[Plan[i]] = Effective
      <4>1. driver = "related" => FirstConflict = Len(Plan) + 1
        BY <1>9, <2>3, FirstConflictIs
      <4> QED
        BY <1>4, <2>3, <4>1
    <3> QED
      BY <1>1, <1>5, <1>7, <3>1 DEF TaskInv
  <2>7. RowsInv'
    BY <1>1, <1>2, <1>5, <2>1, <2>3 DEF RowsInv
  <2> QED
    BY <1>6, <2>2, <2>4, <2>5, <2>6, <2>7 DEF Inv
<1>10. FirstConflict \in Int /\ Len(Plan) \in Int
  BY FirstConflictIs, PlanIs
<1>11. FirstConflict <= Len(Plan) \/ FirstConflict > Len(Plan)
  BY <1>10
<1> QED
  BY <1>4, <1>8, <1>9, <1>11

(* The present treatment.                                                  *)
LEMMA NowIs ==
  ASSUME Inv, pc = "loop", next <= Len(Plan)
  PROVE  /\ next \in 1..Len(Plan) /\ Len(Plan) \in Nat /\ Now \in Treatment
         /\ Now = Plan[next] /\ archive[Now] \in Directory
         /\ Sound(archive[Now], worked[Now]) /\ asked \in Options
         /\ driver = "related" => tasks[Now] = Effective
         /\ driver = "compression" /\ next = 1 => Now = Matrix[1]
<1>1. next \in 1..Len(Plan) /\ Len(Plan) \in Nat /\ Now = Plan[next]
  BY PlanIs DEF Inv, PlaceInv, Now
<1>2. Now \in Treatment
  BY <1>1, PlanIs
<1>3. archive[Now] \in Directory /\ Sound(archive[Now], worked[Now])
  BY <1>2 DEF Inv, TypeInv, DirectoryInv
<1>4. asked \in Options /\ asked.driver = driver
  BY DEF Inv, TypeInv
<1>5. driver = "related" => tasks[Now] = Effective
  BY <1>1 DEF Inv, TaskInv
<1>6. driver = "compression" /\ next = 1 => Now = Matrix[1]
  BY <1>1, <1>4, PlanIs
<1> QED
  BY <1>1, <1>2, <1>3, <1>4, <1>5, <1>6

(* A row for the result that is in the directory of the present treatment. *)
LEMMA RowOfResult ==
  ASSUME Inv, pc = "loop", next <= Len(Plan), NEW summary,
         summary = archive[Now].summary, summary # NoSummary,
         NEW status \in Statuses,
         driver = "related" =>
           /\ asked.mode = "fixed-time" => summary.cap = asked.cap
           /\ status # "ended-early" /\ asked.mode = "fixed-time" =>
                summary.reason = "time-budget"
  PROVE  /\ Row(Now, status, summary) \in ReportRow
         /\ Row(Now, status, summary).t = Now
         /\ Row(Now, status, summary).status = status
         /\ Current(Row(Now, status, summary), archive[Now])
         /\ driver = "related" =>
              /\ InTime(Row(Now, status, summary), asked)
              /\ Claim(Row(Now, status, summary), archive[Now], tasks[Now], asked)
<1> DEFINE row == Row(Now, status, summary)
<1>1. /\ Now \in Treatment /\ archive[Now] \in Directory
      /\ Sound(archive[Now], worked[Now]) /\ asked \in Options
      /\ driver = "related" => tasks[Now] = Effective
  BY NowIs
<1>2. summary \in Summary
  BY <1>1 DEF Directory
<1>3. row = [t |-> Now, status |-> status, summary |-> summary]
  BY DEF Row
<1>4. row \in ReportRow
  BY <1>1, <1>2, <1>3 DEF ReportRow
<1>5. row.t = Now /\ row.status = status /\ row.summary = summary
  BY <1>3
<1> HIDE DEF row
<1>6. Current(row, archive[Now])
  BY <1>5 DEF Current
<1>7. ASSUME driver = "related"
      PROVE  InTime(row, asked) /\ Claim(row, archive[Now], tasks[Now], asked)
  <2>1. Counted(row) => status # "ended-early"
    BY <1>5 DEF Counted
  <2>2. InTime(row, asked)
    BY <1>5, <1>7, <2>1 DEF InTime
  <2>3. /\ tasks[Now] # NoTask /\ tasks[Now].task = asked.task
    BY <1>1, <1>7, OptionIs DEF Effective
  <2>4. /\ archive[Now].checkpoint # NoCheckpoint
        /\ summary.policies = archive[Now].checkpoint.policies
        /\ summary.reason = "time-budget" => summary.spent >= summary.cap
    BY <1>1 DEF Sound
  <2>5. Counted(row) /\ asked.mode = "fixed-time" => summary.spent >= asked.cap
    BY <1>7, <2>1, <2>4
  <2>6. Claim(row, archive[Now], tasks[Now], asked)
    BY <1>5, <2>3, <2>4, <2>5 DEF Claim
  <2> QED
    BY <2>2, <2>6
<1> QED
  BY <1>4, <1>5, <1>6, <1>7 DEF row

(* The rows so far and one more, as they are written to the report.        *)
LEMMA RowsAndOne ==
  ASSUME Inv, pc = "loop", next <= Len(Plan), driver # "compression",
         NEW row \in ReportRow, row.t = Now,
         Current(row, archive[Now]),
         driver = "related" => /\ InTime(row, asked)
                               /\ Claim(row, archive[Now], tasks[Now], asked)
  PROVE  /\ Append(rows, row) \in Seq(ReportRow)
         /\ Len(Append(rows, row)) = next
         /\ Append(rows, row)[next] = row
         /\ \A i \in 1..next - 1 : Append(rows, row)[i] = rows[i] /\ i \in 1..Len(rows)
         /\ \A i \in 1..next :
              LET r == Append(rows, row)[i]
              IN /\ r.t = Plan[i] /\ Current(r, archive[r.t])
                 /\ driver = "related" =>
                      /\ InTime(r, asked)
                      /\ Claim(r, archive[r.t], tasks[r.t], asked)
<1> DEFINE rs == Append(rows, row)
<1>1. rows \in Seq(ReportRow) /\ Len(rows) = next - 1 /\ next \in Nat /\ Now = Plan[next]
  <2>1. rows \in Seq(ReportRow)
    BY DEF Inv, TypeInv
  <2>2. Len(rows) = next - 1
    BY DEF Inv, RowsInv
  <2>3. next \in 1..Len(Plan) /\ Len(Plan) \in Nat /\ Now = Plan[next]
    BY NowIs
  <2> QED
    BY <2>1, <2>2, <2>3
<1>2. /\ rs \in Seq(ReportRow) /\ Len(rs) = next /\ rs[next] = row
      /\ \A i \in 1..next - 1 : rs[i] = rows[i] /\ i \in 1..Len(rows)
  BY <1>1
<1> HIDE DEF rs
<1>3. ASSUME NEW i \in 1..next
      PROVE  /\ rs[i].t = Plan[i] /\ Current(rs[i], archive[rs[i].t])
             /\ driver = "related" =>
                  /\ InTime(rs[i], asked)
                  /\ Claim(rs[i], archive[rs[i].t], tasks[rs[i].t], asked)
  <2>1. CASE i = next
    BY <1>1, <1>2, <2>1
  <2>2. CASE i # next
    <3>1. i \in 1..next - 1
      BY <1>1, <2>2
    <3> QED
      BY <1>2, <3>1 DEF Inv, RowsInv
  <2> QED
    BY <2>1, <2>2
<1> QED
  BY <1>2, <1>3 DEF rs

(* The script goes on to the next treatment with the row in its memory.    *)
LEMMA RowAdded ==
  ASSUME Inv, pc = "loop", next <= Len(Plan), driver # "compression",
         NEW row \in ReportRow, row.t = Now,
         Current(row, archive[Now]),
         driver = "related" => /\ InTime(row, asked)
                               /\ Claim(row, archive[Now], tasks[Now], asked),
         rows' = Append(rows, row), next' = next + 1, child' = NoJob,
         UNCHANGED <<archive, worked, policies, extras, faults>>,
         UNCHANGED <<driver, asked, tasks, pc, exit>>,
         failed' \in BOOLEAN, failed => failed', ~Counted(row) => failed',
         report' \in [on : BOOLEAN, option : Options, rows : Seq(ReportRow)],
         ReportInv'
  PROVE  Inv'
<1> DEFINE rs == Append(rows, row)
<1>1. /\ rs \in Seq(ReportRow) /\ Len(rs) = next /\ rs[next] = row
      /\ \A i \in 1..next - 1 : rs[i] = rows[i] /\ i \in 1..Len(rows)
      /\ \A i \in 1..next :
           /\ rs[i].t = Plan[i] /\ Current(rs[i], archive[rs[i].t])
           /\ driver = "related" =>
                /\ InTime(rs[i], asked)
                /\ Claim(rs[i], archive[rs[i].t], tasks[rs[i].t], asked)
  BY RowsAndOne
<1> HIDE DEF rs
<1>2. rows' = rs /\ Plan' = Plan /\ Effective' = Effective
  BY Stays DEF rs
<1>3. next \in 1..Len(Plan) /\ Len(Plan) \in Nat
  BY NowIs
<1>4. TypeInv'
  BY <1>1, <1>2 DEF Inv, TypeInv
<1>5. PlaceInv'
  BY <1>1, <1>2, <1>3 DEF Inv, PlaceInv
<1>6. DirectoryInv'
  BY DEF Inv, DirectoryInv
<1>7. TaskInv'
  BY <1>2 DEF Inv, TaskInv
<1>8. RowsInv'
  <2>1. ASSUME NEW i \in 1..next, ~Counted(rs[i])  PROVE failed'
    <3>1. CASE i = next
      BY <1>1, <2>1, <3>1
    <3>2. CASE i # next
      <4>1. i \in 1..next - 1
        BY <1>3, <3>2
      <4> QED
        BY <1>1, <2>1, <4>1 DEF Inv, RowsInv
    <3> QED
      BY <3>1, <3>2
  <2>2. Len(rs) = (next + 1) - 1
    BY <1>1, <1>3
  <2> QED
    BY <1>1, <1>2, <2>1, <2>2 DEF RowsInv
<1> QED
  BY <1>4, <1>5, <1>6, <1>7, <1>8 DEF Inv

LEMMA ReportSame ==
  ASSUME Inv, UNCHANGED <<archive, driver, tasks, report>>
  PROVE  /\ ReportInv'
         /\ report' \in [on : BOOLEAN, option : Options, rows : Seq(ReportRow)]
BY DEF Inv, ReportInv, TypeInv

(* The comparison of compressed with full prompts goes on.                 *)
LEMMA CompressionGoesOn ==
  ASSUME Inv, pc = "loop", next <= Len(Plan), driver = "compression",
         rows' \in Seq(ReportRow), Len(rows') <= Len(rows) + 1,
         next' = next + 1, child' = NoJob,
         UNCHANGED <<archive, worked, policies, extras, faults>>,
         UNCHANGED <<driver, asked, tasks, pc, exit>>,
         failed' \in BOOLEAN, failed => failed',
         next = 1 /\ ~failed' => archive[Now].summary # NoSummary,
         report' \in [on : BOOLEAN, option : Options, rows : Seq(ReportRow)]
  PROVE  Inv'
<1>1. /\ next \in 1..Len(Plan) /\ Len(Plan) \in Nat
      /\ next = 1 => Now = Matrix[1]
  BY NowIs
<1>2. Plan' = Plan /\ Effective' = Effective
  BY Stays
<1>3. TypeInv'
  BY DEF Inv, TypeInv
<1>4. PlaceInv'
  <2>1. Len(rows) < next /\ Len(rows) \in Nat /\ Len(rows') \in Nat
    BY DEF Inv, PlaceInv, TypeInv
  <2>2. next + 1 \in 1..Len(Plan) + 1 /\ Len(rows') < next + 1
    BY <1>1, <2>1
  <2> QED
    BY <1>2, <2>2 DEF PlaceInv
<1>5. DirectoryInv'
  BY DEF Inv, DirectoryInv
<1>6. TaskInv' /\ ReportInv'
  BY DEF TaskInv, ReportInv
<1>7. RowsInv'
  <2>1. ~failed' => archive[Matrix[1]].summary # NoSummary
    <3>1. CASE next = 1
      BY <1>1, <3>1
    <3>2. CASE next # 1
      <4>1. next > 1
        BY <1>1, <3>2
      <4> QED
        BY <4>1 DEF Inv, RowsInv
    <3> QED
      BY <3>1, <3>2
  <2>2. Matrix' = Matrix
    BY DEF Matrix
  <2> QED
    BY <2>1, <2>2 DEF RowsInv
<1> QED
  BY <1>3, <1>4, <1>5, <1>6, <1>7 DEF Inv

LEMMA CompletedStatusIs ==
  ASSUME NEW summary, NEW reused
  PROVE  /\ CompletedStatus(summary, reused) \in Statuses
         /\ CompletedStatus(summary, reused) \in {"ended-early", "reused", "completed"}
         /\ CompletedStatus(summary, reused) # "ended-early" /\ asked.mode = "fixed-time" =>
              summary.reason = "time-budget"
BY DEF CompletedStatus, Statuses, Expected

LEMMA ReuseKeeps ==
  ASSUME Inv, Reuse  PROVE Inv'
<1> DEFINE summary == archive[Now].summary
           status == IF driver = "related" THEN CompletedStatus(summary, TRUE)
                     ELSE "reused"
           row == Row(Now, status, summary)
<1>1. /\ pc = "loop" /\ child.at = "none" /\ next <= Len(Plan)
      /\ summary # NoSummary
      /\ rows' = Append(rows, row) /\ failed' = (failed \/ status = "ended-early")
      /\ next' = next + 1
      /\ UNCHANGED <<archive, child, policies, extras, faults, worked, driver, asked, pc,
                     tasks, report, exit>>
  BY DEF Reuse, Turn, Reusable, Done, runVars, presets
<1>2. child = NoJob
  BY <1>1 DEF Inv, TypeInv, Process
<1>3. /\ status \in Statuses
      /\ driver = "related" /\ status # "ended-early" /\ asked.mode = "fixed-time" =>
           summary.reason = "time-budget"
      /\ status \in {"ended-early", "reused", "completed"}
  BY CompletedStatusIs DEF Statuses
<1>4. driver = "related" => (asked.mode = "fixed-time" => summary.cap = asked.cap)
  BY DEF Reuse, Reusable, CurrentTiming
<1> HIDE DEF summary, status
<1>5. /\ row \in ReportRow /\ row.t = Now /\ row.status = status
      /\ Current(row, archive[Now])
      /\ driver = "related" => /\ InTime(row, asked)
                               /\ Claim(row, archive[Now], tasks[Now], asked)
  BY <1>1, <1>3, <1>4, RowOfResult DEF summary
<1> HIDE DEF row
<1>6. failed' \in BOOLEAN /\ (failed => failed') /\ (~Counted(row) => failed')
  BY <1>1, <1>3, <1>5 DEF Counted, Inv, TypeInv
<1>7. /\ report' \in [on : BOOLEAN, option : Options, rows : Seq(ReportRow)]
      /\ ReportInv'
  BY <1>1, ReportSame
<1>8. CASE driver # "compression"
  BY <1>1, <1>2, <1>5, <1>6, <1>7, <1>8, RowAdded
<1>9. CASE driver = "compression"
  <2>1. rows \in Seq(ReportRow)
    BY DEF Inv, TypeInv
  <2>2. rows' \in Seq(ReportRow) /\ Len(rows') <= Len(rows) + 1
    BY <1>1, <1>5, <2>1
  <2> QED
    BY <1>1, <1>2, <1>6, <1>7, <1>9, <2>2, CompressionGoesOn DEF summary
<1> QED
  BY <1>8, <1>9

LEMMA RefuseKeeps ==
  ASSUME Inv, Refuse \/ Interrupt  PROVE Inv'
<1>1. /\ Stop("error") /\ child' = NoJob /\ faults' \in Nat
      /\ UNCHANGED <<archive, policies, extras, worked, driver, asked, report>>
      /\ tasks' = tasks \/ tasks' \in TornTasks
  <2>1. faults \in Nat /\ (child.at = "none" => child = NoJob)
    BY DEF Inv, TypeInv, Process
  <2>2. CASE Refuse
    BY <2>1, <2>2 DEF Refuse, Turn, runVars, presets
  <2>3. CASE Interrupt
    BY <2>1, <2>3 DEF Interrupt, Fault, presets
  <2> QED
    BY <2>2, <2>3
<1>2. /\ pc' = "off" /\ TypeInv /\ DirectoryInv /\ TaskInv /\ ReportInv
      /\ report \in [on : BOOLEAN, option : Options, rows : Seq(ReportRow)]
  BY <1>1 DEF Stop, Inv, TypeInv
<1>3. /\ tasks' \in [Treatment -> TaskFile]
      /\ driver = "related" =>
           \A t \in Treatment : tasks[t] # NoTask => tasks'[t] = tasks[t]
  BY <1>1, <1>2, TornIs DEF TypeInv
<1>4. TaskInv'
  BY <1>1, <1>2, <1>3 DEF TaskInv
<1>5. ReportInv'
  <2>1. CASE driver = "related"
    BY <1>1, <1>2, <1>3, <2>1, ReportStays
  <2>2. CASE driver # "related"
    BY <1>1, <2>2 DEF ReportInv
  <2> QED
    BY <2>1, <2>2
<1> QED
  BY <1>1, <1>2, <1>3, <1>4, <1>5, StopKeeps

LEMMA RunKeeps ==
  ASSUME Inv, Run  PROVE Inv'
<1>1. /\ pc = "loop" /\ next <= Len(Plan) /\ child' = Launched(Command(Now))
      /\ UNCHANGED <<archive, policies, extras, faults, worked, driver, asked, pc, next,
                     rows, failed, tasks, report, exit>>
  BY DEF Run, Turn, suiteVars, presets
<1>2. /\ Now \in Treatment /\ archive[Now] \in Directory /\ asked \in Options
  BY <1>1, NowIs
<1> DEFINE job == Command(Now)
<1>3. /\ job \in Job /\ job.t = Now /\ job.task = asked.task
      /\ driver = "related" => job.cap = asked.cap
  <2>1. asked.task \in Task /\ asked.cap \in Nat
    BY <1>2, OptionIs
  <2>2. archive[Now].made \in BOOLEAN
    BY <1>2 DEF Directory
  <2> QED
    BY <1>2, <2>1, <2>2 DEF Command, Job
<1> HIDE DEF job
<1>4. /\ child' \in Process /\ child'.job = job
      /\ \A d, n : InStep(child', d, n)
  BY <1>1, <1>3, Launches DEF job
<1>5. child' # NoJob
  BY <1>4, NothingYet
<1>6. Plan' = Plan /\ Effective' = Effective /\ Now' = Now
  BY <1>1, Stays DEF Now
<1>7. TypeInv'
  BY <1>1, <1>4 DEF Inv, TypeInv
<1>8. PlaceInv'
  BY <1>1, <1>3, <1>4, <1>6 DEF Inv, PlaceInv
<1>9. DirectoryInv'
  BY <1>1, <1>4 DEF Inv, DirectoryInv
<1>10. TaskInv' /\ RowsInv' /\ ReportInv'
  <2>1. Matrix' = Matrix
    BY DEF Matrix
  <2>2. TaskInv' /\ ReportInv'
    BY <1>1, <1>6 DEF Inv, TaskInv, ReportInv
  <2>3. RowsInv'
    BY <1>1, <1>6, <2>1 DEF Inv, RowsInv
  <2> QED
    BY <2>2, <2>3
<1> QED
  BY <1>7, <1>8, <1>9, <1>10 DEF Inv

LEMMA UpgradeKeeps ==
  ASSUME Inv, Upgrade  PROVE Inv'
<1>1. /\ pc = "off" /\ policies + extras < MaxUpgrades
      /\ \/ policies' = policies + 1 /\ extras' = extras
         \/ extras' = extras + 1 /\ policies' = policies
      /\ UNCHANGED <<archive, child, faults, worked, driver, asked, pc, next,
                     rows, failed, tasks, report, exit>>
  BY DEF Upgrade, suiteVars
<1>2. policies' \in Versions /\ extras' \in Versions
  <2>1. policies \in Versions /\ extras \in Versions
    BY DEF Inv, TypeInv
  <2> QED
    BY <1>1, <2>1, TreatmentAssumption DEF Versions
<1>3. Plan' = Plan /\ Effective' = Effective
  BY <1>1, Stays
<1>4. TypeInv'
  BY <1>1, <1>2 DEF Inv, TypeInv
<1>5. PlaceInv'
  BY <1>1, <1>3 DEF Inv, PlaceInv
<1>6. child = NoJob
  BY <1>1 DEF Inv, PlaceInv
<1>7. DirectoryInv'
  BY <1>1, <1>6 DEF Inv, DirectoryInv
<1>8. TaskInv' /\ RowsInv' /\ ReportInv'
  BY <1>1, <1>3 DEF Inv, TaskInv, RowsInv, ReportInv
<1> QED
  BY <1>4, <1>5, <1>7, <1>8 DEF Inv

(* The process of the present treatment has ended.                         *)
LEMMA ReturnedIs ==
  ASSUME Inv, Returned
  PROVE  /\ pc = "loop" /\ next <= Len(Plan) /\ child' = NoJob
         /\ child.code = 0 =>
              /\ archive[Now].summary # NoSummary
              /\ driver = "related" => archive[Now].summary.cap = asked.cap
<1>1. pc = "loop" /\ child.at = "exited" /\ child' = NoJob /\ child # NoJob
  BY DEF Returned, NoJob
<1>2. /\ next <= Len(Plan) /\ child.job.t = Now
      /\ driver = "related" => child.job.cap = asked.cap
  BY <1>1 DEF Inv, PlaceInv
<1>3. InStep(child, archive[Now], policies)
  BY <1>1, <1>2 DEF Inv, DirectoryInv
<1> QED
  BY <1>1, <1>2, <1>3 DEF InStep

LEMMA WrittenWithRow ==
  ASSUME Inv, pc = "loop", next <= Len(Plan), driver # "compression",
         NEW row \in ReportRow, row.t = Now, Current(row, archive[Now]),
         driver = "related" => /\ InTime(row, asked)
                               /\ Claim(row, archive[Now], tasks[Now], asked),
         Write(Append(rows, row)), UNCHANGED <<archive, driver, tasks>>
  PROVE  /\ report' \in [on : BOOLEAN, option : Options, rows : Seq(ReportRow)]
         /\ ReportInv'
<1> DEFINE rs == Append(rows, row)
<1>1. rs \in Seq(ReportRow) /\ Len(rs) = next
  BY RowsAndOne
<1>2. driver = "related" => \A i \in 1..next :
        Claim(rs[i], archive[rs[i].t], tasks[rs[i].t], asked)
  BY RowsAndOne
<1>3. TypeInv /\ Write(rs)
  BY DEF Inv
<1> HIDE DEF rs
<1> QED
  BY <1>1, <1>2, <1>3, ReportWritten

LEMMA TreatmentFailsKeeps ==
  ASSUME Inv, TreatmentFails  PROVE Inv'
<1> DEFINE row == Row(Now, "failed", NoSummary)
<1>1. /\ pc = "loop" /\ next <= Len(Plan) /\ child' = NoJob
      /\ driver # "compression"
      /\ UNCHANGED <<archive, policies, extras, faults, worked, driver, asked, tasks>>
      /\ Write(Append(rows, row))
      /\ \/ rows' = Append(rows, row) /\ failed' = TRUE /\ Advance
         \/ Stop("error")
  BY ReturnedIs DEF TreatmentFails, Kept, presets
<1>2. /\ row \in ReportRow /\ row.t = Now /\ ~Counted(row)
  BY <1>1, NowIs, NothingYet DEF Row, ReportRow, Statuses, Counted
<1> HIDE DEF row
<1>3. /\ Current(row, archive[Now]) /\ InTime(row, asked)
      /\ Claim(row, archive[Now], tasks[Now], asked)
  BY <1>2 DEF Current, InTime, Claim
<1>4. /\ report' \in [on : BOOLEAN, option : Options, rows : Seq(ReportRow)]
      /\ ReportInv'
  BY <1>1, <1>2, <1>3, WrittenWithRow
<1>5. CASE rows' = Append(rows, row) /\ failed' = TRUE /\ Advance
  <2>1. next' = next + 1 /\ pc' = pc /\ exit' = exit
    BY <1>5 DEF Advance
  <2> QED
    BY <1>1, <1>2, <1>3, <1>4, <1>5, <2>1, RowAdded
<1>6. CASE Stop("error")
  <2>1. pc' = "off" /\ TypeInv /\ DirectoryInv
    BY <1>6 DEF Stop, Inv
  <2>2. tasks' \in [Treatment -> TaskFile] /\ faults' \in Nat
    BY <1>1, <2>1 DEF TypeInv
  <2>3. TaskInv'
    BY <1>1, <2>1 DEF Inv, TaskInv
  <2> QED
    BY <1>1, <1>4, <1>6, <2>1, <2>2, <2>3, StopKeeps
<1> QED
  BY <1>1, <1>5, <1>6

LEMMA TreatmentEndsKeeps ==
  ASSUME Inv, TreatmentEnds  PROVE Inv'
<1> DEFINE summary == archive[Now].summary
           status == IF driver = "related" THEN CompletedStatus(summary, FALSE)
                     ELSE "completed"
           row == Row(Now, status, summary)
<1>1. /\ pc = "loop" /\ next <= Len(Plan) /\ child' = NoJob
      /\ driver # "compression"
      /\ UNCHANGED <<archive, policies, extras, faults, worked, driver, asked, tasks>>
      /\ Write(Append(rows, row)) /\ rows' = Append(rows, row)
      /\ failed' = (failed \/ status = "ended-early") /\ Advance
      /\ summary # NoSummary
      /\ driver = "related" => summary.cap = asked.cap
  BY ReturnedIs DEF TreatmentEnds, Kept, presets
<1>2. /\ status \in Statuses
      /\ driver = "related" /\ status # "ended-early" /\ asked.mode = "fixed-time" =>
           summary.reason = "time-budget"
      /\ status \in {"ended-early", "reused", "completed"}
  BY CompletedStatusIs DEF Statuses, Expected
<1> HIDE DEF summary, status
<1>3. /\ row \in ReportRow /\ row.t = Now /\ row.status = status
      /\ Current(row, archive[Now])
      /\ driver = "related" => /\ InTime(row, asked)
                               /\ Claim(row, archive[Now], tasks[Now], asked)
  BY <1>1, <1>2, RowOfResult DEF summary
<1> HIDE DEF row
<1>4. failed' \in BOOLEAN /\ (failed => failed') /\ (~Counted(row) => failed')
  BY <1>1, <1>2, <1>3 DEF Counted, Inv, TypeInv
<1>5. /\ report' \in [on : BOOLEAN, option : Options, rows : Seq(ReportRow)]
      /\ ReportInv'
  BY <1>1, <1>3, WrittenWithRow
<1>6. next' = next + 1 /\ pc' = pc /\ exit' = exit
  BY <1>1 DEF Advance
<1> QED
  BY <1>1, <1>3, <1>4, <1>5, <1>6, RowAdded

LEMMA PolicyReturnsKeeps ==
  ASSUME Inv, PolicyReturns  PROVE Inv'
<1> DEFINE summary == archive[Now].summary
           row == Row(Now, "completed", summary)
<1>1. /\ pc = "loop" /\ next <= Len(Plan) /\ child' = NoJob
      /\ driver = "policies"
      /\ UNCHANGED <<archive, policies, extras, faults, worked, driver, asked,
                     tasks, report>>
      /\ \/ Stop("error")
         \/ /\ summary # NoSummary /\ rows' = Append(rows, row)
            /\ failed' = failed /\ Advance
  BY ReturnedIs DEF PolicyReturns, Kept, presets
<1>2. /\ report' \in [on : BOOLEAN, option : Options, rows : Seq(ReportRow)]
      /\ ReportInv'
  BY <1>1, ReportSame
<1>3. CASE Stop("error")
  <2>1. pc' = "off" /\ TypeInv /\ DirectoryInv
    BY <1>3 DEF Stop, Inv
  <2>2. tasks' \in [Treatment -> TaskFile] /\ faults' \in Nat
    BY <1>1, <2>1 DEF TypeInv
  <2>3. TaskInv'
    BY <1>1, <2>1 DEF Inv, TaskInv
  <2> QED
    BY <1>1, <1>2, <1>3, <2>1, <2>2, <2>3, StopKeeps
<1>4. CASE /\ summary # NoSummary /\ rows' = Append(rows, row)
           /\ failed' = failed /\ Advance
  <2>1. "completed" \in Statuses
    BY DEF Statuses, Expected
  <2> HIDE DEF summary
  <2>2. /\ row \in ReportRow /\ row.t = Now /\ row.status = "completed"
        /\ Current(row, archive[Now])
    BY <1>1, <1>4, <2>1, RowOfResult DEF summary
  <2> HIDE DEF row
  <2>3. failed' \in BOOLEAN /\ (failed => failed') /\ Counted(row)
    BY <1>4, <2>2 DEF Counted, Inv, TypeInv
  <2>4. next' = next + 1 /\ pc' = pc /\ exit' = exit
    BY <1>4 DEF Advance
  <2> QED
    BY <1>1, <1>2, <1>4, <2>2, <2>3, <2>4, RowAdded
<1> QED
  BY <1>1, <1>3, <1>4

LEMMA DirectoryRowsAre ==
  ASSUME Inv
  PROVE  DirectoryRows \in Seq(ReportRow)
<1>1. \A t \in Treatment : DirectoryStatus(t) \in Statuses
  BY DEF DirectoryStatus, Statuses, Expected
<1>2. \A t \in Treatment : archive[t].summary \in Summary
  BY DEF Inv, TypeInv, Directory
<1>3. \A t \in Treatment : Row(t, DirectoryStatus(t), archive[t].summary) \in ReportRow
  BY <1>1, <1>2 DEF Row, ReportRow
<1> DEFINE m == Matrix
<1>4. /\ Len(m) \in Nat /\ DOMAIN m = 1..Len(m)
      /\ \A i \in 1..Len(m) : m[i] \in Treatment
  BY MatrixIs
<1>5. DirectoryRows = [i \in DOMAIN m |->
        Row(m[i], DirectoryStatus(m[i]), archive[m[i]].summary)]
  BY DEF DirectoryRows
<1> HIDE DEF m
<1> DEFINE n == Len(m)
           row(i) == Row(m[i], DirectoryStatus(m[i]), archive[m[i]].summary)
<1>6. \A i \in 1..n : row(i) \in ReportRow
  BY <1>3, <1>4
<1>7. DirectoryRows = [i \in 1..n |-> row(i)] /\ n \in Nat
  BY <1>4, <1>5
<1> HIDE DEF row, n
<1> QED
  BY <1>6, <1>7

LEMMA CompressionReturnsKeeps ==
  ASSUME Inv, CompressionReturns  PROVE Inv'
<1>1. /\ pc = "loop" /\ next <= Len(Plan) /\ child' = NoJob
      /\ driver = "compression"
      /\ UNCHANGED <<archive, policies, extras, faults, worked, driver, asked,
                     tasks, rows>>
      /\ Write(DirectoryRows) /\ Advance
      /\ failed' = (failed \/ (next = 1 /\ child.code # 0))
      /\ child.code = 0 => archive[Now].summary # NoSummary
  BY ReturnedIs DEF CompressionReturns, Kept, presets
<1>2. failed' \in BOOLEAN /\ (failed => failed')
  BY <1>1 DEF Inv, TypeInv
<1>3. next = 1 /\ ~failed' => archive[Now].summary # NoSummary
  BY <1>1
<1>4. report' \in [on : BOOLEAN, option : Options, rows : Seq(ReportRow)]
  <2>1. TypeInv
    BY DEF Inv
  <2> QED
    BY <1>1, <2>1, DirectoryRowsAre, ReportWritten
<1>5. next' = next + 1 /\ pc' = pc /\ exit' = exit
  BY <1>1 DEF Advance
<1>6. rows' \in Seq(ReportRow) /\ Len(rows') <= Len(rows) + 1
  <2>1. rows \in Seq(ReportRow)
    BY DEF Inv, TypeInv
  <2>2. Len(rows) \in Nat
    BY <2>1
  <2> QED
    BY <1>1, <2>1, <2>2
<1> QED
  BY <1>1, <1>2, <1>3, <1>4, <1>5, <1>6, CompressionGoesOn

(* Finish writes the report and decides on the exit status.                *)
LEMMA FinishIs ==
  ASSUME Inv, Finish
  PROVE  /\ pc = "loop" /\ next > Len(Plan) /\ child' = NoJob
         /\ UNCHANGED <<archive, policies, extras, faults, worked, driver, asked, tasks>>
         /\ driver = "compression" =>
              Write(DirectoryRows) /\ \E how \in {"ok", "error"} :
                /\ Stop(how)
                /\ how = "ok" =>
                     ~failed /\ \A t \in Treatment : DirectoryStatus(t) \in Expected
         /\ driver # "compression" =>
              Write(rows) /\ \E how \in {"ok", "error"} :
                Stop(how) /\ (how = "ok" => ~failed)
<1>1. child.at = "none" => child = NoJob
  BY DEF Inv, TypeInv, Process
<1>2. /\ pc = "loop" /\ next > Len(Plan) /\ child' = NoJob
      /\ UNCHANGED <<archive, policies, extras, faults, worked, driver, asked, tasks>>
  BY <1>1 DEF Finish, runVars, presets
<1> DEFINE bad == failed \/ \E t \in Treatment : DirectoryStatus(t) \notin Expected
<1>3. ASSUME driver = "compression"
      PROVE  Write(DirectoryRows) /\ Stop(IF bad THEN "error" ELSE "ok")
  BY <1>3 DEF Finish
<1>4. ~bad => ~failed /\ \A t \in Treatment : DirectoryStatus(t) \in Expected
  OBVIOUS
<1> HIDE DEF bad
<1>5. driver # "compression" =>
        Write(rows) /\ Stop(IF failed THEN "error" ELSE "ok")
  BY DEF Finish
<1> QED
  BY <1>2, <1>3, <1>4, <1>5

LEMMA FinishKeeps ==
  ASSUME Inv, Finish  PROVE Inv'
<1>1. /\ pc = "loop" /\ child' = NoJob
      /\ UNCHANGED <<archive, policies, extras, faults, worked, driver, asked, tasks>>
  BY FinishIs
<1>2. TypeInv /\ DirectoryInv
  BY DEF Inv
<1>3. /\ report' \in [on : BOOLEAN, option : Options, rows : Seq(ReportRow)]
      /\ ReportInv'
  <2>1. CASE driver = "compression"
    BY <1>1, <1>2, <2>1, FinishIs, DirectoryRowsAre, ReportWritten
  <2>2. CASE driver # "compression"
    <3>1. rows \in Seq(ReportRow)
      BY <1>2 DEF TypeInv
    <3>2. driver = "related" => \A i \in 1..Len(rows) :
            Claim(rows[i], archive[rows[i].t], tasks[rows[i].t], asked)
      BY <1>1, <2>2 DEF Inv, RowsInv
    <3> QED
      BY <1>1, <1>2, <2>2, <3>1, <3>2, FinishIs, ReportWritten
  <2> QED
    BY <2>1, <2>2
<1>4. PICK how \in {"ok", "error"} : Stop(how)
  BY FinishIs
<1>5. pc' = "off"
  BY <1>4 DEF Stop
<1>6. tasks' \in [Treatment -> TaskFile] /\ faults' \in Nat
  BY <1>1, <1>2 DEF TypeInv
<1>7. TaskInv'
  BY <1>1, <1>5 DEF Inv, TaskInv
<1> QED
  BY <1>1, <1>2, <1>3, <1>4, <1>6, <1>7, StopKeeps

LEMMA ChildKeeps ==
  ASSUME Inv, Child  PROVE Inv'
<1>1. /\ child # NoJob /\ ChildMoves /\ TypeInv /\ DirectoryInv
      /\ UNCHANGED <<driver, asked, pc, next, rows, failed, tasks, report, exit>>
  BY ChildStepMoves DEF Child, suiteVars, Inv
<1>2. /\ pc = "loop" /\ next <= Len(Plan)
      /\ child.job.t = Now /\ child.job.task = asked.task
      /\ driver = "related" => child.job.cap = asked.cap
  BY <1>1 DEF Inv, PlaceInv
<1>3. /\ next \in 1..Len(Plan) /\ Len(Plan) \in Nat /\ Now \in Treatment
      /\ Now = Plan[next] /\ asked \in Options
      /\ driver = "related" => tasks[Now] = Effective
  BY <1>2, NowIs
<1> DEFINE d == archive[Now]
           w == worked[Now]
           p == child
<1>4. PICK q, e, v : Stepped(q, e, v)
  BY <1>1 DEF ChildMoves
<1>5. /\ archive' = [archive EXCEPT ![Now] = e] /\ child' = q
      /\ worked' = [worked EXCEPT ![Now] = v] /\ faults' \in Nat
      /\ policies' = policies /\ extras' = extras
      /\ Moves(p, q, d, e, w, v, policies)
  BY <1>2, <1>4 DEF Stepped, Here
<1>6. /\ p \in Process /\ q \in Process /\ q.job = p.job /\ e \in Directory
      /\ v \subseteq w \cup {Entry(p.job.task, policies)}
      /\ d.checkpoint # NoCheckpoint =>
           e.checkpoint # NoCheckpoint /\ e.checkpoint.policies = d.checkpoint.policies
      /\ d.summary # NoSummary => e.summary # NoSummary
      /\ Sound(e, v) /\ InStep(q, e, policies)
  BY <1>5 DEF Moves
<1>7. /\ archive \in [Treatment -> Directory]
      /\ worked \in [Treatment -> SUBSET Work]
      /\ policies \in Versions /\ extras \in Versions /\ p.job.task \in Task
  BY <1>1, Contents DEF Inv, TypeInv
<1>8. /\ archive'[Now] = e /\ worked'[Now] = v
      /\ \A t \in Treatment : t # Now =>
           archive'[t] = archive[t] /\ worked'[t] = worked[t]
  BY <1>3, <1>5, <1>7
<1> DEFINE z == Entry(p.job.task, policies)
<1>9. z \in Work /\ z.task = p.job.task
  BY <1>7, EntryIs
<1> HIDE DEF z
<1>10. v \subseteq w \cup {z}
  BY <1>6 DEF z
<1>11. Plan' = Plan /\ Effective' = Effective /\ Now' = Now
  BY <1>1, Stays DEF Now
<1>12. TypeInv'
  <2>1. w \in SUBSET Work
    BY <1>3, <1>7
  <2>2. v \in SUBSET Work
    BY <1>9, <1>10, <2>1
  <2>3. archive' \in [Treatment -> Directory]
    BY <1>5, <1>6, <1>7
  <2>4. worked' \in [Treatment -> SUBSET Work]
    BY <1>5, <1>7, <2>2
  <2> QED
    BY <1>1, <1>5, <1>6, <1>7, <2>3, <2>4 DEF TypeInv
<1>13. PlaceInv'
  <2>1. child' # NoJob /\ child'.job = child.job
    BY <1>5, <1>6, NothingYet
  <2> QED
    BY <1>1, <1>2, <1>11, <2>1 DEF Inv, PlaceInv
<1>14. DirectoryInv'
  <2>1. \A t \in Treatment : Sound(archive'[t], worked'[t])
    <3> SUFFICES ASSUME NEW t \in Treatment  PROVE Sound(archive'[t], worked'[t])
      OBVIOUS
    <3>1. CASE t = Now
      BY <1>6, <1>8, <3>1
    <3>2. CASE t # Now
      BY <1>1, <1>8, <3>2 DEF DirectoryInv
    <3> QED
      BY <3>1, <3>2
  <2>2. InStep(child', archive'[child'.job.t], policies')
    BY <1>2, <1>5, <1>6, <1>8
  <2> QED
    BY <2>1, <2>2 DEF DirectoryInv
<1>15. TaskInv'
  <2> SUFFICES ASSUME driver = "related"
               PROVE  /\ \A t \in Treatment : \A x \in worked'[t] :
                           tasks[t] # NoTask /\ tasks[t].task = x.task
                      /\ \A i \in 1..Len(Plan) : tasks[Plan[i]] = Effective
    BY <1>1, <1>11 DEF TaskInv
  <2>1. \A i \in 1..Len(Plan) : tasks[Plan[i]] = Effective
    BY <1>2 DEF Inv, TaskInv
  <2>2. ASSUME NEW t \in Treatment, NEW x \in worked'[t]
        PROVE  tasks[t] # NoTask /\ tasks[t].task = x.task
    <3>1. CASE x \in worked[t]
      BY <3>1 DEF Inv, TaskInv
    <3>2. CASE x \notin worked[t]
      <4>1. t = Now /\ x = z
        BY <1>8, <1>10, <2>2, <3>2
      <4>2. Effective # NoTask /\ Effective.task = asked.task
        BY <1>3, OptionIs DEF Effective
      <4> QED
        BY <1>2, <1>3, <1>9, <4>1, <4>2
    <3> QED
      BY <3>1, <3>2
  <2> QED
    BY <2>1, <2>2
<1>16. RowsInv'
  <2>1. ASSUME driver # "compression", NEW i \in 1..Len(rows)
        PROVE  archive'[rows[i].t] = archive[rows[i].t]
    <3>1. rows[i].t = Plan[i] /\ Len(rows) = next - 1
      BY <1>2, <2>1 DEF Inv, RowsInv
    <3>2. i \in 1..Len(Plan) /\ i # next
      BY <1>3, <3>1
    <3>3. Plan[i] \in Treatment /\ Plan[i] # Now
      BY <1>3, <3>2, PlanIs
    <3> QED
      BY <1>8, <3>1, <3>3
  <2>2. archive[Matrix[1]].summary # NoSummary =>
          archive'[Matrix[1]].summary # NoSummary
    <3>1. Matrix[1] \in Treatment
      BY MatrixIs
    <3> QED
      BY <1>6, <1>8, <3>1
  <2>3. Matrix' = Matrix
    BY DEF Matrix
  <2> QED
    BY <1>1, <1>11, <2>1, <2>2, <2>3 DEF Inv, RowsInv
<1>17. ReportInv'
  <2>1. \A t \in Treatment : archive[t].checkpoint # NoCheckpoint =>
          /\ archive'[t].checkpoint # NoCheckpoint
          /\ archive'[t].checkpoint.policies = archive[t].checkpoint.policies
    BY <1>6, <1>8
  <2>2. ReportInv
    BY DEF Inv
  <2> QED
    BY <1>1, <2>1, <2>2, ReportStays
<1> QED
  BY <1>12, <1>13, <1>14, <1>15, <1>16, <1>17 DEF Inv

LEMMA Stutters ==
  ASSUME Inv, UNCHANGED vars  PROVE Inv'
<1>1. /\ UNCHANGED <<archive, child, policies, extras, faults, worked, driver, asked, pc,
                     next, rows, failed, tasks, report, exit>>
  BY DEF vars, suiteVars, presets
<1>2. Plan' = Plan /\ Effective' = Effective /\ Now' = Now
  BY <1>1, Stays DEF Now
<1>3. TypeInv'
  BY <1>1 DEF Inv, TypeInv
<1>4. PlaceInv'
  BY <1>1, <1>2 DEF Inv, PlaceInv
<1>5. DirectoryInv'
  BY <1>1 DEF Inv, DirectoryInv
<1>6. TaskInv' /\ ReportInv'
  BY <1>1, <1>2 DEF Inv, TaskInv, ReportInv
<1>7. RowsInv'
  BY <1>1, <1>2 DEF Inv, RowsInv
<1> QED
  BY <1>3, <1>4, <1>5, <1>6, <1>7 DEF Inv

LEMMA StepKeeps ==
  ASSUME Inv, [Next]_vars  PROVE Inv'
BY StartKeeps, ChildKeeps, PrepareKeeps, ReuseKeeps, RefuseKeeps, RunKeeps,
   TreatmentFailsKeeps, TreatmentEndsKeeps, PolicyReturnsKeeps,
   CompressionReturnsKeeps, FinishKeeps, UpgradeKeeps, Stutters
   DEF Next, Script

-----------------------------------------------------------------------------
(* What the invariant says.                                                *)

LEMMA InvIsTyped ==
  ASSUME Inv  PROVE TypeOK
<1>1. TypeInv /\ PlaceInv /\ DirectoryInv
  BY DEF Inv
<1>2. ASSUME NEW t \in Treatment
      PROVE  /\ archive[t].made \in BOOLEAN /\ archive[t].failure \in BOOLEAN
             /\ archive[t].seed \in {"unseen", "passed", "failed"}
             /\ archive[t].limits \subseteq Limits /\ archive[t].summary \in Summary
             /\ archive[t].checkpoint \in {NoCheckpoint} \cup
                  [rounds : 0..Rounds, spent : Spent, policies : Versions,
                   until : BOOLEAN]
             /\ ~archive[t].made => archive[t] = Unused
             /\ worked[t] \subseteq Work
  <2>1. archive[t] \in Directory /\ worked[t] \in SUBSET Work
    BY <1>1 DEF TypeInv
  <2>2. ~archive[t].made => archive[t] = Unused
    BY <1>1 DEF DirectoryInv, Sound
  <2> QED
    BY <2>1, <2>2 DEF Directory, Checkpoint
<1>3. child.at # "none" => child.job \in Job /\ child.job.t = Now
  <2>1. child.at # "none" => child # NoJob
    BY DEF NoJob
  <2>2. child # NoJob => child.job \in Job
    BY <1>1 DEF TypeInv, Process
  <2> QED
    BY <1>1, <2>1, <2>2 DEF PlaceInv
<1>4. /\ asked \in Options /\ asked.driver = driver /\ report.option \in Options
      /\ pc \in {"off", "prepare", "loop"} /\ next \in 1..Len(Plan) + 1
      /\ Len(rows) < next /\ failed \in BOOLEAN /\ exit \in {"none", "ok", "error"}
  BY <1>1 DEF TypeInv, PlaceInv
<1>5. \A i \in DOMAIN rows : /\ rows[i].status \in Statuses
                             /\ rows[i].summary \in Summary
  <2>1. rows \in Seq(ReportRow)
    BY <1>1 DEF TypeInv
  <2>2. \A i \in DOMAIN rows : rows[i] \in ReportRow
    BY <2>1
  <2> QED
    BY <2>2 DEF ReportRow
<1> QED
  BY <1>2, <1>3, <1>4, <1>5 DEF TypeOK

LEMMA Members ==
  ASSUME NEW S, NEW s \in Seq(S), NEW x \in ToSet(s)
  PROVE  \E i \in 1..Len(s) : x = s[i]
BY DEF ToSet

LEMMA InvCompares ==
  ASSUME Inv  PROVE ComparableResults
<1> DEFINE rs == report.rows
<1>1. /\ rs \in Seq(ReportRow) /\ worked \in [Treatment -> SUBSET Work]
      /\ TypeInv /\ ReportInv /\ TaskInv
  BY DEF Inv, TypeInv
<1>2. ASSUME driver = "related", NEW row \in ToSet(rs), Counted(row)
      PROVE  /\ worked[row.t] # {}
             /\ \A work \in worked[row.t] :
                  /\ work.task = report.option.task
                  /\ work.policies = row.summary.policies
             /\ report.option.mode = "fixed-time" =>
                  row.summary.spent >= report.option.cap
  <2>1. PICK i \in 1..Len(rs) : row = rs[i]
    BY <1>1, <1>2, Members
  <2>2. Claim(row, archive[row.t], tasks[row.t], report.option)
    BY <1>1, <1>2, <2>1 DEF ReportInv
  <2>3. row.t \in Treatment
    <3> HIDE DEF rs
    <3>1. row \in ReportRow
      BY <1>1, <2>1
    <3> QED
      BY <3>1 DEF ReportRow
  <2>4. /\ tasks[row.t].task = report.option.task
        /\ archive[row.t].checkpoint # NoCheckpoint
        /\ row.summary.policies = archive[row.t].checkpoint.policies
        /\ report.option.mode = "fixed-time" =>
             row.summary.spent >= report.option.cap
    BY <1>2, <2>2 DEF Claim
  <2> DEFINE w == worked[row.t]
             a == report.option.task
             b == row.summary.policies
  <2>5. w # {} /\ \A x \in w : x.policies = b
    BY <2>3, <2>4 DEF Inv, DirectoryInv, Sound
  <2>6. \A x \in w : x.task = a
    BY <1>1, <1>2, <2>3, <2>4 DEF TaskInv
  <2> QED
    BY <2>4, <2>5, <2>6
<1> QED
  BY <1>2 DEF ComparableResults, FixedTimeRows

(***************************************************************************)
(* The exit status of the last invocation.                                 *)
(***************************************************************************)
LEMMA FinishMeansDone ==
  ASSUME Inv, Finish  PROVE ExitZeroMeansDone'
<1> SUFFICES ASSUME exit' = "ok"  PROVE ExitZeroMeansDone'
  BY DEF ExitZeroMeansDone
<1>1. /\ pc = "loop" /\ next > Len(Plan)
      /\ UNCHANGED <<archive, driver, asked, tasks>>
  BY FinishIs
<1>2. TypeInv /\ asked' = asked /\ Plan' = Plan /\ Matrix' = Matrix
  BY <1>1, Stays DEF Inv, Matrix
<1>3. next \in 1..Len(Plan) + 1 /\ Len(Plan) \in Nat
  BY PlanIs DEF Inv, PlaceInv
<1>4. next = Len(Plan) + 1
  BY <1>1, <1>3
<1>5. CASE driver = "compression"
  <2>1. /\ Write(DirectoryRows) /\ ~failed
        /\ \A t \in Treatment : DirectoryStatus(t) \in Expected
    BY <1>5, FinishIs DEF Stop
  <2>2. report'.on /\ report'.option = asked
    BY <1>1, <1>2, <1>5, <2>1, DirectoryRowsAre, ReportWritten
  <2>3. next > 1
    BY <1>2, <1>4, <1>5, <1>3, PlanIs DEF TypeInv
  <2>4. archive[Matrix[1]].summary # NoSummary
    BY <1>1, <1>5, <2>1, <2>3 DEF Inv, RowsInv
  <2>5. \A t \in Treatment : DirectoryStatus(t)' \in Expected
    BY <1>1, <2>1 DEF DirectoryStatus
  <2>6. Done(Matrix[1])'
    BY <1>1, <1>2, <2>4 DEF Done
  <2> QED
    BY <1>1, <1>2, <1>5, <2>2, <2>5, <2>6 DEF ExitZeroMeansDone
<1>6. CASE driver # "compression"
  <2>1. Write(rows) /\ ~failed
    BY <1>6, FinishIs DEF Stop
  <2>2. rows \in Seq(ReportRow)
    BY <1>2 DEF TypeInv
  <2>3. /\ Len(rows) = Len(Plan)
        /\ \A i \in 1..Len(rows) :
             /\ rows[i].t = Plan[i] /\ Counted(rows[i])
             /\ Current(rows[i], archive[rows[i].t])
             /\ driver = "related" =>
                  /\ InTime(rows[i], asked)
                  /\ Claim(rows[i], archive[rows[i].t], tasks[rows[i].t], asked)
    BY <1>1, <1>3, <1>4, <1>6, <2>1 DEF Inv, RowsInv
  <2>4. report'.on /\ report'.option = asked /\ report'.rows = rows
    BY <1>1, <1>2, <2>1, <2>2, <2>3, ReportWritten
  <2>5. [i \in DOMAIN report'.rows |-> report'.rows[i].t] = Plan
    <3> DEFINE p == Plan
    <3>1. p \in Seq(Treatment)
      BY PlanIs
    <3> HIDE DEF p
    <3>2. /\ DOMAIN p = 1..Len(p) /\ DOMAIN rows = 1..Len(rows)
          /\ p = [i \in 1..Len(p) |-> p[i]]
      BY <2>2, <3>1
    <3>3. Len(rows) = Len(p) /\ \A i \in 1..Len(rows) : rows[i].t = p[i]
      BY <2>3 DEF p
    <3>4. [i \in DOMAIN rows |-> rows[i].t] = p
      BY <3>2, <3>3
    <3> QED
      BY <2>4, <3>4 DEF p
  <2>6. ASSUME NEW row \in ToSet(rows)
        PROVE  /\ Counted(row) /\ archive[row.t].summary # NoSummary
               /\ row.summary = archive[row.t].summary
               /\ driver = "related" /\ asked.mode = "fixed-time" =>
                    row.summary.reason = "time-budget" /\ row.summary.cap = asked.cap
    <3>1. PICK i \in 1..Len(rows) : row = rows[i]
      BY <2>2, <2>6, Members
    <3> QED
      BY <2>3, <3>1 DEF Current, InTime
  <2>7. \A row : Done(row.t)' <=> archive[row.t].summary # NoSummary
    BY <1>1 DEF Done
  <2>8. \A row \in ToSet(report'.rows) :
          Counted(row) /\ Done(row.t)' /\ row.summary = archive'[row.t].summary
    BY <1>1, <2>4, <2>6, <2>7
  <2>9. \A row \in FixedTimeRows' :
          row.summary.reason = "time-budget" /\ row.summary.cap = asked.cap
    BY <1>1, <2>4, <2>6 DEF FixedTimeRows
  <2> QED
    BY <1>1, <1>2, <1>6, <2>4, <2>5, <2>8, <2>9 DEF ExitZeroMeansDone, Done
<1> QED
  BY <1>5, <1>6

LEMMA StepMeansDone ==
  ASSUME Inv, ExitZeroMeansDone, [Next]_vars  PROVE ExitZeroMeansDone'
<1>1. CASE Finish
  BY <1>1, FinishMeansDone
<1>2. CASE UNCHANGED <<archive, driver, asked, pc, report, exit>>
  <2>1. Plan' = Plan /\ Matrix' = Matrix
    BY <1>2, Stays DEF Matrix
  <2>2. FixedTimeRows' = FixedTimeRows
    BY <1>2 DEF FixedTimeRows
  <2> QED
    BY <1>2, <2>1, <2>2 DEF ExitZeroMeansDone, Done, DirectoryStatus
<1>3. CASE pc' # "off" \/ exit' = "error"
  BY <1>3 DEF ExitZeroMeansDone
<1>4. Upgrade \/ UNCHANGED vars => UNCHANGED <<archive, driver, asked, pc, report, exit>>
  BY DEF Upgrade, vars, suiteVars
<1>5. Child => pc' # "off"
  <2> SUFFICES ASSUME Child  PROVE pc' # "off"
    OBVIOUS
  <2>1. child # NoJob /\ pc' = pc
    BY ChildStepMoves DEF Child, suiteVars, Inv
  <2>2. pc = "loop"
    BY <2>1 DEF Inv, PlaceInv
  <2> QED
    BY <2>1, <2>2
<1>6. ASSUME NEW option \in Options, Start(option)  PROVE pc' # "off"
  BY <1>6 DEF Start
<1>7. \A how : Stop(how) => exit' = how
  BY DEF Stop
<1>8. (Refuse \/ Interrupt) => exit' = "error"
  BY <1>7 DEF Refuse, Interrupt
<1>9. Reuse \/ Run => pc' # "off"
  BY DEF Reuse, Run, Turn, suiteVars
<1>10. Prepare => pc' # "off" \/ exit' = "error"
  <2>1. Prepare => GoOn \/ Stop("error")
    BY DEF Prepare
  <2>2. GoOn => pc' # "off"
    BY DEF GoOn
  <2> QED
    BY <1>7, <2>1, <2>2
<1>11. TreatmentFails \/ TreatmentEnds \/ PolicyReturns \/ CompressionReturns =>
         pc' # "off" \/ exit' = "error"
  <2>1. TreatmentFails \/ TreatmentEnds \/ PolicyReturns \/ CompressionReturns =>
          pc = "loop" /\ (Advance \/ Stop("error"))
    BY DEF TreatmentFails, TreatmentEnds, PolicyReturns, CompressionReturns, Returned
  <2>2. pc = "loop" /\ Advance => pc' # "off"
    BY DEF Advance
  <2> QED
    BY <1>7, <2>1, <2>2
<1> QED
  BY <1>1, <1>2, <1>3, <1>4, <1>5, <1>6, <1>8, <1>9, <1>10, <1>11 DEF Next, Script

LEMMA InitMeansDone == Init => ExitZeroMeansDone
BY DEF Init, ExitZeroMeansDone

LEMMA Always == Spec => [](Inv /\ ExitZeroMeansDone)
<1>1. Init => Inv /\ ExitZeroMeansDone
  BY Initially, InitMeansDone
<1>2. Inv /\ ExitZeroMeansDone /\ [Next]_vars => (Inv /\ ExitZeroMeansDone)'
  BY StepKeeps, StepMeansDone
<1> QED
  BY <1>1, <1>2, PTL DEF Spec

(***************************************************************************)
(* The directories, the process and what the script holds are well formed  *)
(* (the four scripts and TreatmentRun).                                    *)
(***************************************************************************)
THEOREM TypeCorrect == Spec => []TypeOK
<1>1. Inv => TypeOK
  BY InvIsTyped
<1> QED
  BY <1>1, Always, PTL

(***************************************************************************)
(* Results that a report of the comparison counts are comparable: one      *)
(* effective task, one version of the named policies of a style, and the   *)
(* whole time budget, in any number of invocations with any options        *)
(* (run_final_related_system_baselines.py, main and CompletedStatus).      *)
(* Nothing is said of the extras of a style, which nobody compares.        *)
(***************************************************************************)
THEOREM ResultsAreComparable == Spec => []ComparableResults
<1>1. Inv => ComparableResults
  BY InvCompares
<1> QED
  BY <1>1, Always, PTL

(***************************************************************************)
(* Exit status 0 means that what was asked for is there (main of each      *)
(* script).                                                                *)
(***************************************************************************)
THEOREM ZeroMeansDone == Spec => []ExitZeroMeansDone
BY Always, PTL

=============================================================================
