------------------------------ MODULE RunnerProofs ------------------------------
(***************************************************************************)
(* What holds of execute_manifest for every manifest, every configuration  *)
(* and every interleaving of the run it reports on: the records written    *)
(* are those of all jobs, in order, and the exit code agrees with what the *)
(* workers did.                                                            *)
(***************************************************************************)
EXTENDS Runner, FiniteSetTheorems, SequenceTheorems, TLAPS

P == INSTANCE SchedulerReportProofs

(* Both instances of Scheduler, S of the runner and P of the proofs about   *)
(* it, mean the same: cardinalities,                                        *)
LEMMA SameCardinality ==
  \A T : S!Cardinality(T) = Cardinality(T) /\ P!Cardinality(T) = Cardinality(T)
  BY DEF S!Cardinality, P!Cardinality, Cardinality

(* fits(),                                                                  *)
LEMMA SameFits == \A j : S!Fits(j) <=> P!Fits(j)
  BY SameCardinality DEF S!Fits, P!Fits

(* the choice of the next job,                                              *)
LEMMA SameStartable == \A j : S!Startable(j) <=> P!Startable(j)
  BY SameFits DEF S!Startable, P!Startable, S!IsHead, P!IsHead, S!Before, P!Before,
     S!SortKey, P!SortKey

(* the steps of the main thread,                                            *)
LEMMA SameMain == S!Main <=> P!Main
  BY SameStartable DEF S!Main, P!Main, S!Loop, P!Loop, S!LoopDone, P!LoopDone,
     S!Select, P!Select, S!Charge, P!Charge, S!Submit, P!Submit, S!Track, P!Track,
     S!NotifyStart, P!NotifyStart, S!StopStarting, P!StopStarting, S!Idle, P!Idle,
     S!StartWait, P!StartWait, S!Wait, P!Wait, S!PopCompleted, P!PopCompleted,
     S!CollectDone, P!CollectDone, S!Release, P!Release, S!GetResult, P!GetResult,
     S!AppendResult, P!AppendResult, S!NotifyFinish, P!NotifyFinish, S!CallbackRaises,
     P!CallbackRaises, S!Handle, P!Handle, S!CallInterrupt, P!CallInterrupt, S!Drain,
     P!Drain, S!Done, P!Done, S!Values, P!Values, S!Fatal, P!Fatal, S!AliveJobs,
     P!AliveJobs, S!Alive, P!Alive, S!Job, P!Job, S!None, P!None, S!queue, P!queue,
     S!ledger, P!ledger, S!collect, P!collect, S!flags, P!flags, S!ending, P!ending,
     S!Goto, P!Goto

(* those of Ctrl-C,                                                         *)
LEMMA SameInterrupt == S!Interrupt <=> P!Interrupt
  BY DEF S!Interrupt, P!Interrupt, S!InterruptInTry, P!InterruptInTry,
         S!InterruptInResult, P!InterruptInResult, S!InterruptOutsideTry,
         P!InterruptOutsideTry, S!InterruptInDrain, P!InterruptInDrain, S!CanInterrupt,
         P!CanInterrupt, S!InTry, P!InTry, S!InHandler, P!InHandler, S!None, P!None,
         S!queue, P!queue, S!ledger, P!ledger, S!collect, P!collect, S!flags, P!flags,
         S!ending, P!ending, S!Goto, P!Goto

(* those of the workers,                                                    *)
LEMMA SameWorker == \A j : S!Worker(j) <=> P!Worker(j)
  BY SameCardinality DEF S!Worker, P!Worker, S!WorkerStart, P!WorkerStart,
     S!WorkerFinish, P!WorkerFinish, S!Job, P!Job, S!queue, P!queue, S!ledger,
     P!ledger, S!collect, P!collect, S!flags, P!flags, S!ending, P!ending, S!Goto,
     P!Goto

(* and so all of them.                                                      *)
LEMMA SameNext == S!Next <=> P!Next
  BY SameMain, SameInterrupt, SameWorker DEF S!Next, P!Next, S!Stop, P!Stop, S!Ended,
     P!Ended, S!Age, P!Age, S!Job, P!Job, S!AliveJobs, P!AliveJobs, S!Alive, P!Alive,
     S!Before, P!Before, S!SortKey, P!SortKey, S!vars, P!vars, S!queue, P!queue,
     S!ledger, P!ledger, S!collect, P!collect, S!flags, P!flags, S!ending, P!ending,
     S!Goto, P!Goto
-----------------------------------------------------------------------------
(* Sorting: a finite set with a strict total order R has an enumeration in  *)
(* that order, and any enumeration without repetition is of the whole set.  *)
LEMMA SortedEnumeration ==
  ASSUME NEW T, IsFiniteSet(T), NEW R,
         \A x \in T : <<x, x>> \notin R,
         \A x, y \in T : x # y => <<x, y>> \in R \/ <<y, x>> \in R,
         \A x, y, z \in T : <<x, y>> \in R /\ <<y, z>> \in R => <<x, z>> \in R
  PROVE  \E s \in [1..Cardinality(T) -> T] :
            \A i, k \in 1..Cardinality(T) : i < k => <<s[i], s[k]>> \in R
<1> DEFINE n == Cardinality(T)
           before(x) == {y \in T : <<y, x>> \in R}
           rank == [x \in T |-> Cardinality(before(x)) + 1]
<1>1. n \in Nat /\ IsFiniteSet(1..n) /\ Cardinality(1..n) = n
  BY FS_CardinalityType, FS_Interval
<1>2. \A x \in T : IsFiniteSet(before(x)) /\ Cardinality(before(x)) \in Nat
  BY FS_Subset, FS_CardinalityType
<1>3. ASSUME NEW x \in T PROVE rank[x] \in 1..n
  <2>1. before(x) \in SUBSET (T \ {x})
    OBVIOUS
  <2>2. IsFiniteSet(T \ {x}) /\ Cardinality(T \ {x}) = n - 1
    BY FS_RemoveElement
  <2>4. rank[x] = Cardinality(before(x)) + 1
    OBVIOUS
  <2> HIDE DEF before, rank
  <2>3. Cardinality(before(x)) =< Cardinality(T \ {x})
    BY <2>1, <2>2, FS_Subset
  <2>5. QED
    BY <1>1, <1>2, <2>2, <2>3, <2>4
<1>4. ASSUME NEW x \in T, NEW y \in T, <<x, y>> \in R PROVE rank[x] < rank[y]
  <2>1. before(x) \in SUBSET (before(y) \ {x})
    BY <1>4
  <2>2. x \in before(y)
    BY <1>4
  <2>3. /\ IsFiniteSet(before(y) \ {x})
        /\ Cardinality(before(y) \ {x}) = Cardinality(before(y)) - 1
    BY <1>2, <2>2, FS_RemoveElement
  <2>5. rank[x] = Cardinality(before(x)) + 1 /\ rank[y] = Cardinality(before(y)) + 1
    OBVIOUS
  <2> HIDE DEF before, rank
  <2>4. Cardinality(before(x)) =< Cardinality(before(y) \ {x})
    BY <2>1, <2>3, FS_Subset
  <2>6. QED
    BY <1>2, <2>3, <2>4, <2>5
<1>5. rank \in [T -> 1..n]
  <2>1. rank = [x \in T |-> rank[x]]
    OBVIOUS
  <2> HIDE DEF rank
  <2>2. QED
    BY <1>3, <2>1
<1> HIDE DEF rank, before
<1>6. \A x, y \in T : rank[x] = rank[y] => x = y
  <2> SUFFICES ASSUME NEW x \in T, NEW y \in T, x # y PROVE rank[x] # rank[y]
    OBVIOUS
  <2>1. rank[x] \in 1..n /\ rank[y] \in 1..n
    BY <1>3
  <2>2. rank[x] < rank[y] \/ rank[y] < rank[x]
    BY <1>4
  <2>3. QED
    BY <2>1, <2>2
<1>7. rank \in Injection(T, 1..n)
  BY <1>5, <1>6 DEF Injection, IsInjective
<1>8. rank \in Surjection(T, 1..n)
  BY <1>1, <1>7, FS_Injection
<1>9. \A i \in 1..n : \E x \in T : rank[x] = i
  BY <1>8 DEF Surjection
<1> DEFINE s == [i \in 1..n |-> CHOOSE x \in T : rank[x] = i]
<1>10. \A i \in 1..n : s[i] \in T /\ rank[s[i]] = i
  BY <1>9
<1>11. s \in [1..n -> T]
  BY <1>10
<1> HIDE DEF s
<1>12. ASSUME NEW i \in 1..n, NEW k \in 1..n, i < k PROVE <<s[i], s[k]>> \in R
  <2>1. rank[s[i]] = i /\ rank[s[k]] = k /\ s[i] \in T /\ s[k] \in T
    BY <1>10
  <2>2. s[i] # s[k]
    BY <1>12, <2>1
  <2>3. <<s[k], s[i]>> \in R => k < i
    BY <1>4, <2>1
  <2>4. <<s[k], s[i]>> \notin R
    BY <1>12, <2>3
  <2>5. QED
    BY <2>1, <2>2, <2>4
<1>13. QED
  BY <1>11, <1>12

(* An enumeration without repetition reaches every element.                 *)
LEMMA EnumerationIsOnto ==
  ASSUME NEW T, IsFiniteSet(T), NEW s \in [1..Cardinality(T) -> T],
         \A i, k \in 1..Cardinality(T) : i < k => s[i] # s[k]
  PROVE  \A x \in T : \E i \in 1..Cardinality(T) : s[i] = x
<1> DEFINE n == Cardinality(T)
<1>1. n \in Nat /\ IsFiniteSet(1..n) /\ Cardinality(1..n) = n
  BY FS_CardinalityType, FS_Interval
<1>2. \A i, k \in 1..n : s[i] = s[k] => i = k
  BY <1>1
<1>3. s \in Injection(1..n, T)
  BY <1>2 DEF Injection, IsInjective
<1>4. s \in Surjection(1..n, T)
  BY <1>1, <1>3, FS_Injection
<1>5. QED
  BY <1>4 DEF Surjection
-----------------------------------------------------------------------------
(* InOrder returns such an enumeration, for the orders it is used with.     *)
LEMMA InOrderOfNumbers ==
  ASSUME NEW T \in SUBSET Int, IsFiniteSet(T)
  PROVE  LET s == InOrder(T, LAMBDA j, k : j < k)
         IN  /\ s \in [1..Cardinality(T) -> T]
             /\ \A i, k \in 1..Cardinality(T) : i < k => s[i] < s[k]
<1> DEFINE R == {p \in T \X T : p[1] < p[2]}
<1>1. \E s \in [1..Cardinality(T) -> T] :
         \A i, k \in 1..Cardinality(T) : i < k => <<s[i], s[k]>> \in R
  <2>1. \A x \in T : <<x, x>> \notin R
    OBVIOUS
  <2>2. \A x, y \in T : x # y => <<x, y>> \in R \/ <<y, x>> \in R
    OBVIOUS
  <2>3. \A x, y, z \in T : <<x, y>> \in R /\ <<y, z>> \in R => <<x, z>> \in R
    OBVIOUS
  <2> HIDE DEF R
  <2>4. QED
    BY <2>1, <2>2, <2>3, SortedEnumeration
<1>2. \E s \in [1..Cardinality(T) -> T] :
         \A i, k \in 1..Cardinality(T) : i < k => s[i] < s[k]
  BY <1>1
<1>3. QED
  BY <1>2 DEF InOrder

Place(rs, m) == InOrder(1..m, LAMBDA i, k : ManifestBefore(rs[i], rs[k]))

(* results.sort of execute_manifest, for records of different jobs.         *)
LEMMA InOrderOfManifest ==
  ASSUME NEW rs, NEW m \in Nat, DOMAIN rs = 1..m,
         \A i \in 1..m : rs[i].job \in Job,
         \A i, k \in 1..m : rs[i].job = rs[k].job => i = k
  PROVE  /\ Place(rs, m) \in [1..m -> 1..m]
         /\ \A i, k \in 1..m : i < k =>
               ManifestBefore(rs[Place(rs, m)[i]], rs[Place(rs, m)[k]])
<1> DEFINE T == 1..m
           R == {p \in T \X T : ManifestBefore(rs[p[1]], rs[p[2]])}
<1>1. IsFiniteSet(T) /\ Cardinality(T) = m
  BY FS_Interval
<1>2. \A j \in Job : j \in Int /\ PlanIndex[j] \in Nat
  BY RunnerAssumption DEF Job, S!Job
<1>3. \E s \in [1..Cardinality(T) -> T] :
         \A i, k \in 1..Cardinality(T) : i < k => <<s[i], s[k]>> \in R
  <2>1. \A x \in T : <<x, x>> \notin R
    BY <1>2 DEF ManifestBefore
  <2>2. \A x, y \in T : x # y => <<x, y>> \in R \/ <<y, x>> \in R
    BY <1>2 DEF ManifestBefore
  <2>3. \A x, y, z \in T : <<x, y>> \in R /\ <<y, z>> \in R => <<x, z>> \in R
    BY <1>2 DEF ManifestBefore
  <2> HIDE DEF R, T
  <2>4. QED
    BY <1>1, <2>1, <2>2, <2>3, SortedEnumeration
<1>4. \E s \in [1..Cardinality(T) -> T] :
         \A i, k \in 1..Cardinality(T) : i < k => ManifestBefore(rs[s[i]], rs[s[k]])
  BY <1>3
<1>5. QED
  BY <1>1, <1>4 DEF InOrder, Place
-----------------------------------------------------------------------------
(* What execute_manifest hands over is what the scheduler assumes.          *)
LEMMA Assumptions == P!ResourcesAssumption /\ P!SchedulerAssumption
<1>1. MaxProcesses \in Nat \ {0} /\ IoSlots \in Nat \ {0}
  BY RunnerAssumption DEF MaxProcesses, IoSlots
<1>2. P!ResourcesAssumption
  BY <1>1, RunnerAssumption DEF P!ResourcesAssumption, P!Job
<1>3. P!SchedulerAssumption
  BY RunnerAssumption DEF P!SchedulerAssumption, P!Job, P!Values
<1>4. QED
  BY <1>2, <1>3

(* The jobs are the positions in the manifest.                              *)
LEMMA SameJob == S!Job = Job /\ P!Job = Job /\ Job = 1..N
  BY DEF S!Job, P!Job, Job

(* The state of the scheduler as its own proofs describe it, kept by every  *)
(* step around the run.                                                     *)
SInv == P!IInv /\ P!RInv

(* The run starts as the scheduler does.                                    *)
LEMMA InitSInv == Init => SInv
<1>1. Init => P!Init
  BY DEF Init, S!Init, P!Init, S!Job, P!Job, S!None, P!None
<1>2. QED
  BY <1>1, Assumptions, P!InitIInv, P!InitRInv DEF SInv

(* Once the run is over with an empty pool, nothing of it changes.          *)
LEMMA EndedStays ==
  ASSUME SInv, pc = "ended", S!AliveJobs = {}, S!Next
  PROVE  UNCHANGED <<schedulerVars, interrupts>>
<1>1. \A j \in Job : ~S!Worker(j)
  BY SameJob DEF S!AliveJobs, S!Alive, S!Worker, S!WorkerStart, S!WorkerFinish
<1>2. \A j \in Job : ~S!Age(j)
  BY DEF S!Age
<1>3. ~S!Main /\ ~S!Interrupt /\ ~S!Stop
  BY DEF S!Main, S!Loop, S!LoopDone, S!Select, S!Charge, S!Submit, S!Track,
         S!NotifyStart, S!StopStarting, S!Idle, S!StartWait, S!Wait, S!PopCompleted,
         S!CollectDone, S!Release, S!GetResult, S!AppendResult, S!NotifyFinish,
         S!CallbackRaises, S!Handle, S!CallInterrupt, S!Drain, S!Interrupt,
         S!InterruptInTry, S!InterruptInResult, S!InterruptOutsideTry,
         S!InterruptInDrain, S!InTry, S!InHandler, S!Goto, S!Stop
<1>4. S!Ended
  BY <1>1, <1>2, <1>3, SameJob DEF S!Next
<1>5. QED
  BY <1>4 DEF S!Ended, S!vars, S!queue, S!ledger, S!collect, S!flags, S!ending,
     schedulerVars

(* Leaving the run behind touches nothing of it, but Ctrl-C is counted.     *)
LEMMA ExitsKeepState ==
  ASSUME SInv, Report \/ ExitInterrupted \/ ExitTraceback
  PROVE  /\ phase = "running" /\ pc = "ended" /\ phase' = "exited"
         /\ UNCHANGED schedulerVars
         /\ interrupts' \in 0..MaxInterrupts /\ interrupts' >= interrupts
<1>1. interrupts \in 0..MaxInterrupts /\ MaxInterrupts \in Nat
  BY RunnerAssumption DEF SInv, P!IInv, P!Types
<1>2. QED
  BY <1>1 DEF Report, ExitInterrupted, ExitTraceback, Exit, S!CanInterrupt

(* The invariants of the scheduler do not speak of `interrupts', except for *)
(* its type and that it is not 0.                                           *)
LEMMA ExitsKeepInvariant ==
  ASSUME SInv, UNCHANGED schedulerVars, interrupts' \in 0..MaxInterrupts,
         interrupts' >= interrupts
  PROVE  SInv'
<1> USE DEF schedulerVars, SInv, P!IInv, P!RInv
<1>1. P!Types'
  BY DEF P!Types
<1>2. P!AliveJobs' = P!AliveJobs /\ P!Reported' = P!Reported
  BY DEF P!AliveJobs, P!Reported
<1>3. P!AtWork'
  BY DEF P!AtWork, P!Done
<1>4. P!Undisturbed' = P!Undisturbed
  BY DEF P!Undisturbed
<1>5. P!Admission'
  BY <1>2, <1>4 DEF P!Admission, P!Fits
<1>6. P!Ledger' /\ P!Processes'
  BY <1>2 DEF P!Ledger, P!Processes
<1>7. P!Reporting'
  BY <1>2 DEF P!Reporting, P!ResultsFaithful, P!Done
<1>8. P!Settled'
  BY <1>2, <1>4 DEF P!Settled, P!Admitting, P!Collecting
<1>9. P!Tracked'
  BY <1>4 DEF P!Tracked
<1>10. P!FatalReported' = P!FatalReported
  BY DEF P!FatalReported
<1>11. P!Halting'
  BY <1>10 DEF P!Halting
<1>12. P!Causes'
  <2>1. interrupts \in 0..MaxInterrupts /\ MaxInterrupts \in Nat
    BY RunnerAssumption DEF P!Types
  <2>2. interrupts > 0 => interrupts' > 0
    BY <2>1
  <2>3. QED
    BY <1>2, <1>10, <2>2 DEF P!Causes
<1>13. QED
  BY <1>1, <1>3, <1>5, <1>6, <1>7, <1>8, <1>9, <1>11, <1>12

(* Every step of the runner keeps the invariant of the scheduler.           *)
LEMMA NextSInv == SInv /\ [Next]_vars => SInv'
<1> SUFFICES ASSUME SInv, [Next]_vars PROVE SInv'
  OBVIOUS
<1>1. CASE S!Next
  <2>1. P!Next
    BY <1>1, SameNext
  <2>2. QED
    BY <2>1, Assumptions, P!NextIInv, P!NextRInv DEF SInv
<1>2. CASE Report \/ ExitInterrupted \/ ExitTraceback
  BY <1>2, ExitsKeepState, ExitsKeepInvariant
<1>3. CASE UNCHANGED vars
  <2>1. UNCHANGED P!vars
    BY <1>3 DEF vars, schedulerVars, P!vars, P!queue, P!ledger, P!collect, P!flags, P!ending
  <2>2. QED
    BY <2>1, Assumptions, P!NextIInv, P!NextRInv DEF SInv
<1>4. QED
  BY <1>1, <1>2, <1>3 DEF Next
-----------------------------------------------------------------------------
(* A record stands for a result of the scheduler, or for a job without one. *)
Explained(r) ==
    \/ \E k \in DOMAIN results : r = FromWorker(results[k][1], results[k][2])
    \/ \E j \in Job \ S!Reported : r = NotStarted(j)

(* Records of all jobs, one each.                                           *)
Complete(rs) ==
    /\ rs \in Seq(Record)
    /\ DOMAIN rs = 1..N
    /\ \A i \in 1..N : Explained(rs[i])
    /\ \A i, k \in 1..N : rs[i].job = rs[k].job => i = k
    /\ \A j \in Job : \E i \in 1..N : rs[i].job = j

(* What the scheduler's invariant says of a result.                         *)
LEMMA ResultsAre ==
  ASSUME SInv
  PROVE  /\ results \in Seq(Job \X S!Values)
         /\ S!Reported \subseteq Job
         /\ \A k \in DOMAIN results :
               /\ results[k][1] \in S!Reported
               /\ results[k][2] \in S!Values
               /\ results[k][2] \in {future[results[k][1]], "keyboard"}
         /\ \A i, k \in DOMAIN results : results[i][1] = results[k][1] => i = k
<1>1. results \in Seq(Job \X S!Values)
  BY SameJob DEF SInv, P!IInv, P!Types, P!Values, S!Values
<1>2. \A k \in DOMAIN results : results[k] \in Job \X S!Values
  BY <1>1
<1>3. \A k \in DOMAIN results : results[k][1] \in Job /\ results[k][2] \in S!Values
  BY <1>2
<1>4. S!Reported \subseteq Job /\ \A k \in DOMAIN results : results[k][1] \in S!Reported
  BY <1>3 DEF S!Reported
<1>5. P!ResultsFaithful
  BY DEF SInv, P!RInv, P!Reporting
<1>6. QED
  BY <1>1, <1>3, <1>4, <1>5 DEF P!ResultsFaithful

(* There are N jobs, and every set of jobs is finite.                       *)
LEMMA JobsFinite ==
  /\ IsFiniteSet(Job) /\ Cardinality(Job) = N
  /\ \A T \in SUBSET Job : IsFiniteSet(T) /\ Cardinality(T) \in Nat
<1>1. IsFiniteSet(1..N) /\ Cardinality(1..N) = N
  BY RunnerAssumption, FS_Interval
<1>2. \A T \in SUBSET Job : IsFiniteSet(T)
  BY <1>1, SameJob, FS_Subset
<1>3. QED
  BY <1>1, <1>2, SameJob, FS_CardinalityType

(* The jobs without a result, each once.                                    *)
LEMMA UnstartedAre ==
  ASSUME SInv
  PROVE  LET left == Job \ S!Reported
         IN  /\ Cardinality(left) \in Nat
             /\ Unstarted \in [1..Cardinality(left) -> left]
             /\ \A i, k \in 1..Cardinality(left) : Unstarted[i] = Unstarted[k] => i = k
             /\ \A j \in left : \E i \in 1..Cardinality(left) : Unstarted[i] = j
<1> DEFINE left == Job \ S!Reported
           n == Cardinality(left)
<1>1. left \in SUBSET Int /\ left \in SUBSET Job
  BY SameJob
<1>2. IsFiniteSet(left) /\ n \in Nat
  BY <1>1, JobsFinite
<1> HIDE DEF left
<1>3. /\ InOrder(left, LAMBDA j, k : j < k) \in [1..n -> left]
      /\ \A i, k \in 1..n : i < k =>
            InOrder(left, LAMBDA u, v : u < v)[i] < InOrder(left, LAMBDA u, v : u < v)[k]
  BY <1>1, <1>2, InOrderOfNumbers
<1>4. /\ Unstarted \in [1..n -> left]
      /\ \A i, k \in 1..n : i < k => Unstarted[i] < Unstarted[k]
  BY <1>3 DEF Unstarted, left
<1> HIDE DEF n
<1>5. \A i \in 1..n : Unstarted[i] \in Int
  BY <1>1, <1>4
<1>6. \A i, k \in 1..n : Unstarted[i] = Unstarted[k] => i = k
  BY <1>2, <1>4, <1>5
<1>7. \A j \in left : \E i \in 1..n : Unstarted[i] = j
  <2>1. \A i, k \in 1..n : i < k => Unstarted[i] # Unstarted[k]
    BY <1>4, <1>5
  <2>2. QED
    BY <1>2, <1>4, <2>1, EnumerationIsOnto DEF n
<1>8. QED
  BY <1>2, <1>4, <1>6, <1>7 DEF n, left

(* One sequence behind another.                                             *)
LEMMA Concatenated ==
  ASSUME NEW V, NEW m \in Nat, NEW n \in Nat, NEW a \in [1..m -> V], NEW b \in [1..n -> V]
  PROVE  /\ a \o b \in Seq(V)
         /\ Len(a \o b) = m + n /\ DOMAIN (a \o b) = 1..(m + n)
         /\ \A i \in 1..m : (a \o b)[i] = a[i]
         /\ \A i \in 1..n : (a \o b)[m + i] = b[i]
<1>1. a \in Seq(V) /\ b \in Seq(V)
  BY SeqDef
<1>2. Len(a) = m /\ Len(b) = n
  BY <1>1, LenProperties
<1>3. a \o b \in Seq(V) /\ Len(a \o b) = m + n
  BY <1>1, <1>2, ConcatProperties
<1>4. \A i \in 1..(m + n) : (a \o b)[i] = IF i <= m THEN a[i] ELSE b[i - m]
  BY <1>1, <1>2, ConcatProperties
<1>5. DOMAIN (a \o b) = 1..(m + n)
  BY <1>3, LenProperties
<1>6. \A i \in 1..m : i \in 1..(m + n) /\ i <= m
  OBVIOUS
<1>7. \A i \in 1..n : m + i \in 1..(m + n) /\ ~(m + i <= m) /\ m + i - m = i
  OBVIOUS
<1>8. QED
  BY <1>3, <1>4, <1>5, <1>6, <1>7

(* The records are those of the results, then those of the jobs left over.  *)
LEMMA RecordsAre ==
  ASSUME SInv
  PROVE  LET m == Len(results)
             n == Cardinality(Job \ S!Reported)
         IN  /\ m \in Nat /\ n \in Nat /\ DOMAIN results = 1..m
             /\ Len(Records) = m + n /\ DOMAIN Records = 1..(m + n)
             /\ \A i \in 1..m : Records[i] = FromWorker(results[i][1], results[i][2])
             /\ \A i \in 1..n : Records[m + i] = NotStarted(Unstarted[i])
<1> DEFINE m == Len(results)
           n == Cardinality(Job \ S!Reported)
           a == [i \in DOMAIN results |-> FromWorker(results[i][1], results[i][2])]
           b == [i \in DOMAIN Unstarted |-> NotStarted(Unstarted[i])]
<1>1. m \in Nat /\ DOMAIN results = 1..m
  BY ResultsAre
<1>2. n \in Nat /\ DOMAIN Unstarted = 1..n
  BY UnstartedAre
<1>3. /\ a = [i \in 1..m |-> a[i]] /\ b = [i \in 1..n |-> b[i]]
      /\ \A i \in 1..m : a[i] = FromWorker(results[i][1], results[i][2])
      /\ \A i \in 1..n : b[i] = NotStarted(Unstarted[i])
      /\ Records = a \o b
  BY <1>1, <1>2 DEF Records
<1> HIDE DEF a, b, m, n
<1> DEFINE V == {a[i] : i \in 1..m} \union {b[i] : i \in 1..n}
<1>4. \A i \in 1..m : a[i] \in V
  OBVIOUS
<1>5. \A i \in 1..n : b[i] \in V
  OBVIOUS
<1> HIDE DEF V
<1>6. a \in [1..m -> V] /\ b \in [1..n -> V]
  BY <1>3, <1>4, <1>5
<1>7. /\ Len(a \o b) = m + n /\ DOMAIN (a \o b) = 1..(m + n)
      /\ \A i \in 1..m : (a \o b)[i] = a[i]
      /\ \A i \in 1..n : (a \o b)[m + i] = b[i]
  BY <1>1, <1>2, <1>6, Concatenated
<1>8. QED
  BY <1>1, <1>2, <1>3, <1>7 DEF m, n
-----------------------------------------------------------------------------
(* Both kinds of record are records, of the job they are made for.          *)
LEMMA RecordOf ==
  \A j \in Job : /\ \A v \in S!Values : FromWorker(j, v) \in Record
                 /\ NotStarted(j) \in Record
                 /\ \A v : FromWorker(j, v).job = j
                 /\ NotStarted(j).job = j
<1> SUFFICES ASSUME NEW j \in Job
             PROVE  /\ \A v \in S!Values : FromWorker(j, v) \in Record
                    /\ NotStarted(j) \in Record
                    /\ \A v : FromWorker(j, v).job = j
                    /\ NotStarted(j).job = j
  OBVIOUS
<1>1. ASSUME NEW v \in S!Values PROVE FromWorker(j, v) \in Record
  <2>1. (v # "success" \/ j \in Warned) \in BOOLEAN
    OBVIOUS
  <2>2. (IF v \in {"exception", "keyboard"} THEN "failed"
         ELSE IF v = "successWarned" THEN "success" ELSE v)
           \in {"success", "warning", "failed", "skipped", "interrupted"}
    BY DEF S!Values
  <2>3. QED
    BY <2>1, <2>2 DEF FromWorker, Record
<1>2. NotStarted(j) \in Record
  <2>1. (IF interrupted THEN "interrupted" ELSE "skipped")
           \in {"success", "warning", "failed", "skipped", "interrupted"}
    OBVIOUS
  <2>2. QED
    BY <2>1 DEF NotStarted, Record
<1>3. \A v : FromWorker(j, v).job = j
  BY DEF FromWorker
<1>4. NotStarted(j).job = j
  BY DEF NotStarted
<1>5. QED
  BY <1>1, <1>2, <1>3, <1>4

(* execute_manifest builds one record for every job.                        *)
LEMMA RecordsComplete ==
  ASSUME SInv
  PROVE  Complete(Records)
<1> DEFINE left == Job \ S!Reported
           m == Len(results)
           n == Cardinality(left)
<1>1. /\ m \in Nat /\ n \in Nat /\ DOMAIN results = 1..m
      /\ Len(Records) = m + n /\ DOMAIN Records = 1..(m + n)
      /\ \A i \in 1..m : Records[i] = FromWorker(results[i][1], results[i][2])
      /\ \A i \in 1..n : Records[m + i] = NotStarted(Unstarted[i])
  BY RecordsAre
<1>2. /\ \A i \in 1..n : Unstarted[i] \in left
      /\ \A i, k \in 1..n : Unstarted[i] = Unstarted[k] => i = k
      /\ \A j \in left : \E i \in 1..n : Unstarted[i] = j
  BY UnstartedAre
<1>3. /\ \A i \in 1..m : /\ results[i][1] \in S!Reported /\ results[i][1] \in Job
                         /\ results[i][2] \in S!Values
      /\ \A i, k \in 1..m : results[i][1] = results[k][1] => i = k
      /\ \A j \in S!Reported : \E i \in 1..m : results[i][1] = j
  BY <1>1, ResultsAre DEF S!Reported
<1> HIDE DEF m, n
<1>4. /\ \A i \in 1..m : /\ Records[i].job = results[i][1]
                         /\ Records[i] \in Record
      /\ \A i \in 1..n : /\ Records[m + i].job = Unstarted[i]
                         /\ Records[m + i] \in Record
  BY <1>1, <1>2, <1>3, RecordOf
<1>5. \A i \in 1..(m + n) : i \in 1..m \/ \E k \in 1..n : i = m + k
  <2> SUFFICES ASSUME NEW i \in 1..(m + n), i \notin 1..m PROVE \E k \in 1..n : i = m + k
    OBVIOUS
  <2>1. i - m \in 1..n /\ i = m + (i - m)
    BY <1>1
  <2>2. QED
    BY <2>1
<1>6. \A i \in 1..(m + n) : Records[i] \in Record
  BY <1>4, <1>5
<1>7. \A i \in 1..(m + n) : Explained(Records[i])
  <2>1. \A i \in 1..m : Explained(Records[i])
    BY <1>1 DEF Explained
  <2>2. \A k \in 1..n : Explained(Records[m + k])
    BY <1>1, <1>2 DEF Explained
  <2>3. QED
    BY <1>5, <2>1, <2>2
<1>8. ASSUME NEW i \in 1..(m + n), NEW k \in 1..(m + n), Records[i].job = Records[k].job
      PROVE  i = k
  <2>1. CASE i \in 1..m /\ k \in 1..m
    BY <1>3, <1>4, <1>8, <2>1
  <2>2. ASSUME NEW u \in 1..n, i = m + u, k \in 1..m PROVE FALSE
    BY <1>2, <1>3, <1>4, <1>8, <2>2
  <2>3. ASSUME NEW u \in 1..n, k = m + u, i \in 1..m PROVE FALSE
    BY <1>2, <1>3, <1>4, <1>8, <2>3
  <2>4. ASSUME NEW u \in 1..n, NEW v \in 1..n, i = m + u, k = m + v PROVE i = k
    BY <1>2, <1>4, <1>8, <2>4
  <2>5. QED
    BY <1>5, <2>1, <2>2, <2>3, <2>4
<1>9. ASSUME NEW j \in Job PROVE \E i \in 1..(m + n) : Records[i].job = j
  <2>1. CASE j \in S!Reported
    <3>1. PICK i \in 1..m : results[i][1] = j
      BY <1>3, <2>1
    <3>2. i \in 1..(m + n)
      BY <1>1
    <3>3. QED
      BY <1>4, <3>1, <3>2
  <2>2. CASE j \notin S!Reported
    <3>1. PICK i \in 1..n : Unstarted[i] = j
      BY <1>2, <2>2
    <3>2. m + i \in 1..(m + n)
      BY <1>1
    <3>3. QED
      BY <1>4, <3>1, <3>2
  <2>3. QED
    BY <2>1, <2>2
<1>10. m + n = N
  <2> DEFINE job == [i \in 1..(m + n) |-> Records[i].job]
  <2>1. \A i \in 1..(m + n) : Records[i].job \in Job
    BY <1>6 DEF Record
  <2>2. job \in Injection(1..(m + n), Job)
    BY <1>8, <2>1 DEF Injection, IsInjective
  <2>3. job \in Surjection(1..(m + n), Job)
    BY <1>9, <2>1 DEF Surjection
  <2>4. m + n \in Nat
    BY <1>1
  <2>5. Cardinality(1..(m + n)) = m + n
    BY <2>4, FS_Interval
  <2> HIDE DEF job
  <2>6. Cardinality(1..(m + n)) = Cardinality(Job)
    BY <2>2, <2>3, JobsFinite, FS_Injection
  <2>7. QED
    BY <2>5, <2>6, JobsFinite
<1>11. Records \in Seq(Record)
  <2>1. \A i \in DOMAIN Unstarted : NotStarted(Unstarted[i]) \in Record
    BY <1>2, UnstartedAre, RecordOf
  <2>2. \A i \in DOMAIN results : FromWorker(results[i][1], results[i][2]) \in Record
    BY <1>1, <1>3, RecordOf
  <2>3. DOMAIN Unstarted = 1..n
    BY UnstartedAre DEF n
  <2>4. /\ [i \in DOMAIN results |-> FromWorker(results[i][1], results[i][2])]
             \in [1..m -> Record]
        /\ [i \in DOMAIN Unstarted |-> NotStarted(Unstarted[i])] \in [1..n -> Record]
    BY <1>1, <2>1, <2>2, <2>3
  <2>5. QED
    BY <1>1, <2>4, Concatenated DEF Records
<1>12. QED
  BY <1>1, <1>6, <1>7, <1>8, <1>9, <1>10, <1>11 DEF Complete
-----------------------------------------------------------------------------
(* Putting complete records in order loses none and repeats none.           *)
LEMMA OrderedComplete ==
  ASSUME NEW rs, Complete(rs)
  PROVE  /\ Complete(Ordered(rs))
         /\ (\E j \in Job : Schema[j] # 1) =>
               \A i, k \in 1..N : i < k => ManifestBefore(Ordered(rs)[i], Ordered(rs)[k])
<1>1. CASE ~\E j \in Job : Schema[j] # 1
  BY <1>1 DEF Ordered
<1>2. CASE \E j \in Job : Schema[j] # 1
  <2> DEFINE place == Place(rs, N)
             os == [i \in 1..N |-> rs[place[i]]]
  <2>1. N \in Nat /\ rs \in Seq(Record) /\ DOMAIN rs = 1..N
    BY RunnerAssumption DEF Complete
  <2>2. \A i \in 1..N : rs[i] \in Record /\ rs[i].job \in Job
    <3>1. \A i \in 1..N : rs[i] \in Record
      BY <2>1
    <3>2. QED
      BY <3>1 DEF Record
  <2>3. \A i, k \in 1..N : rs[i].job = rs[k].job => i = k
    BY DEF Complete
  <2>4. /\ place \in [1..N -> 1..N]
        /\ \A i, k \in 1..N : i < k => ManifestBefore(rs[place[i]], rs[place[k]])
    BY <2>1, <2>2, <2>3, InOrderOfManifest
  <2>5. Ordered(rs) = os
    BY <1>2, <2>1 DEF Ordered, Place
  <2> HIDE DEF place
  <2>6. \A i, k \in 1..N : i < k => place[i] # place[k]
    <3> SUFFICES ASSUME NEW i \in 1..N, NEW k \in 1..N, i < k, place[i] = place[k]
                 PROVE  FALSE
      OBVIOUS
    <3>1. ManifestBefore(rs[place[i]], rs[place[i]]) /\ place[i] \in 1..N
      BY <2>4
    <3>2. rs[place[i]].job \in Int /\ PlanIndex[rs[place[i]].job] \in Int
      <4>1. \A j \in Job : j \in Int /\ PlanIndex[j] \in Int
        BY SameJob, RunnerAssumption
      <4>2. QED
        BY <2>2, <3>1, <4>1
    <3>3. QED
      BY <3>1, <3>2 DEF ManifestBefore
  <2>7. \A x \in 1..N : \E i \in 1..N : place[i] = x
    <3>1. IsFiniteSet(1..N) /\ Cardinality(1..N) = N
      BY <2>1, FS_Interval
    <3> DEFINE T == 1..N
    <3>2. /\ IsFiniteSet(T) /\ Cardinality(T) = N
          /\ place \in [1..Cardinality(T) -> T]
          /\ \A i, k \in 1..Cardinality(T) : i < k => place[i] # place[k]
      BY <2>4, <2>6, <3>1
    <3> HIDE DEF T
    <3>3. \A x \in T : \E i \in 1..Cardinality(T) : place[i] = x
      BY <3>2, EnumerationIsOnto
    <3>4. QED
      BY <3>2, <3>3 DEF T
  <2>8. \A i, k \in 1..N : place[i] = place[k] => i = k
    BY <2>1, <2>6
  <2>9. \A i \in 1..N : os[i] = rs[place[i]] /\ place[i] \in 1..N
    BY <2>4
  <2>10. os \in [1..N -> Record]
    BY <2>2, <2>4
  <2> HIDE DEF os
  <2>11. os \in Seq(Record) /\ DOMAIN os = 1..N
    BY <2>1, <2>10, SeqDef
  <2>12. \A i \in 1..N : Explained(os[i])
    BY <2>9 DEF Complete
  <2>13. \A i, k \in 1..N : os[i].job = os[k].job => i = k
    BY <2>3, <2>8, <2>9
  <2>14. \A j \in Job : \E i \in 1..N : os[i].job = j
    <3> SUFFICES ASSUME NEW j \in Job PROVE \E i \in 1..N : os[i].job = j
      OBVIOUS
    <3>1. PICK x \in 1..N : rs[x].job = j
      BY DEF Complete
    <3>2. PICK i \in 1..N : place[i] = x
      BY <2>7
    <3>3. QED
      BY <2>9, <3>1, <3>2
  <2>15. \A i, k \in 1..N : i < k => ManifestBefore(os[i], os[k])
    BY <2>4, <2>9
  <2>16. QED
    BY <2>5, <2>11, <2>12, <2>13, <2>14, <2>15 DEF Complete
<1>3. QED
  BY <1>1, <1>2
-----------------------------------------------------------------------------
(* Records are written only when the run has returned, nothing of it is     *)
(* alive any more, and they are those of all jobs, in order, with the exit  *)
(* code they call for.                                                      *)
AsReported ==
    Written => /\ phase = "exited"
               /\ pc = "ended"
               /\ outcome = "return"
               /\ S!AliveJobs = {}
               /\ Complete(report)
               /\ (\E j \in Job : Schema[j] # 1) =>
                     \A i, k \in 1..N : i < k => ManifestBefore(report[i], report[k])
               /\ exitCode = ResultExitCode(report)

Inv == SInv /\ TypeOK /\ AsReported

(* The initial state satisfies the inductive invariant.                     *)
LEMMA InitInv == Init => Inv
<1>1. Init => TypeOK
  BY DEF Init, TypeOK
<1>2. Init => AsReported
  BY DEF Init, AsReported, Written
<1>3. QED
  BY <1>1, <1>2, InitSInv DEF Inv

(* Every step keeps the types.                                              *)
LEMMA NextTypeOK ==
  ASSUME SInv, TypeOK, [Next]_vars
  PROVE  TypeOK'
<1>1. CASE UNCHANGED runnerVars
  BY <1>1 DEF runnerVars, TypeOK
<1>2. CASE Report
  <2>1. Ordered(Records) \in Seq(Record)
    BY RecordsComplete, OrderedComplete DEF Complete
  <2>2. ResultExitCode(Ordered(Records)) \in {-1, 0, 1, 2, 130}
    BY DEF ResultExitCode
  <2>3. QED
    BY <1>2, <2>1, <2>2 DEF Report, Exit, TypeOK
<1>3. CASE ExitInterrupted \/ ExitTraceback
  BY <1>3 DEF ExitInterrupted, ExitTraceback, Exit, TypeOK
<1>4. QED
  BY <1>1, <1>2, <1>3 DEF Next, vars

(* Every step keeps the records as they were written.                       *)
LEMMA NextAsReported ==
  ASSUME SInv, TypeOK, AsReported, [Next]_vars
  PROVE  AsReported'
<1>1. CASE Report
  <2>1. Complete(Ordered(Records))
    BY RecordsComplete, OrderedComplete
  <2>2. /\ report' = Ordered(Records) /\ phase' = "exited" /\ pc' = "ended"
        /\ outcome' = "return" /\ exitCode' = ResultExitCode(Ordered(Records))
        /\ UNCHANGED schedulerVars
    BY <1>1 DEF Report, Exit, schedulerVars
  <2>3. S!AliveJobs = {}
    BY <1>1 DEF SInv, P!RInv, P!Causes, Report, Exit, P!AliveJobs, P!Alive, S!AliveJobs,
       S!Alive, S!Job, P!Job
  <2>4. S!AliveJobs' = S!AliveJobs
    BY <2>2 DEF schedulerVars, S!AliveJobs
  <2>5. \A r : Explained(r)' <=> Explained(r)
    BY <2>2 DEF schedulerVars, Explained, NotStarted, S!Reported
  <2>6. Complete(report)'
    BY <2>1, <2>2, <2>5 DEF Complete
  <2>7. QED
    BY <2>2, <2>3, <2>4, <2>6, RecordsComplete, OrderedComplete DEF AsReported
<1>2. CASE ExitInterrupted \/ ExitTraceback
  BY <1>2 DEF ExitInterrupted, ExitTraceback, Exit, AsReported, Written
<1>3. CASE UNCHANGED runnerVars /\ ~Written
  BY <1>3 DEF runnerVars, AsReported, Written
<1>4. CASE UNCHANGED runnerVars /\ Written /\ (S!Next \/ UNCHANGED vars)
  <2>1. UNCHANGED schedulerVars
    BY <1>4, EndedStays DEF AsReported, vars
  <2>2. S!AliveJobs' = S!AliveJobs
    BY <2>1 DEF schedulerVars, S!AliveJobs
  <2>3. \A r : Explained(r)' <=> Explained(r)
    BY <2>1 DEF schedulerVars, Explained, NotStarted, S!Reported
  <2>4. report' = report /\ phase' = phase /\ exitCode' = exitCode
    BY <1>4 DEF runnerVars
  <2>5. Complete(report) => Complete(report)'
    BY <2>3, <2>4 DEF Complete
  <2>6. QED
    BY <1>4, <2>1, <2>2, <2>4, <2>5 DEF AsReported, schedulerVars
<1>5. QED
  BY <1>1, <1>2, <1>3, <1>4 DEF Next, vars

(* The invariant holds in every reachable state.                            *)
LEMMA Invariance == Spec => []Inv
<1>1. Inv /\ [Next]_vars => Inv'
  BY NextSInv, NextTypeOK, NextAsReported DEF Inv
<1>2. QED
  BY <1>1, InitInv, PTL DEF Spec
-----------------------------------------------------------------------------
(* The elements of two disjoint sets.                                       *)
LEMMA DisjointSum ==
  ASSUME NEW A, NEW B, IsFiniteSet(A), IsFiniteSet(B), A \intersect B = {}
  PROVE  /\ IsFiniteSet(A \union B)
         /\ Cardinality(A \union B) = Cardinality(A) + Cardinality(B)
<1>1. /\ IsFiniteSet(A \union B)
      /\ Cardinality(A \union B)
           = Cardinality(A) + Cardinality(B) - Cardinality(A \intersect B)
  BY FS_Union
<1>2. Cardinality(A \intersect B) = 0
  BY FS_EmptySet
<1>3. Cardinality(A) \in Nat /\ Cardinality(B) \in Nat
  BY FS_CardinalityType
<1>4. QED
  BY <1>1, <1>2, <1>3
-----------------------------------------------------------------------------
(* The records, their number and the exit code always have their types.     *)
THEOREM TypeCorrect == Spec => []TypeOK
  BY Invariance, PTL DEF Inv

(* Counting the records of one status: the five sets are disjoint, and a    *)
(* record has one of the five.                                              *)
LEMMA CountsAddUp ==
  ASSUME NEW rs, Complete(rs)
  PROVE  Count(rs, "success") + Count(rs, "warning") + Count(rs, "failed")
           + Count(rs, "skipped") + Count(rs, "interrupted") = N
<1> DEFINE A(status) == {i \in 1..N : rs[i].status = status}
<1>1. N \in Nat /\ DOMAIN rs = 1..N /\ rs \in Seq(Record)
  BY RunnerAssumption DEF Complete
<1>2. IsFiniteSet(1..N) /\ Cardinality(1..N) = N
  BY <1>1, FS_Interval
<1>3. \A status : /\ IsFiniteSet(A(status)) /\ Cardinality(A(status)) \in Nat
                  /\ Count(rs, status) = Cardinality(A(status))
  BY <1>1, <1>2, FS_Subset, FS_CardinalityType DEF Count
<1>4. \A i \in 1..N :
         rs[i].status \in {"success", "warning", "failed", "skipped", "interrupted"}
  <2>1. \A i \in 1..N : rs[i] \in Record
    BY <1>1
  <2>2. QED
    BY <2>1 DEF Record
<1>5. 1..N = A("success") \union A("warning") \union A("failed")
               \union A("skipped") \union A("interrupted")
  BY <1>4
<1>6. \A status, other : status # other => A(status) \intersect A(other) = {}
  OBVIOUS
<1> DEFINE B2 == A("success") \union A("warning")
           B3 == B2 \union A("failed")
           B4 == B3 \union A("skipped")
           B5 == B4 \union A("interrupted")
<1>7. /\ A("success") \intersect A("warning") = {}
      /\ B2 \intersect A("failed") = {}
      /\ B3 \intersect A("skipped") = {}
      /\ B4 \intersect A("interrupted") = {}
  OBVIOUS
<1>8. B5 = 1..N
  BY <1>5
<1> HIDE DEF A
<1>9. /\ IsFiniteSet(B2)
      /\ Cardinality(B2) = Cardinality(A("success")) + Cardinality(A("warning"))
  BY <1>3, <1>7, DisjointSum
<1> HIDE DEF B2
<1>10. IsFiniteSet(B3) /\ Cardinality(B3) = Cardinality(B2) + Cardinality(A("failed"))
  BY <1>3, <1>7, <1>9, DisjointSum
<1> HIDE DEF B3
<1>11. IsFiniteSet(B4) /\ Cardinality(B4) = Cardinality(B3) + Cardinality(A("skipped"))
  BY <1>3, <1>7, <1>10, DisjointSum
<1> HIDE DEF B4
<1>12. Cardinality(B5) = Cardinality(B4) + Cardinality(A("interrupted"))
  BY <1>3, <1>7, <1>11, DisjointSum
<1> HIDE DEF B5
<1>13. N = Cardinality(A("success")) + Cardinality(A("warning")) + Cardinality(A("failed"))
             + Cardinality(A("skipped")) + Cardinality(A("interrupted"))
  BY <1>2, <1>8, <1>9, <1>10, <1>11, <1>12
<1>14. QED
  BY <1>3, <1>13

(* Whatever ended, failed, was skipped or cut off: the records written hold *)
(* every job of the manifest once, and the five counts of the summary add   *)
(* up to the number of jobs, for every manifest and every interleaving.     *)
THEOREM CompleteRecords == Spec => []ReportComplete
<1>1. Inv => ReportComplete
  <2> SUFFICES ASSUME Inv, Written PROVE ReportComplete
    BY DEF ReportComplete
  <2>1. Complete(report)
    BY DEF Inv, AsReported
  <2>2. Len(report) = N
    <3>1. report \in Seq(Record) /\ DOMAIN report = 1..N /\ N \in Nat
      BY <2>1, RunnerAssumption DEF Complete
    <3>2. DOMAIN report = 1..Len(report) /\ Len(report) \in Nat
      BY <3>1, LenProperties
    <3>3. QED
      BY <3>1, <3>2
  <2>3. \A j \in Job : \E i \in DOMAIN report : report[i].job = j
    BY <2>1 DEF Complete
  <2>4. QED
    BY <2>1, <2>2, <2>3, CountsAddUp DEF ReportComplete, Summary
<1>2. QED
  BY <1>1, Invariance, PTL

(* Unless the manifest is all v1, the records are in plan order however the *)
(* jobs ended: results.sort of execute_manifest puts any permutation right. *)
THEOREM RecordsInOrder == Spec => []PlanOrder
<1>1. Inv => PlanOrder
  <2>1. CASE Written
    BY <2>1 DEF Inv, AsReported, PlanOrder, Complete
  <2>2. CASE ~Written
    BY <2>2 DEF Written, PlanOrder
  <2>3. QED
    BY <2>1, <2>2
<1>2. QED
  BY <1>1, Invariance, PTL

(* A batch whose sources are no larger in all than the threshold runs one   *)
(* job at a time, even while a worker outlives the run that started it.     *)
THEOREM SequentialBatch == Spec => []SmallBatchIsSequential
<1>1. Inv => SmallBatchIsSequential
  <2> SUFFICES ASSUME Inv, SequentialBelow > 0, TotalSize =< SequentialBelow
               PROVE  Cardinality(S!AliveJobs) =< 1
    BY DEF SmallBatchIsSequential
  <2>1. IsSmallBatch
    BY RunnerAssumption DEF IsSmallBatch
  <2>2. MaxProcesses = 1
    BY <2>1 DEF MaxProcesses
  <2>3. P!BudgetsRespected
    BY Assumptions, P!InvBudgets DEF Inv, SInv
  <2>4. S!AliveJobs = P!AliveJobs
    BY DEF S!AliveJobs, P!AliveJobs, S!Alive, P!Alive, S!Job, P!Job
  <2>5. P!Cardinality(P!AliveJobs) =< 1
    BY <2>2, <2>3 DEF P!BudgetsRespected, P!WithinBudgets
  <2>6. QED
    BY <2>4, <2>5, SameCardinality
<1>2. QED
  BY <1>1, Invariance, PTL
-----------------------------------------------------------------------------
(* What the written records say of each job.                                *)
LEMMA JobsRecorded ==
  ASSUME Inv, Written, NEW j \in Job
  PROVE  \E i \in DOMAIN report :
            /\ report[i].job = j
            /\ \/ /\ future[j] \in S!Values
                  /\ \E v \in {future[j], "keyboard"} : report[i] = FromWorker(j, v)
               \/ /\ j \notin S!Reported
                  /\ report[i] = NotStarted(j)
<1>1. Complete(report) /\ SInv
  BY DEF Inv, AsReported
<1>2. PICK i \in DOMAIN report : report[i].job = j
  BY <1>1 DEF Complete
<1>3. Explained(report[i])
  BY <1>1 DEF Complete
<1>4. ASSUME NEW k \in DOMAIN results, report[i] = FromWorker(results[k][1], results[k][2])
      PROVE  /\ future[j] \in S!Values
             /\ \E v \in {future[j], "keyboard"} : report[i] = FromWorker(j, v)
  <2>1. results[k][1] = j
    BY <1>2, <1>4 DEF FromWorker
  <2>2. results[k][2] \in {future[j], "keyboard"}
    BY <1>1, <2>1, ResultsAre
  <2>3. future[j] \in S!Values
    <3>1. P!ResultsFaithful
      BY <1>1 DEF SInv, P!RInv, P!Reporting
    <3>2. QED
      BY <2>1, <3>1 DEF P!ResultsFaithful, P!Done, P!Values, S!Values
  <2>4. QED
    BY <1>4, <2>1, <2>2, <2>3
<1>5. ASSUME NEW k \in Job \ S!Reported, report[i] = NotStarted(k)
      PROVE  j \notin S!Reported /\ report[i] = NotStarted(j)
  <2>1. k = j
    BY <1>2, <1>5 DEF NotStarted
  <2>2. QED
    BY <1>5, <2>1
<1>6. QED
  BY <1>2, <1>3, <1>4, <1>5 DEF Explained

(* A job left over without an interruption never reached the pool.          *)
LEMMA LeftOverNeverRan ==
  ASSUME Inv, Written, ~interrupted
  PROVE  /\ \A j \in Job \ S!Reported : future[j] = "none"
         /\ S!Reported # Job => stop
<1>1. P!ReturnReportsAll
  BY Assumptions, P!ReturnComplete DEF Inv, SInv
<1>2. P!Reported = S!Reported /\ P!Job = Job
  BY SameJob DEF P!Reported, S!Reported
<1>3. pc = "ended" /\ outcome = "return"
  BY DEF Inv, AsReported
<1>4. QED
  BY <1>1, <1>2, <1>3 DEF P!ReturnReportsAll

(* The exit code tells the truth about the workers, not only about the      *)
(* records: 0 means that every job succeeded, 0 or 1 that none failed, and  *)
(* 130 that Ctrl-C was pressed.                                             *)
THEOREM TruthfulExitCode == Spec => []ExitCodeTruthful
<1>1. Inv => ExitCodeTruthful
  <2> SUFFICES ASSUME Inv, Written PROVE ExitCodeTruthful
    BY DEF ExitCodeTruthful
  <2>1. exitCode = ResultExitCode(report) /\ Complete(report) /\ SInv
    BY DEF Inv, AsReported
  <2> DEFINE statuses == {report[i].status : i \in DOMAIN report}
  <2>2. ASSUME exitCode = 0, NEW j \in Job
        PROVE  future[j] = "success" /\ j \notin Warned
    <3>1. /\ "failed" \notin statuses
          /\ \A i \in DOMAIN report : ~report[i].warned
      BY <2>1, <2>2 DEF ResultExitCode
    <3>2. PICK i \in DOMAIN report :
             \/ /\ future[j] \in S!Values
                /\ \E v \in {future[j], "keyboard"} : report[i] = FromWorker(j, v)
             \/ /\ j \notin S!Reported
                /\ report[i] = NotStarted(j)
      BY JobsRecorded
    <3>3. ~report[i].warned
      BY <3>1
    <3>4. report[i] # NotStarted(j)
      BY <3>3 DEF NotStarted
    <3>5. PICK v \in {future[j], "keyboard"} : report[i] = FromWorker(j, v)
      BY <3>2, <3>4
    <3>6. report[i].warned = (v # "success" \/ j \in Warned)
      BY <3>5 DEF FromWorker
    <3>7. v = "success" /\ j \notin Warned
      BY <3>3, <3>6
    <3>8. QED
      BY <3>7
  <2>3. ASSUME exitCode \in {0, 1}, NEW j \in Job, future[j] \in {"failed", "exception"}
        PROVE  FALSE
    <3>1. "failed" \notin statuses /\ "interrupted" \notin statuses
      BY <2>1, <2>3 DEF ResultExitCode
    <3>2. PICK i \in DOMAIN report :
             \/ /\ future[j] \in S!Values
                /\ \E v \in {future[j], "keyboard"} : report[i] = FromWorker(j, v)
             \/ /\ j \notin S!Reported
                /\ report[i] = NotStarted(j)
      BY JobsRecorded
    <3>3. report[i].status \notin {"failed", "interrupted"}
      BY <3>1
    <3>4. j \notin S!Reported /\ report[i] = NotStarted(j)
      BY <2>3, <3>2, <3>3 DEF FromWorker
    <3>5. ~interrupted
      BY <3>3, <3>4 DEF NotStarted
    <3>6. QED
      BY <2>3, <3>4, <3>5, LeftOverNeverRan
  <2>4. ASSUME exitCode = 130 PROVE interrupts > 0
    <3>1. PICK i \in DOMAIN report : report[i].status = "interrupted"
      BY <2>1, <2>4 DEF ResultExitCode
    <3>2. Explained(report[i])
      BY <2>1 DEF Complete
    <3>3. ASSUME NEW k \in DOMAIN results,
                 report[i] = FromWorker(results[k][1], results[k][2])
          PROVE  interruptEvt
      <4>1. results[k][2] = "interrupted"
        BY <3>1, <3>3 DEF FromWorker
      <4>2. results[k][1] \in Job /\ future[results[k][1]] = "interrupted"
        BY <2>1, <4>1, ResultsAre
      <4>3. QED
        BY <2>1, <4>2, SameJob DEF SInv, P!RInv, P!Causes
    <3>4. ASSUME NEW k \in Job, report[i] = NotStarted(k) PROVE interrupted
      BY <3>1, <3>4 DEF NotStarted
    <3>5. interrupted \/ interruptEvt
      BY <3>2, <3>3, <3>4 DEF Explained
    <3>6. QED
      BY <2>1, <3>5 DEF SInv, P!RInv, P!Causes
  <2>5. QED
    BY <2>2, <2>3, <2>4 DEF ExitCodeTruthful
<1>2. QED
  BY <1>1, Invariance, PTL

(* A job recorded as skipped "due to --fail-fast" never reached a worker,   *)
(* and the records show a failure that stopped the run.                     *)
THEOREM SkippedNeverStarted == Spec => []SkippedNeverRan
<1>1. Inv => SkippedNeverRan
  <2> SUFFICES ASSUME Inv, NEW i \in DOMAIN report, ~report[i].started,
                      report[i].status = "skipped"
               PROVE  /\ future[report[i].job] = "none"
                      /\ \E k \in DOMAIN report : report[k].status = "failed"
    BY DEF SkippedNeverRan
  <2>1. Written
    BY DEF Written
  <2>2. Complete(report) /\ SInv
    BY <2>1 DEF Inv, AsReported
  <2>3. Explained(report[i])
    BY <2>2 DEF Complete
  <2>4. PICK j \in Job \ S!Reported : report[i] = NotStarted(j)
    BY <2>3 DEF Explained, FromWorker
  <2>5. ~interrupted /\ report[i].job = j
    BY <2>4 DEF NotStarted
  <2>6. future[j] = "none" /\ stop
    BY <2>1, <2>4, <2>5, LeftOverNeverRan
  <2>7. PICK k \in DOMAIN results : results[k][2] \in {"failed", "exception", "keyboard"}
    <3>1. P!FatalReported
      BY <2>2, <2>5, <2>6, RunnerAssumption DEF SInv, P!RInv, P!Causes
    <3>2. QED
      BY <3>1 DEF P!FatalReported, P!Fatal
  <2>8. results[k][1] \in Job /\ results[k][1] \in S!Reported
    BY <2>2, ResultsAre
  <2>9. PICK n \in DOMAIN report : report[n].job = results[k][1]
    BY <2>2, <2>8 DEF Complete
  <2>10. Explained(report[n])
    BY <2>2 DEF Complete
  <2>11. report[n] = FromWorker(results[k][1], results[k][2])
    <3>1. ASSUME NEW m \in DOMAIN results,
                 report[n] = FromWorker(results[m][1], results[m][2])
          PROVE  m = k
      <4>1. results[m][1] = results[k][1]
        BY <2>9, <3>1 DEF FromWorker
      <4>2. QED
        BY <2>2, <4>1, ResultsAre
    <3>2. ASSUME NEW m \in Job \ S!Reported, report[n] = NotStarted(m) PROVE FALSE
      BY <2>8, <2>9, <3>2 DEF NotStarted
    <3>3. QED
      BY <2>10, <3>1, <3>2 DEF Explained
  <2>12. report[n].status = "failed"
    BY <2>7, <2>11 DEF FromWorker
  <2>13. QED
    BY <2>5, <2>6, <2>12
<1>2. QED
  BY <1>1, Invariance, PTL
=============================================================================
