--------------------------- MODULE SchedulerProofs ---------------------------
(***************************************************************************)
(* What holds of every run of the scheduler, for every number of jobs,     *)
(* every cost, every budget and any number of interruptions.               *)
(***************************************************************************)
EXTENDS Scheduler, FiniteSetTheorems, TLAPS

(* Facts about the cost of a set of jobs, for every token function.         *)
LEMMA JobFinite == IsFiniteSet(Job)
  BY FS_Interval, ResourcesAssumption DEF Job

(* One job costs its tokens.                                                *)
LEMMA UnitsOfOne ==
  ASSUME NEW tokens \in [Job -> Nat \ {0}], NEW j \in Job
  PROVE  /\ IsFiniteSet({j} \X (1..tokens[j]))
         /\ Cardinality({j} \X (1..tokens[j])) = tokens[j]
<1>1. IsFiniteSet({j}) /\ Cardinality({j}) = 1
  BY FS_Singleton
<1>2. tokens[j] \in Nat /\ tokens[j] > 0
  OBVIOUS
<1>3. IsFiniteSet(1..tokens[j]) /\ Cardinality(1..tokens[j]) = tokens[j]
  BY <1>2, FS_Interval
<1>4. /\ IsFiniteSet({j} \X (1..tokens[j]))
      /\ Cardinality({j} \X (1..tokens[j])) = Cardinality({j}) * Cardinality(1..tokens[j])
  BY <1>1, <1>3, FS_Product, Zenon
<1>5. 1 * tokens[j] = tokens[j]
  BY <1>2
<1>6. QED
  BY <1>1, <1>3, <1>4, <1>5, Zenon

(* The empty set costs nothing.                                             *)
LEMMA CostOfNone ==
  ASSUME NEW tokens
  PROVE  IsFiniteSet(Units(tokens, {})) /\ Cost(tokens, {}) = 0
<1>1. Units(tokens, {}) = {}
  BY DEF Units
<1>2. QED
  BY <1>1, FS_EmptySet DEF Cost

(* A job that joins a set adds its tokens to the cost.                      *)
LEMMA CostOfMore ==
  ASSUME NEW tokens \in [Job -> Nat \ {0}], NEW S \in SUBSET Job,
         IsFiniteSet(Units(tokens, S)), NEW j \in Job, j \notin S
  PROVE  /\ IsFiniteSet(Units(tokens, S \union {j}))
         /\ Cost(tokens, S \union {j}) = Cost(tokens, S) + tokens[j]
<1> DEFINE U == {j} \X (1..tokens[j])
<1>1. Units(tokens, S \union {j}) = Units(tokens, S) \union U
  BY DEF Units
<1>2. Units(tokens, S) \intersect U = {}
  BY DEF Units
<1>3. IsFiniteSet(U) /\ Cardinality(U) = tokens[j]
  BY UnitsOfOne
<1>4. /\ IsFiniteSet(Units(tokens, S) \union U)
      /\ Cardinality(Units(tokens, S) \union U)
           = Cardinality(Units(tokens, S)) + Cardinality(U)
               - Cardinality(Units(tokens, S) \intersect U)
  BY <1>3, FS_Union
<1>5. Cardinality(Units(tokens, S) \intersect U) = 0
  BY <1>2, FS_EmptySet
<1>6. Cardinality(Units(tokens, S)) \in Nat /\ tokens[j] \in Nat
  BY FS_CardinalityType
<1>7. Cost(tokens, S \union {j}) = Cardinality(Units(tokens, S)) + tokens[j] - 0
  BY <1>1, <1>3, <1>4, <1>5, Zenon DEF Cost
<1>8. Cardinality(Units(tokens, S)) + tokens[j] - 0 = Cardinality(Units(tokens, S)) + tokens[j]
  BY <1>6
<1>9. IsFiniteSet(Units(tokens, S \union {j}))
  BY <1>1, <1>4, Zenon
<1>10. QED
  BY <1>7, <1>8, <1>9, Zenon DEF Cost

(* Part of a set costs no more than all of it.                              *)
LEMMA CostOfPart ==
  ASSUME NEW tokens, NEW S, IsFiniteSet(Units(tokens, S)), NEW T \in SUBSET S
  PROVE  /\ IsFiniteSet(Units(tokens, T))
         /\ Cost(tokens, T) \in Nat
         /\ Cost(tokens, T) =< Cost(tokens, S)
<1>1. Units(tokens, T) \subseteq Units(tokens, S)
  BY DEF Units
<1>2. /\ IsFiniteSet(Units(tokens, T))
      /\ Cardinality(Units(tokens, T)) =< Cardinality(Units(tokens, S))
  BY <1>1, FS_Subset
<1>3. Cardinality(Units(tokens, T)) \in Nat
  BY <1>2, FS_CardinalityType
<1>4. QED
  BY <1>2, <1>3 DEF Cost

(* A job that leaves a set takes its tokens with it.                        *)
LEMMA CostOfLess ==
  ASSUME NEW tokens \in [Job -> Nat \ {0}], NEW S \in SUBSET Job,
         IsFiniteSet(Units(tokens, S)), NEW j \in S
  PROVE  /\ IsFiniteSet(Units(tokens, S \ {j}))
         /\ Cost(tokens, S \ {j}) = Cost(tokens, S) - tokens[j]
         /\ Cost(tokens, S \ {j}) \in Nat
<1> DEFINE T == S \ {j}
<1>1. IsFiniteSet(Units(tokens, T)) /\ Cost(tokens, T) \in Nat
  BY CostOfPart, T \in SUBSET S
<1>2. T \in SUBSET Job /\ j \in Job /\ j \notin T /\ T \union {j} = S
  OBVIOUS
<1>3. Cost(tokens, T \union {j}) = Cost(tokens, T) + tokens[j]
  BY <1>1, <1>2, CostOfMore
<1>4. tokens[j] \in Nat
  BY <1>2
<1>5. QED
  BY <1>1, <1>2, <1>3, <1>4
-----------------------------------------------------------------------------
(* The types alone, without the bounds TypeOK puts on the counters.         *)
Types ==
    /\ pc \in PCs
    /\ pending \subseteq Job
    /\ aged \subseteq Job
    /\ selected \in Job \union {None}
    /\ running \subseteq Job
    /\ usedCpu \in Int
    /\ usedIo \in Int
    /\ completed \subseteq Job
    /\ current \in Job \union {None}
    /\ got \in Values \union {"none"}
    /\ future \in [Job -> Alive \union Values \union {"none"}]
    /\ results \in Seq(Job \X Values)
    /\ stop \in BOOLEAN
    /\ interruptEvt \in BOOLEAN
    /\ interrupted \in BOOLEAN
    /\ outcome \in Outcomes
    /\ interrupts \in 0..MaxInterrupts
    /\ held \subseteq Job

(* What the main thread is handling at each point.                          *)
AtWork ==
    /\ pc \in {"charge", "submit", "track", "notifyStart"} => selected \in Job
    /\ pc \in {"release", "result", "append", "notifyFinish"} =>
          current \in Job /\ Done(current)
    /\ pc \in {"append", "notifyFinish"} => got \in Values
    /\ \A j \in completed : Done(j)

(* No interruption has abandoned an iteration, or is about to.              *)
Undisturbed == ~interrupted /\ pc \notin InHandler \union {"drain", "ended"}

(* The life of a job in the ledger: still queued and not held, held while   *)
(* it is started, held as long as its future is queued or executing.        *)
Admission ==
    /\ interrupted => stop
    /\ pc = "interrupting" => interrupted
    /\ pc \in {"charge", "submit", "track"} => ~interrupted
    /\ \A j \in pending : future[j] = "none" /\ j \notin held
    /\ running \subseteq held
    /\ completed \subseteq running
    /\ AliveJobs \subseteq held
    /\ pc \in {"charge", "submit", "track"} =>
          selected \notin pending /\ Cardinality(running) < MaxProcesses
    /\ pc = "charge" =>
          future[selected] = "none" /\ selected \notin held /\ Fits(selected)
    /\ pc = "submit" =>
          future[selected] = "none" /\ selected \in held /\ selected \notin running
    /\ pc = "track" => selected \in held /\ selected \notin running
    /\ pc = "release" => current \in held /\ current \notin running
    /\ Undisturbed =>
          AliveJobs \subseteq running \union (IF pc = "track" THEN {selected} ELSE {})

(* The counters are the cost of the jobs held, and within the budgets.      *)
Ledger ==
    /\ IsFiniteSet(Units(CpuTokens, held))
    /\ IsFiniteSet(Units(IoTokens, held))
    /\ usedCpu = Cost(CpuTokens, held)
    /\ usedIo = Cost(IoTokens, held)
    /\ usedCpu =< CpuBudget
    /\ usedIo =< IoSlots

(* A future that is tracked or not done takes one of the processes.         *)
Processes == Cardinality(AliveJobs \union running) =< MaxProcesses

IInv == Types /\ AtWork /\ Admission /\ Ledger /\ Processes
-----------------------------------------------------------------------------
(* The types of the constants.                                              *)
LEMMA TypesOfTokens ==
  /\ CpuTokens \in [Job -> Nat \ {0}]
  /\ IoTokens \in [Job -> Nat \ {0}]
  /\ CpuBudget \in Nat /\ IoSlots \in Nat /\ MaxProcesses \in Nat
  /\ MaxInterrupts \in Nat
  /\ WorkerValues \subseteq Values
  BY ResourcesAssumption, SchedulerAssumption

(* The initial state satisfies the inductive invariant.                     *)
LEMMA InitIInv == Init => IInv
<1> SUFFICES ASSUME Init PROVE IInv
  OBVIOUS
<1>1. Types
  <2>1. results \in Seq(Job \X Values)
    BY DEF Init
  <2>2. interrupts \in 0..MaxInterrupts
    BY TypesOfTokens DEF Init
  <2>3. future \in [Job -> Alive \union Values \union {"none"}]
    BY DEF Init
  <2>4. pc \in PCs /\ outcome \in Outcomes
    BY DEF Init, PCs, InTry, InHandler, Outcomes
  <2>5. /\ pending \subseteq Job /\ aged \subseteq Job /\ running \subseteq Job
        /\ completed \subseteq Job /\ held \subseteq Job
    BY DEF Init
  <2>6. /\ selected \in Job \union {None} /\ current \in Job \union {None}
        /\ got \in Values \union {"none"}
    BY DEF Init
  <2>7. usedCpu \in Int /\ usedIo \in Int
    BY DEF Init
  <2>8. stop \in BOOLEAN /\ interruptEvt \in BOOLEAN /\ interrupted \in BOOLEAN
    BY DEF Init
  <2>9. QED
    BY <2>1, <2>2, <2>3, <2>4, <2>5, <2>6, <2>7, <2>8 DEF Types
<1>2. AtWork /\ AliveJobs = {}
  BY DEF Init, AtWork, AliveJobs, Alive
<1>3. Admission
  BY <1>2 DEF Init, Admission
<1>4. Ledger
  BY CostOfNone, TypesOfTokens DEF Init, Ledger
<1>5. Processes
  <2>1. AliveJobs \union running = {}
    BY <1>2 DEF Init
  <2>2. QED
    BY <2>1, FS_EmptySet, TypesOfTokens DEF Processes
<1>6. QED
  BY <1>1, <1>2, <1>3, <1>4, <1>5 DEF IInv
-----------------------------------------------------------------------------
(* Every step keeps the types.                                              *)
LEMMA NextTypes ==
  ASSUME Types, AtWork, [Next]_vars
  PROVE  Types'
<1> USE TypesOfTokens
<1>1. CASE Loop
  BY <1>1 DEF Loop, Goto, Types, PCs, InTry, InHandler, Outcomes, queue, ledger,
     collect, flags, ending
<1>2. CASE LoopDone
  BY <1>2 DEF LoopDone, Goto, Types, PCs, InTry, InHandler, Outcomes, queue, ledger,
     collect, flags, ending
<1>3. ASSUME NEW j \in pending, Select(j) PROVE Types'
  BY <1>3 DEF Select, Goto, Types, PCs, InTry, InHandler, Outcomes, queue, ledger,
     collect, flags, ending
<1>4. CASE Charge
  BY <1>4 DEF Charge, AtWork, Goto, Types, PCs, InTry, InHandler, Outcomes, queue,
     ledger, collect, flags, ending
<1>5. CASE Submit
  BY <1>5 DEF Submit, Alive, AtWork, Goto, Types, PCs, InTry, InHandler, Outcomes,
     queue, ledger, collect, flags, ending
<1>6. CASE Track
  BY <1>6 DEF Track, AtWork, Goto, Types, PCs, InTry, InHandler, Outcomes, queue,
     ledger, collect, flags, ending
<1>7. CASE NotifyStart
  BY <1>7 DEF NotifyStart, None, Goto, Types, PCs, InTry, InHandler, Outcomes, queue,
     ledger, collect, flags, ending
<1>8. CASE StopStarting
  BY <1>8 DEF StopStarting, Goto, Types, PCs, InTry, InHandler, Outcomes, queue, ledger,
     collect, flags, ending
<1>9. CASE Idle
  BY <1>9 DEF Idle, Goto, Types, PCs, InTry, InHandler, Outcomes, queue, ledger,
     collect, flags, ending
<1>10. CASE StartWait
  BY <1>10 DEF StartWait, Goto, Types, PCs, InTry, InHandler, Outcomes, queue, ledger,
     collect, flags, ending
<1>11. CASE Wait
  BY <1>11 DEF Wait, Goto, Types, PCs, InTry, InHandler, Outcomes, queue, ledger,
     collect, flags, ending
<1>12. ASSUME NEW j \in completed, PopCompleted(j) PROVE Types'
  BY <1>12 DEF PopCompleted, Goto, Types, PCs, InTry, InHandler, Outcomes, queue,
     ledger, collect, flags, ending
<1>13. CASE CollectDone
  BY <1>13 DEF CollectDone, Goto, Types, PCs, InTry, InHandler, Outcomes, queue, ledger,
     collect, flags, ending
<1>14. CASE Release
  BY <1>14 DEF Release, AtWork, Goto, Types, PCs, InTry, InHandler, Outcomes, queue,
     ledger, collect, flags, ending
<1>15. CASE GetResult
  BY <1>15 DEF GetResult, AtWork, Done, Goto, Types, PCs, InTry, InHandler, Outcomes,
     queue, ledger, collect, flags, ending
<1>16. CASE AppendResult
  BY <1>16 DEF AppendResult, AtWork, Goto, Types, PCs, InTry, InHandler, Outcomes,
     queue, ledger, collect, flags, ending
<1>17. CASE NotifyFinish
  BY <1>17 DEF NotifyFinish, None, Goto, Types, PCs, InTry, InHandler, Outcomes, queue,
     ledger, collect, flags, ending
<1>18. CASE CallbackRaises
  BY <1>18 DEF CallbackRaises, Goto, Types, PCs, InTry, InHandler, Outcomes, queue,
     ledger, collect, flags, ending
<1>19. CASE Handle
  BY <1>19 DEF Handle, Goto, Types, PCs, InTry, InHandler, Outcomes, queue, ledger,
     collect, flags, ending
<1>20. CASE CallInterrupt
  BY <1>20 DEF CallInterrupt, Goto, Types, PCs, InTry, InHandler, Outcomes, queue,
     ledger, collect, flags, ending
<1>21. CASE Drain
  BY <1>21 DEF Drain, Goto, Types, PCs, InTry, InHandler, Outcomes, queue, ledger,
     collect, flags, ending
<1>22. CASE InterruptInTry
  BY <1>22 DEF InterruptInTry, CanInterrupt, None, Goto, Types, PCs, InTry, InHandler,
     Outcomes, queue, ledger, collect, flags, ending
<1>23. CASE InterruptInResult
  BY <1>23 DEF InterruptInResult, CanInterrupt, Values, Goto, Types, PCs, InTry,
     InHandler, Outcomes, queue, ledger, collect, flags, ending
<1>24. CASE InterruptOutsideTry
  BY <1>24 DEF InterruptOutsideTry, CanInterrupt, Goto, Types, PCs, InTry, InHandler,
     Outcomes, queue, ledger, collect, flags, ending
<1>25. CASE InterruptInDrain
  BY <1>25 DEF InterruptInDrain, CanInterrupt, Goto, Types, PCs, InTry, InHandler,
     Outcomes, queue, ledger, collect, flags, ending
<1>26. CASE Stop
  BY <1>26 DEF Stop, Goto, Types, PCs, InTry, InHandler, Outcomes, queue, ledger,
     collect, flags, ending
<1>27. ASSUME NEW j \in Job, WorkerStart(j) PROVE Types'
  BY <1>27 DEF WorkerStart, Alive, Values, Goto, Types, PCs, InTry, InHandler, Outcomes,
     queue, ledger, collect, flags, ending
<1>28. ASSUME NEW j \in Job, WorkerFinish(j) PROVE Types'
  BY <1>28 DEF WorkerFinish, Alive, Values, Goto, Types, PCs, InTry, InHandler,
     Outcomes, queue, ledger, collect, flags, ending
<1>29. ASSUME NEW j \in Job, Age(j) PROVE Types'
  BY <1>29 DEF Age, Goto, Types, PCs, InTry, InHandler, Outcomes, queue, ledger,
     collect, flags, ending
<1>30. CASE UNCHANGED vars
  BY <1>30 DEF vars, Goto, Types, PCs, InTry, InHandler, Outcomes, queue, ledger,
     collect, flags, ending
<1>31. QED
  BY <1>1, <1>2, <1>3, <1>4, <1>5, <1>6, <1>7, <1>8, <1>9, <1>10, <1>11, <1>12, <1>13,
     <1>14, <1>15, <1>16, <1>17, <1>18, <1>19, <1>20, <1>21, <1>22, <1>23, <1>24, <1>25,
     <1>26, <1>27, <1>28, <1>29, <1>30 DEF Next, Main, Interrupt, Worker, Ended
-----------------------------------------------------------------------------
(* Every step keeps what the main thread is handling in hand.               *)
LEMMA NextAtWork ==
  ASSUME Types, AtWork, Admission, [Next]_vars
  PROVE  AtWork'
<1> USE TypesOfTokens DEF Types, AtWork, Done, Goto, queue, ledger, collect, flags, ending
<1>1. CASE Loop
  BY <1>1 DEF Loop
<1>2. CASE LoopDone
  BY <1>2 DEF LoopDone
<1>3. ASSUME NEW j \in pending, Select(j) PROVE AtWork'
  BY <1>3 DEF Select
<1>4. CASE Charge
  BY <1>4 DEF Charge
<1>5. CASE Submit
  BY <1>5 DEF Submit, Values, Alive, Admission
<1>6. CASE Track
  BY <1>6 DEF Track
<1>7. CASE NotifyStart
  BY <1>7 DEF NotifyStart
<1>8. CASE StopStarting
  BY <1>8 DEF StopStarting
<1>9. CASE Idle
  BY <1>9 DEF Idle
<1>10. CASE StartWait
  BY <1>10 DEF StartWait
<1>11. CASE Wait
  BY <1>11 DEF Wait
<1>12. ASSUME NEW j \in completed, PopCompleted(j) PROVE AtWork'
  BY <1>12 DEF PopCompleted
<1>13. CASE CollectDone
  BY <1>13 DEF CollectDone
<1>14. CASE Release
  BY <1>14 DEF Release
<1>15. CASE GetResult
  BY <1>15 DEF GetResult
<1>16. CASE AppendResult
  BY <1>16 DEF AppendResult
<1>17. CASE NotifyFinish
  BY <1>17 DEF NotifyFinish
<1>18. CASE CallbackRaises
  BY <1>18 DEF CallbackRaises
<1>19. CASE Handle
  BY <1>19 DEF Handle
<1>20. CASE CallInterrupt
  BY <1>20 DEF CallInterrupt
<1>21. CASE Drain
  BY <1>21 DEF Drain
<1>22. CASE InterruptInTry
  BY <1>22 DEF InterruptInTry
<1>23. CASE InterruptInResult
  BY <1>23 DEF InterruptInResult, Values
<1>24. CASE InterruptOutsideTry
  BY <1>24 DEF InterruptOutsideTry
<1>25. CASE InterruptInDrain
  BY <1>25 DEF InterruptInDrain
<1>26. CASE Stop
  BY <1>26 DEF Stop
<1>27. ASSUME NEW j \in Job, WorkerStart(j) PROVE AtWork'
  BY <1>27 DEF WorkerStart, Alive, Values
<1>28. ASSUME NEW j \in Job, WorkerFinish(j) PROVE AtWork'
  BY <1>28 DEF WorkerFinish, Alive, Values
<1>29. ASSUME NEW j \in Job, Age(j) PROVE AtWork'
  BY <1>29 DEF Age
<1>30. CASE UNCHANGED vars
  BY <1>30 DEF vars
<1>31. QED
  BY <1>1, <1>2, <1>3, <1>4, <1>5, <1>6, <1>7, <1>8, <1>9, <1>10, <1>11, <1>12, <1>13,
     <1>14, <1>15, <1>16, <1>17, <1>18, <1>19, <1>20, <1>21, <1>22, <1>23, <1>24, <1>25,
     <1>26, <1>27, <1>28, <1>29, <1>30 DEF Next, Main, Interrupt, Worker, Ended
-----------------------------------------------------------------------------
(* Every step keeps the ledger in step with the lives of the jobs.          *)
LEMMA NextAdmission ==
  ASSUME Types, AtWork, Admission, [Next]_vars
  PROVE  Admission'
<1> USE TypesOfTokens DEF Types, AtWork, Admission, Undisturbed, AliveJobs, Alive, Done,
                          Fits, Goto, InHandler, queue, ledger, collect, flags, ending
<1>1. CASE Loop
  BY <1>1 DEF Loop
<1>2. CASE LoopDone
  BY <1>2 DEF LoopDone
<1>3. ASSUME NEW j \in pending, Select(j) PROVE Admission'
  BY <1>3 DEF Select, Startable
<1>4. CASE Charge
  BY <1>4 DEF Charge
<1>5. CASE Submit
  BY <1>5 DEF Submit, Values
<1>6. CASE Track
  BY <1>6 DEF Track
<1>7. CASE NotifyStart
  BY <1>7 DEF NotifyStart
<1>8. CASE StopStarting
  BY <1>8 DEF StopStarting
<1>9. CASE Idle
  BY <1>9 DEF Idle
<1>10. CASE StartWait
  BY <1>10 DEF StartWait
<1>11. CASE Wait
  BY <1>11 DEF Wait
<1>12. ASSUME NEW j \in completed, PopCompleted(j) PROVE Admission'
  BY <1>12 DEF PopCompleted, Values
<1>13. CASE CollectDone
  BY <1>13 DEF CollectDone
<1>14. CASE Release
  BY <1>14 DEF Release, Values
<1>15. CASE GetResult
  BY <1>15 DEF GetResult
<1>16. CASE AppendResult
  BY <1>16 DEF AppendResult
<1>17. CASE NotifyFinish
  BY <1>17 DEF NotifyFinish
<1>18. CASE CallbackRaises
  BY <1>18 DEF CallbackRaises
<1>19. CASE Handle
  BY <1>19 DEF Handle
<1>20. CASE CallInterrupt
  BY <1>20 DEF CallInterrupt
<1>21. CASE Drain
  BY <1>21 DEF Drain
<1>22. CASE InterruptInTry
  BY <1>22 DEF InterruptInTry, InTry
<1>23. CASE InterruptInResult
  BY <1>23 DEF InterruptInResult
<1>24. CASE InterruptOutsideTry
  BY <1>24 DEF InterruptOutsideTry
<1>25. CASE InterruptInDrain
  BY <1>25 DEF InterruptInDrain
<1>26. CASE Stop
  BY <1>26 DEF Stop
<1>27. ASSUME NEW j \in Job, WorkerStart(j) PROVE Admission'
  BY <1>27 DEF WorkerStart, Values
<1>28. ASSUME NEW j \in Job, WorkerFinish(j) PROVE Admission'
  BY <1>28 DEF WorkerFinish, Values
<1>29. ASSUME NEW j \in Job, Age(j) PROVE Admission'
  BY <1>29 DEF Age
<1>30. CASE UNCHANGED vars
  BY <1>30 DEF vars
<1>31. QED
  BY <1>1, <1>2, <1>3, <1>4, <1>5, <1>6, <1>7, <1>8, <1>9, <1>10, <1>11, <1>12, <1>13,
     <1>14, <1>15, <1>16, <1>17, <1>18, <1>19, <1>20, <1>21, <1>22, <1>23, <1>24, <1>25,
     <1>26, <1>27, <1>28, <1>29, <1>30 DEF Next, Main, Interrupt, Worker, Ended
-----------------------------------------------------------------------------
(* Every step keeps the counters equal to the cost of the jobs held.        *)
LEMMA NextLedger ==
  ASSUME Types, AtWork, Admission, Ledger, [Next]_vars
  PROVE  Ledger'
<1> USE TypesOfTokens
<1>1. CASE Charge
  <2>1. selected \in Job /\ selected \notin held /\ held \in SUBSET Job
    BY <1>1 DEF Charge, Goto, AtWork, Admission, Types
  <2>2. /\ IsFiniteSet(Units(CpuTokens, held \union {selected}))
        /\ Cost(CpuTokens, held \union {selected}) = Cost(CpuTokens, held) + CpuTokens[selected]
    BY <2>1, CostOfMore DEF Ledger
  <2>3. /\ IsFiniteSet(Units(IoTokens, held \union {selected}))
        /\ Cost(IoTokens, held \union {selected}) = Cost(IoTokens, held) + IoTokens[selected]
    BY <2>1, CostOfMore DEF Ledger
  <2>4. usedCpu + CpuTokens[selected] =< CpuBudget /\ usedIo + IoTokens[selected] =< IoSlots
    BY <1>1 DEF Charge, Goto, Admission, Fits
  <2>5. QED
    BY <1>1, <2>2, <2>3, <2>4 DEF Charge, Ledger
<1>2. CASE Release
  <2>1. current \in held /\ held \in SUBSET Job
    BY <1>2 DEF Release, Goto, Admission, Types
  <2>2. /\ IsFiniteSet(Units(CpuTokens, held \ {current}))
        /\ Cost(CpuTokens, held \ {current}) = Cost(CpuTokens, held) - CpuTokens[current]
    BY <2>1, CostOfLess DEF Ledger
  <2>3. /\ IsFiniteSet(Units(IoTokens, held \ {current}))
        /\ Cost(IoTokens, held \ {current}) = Cost(IoTokens, held) - IoTokens[current]
    BY <2>1, CostOfLess DEF Ledger
  <2>4. CpuTokens[current] \in Nat /\ IoTokens[current] \in Nat
    BY <2>1
  <2>5. usedCpu \in Int /\ usedIo \in Int
    BY DEF Types
  <2>6. QED
    BY <1>2, <2>2, <2>3, <2>4, <2>5 DEF Release, Ledger
<1>3. ASSUME UNCHANGED <<usedCpu, usedIo, held>> PROVE Ledger'
  BY <1>3 DEF Ledger
<1>4. Charge \/ Release \/ UNCHANGED <<usedCpu, usedIo, held>>
  BY DEF Next, Main, Interrupt, Worker, Ended, Loop, LoopDone, Select, Submit, Track,
         NotifyStart, StopStarting, Idle, StartWait, Wait, PopCompleted, CollectDone,
         GetResult, AppendResult, NotifyFinish, CallbackRaises, Handle, CallInterrupt,
         Drain, InterruptInTry, InterruptInResult, InterruptOutsideTry,
         InterruptInDrain, Stop, WorkerStart, WorkerFinish, Age, vars, ledger
<1>5. QED
  BY <1>1, <1>2, <1>3, <1>4
-----------------------------------------------------------------------------
(* Every step keeps the number of processes within its budget.              *)
LEMMA NextProcesses ==
  ASSUME Types, AtWork, Admission, Processes, [Next]_vars
  PROVE  Processes'
<1> USE TypesOfTokens
<1> DEFINE Occupied == AliveJobs \union running
<1>1. IsFiniteSet(Occupied) /\ IsFiniteSet(running) /\ Cardinality(running) \in Nat
  <2>1. Occupied \in SUBSET Job /\ running \in SUBSET Job
    BY DEF AliveJobs, Types
  <2>2. QED
    BY <2>1, JobFinite, FS_Subset, FS_CardinalityType
<1>2. ASSUME Occupied' \subseteq Occupied PROVE Processes'
  <2>1. Cardinality(Occupied') =< Cardinality(Occupied)
    BY <1>1, <1>2, FS_Subset
  <2>2. IsFiniteSet(Occupied')
    BY <1>1, <1>2, FS_Subset
  <2>3. Cardinality(Occupied) \in Nat /\ Cardinality(Occupied') \in Nat
    BY <1>1, <2>2, FS_CardinalityType
  <2>4. QED
    BY <2>1, <2>3 DEF Processes
<1>3. ASSUME Occupied' \subseteq running \union {selected},
             Cardinality(running) < MaxProcesses
      PROVE  Processes'
  <2>1. /\ IsFiniteSet(running \union {selected})
        /\ Cardinality(running \union {selected}) =< Cardinality(running) + 1
    BY <1>1, FS_AddElement
  <2>2. /\ IsFiniteSet(Occupied')
        /\ Cardinality(Occupied') =< Cardinality(running \union {selected})
    BY <1>3, <2>1, FS_Subset
  <2>3. /\ Cardinality(Occupied') \in Nat
        /\ Cardinality(running \union {selected}) \in Nat
    BY <2>1, <2>2, FS_CardinalityType
  <2>4. QED
    BY <1>1, <1>3, <2>1, <2>2, <2>3 DEF Processes
<1>4. CASE Submit
  <2>1. AliveJobs \subseteq running /\ Cardinality(running) < MaxProcesses
    BY <1>4 DEF Submit, Goto, Admission, Undisturbed, InHandler
  <2>2. Occupied' \subseteq running \union {selected}
    BY <1>4, <2>1 DEF Submit, ledger, AliveJobs, Types
  <2>3. QED
    BY <1>3, <2>1, <2>2
<1>5. CASE Track
  <2>1. AliveJobs \subseteq running \union {selected} /\ Cardinality(running) < MaxProcesses
    BY <1>5 DEF Track, Goto, Admission, Undisturbed, InHandler
  <2>2. Occupied' \subseteq running \union {selected}
    BY <1>5, <2>1 DEF Track, AliveJobs
  <2>3. QED
    BY <1>3, <2>1, <2>2
<1>6. ASSUME NEW j \in completed, PopCompleted(j) PROVE Processes'
  BY <1>2, <1>6 DEF PopCompleted, AliveJobs
<1>7. ASSUME NEW j \in Job, WorkerStart(j) \/ WorkerFinish(j) PROVE Processes'
  <2>1. AliveJobs' \subseteq AliveJobs
    BY <1>7 DEF WorkerStart, WorkerFinish, AliveJobs, Alive, Types
  <2>2. running' = running
    BY <1>7 DEF WorkerStart, WorkerFinish, ledger
  <2>3. QED
    BY <1>2, <2>1, <2>2
<1>8. CASE UNCHANGED <<future, running>>
  BY <1>2, <1>8 DEF AliveJobs
<1>9. \/ Submit \/ Track \/ (\E j \in completed : PopCompleted(j))
      \/ (\E j \in Job : WorkerStart(j) \/ WorkerFinish(j)) \/ UNCHANGED <<future, running>>
  BY DEF Next, Main, Interrupt, Worker, Ended, Loop, LoopDone, Select, Charge,
         NotifyStart, StopStarting, Idle, StartWait, Wait, CollectDone, Release,
         GetResult, AppendResult, NotifyFinish, CallbackRaises, Handle, CallInterrupt,
         Drain, InterruptInTry, InterruptInResult, InterruptOutsideTry,
         InterruptInDrain, Stop, Age, vars, ledger
<1>10. QED
  BY <1>4, <1>5, <1>6, <1>7, <1>8, <1>9
-----------------------------------------------------------------------------
(* The invariant is inductive, hence holds in every reachable state.        *)
LEMMA NextIInv == IInv /\ [Next]_vars => IInv'
  BY NextTypes, NextAtWork, NextAdmission, NextLedger, NextProcesses DEF IInv

(* The inductive invariant holds in every reachable state.                  *)
LEMMA Invariance == Spec => []IInv
  BY InitIInv, NextIInv, PTL DEF Spec

(* Type correctness, with the counters never below zero and never above     *)
(* their budgets: at every moment, an interruption included, the tokens     *)
(* the scheduler has given out are within what it may give.                 *)
THEOREM TypeCorrect == Spec => []TypeOK
<1>1. IInv => TypeOK
  <2> SUFFICES ASSUME IInv PROVE TypeOK
    OBVIOUS
  <2>1. usedCpu \in Nat /\ usedIo \in Nat
    BY CostOfPart, held \in SUBSET held DEF IInv, Ledger
  <2>2. usedCpu \in 0..CpuBudget /\ usedIo \in 0..IoSlots
    BY <2>1, TypesOfTokens DEF IInv, Ledger
  <2>3. QED
    BY <2>2 DEF IInv, Types, TypeOK
<1>2. QED
  BY Invariance, <1>1, PTL

(* The jobs alive are all held, and the ledger of the held is within budget. *)
LEMMA InvBudgets == IInv => BudgetsRespected
<1> SUFFICES ASSUME IInv PROVE BudgetsRespected
  OBVIOUS
<1>1. AliveJobs \in SUBSET held
  BY DEF IInv, Admission
<1>2. Cost(CpuTokens, AliveJobs) \in Nat /\ Cost(CpuTokens, AliveJobs) =< Cost(CpuTokens, held)
  BY <1>1, CostOfPart DEF IInv, Ledger
<1>3. Cost(IoTokens, AliveJobs) \in Nat /\ Cost(IoTokens, AliveJobs) =< Cost(IoTokens, held)
  BY <1>1, CostOfPart DEF IInv, Ledger
<1>4. Cardinality(AliveJobs) =< MaxProcesses
  <2>1. AliveJobs \union running \in SUBSET Job
    BY DEF AliveJobs, IInv, Types
  <2>2. IsFiniteSet(AliveJobs \union running)
    BY <2>1, JobFinite, FS_Subset
  <2>3. /\ IsFiniteSet(AliveJobs)
        /\ Cardinality(AliveJobs) =< Cardinality(AliveJobs \union running)
    BY <2>2, FS_Subset
  <2>4. Cardinality(AliveJobs) \in Nat /\ Cardinality(AliveJobs \union running) \in Nat
    BY <2>2, <2>3, FS_CardinalityType
  <2>5. QED
    BY <2>3, <2>4, TypesOfTokens DEF IInv, Processes
<1>5. usedCpu \in Int /\ usedIo \in Int
  BY DEF IInv, Types
<1>6. QED
  BY <1>2, <1>3, <1>4, <1>5, TypesOfTokens DEF IInv, Ledger, BudgetsRespected, WithinBudgets

(* The three resource limits: for every set of jobs, every cost and every   *)
(* interleaving of workers, interruptions and stops, the jobs queued or     *)
(* executing in the pool are together within cpu_budget, io_slots and       *)
(* max_processes.                                                           *)
THEOREM BudgetSafety == Spec => []BudgetsRespected
  BY Invariance, InvBudgets, PTL
-----------------------------------------------------------------------------
(* The scheduler implements JobLifecycle, whatever its constants are: each   *)
(* step of run() starts one job within the budgets, ends one, or changes    *)
(* nothing that JobLifecycle speaks of.                                     *)

(* A job is in the abstract phase "running" while its future is not done.   *)
LEMMA RunningIsAlive ==
  ASSUME Types
  PROVE  /\ Lifecycle!InPhase("running") = AliveJobs
         /\ \A j \in Job : Phase[j] = "waiting" <=> future[j] = "none"
  BY DEF Lifecycle!InPhase, Phase, AliveJobs, Alive, Types

(* Submitting a job is its abstract start.                                  *)
LEMMA SubmitStarts ==
  ASSUME Types, AtWork, Admission, BudgetsRespected', Submit
  PROVE  Lifecycle!Start(selected)
<1>1. selected \in Job /\ future[selected] = "none"
  BY DEF Submit, Goto, AtWork, Admission
<1>2. AliveJobs' = AliveJobs \union {selected}
  BY <1>1 DEF Submit, AliveJobs, Alive, Types
<1>3. WithinBudgets(AliveJobs \union {selected})
  BY <1>2 DEF BudgetsRespected
<1>4. Phase' = [Phase EXCEPT ![selected] = "running"]
  BY <1>1 DEF Submit, Phase, Alive, Types
<1>5. QED
  BY <1>1, <1>3, <1>4, RunningIsAlive DEF Lifecycle!Start

(* A step that leaves the futures alone is no abstract step at all, and a   *)
(* worker either ends its job or only goes from queued to executing.        *)
LEMMA WorkerFinishes ==
  ASSUME Types, NEW j \in Job, Worker(j)
  PROVE  Lifecycle!Finish(j) \/ Phase' = Phase
<1> USE TypesOfTokens DEF Types, Phase, Alive, Values
<1>1. CASE WorkerStart(j) /\ ~interruptEvt
  BY <1>1 DEF WorkerStart
<1>2. CASE WorkerStart(j) /\ interruptEvt
  BY <1>2 DEF WorkerStart, Lifecycle!Finish
<1>3. CASE WorkerFinish(j)
  <2>1. PICK v \in Values : future' = [future EXCEPT ![j] = v]
    BY <1>3 DEF WorkerFinish
  <2>2. Phase[j] = "running"
    BY <1>3 DEF WorkerFinish
  <2>3. Phase' = [Phase EXCEPT ![j] = "finished"]
    BY <2>1
  <2>4. QED
    BY <2>2, <2>3 DEF Lifecycle!Finish
<1>4. QED
  BY <1>1, <1>2, <1>3 DEF Worker

(* Every step of the scheduler is a step of JobLifecycle or a stutter.      *)
LEMMA StepSimulation ==
  ASSUME IInv, BudgetsRespected', [Next]_vars
  PROVE  [Lifecycle!Next]_Phase
<1>1. CASE Submit
  BY <1>1, SubmitStarts DEF IInv, AtWork, Submit, Goto, Lifecycle!Next
<1>2. ASSUME NEW j \in Job, Worker(j) PROVE [Lifecycle!Next]_Phase
  BY <1>2, WorkerFinishes DEF IInv, Lifecycle!Next
<1>3. CASE UNCHANGED future
  BY <1>3 DEF Phase
<1>4. Submit \/ (\E j \in Job : Worker(j)) \/ UNCHANGED future
  BY DEF Next, Main, Interrupt, Ended, Loop, LoopDone, Select, Charge, Track,
         NotifyStart, StopStarting, Idle, StartWait, Wait, PopCompleted, CollectDone,
         Release, GetResult, AppendResult, NotifyFinish, CallbackRaises, Handle,
         CallInterrupt, Drain, InterruptInTry, InterruptInResult, InterruptOutsideTry,
         InterruptInDrain, Stop, Age, vars
<1>5. QED
  BY <1>1, <1>2, <1>3, <1>4

(* Safety refinement: for every number of jobs, every cost and every        *)
(* interleaving, a job is started once and only while it fits the budgets   *)
(* together with all that have not ended, and ends at most once.  It is the *)
(* part of ImplementsLifecycle without fairness.                            *)
THEOREM SafetyRefinement == Spec => Lifecycle!SafetySpec
<1>1. Init => Lifecycle!Init
  BY DEF Init, Lifecycle!Init, Phase
<1>2. IInv /\ BudgetsRespected' /\ [Next]_vars => [Lifecycle!Next]_Phase
  BY StepSimulation
<1>3. QED
  BY <1>1, <1>2, Invariance, BudgetSafety, PTL DEF Spec, Lifecycle!SafetySpec
=============================================================================
