------------------------ MODULE SchedulerReportProofs ------------------------
(***************************************************************************)
(* What the scheduler reports: every job at most once, with what its       *)
(* worker returned, all of them when nothing interrupted the run, and no   *)
(* job started after a result or an interruption that stops it. Then in    *)
(* which order it takes jobs from its queue, and when it gives up: the     *)
(* queue is strictly ordered, so that it has a head; nothing overtakes an  *)
(* aged head or a job that needs no more; and when nothing runs and        *)
(* nothing starts, the head is larger than a budget.                       *)
(***************************************************************************)
EXTENDS SchedulerProofs, SequenceTheorems, WellFoundedInduction

(* Reported jobs are done and gone from `running'; the job being admitted   *)
(* and the one being collected are not reported yet.                        *)
Reporting ==
    /\ ResultsFaithful
    /\ Reported \intersect running = {}
    /\ pc \in {"charge", "submit", "track"} => selected \notin Reported
    /\ pc \in {"release", "result", "append"} => current \notin Reported \union running
    /\ pc = "append" => got \in {future[current], "keyboard"}

(* Until something interrupts it, the iteration knows where every job is:   *)
(* queued, in hand, tracked or reported.                                    *)
Admitting == IF pc \in {"charge", "submit", "track"} THEN {selected} ELSE {}
Collecting == IF pc \in {"release", "result", "append"} THEN {current} ELSE {}

Settled ==
    /\ Undisturbed =>
          \A j \in Job : j \in pending \union Admitting \union running
                               \union Collecting \union Reported
    /\ (pc \in {"drain", "ended"} /\ outcome = "return" /\ ~interrupted) =>
          /\ running = {}
          /\ \A j \in Job : j \in pending \union Reported
          /\ ~stop => pending = {}

(* The jobs held are the ones tracked and the one whose tokens the main     *)
(* thread has just taken or is about to give back.                          *)
Tracked ==
    Undisturbed =>
        held = running \union (IF pc \in {"submit", "track"} THEN {selected} ELSE {})
                       \union (IF pc = "release" THEN {current} ELSE {})

FatalReported == \E i \in DOMAIN results : Fatal(results[i][2])

(* A fatal result has set stop_event before the main thread is back at the  *)
(* admission of jobs.                                                       *)
Halting ==
    /\ pc \in {"charge", "submit", "track"} => ~FatalReported
    /\ FatalReported => \/ stop
                        \/ pc \in InHandler \union {"drain", "ended"}
                        \/ pc = "notifyFinish" /\ Fatal(got)

(* Why a flag is up or a future "interrupted": a fatal result was reported, *)
(* or Ctrl-C was delivered; and the pool is empty when run() has returned.  *)
Causes ==
    /\ pc = "notifyFinish" => \E i \in DOMAIN results : results[i][2] = got
    /\ stop => interrupted \/ ExternalStop \/ FatalReported
    /\ (interrupted \/ interruptEvt \/ pc \in InHandler) => interrupts > 0
    /\ \A j \in Job : future[j] = "interrupted" => interruptEvt
    /\ (pc = "ended" /\ outcome = "return") => AliveJobs = {}
-----------------------------------------------------------------------------
(* What appending a result does to the report.                              *)
LEMMA Appended ==
  ASSUME Types, AtWork, AppendResult
  PROVE  /\ DOMAIN results' = DOMAIN results \union {Len(results) + 1}
         /\ Len(results) + 1 \notin DOMAIN results
         /\ \A i \in DOMAIN results : results'[i] = results[i]
         /\ results'[Len(results) + 1] = <<current, got>>
         /\ Reported' = Reported \union {current}
<1>1. results \in Seq(Job \X Values) /\ results' = Append(results, <<current, got>>)
  BY DEF Types, AppendResult
<1>2. <<current, got>> \in Job \X Values
  BY DEF AppendResult, Goto, AtWork
<1>3. /\ DOMAIN results = 1..Len(results) /\ Len(results) \in Nat
      /\ DOMAIN results' = 1..Len(results) + 1
      /\ \A i \in 1..Len(results) : results'[i] = results[i]
      /\ results'[Len(results) + 1] = <<current, got>>
  BY <1>1, <1>2
<1>4. /\ DOMAIN results' = DOMAIN results \union {Len(results) + 1}
      /\ Len(results) + 1 \notin DOMAIN results
  BY <1>3
<1>5. Reported' = Reported \union {current}
  BY <1>3, <1>4 DEF Reported
<1>6. QED
  BY <1>3, <1>4, <1>5

(* Nothing but AppendResult touches the report.                             *)
LEMMA OnlyAppended ==
  ASSUME [Next]_vars
  PROVE  AppendResult \/ UNCHANGED results
  BY DEF Next, Main, Interrupt, Worker, Ended, Loop, LoopDone, Select, Charge, Submit,
         Track, NotifyStart, StopStarting, Idle, StartWait, Wait, PopCompleted,
         CollectDone, Release, GetResult, NotifyFinish, CallbackRaises, Handle,
         CallInterrupt, Drain, InterruptInTry, InterruptInResult, InterruptOutsideTry,
         InterruptInDrain, Stop, WorkerStart, WorkerFinish, Age, vars, collect

(* A future that is done keeps its value.                                   *)
LEMMA DoneIsStable ==
  ASSUME Types, AtWork, Admission, [Next]_vars
  PROVE  \A j \in Job : Done(j) => future'[j] = future[j]
<1> SUFFICES ASSUME NEW j \in Job, Done(j) PROVE future'[j] = future[j]
  OBVIOUS
<1>1. CASE Submit
  BY <1>1 DEF Submit, Goto, AtWork, Admission, Types, Done, Values
<1>2. ASSUME NEW k \in Job, Worker(k) PROVE future'[j] = future[j]
  BY <1>2 DEF Worker, WorkerStart, WorkerFinish, Types, Done, Values
<1>3. CASE UNCHANGED future
  BY <1>3 DEF Done
<1>4. Submit \/ (\E k \in Job : Worker(k)) \/ UNCHANGED future
  BY DEF Next, Main, Interrupt, Ended, Loop, LoopDone, Select, Charge, Track,
         NotifyStart, StopStarting, Idle, StartWait, Wait, PopCompleted, CollectDone,
         Release, GetResult, AppendResult, NotifyFinish, CallbackRaises, Handle,
         CallInterrupt, Drain, InterruptInTry, InterruptInResult, InterruptOutsideTry,
         InterruptInDrain, Stop, Age, vars
<1>5. QED
  BY <1>1, <1>2, <1>3, <1>4
-----------------------------------------------------------------------------
(* Every step keeps the report faithful.                                    *)
LEMMA NextFaithful ==
  ASSUME Types, AtWork, Admission, Reporting, [Next]_vars
  PROVE  ResultsFaithful'
<1>1. \A i \in DOMAIN results : results[i][1] \in Job /\ results[i][1] \in Reported
  <2>1. results \in Seq(Job \X Values)
    BY DEF Types
  <2>2. \A i \in DOMAIN results : results[i] \in Job \X Values
    BY <2>1
  <2>3. QED
    BY <2>2 DEF Reported
<1>2. \A i \in DOMAIN results :
         /\ future'[results[i][1]] \in Values
         /\ results[i][2] \in {future'[results[i][1]], "keyboard"}
  BY <1>1, DoneIsStable DEF Reporting, ResultsFaithful, Done
<1>3. CASE UNCHANGED results
  BY <1>2, <1>3 DEF Reporting, ResultsFaithful, Done
<1>4. CASE AppendResult
  <2>1. /\ pc = "append" /\ future' = future /\ current \in Job /\ Done(current)
        /\ current \notin Reported /\ got \in {future[current], "keyboard"}
    BY <1>4 DEF AppendResult, Goto, AtWork, Reporting
  <2>2. ASSUME NEW i \in DOMAIN results', NEW k \in DOMAIN results',
               results'[i][1] = results'[k][1]
        PROVE  i = k
    BY <1>1, <1>4, <2>1, <2>2, Appended DEF Reporting, ResultsFaithful
  <2>3. ASSUME NEW i \in DOMAIN results'
        PROVE  /\ future'[results'[i][1]] \in Values
               /\ results'[i][2] \in {future'[results'[i][1]], "keyboard"}
    <3>1. CASE i \in DOMAIN results
      BY <1>2, <1>4, <3>1, Appended DEF Done
    <3>2. CASE i = Len(results) + 1
      BY <1>4, <2>1, <3>2, Appended DEF Done
    <3>3. QED
      BY <1>4, <3>1, <3>2, Appended
  <2>4. QED
    BY <2>2, <2>3 DEF ResultsFaithful, Done
<1>5. QED
  BY <1>3, <1>4, OnlyAppended

(* Every step keeps reported jobs apart from those still in hand.           *)
LEMMA NextReporting ==
  ASSUME Types, AtWork, Admission, Reporting, [Next]_vars
  PROVE  Reporting'
<1>0. ResultsFaithful'
  BY NextFaithful
<1> USE <1>0, TypesOfTokens DEF Types, AtWork, Admission, Reporting, Reported, Done, Goto,
                                queue, ledger, collect, flags, ending
<1>1. CASE Loop
  BY <1>1 DEF Loop
<1>2. CASE LoopDone
  BY <1>2 DEF LoopDone
<1>3. ASSUME NEW j \in pending, Select(j) PROVE Reporting'
  <2>1. \A k \in Reported : Done(k)
    BY DEF ResultsFaithful
  <2>2. j \notin Reported
    BY <1>3, <2>1 DEF Values
  <2>3. Reported' = Reported
    BY <1>3 DEF Select
  <2>4. QED
    BY <1>3, <2>2, <2>3 DEF Select
<1>4. CASE Charge
  BY <1>4 DEF Charge
<1>5. CASE Submit
  BY <1>5 DEF Submit, Values
<1>6. CASE Track
  BY <1>6 DEF Track
<1>7. CASE NotifyStart
  BY <1>7 DEF NotifyStart
<1>8. CASE StopStarting
  BY <1>8 DEF StopStarting
<1>9. CASE Idle
  BY <1>9 DEF Idle
<1>10. CASE StartWait
  BY <1>10 DEF StartWait
<1>11. CASE Wait
  BY <1>11 DEF Wait
<1>12. ASSUME NEW j \in completed, PopCompleted(j) PROVE Reporting'
  BY <1>12 DEF PopCompleted
<1>13. CASE CollectDone
  BY <1>13 DEF CollectDone
<1>14. CASE Release
  BY <1>14 DEF Release
<1>15. CASE GetResult
  BY <1>15 DEF GetResult
<1>16. CASE AppendResult
  BY <1>16, Appended DEF AppendResult
<1>17. CASE NotifyFinish
  BY <1>17 DEF NotifyFinish
<1>18. CASE CallbackRaises
  BY <1>18 DEF CallbackRaises
<1>19. CASE Handle
  BY <1>19 DEF Handle
<1>20. CASE CallInterrupt
  BY <1>20 DEF CallInterrupt
<1>21. CASE Drain
  BY <1>21 DEF Drain
<1>22. CASE InterruptInTry
  BY <1>22 DEF InterruptInTry
<1>23. CASE InterruptInResult
  BY <1>23 DEF InterruptInResult
<1>24. CASE InterruptOutsideTry
  BY <1>24 DEF InterruptOutsideTry
<1>25. CASE InterruptInDrain
  BY <1>25 DEF InterruptInDrain
<1>26. CASE Stop
  BY <1>26 DEF Stop
<1>27. ASSUME NEW j \in Job, WorkerStart(j) PROVE Reporting'
  BY <1>27 DEF WorkerStart, Values, Alive
<1>28. ASSUME NEW j \in Job, WorkerFinish(j) PROVE Reporting'
  BY <1>28 DEF WorkerFinish, Values, Alive
<1>29. ASSUME NEW j \in Job, Age(j) PROVE Reporting'
  BY <1>29 DEF Age
<1>30. CASE UNCHANGED vars
  BY <1>30 DEF vars
<1>31. QED
  BY <1>1, <1>2, <1>3, <1>4, <1>5, <1>6, <1>7, <1>8, <1>9, <1>10, <1>11, <1>12, <1>13,
     <1>14, <1>15, <1>16, <1>17, <1>18, <1>19, <1>20, <1>21, <1>22, <1>23, <1>24, <1>25,
     <1>26, <1>27, <1>28, <1>29, <1>30 DEF Next, Main, Interrupt, Worker, Ended
-----------------------------------------------------------------------------
(* Every step keeps account of every job.                                   *)
LEMMA NextSettled ==
  ASSUME Types, AtWork, Admission, Settled, [Next]_vars
  PROVE  Settled'
<1> USE TypesOfTokens DEF Types, AtWork, Admission, Settled, Undisturbed, Admitting, Collecting,
                          Reported, InHandler, Goto, queue, ledger, collect, flags, ending
<1>1. CASE Loop
  BY <1>1 DEF Loop
<1>2. CASE LoopDone
  BY <1>2 DEF LoopDone
<1>3. ASSUME NEW j \in pending, Select(j) PROVE Settled'
  BY <1>3 DEF Select
<1>4. CASE Charge
  BY <1>4 DEF Charge
<1>5. CASE Submit
  BY <1>5 DEF Submit
<1>6. CASE Track
  BY <1>6 DEF Track
<1>7. CASE NotifyStart
  BY <1>7 DEF NotifyStart
<1>8. CASE StopStarting
  BY <1>8 DEF StopStarting
<1>9. CASE Idle
  BY <1>9 DEF Idle
<1>10. CASE StartWait
  BY <1>10 DEF StartWait
<1>11. CASE Wait
  BY <1>11 DEF Wait
<1>12. ASSUME NEW j \in completed, PopCompleted(j) PROVE Settled'
  BY <1>12 DEF PopCompleted
<1>13. CASE CollectDone
  BY <1>13 DEF CollectDone
<1>14. CASE Release
  BY <1>14 DEF Release
<1>15. CASE GetResult
  BY <1>15 DEF GetResult
<1>16. CASE AppendResult
  BY <1>16, Appended DEF AppendResult
<1>17. CASE NotifyFinish
  BY <1>17 DEF NotifyFinish
<1>18. CASE CallbackRaises
  BY <1>18 DEF CallbackRaises
<1>19. CASE Handle
  BY <1>19 DEF Handle
<1>20. CASE CallInterrupt
  BY <1>20 DEF CallInterrupt
<1>21. CASE Drain
  BY <1>21 DEF Drain
<1>22. CASE InterruptInTry
  BY <1>22 DEF InterruptInTry, InTry
<1>23. CASE InterruptInResult
  BY <1>23 DEF InterruptInResult
<1>24. CASE InterruptOutsideTry
  BY <1>24 DEF InterruptOutsideTry
<1>25. CASE InterruptInDrain
  BY <1>25 DEF InterruptInDrain
<1>26. CASE Stop
  BY <1>26 DEF Stop
<1>27. ASSUME NEW j \in Job, WorkerStart(j) PROVE Settled'
  BY <1>27 DEF WorkerStart
<1>28. ASSUME NEW j \in Job, WorkerFinish(j) PROVE Settled'
  BY <1>28 DEF WorkerFinish
<1>29. ASSUME NEW j \in Job, Age(j) PROVE Settled'
  BY <1>29 DEF Age
<1>30. CASE UNCHANGED vars
  BY <1>30 DEF vars
<1>31. QED
  BY <1>1, <1>2, <1>3, <1>4, <1>5, <1>6, <1>7, <1>8, <1>9, <1>10, <1>11, <1>12, <1>13,
     <1>14, <1>15, <1>16, <1>17, <1>18, <1>19, <1>20, <1>21, <1>22, <1>23, <1>24, <1>25,
     <1>26, <1>27, <1>28, <1>29, <1>30 DEF Next, Main, Interrupt, Worker, Ended
-----------------------------------------------------------------------------
(* Every step keeps the jobs held equal to those tracked or in hand.        *)
LEMMA NextTracked ==
  ASSUME Types, AtWork, Admission, Tracked, [Next]_vars
  PROVE  Tracked'
<1> USE TypesOfTokens DEF Types, AtWork, Admission, Tracked, Undisturbed, InHandler, Goto,
                          queue, ledger, collect, flags, ending
<1>1. CASE Loop
  BY <1>1 DEF Loop
<1>2. CASE LoopDone
  BY <1>2 DEF LoopDone
<1>3. ASSUME NEW j \in pending, Select(j) PROVE Tracked'
  BY <1>3 DEF Select
<1>4. CASE Charge
  BY <1>4 DEF Charge
<1>5. CASE Submit
  BY <1>5 DEF Submit
<1>6. CASE Track
  BY <1>6 DEF Track
<1>7. CASE NotifyStart
  BY <1>7 DEF NotifyStart
<1>8. CASE StopStarting
  BY <1>8 DEF StopStarting
<1>9. CASE Idle
  BY <1>9 DEF Idle
<1>10. CASE StartWait
  BY <1>10 DEF StartWait
<1>11. CASE Wait
  BY <1>11 DEF Wait
<1>12. ASSUME NEW j \in completed, PopCompleted(j) PROVE Tracked'
  BY <1>12 DEF PopCompleted
<1>13. CASE CollectDone
  BY <1>13 DEF CollectDone
<1>14. CASE Release
  BY <1>14 DEF Release
<1>15. CASE GetResult
  BY <1>15 DEF GetResult
<1>16. CASE AppendResult
  BY <1>16 DEF AppendResult
<1>17. CASE NotifyFinish
  BY <1>17 DEF NotifyFinish
<1>18. CASE CallbackRaises
  BY <1>18 DEF CallbackRaises
<1>19. CASE Handle
  BY <1>19 DEF Handle
<1>20. CASE CallInterrupt
  BY <1>20 DEF CallInterrupt
<1>21. CASE Drain
  BY <1>21 DEF Drain
<1>22. CASE InterruptInTry
  BY <1>22 DEF InterruptInTry, InTry
<1>23. CASE InterruptInResult
  BY <1>23 DEF InterruptInResult
<1>24. CASE InterruptOutsideTry
  BY <1>24 DEF InterruptOutsideTry
<1>25. CASE InterruptInDrain
  BY <1>25 DEF InterruptInDrain
<1>26. CASE Stop
  BY <1>26 DEF Stop
<1>27. ASSUME NEW j \in Job, WorkerStart(j) PROVE Tracked'
  BY <1>27 DEF WorkerStart
<1>28. ASSUME NEW j \in Job, WorkerFinish(j) PROVE Tracked'
  BY <1>28 DEF WorkerFinish
<1>29. ASSUME NEW j \in Job, Age(j) PROVE Tracked'
  BY <1>29 DEF Age
<1>30. CASE UNCHANGED vars
  BY <1>30 DEF vars
<1>31. QED
  BY <1>1, <1>2, <1>3, <1>4, <1>5, <1>6, <1>7, <1>8, <1>9, <1>10, <1>11, <1>12, <1>13,
     <1>14, <1>15, <1>16, <1>17, <1>18, <1>19, <1>20, <1>21, <1>22, <1>23, <1>24, <1>25,
     <1>26, <1>27, <1>28, <1>29, <1>30 DEF Next, Main, Interrupt, Worker, Ended
-----------------------------------------------------------------------------
(* Every step keeps admission closed behind a fatal result.                 *)
LEMMA NextHalting ==
  ASSUME Types, AtWork, Admission, Halting, [Next]_vars
  PROVE  Halting'
<1> USE TypesOfTokens DEF Types, AtWork, Admission, Halting, FatalReported, Fatal, InHandler,
                          Goto, queue, ledger, collect, flags, ending
<1>1. CASE Loop
  BY <1>1 DEF Loop
<1>2. CASE LoopDone
  BY <1>2 DEF LoopDone
<1>3. ASSUME NEW j \in pending, Select(j) PROVE Halting'
  BY <1>3 DEF Select
<1>4. CASE Charge
  BY <1>4 DEF Charge
<1>5. CASE Submit
  BY <1>5 DEF Submit
<1>6. CASE Track
  BY <1>6 DEF Track
<1>7. CASE NotifyStart
  BY <1>7 DEF NotifyStart
<1>8. CASE StopStarting
  BY <1>8 DEF StopStarting
<1>9. CASE Idle
  BY <1>9 DEF Idle
<1>10. CASE StartWait
  BY <1>10 DEF StartWait
<1>11. CASE Wait
  BY <1>11 DEF Wait
<1>12. ASSUME NEW j \in completed, PopCompleted(j) PROVE Halting'
  BY <1>12 DEF PopCompleted
<1>13. CASE CollectDone
  BY <1>13 DEF CollectDone
<1>14. CASE Release
  BY <1>14 DEF Release
<1>15. CASE GetResult
  BY <1>15 DEF GetResult
<1>16. CASE AppendResult
  BY <1>16, Appended DEF AppendResult
<1>17. CASE NotifyFinish
  BY <1>17 DEF NotifyFinish
<1>18. CASE CallbackRaises
  BY <1>18 DEF CallbackRaises
<1>19. CASE Handle
  BY <1>19 DEF Handle
<1>20. CASE CallInterrupt
  BY <1>20 DEF CallInterrupt
<1>21. CASE Drain
  BY <1>21 DEF Drain
<1>22. CASE InterruptInTry
  BY <1>22 DEF InterruptInTry, InTry
<1>23. CASE InterruptInResult
  BY <1>23 DEF InterruptInResult
<1>24. CASE InterruptOutsideTry
  BY <1>24 DEF InterruptOutsideTry
<1>25. CASE InterruptInDrain
  BY <1>25 DEF InterruptInDrain
<1>26. CASE Stop
  BY <1>26 DEF Stop
<1>27. ASSUME NEW j \in Job, WorkerStart(j) PROVE Halting'
  BY <1>27 DEF WorkerStart
<1>28. ASSUME NEW j \in Job, WorkerFinish(j) PROVE Halting'
  BY <1>28 DEF WorkerFinish
<1>29. ASSUME NEW j \in Job, Age(j) PROVE Halting'
  BY <1>29 DEF Age
<1>30. CASE UNCHANGED vars
  BY <1>30 DEF vars
<1>31. QED
  BY <1>1, <1>2, <1>3, <1>4, <1>5, <1>6, <1>7, <1>8, <1>9, <1>10, <1>11, <1>12, <1>13,
     <1>14, <1>15, <1>16, <1>17, <1>18, <1>19, <1>20, <1>21, <1>22, <1>23, <1>24, <1>25,
     <1>26, <1>27, <1>28, <1>29, <1>30 DEF Next, Main, Interrupt, Worker, Ended
-----------------------------------------------------------------------------
(* Every step keeps the reasons for what the flags and the futures say.     *)
LEMMA NextCauses ==
  ASSUME Types, AtWork, Admission, Causes, [Next]_vars
  PROVE  Causes'
<1> USE TypesOfTokens DEF Types, AtWork, Admission, Causes, FatalReported, Fatal, InHandler,
                          Goto, queue, ledger, collect, flags, ending
<1>1. CASE Loop
  BY <1>1 DEF Loop
<1>2. CASE LoopDone
  BY <1>2 DEF LoopDone
<1>3. ASSUME NEW j \in pending, Select(j) PROVE Causes'
  BY <1>3 DEF Select
<1>4. CASE Charge
  BY <1>4 DEF Charge
<1>5. CASE Submit
  BY <1>5 DEF Submit
<1>6. CASE Track
  BY <1>6 DEF Track
<1>7. CASE NotifyStart
  BY <1>7 DEF NotifyStart
<1>8. CASE StopStarting
  BY <1>8 DEF StopStarting
<1>9. CASE Idle
  BY <1>9 DEF Idle
<1>10. CASE StartWait
  BY <1>10 DEF StartWait
<1>11. CASE Wait
  BY <1>11 DEF Wait
<1>12. ASSUME NEW j \in completed, PopCompleted(j) PROVE Causes'
  BY <1>12 DEF PopCompleted
<1>13. CASE CollectDone
  BY <1>13 DEF CollectDone
<1>14. CASE Release
  BY <1>14 DEF Release
<1>15. CASE GetResult
  BY <1>15 DEF GetResult
<1>16. CASE AppendResult
  BY <1>16, Appended DEF AppendResult
<1>17. CASE NotifyFinish
  BY <1>17 DEF NotifyFinish
<1>18. CASE CallbackRaises
  BY <1>18 DEF CallbackRaises
<1>19. CASE Handle
  BY <1>19 DEF Handle
<1>20. CASE CallInterrupt
  BY <1>20 DEF CallInterrupt
<1>21. CASE Drain
  BY <1>21 DEF Drain, AliveJobs
<1>22. CASE InterruptInTry
  BY <1>22 DEF InterruptInTry, CanInterrupt
<1>23. CASE InterruptInResult
  BY <1>23 DEF InterruptInResult, CanInterrupt
<1>24. CASE InterruptOutsideTry
  BY <1>24 DEF InterruptOutsideTry, CanInterrupt
<1>25. CASE InterruptInDrain
  BY <1>25 DEF InterruptInDrain, CanInterrupt
<1>26. CASE Stop
  BY <1>26 DEF Stop
<1>27. ASSUME NEW j \in Job, WorkerStart(j) PROVE Causes'
  BY <1>27 DEF WorkerStart, AliveJobs, Alive, Values
<1>28. ASSUME NEW j \in Job, WorkerFinish(j) PROVE Causes'
  <2>1. interruptEvt' = interruptEvt /\ pc' = pc /\ results' = results /\ flags' = flags
        /\ outcome' = outcome /\ got' = got /\ interrupts' = interrupts
    BY <1>28 DEF WorkerFinish
  <2>2. \A k \in Job : future'[k] = "interrupted" => interruptEvt
    <3>1. "interrupted" \notin WorkerValues
      BY SchedulerAssumption
    <3>2. QED
      BY <1>28, <3>1 DEF WorkerFinish
  <2>3. j \in AliveJobs
    BY <1>28 DEF WorkerFinish, AliveJobs, Alive
  <2>4. QED
    BY <2>1, <2>2, <2>3
<1>29. ASSUME NEW j \in Job, Age(j) PROVE Causes'
  BY <1>29 DEF Age
<1>30. CASE UNCHANGED vars
  BY <1>30 DEF vars, AliveJobs
<1>31. QED
  BY <1>1, <1>2, <1>3, <1>4, <1>5, <1>6, <1>7, <1>8, <1>9, <1>10, <1>11, <1>12, <1>13,
     <1>14, <1>15, <1>16, <1>17, <1>18, <1>19, <1>20, <1>21, <1>22, <1>23, <1>24, <1>25,
     <1>26, <1>27, <1>28, <1>29, <1>30 DEF Next, Main, Interrupt, Worker, Ended
-----------------------------------------------------------------------------
RInv == Reporting /\ Settled /\ Tracked /\ Halting /\ Causes

(* The initial state satisfies these invariants.                            *)
LEMMA InitRInv == Init => RInv
<1> SUFFICES ASSUME Init PROVE RInv
  OBVIOUS
<1>1. DOMAIN results = {} /\ Reported = {}
  BY DEF Init, Reported
<1>2. Reporting /\ Halting
  BY <1>1 DEF Init, Reporting, ResultsFaithful, Halting, FatalReported
<1>3. Settled /\ Tracked
  BY DEF Init, Settled, Tracked
<1>4. Causes
  BY DEF Init, Causes, InHandler, Outcomes
<1>5. QED
  BY <1>2, <1>3, <1>4 DEF RInv

(* Every step keeps them.                                                   *)
LEMMA NextRInv == IInv /\ RInv /\ [Next]_vars => RInv'
  BY NextReporting, NextSettled, NextTracked, NextHalting, NextCauses DEF IInv, RInv

(* The five invariants hold in every reachable state.                       *)
LEMMA ReportInvariance == Spec => [](IInv /\ RInv)
  BY Invariance, InitRInv, NextRInv, PTL DEF Spec

(* The counters agree with the jobs in `running' whenever fits() reads      *)
(* them, unless an interruption abandoned an iteration: for every set of    *)
(* jobs no token is lost and none is returned twice.                        *)
THEOREM LedgerFaithful == Spec => []LedgerMatchesRunning
<1>1. IInv /\ RInv => LedgerMatchesRunning
  BY DEF IInv, RInv, Ledger, Tracked, Undisturbed, InHandler, LedgerMatchesRunning
<1>2. QED
  BY ReportInvariance, <1>1, PTL

(* No job is reported twice, before its worker ended, or with a value other *)
(* than what the worker returned or the interruption caught in its place.   *)
THEOREM FaithfulResults == Spec => []ResultsFaithful
<1>1. RInv => ResultsFaithful
  BY DEF RInv, Reporting
<1>2. QED
  BY ReportInvariance, <1>1, PTL

(* What Settled says of the end of a run that was not interrupted.          *)
LEMMA ReturnComplete == IInv /\ RInv => ReturnReportsAll
<1> SUFFICES ASSUME IInv, RInv, pc = "ended", outcome = "return", ~interrupted
             PROVE  /\ \A j \in Job : j \in Reported <=> future[j] # "none"
                    /\ ~stop => Reported = Job
  BY DEF ReturnReportsAll
<1>1. /\ \A j \in Job : j \in pending \union Reported
      /\ ~stop => pending = {}
  BY DEF RInv, Settled
<1>2. \A j \in pending : future[j] = "none"
  BY DEF IInv, Admission
<1>3. \A j \in Reported : future[j] # "none"
  BY DEF RInv, Reporting, ResultsFaithful, Reported, Done, Values
<1>4. Reported \subseteq Job
  <2>1. results \in Seq(Job \X Values)
    BY DEF IInv, Types
  <2>2. \A i \in DOMAIN results : results[i] \in Job \X Values
    BY <2>1
  <2>3. QED
    BY <2>2 DEF Reported
<1>5. QED
  BY <1>1, <1>2, <1>3, <1>4

(* A run that returns uninterrupted has reported exactly the jobs it        *)
(* submitted, and all jobs unless it was stopped.                           *)
THEOREM CompleteReport == Spec => []ReturnReportsAll
  BY ReportInvariance, ReturnComplete, PTL

(* Once an interruption was handled, or a fatal result reported under       *)
(* fail-fast, no job reaches the pool any more.                             *)
THEOREM NoStartAfterStop == Spec => NoStartOnceStopping
<1>1. IInv /\ RInv /\ [Next]_vars =>
         [(interrupted \/ \E i \in DOMAIN results : Fatal(results[i][2]))
           => NewlySubmitted = {}]_vars
  <2> SUFFICES ASSUME IInv, RInv, [Next]_vars, interrupted \/ FatalReported
               PROVE  NewlySubmitted = {}
    BY DEF FatalReported
  <2>1. ~Submit
    BY DEF Submit, Goto, IInv, Admission, RInv, Halting
  <2>2. ASSUME NEW j \in Job, Worker(j) PROVE NewlySubmitted = {}
    BY <2>2 DEF Worker, WorkerStart, WorkerFinish, IInv, Types, NewlySubmitted
  <2>3. CASE UNCHANGED future
    BY <2>3 DEF NewlySubmitted
  <2>4. Submit \/ (\E j \in Job : Worker(j)) \/ UNCHANGED future
    BY DEF Next, Main, Interrupt, Ended, Loop, LoopDone, Select, Charge, Track,
           NotifyStart, StopStarting, Idle, StartWait, Wait, PopCompleted, CollectDone,
           Release, GetResult, AppendResult, NotifyFinish, CallbackRaises, Handle,
           CallInterrupt, Drain, InterruptInTry, InterruptInResult, InterruptOutsideTry,
           InterruptInDrain, Stop, Age, vars
  <2>5. QED
    BY <2>1, <2>2, <2>3, <2>4
<1>2. QED
  BY ReportInvariance, <1>1, PTL DEF Spec, NoStartOnceStopping
-----------------------------------------------------------------------------
(* With nothing running and no stop, a job is left over only because one    *)
(* does not fit.                                                            *)
Blocked ==
    (pc = "idle" /\ ~stop) => pending = {} \/ \E h \in pending : ~Fits(h)

(* run() has an outcome only once it has left its loop.                     *)
LeftLoop == outcome # "none" => pc \in {"drain", "ended"}

OInv == Blocked /\ LeftLoop /\ ImpossibleOnlyIfOversized /\ NoSmallerOvertaken
-----------------------------------------------------------------------------
(* Each part of a sort key is a number.                                     *)
LEMMA SortKeyType ==
  ASSUME NEW j \in Job, NEW i \in 1..5
  PROVE  SortKey(j)[i] \in Int
<1>1. /\ -Priority[j] \in Int /\ ProfileRank[j] \in Int /\ -Weight[j] \in Int
      /\ PlanIndex[j] \in Int /\ j \in Int
  BY SchedulerAssumption, ResourcesAssumption DEF Job
<1>2. i = 1 \/ i = 2 \/ i = 3 \/ i = 4 \/ i = 5
  OBVIOUS
<1>3. QED
  BY <1>1, <1>2 DEF SortKey

(* The order of the queue is strict: irreflexive, transitive, asymmetric.   *)
LEMMA BeforeIsStrict ==
  ASSUME NEW j \in Job
  PROVE  ~Before(j, j)
  BY SortKeyType DEF Before

(* The first place at which two of three keys differ decides.               *)
LEMMA BeforeIsTransitive ==
  ASSUME NEW a \in Job, NEW b \in Job, NEW c \in Job, Before(a, b), Before(b, c)
  PROVE  Before(a, c)
<1>1. PICK i \in 1..5 : /\ SortKey(a)[i] < SortKey(b)[i]
                        /\ \A n \in 1..(i - 1) : SortKey(a)[n] = SortKey(b)[n]
  BY DEF Before
<1>2. PICK k \in 1..5 : /\ SortKey(b)[k] < SortKey(c)[k]
                        /\ \A n \in 1..(k - 1) : SortKey(b)[n] = SortKey(c)[n]
  BY DEF Before
<1>3. CASE i =< k
  <2>1. SortKey(b)[i] =< SortKey(c)[i]
    <3>1. i = k \/ i \in 1..(k - 1)
      BY <1>3
    <3>2. QED
      BY <1>2, <3>1, SortKeyType
  <2>2. SortKey(a)[i] < SortKey(c)[i]
    BY <1>1, <2>1, SortKeyType
  <2>3. \A n \in 1..(i - 1) : SortKey(a)[n] = SortKey(c)[n]
    <3> SUFFICES ASSUME NEW n \in 1..(i - 1) PROVE SortKey(a)[n] = SortKey(c)[n]
      OBVIOUS
    <3>1. n \in 1..(k - 1)
      BY <1>3
    <3>2. QED
      BY <1>1, <1>2, <3>1
  <2>4. QED
    BY <2>2, <2>3 DEF Before
<1>4. CASE k < i
  <2>1. k \in 1..(i - 1)
    BY <1>4
  <2>2. SortKey(a)[k] < SortKey(c)[k]
    BY <1>1, <1>2, <2>1
  <2>3. \A n \in 1..(k - 1) : SortKey(a)[n] = SortKey(c)[n]
    <3> SUFFICES ASSUME NEW n \in 1..(k - 1) PROVE SortKey(a)[n] = SortKey(c)[n]
      OBVIOUS
    <3>1. n \in 1..(i - 1)
      BY <1>4
    <3>2. QED
      BY <1>1, <1>2, <3>1
  <2>4. QED
    BY <2>2, <2>3 DEF Before
<1>5. QED
  BY <1>3, <1>4

(* No two jobs come before each other.                                      *)
LEMMA BeforeIsAsymmetric ==
  ASSUME NEW a \in Job, NEW b \in Job, Before(a, b)
  PROVE  ~Before(b, a)
  BY BeforeIsTransitive, BeforeIsStrict

(* Every queue that is not empty has a job that nothing comes before: one   *)
(* with the least number of predecessors.                                   *)
LEMMA HeadExists ==
  ASSUME NEW S \in SUBSET Job, S # {}
  PROVE  \E h \in S : \A k \in S : ~Before(k, h)
<1> DEFINE Ahead(j) == {k \in S : Before(k, j)}
           Counts == {Cardinality(Ahead(j)) : j \in S}
<1>1. ASSUME NEW j \in S PROVE IsFiniteSet(Ahead(j)) /\ Cardinality(Ahead(j)) \in Nat
  <2>1. Ahead(j) \in SUBSET Job
    OBVIOUS
  <2>2. QED
    BY <2>1, JobFinite, FS_Subset, FS_CardinalityType
<1>2. PICK n \in Counts : \A m \in Counts : ~(<<m, n>> \in OpToRel(<, Nat))
  <2>1. Counts \subseteq Nat /\ Counts # {}
    BY <1>1
  <2>2. QED
    BY <2>1, NatLessThanWellFounded, WFMin
<1>3. PICK h \in S : n = Cardinality(Ahead(h))
  OBVIOUS
<1>4. ASSUME NEW k \in S, Before(k, h) PROVE FALSE
  <2>1. Ahead(k) \in SUBSET Ahead(h)
    BY <1>4, BeforeIsTransitive
  <2>2. k \in Ahead(h) /\ k \notin Ahead(k)
    BY <1>4, BeforeIsStrict
  <2>3. Cardinality(Ahead(k)) < Cardinality(Ahead(h))
    <3>1. /\ Cardinality(Ahead(k)) =< Cardinality(Ahead(h))
          /\ Cardinality(Ahead(h)) = Cardinality(Ahead(k)) => Ahead(h) = Ahead(k)
      BY <1>1, <2>1, FS_Subset
    <3>2. Ahead(h) # Ahead(k)
      BY <2>2
    <3>3. Cardinality(Ahead(k)) \in Nat /\ Cardinality(Ahead(h)) \in Nat
      BY <1>1
    <3> HIDE DEF Ahead
    <3>4. QED
      BY <3>1, <3>2, <3>3
  <2>4. <<Cardinality(Ahead(k)), n>> \in OpToRel(<, Nat)
    BY <1>1, <1>3, <2>3 DEF OpToRel
  <2>5. QED
    BY <1>2, <2>4
<1>5. QED
  BY <1>4
-----------------------------------------------------------------------------
(* A job that nothing in the queue comes before is startable if it fits.    *)
LEMMA HeadIsStartable ==
  ASSUME Types, NEW h \in pending, \A k \in pending : ~Before(k, h), Fits(h)
  PROVE  Startable(h)
<1>1. ASSUME NEW a \in aged, IsHead(a), ~IsHead(h) PROVE FALSE
  BY <1>1 DEF IsHead
<1>2. QED
  BY <1>1 DEF Startable

(* The main thread stops starting jobs only when the head does not fit.     *)
LEMMA NextBlocked ==
  ASSUME Types, Blocked, [Next]_vars
  PROVE  Blocked'
<1>1. CASE StopStarting
  <2> SUFFICES ASSUME ~stop, pending # {} PROVE \E h \in pending : ~Fits(h)
    BY <1>1 DEF StopStarting, Blocked, Fits, queue, ledger, flags
  <2>1. PICK h \in pending : \A k \in pending : ~Before(k, h)
    BY HeadExists DEF Types
  <2>2. ~Startable(h)
    BY <1>1 DEF StopStarting
  <2>3. QED
    BY <2>1, <2>2, HeadIsStartable
<1>2. CASE pc' # "idle"
  BY <1>2 DEF Blocked
<1>3. CASE UNCHANGED <<pc, pending, running, usedCpu, usedIo>> /\ (stop => stop')
  BY <1>3 DEF Blocked, Fits
<1>4. \/ StopStarting \/ pc' # "idle"
      \/ UNCHANGED <<pc, pending, running, usedCpu, usedIo>> /\ (stop => stop')
  BY DEF Next, Main, Interrupt, Worker, Ended, Loop, LoopDone, Select, Charge, Submit,
         Track, NotifyStart, Idle, StartWait, Wait, PopCompleted, CollectDone, Release,
         GetResult, AppendResult, NotifyFinish, CallbackRaises, Handle, CallInterrupt,
         Drain, InterruptInTry, InterruptInResult, InterruptOutsideTry,
         InterruptInDrain, Stop, WorkerStart, WorkerFinish, Age, Goto, vars, queue,
         ledger, flags
<1>5. QED
  BY <1>1, <1>2, <1>3, <1>4

(* Only a run that has left its loop has an outcome.                        *)
LEMMA NextLeftLoop ==
  ASSUME LeftLoop, [Next]_vars
  PROVE  LeftLoop'
<1>1. \/ pc' \in {"drain", "ended"}
      \/ UNCHANGED outcome /\ (pc' = pc \/ pc \notin {"drain", "ended"})
  BY DEF Next, Main, Interrupt, Worker, Ended, Loop, LoopDone, Select, Charge, Submit,
         Track, NotifyStart, StopStarting, Idle, StartWait, Wait, PopCompleted,
         CollectDone, Release, GetResult, AppendResult, NotifyFinish, CallbackRaises,
         Handle, CallInterrupt, Drain, InterruptInTry, InTry, InterruptInResult,
         InterruptOutsideTry, InterruptInDrain, Stop, WorkerStart, WorkerFinish, Age,
         Goto, vars, ending
<1>2. QED
  BY <1>1 DEF LeftLoop

(* With no job tracked and no interruption nothing is taken, so that a job  *)
(* that does not fit does not fit the budgets alone.                        *)
LEMMA UnfitIsOversized ==
  ASSUME IInv, Tracked, pc = "idle", ~stop, running = {}, NEW h \in pending, ~Fits(h)
  PROVE  ~WithinBudgets({h})
<1> USE TypesOfTokens
<1>1. h \in Job /\ held = {}
  BY DEF IInv, Types, Admission, Tracked, Undisturbed, InHandler
<1>2. usedCpu = 0 /\ usedIo = 0
  BY <1>1, CostOfNone DEF IInv, Ledger
<1>3. Cardinality(running) = 0
  BY FS_EmptySet
<1>4. CpuTokens[h] > CpuBudget \/ IoTokens[h] > IoSlots
  BY <1>1, <1>2, <1>3, ResourcesAssumption DEF Fits
<1>5. Cost(CpuTokens, {h}) = CpuTokens[h] /\ Cost(IoTokens, {h}) = IoTokens[h]
  <2>1. /\ Cost(CpuTokens, {} \union {h}) = Cost(CpuTokens, {}) + CpuTokens[h]
        /\ Cost(IoTokens, {} \union {h}) = Cost(IoTokens, {}) + IoTokens[h]
    BY <1>1, CostOfNone, CostOfMore
  <2>2. {} \union {h} = {h} /\ CpuTokens[h] \in Nat /\ IoTokens[h] \in Nat
    BY <1>1
  <2>3. QED
    BY <2>1, <2>2, CostOfNone
<1>6. CpuTokens[h] \in Nat /\ IoTokens[h] \in Nat
  BY <1>1
<1>7. QED
  BY <1>4, <1>5, <1>6 DEF WithinBudgets

(* "Can never fit" is raised for an oversized head, which stays queued.     *)
LEMMA NextImpossible ==
  ASSUME IInv, Tracked, Blocked, LeftLoop, ImpossibleOnlyIfOversized, [Next]_vars
  PROVE  ImpossibleOnlyIfOversized'
<1>1. CASE Idle
  BY <1>1, UnfitIsOversized DEF Idle, Goto, Blocked, queue, ImpossibleOnlyIfOversized
<1>2. CASE outcome' # "impossible"
  BY <1>2 DEF ImpossibleOnlyIfOversized
<1>3. CASE UNCHANGED <<outcome, pending>>
  BY <1>3 DEF ImpossibleOnlyIfOversized
<1>4. ASSUME NEW j \in pending, Select(j) PROVE outcome' # "impossible"
  BY <1>4 DEF Select, Goto, LeftLoop, ending
<1>5. \/ Idle \/ outcome' # "impossible" \/ UNCHANGED <<outcome, pending>>
      \/ \E j \in pending : Select(j)
  BY DEF Next, Main, Interrupt, Worker, Ended, Loop, LoopDone, Charge, Submit, Track,
         NotifyStart, StopStarting, StartWait, Wait, PopCompleted, CollectDone, Release,
         GetResult, AppendResult, NotifyFinish, CallbackRaises, Handle, CallInterrupt,
         Drain, InterruptInTry, InterruptInResult, InterruptOutsideTry,
         InterruptInDrain, Stop, WorkerStart, WorkerFinish, Age, vars, queue, ending
<1>6. QED
  BY <1>1, <1>2, <1>3, <1>4, <1>5

(* Only Select takes a job from the queue.                                  *)
LEMMA OnlySelected ==
  ASSUME [Next]_vars
  PROVE  (\E j \in pending : Select(j)) \/ UNCHANGED pending
  BY DEF Next, Main, Interrupt, Worker, Ended, Loop, LoopDone, Charge, Submit, Track,
         NotifyStart, StopStarting, Idle, StartWait, Wait, PopCompleted, CollectDone,
         Release, GetResult, AppendResult, NotifyFinish, CallbackRaises, Handle,
         CallInterrupt, Drain, InterruptInTry, InterruptInResult, InterruptOutsideTry,
         InterruptInDrain, Stop, WorkerStart, WorkerFinish, Age, vars, queue

(* Select takes no job from behind one that fits as well.                   *)
LEMMA NextNotOvertaken ==
  ASSUME Types, NoSmallerOvertaken, [Next]_vars
  PROVE  NoSmallerOvertaken'
<1> USE TypesOfTokens
<1>1. ASSUME NEW i \in pending, Select(i) PROVE NoSmallerOvertaken'
  <2> SUFFICES ASSUME NEW j \in Job, NEW k \in Job, Before(k, j),
                      CpuTokens[k] =< CpuTokens[j], IoTokens[k] =< IoTokens[j],
                      k \in pending'
               PROVE  j \in pending'
    BY DEF NoSmallerOvertaken
  <2>1. k \in pending /\ j \in pending
    BY <1>1 DEF Select, NoSmallerOvertaken
  <2>2. j # i
    <3>1. Fits(j) => Fits(k)
      <4>1. /\ CpuTokens[k] \in Nat /\ CpuTokens[j] \in Nat
            /\ IoTokens[k] \in Nat /\ IoTokens[j] \in Nat
            /\ usedCpu \in Int /\ usedIo \in Int
        BY DEF Types
      <4>2. /\ usedCpu + CpuTokens[j] =< CpuBudget => usedCpu + CpuTokens[k] =< CpuBudget
            /\ usedIo + IoTokens[j] =< IoSlots => usedIo + IoTokens[k] =< IoSlots
        BY <4>1
      <4>3. QED
        BY <4>2 DEF Fits
    <3>2. Fits(i) /\ (Before(k, i) => ~Fits(k))
      BY <1>1, <2>1 DEF Select, Startable
    <3>3. QED
      BY <3>1, <3>2
  <2>3. QED
    BY <1>1, <2>1, <2>2 DEF Select
<1>2. CASE UNCHANGED pending
  BY <1>2 DEF NoSmallerOvertaken
<1>3. QED
  BY <1>1, <1>2, OnlySelected
-----------------------------------------------------------------------------
(* These four invariants hold in every reachable state.                     *)
LEMMA OrderInvariance == Spec => [](IInv /\ OInv)
<1>1. Init => OInv
  BY DEF Init, OInv, Blocked, LeftLoop, ImpossibleOnlyIfOversized, NoSmallerOvertaken
<1>2. IInv /\ RInv /\ OInv /\ [Next]_vars => OInv'
  BY NextBlocked, NextLeftLoop, NextImpossible, NextNotOvertaken DEF IInv, RInv, OInv
<1>3. QED
  BY ReportInvariance, <1>1, <1>2, PTL DEF Spec

(* "can never fit scheduler resources" is raised only for a queue with a    *)
(* job larger than a whole budget, for every set of jobs and budgets: no    *)
(* interleaving, stop or interruption makes the scheduler give up else.     *)
THEOREM ImpossibleIsOversized == Spec => []ImpossibleOnlyIfOversized
<1>1. OInv => ImpossibleOnlyIfOversized
  BY DEF OInv
<1>2. QED
  BY OrderInvariance, <1>1, PTL

(* No job starts before an earlier one that needs no more of any resource.  *)
THEOREM NotOvertaken == Spec => []NoSmallerOvertaken
<1>1. OInv => NoSmallerOvertaken
  BY DEF OInv
<1>2. QED
  BY OrderInvariance, <1>1, PTL

(* While an aged job heads the queue, nothing else leaves it.               *)
THEOREM AgedHeadFirst == Spec => AgedHeadReserved
<1>1. IInv /\ [Next]_vars =>
         [\A h \in aged : IsHead(h) => pending' \in {pending, pending \ {h}}]_vars
  <2> SUFFICES ASSUME IInv, [Next]_vars, NEW h \in aged, IsHead(h)
               PROVE  pending' \in {pending, pending \ {h}}
    OBVIOUS
  <2>1. ASSUME NEW j \in pending, Select(j) PROVE pending' = pending \ {h}
    <3>1. IsHead(j)
      BY <2>1 DEF Select, Startable
    <3>2. j = h
      BY <3>1, BeforeIsAsymmetric DEF IsHead, IInv, Types
    <3>3. QED
      BY <2>1, <3>2 DEF Select
  <2>2. QED
    BY <2>1, OnlySelected
<1>2. QED
  BY Invariance, <1>1, PTL DEF Spec, AgedHeadReserved
=============================================================================
