---------------------------- MODULE SevenZipProofs ----------------------------
(***************************************************************************)
(* What holds of the registry of 7-Zip processes and of interrupt_all for  *)
(* every set of workers, whatever their children do with a signal and      *)
(* whenever a log file cannot be written.                                  *)
(***************************************************************************)
EXTENDS SevenZip, TLAPS

(* A process is alive only between Popen and the end of the wait.           *)
AliveWhileRun ==
    \A w \in Workers : child[w] = "alive" => wpc[w] \in {"register", "waiting"}

(* The call has no outcome before its Return.                               *)
OutcomeUnset ==
    \A w \in Workers :
        wpc[w] \in {"prepare", "check", "popen", "register", "waiting", "discard", "stamp"}
            => outcome[w].result = "none"

(* The event is set before interrupt_all looks at anything.                 *)
EventFirst ==
    /\ mpc # "idle" => stopEvt
    /\ mpc \in {"idle", "snapshot"} => processes = {}
    /\ mpc \in {"idle", "snapshot", "grace"} => signalled = {}

(* A worker whose process was found registered is at the end of its last    *)
(* call: it will see the event, and it starts no further process.           *)
FoundCallIsLast ==
    \A w \in processes :
        /\ wpc[w] \in {"waiting", "discard", "stamp", "record", "returned"}
        /\ outcome[w].result = "exit" => outcome[w].interrupted

(* What the last pass over the list has looked at is no longer alive.       *)
KillPass ==
    /\ mpc = "kill" => \A w \in signalled : child[w] # "alive"
    /\ mpc = "done" => \A w \in processes : child[w] # "alive"

IInv ==
    /\ TypeOK
    /\ AliveWhileRun
    /\ OutcomeUnset
    /\ EventFirst
    /\ FoundCallIsLast
    /\ KillPass
-----------------------------------------------------------------------------
(* A call that has not returned has an outcome of the right type.           *)
LEMMA NoOutcomeType == NoOutcome \in Outcome /\ NoOutcome.result = "none"
  BY DEF NoOutcome, Outcome, Codes

(* What Return leaves in outcome, for one worker.                           *)
LEMMA ReturnSets ==
  ASSUME outcome \in [Workers -> Outcome], code \in [Workers -> Codes],
         NEW w \in Workers, NEW i \in BOOLEAN,
         NEW r \in {"exit", "cancelled", "startError", "raised"},
         Return(w, r, i)
  PROVE  /\ outcome' \in [Workers -> Outcome]
         /\ outcome'[w].result = r
         /\ outcome'[w].interrupted = i
         /\ \A v \in Workers : v # w => outcome'[v] = outcome[v]
  BY DEF Return, Outcome

(* The initial state satisfies the inductive invariant.                     *)
LEMMA Initially == Init => IInv
<1>1. ASSUME Init PROVE TypeOK
  BY <1>1, NoOutcomeType DEF Init, TypeOK, Codes
<1>2. ASSUME Init PROVE OutcomeUnset
  BY <1>2, NoOutcomeType DEF Init, OutcomeUnset
<1>3. QED
  BY <1>1, <1>2 DEF Init, IInv, AliveWhileRun, EventFirst, FoundCallIsLast, KillPass

(* A worker's step.  FoundCallIsLast rules out Popen and NextCall for those *)
(* interrupt_all has found, and EventFirst makes Stamp see the event.       *)
LEMMA WorkerStep ==
  ASSUME IInv, NEW w \in Workers, Worker(w)
  PROVE  IInv'
<1> USE SevenZipAssumption DEF IInv, TypeOK, AliveWhileRun, OutcomeUnset, EventFirst,
        FoundCallIsLast, KillPass, Step, main
<1>1. CASE Prepare(w)
  BY <1>1 DEF Prepare
<1>2. CASE LogFails(w)
  <2>1. Return(w, "raised", FALSE) /\ UNCHANGED <<call, child, code, active, main>>
    BY <1>2 DEF LogFails
  <2>2. /\ outcome' \in [Workers -> Outcome]
        /\ outcome'[w].result = "raised"
        /\ \A v \in Workers : v # w => outcome'[v] = outcome[v]
    BY <2>1, ReturnSets
  <2>3. CASE Step(w, "prepare", "returned")
    BY <2>1, <2>2, <2>3
  <2>4. CASE Step(w, "check", "returned")
    BY <2>1, <2>2, <2>4
  <2>5. CASE Step(w, "record", "returned")
    BY <2>1, <2>2, <2>5
  <2>6. QED
    BY <1>2, <2>3, <2>4, <2>5 DEF LogFails
<1>3. CASE CheckStop(w)
  <2>1. CASE stopEvt
    <3>1. /\ Return(w, "cancelled", TRUE)
          /\ Step(w, "check", "record") /\ UNCHANGED <<call, child, code, active, main>>
      BY <1>3, <2>1 DEF CheckStop
    <3>2. /\ outcome' \in [Workers -> Outcome]
          /\ outcome'[w].result = "cancelled"
          /\ \A v \in Workers : v # w => outcome'[v] = outcome[v]
      BY <3>1, ReturnSets
    <3>3. TypeOK'
      BY <3>1, <3>2
    <3>4. AliveWhileRun'
      BY <3>1, <3>2
    <3>5. OutcomeUnset'
      BY <3>1, <3>2
    <3>6. FoundCallIsLast'
      BY <3>1, <3>2
    <3>7. EventFirst' /\ KillPass'
      BY <3>1, <3>2
    <3>8. QED
      BY <3>3, <3>4, <3>5, <3>6, <3>7
  <2>2. CASE ~stopEvt
    BY <1>3, <2>2 DEF CheckStop
  <2>3. QED
    BY <2>1, <2>2
<1>4. CASE Popen(w)
  BY <1>4 DEF Popen
<1>5. CASE CannotStart(w)
  <2>1. /\ Return(w, "startError", FALSE)
        /\ Step(w, "popen", "record") /\ UNCHANGED <<call, child, code, active, main>>
    BY <1>5 DEF CannotStart
  <2>2. /\ outcome' \in [Workers -> Outcome]
        /\ outcome'[w].result = "startError"
        /\ \A v \in Workers : v # w => outcome'[v] = outcome[v]
    BY <2>1, ReturnSets
  <2>3. TypeOK'
    BY <2>1, <2>2
  <2>4. AliveWhileRun'
    BY <2>1, <2>2
  <2>5. OutcomeUnset'
    BY <2>1, <2>2
  <2>6. FoundCallIsLast'
    BY <2>1, <2>2
  <2>7. EventFirst' /\ KillPass'
    BY <2>1, <2>2
  <2>8. QED
    BY <2>3, <2>4, <2>5, <2>6, <2>7
<1>6. CASE Register(w)
  BY <1>6 DEF Register
<1>7. CASE WaitChild(w)
  BY <1>7 DEF WaitChild
<1>8. CASE Discard(w)
  BY <1>8 DEF Discard
<1>9. CASE Stamp(w)
  <2>1. /\ Return(w, "exit", stopEvt)
        /\ Step(w, "stamp", "record") /\ UNCHANGED <<call, child, code, active, main>>
    BY <1>9 DEF Stamp
  <2>2. /\ outcome' \in [Workers -> Outcome]
        /\ outcome'[w].interrupted = stopEvt
        /\ \A v \in Workers : v # w => outcome'[v] = outcome[v]
    BY <2>1, ReturnSets
  <2>3. TypeOK'
    BY <2>1, <2>2
  <2>4. AliveWhileRun'
    BY <2>1, <2>2
  <2>5. OutcomeUnset'
    BY <2>1, <2>2
  <2>6. FoundCallIsLast'
    BY <2>1, <2>2
  <2>7. EventFirst' /\ KillPass'
    BY <2>1, <2>2
  <2>8. QED
    BY <2>3, <2>4, <2>5, <2>6, <2>7
<1>10. CASE Record(w)
  BY <1>10 DEF Record
<1>11. CASE NextCall(w)
  BY <1>11, NoOutcomeType DEF NextCall, GoesOn, Codes
<1>12. QED
  BY <1>1, <1>2, <1>3, <1>4, <1>5, <1>6, <1>7, <1>8, <1>9, <1>10, <1>11 DEF Worker

(* A step of interrupt_all, of its caller, or of a child.                   *)
LEMMA MainStep ==
  ASSUME IInv, SetInterrupt \/ InterruptAll \/ Abandon
  PROVE  IInv'
<1> USE DEF IInv, TypeOK, AliveWhileRun, OutcomeUnset, EventFirst, FoundCallIsLast,
        KillPass, Exit, worker, Codes
<1>1. CASE SetInterrupt
  BY <1>1 DEF SetInterrupt
<1>2. CASE Snapshot
  BY <1>2 DEF Snapshot
<1>3. CASE TerminateDone
  BY <1>3 DEF TerminateDone
<1>4. CASE PollGrace
  BY <1>4 DEF PollGrace
<1>5. CASE GraceEnds
  BY <1>5 DEF GraceEnds
<1>6. CASE KillDone
  BY <1>6 DEF KillDone
<1>7. CASE Abandon
  BY <1>7 DEF Abandon
<1>8. ASSUME NEW w \in Workers, Terminate(w) PROVE IInv'
  BY <1>8 DEF Terminate
<1>9. ASSUME NEW w \in Workers, Kill(w) PROVE IInv'
  BY <1>9 DEF Kill
<1>10. QED
  BY <1>1, <1>2, <1>3, <1>4, <1>5, <1>6, <1>7, <1>8, <1>9 DEF InterruptAll

(* A child that exits turns its process from running to exited.             *)
LEMMA ChildStep ==
  ASSUME IInv, NEW w \in Workers, ChildExits(w)
  PROVE  IInv'
  BY DEF ChildExits, Exit, IInv, TypeOK, AliveWhileRun, OutcomeUnset, EventFirst,
         FoundCallIsLast, KillPass, main

(* Every step keeps the inductive invariant.                                *)
LEMMA Inductive == IInv /\ [Next]_vars => IInv'
<1> SUFFICES ASSUME IInv, [Next]_vars PROVE IInv'
  OBVIOUS
<1>1. CASE UNCHANGED vars
  BY <1>1 DEF vars, worker, main, IInv, TypeOK, AliveWhileRun, OutcomeUnset, EventFirst,
              FoundCallIsLast, KillPass
<1>2. CASE Next
  BY <1>1, <1>2, WorkerStep, MainStep, ChildStep DEF Next, Ended
<1>3. QED
  BY <1>1, <1>2

(* The inductive invariant holds in every reachable state.                  *)
LEMMA Invariance == Spec => []IInv
  BY Initially, Inductive, PTL DEF Spec
-----------------------------------------------------------------------------
(* The types of the variables; in particular only a worker that is waiting  *)
(* for its process, or about to remove it, is in the registry.              *)
THEOREM TypeCorrect == Spec => []TypeOK
<1>1. IInv => TypeOK
  BY DEF IInv
<1>2. QED
  BY <1>1, Invariance, PTL

(* No signal of the program's own is taken for a result of 7-Zip: what      *)
(* interrupt_all found registered is stamped interrupted, however the       *)
(* registration, the event and the wait of run() interleave.                *)
THEOREM NoSignalTakenForResult == Spec => []KilledIsInterrupted
<1>1. IInv => KilledIsInterrupted
  BY DEF IInv, FoundCallIsLast, KilledIsInterrupted
<1>2. QED
  BY <1>1, Invariance, PTL

(* After an interrupt_all that ran to its end, every process it had found   *)
(* is over: its worker cannot have started another in the meantime.         *)
THEOREM InterruptLeavesNoSurvivor == Spec => []NoSurvivor
<1>1. IInv => NoSurvivor
  BY DEF IInv, KillPass, NoSurvivor
<1>2. QED
  BY <1>1, Invariance, PTL

(* A call that has returned, by whichever path, has left neither a process  *)
(* nor an entry of the registry.                                            *)
THEOREM ReturnIsClean == Spec => []ReturnedLeavesNothing
<1>1. IInv => ReturnedLeavesNothing
  BY DEF IInv, TypeOK, AliveWhileRun, ReturnedLeavesNothing
<1>2. QED
  BY <1>1, Invariance, PTL
=============================================================================
