------------------------------- MODULE SevenZip -------------------------------
(***************************************************************************)
(* SevenZip of sevenzip.py: worker threads run 7-Zip children, one after   *)
(* the other, and register each in _active while it runs; the main thread, *)
(* on Ctrl-C, sets the interrupt event and calls interrupt_all, which      *)
(* terminates, waits for, and kills the children it finds registered.      *)
(***************************************************************************)
EXTENDS Integers, FiniteSets

CONSTANTS Workers,
          Calls,            (* per worker: 7-Zip calls of its job (1 or 2)  *)
          LogsMayFail,      (* log files may not be writable                *)
          Stubborn          (* workers whose children ignore SIGTERM        *)

ASSUME SevenZipAssumption ==
    /\ Calls \in [Workers -> {1, 2}]
    /\ LogsMayFail \in BOOLEAN
    /\ Stubborn \subseteq Workers

VARIABLES
    wpc,        (* where each worker is in the current call                 *)
    call,       (* which of its calls that is                               *)
    child,      (* "none", "alive", "exited": the current call's process    *)
    code,       (* its returncode; negative when a signal ended it          *)
    active,     (* _active, by worker                                       *)
    outcome,    (* the ProcessOutcome of the last call                      *)
    stopEvt,    (* interrupt_event                                          *)
    mpc,        (* where the main thread is in interrupt_all                *)
    processes,  (* its list of processes                                    *)
    signalled   (* of those, the ones it has looked at in the current pass  *)

worker == <<wpc, call, child, code, active, outcome>>
main   == <<stopEvt, mpc, processes, signalled>>
vars   == <<worker, main>>

Codes == {-9, 0, 1, 2}

Outcome == [result : {"none", "exit", "cancelled", "startError", "raised"},
            code : Codes, interrupted : BOOLEAN]
NoOutcome == [result |-> "none", code |-> 0, interrupted |-> FALSE]

TypeOK ==
    /\ wpc \in [Workers -> {"prepare", "check", "popen", "register", "waiting",
                            "discard", "stamp", "record", "returned"}]
    /\ call \in [Workers -> {1, 2}]
    /\ child \in [Workers -> {"none", "alive", "exited"}]
    /\ code \in [Workers -> Codes]
    /\ active \subseteq {w \in Workers : wpc[w] \in {"waiting", "discard"}}
    /\ outcome \in [Workers -> Outcome]
    /\ stopEvt \in BOOLEAN
    /\ mpc \in {"idle", "snapshot", "terminate", "grace", "kill", "done", "abandoned"}
    /\ processes \subseteq Workers
    /\ signalled \subseteq processes

Init ==
    /\ wpc = [w \in Workers |-> "prepare"]
    /\ call = [w \in Workers |-> 1]
    /\ child = [w \in Workers |-> "none"]
    /\ code = [w \in Workers |-> 0]
    /\ active = {}
    /\ outcome = [w \in Workers |-> NoOutcome]
    /\ stopEvt = FALSE
    /\ mpc = "idle"
    /\ processes = {}
    /\ signalled = {}
-----------------------------------------------------------------------------
(* As in Scheduler, InterruptWithoutEvent, WaitChildBriefly ... are          *)
(* mistakes that the properties below would catch, not part of Next.        *)

Step(w, p, q) == wpc[w] = p /\ wpc' = [wpc EXCEPT ![w] = q]

Return(w, result, interrupted) ==
    outcome' = [outcome EXCEPT ![w] = [result |-> result, code |-> code[w],
                                       interrupted |-> interrupted]]

(* Log directory and metadata.json, before the process.                     *)
Prepare(w) ==
    /\ Step(w, "prepare", "check")
    /\ UNCHANGED <<call, child, code, active, outcome, main>>

(* An OSError of a metadata write, before (extract, create) or after the    *)
(* process, or of the empty logs of a cancelled call, leaves the call.      *)
LogFails(w) ==
    /\ LogsMayFail
    /\ \/ call[w] = 1 /\ Step(w, "prepare", "returned")
       \/ stopEvt /\ Step(w, "check", "returned")
       \/ Step(w, "record", "returned")
    /\ Return(w, "raised", FALSE)
    /\ UNCHANGED <<call, child, code, active, main>>

(* if stop_event.is_set(): cancelled before process start.                  *)
CheckStop(w) ==
    /\ IF stopEvt THEN Step(w, "check", "record") /\ Return(w, "cancelled", TRUE)
                  ELSE Step(w, "check", "popen") /\ UNCHANGED outcome
    /\ UNCHANGED <<call, child, code, active, main>>

Popen(w) ==
    /\ Step(w, "popen", "register")
    /\ child' = [child EXCEPT ![w] = "alive"]
    /\ UNCHANGED <<call, code, active, outcome, main>>

CannotStart(w) ==
    /\ Step(w, "popen", "record")
    /\ Return(w, "startError", FALSE)
    /\ UNCHANGED <<call, child, code, active, main>>

Register(w) ==
    /\ Step(w, "register", "waiting")
    /\ active' = active \union {w}
    /\ UNCHANGED <<call, child, code, outcome, main>>

WaitChildBriefly(w) ==
    /\ Step(w, "waiting", "discard")
    /\ UNCHANGED <<call, child, code, active, outcome, main>>

WaitChild(w) ==
    /\ child[w] = "exited"
    /\ Step(w, "waiting", "discard")
    /\ UNCHANGED <<call, child, code, active, outcome, main>>

DiscardForgotten(w) ==
    /\ Step(w, "discard", "stamp")
    /\ UNCHANGED <<call, child, code, active, outcome, main>>

Discard(w) ==
    /\ Step(w, "discard", "stamp")
    /\ active' = active \ {w}
    /\ UNCHANGED <<call, child, code, outcome, main>>

(* ProcessOutcome(exit_code, stop_event.is_set()), read after the wait.     *)
Stamp(w) ==
    /\ Step(w, "stamp", "record")
    /\ Return(w, "exit", stopEvt)
    /\ UNCHANGED <<call, child, code, active, main>>

Record(w) ==
    /\ Step(w, "record", "returned")
    /\ UNCHANGED <<call, child, code, active, outcome, main>>

(* create.py goes on to the test call after an uninterrupted exit that is   *)
(* neither 1 nor at least 2.                                                *)
GoesOn(w) ==
    /\ call[w] < Calls[w]
    /\ outcome[w].result = "exit" /\ ~outcome[w].interrupted /\ outcome[w].code =< 0

NextCall(w) ==
    /\ GoesOn(w)
    /\ Step(w, "returned", "prepare")
    /\ call' = [call EXCEPT ![w] = @ + 1]
    /\ child' = [child EXCEPT ![w] = "none"]
    /\ code' = [code EXCEPT ![w] = 0]
    /\ outcome' = [outcome EXCEPT ![w] = NoOutcome]
    /\ UNCHANGED <<active, main>>

Exit(w, c) ==
    /\ child' = [child EXCEPT ![w] = "exited"]
    /\ code' = [code EXCEPT ![w] = c]

(* 7-Zip ends by itself, or is killed from outside the program.             *)
ChildExits(w) ==
    /\ child[w] = "alive"
    /\ \E c \in Codes : Exit(w, c)
    /\ UNCHANGED <<wpc, call, active, outcome, main>>
-----------------------------------------------------------------------------
(* Ctrl-C: the scheduler's handler sets interrupt_event, then calls         *)
(* interrupt_all; and again, once that has returned.                        *)
InterruptWithoutEvent ==
    /\ mpc \in {"idle", "done"}
    /\ mpc' = "snapshot"
    /\ processes' = {} /\ signalled' = {}
    /\ UNCHANGED <<worker, stopEvt>>

SetInterrupt ==
    /\ mpc \in {"idle", "done"}
    /\ mpc' = "snapshot"
    /\ stopEvt' = TRUE
    /\ processes' = {} /\ signalled' = {}
    /\ UNCHANGED worker

Snapshot ==
    /\ mpc = "snapshot"
    /\ mpc' = "terminate"
    /\ processes' = active
    /\ UNCHANGED <<worker, stopEvt, signalled>>

(* poll(), then SIGTERM to the process group; a group that is gone raises   *)
(* ProcessLookupError, which is ignored.                                    *)
Terminate(w) ==
    /\ mpc = "terminate"
    /\ w \in processes \ signalled
    /\ signalled' = signalled \union {w}
    /\ IF child[w] = "alive" /\ w \notin Stubborn THEN Exit(w, -9)
                                                  ELSE UNCHANGED <<child, code>>
    /\ UNCHANGED <<wpc, call, active, outcome, stopEvt, mpc, processes>>

TerminateDone ==
    /\ mpc = "terminate"
    /\ signalled = processes
    /\ mpc' = "grace"
    /\ signalled' = {}
    /\ UNCHANGED <<worker, stopEvt, processes>>

PollGrace ==
    /\ mpc = "grace"
    /\ processes' = {w \in processes : child[w] = "alive"}
    /\ processes' # processes
    /\ UNCHANGED <<worker, stopEvt, mpc, signalled>>

GraceEndsWithoutKill ==
    /\ mpc = "grace"
    /\ mpc' = "done"
    /\ UNCHANGED <<worker, stopEvt, processes, signalled>>

(* The deadline passes, or nothing is left.                                 *)
GraceEnds ==
    /\ mpc = "grace"
    /\ mpc' = "kill"
    /\ UNCHANGED <<worker, stopEvt, processes, signalled>>

Kill(w) ==
    /\ mpc = "kill"
    /\ w \in processes \ signalled
    /\ signalled' = signalled \union {w}
    /\ IF child[w] = "alive" THEN Exit(w, -9) ELSE UNCHANGED <<child, code>>
    /\ UNCHANGED <<wpc, call, active, outcome, stopEvt, mpc, processes>>

KillDone ==
    /\ mpc = "kill"
    /\ signalled = processes
    /\ mpc' = "done"
    /\ UNCHANGED <<worker, stopEvt, processes, signalled>>

(* A second KeyboardInterrupt leaves interrupt_all where it is.             *)
Abandon ==
    /\ mpc \in {"snapshot", "terminate", "grace", "kill"}
    /\ mpc' = "abandoned"
    /\ UNCHANGED <<worker, stopEvt, processes, signalled>>

(* Every job is over and nobody is left to interrupt.                       *)
Ended ==
    /\ mpc \in {"done", "abandoned"}
    /\ \A w \in Workers : wpc[w] = "returned" /\ ~GoesOn(w)
    /\ UNCHANGED vars

InterruptAll ==
    \/ Snapshot \/ TerminateDone \/ PollGrace \/ GraceEnds \/ KillDone
    \/ \E w \in Workers : Terminate(w) \/ Kill(w)

Worker(w) ==
    \/ Prepare(w) \/ LogFails(w) \/ CheckStop(w) \/ Popen(w) \/ CannotStart(w)
    \/ Register(w) \/ WaitChild(w) \/ Discard(w) \/ Stamp(w) \/ Record(w)
    \/ NextCall(w)

Next == \/ SetInterrupt \/ InterruptAll \/ Abandon \/ Ended
        \/ \E w \in Workers : Worker(w) \/ ChildExits(w)

Spec == Init /\ [][Next]_vars

(* Both threads are scheduled; nothing says that a child ever exits.        *)
FairSpec == Spec /\ WF_vars(InterruptAll) /\ \A w \in Workers : WF_vars(Worker(w))
-----------------------------------------------------------------------------
(* Safety.  A call whose process interrupt_all found registered is never    *)
(* reported as an ordinary exit: the event is set before the registry is    *)
(* read, and the worker looks at it only after the wait, so no signal death *)
(* of its own making is taken for a result of 7-Zip.                        *)
KilledIsInterrupted ==
    \A w \in processes : outcome[w].result = "exit" => outcome[w].interrupted

(* Safety.  When interrupt_all returns by itself, no child it had found     *)
(* registered is still alive, not even one that ignores SIGTERM.            *)
NoSurvivor ==
    mpc = "done" => \A w \in processes : child[w] # "alive"

(* Safety.  A worker that has returned left no process behind and is not in *)
(* the registry: interrupt_all cannot signal a process of a finished job.   *)
ReturnedLeavesNothing ==
    \A w \in Workers : wpc[w] = "returned" => child[w] # "alive" /\ w \notin active

(* Liveness.  A call whose process was registered when interrupt_all took   *)
(* its snapshot returns, whatever the process does with SIGTERM, unless a   *)
(* second Ctrl-C ends interrupt_all.                                        *)
InterruptedCallReturns ==
    \A w \in Workers :
        (mpc = "terminate" /\ w \in processes)
            ~> (wpc[w] = "returned" \/ mpc = "abandoned")

(* The manual, section 8: "Interruption ... signals managed child process   *)
(* groups": after interrupt_all no process the program started is alive     *)
(* that it sent no signal.                                                  *)
EveryChildSignalled ==
    mpc = "done" => \A w \in Workers : child[w] = "alive" => w \in processes
=============================================================================
