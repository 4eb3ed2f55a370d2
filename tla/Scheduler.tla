------------------------------ MODULE Scheduler ------------------------------
(***************************************************************************)
(* ResourceScheduler.run of scheduler.py: the main thread admits jobs in   *)
(* the order of sort_key, backfills behind a head that does not fit until  *)
(* that head is aged, hands jobs to a thread pool, collects the futures    *)
(* and answers Ctrl-C.  The main thread is a program counter; every worker *)
(* is a future; a KeyboardInterrupt may arrive between any two steps.      *)
(***************************************************************************)
EXTENDS Resources, Sequences

CONSTANTS Priority, ProfileRank, Weight, PlanIndex,  (* sort_key's parts   *)
          WorkerValues,      (* what a worker may return on its own         *)
          FailFast,          (* a fail_fast_predicate was given             *)
          CallbackMayRaise,  (* on_event may raise (a closed stderr)        *)
          ExternalStop,      (* another thread may call stop()              *)
          MaxInterrupts      (* bound: how many Ctrl-C a behaviour has      *)

Values == {"success", "warning", "skipped", "failed", "interrupted",
           "successWarned", (* success, with warnings of the worker's own   *)
           "exception",      (* the worker raised                           *)
           "keyboard"}       (* a KeyboardInterrupt caught around result()  *)

ASSUME SchedulerAssumption ==
    /\ Priority \in [Job -> Int]
    /\ ProfileRank \in [Job -> Nat]
    /\ Weight \in [Job -> Nat]
    /\ PlanIndex \in [Job -> Nat]
    /\ WorkerValues \subseteq Values \ {"interrupted", "keyboard"}
    /\ FailFast \in BOOLEAN
    /\ CallbackMayRaise \in BOOLEAN
    /\ ExternalStop \in BOOLEAN
    /\ MaxInterrupts \in Nat

VARIABLES
    pc,            (* where the main thread is                              *)
    pending,       (* the jobs of the list `pending'                        *)
    aged,          (* jobs queued for at least reservation_delay            *)
    selected,      (* the job being started, or None                        *)
    running,       (* the jobs of the dict `running'                        *)
    usedCpu, usedIo,
    completed,     (* futures returned by wait() and not yet popped         *)
    current,       (* the completed job being handled, or None              *)
    got,           (* `value' of that job                                   *)
    future,        (* per job: its future in the pool                       *)
    results,       (* report.results                                        *)
    stop,          (* stop_event                                            *)
    interruptEvt,  (* interrupt_event                                       *)
    interrupted,   (* report.interrupted                                    *)
    outcome,       (* how run() ends                                        *)
    interrupts,    (* Ctrl-C delivered so far                               *)
    held           (* history: the jobs whose tokens are in usedCpu, usedIo *)

queue   == <<pending, aged, selected>>
ledger  == <<running, usedCpu, usedIo, held>>
collect == <<completed, current, got, results>>
flags   == <<stop, interruptEvt, interrupted>>
ending  == <<outcome, interrupts>>
vars    == <<pc, queue, ledger, collect, future, flags, ending>>

None == 0

Alive == {"queued", "executing"}
Done(j) == future[j] \in Values
AliveJobs == {j \in Job : future[j] \in Alive}

(* Where a KeyboardInterrupt reaches the except clause of the loop, where   *)
(* it leaves run(), and the points at which the main thread is no more.     *)
InTry     == {"start", "charge", "submit", "track", "notifyStart", "idle",
              "wait", "collect", "release", "append", "notifyFinish"}
InHandler == {"handler", "interrupting"}
PCs == InTry \union InHandler \union {"loop", "result", "drain", "ended"}
Outcomes == {"none", "return", "impossible", "callback", "interrupt"}

TypeOK ==
    /\ pc \in PCs
    /\ pending \subseteq Job
    /\ aged \subseteq Job
    /\ selected \in Job \union {None}
    /\ running \subseteq Job
    /\ usedCpu \in 0..CpuBudget
    /\ usedIo \in 0..IoSlots
    /\ completed \subseteq Job
    /\ current \in Job \union {None}
    /\ got \in Values \union {"none"}
    /\ future \in [Job -> Alive \union Values \union {"none"}]
    /\ results \in Seq(Job \X Values)
    /\ stop \in BOOLEAN
    /\ interruptEvt \in BOOLEAN
    /\ interrupted \in BOOLEAN
    /\ outcome \in Outcomes
    /\ interrupts \in 0..MaxInterrupts
    /\ held \subseteq Job

Init ==
    /\ pc = "loop"
    /\ pending = Job
    /\ aged = {}
    /\ selected = None
    /\ running = {}
    /\ usedCpu = 0
    /\ usedIo = 0
    /\ completed = {}
    /\ current = None
    /\ got = "none"
    /\ future = [j \in Job |-> "none"]
    /\ results = << >>
    /\ stop = FALSE
    /\ interruptEvt = FALSE
    /\ interrupted = FALSE
    /\ outcome = "none"
    /\ interrupts = 0
    /\ held = {}
-----------------------------------------------------------------------------
(* Definitions that carry the name of another and a suffix saying what they *)
(* get wrong (FitsWithoutIo, WaitTakesAll ...) are plausible mistakes: with *)
(* one of them in place of the definition that follows, a property below    *)
(* fails.  They are not part of the specification.                          *)

(* The order of `pending': sort_key, and the input position where it ties,  *)
(* because sorted() is stable.                                              *)
SortKey(j) == <<-Priority[j], ProfileRank[j], -Weight[j], PlanIndex[j], j>>

Before(a, b) ==
    \E i \in 1..5 : /\ SortKey(a)[i] < SortKey(b)[i]
                    /\ \A k \in 1..(i - 1) : SortKey(a)[k] = SortKey(b)[k]

IsHead(h) == h \in pending /\ \A j \in pending \ {h} : Before(h, j)

FitsWithoutIo(j) ==
    /\ Cardinality(running) < MaxProcesses
    /\ usedCpu + CpuTokens[j] =< CpuBudget

Fits(j) ==
    /\ Cardinality(running) < MaxProcesses
    /\ usedCpu + CpuTokens[j] =< CpuBudget
    /\ usedIo + IoTokens[j] =< IoSlots

StartableAnyFitting(j) ==
    /\ j \in pending
    /\ Fits(j)
    /\ IsHead(j) \/ ~\E h \in aged : IsHead(h)

StartableOvertaking(j) ==
    /\ j \in pending
    /\ Fits(j)
    /\ \A k \in pending : Before(k, j) => ~Fits(k)

(* The first job that fits, unless that overtakes an aged head.             *)
Startable(j) ==
    /\ j \in pending
    /\ Fits(j)
    /\ \A k \in pending : Before(k, j) => ~Fits(k)
    /\ IsHead(j) \/ ~\E h \in aged : IsHead(h)

(* clock() reaches queued_at + reservation_delay, first for the jobs        *)
(* queued first.                                                            *)
Age(j) ==
    /\ pc # "ended"
    /\ j \notin aged
    /\ \A k \in Job \ aged : k # j => Before(j, k)
    /\ aged' = aged \union {j}
    /\ UNCHANGED <<pc, pending, selected, ledger, collect, future, flags, ending>>
-----------------------------------------------------------------------------
Goto(p, q) == pc = p /\ pc' = q

Loop ==
    /\ pending # {} \/ running # {}
    /\ Goto("loop", "start")
    /\ UNCHANGED <<queue, ledger, collect, future, flags, ending>>

LoopDoneWhileRunning ==
    /\ pending = {}
    /\ Goto("loop", "drain")
    /\ outcome' = "return"
    /\ UNCHANGED <<queue, ledger, collect, future, flags, interrupts>>

LoopDone ==
    /\ pending = {} /\ running = {}
    /\ Goto("loop", "drain")
    /\ outcome' = "return"
    /\ UNCHANGED <<queue, ledger, collect, future, flags, interrupts>>

Select(j) ==
    /\ Goto("start", "charge")
    /\ ~stop
    /\ Startable(j)
    /\ pending' = pending \ {j}
    /\ selected' = j
    /\ UNCHANGED <<aged, ledger, collect, future, flags, ending>>

Charge ==
    /\ Goto("charge", "submit")
    /\ usedCpu' = usedCpu + CpuTokens[selected]
    /\ usedIo' = usedIo + IoTokens[selected]
    /\ held' = held \union {selected}
    /\ UNCHANGED <<queue, running, collect, future, flags, ending>>

Submit ==
    /\ Goto("submit", "track")
    /\ future' = [future EXCEPT ![selected] = "queued"]
    /\ UNCHANGED <<queue, ledger, collect, flags, ending>>

Track ==
    /\ Goto("track", "notifyStart")
    /\ running' = running \union {selected}
    /\ UNCHANGED <<queue, usedCpu, usedIo, held, collect, future, flags, ending>>

(* event("started", selected), which may raise whatever on_event raises.    *)
NotifyStart ==
    /\ Goto("notifyStart", "start")
    /\ selected' = None
    /\ UNCHANGED <<pending, aged, ledger, collect, future, flags, ending>>

StopStarting ==
    /\ Goto("start", "idle")
    /\ stop \/ ~\E j \in pending : Startable(j)
    /\ UNCHANGED <<queue, ledger, collect, future, flags, ending>>

IdleImpossibleIfPending ==
    /\ running = {}
    /\ Goto("idle", "drain")
    /\ outcome' = IF pending # {} THEN "impossible" ELSE "return"
    /\ UNCHANGED <<queue, ledger, collect, future, flags, interrupts>>

IdleContinues ==
    /\ running = {}
    /\ IF pending # {} /\ ~stop THEN Goto("idle", "drain") /\ outcome' = "impossible"
                                ELSE Goto("idle", "loop") /\ outcome' = outcome
    /\ UNCHANGED <<queue, ledger, collect, future, flags, interrupts>>

(* if not running: raise "can never fit", or leave the loop.                *)
Idle ==
    /\ running = {}
    /\ Goto("idle", "drain")
    /\ outcome' = IF pending # {} /\ ~stop THEN "impossible" ELSE "return"
    /\ UNCHANGED <<queue, ledger, collect, future, flags, interrupts>>

StartWait ==
    /\ running # {}
    /\ Goto("idle", "wait")
    /\ UNCHANGED <<queue, ledger, collect, future, flags, ending>>

WaitTakesAll ==
    /\ \E j \in running : Done(j)
    /\ Goto("wait", "collect")
    /\ completed' = running
    /\ UNCHANGED <<queue, ledger, current, got, results, future, flags, ending>>

(* wait(FIRST_COMPLETED) returns every tracked future that is done by then. *)
Wait ==
    /\ \E j \in running : Done(j)
    /\ Goto("wait", "collect")
    /\ completed' = {j \in running : Done(j)}
    /\ UNCHANGED <<queue, ledger, current, got, results, future, flags, ending>>

PopCompletedKeepsRunning(j) ==
    /\ j \in completed
    /\ Goto("collect", "release")
    /\ current' = j
    /\ completed' = completed \ {j}
    /\ UNCHANGED <<queue, ledger, got, results, future, flags, ending>>

PopCompleted(j) ==
    /\ j \in completed
    /\ Goto("collect", "release")
    /\ current' = j
    /\ completed' = completed \ {j}
    /\ running' = running \ {j}
    /\ UNCHANGED <<queue, usedCpu, usedIo, held, got, results, future, flags, ending>>

CollectDone ==
    /\ completed = {}
    /\ Goto("collect", "loop")
    /\ UNCHANGED <<queue, ledger, collect, future, flags, ending>>

ReleaseForgetsIo ==
    /\ Goto("release", "result")
    /\ usedCpu' = usedCpu - CpuTokens[current]
    /\ held' = held \ {current}
    /\ UNCHANGED <<queue, running, usedIo, collect, future, flags, ending>>

Release ==
    /\ Goto("release", "result")
    /\ usedCpu' = usedCpu - CpuTokens[current]
    /\ usedIo' = usedIo - IoTokens[current]
    /\ held' = held \ {current}
    /\ UNCHANGED <<queue, running, collect, future, flags, ending>>

GetResult ==
    /\ Goto("result", "append")
    /\ got' = future[current]
    /\ UNCHANGED <<queue, ledger, completed, current, results, future, flags, ending>>

AppendResult ==
    /\ Goto("append", "notifyFinish")
    /\ results' = Append(results, <<current, got>>)
    /\ UNCHANGED <<queue, ledger, completed, current, got, future, flags, ending>>

(* fail_fast_predicate of runner.py: an exception or status "failed".       *)
Fatal(v) == FailFast /\ v \in {"failed", "exception", "keyboard"}

NotifyFinishWithoutStop ==
    /\ Goto("notifyFinish", "collect")
    /\ current' = None
    /\ got' = "none"
    /\ UNCHANGED <<queue, ledger, completed, results, future, flags, ending>>

(* event("finished", job), then the fail-fast test.                         *)
NotifyFinish ==
    /\ Goto("notifyFinish", "collect")
    /\ stop' = (stop \/ Fatal(got))
    /\ current' = None
    /\ got' = "none"
    /\ UNCHANGED <<queue, ledger, completed, results, future, interruptEvt,
                   interrupted, ending>>

(* on_event raises: not a KeyboardInterrupt, so it leaves the loop.         *)
CallbackRaises ==
    /\ CallbackMayRaise
    /\ pc \in {"notifyStart", "notifyFinish"}
    /\ pc' = "drain"
    /\ outcome' = "callback"
    /\ UNCHANGED <<queue, ledger, collect, future, flags, interrupts>>
-----------------------------------------------------------------------------
CanInterrupt == interrupts < MaxInterrupts /\ interrupts' = interrupts + 1

(* The locals of the abandoned iteration are forgotten; the ledger is not.  *)
InterruptInTry ==
    /\ CanInterrupt
    /\ pc \in InTry
    /\ pc' = "handler"
    /\ selected' = None
    /\ completed' = {}
    /\ current' = None
    /\ got' = "none"
    /\ UNCHANGED <<pending, aged, ledger, results, future, flags, outcome>>

(* Inside the inner try around future.result(): except BaseException takes  *)
(* it for the outcome of the job.                                           *)
InterruptInResult ==
    /\ CanInterrupt
    /\ Goto("result", "append")
    /\ got' = "keyboard"
    /\ UNCHANGED <<queue, ledger, completed, current, results, future, flags, outcome>>

Handle ==
    /\ Goto("handler", "interrupting")
    /\ interrupted' = TRUE
    /\ stop' = TRUE
    /\ interruptEvt' = TRUE
    /\ UNCHANGED <<queue, ledger, collect, future, ending>>

(* interrupt(), which is SevenZip.interrupt_all: module SevenZip.           *)
CallInterrupt ==
    /\ Goto("interrupting", "loop")
    /\ UNCHANGED <<queue, ledger, collect, future, flags, ending>>

(* A second Ctrl-C in the handler, or one between two iterations, leaves    *)
(* run() through the pool's __exit__.                                       *)
InterruptOutsideTry ==
    /\ CanInterrupt
    /\ pc \in InHandler \union {"loop"}
    /\ pc' = "drain"
    /\ outcome' = "interrupt"
    /\ UNCHANGED <<queue, ledger, collect, future, flags>>

(* The pool's shutdown(wait=True) joins the workers; Ctrl-C ends the join.  *)
Drain ==
    /\ AliveJobs = {}
    /\ Goto("drain", "ended")
    /\ UNCHANGED <<queue, ledger, collect, future, flags, ending>>

InterruptInDrain ==
    /\ CanInterrupt
    /\ Goto("drain", "ended")
    /\ outcome' = "interrupt"
    /\ UNCHANGED <<queue, ledger, collect, future, flags>>
-----------------------------------------------------------------------------
(* A pool thread takes a job.  Both executors look at interrupt_event       *)
(* before anything else (create.py, extract.py: execute_job).               *)
WorkerStart(j) ==
    /\ future[j] = "queued"
    /\ Cardinality({k \in Job : future[k] = "executing"}) < MaxProcesses
    /\ future' = [future EXCEPT ![j] = IF interruptEvt THEN "interrupted"
                                                       ELSE "executing"]
    /\ UNCHANGED <<pc, queue, ledger, collect, flags, ending>>

WorkerFinish(j) ==
    /\ future[j] = "executing"
    /\ \E v \in WorkerValues \union (IF interruptEvt THEN {"interrupted"} ELSE {}) :
          future' = [future EXCEPT ![j] = v]
    /\ UNCHANGED <<pc, queue, ledger, collect, flags, ending>>

(* stop(), called by another thread.                                        *)
Stop ==
    /\ ExternalStop
    /\ pc # "ended"
    /\ ~stop
    /\ stop' = TRUE
    /\ UNCHANGED <<pc, queue, ledger, collect, future, interruptEvt,
                   interrupted, ending>>

(* The run is over; nothing is left to do.                                  *)
Ended ==
    /\ pc = "ended"
    /\ AliveJobs = {}
    /\ UNCHANGED vars

Main ==
    \/ Loop \/ LoopDone \/ (\E j \in pending : Select(j)) \/ Charge \/ Submit
    \/ Track \/ NotifyStart \/ StopStarting \/ Idle \/ StartWait \/ Wait
    \/ (\E j \in completed : PopCompleted(j)) \/ CollectDone \/ Release
    \/ GetResult \/ AppendResult \/ NotifyFinish \/ CallbackRaises
    \/ Handle \/ CallInterrupt \/ Drain

Interrupt == \/ InterruptInTry \/ InterruptInResult \/ InterruptOutsideTry
             \/ InterruptInDrain

Worker(j) == WorkerStart(j) \/ WorkerFinish(j)

Next == \/ Main \/ Interrupt \/ Stop \/ Ended
        \/ \E j \in Job : Worker(j) \/ Age(j)

Spec == Init /\ [][Next]_vars

(* The interpreter runs the main thread and every pool thread; a worker     *)
(* ends because its 7-Zip child does (no time limit is set on it).          *)
Fairness == /\ WF_vars(Main)
            /\ \A j \in Job : WF_vars(Worker(j))

FairSpec == Spec /\ Fairness
-----------------------------------------------------------------------------
(* Safety.  Whatever the interleaving and wherever Ctrl-C lands, the jobs   *)
(* whose workers are queued or executing fit the three budgets together:    *)
(* tokens go back only once the future that held them is done.              *)
BudgetsRespected == WithinBudgets(AliveJobs)

(* Safety.  Unless an interruption abandoned an iteration, the counters     *)
(* usedCpu and usedIo are exactly what the jobs in `running' take whenever  *)
(* fits() can read them: no token is lost or given back twice.              *)
LedgerMatchesRunning ==
    (pc \in {"loop", "start", "idle", "wait"} /\ ~interrupted) =>
        /\ usedCpu = Cost(CpuTokens, running)
        /\ usedIo = Cost(IoTokens, running)

(* Safety.  "can never fit scheduler resources" is raised only when a job   *)
(* still queued is larger than an entire budget, never because tokens or    *)
(* processes were still accounted to jobs that had ended.                   *)
ImpossibleOnlyIfOversized ==
    outcome = "impossible" => \E j \in pending : ~WithinBudgets({j})

(* Safety.  Backfilling never lets a job overtake one that comes earlier in *)
(* sort_key order and needs no more of any resource.                        *)
NoSmallerOvertaken ==
    \A j, k \in Job :
        (/\ Before(k, j)
         /\ CpuTokens[k] =< CpuTokens[j]
         /\ IoTokens[k] =< IoTokens[j]
         /\ k \in pending)
        => j \in pending

Reported == {results[i][1] : i \in DOMAIN results}

(* Safety.  A job is reported at most once, only after its worker ended,    *)
(* and with what the worker returned or the interruption caught instead.    *)
ResultsFaithful ==
    /\ \A i, k \in DOMAIN results : results[i][1] = results[k][1] => i = k
    /\ \A i \in DOMAIN results :
          Done(results[i][1]) /\ results[i][2] \in {future[results[i][1]], "keyboard"}

(* Safety.  A run that returns without having handled an interruption       *)
(* reports every job it ever submitted, and only a stop leaves jobs over.   *)
ReturnReportsAll ==
    (pc = "ended" /\ outcome = "return" /\ ~interrupted) =>
        /\ \A j \in Job : j \in Reported <=> future[j] # "none"
        /\ ~stop => Reported = Job

NewlySubmitted == {j \in Job : future[j] = "none" /\ future'[j] # "none"}

(* Action.  Once the report shows a fatal result under fail-fast, or an     *)
(* interruption, no further job reaches the pool, the one being admitted    *)
(* when Ctrl-C arrived included.                                            *)
NoStartOnceStopping ==
    [][(interrupted \/ \E i \in DOMAIN results : Fatal(results[i][2]))
       => NewlySubmitted = {}]_vars

(* Action.  While an aged job heads the queue, nothing else leaves it.      *)
AgedHeadReserved ==
    [][\A h \in aged : IsHead(h) => pending' \in {pending, pending \ {h}}]_vars

(* Liveness.  Every run comes to an end, by returning or by raising, also   *)
(* when it was interrupted or stopped with jobs still queued.               *)
Termination == <>(pc = "ended")

(* Action.  The manual, section 8: "Interruption stops new starts": once    *)
(* Ctrl-C was delivered no further job is submitted.                        *)
InterruptStopsStarts == [][interrupts > 0 => NewlySubmitted = {}]_vars

(* The refinement mapping: each future is one abstract job life.            *)
Phase == [j \in Job |-> IF future[j] = "none" THEN "waiting"
                        ELSE IF future[j] \in Alive THEN "running"
                        ELSE "finished"]

Lifecycle == INSTANCE JobLifecycle WITH phase <- Phase, Allowed <- WithinBudgets

(* Refinement.  Every run is a run of JobLifecycle: a job is submitted once *)
(* and only while it fits the budgets together with all that are not done,  *)
(* and every job submitted ends, interruptions and exceptions included.     *)
ImplementsLifecycle == Lifecycle!Spec
=============================================================================
