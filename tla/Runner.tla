-------------------------------- MODULE Runner --------------------------------
(***************************************************************************)
(* execute_manifest of runner.py around one run of the scheduler: the      *)
(* budgets it hands over, the result record of every job, their order, the *)
(* summary, and the exit code that main of cli.py ends with.               *)
(***************************************************************************)
EXTENDS Integers, Sequences, FiniteSets, FiniteSetsExt

CONSTANTS N, CpuTokens, IoTokens, CpuBudget,
          Priority, ProfileRank, Weight, PlanIndex,
          WorkerValues, FailFast, CallbackMayRaise, ExternalStop, MaxInterrupts,
          ConfigMaxProcesses, ConfigIoSlots,
          SequentialBelow,   (* sequential_if_total_below, 0 when off       *)
          SourceSize,        (* source.size of each job                     *)
          Schema,            (* _input_schema_version of each job           *)
          Warned             (* jobs whose record carries warnings already  *)

(* A checked manifest and a checked configuration; nothing but the run     *)
(* itself stops the scheduler that execute_manifest makes.                  *)
ASSUME RunnerAssumption ==
    /\ N \in Nat
    /\ CpuTokens \in [1..N -> Nat \ {0}]
    /\ IoTokens \in [1..N -> Nat \ {0}]
    /\ CpuBudget \in Nat \ {0}
    /\ ConfigIoSlots \in Nat \ {0}
    /\ ConfigMaxProcesses \in Nat \ {0}
    /\ Priority \in [1..N -> Int]
    /\ ProfileRank \in [1..N -> Nat]
    /\ Weight \in [1..N -> Nat]
    /\ PlanIndex \in [1..N -> Nat]
    /\ WorkerValues \subseteq {"success", "successWarned", "warning", "skipped", "failed",
                            "exception"}
    /\ FailFast \in BOOLEAN
    /\ CallbackMayRaise \in BOOLEAN
    /\ ExternalStop = FALSE
    /\ MaxInterrupts \in Nat
    /\ SequentialBelow \in Nat

VARIABLES pc, pending, aged, selected, running, usedCpu, usedIo, completed,
          current, got, future, results, stop, interruptEvt, interrupted,
          outcome, interrupts, held,
          phase,     (* "running", then "exited"                            *)
          report,    (* the result records written, in order                *)
          exitCode   (* of the process; -1 while it runs                    *)

-----------------------------------------------------------------------------
TotalSize == MapThenSumSet(LAMBDA j : SourceSize[j], 1..N)

IsSmallBatch == SequentialBelow > 0 /\ TotalSize =< SequentialBelow

MaxProcesses == IF IsSmallBatch THEN 1 ELSE ConfigMaxProcesses
IoSlots == IF IsSmallBatch THEN 1 ELSE ConfigIoSlots

S == INSTANCE Scheduler

Job == S!Job

(* all of Scheduler's but interrupts                                        *)
schedulerVars == <<pc, pending, aged, selected, running, usedCpu, usedIo, completed,
                   current, got, future, results, stop, interruptEvt, interrupted,
                   outcome, held>>
runnerVars == <<phase, report, exitCode>>
vars == <<schedulerVars, interrupts, runnerVars>>

Record == [job : Job,
           status : {"success", "warning", "failed", "skipped", "interrupted"},
           started : BOOLEAN,  (* FALSE: the record says "not started"      *)
           warned : BOOLEAN]   (* its list of warnings is not empty         *)

TypeOK ==
    /\ phase \in {"running", "exited"}
    /\ report \in Seq(Record)
    /\ exitCode \in {-1, 0, 1, 2, 130}
    /\ phase = "running" => report = << >> /\ exitCode = -1

Init == S!Init /\ phase = "running" /\ report = << >> /\ exitCode = -1
-----------------------------------------------------------------------------
FromWorkerVerbatim(j, v) ==
    [job |-> j, status |-> v, started |-> TRUE, warned |-> v # "success" \/ j \in Warned]

(* The record of a job the scheduler reports; an exception is "failed".     *)
FromWorker(j, v) ==
    [job |-> j,
     status |-> IF v \in {"exception", "keyboard"} THEN "failed"
                ELSE IF v = "successWarned" THEN "success" ELSE v,
     started |-> TRUE,
     warned |-> v # "success" \/ j \in Warned]

NotStartedSkipped(j) ==
    [job |-> j, status |-> "skipped", started |-> FALSE, warned |-> TRUE]

NotStarted(j) ==
    [job |-> j,
     status |-> IF interrupted THEN "interrupted" ELSE "skipped",
     started |-> FALSE,
     warned |-> TRUE]

(* The elements of a finite set, each before the ones it precedes.          *)
InOrder(set, Precedes(_, _)) ==
    LET places == 1..Cardinality(set)
    IN  CHOOSE s \in [places -> set] :
            \A i, k \in places : i < k => Precedes(s[i], s[k])

(* The jobs still in the queue instead of those without a result.           *)
UnstartedFromQueue == InOrder(pending, LAMBDA j, k : j < k)

Unstarted == InOrder(Job \ S!Reported, LAMBDA j, k : j < k)

Records ==
    [i \in DOMAIN results |-> FromWorker(results[i][1], results[i][2])]
    \o [i \in DOMAIN Unstarted |-> NotStarted(Unstarted[i])]

ManifestBefore(r, s) ==
    \/ PlanIndex[r.job] < PlanIndex[s.job]
    \/ PlanIndex[r.job] = PlanIndex[s.job] /\ r.job < s.job

OrderedByCompletion(rs) == rs

(* Plan order, except that a manifest of v1 records only keeps the order    *)
(* in which the jobs completed.                                             *)
Ordered(rs) ==
    IF \E j \in Job : Schema[j] # 1
    THEN LET place == InOrder(DOMAIN rs, LAMBDA i, k : ManifestBefore(rs[i], rs[k]))
         IN  [i \in DOMAIN rs |-> rs[place[i]]]
    ELSE rs

Count(rs, status) == Cardinality({i \in DOMAIN rs : rs[i].status = status})

Summary(rs) ==
    [total |-> Len(rs), success |-> Count(rs, "success"),
     warning |-> Count(rs, "warning"), failed |-> Count(rs, "failed"),
     skipped |-> Count(rs, "skipped"), interrupted |-> Count(rs, "interrupted")]

ExitCodeWarningFirst(rs) ==
    LET statuses == {rs[i].status : i \in DOMAIN rs}
    IN  IF "interrupted" \in statuses THEN 130
        ELSE IF {"warning", "skipped"} \intersect statuses # {} THEN 1
        ELSE IF "failed" \in statuses THEN 2
        ELSE 0

ResultExitCode(rs) ==
    LET statuses == {rs[i].status : i \in DOMAIN rs}
    IN  IF "interrupted" \in statuses THEN 130
        ELSE IF "failed" \in statuses THEN 2
        ELSE IF \/ {"warning", "skipped"} \intersect statuses # {}
                \/ \E i \in DOMAIN rs : rs[i].warned
             THEN 1
        ELSE 0
-----------------------------------------------------------------------------
Exit(rs, code) ==
    /\ phase = "running"
    /\ pc = "ended"
    /\ phase' = "exited"
    /\ report' = rs
    /\ exitCode' = code
    /\ UNCHANGED schedulerVars

(* scheduler.run returned: build, order, sum up and write the records.      *)
Report ==
    /\ outcome = "return"
    /\ LET rs == Ordered(Records) IN Exit(rs, ResultExitCode(rs))
    /\ UNCHANGED interrupts

(* Ctrl-C, in run() or in what follows it before the records are written.   *)
ExitInterrupted ==
    /\ \/ outcome = "interrupt" /\ UNCHANGED interrupts
       \/ outcome = "return" /\ S!CanInterrupt
    /\ Exit(<< >>, 130)

(* ValueError, or what on_event raised: a traceback and no record at all.   *)
ExitTraceback ==
    /\ outcome \in {"impossible", "callback"}
    /\ Exit(<< >>, 1)
    /\ UNCHANGED interrupts

Next == \/ S!Next /\ UNCHANGED runnerVars
        \/ Report \/ ExitInterrupted \/ ExitTraceback

Spec == Init /\ [][Next]_vars
-----------------------------------------------------------------------------
Written == report # << >>

(* Safety.  The records written hold every job of the manifest once, and    *)
(* the five counts of the summary add up to the number of jobs, whichever   *)
(* jobs ended, failed, were skipped or were cut off by an interruption.     *)
ReportComplete ==
    Written =>
        LET s == Summary(report) IN
        /\ \A j \in Job : \E i \in DOMAIN report : report[i].job = j
        /\ s.total = N
        /\ s.success + s.warning + s.failed + s.skipped + s.interrupted = N

(* Safety.  The exit code agrees with what the workers did, not only with   *)
(* the records: 0 means every job succeeded, 0 or 1 that none failed, 130   *)
(* that Ctrl-C was pressed (manual, section 10.3).                          *)
ExitCodeTruthful ==
    Written =>
        /\ exitCode = 0 => \A j \in Job : future[j] = "success" /\ j \notin Warned
        /\ exitCode \in {0, 1} => \A j \in Job : future[j] \notin {"failed", "exception"}
        /\ exitCode = 130 => interrupts > 0

(* Safety.  A job skipped "due to --fail-fast" was never handed to a        *)
(* worker, and some other job did fail.                                     *)
SkippedNeverRan ==
    \A i \in DOMAIN report :
        (~report[i].started /\ report[i].status = "skipped") =>
            /\ future[report[i].job] = "none"
            /\ \E k \in DOMAIN report : report[k].status = "failed"

(* Safety.  Unless the manifest is all v1, the records are in plan order    *)
(* whatever the order in which the jobs ended.                              *)
PlanOrder ==
    (\E j \in Job : Schema[j] # 1) =>
        \A i, k \in DOMAIN report : i < k => ManifestBefore(report[i], report[k])

(* Safety.  A batch whose sources are no larger in all than the threshold,  *)
(* one of exactly that size included, runs one job at a time.               *)
SmallBatchIsSequential ==
    (SequentialBelow > 0 /\ TotalSize =< SequentialBelow) => Cardinality(S!AliveJobs) =< 1

(* Safety.  "execution writes results followed by a summary" (README), and  *)
(* exit codes 0, 1 and 2 tell of jobs (manual, section 10.3): a process     *)
(* that ends with one of them has written its records.                      *)
ExitHasReport == exitCode \in {0, 1, 2} => Written

(* Safety.  The record "not started after interruption" is true: a job it   *)
(* names has not run to success behind the report's back.                   *)
NotStartedIsTrue ==
    \A i \in DOMAIN report :
        ~report[i].started => future[report[i].job] # "success"
=============================================================================
