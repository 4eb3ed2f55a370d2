-------------------------- MODULE CommandLineProofs --------------------------
(***************************************************************************)
(* What holds of the command line for every set of scenarios, edits and    *)
(* foreign changes: the jobs a manifest is run with fit the budgets, are   *)
(* distinct and are those planned but for what may be edited; a creation   *)
(* starts from the tree it was planned for; settings and detected storage  *)
(* decide the slots; exit codes account for every input; a plan is         *)
(* accepted, validated to one trace, and has one job per archive.          *)
(***************************************************************************)
EXTENDS CommandLine, StorageProofs

(* There are no runtime jobs before a validation has handed them over.      *)
Idle == pc \notin {"execute", "check", "ended"} => runtime = << >>

(* A process that went past _config_from_args has positive budgets.         *)
Budgeted ==
    pc \notin {"config", "manifest", "ended"} =>
        /\ IntFields \subseteq DOMAIN config
        /\ config.cpu_budget \in Nat \ {0} /\ config.heavy_threads \in Nat \ {0}

(* The jobs of a plan and the records of a manifest are in sequence.        *)
Listed == jobs \in Seq(ToSet(jobs)) /\ records \in Seq(ToSet(records))

(* What nobody edited is as a planner wrote it.                             *)
Unedited ==
    /\ \A i \in DOMAIN jobs : AsPlanned(jobs[i])
    /\ \A origin \in Origins : AsPlanned(origin)

(* Every record still carries the hash of a planned one, unless somebody    *)
(* computed it anew.                                                        *)
Traced ==
    ~restamped => \A i \in DOMAIN records : \E origin \in Origins :
                      records[i].integrity = origin.integrity

Handed == HandedOverFits /\ DistinctJobs /\ OnlyAllowlistEdited

IInv == scenario \in Scenarios /\ Idle /\ Budgeted /\ Listed /\ Unedited /\ Traced /\ Handed

-----------------------------------------------------------------------------
(* A sequence is one of its own elements.                                   *)
LEMMA OfItsElements ==
    ASSUME NEW S, NEW s \in Seq(S)
    PROVE  s \in Seq(ToSet(s))
<1>1. /\ Len(s) \in Nat /\ DOMAIN s = 1..Len(s) /\ s = [i \in 1..Len(s) |-> s[i]]
      /\ \A i \in 1..Len(s) : s[i] \in ToSet(s)
  BY DEF ToSet
<1> QED  BY <1>1

(* While no jobs are handed over there is nothing to show of them.          *)
LEMMA NothingHanded ==
    ASSUME runtime' = << >>
    PROVE  Handed'
BY DEF Handed, HandedOverFits, DistinctJobs, OnlyAllowlistEdited

(* Steps that touch neither plan, manifest nor settings, and leave no jobs  *)
(* behind when they leave the places where there are some.                  *)
LEMMA Harmless ==
    ASSUME IInv,
           UNCHANGED <<scenario, config, jobs, records, runtime, planned, restamped>>,
           pc' \notin {"execute", "check", "ended"} => pc \notin {"execute", "check", "ended"},
           pc' \notin {"config", "manifest", "ended"} => pc \notin {"config", "manifest", "ended"}
    PROVE  IInv'
<1>1. Idle' /\ Budgeted'
  BY DEF IInv, Idle, Budgeted
<1>2. Origins' = Origins
  BY DEF Origins
<1>3. Listed' /\ Unedited' /\ Traced'
  BY <1>2 DEF IInv, Listed, Unedited, Traced
<1>4. HandedOverFits' /\ DistinctJobs'
  BY DEF IInv, Handed, HandedOverFits, DistinctJobs
<1>5. OnlyAllowlistEdited'
  BY <1>2 DEF IInv, Handed, OnlyAllowlistEdited
<1> QED  BY <1>1, <1>3, <1>4, <1>5 DEF IInv, Handed

(* The jobs that validate_manifest hands over.                              *)
LEMMA ValidHanded ==
    ASSUME IInv,
           config.cpu_budget \in Nat \ {0},
           Validate(records, config, TRUE).verdict = "valid",
           runtime' = Validate(records, config, TRUE).jobs,
           UNCHANGED <<scenario, config, records, planned, restamped>>
    PROVE  Handed'
<1>1. CASE runtime' = << >>
  BY <1>1, NothingHanded
<1>2. CASE /\ runtime' = RuntimeJobs(records, config)
           /\ \A i \in DOMAIN records : Verdict(records[i], config, TRUE) = "valid"
  <2>1. HandedOverFits'
    BY <1>2, ValidFits DEF HandedOverFits, Fits, RuntimeJobs
  <2>2. DistinctJobs'
    <3>1. records \in Seq(ToSet(records))
      BY DEF IInv, Listed
    <3> DEFINE made == Validate(records, config, TRUE).jobs
    <3>2. ASSUME NEW i \in DOMAIN made, NEW k \in DOMAIN made, i # k
          PROVE  /\ made[i].job_id # made[k].job_id
                 /\ PathKey(made[i].destination) # PathKey(made[k].destination)
      BY <3>1, <3>2, ValidDistinct
    <3> HIDE DEF made
    <3>3. runtime' = made
      BY DEF made
    <3> QED  BY <3>2, <3>3 DEF DistinctJobs, PathKey
  <2>3. OnlyAllowlistEdited'
    <3>1. SUFFICES ASSUME ~restamped, NEW i \in DOMAIN records
                   PROVE  \E origin \in Origins : EditedAsAllowed(origin, Runtime(records[i], config))
      BY <1>2 DEF OnlyAllowlistEdited, Origins, RuntimeJobs
    <3>2. PICK origin \in Origins : records[i].integrity = origin.integrity
      BY <3>1 DEF IInv, Traced
    <3>3. AsPlanned(origin) /\ Verdict(records[i], config, TRUE) = "valid"
      BY <1>2 DEF IInv, Unedited
    <3> DEFINE made == Runtime(records[i], config)
    <3>4. /\ \A f \in Untouched \ {"destination", "profile"} : made[f] = origin[f]
          /\ made.profile = origin.profile \/ made.reason = "manifest-override"
          /\ IsPrefix(origin.warnings, made.warnings)
      BY <3>2, <3>3, ValidKeepsPlan
    <3> HIDE DEF made
    <3>5. \A f \in {"operation", "job_id", "plan_index", "path", "identity", "encrypted",
                   "io_tokens"} : made[f] = origin[f]
      BY <3>4 DEF Untouched
    <3>6. EditedAsAllowed(origin, made)
      BY <3>4, <3>5, Zenon DEF EditedAsAllowed
    <3> QED  BY <3>6 DEF made
  <2> QED  BY <2>1, <2>2, <2>3 DEF Handed
<1> QED  BY <1>1, <1>2, AllOrNone, Zenon
-----------------------------------------------------------------------------
(* The initial state satisfies the inductive invariant.                     *)
LEMMA InitIInv == ASSUME Init PROVE IInv
<1>1. scenario \in Scenarios /\ Idle /\ Budgeted
  BY DEF Init, Idle, Budgeted
<1>2. ToSet(<< >>) = {}
  BY DEF ToSet
<1>3. jobs = << >> /\ records = << >> /\ planned = << >> /\ runtime = << >>
  BY DEF Init
<1>4. Listed /\ Traced
  BY <1>2, <1>3 DEF Listed, Traced
<1>5. Origins = ToSet(scenario.extra)
  BY <1>2, <1>3 DEF Origins
<1>6. Unedited
  BY <1>1, <1>3, <1>5, ScenariosAssumption DEF Unedited
<1>7. Handed
  BY <1>3 DEF Handed, HandedOverFits, DistinctJobs, OnlyAllowlistEdited
<1> QED  BY <1>1, <1>4, <1>6, <1>7 DEF IInv

(* Every way of reading the configuration yields a CPU budget.              *)
LEMMA ConfigureIInv == ASSUME IInv, Configure PROVE IInv'
<1>1. /\ pc = "config" /\ runtime = << >>
      /\ UNCHANGED <<scenario, jobs, records, runtime, planned, restamped>>
  BY DEF IInv, Idle, Configure, plan, run, history
<1>2. Idle' /\ Handed'
  BY <1>1, NothingHanded DEF Idle
<1>3. Budgeted'
  <2>1. CASE Resolvable(layers)
    BY <2>1, ResolvedBudget DEF Configure, Budgeted, IntFields
  <2>2. CASE ~Resolvable(layers)
    BY <2>2 DEF Configure, Raise, Exit, Budgeted
  <2> QED  BY <2>1, <2>2
<1>4. Listed' /\ Unedited' /\ Traced'
  BY <1>1 DEF IInv, Listed, Unedited, Traced, Origins
<1> QED  BY <1>1, <1>2, <1>3, <1>4 DEF IInv

(* A plan grows by a job as planned.                                        *)
LEMMA GrownPlan ==
    ASSUME IInv, NEW job, AsPlanned(job),
           pc \in {"planning", "inventory"}, pc' \in {"planning", "inventory"},
           jobs' = Append(jobs, job),
           UNCHANGED <<scenario, config, records, runtime, planned, restamped>>
    PROVE  IInv'
<1>1. Idle' /\ Budgeted' /\ runtime' = << >>
  BY DEF IInv, Idle, Budgeted
<1>2. jobs' \in Seq(ToSet(jobs) \union {job})
  BY DEF IInv, Listed
<1>3. Listed'
  BY <1>2, OfItsElements DEF IInv, Listed
<1>4. \A i \in DOMAIN jobs' : AsPlanned(jobs'[i])
  BY DEF IInv, Listed, Unedited
<1>5. Origins' = Origins
  BY DEF Origins
<1>6. Unedited' /\ Traced'
  BY <1>4, <1>5 DEF IInv, Unedited, Traced
<1> QED  BY <1>1, <1>3, <1>6, NothingHanded DEF IInv

(* Planning an extraction adds a faultless job, or none.                    *)
LEMMA PlanExtractIInv == ASSUME IInv, PlanExtract PROVE IInv'
<1>1. /\ pc = "planning" /\ pc' = pc
      /\ UNCHANGED <<scenario, config, records, runtime, planned, restamped>>
  BY DEF PlanExtract, Planning, process, run, history
<1>2. CASE UNCHANGED jobs
  BY <1>1, <1>2, Harmless
<1>3. CASE \E job : Faultless(job) /\ jobs' = Append(jobs, job)
  BY <1>1, <1>3, GrownPlan DEF Faultless
<1>4. config.heavy_threads \in Nat \ {0} /\ config.cpu_budget \in Nat \ {0}
  BY <1>1 DEF IInv, Budgeted
<1> QED  BY <1>2, <1>3, <1>4, ExtractAsPlanned, Zenon DEF PlanExtract

(* So does the end of an inventory.                                         *)
LEMMA PlanCreateEndIInv == ASSUME IInv, PlanCreateEnd PROVE IInv'
<1>1. /\ pc = "inventory" /\ pc' = "planning"
      /\ UNCHANGED <<scenario, config, records, runtime, planned, restamped>>
  BY DEF PlanCreateEnd, process, run, history
<1>2. CASE UNCHANGED jobs
  BY <1>1, <1>2, Harmless
<1>3. CASE \E job : Faultless(job) /\ jobs' = Append(jobs, job)
  BY <1>1, <1>3, GrownPlan DEF Faultless
<1>4. config.heavy_threads \in Nat \ {0} /\ config.cpu_budget \in Nat \ {0}
  BY <1>1 DEF IInv, Budgeted
<1> QED  BY <1>2, <1>3, <1>4, CreateAsPlanned, Zenon DEF PlanCreateEnd

(* The manifest is written from the plan, whose jobs are its origins.       *)
LEMMA ReportIInv == ASSUME IInv, Report PROVE IInv'
<1>1. /\ pc = "planning" /\ pc' \in {"ended", "manifest", "preflight"}
      /\ UNCHANGED <<scenario, config, jobs, runtime, restamped>>
  BY DEF Report, Exit, process, run
<1>2. runtime' = << >> /\ Idle' /\ Budgeted'
  BY <1>1 DEF IInv, Idle, Budgeted
<1>3. CASE UNCHANGED <<records, planned>>
  BY <1>1, <1>3, Harmless
<1>4. CASE records' = jobs /\ planned' = jobs
  <2>1. \A i \in DOMAIN jobs : jobs[i] \in Origins'
    BY <1>4 DEF Origins, ToSet
  <2>2. Listed' /\ Traced'
    BY <1>1, <1>4, <2>1 DEF IInv, Listed, Traced
  <2>3. Origins' = ToSet(jobs) \union ToSet(scenario.extra)
    BY <1>1, <1>4 DEF Origins
  <2>4. \A origin \in ToSet(jobs) : AsPlanned(origin)
    BY DEF IInv, Unedited, ToSet
  <2>5. \A origin \in ToSet(scenario.extra) : AsPlanned(origin)
    BY DEF IInv, Unedited, Origins
  <2>6. Unedited'
    BY <1>1, <2>3, <2>4, <2>5 DEF IInv, Unedited
  <2> QED  BY <1>1, <1>2, <2>2, <2>6, NothingHanded DEF IInv
<1> QED  BY <1>3, <1>4 DEF Report, Exit

(* Records that were in the manifest, or were at hand, keep it traced.      *)
LEMMA Inherited ==
    ASSUME IInv, Origins' = Origins, UNCHANGED restamped,
           records' \in Seq(ToSet(records) \union ToSet(scenario.extra))
    PROVE  records' \in Seq(ToSet(records')) /\ Traced'
<1>1. \A k \in DOMAIN records' : records'[k] \in ToSet(records) \union ToSet(scenario.extra)
  OBVIOUS
<1>2. ASSUME ~restamped', NEW k \in DOMAIN records'
      PROVE  \E origin \in Origins : records'[k].integrity = origin.integrity
  <2>1. CASE records'[k] \in ToSet(records)
    BY <1>2, <2>1 DEF IInv, Traced, ToSet
  <2>2. CASE records'[k] \in ToSet(scenario.extra)
    BY <2>2 DEF Origins
  <2> QED  BY <1>1, <1>2, <2>1, <2>2
<1> QED  BY <1>2, OfItsElements DEF Traced

(* What somebody does to the manifest leaves it with planned records,       *)
(* edited in the allowlist or not stamped again.                            *)
LEMMA EditIInv == ASSUME IInv, Edit PROVE IInv'
<1>1. /\ pc = "manifest" /\ pc' = pc
      /\ UNCHANGED <<scenario, config, jobs, runtime, planned>>
  BY DEF Edit, process, plan, run
<1>2. Idle' /\ Budgeted' /\ Handed' /\ Origins' = Origins
  BY <1>1, NothingHanded DEF IInv, Idle, Budgeted, Origins
<1>3. Unedited'
  BY <1>1, <1>2 DEF IInv, Unedited
<1>4. records \in Seq(ToSet(records))
  BY DEF IInv, Listed
<1>5. records' \in Seq(ToSet(records')) /\ Traced'
  <2>1. ASSUME NEW i \in DOMAIN records, NEW edited,
               records' = [records EXCEPT ![i] = edited],
               restamped' = (restamped \/ edited.integrity # records[i].integrity)
        PROVE  records' \in Seq(ToSet(records')) /\ Traced'
    <3>1. records' \in Seq(ToSet(records) \union {edited})
      BY <1>4, <2>1
    <3>2. \A k \in DOMAIN records' : ~restamped' => records'[k].integrity = records[k].integrity
      BY <2>1
    <3>3. DOMAIN records' = DOMAIN records
      BY <2>1
    <3>4. ~restamped' => ~restamped
      BY <2>1
    <3>5. Traced'
      BY <1>2, <3>2, <3>3, <3>4 DEF IInv, Traced
    <3> QED  BY <3>1, <3>5, OfItsElements
  <2>2. ASSUME NEW i \in DOMAIN records, records' = RemoveAt(records, i), UNCHANGED restamped
        PROVE  records' \in Seq(ToSet(records')) /\ Traced'
    <3>1. records' = SubSeq(records, 1, i - 1) \o SubSeq(records, i + 1, Len(records))
      BY <2>2 DEF RemoveAt
    <3>2. i \in 1..Len(records) /\ Len(records) \in Nat
      BY <1>4
    <3>3. /\ SubSeq(records, 1, i - 1) \in Seq(ToSet(records))
          /\ SubSeq(records, i + 1, Len(records)) \in Seq(ToSet(records))
      BY <1>4, <3>2
    <3>4. records' \in Seq(ToSet(records) \union ToSet(scenario.extra))
      BY <3>1, <3>3
    <3> QED  BY <1>2, <2>2, <3>4, Inherited
  <2>3. ASSUME NEW i \in DOMAIN records, records' = Append(records, records[i]),
               UNCHANGED restamped
        PROVE  records' \in Seq(ToSet(records')) /\ Traced'
    <3>1. records' \in Seq(ToSet(records) \union ToSet(scenario.extra))
      BY <1>4, <2>3 DEF ToSet
    <3> QED  BY <1>2, <2>3, <3>1, Inherited
  <2>4. ASSUME records' = records \o scenario.extra, UNCHANGED restamped
        PROVE  records' \in Seq(ToSet(records')) /\ Traced'
    <3>1. scenario.extra \in Seq(ToSet(scenario.extra))
      BY ScenariosAssumption DEF IInv
    <3>2. records' \in Seq(ToSet(records) \union ToSet(scenario.extra))
      BY <1>4, <2>4, <3>1
    <3> QED  BY <1>2, <2>4, <3>2, Inherited
  <2> QED  BY <2>1, <2>2, <2>3, <2>4 DEF Edit
<1> QED  BY <1>1, <1>2, <1>3, <1>5 DEF IInv, Listed

(* A second call starts from the manifest as it is.                         *)
LEMMA RerunIInv == ASSUME IInv, Rerun PROVE IInv'
<1>1. /\ pc = "manifest" /\ pc' = "config" /\ runtime = << >>
      /\ UNCHANGED <<scenario, jobs, records, runtime, planned, restamped>>
  BY DEF IInv, Idle, Rerun, plan, run, history
<1>2. Idle' /\ Budgeted' /\ Handed'
  BY <1>1, NothingHanded DEF Idle, Budgeted
<1>3. Listed' /\ Unedited' /\ Traced'
  BY <1>1 DEF IInv, Listed, Unedited, Traced, Origins
<1> QED  BY <1>1, <1>2, <1>3 DEF IInv

(* Observing the storage changes the number of I/O slots only.              *)
LEMMA ObserveIInv == ASSUME IInv, Observe PROVE IInv'
<1>1. /\ pc = "observe" /\ pc' = "validate" /\ runtime = << >>
      /\ UNCHANGED <<scenario, jobs, records, runtime, planned, restamped>>
  BY DEF IInv, Idle, Observe, plan, run, history
<1>2. \E slots : config' = [config EXCEPT !.io_slots = slots]
  BY DEF Observe
<1>3. Budgeted'
  <2>1. /\ DOMAIN config' = DOMAIN config
        /\ \A f \in DOMAIN config \ {"io_slots"} : config'[f] = config[f]
    BY <1>2
  <2> QED  BY <1>1, <2>1 DEF IInv, Budgeted, IntFields
<1>4. Idle' /\ Handed'
  BY <1>1, NothingHanded DEF Idle
<1>5. Listed' /\ Unedited' /\ Traced'
  BY <1>1 DEF IInv, Listed, Unedited, Traced, Origins
<1> QED  BY <1>1, <1>3, <1>4, <1>5 DEF IInv

(* A validation with the I/O budget hands over jobs or ends the process.    *)
LEMMA ValidatedIInv ==
    ASSUME IInv, pc \in {"preflight", "validate"},
           Validated(Validate(records, config, TRUE)),
           UNCHANGED <<scenario, config, jobs, records, planned, restamped>>
    PROVE  IInv'
<1>1. config.cpu_budget \in Nat \ {0} /\ runtime = << >> /\ Budgeted
  BY DEF IInv, Budgeted, Idle
<1>2. CASE Validate(records, config, TRUE).verdict = "valid"
  <2>1. pc' = "execute" /\ runtime' = Validate(records, config, TRUE).jobs
    BY <1>2 DEF Validated
  <2>2. Handed'
    BY <1>1, <1>2, <2>1, ValidHanded
  <2>3. Idle' /\ Budgeted'
    BY <1>1, <2>1 DEF Idle, Budgeted
  <2>4. Listed' /\ Unedited' /\ Traced'
    BY DEF IInv, Listed, Unedited, Traced, Origins
  <2> QED  BY <2>2, <2>3, <2>4 DEF IInv
<1>3. CASE Validate(records, config, TRUE).verdict # "valid"
  <2>1. pc' = "ended" /\ UNCHANGED runtime
    BY <1>3 DEF Validated, Raise, Exit
  <2> QED  BY <2>1, Harmless
<1> QED  BY <1>2, <1>3

(* The first validation hands over jobs only if nothing is to be observed.  *)
LEMMA PreflightIInv == ASSUME IInv, Preflight PROVE IInv'
<1>1. /\ pc = "preflight"
      /\ UNCHANGED <<scenario, config, jobs, records, planned, restamped>>
  BY DEF Preflight, process, plan, history
<1>2. CASE config.uses_auto_io_slots
  <2>1. pc' \in {"observe", "ended"} /\ UNCHANGED runtime
    BY <1>2 DEF Preflight, Raise, Exit
  <2> QED  BY <1>1, <2>1, Harmless
<1>3. CASE ~config.uses_auto_io_slots
  BY <1>1, <1>3, ValidatedIInv DEF Preflight
<1> QED  BY <1>2, <1>3

(* The validation after the observation hands over jobs within its slots.   *)
LEMMA RevalidateIInv == ASSUME IInv, Revalidate PROVE IInv'
<1>1. /\ pc = "validate"
      /\ UNCHANGED <<scenario, config, jobs, records, planned, restamped>>
  BY DEF Revalidate, process, plan, history
<1> QED  BY <1>1, ValidatedIInv DEF Revalidate, ValidateRecords

(* All other steps are harmless.                                            *)
LEMMA OtherIInv ==
    ASSUME IInv,
           \/ Collect \/ PlanCreateBegin \/ WalkStep
           \/ CheckExtract \/ CheckCreateBegin \/ CheckCreateEnd \/ Conclude
           \/ ForeignChange \/ UNCHANGED vars
    PROVE  IInv'
<1>1. CASE Collect \/ PlanCreateBegin \/ WalkStep
  BY <1>1, Harmless DEF Collect, Raise, Exit, PlanCreateBegin, Planning, WalkStep,
                        process, plan, run, history
<1>2. CASE CheckExtract \/ CheckCreateBegin \/ CheckCreateEnd \/ Conclude
  <2>1. /\ UNCHANGED <<scenario, config, jobs, records, runtime, planned, restamped>>
        /\ pc \in {"execute", "check"} /\ pc' \in {"execute", "check", "ended"}
    BY <1>2 DEF CheckExtract, CheckCreateBegin, CheckCreateEnd, Executing, Conclude, Exit,
                process, plan, run, history
  <2> QED  BY <2>1, Harmless
<1>3. CASE ForeignChange \/ UNCHANGED vars
  <2>1. UNCHANGED <<scenario, pc, config, jobs, records, runtime, planned, restamped>>
    BY <1>3 DEF ForeignChange, vars, process, plan, run, history
  <2> QED  BY <2>1, Harmless
<1> QED  BY <1>1, <1>2, <1>3

(* Every step keeps the inductive invariant.                                *)
LEMMA NextIInv == IInv /\ [Next]_vars => IInv'
BY ConfigureIInv, PlanExtractIInv, PlanCreateEndIInv, ReportIInv, EditIInv, RerunIInv,
   PreflightIInv, ObserveIInv, RevalidateIInv, OtherIInv DEF Next, Ended

(* The inductive invariant holds in every reachable state: main() of cli.py *)
(* carries records from the planner to the runner only through              *)
(* validate_manifest.                                                       *)
THEOREM Invariance == Spec => []IInv
<1>1. Init => IInv
  BY InitIInv
<1> QED  BY <1>1, NextIInv, PTL DEF Spec

(* HandedOverFits, of cli.py's _prepare_runtime_jobs: whatever is in the    *)
(* manifest and the settings, a job that is run fits the budgets.           *)
THEOREM JobsFitBudgets == Spec => []HandedOverFits
<1>1. IInv => HandedOverFits
  BY DEF IInv, Handed
<1> QED  BY <1>1, Invariance, PTL

(* DistinctJobs, of validate_manifest: no two jobs that are run have one id *)
(* or one destination.                                                      *)
THEOREM JobsAreDistinct == Spec => []DistinctJobs
<1>1. IInv => DistinctJobs
  BY DEF IInv, Handed
<1> QED  BY <1>1, Invariance, PTL

(* OnlyAllowlistEdited, of the integrity hash: a job that is run is one     *)
(* that was planned, but for the fields that may be edited.                 *)
THEOREM EditsStayInAllowlist == Spec => []OnlyAllowlistEdited
<1>1. IInv => OnlyAllowlistEdited
  BY DEF IInv, Handed
<1> QED  BY <1>1, Invariance, PTL
-----------------------------------------------------------------------------
(* Creations start from the tree in the manifest. While nothing has changed *)
(* since it began, the walk is a survey of the tree; a job whose source is  *)
(* being walked again keeps its output out of it.                           *)
Walking ==
    /\ DOMAIN walk = WalkFields
    /\ quiet /\ pc \in {"inventory", "check"} => Survey(tree, walk)

Checking ==
    pc = "check" =>
        /\ turn \in DOMAIN runtime /\ walk.root = runtime[turn].path
        /\ ~WithinOwnSource(runtime[turn].identity.kind, runtime[turn].path,
                            PathKey(runtime[turn].destination), config)

Recorded == started \in Seq(Statuses)

WInv == ProperTree(tree) /\ Walking /\ Checking /\ Recorded

(* Other programs leave a proper tree behind.                               *)
LEMMA ForeignKeepsProper ==
    ASSUME ProperTree(tree), ForeignChange
    PROVE  ProperTree(tree')
<1>1. PICK p \in DOMAIN tree, r \in Replacements :
        LET parent == Parent(p)
            below == {q \in DOMAIN tree : q # p /\ IsPrefix(p, q)}
            entry == [kind |-> r.kind, size |-> r.size, mtime |-> IF r.old THEN 0 ELSE clock']
        IN  /\ parent \in DOMAIN tree => tree[parent].kind = "directory"
            /\ tree' = [q \in DOMAIN tree |->
                IF q = p THEN entry
                ELSE IF q \in below THEN [kind |-> "absent", size |-> 0, mtime |-> 0]
                ELSE IF q = parent /\ ~(r.kind = "file" /\ tree[p].kind = "file" /\ ~r.old)
                THEN [tree[q] EXCEPT !.mtime = clock']
                ELSE tree[q]]
  BY DEF ForeignChange
<1> DEFINE below == {q \in DOMAIN tree : q # p /\ IsPrefix(p, q)}
<1>2. DOMAIN tree' = DOMAIN tree
  BY <1>1
<1>3. \A q \in below : tree'[q].kind = "absent"
  BY <1>1
<1>4. \A q \in DOMAIN tree : q # p /\ q \notin below => tree'[q].kind = tree[q].kind
  BY <1>1
<1>5. ASSUME NEW q \in DOMAIN tree, NEW a \in DOMAIN tree, IsPrefix(a, q), a # q,
             tree'[q].kind # "absent"
      PROVE  tree'[a].kind = "directory"
  <2>1. q \notin below
    BY <1>3, <1>5
  <2>2. a # p
    BY <1>5, <2>1
  <2>3. a \notin below
    <3>1. SUFFICES ASSUME IsPrefix(p, a), a # p PROVE FALSE
      OBVIOUS
    <3>2. IsPrefix(p, q)
      BY <1>5, <3>1, PrefixTransitive DEF ProperTree
    <3>3. p # q
      <4>1. /\ p \in Seq(ToSet(p)) /\ a \in Seq(ToSet(a)) /\ q \in Seq(ToSet(q))
        BY DEF ProperTree
      <4>2. SUFFICES ASSUME p = q PROVE a = p
        BY <3>1
      <4>3. Len(a) = Len(p) /\ \A i \in 1..Len(a) : a[i] = p[i]
        BY <1>5, <3>1, <4>1, <4>2, PrefixIs
      <4>4. a = [i \in 1..Len(a) |-> a[i]] /\ p = [i \in 1..Len(p) |-> p[i]]
        BY <4>1
      <4> QED  BY <4>3, <4>4
    <3> QED  BY <2>1, <3>2, <3>3
  <2>4. tree[a].kind = "directory"
    <3>1. CASE q # p
      BY <1>4, <1>5, <2>1, <3>1 DEF ProperTree
    <3>2. CASE q = p
      <4>1. q \in Seq(ToSet(q)) /\ a \in Seq(ToSet(a))
        BY DEF ProperTree
      <4>2. /\ Len(a) \in Nat /\ Len(q) \in Nat /\ Len(a) < Len(q)
            /\ \A i \in 1..Len(a) : a[i] = q[i]
        <5>1. /\ Len(a) \in Nat /\ Len(q) \in Nat /\ Len(a) =< Len(q)
              /\ \A i \in 1..Len(a) : a[i] = q[i]
          BY <1>5, <4>1, PrefixIs
        <5>2. a = [i \in 1..Len(a) |-> a[i]] /\ q = [i \in 1..Len(q) |-> q[i]]
          BY <4>1
        <5>3. Len(a) # Len(q)
          BY <1>5, <5>1, <5>2
        <5> QED  BY <5>1, <5>3
      <4>3. Parent(p) = SubSeq(q, 1, Len(q) - 1)
        BY <3>2 DEF Parent, Front
      <4>4. Len(q) - 1 \in Len(a)..Len(q)
        BY <4>2
      <4>5. Parent(p) \in DOMAIN tree
        BY <1>5, <4>3, <4>4 DEF ProperTree
      <4>6. tree[Parent(p)].kind = "directory"
        BY <1>1, <4>5
      <4>7. CASE Parent(p) = a
        BY <4>6, <4>7
      <4>8. CASE Parent(p) # a
        <5>1. Parent(p) \in Seq(ToSet(Parent(p)))
          BY <4>5 DEF ProperTree
        <5>2. /\ Len(Parent(p)) = Len(q) - 1
              /\ \A i \in 1..(Len(q) - 1) : Parent(p)[i] = q[i]
          <6> DEFINE n == Len(q) - 1
          <6>1. n \in 0..Len(q) /\ n \in Nat
            BY <4>2
          <6> HIDE DEF n
          <6>2. SubSeq(q, 1, n) \in Seq(ToSet(q)) /\ Len(SubSeq(q, 1, n)) = n
            BY <4>1, <6>1
          <6>3. \A i \in 1..n : SubSeq(q, 1, n)[i] = q[i]
            BY <4>1, <6>1
          <6> QED  BY <4>3, <6>2, <6>3 DEF n
        <5>3. /\ Len(a) =< Len(Parent(p))
              /\ \A i \in 1..Len(a) : a[i] = Parent(p)[i]
          BY <4>2, <5>2
        <5>4. IsPrefix(a, Parent(p))
          BY <4>1, <5>1, <5>3, PrefixIs
        <5> QED  BY <4>5, <4>6, <4>8, <5>4 DEF ProperTree
      <4> QED  BY <4>7, <4>8
    <3> QED  BY <3>1, <3>2
  <2> QED  BY <1>4, <2>2, <2>3, <2>4
<1> HIDE DEF below
<1> QED  BY <1>2, <1>5 DEF ProperTree

(* What no walk is, of which nothing is claimed.                            *)
LEMMA NoWalkFields == DOMAIN NoWalk = WalkFields
BY DEF NoWalk, WalkFields

(* Every step of the walk goes on with the survey.                          *)
LEMMA WalkStepWInv == ASSUME WInv, WalkStep PROVE WInv'
<1>1. /\ pc \in {"inventory", "check"}
      /\ UNCHANGED <<pc, turn, runtime, config, started, tree, quiet>>
  BY DEF WalkStep, process, run, world
<1>2. /\ DOMAIN walk' = WalkFields /\ walk'.root = walk.root
      /\ quiet => Survey(tree, walk')
  <2>1. ASSUME walk.phase = "scan", NEW d \in walk.pending, walk' = Scan(tree, walk, d)
        PROVE  /\ DOMAIN walk' = WalkFields /\ walk'.root = walk.root
               /\ quiet => Survey(tree, walk')
    <3>1. CASE quiet
      BY <1>1, <2>1, <3>1, ScanSurvey DEF WInv, Walking
    <3>2. DOMAIN walk = WalkFields
      BY DEF WInv, Walking
    <3>3. DOMAIN walk' = WalkFields /\ walk'.root = walk.root
      BY <2>1, <3>2, FailedSurvey DEF Scan, WalkFields
    <3> QED  BY <3>1, <3>3
  <2>2. ASSUME walk.phase = "restat", NEW p \in Unstatted(walk), walk' = Restat(tree, walk, p)
        PROVE  /\ DOMAIN walk' = WalkFields /\ walk'.root = walk.root
               /\ quiet => Survey(tree, walk')
    <3>1. CASE quiet
      BY <1>1, <2>2, <3>1, RestatSurvey DEF WInv, Walking
    <3>2. DOMAIN walk = WalkFields
      BY DEF WInv, Walking
    <3>3. DOMAIN walk' = WalkFields /\ walk'.root = walk.root
      BY <2>2, <3>2, FailedSurvey DEF Restat, WalkFields
    <3> QED  BY <3>1, <3>3
  <2>3. ASSUME walk.phase = "restat", Unstatted(walk) = {}, walk' = Finish(tree, walk)
        PROVE  /\ DOMAIN walk' = WalkFields /\ walk'.root = walk.root
               /\ quiet => Survey(tree, walk')
    <3>1. CASE quiet
      BY <1>1, <2>3, <3>1, FinishSurvey DEF WInv, Walking
    <3>2. DOMAIN walk' = WalkFields /\ walk'.root = walk.root
      BY <2>3, NoWalkFields, FailedSurvey DEF Finish, WalkFields
    <3> QED  BY <3>1, <3>2
  <2> QED  BY <2>1, <2>2, <2>3 DEF WalkStep
<1>3. Walking' /\ Checking'
  BY <1>1, <1>2 DEF WInv, Walking, Checking
<1> QED  BY <1>1, <1>3 DEF WInv, Recorded

(* A walk that begins has everything ahead of it.                           *)
LEMMA BeginWInv ==
    ASSUME WInv, NEW root,
           pc' \in {"inventory", "check"}, walk' = Begin(tree, root),
           UNCHANGED <<tree, started, runtime, turn, config>>,
           pc' = "check" =>
               /\ turn \in DOMAIN runtime /\ root = runtime[turn].path
               /\ ~WithinOwnSource(runtime[turn].identity.kind, root,
                                   PathKey(runtime[turn].destination), config)
    PROVE  WInv'
<1>1. Survey(tree, walk') /\ DOMAIN walk' = WalkFields /\ walk'.root = root
  BY BeginSurvey DEF WInv
<1>2. Walking' /\ Checking'
  BY <1>1 DEF Walking, Checking
<1> QED  BY <1>2 DEF WInv, Recorded

(* Steps outside of a walk keep what there is to know of one.               *)
LEMMA QuietWInv ==
    ASSUME WInv, pc' \notin {"inventory", "check"}, UNCHANGED tree,
           walk' \in {walk, NoWalk},
           started' \in {started} \union {Append(started, status) : status \in Statuses}
    PROVE  WInv'
<1>1. Walking' /\ Checking'
  BY NoWalkFields DEF WInv, Walking, Checking
<1>2. Recorded'
  BY DEF WInv, Recorded
<1> QED  BY <1>1, <1>2 DEF WInv

(* Every step keeps the invariant about the walk.                           *)
LEMMA NextWInv == ASSUME WInv, [Next]_vars PROVE WInv'
<1>1. CASE WalkStep
  BY <1>1, WalkStepWInv
<1>2. CASE PlanCreateBegin
  BY <1>2, BeginWInv DEF PlanCreateBegin, Planning, process, run
<1>3. CASE CheckCreateBegin
  <2>1. CASE pc' = "check"
    <3>1. CASE pc = "check"
      BY <1>3, <3>1 DEF CheckCreateBegin, Executing
    <3>2. CASE pc # "check"
      BY <1>3, <2>1, <3>2, BeginWInv DEF CheckCreateBegin, Executing, process
    <3> QED  BY <3>1, <3>2
  <2>2. CASE pc' # "check"
    <3>1. started' = Append(started, "failed") /\ pc' = "execute"
      BY <1>3, <2>2 DEF CheckCreateBegin, Executing, Judged
    <3> QED  BY <1>3, <3>1, QuietWInv DEF CheckCreateBegin, Statuses
  <2> QED  BY <2>1, <2>2
<1>4. CASE CheckExtract
  <2>1. \E status \in Statuses : started' = Append(started, status)
    BY <1>4 DEF CheckExtract, Judged, Statuses
  <2> QED  BY <1>4, <2>1, QuietWInv DEF CheckExtract, Executing, world
<1>5. CASE CheckCreateEnd
  <2>1. \E status \in Statuses : started' = Append(started, status)
    BY <1>5 DEF CheckCreateEnd, Judged, Statuses
  <2> QED  BY <1>5, <2>1, QuietWInv DEF CheckCreateEnd, world
<1>6. CASE PlanCreateEnd
  BY <1>6, QuietWInv DEF PlanCreateEnd, run, world
<1>7. CASE Configure \/ Collect \/ PlanExtract \/ Report \/ Edit \/ Rerun \/ Conclude
  <2>1. /\ pc \notin {"inventory", "check"} /\ pc' \notin {"inventory", "check"}
        /\ UNCHANGED <<tree, walk, started>>
    BY <1>7 DEF Configure, Collect, PlanExtract, Planning, Report, Edit, Rerun, Conclude,
                Raise, Exit, run, world
  <2> QED  BY <2>1, QuietWInv
<1>8. CASE Preflight \/ Observe \/ Revalidate
  <2>1. pc' \notin {"inventory", "check"} /\ UNCHANGED <<tree, walk, started>>
    BY <1>8 DEF Preflight, Observe, Revalidate, Validated, Raise, Exit, run, world
  <2> QED  BY <2>1, QuietWInv
<1>9. CASE ForeignChange
  <2>1. /\ ~quiet' /\ ProperTree(tree')
        /\ UNCHANGED <<pc, walk, turn, runtime, config, started>>
    BY <1>9, ForeignKeepsProper DEF WInv, ForeignChange, process, run
  <2>2. Walking' /\ Checking'
    BY <2>1 DEF WInv, Walking, Checking
  <2> QED  BY <2>1, <2>2 DEF WInv, Recorded
<1>10. CASE UNCHANGED vars
  <2>1. UNCHANGED <<pc, walk, turn, runtime, config, started, tree, quiet>>
    BY <1>10 DEF vars, process, run, world
  <2> QED  BY <2>1 DEF WInv, Walking, Checking, Recorded
<1> QED  BY <1>1, <1>2, <1>3, <1>4, <1>5, <1>6, <1>7, <1>8, <1>9, <1>10 DEF Next, Ended

(* The invariant about the walk holds in every reachable state.             *)
LEMMA InitWInv == Init => WInv
<1>1. Init => ProperTree(tree)
  BY ScenariosAssumption DEF Init
<1> QED  BY <1>1, NoWalkFields DEF Init, WInv, Walking, Checking, Recorded

(* The property's entries are those of a survey.                            *)
LEMMA EntriesInside ==
    ASSUME NEW root
    PROVE  EntriesBelow(root) = {EntryAt(tree, p) : p \in Inside(tree, root)}
BY DEF EntriesBelow, Inside, EntryAt

(* StartsFromInventoriedTree, of inventory_source and the execute_job of    *)
(* create.py: if nothing changes during the second walk, a creation starts  *)
(* from the tree in the manifest, however large it is, in whatever order it *)
(* is read, and whatever happened during the first walk.                    *)
THEOREM StartsFromManifestTree == Spec => StartsFromInventoriedTree
<1> DEFINE Starts ==
        Len(started') > Len(started) /\ runtime[turn].operation = "create"
            /\ Last(started') # "failed"
           Safely ==
            LET job == runtime[turn]
                entries == EntriesBelow(job.path)
            IN  /\ job.identity.kind = "directory" =>
                        /\ ~Encloses(job.path, PathKey(job.destination))
                        /\ ~Encloses(job.path, LogBase(config))
                /\ quiet => /\ tree[job.path].kind = job.identity.kind
                            /\ \A e \in entries : e.kind \in Supported
                            /\ Last(started') = "started" => entries = job.identity.digest
<1>1. WInv /\ [Next]_vars => [Starts => Safely]_vars
  <2>1. SUFFICES ASSUME WInv, Next, Starts PROVE Safely
    OBVIOUS
  <2>2. started' # started
    BY <2>1 DEF WInv, Recorded
  <2>3. \A status \in Statuses : Last(Append(started, status)) = status
    <3>1. \A status \in Statuses :
            /\ Append(started, status) \in Seq(Statuses)
            /\ Len(Append(started, status)) = Len(started) + 1
            /\ Append(started, status)[Len(started) + 1] = status
      BY <2>1 DEF WInv, Recorded
    <3> QED  BY <3>1 DEF Last
  <2>4. ~CheckExtract
    BY <2>1 DEF CheckExtract, Executing
  <2>5. ~CheckCreateBegin
    <3>1. SUFFICES ASSUME CheckCreateBegin PROVE FALSE
      OBVIOUS
    <3>2. started' = Append(started, "failed")
      BY <2>2, <3>1 DEF CheckCreateBegin, Judged
    <3> QED  BY <2>1, <2>3, <3>2 DEF Statuses
  <2>6. CheckCreateEnd
    BY <2>1, <2>2, <2>4, <2>5
       DEF Next, Configure, Collect, PlanExtract, PlanCreateBegin, PlanCreateEnd, WalkStep,
           Report, Edit, Rerun, Preflight, Observe, Revalidate, Conclude, ForeignChange, Ended,
           run, vars
  <2> DEFINE job == runtime[turn]
  <2>7. /\ pc = "check" /\ Accepted(job)
        /\ started' = Append(started, IF walk.identity # job.identity THEN "changed" ELSE "started")
    <3>1. PICK status \in Statuses :
            /\ started' = Append(started, status)
            /\ status = IF ~Accepted(job) THEN "failed"
                        ELSE IF walk.identity # job.identity THEN "changed" ELSE "started"
      BY <2>6 DEF CheckCreateEnd, Judged, Statuses
    <3>2. status # "failed"
      BY <2>1, <2>3, <3>1
    <3> QED  BY <2>6, <3>1, <3>2 DEF CheckCreateEnd
  <2>8. walk.phase = "done" /\ walk.kind = job.identity.kind /\ walk.root = job.path
    BY <2>1, <2>7 DEF Accepted, WInv, Checking
  <2>9. ~WithinOwnSource(job.identity.kind, job.path, PathKey(job.destination), config)
    BY <2>1, <2>7 DEF WInv, Checking
  <2>10. Last(started') = "started" => walk.identity = job.identity
    BY <2>3, <2>7 DEF Statuses
  <2>11. ASSUME quiet
         PROVE  /\ tree[job.path].kind = job.identity.kind
                /\ \A e \in EntriesBelow(job.path) : e.kind \in Supported
                /\ Last(started') = "started" => EntriesBelow(job.path) = job.identity.digest
    <3>1. Survey(tree, walk)
      BY <2>1, <2>7, <2>11 DEF WInv, Walking
    <3>2. /\ tree[job.path].kind = job.identity.kind
          /\ walk.identity.digest = {EntryAt(tree, p) : p \in Inside(tree, job.path)}
          /\ \A p \in Inside(tree, job.path) : tree[p].kind \in Supported
      BY <2>8, <3>1 DEF Survey, Rooted, Complete
    <3>3. EntriesBelow(job.path) = {EntryAt(tree, p) : p \in Inside(tree, job.path)}
      BY EntriesInside
    <3>4. \A p \in Inside(tree, job.path) : EntryAt(tree, p).kind = tree[p].kind
      BY DEF EntryAt
    <3>5. \A e \in EntriesBelow(job.path) : e.kind \in Supported
      BY <3>2, <3>3, <3>4
    <3>6. Last(started') = "started" => EntriesBelow(job.path) = job.identity.digest
      BY <2>10, <3>2, <3>3
    <3> QED  BY <3>2, <3>5, <3>6
  <2> QED  BY <2>9, <2>11 DEF WithinOwnSource
<1> QED  BY <1>1, InitWInv, NextWInv, PTL DEF Spec, StartsFromInventoriedTree
-----------------------------------------------------------------------------
(* Settings hold what they were given. The configuration is the one that    *)
(* the layers resolve to, but for the I/O slots when they are to be         *)
(* detected.                                                                *)
Settled ==
    /\ config # NoConfig =>
        /\ Resolvable(layers) /\ DOMAIN config = DOMAIN Resolve(layers)
        /\ \A f \in DOMAIN config \ {"io_slots"} : config[f] = Resolve(layers)[f]
        /\ ~config.uses_auto_io_slots => config = Resolve(layers)
    /\ pc \in {"observe", "validate"} => config.uses_auto_io_slots
    /\ runtime # << >> => config # NoConfig

(* The process has a configuration when it needs one.                       *)
LEMMA HasConfig ==
    ASSUME IInv, pc \notin {"config", "manifest", "ended"}
    PROVE  config # NoConfig
BY DEF IInv, Budgeted, IntFields, NoConfig

(* Steps that leave the configuration alone.                                *)
LEMMA SameSettled ==
    ASSUME Settled, UNCHANGED <<config, layers>>,
           pc' \in {"observe", "validate"} => config.uses_auto_io_slots,
           runtime' # << >> => runtime # << >> \/ config # NoConfig
    PROVE  Settled'
BY DEF Settled

(* Reading the settings, observing the storage and validating keep them.    *)
LEMMA NextSettled == ASSUME IInv, Settled, [Next]_vars PROVE Settled'
<1>1. CASE Configure
  <2>1. CASE Resolvable(layers)
    <3>1. /\ config' = Resolve(layers) /\ layers' = layers
          /\ pc' \notin {"observe", "validate"} /\ runtime' = << >>
      BY <1>1, <2>1 DEF Configure, run, IInv, Idle
    <3> QED  BY <2>1, <3>1 DEF Settled
  <2>2. CASE ~Resolvable(layers)
    BY <1>1, <2>2, SameSettled DEF Configure, Raise, Exit, run
  <2> QED  BY <2>1, <2>2
<1>2. CASE Rerun
  <2>1. config' = NoConfig /\ pc' = "config" /\ runtime' = << >>
    BY <1>2 DEF Rerun, run, IInv, Idle
  <2> QED  BY <2>1 DEF Settled
<1>3. CASE Observe
  <2>1. config # NoConfig /\ runtime' = << >> /\ layers' = layers
    BY <1>3, HasConfig DEF Observe, run, IInv, Idle
  <2>2. "uses_auto_io_slots" \in DOMAIN config
    BY <2>1, ResolvedBudget DEF Settled
  <2>3. \E slots : config' = [config EXCEPT !.io_slots = slots]
    BY <1>3 DEF Observe
  <2>4. /\ DOMAIN config' = DOMAIN config
        /\ \A f \in DOMAIN config \ {"io_slots"} : config'[f] = config[f]
    BY <2>3
  <2>5. config.uses_auto_io_slots
    BY <1>3 DEF Settled, Observe
  <2>6. config'.uses_auto_io_slots
    BY <2>2, <2>4, <2>5
  <2> QED  BY <2>1, <2>4, <2>6 DEF Settled
<1>4. CASE Preflight
  <2>1. config # NoConfig /\ UNCHANGED <<config, layers>>
    BY <1>4, HasConfig DEF Preflight, process
  <2>2. pc' \in {"observe", "validate"} => config.uses_auto_io_slots
    BY <1>4 DEF Preflight, Validated, Raise, Exit
  <2> QED  BY <2>1, <2>2, SameSettled
<1>5. CASE Revalidate
  <2>1. config # NoConfig /\ UNCHANGED <<config, layers>>
    BY <1>5, HasConfig DEF Revalidate, process
  <2>2. pc' \notin {"observe", "validate"}
    BY <1>5 DEF Revalidate, Validated, Raise, Exit
  <2> QED  BY <2>1, <2>2, SameSettled
<1>6. CASE \/ Collect \/ PlanExtract \/ PlanCreateBegin \/ PlanCreateEnd \/ Report
           \/ CheckExtract \/ CheckCreateBegin \/ CheckCreateEnd \/ Conclude
  <2>1. UNCHANGED <<config, layers, runtime>> /\ pc' \notin {"observe", "validate"}
    BY <1>6 DEF Collect, PlanExtract, Planning, PlanCreateBegin, PlanCreateEnd, Report,
                CheckExtract, CheckCreateBegin, CheckCreateEnd, Executing, Conclude,
                Raise, Exit, process, run
  <2> QED  BY <2>1, SameSettled
<1>7. CASE WalkStep \/ Edit \/ ForeignChange \/ UNCHANGED vars
  <2>1. UNCHANGED <<config, layers, runtime, pc>>
    BY <1>7 DEF WalkStep, Edit, ForeignChange, vars, process, run
  <2> QED  BY <2>1, SameSettled DEF Settled
<1> QED  BY <1>1, <1>2, <1>3, <1>4, <1>5, <1>6, <1>7 DEF Next, Ended

(* ExplicitIoKept, of resolve_config and _prepare_runtime_jobs: however the *)
(* layers are filled, jobs run with the I/O slots or the storage profile of *)
(* the highest layer that has one, and the detector decides nothing then.   *)
THEOREM ExplicitSettingsKept == Spec => []ExplicitIoKept
<1>1. Init => Settled
  BY DEF Init, Settled
<1>2. Settled => ExplicitIoKept
  <2>1. SUFFICES ASSUME Settled, runtime # << >> PROVE ExplicitIoKept
    BY DEF ExplicitIoKept
  <2>2. /\ Resolvable(layers)
        /\ config.uses_auto_io_slots = Resolve(layers).uses_auto_io_slots
        /\ ~config.uses_auto_io_slots => config = Resolve(layers)
    BY <2>1, ResolvedBudget DEF Settled
  <2>3. /\ Having(layers, "io_slots") # {} => config.io_slots = Highest(layers, "io_slots")
        /\ /\ Having(layers, "io_slots") = {} /\ Having(layers, "storage_profile") # {}
           /\ Highest(layers, "storage_profile") # "auto"
           => config.io_slots = ProfileSlots[Highest(layers, "storage_profile")]
    BY <2>2, GivenSlots
  <2> QED  BY <2>3, Zenon DEF ExplicitIoKept, Having, Highest
<1> QED  BY <1>1, <1>2, Invariance, NextSettled, PTL DEF Spec
-----------------------------------------------------------------------------
(* A process that has resolved its settings has positive numbers of them.   *)
LEMMA Numbers ==
    ASSUME Settled, config # NoConfig
    PROVE  \A f \in IntFields \ {"io_slots"} : config[f] \in Nat \ {0}
BY ResolvedBudget DEF Settled

(* The endpoints that the detection is about stay, and with them the slots. *)
Asked == {EndpointCapacity(PathKey(Endpoints[i])) : i \in DOMAIN Endpoints}

Detected ==
    /\ preflight \in Seq(ToSet(preflight))
    /\ pc \in {"observe", "validate"} => preflight # << >>
    /\ preflight # << >> => pc \in {"observe", "validate", "execute", "check", "ended"}
    /\ preflight # << >> /\ pc # "observe" =>
            /\ config.io_slots = Min(Asked \union {config.max_processes})
            /\ config.io_slots \in Nat \ {0} /\ config # NoConfig

(* Steps that leave the detection as it was.                                *)
LEMMA SameDetected ==
    ASSUME Detected, UNCHANGED <<scenario, preflight, config>>,
           pc' \in {"observe", "validate"} => pc' = pc,
           pc' = "observe" <=> pc = "observe",
           preflight # << >> => pc' \in {"validate", "execute", "check", "ended"}
                                \/ UNCHANGED pc
    PROVE  Detected'
<1>1. Asked' = Asked
  BY DEF Asked, EndpointCapacity, Endpoints
<1> QED  BY <1>1 DEF Detected

(* The first validation leaves one job per record, in order.                *)
LEMMA ValidSequence ==
    ASSUME IInv, NEW cfg, NEW enforce, Validate(records, cfg, enforce).verdict = "valid"
    PROVE  LET made == Validate(records, cfg, enforce).jobs
           IN  made \in Seq(ToSet(made)) /\ made # << >> /\ made = RuntimeJobs(records, cfg)
<1> DEFINE made == Validate(records, cfg, enforce).jobs
           refused == {i \in DOMAIN records :
                            Verdict(records[i], cfg, enforce) # "valid" \/ Clashes(records, i)}
<1>1. records # << >> /\ refused = {}
  BY DEF Validate
<1>2. made = RuntimeJobs(records, cfg)
  BY <1>1 DEF Validate
<1>3. made = [i \in 1..Len(records) |-> Runtime(records[i], cfg)]
  BY <1>2 DEF RuntimeJobs, IInv, Listed
<1>4. Len(records) \in Nat /\ Len(records) # 0
  BY <1>1 DEF IInv, Listed
<1> HIDE DEF made
<1>5. made \in Seq(ToSet(made))
  BY <1>3, <1>4 DEF ToSet
<1>6. made # << >>
  BY <1>3, <1>4
<1> QED  BY <1>2, <1>5, <1>6 DEF made

(* Observing the storage counts the slots.                                  *)
LEMMA ObserveDetected == ASSUME IInv, Settled, Detected, Observe PROVE Detected'
<1>1. /\ pc = "observe" /\ pc' = "validate" /\ UNCHANGED <<scenario, preflight, layers>>
      /\ config' = [config EXCEPT !.io_slots =
                ResolveAutoIoSlots(ObservePaths(Endpoints, Detector), config.max_processes)]
      /\ scenario \in Scenarios
  BY DEF Observe, run, IInv
<1>2. preflight # << >> /\ preflight \in Seq(ToSet(preflight)) /\ ToSet(preflight') = ToSet(preflight)
  BY <1>1 DEF Detected
<1>3. config # NoConfig /\ "io_slots" \in DOMAIN config
  BY <1>1, HasConfig DEF IInv, Budgeted, IntFields
<1>4. config.max_processes \in Nat \ {0}
  BY <1>3, Numbers DEF IntFields
<1>5. Asked' = Asked
  BY <1>1 DEF Asked, EndpointCapacity, Endpoints
<1>6. /\ config'.io_slots = Min(Asked \union {config.max_processes})
      /\ config'.io_slots \in {1, 2, 4, config.max_processes}
      /\ config'.max_processes = config.max_processes
  BY <1>1, <1>2, <1>3, <1>4, SlotsAre DEF Asked
<1>7. config'.io_slots \in Nat \ {0}
  BY <1>4, <1>6
<1>8. config' # NoConfig
  BY <1>1, <1>3 DEF NoConfig
<1> QED  BY <1>1, <1>2, <1>5, <1>6, <1>7, <1>8 DEF Detected

(* No other step but the first validation touches the detection.            *)
LEMMA NextDetected == ASSUME IInv, Settled, Detected, [Next]_vars PROVE Detected'
<1>1. CASE Configure \/ Rerun
  <2>1. preflight' = << >> /\ pc' \notin {"observe", "validate"}
    BY <1>1 DEF Detected, Configure, Rerun, Raise, Exit, run
  <2>2. << >> \in Seq(ToSet(<< >>))
    OBVIOUS
  <2> QED  BY <2>1, <2>2 DEF Detected
<1>2. CASE Preflight
  <2>1. pc = "preflight" /\ preflight = << >> /\ UNCHANGED <<scenario, config>>
    BY <1>2 DEF Detected, Preflight, process
  <2>2. CASE UNCHANGED preflight
    <3>1. pc' \notin {"observe", "validate"}
      BY <1>2, <2>1, <2>2, ValidSequence DEF Preflight, Validated, Raise, Exit
    <3> QED  BY <2>1, <2>2, <3>1 DEF Detected
  <2>3. CASE ~UNCHANGED preflight
    <3>1. /\ pc' = "observe" /\ preflight' = Validate(records, config, FALSE).jobs
          /\ Validate(records, config, FALSE).verdict = "valid"
      BY <1>2, <2>3 DEF Preflight
    <3> QED  BY <3>1, ValidSequence DEF Detected
  <2> QED  BY <2>2, <2>3
<1>3. CASE Observe
  BY <1>3, ObserveDetected
<1>4. CASE Revalidate
  <2>1. pc' \in {"execute", "ended"} /\ pc = "validate" /\ UNCHANGED <<scenario, preflight, config>>
    BY <1>4 DEF Revalidate, Validated, Raise, Exit, process
  <2> QED  BY <2>1, SameDetected
<1>5. CASE CheckExtract \/ CheckCreateBegin \/ CheckCreateEnd \/ Conclude
  <2>1. /\ pc' \in {"execute", "check", "ended"} /\ pc # "observe"
        /\ UNCHANGED <<scenario, preflight, config>>
    BY <1>5 DEF CheckExtract, CheckCreateBegin, CheckCreateEnd, Executing, Conclude, Exit,
                process, run
  <2> QED  BY <2>1, SameDetected
<1>6. CASE Collect \/ PlanExtract \/ PlanCreateBegin \/ PlanCreateEnd \/ Report
  <2>1. /\ pc \in {"collect", "planning", "inventory"} /\ pc' \notin {"observe", "validate"}
        /\ UNCHANGED <<scenario, preflight, config>>
    BY <1>6 DEF Collect, PlanExtract, Planning, PlanCreateBegin, PlanCreateEnd, Report,
                Raise, Exit, process, run
  <2>2. preflight = << >>
    BY <2>1 DEF Detected
  <2> QED  BY <2>1, <2>2, SameDetected
<1>7. CASE WalkStep \/ Edit \/ ForeignChange \/ UNCHANGED vars
  <2>1. UNCHANGED <<scenario, preflight, config, pc>>
    BY <1>7 DEF WalkStep, Edit, ForeignChange, vars, process, run
  <2> QED  BY <2>1, SameDetected
<1> QED  BY <1>1, <1>2, <1>3, <1>4, <1>5, <1>6, <1>7 DEF Next, Ended

(* SlotsConservative, of _prepare_runtime_jobs with the detectors: with     *)
(* automatic slots there are as many as the slowest device behind any       *)
(* endpoint allows, and no more than processes, for every mount table and   *)
(* every graph of devices, and for every answer of the Windows API.         *)
THEOREM DetectionDecides == Spec => []SlotsConservative
<1>1. Init => Settled /\ Detected
  BY DEF Init, Settled, Detected
<1>2. IInv /\ Settled /\ Detected /\ [Next]_vars => (Settled /\ Detected)'
  BY NextSettled, NextDetected
<1>3. Detected => SlotsConservative
  BY DEF Detected, SlotsConservative, Asked
<1> QED  BY <1>1, <1>2, <1>3, Invariance, PTL DEF Spec

-----------------------------------------------------------------------------
(* Where the process is, and what it has accounted for. Its turn is within  *)
(* the list it goes through, and a status is recorded for each job before   *)
(* its turn; an exit code is there when the process is not.                 *)
Typed ==
    /\ pc \in {"config", "collect", "planning", "inventory", "manifest", "preflight",
               "observe", "validate", "execute", "check", "ended"}
    /\ command \in {"plan", "direct", "run"}
    /\ command = "plan" =>
            pc \in {"config", "collect", "planning", "inventory", "manifest", "ended"}
    /\ warned \in BOOLEAN /\ restamped \in BOOLEAN /\ quiet \in BOOLEAN
    /\ exitCode \in {-1, 0, 1, 2, 64}
    /\ (exitCode = -1) = (pc \notin {"ended", "manifest"})
    /\ walk.phase # "none" => pc \in {"inventory", "check"}

Turns ==
    /\ DOMAIN inputs = 1..Len(inputs) /\ Len(inputs) \in Nat
    /\ DOMAIN runtime = 1..Len(runtime) /\ Len(runtime) \in Nat
    /\ turn \in Nat \ {0} /\ Len(started) \in Nat
    /\ pc \in {"config", "collect"} => turn = 1
    /\ pc = "inventory" => turn =< Len(inputs)
    /\ pc \notin {"execute", "check", "ended"} => turn =< 1 + Len(inputs) /\ Len(started) = 0
    /\ pc \in {"execute", "check"} => Len(started) = turn - 1 /\ turn =< 1 + Len(runtime)
    /\ pc = "ended" => turn =< 1 + Len(inputs) + Len(runtime) /\ Len(started) =< Len(runtime)

(* Past the collection, every given path is an input or there are errors;   *)
(* while planning, every input before the turn has a job; past the report,  *)
(* every given path has one.                                                *)
Wanted == {Meant(scenario.operation, scenario.given[i]) : i \in DOMAIN scenario.given}

Owed ==
    errors = {} /\ command # "run" =>
        /\ pc \in {"planning", "inventory"} =>
            /\ Wanted \subseteq ToSet(inputs)
            /\ \A n \in DOMAIN inputs : n < turn =>
                    \E k \in DOMAIN jobs : jobs[k].path = inputs[n]
        /\ pc \in {"manifest", "preflight", "observe", "validate", "execute", "check"} =>
            \A path \in Wanted : \E k \in DOMAIN planned : planned[k].path = path

(* What an exit code promises.                                              *)
Promised ==
    /\ pc = "manifest" => command = "plan"
    /\ exitCode = 0 /\ command # "run" =>
            /\ errors = {}
            /\ \A path \in Wanted : \E k \in DOMAIN planned : planned[k].path = path
    /\ exitCode = 0 /\ command # "plan" =>
            Len(started) = Len(runtime) /\ \A i \in DOMAIN runtime : started[i] = "started"
    /\ exitCode = 64 => runtime = << >>

AInv == Typed /\ Turns /\ Owed /\ Promised

(* How a validation goes on: to the next one, to the execution, or out.     *)
LEMMA ValidationOutcome ==
    ASSUME IInv, Preflight \/ Observe \/ Revalidate
    PROVE  /\ pc \in {"preflight", "observe", "validate"}
           /\ UNCHANGED <<scenario, command, inputs, jobs, errors, warned, started, walk, quiet,
                          planned, restamped>>
           /\ \/ pc' \in {"observe", "validate"} /\ UNCHANGED <<runtime, turn, exitCode>>
              \/ pc' = "ended" /\ exitCode' \in {1, 64} /\ UNCHANGED <<runtime, turn>>
              \/ /\ pc' = "execute" /\ turn' = 1 /\ UNCHANGED exitCode
                 /\ DOMAIN runtime' = 1..Len(runtime') /\ Len(runtime') \in Nat
<1>1. ASSUME Validated(Validate(records, config, TRUE))
      PROVE  \/ pc' = "ended" /\ exitCode' \in {1, 64} /\ UNCHANGED <<runtime, turn>>
             \/ /\ pc' = "execute" /\ turn' = 1 /\ UNCHANGED exitCode
                /\ DOMAIN runtime' = 1..Len(runtime') /\ Len(runtime') \in Nat
  <2>1. CASE Validate(records, config, TRUE).verdict = "valid"
    <3>1. /\ pc' = "execute" /\ turn' = 1 /\ UNCHANGED exitCode
          /\ runtime' = Validate(records, config, TRUE).jobs
      BY <1>1, <2>1 DEF Validated
    <3>2. runtime' = << >> \/ runtime' = RuntimeJobs(records, config)
      BY <2>1, <3>1, AllOrNone
    <3>3. records \in Seq(ToSet(records))
      BY DEF IInv, Listed
    <3>4. DOMAIN runtime' = 1..Len(runtime') /\ Len(runtime') \in Nat
      BY <3>2, <3>3 DEF RuntimeJobs
    <3> QED  BY <3>1, <3>4
  <2>2. CASE Validate(records, config, TRUE).verdict # "valid"
    BY <1>1, <2>2 DEF Validated, Raise, Exit
  <2> QED  BY <2>1, <2>2
<1>2. CASE Preflight
  BY <1>1, <1>2 DEF Preflight, Raise, Exit, process, plan, world, history
<1>3. CASE Observe
  BY <1>3 DEF Observe, plan, run, world, history
<1>4. CASE Revalidate
  BY <1>1, <1>4 DEF Revalidate, ValidateRecords, process, plan, world, history
<1> QED  BY <1>2, <1>3, <1>4

(* How a check goes on: into an inventory, or to the next job.              *)
LEMMA CheckOutcome ==
    ASSUME Turns, CheckExtract \/ CheckCreateBegin \/ CheckCreateEnd
    PROVE  /\ pc \in {"execute", "check"}
           /\ UNCHANGED <<scenario, command, inputs, jobs, errors, warned, runtime, exitCode,
                          planned, restamped>>
           /\ quiet' \in {quiet, TRUE}
           /\ pc' = "execute" => walk' \in {walk, NoWalk}
           /\ \/ /\ pc = "execute" /\ pc' = "check" /\ turn =< Len(runtime)
                 /\ UNCHANGED <<turn, started>>
              \/ /\ pc' = "execute" /\ turn' = turn + 1
                 /\ turn =< Len(runtime) \/ pc = "check"
                 /\ \E status \in Statuses : started' = Append(started, status)
<1>1. CASE CheckExtract
  BY <1>1 DEF Turns, CheckExtract, Executing, Judged, Statuses, process, plan, world, history
<1>2. CASE CheckCreateBegin
  <2>1. /\ pc = "execute" /\ turn =< Len(runtime)
        /\ UNCHANGED <<scenario, command, inputs, jobs, errors, warned, runtime, exitCode,
                       planned, restamped>>
    BY <1>2 DEF Turns, CheckCreateBegin, Executing, process, plan, history
  <2>2. \/ pc' = "check" /\ quiet' = TRUE /\ UNCHANGED <<turn, started>>
        \/ Judged("failed") /\ UNCHANGED <<pc, walk, quiet>>
    BY <1>2 DEF CheckCreateBegin
  <2> QED  BY <2>1, <2>2 DEF Judged, Statuses
<1>3. CASE CheckCreateEnd
  BY <1>3 DEF CheckCreateEnd, Judged, Statuses, process, plan, world, history
<1> QED  BY <1>1, <1>2, <1>3

(* What collect_paths and the normalizations leave.                         *)
LEMMA CollectedInputs ==
    ASSUME IInv, Collect
    PROVE  \/ UNCHANGED <<inputs, errors>> /\ pc' = "ended" /\ exitCode' = 64
           \/ /\ pc' = "planning" /\ UNCHANGED exitCode
              /\ DOMAIN inputs' = 1..Len(inputs') /\ Len(inputs') \in Nat
              /\ \A m, n \in DOMAIN inputs' : inputs'[m] = inputs'[n] => m = n
              /\ \A n \in DOMAIN inputs' : inputs'[n] \in Wanted
              /\ errors' = {} => Wanted \subseteq ToSet(inputs')
<1>1. CASE scenario.given = << >> /\ ~scenario.listed
  BY <1>1 DEF Collect, Raise, Exit
<1>2. CASE ~(scenario.given = << >> /\ ~scenario.listed)
  <2>1. scenario.given \in Seq(ToSet(scenario.given))
    BY ScenariosAssumption DEF IInv
  <2> DEFINE list == IF scenario.operation = "extract" THEN ExtractInputs(tree, scenario.given)
                     ELSE CreateInputs(tree, scenario.given)
  <2>2. /\ DOMAIN list = 1..Len(list) /\ Len(list) \in Nat
        /\ \A m, n \in DOMAIN list : list[m] = list[n] => m = n
        /\ \A n \in DOMAIN list : \E i \in DOMAIN scenario.given :
                list[n] = Meant(scenario.operation, scenario.given[i])
        /\ Rejected(tree, scenario.operation, scenario.given) = {} =>
            \A i \in DOMAIN scenario.given :
                Meant(scenario.operation, scenario.given[i]) \in ToSet(list)
    BY <2>1, NothingDropped
  <2>3. /\ pc' = "planning" /\ UNCHANGED exitCode /\ inputs' = list
        /\ errors' = IF scenario.given = << >> THEN {<< >>}
                     ELSE Rejected(tree, scenario.operation, scenario.given)
    BY <1>2 DEF Collect
  <2> HIDE DEF list
  <2>4. errors' = {} => Rejected(tree, scenario.operation, scenario.given) = {}
    BY <2>3
  <2> QED  BY <2>2, <2>3, <2>4 DEF Wanted
<1> QED  BY <1>1, <1>2

(* The process keeps to its places and its exit codes.                      *)
LEMMA NextTyped == ASSUME IInv, AInv, [Next]_vars PROVE Typed'
<1>0. NoWalk.phase = "none"
  BY DEF NoWalk
<1>1. CASE Configure \/ Collect \/ Rerun
  <2>1. /\ UNCHANGED <<warned, restamped, quiet, walk>> /\ pc \notin {"inventory", "check"}
        /\ pc' \in {"preflight", "collect", "planning", "config", "ended"}
        /\ command' = "run" \/ (command' = command /\ pc' # "preflight")
    BY <1>1 DEF Configure, Collect, Rerun, Raise, Exit, process, plan, run, world, history
  <2>2. IF pc' = "ended" THEN exitCode' \in {1, 64} ELSE exitCode' = -1
    BY <1>1 DEF AInv, Typed, Configure, Collect, Rerun, Raise, Exit
  <2> QED  BY <2>1, <2>2 DEF AInv, Typed
<1>2. CASE PlanExtract
  BY <1>2 DEF AInv, Typed, PlanExtract, Planning, process, run, world, history
<1>3. CASE PlanCreateBegin \/ PlanCreateEnd \/ WalkStep
  <2>1. /\ UNCHANGED <<command, warned, restamped, exitCode>> /\ quiet' \in {quiet, TRUE}
        /\ pc \in {"planning", "inventory", "check"}
        /\ \/ pc' \in {"inventory", "check"} /\ pc' \in {"inventory", pc}
           \/ pc' = "planning" /\ walk' = NoWalk
    BY <1>3 DEF PlanCreateBegin, PlanCreateEnd, WalkStep, Planning, process, plan, run, world,
                history
  <2> QED  BY <1>0, <2>1 DEF AInv, Typed
<1>4. CASE Report
  BY <1>4 DEF AInv, Typed, Report, PlanExit, Exit, process, run, world
<1>5. CASE Edit
  BY <1>5 DEF AInv, Typed, Edit, process, plan, run, world
<1>6. CASE Preflight \/ Observe \/ Revalidate
  BY <1>6, ValidationOutcome DEF AInv, Typed
<1>7. CASE CheckExtract \/ CheckCreateBegin \/ CheckCreateEnd
  <2>1. /\ UNCHANGED <<command, warned, restamped, exitCode>> /\ quiet' \in {quiet, TRUE}
        /\ pc \in {"execute", "check"} /\ pc' \in {"execute", "check"}
        /\ pc' = "execute" => walk' \in {walk, NoWalk}
    BY <1>7, CheckOutcome DEF AInv
  <2>2. pc' = "execute" => walk'.phase = "none"
    <3>1. CASE CheckExtract \/ CheckCreateBegin
      BY <2>1, <3>1, <1>0 DEF AInv, Typed, CheckExtract, CheckCreateBegin, Executing
    <3>2. CASE CheckCreateEnd
      BY <1>0, <3>2 DEF CheckCreateEnd
    <3> QED  BY <1>7, <3>1, <3>2
  <2> QED  BY <2>1, <2>2 DEF AInv, Typed
<1>8. CASE Conclude
  BY <1>8 DEF AInv, Typed, Conclude, FinalExit, ExecutionExit, Exit, process, plan, run, world,
              history
<1>9. CASE ForeignChange
  BY <1>9 DEF AInv, Typed, ForeignChange, process, plan, run, history
<1>10. CASE UNCHANGED vars
  BY <1>10 DEF AInv, Typed, vars, process, plan, run, world, history
<1> QED  BY <1>1, <1>2, <1>3, <1>4, <1>5, <1>6, <1>7, <1>8, <1>9, <1>10 DEF Next, Ended

(* Its turn stays within the inputs, and then within the jobs.              *)
LEMMA NextTurns == ASSUME IInv, WInv, AInv, [Next]_vars PROVE Turns'
<1> USE DEF AInv, Turns
<1>0. /\ Len(<< >>) = 0 /\ DOMAIN << >> = 1..0
      /\ pc \notin {"execute", "check", "ended"} => runtime = << >>
  BY DEF IInv, Idle
<1>1. CASE Configure
  BY <1>0, <1>1 DEF Configure, Raise, Exit, plan, run
<1>2. CASE Collect
  <2>1. /\ pc = "collect" /\ pc' \in {"planning", "ended"}
        /\ UNCHANGED <<turn, runtime, started>>
    BY <1>2 DEF Collect, Raise, Exit, run
  <2>2. UNCHANGED inputs \/ (DOMAIN inputs' = 1..Len(inputs') /\ Len(inputs') \in Nat)
    BY <1>2, CollectedInputs
  <2> QED  BY <1>0, <2>1, <2>2
<1>3. CASE PlanExtract \/ PlanCreateEnd
  <2>1. /\ pc' = "planning" /\ turn' = turn + 1 /\ turn =< Len(inputs)
        /\ pc \in {"planning", "inventory"} /\ UNCHANGED <<inputs, runtime, started>>
    BY <1>3 DEF PlanExtract, PlanCreateEnd, Planning, run
  <2> QED  BY <2>1
<1>4. CASE PlanCreateBegin
  BY <1>4 DEF PlanCreateBegin, Planning, plan, run
<1>5. CASE Report
  <2>1. /\ pc = "planning" /\ pc' \in {"ended", "manifest", "preflight"}
        /\ UNCHANGED <<inputs, turn, runtime, started>>
    BY <1>5 DEF Report, Exit, run
  <2> QED  BY <1>0, <2>1
<1>6. CASE Rerun
  BY <1>6 DEF Rerun, plan, run
<1>7. CASE Preflight \/ Observe \/ Revalidate
  BY <1>0, <1>7, ValidationOutcome
<1>8. CASE CheckExtract \/ CheckCreateBegin \/ CheckCreateEnd
  <2>1. \A status \in Statuses : Len(Append(started, status)) = Len(started) + 1
    BY DEF WInv, Recorded
  <2>2. pc = "check" => turn =< Len(runtime)
    BY DEF WInv, Checking
  <2>3. /\ UNCHANGED <<inputs, runtime>> /\ pc \in {"execute", "check"}
        /\ \/ pc' = "check" /\ turn =< Len(runtime) /\ UNCHANGED <<turn, started>>
           \/ /\ pc' = "execute" /\ turn' = turn + 1 /\ turn =< Len(runtime)
              /\ Len(started') = Len(started) + 1
    BY <1>8, <2>1, <2>2, CheckOutcome
  <2> QED  BY <2>3
<1>9. CASE Conclude
  BY <1>9 DEF Conclude, Exit, plan, run
<1>10. CASE WalkStep \/ Edit \/ ForeignChange \/ UNCHANGED vars
  <2>1. UNCHANGED <<pc, inputs, turn, runtime, started>>
    BY <1>10 DEF WalkStep, Edit, ForeignChange, vars, plan, run
  <2> QED  BY <2>1
<1> QED  BY <1>1, <1>2, <1>3, <1>4, <1>5, <1>6, <1>7, <1>8, <1>9, <1>10 DEF Next, Ended

(* A turn of the planner: a job of its input, or an error.                  *)
LEMMA TurnOwed ==
    ASSUME IInv, AInv, pc \in {"planning", "inventory"}, pc' = "planning", turn' = turn + 1,
           turn =< Len(inputs), UNCHANGED <<scenario, command, inputs>>,
           \/ errors' # {}
           \/ /\ UNCHANGED errors
              /\ \E job : job.path = inputs[turn] /\ jobs' = Append(jobs, job)
    PROVE  Owed'
<1>1. SUFFICES ASSUME errors' = {}, command # "run" PROVE Owed'
  BY DEF Owed
<1>2. errors = {} /\ Wanted' = Wanted
  BY <1>1 DEF Wanted
<1>3. PICK job : job.path = inputs[turn] /\ jobs' = Append(jobs, job)
  BY <1>1
<1>4. /\ DOMAIN jobs' = 1..(Len(jobs) + 1) /\ DOMAIN jobs = 1..Len(jobs) /\ Len(jobs) \in Nat
      /\ \A k \in DOMAIN jobs : jobs'[k] = jobs[k]
      /\ jobs'[Len(jobs) + 1] = job
  BY <1>3 DEF IInv, Listed
<1>5. ASSUME NEW n \in DOMAIN inputs, n < turn + 1
      PROVE  \E k \in DOMAIN jobs' : jobs'[k].path = inputs[n]
  <2>1. CASE n = turn
    BY <1>3, <1>4, <2>1
  <2>2. CASE n < turn
    BY <1>1, <1>2, <1>4, <2>2 DEF AInv, Owed
  <2> QED  BY <1>5, <2>1, <2>2 DEF AInv, Turns
<1>6. Wanted' \subseteq ToSet(inputs')
  BY <1>1, <1>2 DEF AInv, Owed, ToSet
<1> QED  BY <1>5, <1>6 DEF Owed

(* The planners account for each input, and the report for each path.       *)
LEMMA NextOwed == ASSUME IInv, AInv, [Next]_vars PROVE Owed'
<1>1. CASE Configure
  <2>1. pc' \in {"collect", "ended"} \/ command' = "run"
    BY <1>1 DEF Configure, Raise, Exit
  <2> QED  BY <2>1 DEF Owed
<1>2. CASE Collect
  <2>1. /\ turn' = 1 /\ Wanted' = Wanted
    BY <1>2 DEF AInv, Turns, Collect, Wanted
  <2>2. \/ pc' = "ended"
        \/ /\ pc' = "planning" /\ errors' = {} => Wanted \subseteq ToSet(inputs')
           /\ DOMAIN inputs' = 1..Len(inputs') /\ Len(inputs') \in Nat
    BY <1>2, CollectedInputs
  <2>3. CASE pc' = "ended"
    BY <2>3 DEF Owed
  <2>4. CASE pc' # "ended"
    <3>1. \A n \in DOMAIN inputs' : ~(n < turn')
      BY <2>1, <2>2, <2>4
    <3> QED  BY <1>2, <2>1, <2>2, <2>4, <3>1, CollectedInputs DEF Owed, ToSet
  <2> QED  BY <2>3, <2>4
<1>3. CASE PlanExtract
  <2>1. /\ pc = "planning" /\ pc' = "planning" /\ turn' = turn + 1 /\ turn =< Len(inputs)
        /\ UNCHANGED <<scenario, command, inputs>>
    BY <1>3 DEF AInv, Turns, PlanExtract, Planning, process
  <2>2. CASE tree[inputs[turn]].kind = "absent"
    BY <1>3, <2>1, <2>2, TurnOwed DEF PlanExtract
  <2>3. CASE tree[inputs[turn]].kind # "absent"
    <3> DEFINE job == ExtractJob(IF scenario.legacy THEN 1 ELSE 2, turn - 1, inputs[turn],
                                 tree[inputs[turn]], scenario.listing[inputs[turn]], config)
    <3>1. UNCHANGED errors /\ jobs' = Append(jobs, job)
      BY <1>3, <2>3 DEF PlanExtract
    <3>2. job.path = inputs[turn]
      BY PlannedPath
    <3> HIDE DEF job
    <3> QED  BY <2>1, <3>1, <3>2, TurnOwed
  <2> QED  BY <2>2, <2>3
<1>4. CASE PlanCreateEnd
  <2>1. /\ pc = "inventory" /\ pc' = "planning" /\ turn' = turn + 1 /\ turn =< Len(inputs)
        /\ UNCHANGED <<scenario, command, inputs>>
    BY <1>4 DEF AInv, Turns, PlanCreateEnd, process
  <2> DEFINE job == CreateJob(turn - 1, inputs[turn], walk.identity, config)
  <2>2. \/ errors' = errors \union {inputs[turn]}
        \/ UNCHANGED errors /\ jobs' = Append(jobs, job)
    BY <1>4 DEF PlanCreateEnd
  <2>3. job.path = inputs[turn]
    BY PlannedPath
  <2> HIDE DEF job
  <2> QED  BY <2>1, <2>2, <2>3, TurnOwed
<1>5. CASE Report
  <2>1. /\ pc = "planning" /\ turn \notin DOMAIN inputs /\ errors \subseteq errors'
        /\ UNCHANGED <<scenario, command, jobs>>
        /\ \/ pc' = "ended"
           \/ pc' \in {"manifest", "preflight"} /\ planned' = jobs
    BY <1>5 DEF Report, Exit, process
  <2>2. SUFFICES ASSUME errors' = {}, command # "run", pc' # "ended",
                        NEW path \in Wanted'
                 PROVE  \E k \in DOMAIN planned' : planned'[k].path = path
    BY <2>1 DEF Owed
  <2>3. errors = {} /\ planned' = jobs /\ path \in Wanted
    BY <2>1, <2>2 DEF Wanted
  <2>4. PICK n \in DOMAIN inputs : inputs[n] = path
    BY <2>1, <2>2, <2>3 DEF AInv, Owed, ToSet
  <2>5. n < turn
    BY <2>1 DEF AInv, Turns
  <2> QED  BY <2>1, <2>2, <2>3, <2>4, <2>5 DEF AInv, Owed
<1>6. CASE Rerun
  BY <1>6 DEF Rerun, Owed
<1>7. CASE \/ Preflight \/ Observe \/ Revalidate
           \/ CheckExtract \/ CheckCreateBegin \/ CheckCreateEnd \/ Conclude
  <2>1. /\ UNCHANGED <<scenario, command, errors, planned>>
        /\ pc \in {"preflight", "observe", "validate", "execute", "check"}
        /\ pc' \notin {"planning", "inventory", "manifest"}
    BY <1>7, ValidationOutcome, CheckOutcome
       DEF AInv, Conclude, Exit, process, plan, history
  <2>2. Wanted' = Wanted
    BY <2>1 DEF Wanted
  <2> QED  BY <2>1, <2>2 DEF AInv, Owed
<1>8. CASE \/ PlanCreateBegin \/ WalkStep \/ Edit \/ ForeignChange \/ UNCHANGED vars
  <2>1. /\ UNCHANGED <<scenario, command, inputs, jobs, errors, turn, planned>>
        /\ UNCHANGED pc \/ (pc = "planning" /\ pc' = "inventory")
    BY <1>8 DEF PlanCreateBegin, Planning, WalkStep, Edit, ForeignChange, vars, process, plan,
                history
  <2>2. Wanted' = Wanted /\ ToSet(inputs') = ToSet(inputs)
    BY <2>1 DEF Wanted
  <2> QED  BY <2>1, <2>2 DEF AInv, Owed
<1> QED  BY <1>1, <1>2, <1>3, <1>4, <1>5, <1>6, <1>7, <1>8 DEF Next, Ended

(* No exit code says more than was done.                                    *)
LEMMA NextPromised == ASSUME IInv, WInv, AInv, [Next]_vars PROVE Promised'
<1>1. CASE \/ Configure \/ Collect
  <2>1. /\ pc' # "manifest" /\ runtime' = << >> /\ exitCode' \in {-1, 64}
    BY <1>1 DEF AInv, Typed, IInv, Idle, Configure, Collect, Raise, Exit, run
  <2> QED  BY <2>1 DEF Promised
<1>2. CASE Report
  <2>1. /\ UNCHANGED <<scenario, command, runtime, started>> /\ runtime = << >>
        /\ pc' = "manifest" => command = "plan"
        /\ exitCode' \in {-1, 1, 64} \/ (pc' = "manifest" /\ errors' = {})
    BY <1>2 DEF AInv, Typed, IInv, Idle, Report, PlanExit, Exit, process, run
  <2>2. ASSUME pc' = "manifest", errors' = {}
        PROVE  \A path \in Wanted' : \E k \in DOMAIN planned' : planned'[k].path = path
    BY <1>2, <2>1, <2>2, NextOwed DEF Owed
  <2> QED  BY <2>1, <2>2 DEF AInv, Promised
<1>3. CASE Rerun
  BY <1>3 DEF Rerun, Promised
<1>4. CASE Preflight \/ Observe \/ Revalidate
  <2>1. /\ pc' # "manifest" /\ exitCode' \in {-1, 1, 64}
        /\ exitCode' = 64 => runtime' = << >>
    BY <1>4, ValidationOutcome DEF AInv, Typed, IInv, Idle
  <2> QED  BY <2>1 DEF Promised
<1>5. CASE \/ CheckExtract \/ CheckCreateBegin \/ CheckCreateEnd
  <2>1. pc' \in {"execute", "check"} /\ exitCode' = -1
    BY <1>5, CheckOutcome DEF AInv, Typed
  <2> QED  BY <2>1 DEF Promised
<1>6. CASE Conclude
  <2>1. /\ pc = "execute" /\ turn \notin DOMAIN runtime /\ pc' = "ended"
        /\ UNCHANGED <<scenario, command, errors, planned, runtime, started>>
    BY <1>6 DEF Conclude, Exit, process, plan, run, history
  <2>2. PICK failed \in BOOLEAN :
            /\ "failed" \in ToSet(started) => failed
            /\ exitCode' = FinalExit(ExecutionExit(failed))
    BY <1>6 DEF Conclude, Exit
  <2>3. ASSUME exitCode' = 0
        PROVE  /\ command = "direct" => errors = {}
               /\ "failed" \notin ToSet(started) /\ "changed" \notin ToSet(started)
    BY <2>2, <2>3 DEF FinalExit, ExecutionExit
  <2>4. Len(started) = Len(runtime) /\ DOMAIN runtime = DOMAIN started
    <3>1. DOMAIN started = 1..Len(started)
      BY DEF WInv, Recorded
    <3>2. Len(started) = Len(runtime)
      BY <2>1 DEF AInv, Turns
    <3> QED  BY <3>1, <3>2 DEF AInv, Turns
  <2>5. exitCode' = 0 => \A i \in DOMAIN runtime : started[i] = "started"
    BY <2>3, <2>4 DEF WInv, Recorded, ToSet, Statuses
  <2>6. exitCode' # 64
    BY <2>2 DEF FinalExit, ExecutionExit
  <2>7. ASSUME exitCode' = 0, command # "run"
        PROVE  \A path \in Wanted' : \E k \in DOMAIN planned' : planned'[k].path = path
    <3>1. errors = {} /\ Wanted' = Wanted
      BY <2>1, <2>3, <2>7 DEF AInv, Typed, Wanted
    <3> QED  BY <2>1, <2>7, <3>1 DEF AInv, Owed
  <2>8. exitCode' = 0 /\ command # "run" => errors = {}
    BY <2>1, <2>3 DEF AInv, Typed
  <2> QED  BY <2>1, <2>4, <2>5, <2>6, <2>7, <2>8 DEF Promised
<1>7. CASE \/ PlanExtract \/ PlanCreateBegin \/ PlanCreateEnd \/ WalkStep
  <2>1. pc' # "manifest" /\ exitCode' = -1
    BY <1>7 DEF AInv, Typed, PlanExtract, PlanCreateBegin, PlanCreateEnd, WalkStep, Planning
  <2> QED  BY <2>1 DEF Promised
<1>8. CASE Edit \/ ForeignChange \/ UNCHANGED vars
  <2>1. UNCHANGED <<scenario, pc, command, errors, planned, runtime, started, exitCode>>
    BY <1>8 DEF Edit, ForeignChange, vars, process, plan, run, history
  <2>2. Wanted' = Wanted
    BY <2>1 DEF Wanted
  <2> QED  BY <2>1, <2>2 DEF AInv, Promised
<1> QED  BY <1>1, <1>2, <1>3, <1>4, <1>5, <1>6, <1>7, <1>8 DEF Next, Ended

(* In the beginning nothing is accounted for.                               *)
LEMMA InitAInv == ASSUME Init PROVE AInv
<1>1. Typed /\ Owed
  BY ScenariosAssumption DEF Init, Typed, Owed, NoWalk
<1>2. Turns /\ Promised
  BY DEF Init, Turns, Promised
<1> QED  BY <1>1, <1>2 DEF AInv

(* All that is shown of the command line holds in every reachable state.    *)
LEMMA Accounted == Spec => [](WInv /\ Settled /\ AInv)
<1>1. Init => WInv /\ Settled /\ AInv
  BY InitWInv, InitAInv DEF Init, Settled
<1>2. IInv /\ WInv /\ Settled /\ AInv /\ [Next]_vars => (WInv /\ Settled /\ AInv)'
  BY NextWInv, NextSettled, NextTyped, NextTurns, NextOwed, NextPromised DEF AInv
<1> QED  BY <1>1, <1>2, Invariance, PTL DEF Spec

(* TypeOK, of the whole command line: the process is in one of its places,  *)
(* its turn within its list, with an exit code exactly when it has ended,   *)
(* and it has jobs only with a configuration.                               *)
THEOREM TypeCorrect == Spec => []TypeOK
<1>1. WInv /\ Settled /\ AInv => TypeOK
  <2>1. SUFFICES ASSUME WInv, Settled, AInv PROVE TypeOK
    OBVIOUS
  <2>2. /\ turn \in 1..(1 + Len(inputs) + Len(runtime)) /\ Len(started) =< Len(runtime)
    BY <2>1 DEF AInv, Typed, Turns
  <2> QED  BY <2>1, <2>2 DEF AInv, Typed, WInv, Recorded, Settled, TypeOK
<1> QED  BY <1>1, Accounted, PTL

(* EveryInputAccounted, of main and _run_command in cli.py: exit code 0     *)
(* means that every path given has a job and every job was started          *)
(* unchanged, and 64 that none was, however many paths, edits and changes.  *)
THEOREM ExitCodesAccount == Spec => []EveryInputAccounted
<1>1. WInv /\ Settled /\ AInv => EveryInputAccounted
  <2>1. SUFFICES ASSUME WInv, AInv PROVE EveryInputAccounted
    OBVIOUS
  <2>2. ASSUME exitCode = 0, command # "run", NEW i \in DOMAIN scenario.given
        PROVE  \E k \in DOMAIN planned :
                    LET path == PathKey(scenario.given[i])
                    IN  planned[k].path = IF scenario.operation = "extract"
                                          THEN FirstVolume(path) ELSE path
    <3>1. Meant(scenario.operation, scenario.given[i]) \in Wanted
      BY DEF Wanted
    <3> QED  BY <2>1, <2>2, <3>1 DEF AInv, Promised, Meant
  <2>3. ASSUME exitCode = 0, command # "plan"
        PROVE  started = [i \in DOMAIN runtime |-> "started"]
    <3>1. /\ Len(started) = Len(runtime)
          /\ \A i \in DOMAIN runtime : started[i] = "started"
          /\ DOMAIN runtime = 1..Len(runtime)
      BY <2>1, <2>3 DEF AInv, Promised, Turns
    <3>2. started = [i \in 1..Len(started) |-> started[i]]
      BY <2>1 DEF WInv, Recorded
    <3> QED  BY <3>1, <3>2
  <2>4. exitCode = 64 => runtime = << >>
    BY <2>1 DEF AInv, Promised
  <2> QED  BY <2>2, <2>3, <2>4 DEF EveryInputAccounted
<1> QED  BY <1>1, Accounted, PTL
-----------------------------------------------------------------------------
(* Drafts. The planners write one faultless job per input, so that a plan   *)
(* without collisions is one that no validation refuses; and while nobody   *)
(* has edited the manifest, it is the plan.                                 *)
Drafted ==
    /\ \A k \in DOMAIN jobs : Faultless(jobs[k])
    /\ pc \in {"planning", "inventory"} =>
        /\ \A m, n \in DOMAIN inputs : inputs[m] = inputs[n] => m = n
        /\ \A k \in DOMAIN jobs : \E n \in DOMAIN inputs : n < turn /\ jobs[k].path = inputs[n]
        /\ \A i, k \in DOMAIN jobs : jobs[i].path = jobs[k].path => i = k

Unplanned ==
    /\ pc = "config" => config = NoConfig
    /\ pc \in {"collect", "planning", "inventory"} => command # "run"
    /\ pc \in {"config", "collect", "planning", "inventory"} /\ command # "run" =>
            planned = << >>
    /\ pc \in {"config", "collect"} /\ command # "run" => jobs = << >>

Fresh ==
    /\ editCount \in Nat
    /\ planned # << >> /\ errors = {} /\ editCount = 0 =>
            /\ records = planned /\ Separate(records)
            /\ \A i \in DOMAIN records : Faultless(records[i])

(* What validation has handed over is made of all the records, and a second *)
(* validation ends the process only for want of I/O slots.                  *)
Kept ==
    /\ runtime # << >> =>
        /\ runtime = RuntimeJobs(records, config)
        /\ \A i \in DOMAIN records : Verdict(records[i], config, TRUE) = "valid"
    /\ pc \in {"execute", "check"} => runtime # << >>
    /\ preflight # << >> =>
        /\ records # << >>
        /\ \A i \in DOMAIN records :
            /\ ~Clashes(records, i)
            /\ \E cfg : Verdict(records[i], cfg, FALSE) = "valid"
    /\ pc = "ended" /\ preflight # << >> /\ runtime = << >> =>
        \E i \in DOMAIN records : records[i].io_tokens > config.io_slots

DInv == Drafted /\ Unplanned /\ Fresh /\ Kept /\ PlannedIsAccepted

(* A turn of the planner leaves a job for its own input, or none.           *)
LEMMA TurnDrafted ==
    ASSUME IInv, AInv, Drafted, pc \in {"planning", "inventory"}, pc' = "planning",
           turn' = turn + 1, turn =< Len(inputs), UNCHANGED inputs,
           \/ UNCHANGED jobs
           \/ \E job : Faultless(job) /\ job.path = inputs[turn] /\ jobs' = Append(jobs, job)
    PROVE  Drafted'
<1>1. turn \in Nat \ {0} /\ turn \in DOMAIN inputs /\ DOMAIN inputs \subseteq Nat
  BY DEF AInv, Turns
<1>2. CASE UNCHANGED jobs
  <2>1. \A n \in DOMAIN inputs : n < turn => n < turn'
    BY <1>1
  <2> QED  BY <1>2, <2>1 DEF Drafted
<1>3. CASE ~UNCHANGED jobs
  <2>1. PICK job : Faultless(job) /\ job.path = inputs[turn] /\ jobs' = Append(jobs, job)
    BY <1>3
  <2>2. /\ DOMAIN jobs = 1..Len(jobs) /\ Len(jobs) \in Nat
        /\ DOMAIN jobs' = 1..(Len(jobs) + 1)
        /\ \A k \in DOMAIN jobs : jobs'[k] = jobs[k]
        /\ jobs'[Len(jobs) + 1] = job
    BY <2>1 DEF IInv, Listed
  <2>3. \A k \in DOMAIN jobs' : k \in DOMAIN jobs \/ k = Len(jobs) + 1
    BY <2>2
  <2>4. \A k \in DOMAIN jobs' : Faultless(jobs'[k])
    BY <2>1, <2>2, <2>3 DEF Drafted
  <2>5. ASSUME NEW k \in DOMAIN jobs'
        PROVE  \E n \in DOMAIN inputs' : n < turn' /\ jobs'[k].path = inputs'[n]
    <3>1. CASE k \in DOMAIN jobs
      <4>1. PICK n \in DOMAIN inputs : n < turn /\ jobs[k].path = inputs[n]
        BY <3>1 DEF Drafted
      <4>2. n < turn'
        BY <1>1, <4>1
      <4> QED  BY <2>2, <3>1, <4>1, <4>2
    <3>2. CASE k = Len(jobs) + 1
      <4>1. turn < turn'
        BY <1>1
      <4> QED  BY <1>1, <2>1, <2>2, <3>2, <4>1
    <3> QED  BY <2>3, <3>1, <3>2
  <2>6. \A k \in DOMAIN jobs : jobs[k].path # job.path
    <3>1. ASSUME NEW k \in DOMAIN jobs, jobs[k].path = job.path PROVE FALSE
      <4>1. PICK n \in DOMAIN inputs : n < turn /\ jobs[k].path = inputs[n]
        BY DEF Drafted
      <4>2. n = turn
        BY <1>1, <2>1, <3>1, <4>1 DEF Drafted
      <4> QED  BY <1>1, <4>1, <4>2
    <3> QED  BY <3>1
  <2>7. \A i, k \in DOMAIN jobs' : jobs'[i].path = jobs'[k].path => i = k
    <3>1. ASSUME NEW i \in DOMAIN jobs', NEW k \in DOMAIN jobs', jobs'[i].path = jobs'[k].path
          PROVE  i = k
      <4>1. CASE i \in DOMAIN jobs /\ k \in DOMAIN jobs
        BY <2>2, <3>1, <4>1 DEF Drafted
      <4>2. CASE i \in DOMAIN jobs /\ k = Len(jobs) + 1
        BY <2>2, <2>6, <3>1, <4>2
      <4>3. CASE i = Len(jobs) + 1 /\ k \in DOMAIN jobs
        BY <2>2, <2>6, <3>1, <4>3
      <4> QED  BY <2>3, <3>1, <4>1, <4>2, <4>3
    <3> QED  BY <3>1
  <2>8. \A m, n \in DOMAIN inputs' : inputs'[m] = inputs'[n] => m = n
    BY DEF Drafted
  <2> QED  BY <2>4, <2>5, <2>7, <2>8 DEF Drafted
<1> QED  BY <1>2, <1>3

(* The plan grows by faultless jobs of different inputs.                    *)
LEMMA NextDrafted == ASSUME IInv, AInv, Drafted, Unplanned, [Next]_vars PROVE Drafted'
<1>1. CASE Collect
  <2>1. UNCHANGED jobs /\ jobs = << >>
    BY <1>1 DEF Unplanned, Collect
  <2>2. pc' \in {"ended", "planning"}
    BY <1>1, CollectedInputs
  <2>3. pc' = "planning" => \A m, n \in DOMAIN inputs' : inputs'[m] = inputs'[n] => m = n
    BY <1>1, CollectedInputs
  <2> QED  BY <2>1, <2>2, <2>3 DEF Drafted
<1>2. CASE PlanExtract
  <2>1. /\ pc = "planning" /\ pc' = "planning" /\ turn' = turn + 1 /\ turn =< Len(inputs)
        /\ UNCHANGED inputs
    BY <1>2 DEF AInv, Turns, PlanExtract, Planning
  <2>2. config.heavy_threads \in Nat \ {0} /\ config.cpu_budget \in Nat \ {0}
    BY <2>1 DEF IInv, Budgeted
  <2> DEFINE job == ExtractJob(IF scenario.legacy THEN 1 ELSE 2, turn - 1, inputs[turn],
                               tree[inputs[turn]], scenario.listing[inputs[turn]], config)
  <2>3. Faultless(job) /\ job.path = inputs[turn]
    BY <2>2, ExtractAsPlanned, PlannedPath
  <2>4. UNCHANGED jobs \/ jobs' = Append(jobs, job)
    BY <1>2 DEF PlanExtract
  <2> HIDE DEF job
  <2> QED  BY <2>1, <2>3, <2>4, TurnDrafted
<1>3. CASE PlanCreateEnd
  <2>1. /\ pc = "inventory" /\ pc' = "planning" /\ turn' = turn + 1 /\ turn =< Len(inputs)
        /\ UNCHANGED inputs
    BY <1>3 DEF AInv, Turns, PlanCreateEnd
  <2>2. config.heavy_threads \in Nat \ {0} /\ config.cpu_budget \in Nat \ {0}
    BY <2>1 DEF IInv, Budgeted
  <2> DEFINE job == CreateJob(turn - 1, inputs[turn], walk.identity, config)
  <2>3. Faultless(job) /\ job.path = inputs[turn]
    BY <2>2, CreateAsPlanned, PlannedPath
  <2>4. UNCHANGED jobs \/ jobs' = Append(jobs, job)
    BY <1>3 DEF PlanCreateEnd
  <2> HIDE DEF job
  <2> QED  BY <2>1, <2>3, <2>4, TurnDrafted
<1>4. CASE PlanCreateBegin \/ WalkStep \/ Edit \/ ForeignChange \/ UNCHANGED vars
  <2>1. /\ UNCHANGED <<inputs, jobs, turn>>
        /\ UNCHANGED pc \/ (pc = "planning" /\ pc' = "inventory")
    BY <1>4 DEF PlanCreateBegin, Planning, WalkStep, Edit, ForeignChange, vars, plan
  <2> QED  BY <2>1 DEF Drafted
<1>5. CASE Configure \/ Report \/ Rerun \/ Conclude
  <2>1. UNCHANGED jobs /\ pc' \notin {"planning", "inventory"}
    BY <1>5 DEF Configure, Report, Rerun, Conclude, Raise, Exit, plan
  <2> QED  BY <2>1 DEF Drafted
<1>6. CASE Preflight \/ Observe \/ Revalidate \/ CheckExtract \/ CheckCreateBegin \/ CheckCreateEnd
  <2>1. UNCHANGED jobs /\ pc' \notin {"planning", "inventory"}
    BY <1>6, ValidationOutcome, CheckOutcome DEF AInv
  <2> QED  BY <2>1 DEF Drafted
<1> QED  BY <1>1, <1>2, <1>3, <1>4, <1>5, <1>6 DEF Next, Ended

(* Until the report there is no plan, and the manifest is run without.      *)
LEMMA NextUnplanned == ASSUME IInv, AInv, Unplanned, [Next]_vars PROVE Unplanned'
<1>1. CASE Configure
  BY <1>1 DEF Unplanned, Configure, Raise, Exit, plan, history
<1>2. CASE Rerun
  BY <1>2 DEF Unplanned, Rerun
<1>3. CASE Collect
  BY <1>3 DEF Unplanned, Collect, Raise, Exit, process, history
<1>4. CASE PlanExtract \/ PlanCreateBegin \/ PlanCreateEnd
  <2>1. /\ pc \in {"planning", "inventory"} /\ pc' \in {"planning", "inventory"}
        /\ UNCHANGED <<command, planned>>
    BY <1>4 DEF PlanExtract, PlanCreateBegin, PlanCreateEnd, Planning, process, history
  <2> QED  BY <2>1 DEF Unplanned
<1>5. CASE Report \/ Conclude
  <2>1. pc' \notin {"config", "collect", "planning", "inventory"}
    BY <1>5 DEF Report, Conclude, Exit
  <2> QED  BY <2>1 DEF Unplanned
<1>6. CASE Preflight \/ Observe \/ Revalidate \/ CheckExtract \/ CheckCreateBegin \/ CheckCreateEnd
  <2>1. pc' \notin {"config", "collect", "planning", "inventory"}
    BY <1>6, ValidationOutcome, CheckOutcome DEF AInv
  <2> QED  BY <2>1 DEF Unplanned
<1>7. CASE WalkStep \/ Edit \/ ForeignChange \/ UNCHANGED vars
  <2>1. UNCHANGED <<pc, command, config, jobs, planned>>
    BY <1>7 DEF WalkStep, Edit, ForeignChange, vars, process, plan, history
  <2> QED  BY <2>1 DEF Unplanned
<1> QED  BY <1>1, <1>2, <1>3, <1>4, <1>5, <1>6, <1>7 DEF Next, Ended

(* The manifest is the plan until somebody edits it.                        *)
LEMMA NextFresh == ASSUME IInv, AInv, Drafted, Unplanned, Fresh, [Next]_vars PROVE Fresh'
<1>1. CASE Collect \/ PlanExtract \/ PlanCreateEnd
  <2>1. UNCHANGED <<planned, editCount>> /\ planned = << >>
    BY <1>1 DEF Unplanned, Collect, PlanExtract, PlanCreateEnd, Planning, history
  <2> QED  BY <2>1 DEF Fresh
<1>2. CASE Report
  <2>1. UNCHANGED editCount /\ pc = "planning"
    BY <1>2 DEF Report
  <2>2. CASE planned' = planned
    BY <2>1, <2>2 DEF Unplanned, Fresh
  <2>3. CASE planned' # planned
    <3>1. /\ records' = jobs /\ planned' = jobs
          /\ errors' = errors \union Collisions(jobs)
      BY <1>2, <2>3 DEF Report
    <3>2. errors' = {} => Separate(jobs)
      BY <2>1, <3>1, PlanIsSeparate DEF Drafted
    <3> QED  BY <2>1, <3>1, <3>2 DEF Drafted, Fresh
  <2> QED  BY <2>2, <2>3
<1>3. CASE Edit
  <2>1. editCount' = editCount + 1
    BY <1>3 DEF Edit
  <2> QED  BY <2>1 DEF Fresh
<1>4. CASE Configure \/ PlanCreateBegin \/ WalkStep \/ Rerun \/ Conclude \/ ForeignChange
           \/ UNCHANGED vars
  <2>1. UNCHANGED <<planned, editCount, errors, records>>
    BY <1>4 DEF Configure, PlanCreateBegin, WalkStep, Rerun, Conclude, ForeignChange, vars,
                plan, history
  <2> QED  BY <2>1 DEF Fresh
<1>5. CASE Preflight \/ Observe \/ Revalidate \/ CheckExtract \/ CheckCreateBegin \/ CheckCreateEnd
  <2>1. UNCHANGED <<planned, editCount, errors, records>>
    BY <1>5 DEF Preflight, Observe, Revalidate, CheckExtract, CheckCreateBegin, CheckCreateEnd,
                plan, history
  <2> QED  BY <2>1 DEF Fresh
<1> QED  BY <1>1, <1>2, <1>3, <1>4, <1>5 DEF Next, Ended
(* A validation against the I/O budget has such a budget.                   *)
LEMMA SlotsKnown ==
    ASSUME IInv, Settled, Detected,
           pc = "validate" \/ (pc = "preflight" /\ ~config.uses_auto_io_slots)
    PROVE  config.io_slots \in Nat \ {0}
<1>1. CASE pc = "validate"
  BY <1>1 DEF Detected
<1>2. CASE pc # "validate"
  <2>1. Resolvable(layers) /\ config = Resolve(layers)
    BY <1>2, HasConfig DEF Settled
  <2> QED  BY <2>1, ResolvedBudget DEF IntFields
<1> QED  BY <1>1, <1>2

(* How a validation against the I/O budget ends.                            *)
LEMMA ValidatedKept ==
    ASSUME IInv, Settled, Detected, Kept,
           pc = "validate" \/ (pc = "preflight" /\ ~config.uses_auto_io_slots),
           Validated(Validate(records, config, TRUE)),
           UNCHANGED <<config, records, preflight>>
    PROVE  Kept'
<1>1. /\ runtime = << >> /\ config.io_slots \in Nat \ {0}
      /\ pc = "validate" <=> preflight # << >>
  BY SlotsKnown DEF IInv, Idle, Detected
<1>2. CASE Validate(records, config, TRUE).verdict = "valid"
  <2>1. pc' = "execute" /\ runtime' = Validate(records, config, TRUE).jobs
    BY <1>2 DEF Validated
  <2>2. runtime' # << >> /\ runtime' = RuntimeJobs(records, config)
    BY <1>2, <2>1, ValidSequence
  <2>3. \A i \in DOMAIN records : Verdict(records[i], config, TRUE) = "valid"
    BY <1>2, AllAreValid
  <2> QED  BY <2>1, <2>2, <2>3 DEF Kept
<1>3. CASE Validate(records, config, TRUE).verdict # "valid"
  <2>1. pc' = "ended" /\ UNCHANGED runtime
    BY <1>3 DEF Validated, Raise, Exit
  <2>2. ASSUME preflight # << >>
        PROVE  \E i \in DOMAIN records : records[i].io_tokens > config.io_slots
    <3>1. PICK i \in DOMAIN records :
                Verdict(records[i], config, TRUE) # "valid" \/ Clashes(records, i)
      BY <1>3, <2>2, SomeRefused DEF Kept
    <3>2. PICK cfg : Verdict(records[i], cfg, FALSE) = "valid"
      BY <2>2 DEF Kept
    <3>3. Verdict(records[i], config, TRUE) # "valid"
      BY <2>2, <3>1 DEF Kept
    <3>4. records[i].io_tokens > config.io_slots
      BY <1>1, <3>2, <3>3, SecondVerdict
    <3> QED  BY <3>4
  <2> QED  BY <1>1, <2>1, <2>2 DEF Kept
<1> QED  BY <1>2, <1>3

(* Jobs stay those of the manifest, and the refusals those of the slots.    *)
LEMMA NextKept == ASSUME IInv, Settled, Detected, AInv, Kept, [Next]_vars PROVE Kept'
<1>1. CASE Configure \/ Rerun \/ Report \/ Edit
  <2>1. /\ runtime' = << >> /\ preflight' = << >>
        /\ pc' \notin {"execute", "check"}
    BY <1>1 DEF IInv, Idle, Detected, Configure, Rerun, Report, Edit, Raise, Exit, run
  <2> QED  BY <2>1 DEF Kept
<1>2. CASE Collect \/ PlanExtract \/ PlanCreateBegin \/ PlanCreateEnd
  <2>1. /\ runtime' = << >> /\ preflight' = << >> /\ pc' \notin {"execute", "check"}
    BY <1>2 DEF IInv, Idle, Detected, Collect, PlanExtract, PlanCreateBegin, PlanCreateEnd,
                Planning, Raise, Exit, run
  <2> QED  BY <2>1 DEF Kept
<1>3. CASE Preflight
  <2>1. pc = "preflight" /\ runtime = << >> /\ preflight = << >> /\ UNCHANGED <<config, records>>
    BY <1>3 DEF IInv, Idle, Detected, Preflight, process
  <2>2. CASE ~config.uses_auto_io_slots
    BY <1>3, <2>1, <2>2, ValidatedKept DEF Preflight
  <2>3. CASE config.uses_auto_io_slots
    <3>1. UNCHANGED runtime
      BY <1>3, <2>3 DEF Preflight
    <3>2. \/ pc' = "ended" /\ UNCHANGED preflight
          \/ pc' = "observe" /\ Validate(records, config, FALSE).verdict = "valid"
      BY <1>3, <2>3 DEF Preflight, Raise, Exit
    <3>3. CASE pc' = "ended" /\ UNCHANGED preflight
      BY <2>1, <3>1, <3>3 DEF Kept
    <3>4. CASE pc' = "observe" /\ Validate(records, config, FALSE).verdict = "valid"
      <4>1. /\ records # << >>
            /\ \A i \in DOMAIN records : Verdict(records[i], config, FALSE) = "valid"
                                         /\ ~Clashes(records, i)
        BY <3>4, AllAreValid
      <4> QED  BY <2>1, <3>1, <3>4, <4>1 DEF Kept
    <3> QED  BY <3>2, <3>3, <3>4
  <2> QED  BY <2>2, <2>3
<1>4. CASE Observe
  <2>1. runtime' = << >> /\ pc' = "validate" /\ UNCHANGED <<records, preflight>>
    BY <1>4 DEF IInv, Idle, Observe, run
  <2> QED  BY <2>1 DEF Kept
<1>5. CASE Revalidate
  BY <1>5, ValidatedKept DEF Revalidate, ValidateRecords, process
<1>6. CASE CheckExtract \/ CheckCreateBegin \/ CheckCreateEnd \/ Conclude
  <2>1. /\ pc \in {"execute", "check"} /\ UNCHANGED <<config, records, runtime, preflight>>
    BY <1>6 DEF CheckExtract, CheckCreateBegin, CheckCreateEnd, Conclude, Executing, process, run
  <2> QED  BY <2>1 DEF Kept
<1>7. CASE WalkStep \/ ForeignChange \/ UNCHANGED vars
  <2>1. UNCHANGED <<pc, config, records, runtime, preflight>>
    BY <1>7 DEF WalkStep, ForeignChange, vars, process, run
  <2> QED  BY <2>1 DEF Kept
<1> QED  BY <1>1, <1>2, <1>3, <1>4, <1>5, <1>6, <1>7 DEF Next, Ended

(* No validation refuses a plan that nobody edited.                         *)
LEMMA FreshIsValid ==
    ASSUME IInv, Fresh, planned # << >>, errors = {}, editCount = 0,
           NEW enforce \in BOOLEAN, enforce => config.io_slots \in Nat \ {0}
    PROVE  Validate(records, config, enforce).verdict = "valid"
<1>1. /\ records # << >> /\ records \in Seq(ToSet(records)) /\ Separate(records)
      /\ \A i \in DOMAIN records : Faultless(records[i])
  BY DEF Fresh, IInv, Listed
<1> QED  BY <1>1, PlanIsValid

(* So no step ends a run of one before there are jobs.                      *)
LEMMA NextAccepted ==
    ASSUME IInv, Settled, Detected, DInv, [Next]_vars
    PROVE  PlannedIsAccepted'
<1> SUFFICES ASSUME pc' = "ended", planned' # << >>, errors' = {}, editCount' = 0,
                    config' # NoConfig
             PROVE  runtime' # << >>
  BY DEF PlannedIsAccepted
<1>1. CASE Configure
  <2>1. config' = NoConfig
    BY <1>1 DEF DInv, Unplanned, Configure
  <2> QED  BY <2>1
<1>2. CASE Collect \/ Report
  <2>1. planned' = << >>
    BY <1>2 DEF DInv, Unplanned, Collect, Report, history
  <2> QED  BY <2>1
<1>3. CASE Preflight \/ Revalidate
  <2>1. UNCHANGED <<planned, errors, editCount, config>>
    BY <1>3 DEF Preflight, Revalidate, process, plan, history
  <2>2. planned # << >> /\ errors = {} /\ editCount = 0 /\ Fresh
    BY <2>1 DEF DInv
  <2>3. CASE Preflight /\ config.uses_auto_io_slots
    <3>1. Validate(records, config, FALSE).verdict = "valid"
      BY <2>2, FreshIsValid
    <3> QED  BY <2>3, <3>1 DEF Preflight
  <2>4. CASE Revalidate \/ (Preflight /\ ~config.uses_auto_io_slots)
    <3>1. config.io_slots \in Nat \ {0}
      BY <2>4, SlotsKnown DEF Preflight, Revalidate
    <3>2. Validate(records, config, TRUE).verdict = "valid"
      BY <2>2, <3>1, FreshIsValid
    <3> QED  BY <2>4, <3>2 DEF Preflight, Revalidate, Validated, ValidateRecords
  <2> QED  BY <1>3, <2>3, <2>4
<1>4. CASE Conclude
  BY <1>4 DEF DInv, Kept, Conclude, run
<1>5. CASE \/ PlanExtract \/ PlanCreateBegin \/ PlanCreateEnd \/ Edit \/ Rerun \/ Observe
           \/ CheckExtract \/ CheckCreateBegin \/ CheckCreateEnd \/ WalkStep \/ ForeignChange
  BY <1>5 DEF PlanExtract, PlanCreateBegin, PlanCreateEnd, Planning, Edit, Rerun, Observe,
              CheckExtract, CheckCreateBegin, CheckCreateEnd, Executing, Judged, WalkStep,
              ForeignChange
<1>6. CASE UNCHANGED vars
  <2>1. UNCHANGED <<pc, planned, errors, editCount, config, runtime>>
    BY <1>6 DEF vars, process, plan, run, history
  <2> QED  BY <2>1 DEF DInv, PlannedIsAccepted
<1> QED  BY <1>1, <1>2, <1>3, <1>4, <1>5, <1>6 DEF Next, Ended

(* All of that holds in every reachable state.                              *)
LEMMA Drafting == Spec => [](Settled /\ Detected /\ DInv)
<1>1. Init => WInv /\ Settled /\ Detected /\ AInv /\ DInv
  <2>1. SUFFICES ASSUME Init PROVE Settled /\ Detected /\ DInv
    BY InitWInv, InitAInv
  <2>2. Settled /\ Detected
    BY <2>1 DEF Init, Settled, Detected
  <2>3. Drafted /\ Unplanned /\ Fresh /\ Kept /\ PlannedIsAccepted
    BY <2>1 DEF Init, Drafted, Unplanned, Fresh, Kept, PlannedIsAccepted
  <2> QED  BY <2>2, <2>3 DEF DInv
<1>2. IInv /\ WInv /\ Settled /\ Detected /\ AInv /\ DInv /\ [Next]_vars => (Settled /\ Detected /\ DInv)'
  BY NextSettled, NextDetected, NextDrafted, NextUnplanned, NextFresh, NextKept, NextAccepted
     DEF DInv
<1> QED  BY <1>1, <1>2, Invariance, Accounted, PTL DEF Spec

(* PlannedIsAccepted, of make_plan and make_create_plan with                *)
(* validate_manifest: a plan without errors that nobody edited is run under *)
(* every configuration, in one process or two, with detection or without.   *)
THEOREM PlansAreAccepted == Spec => []PlannedIsAccepted
<1>1. DInv => PlannedIsAccepted
  BY DEF DInv
<1> QED  BY <1>1, Drafting, PTL

(* ValidatedOnce, of _prepare_runtime_jobs: two validations leave what one  *)
(* would, and the second refuses only for want of I/O slots.                *)
THEOREM ValidationLeavesOneTrace == Spec => []ValidatedOnce
<1>1. IInv /\ DInv => ValidatedOnce
  <2>1. SUFFICES ASSUME IInv, Kept PROVE ValidatedOnce
    BY DEF DInv
  <2>2. ASSUME NEW i \in DOMAIN runtime
        PROVE  /\ runtime[i].inputSchema = records[i].schema
               /\ ~restamped => IsInjective(runtime[i].warnings)
    <3>1. runtime # << >>
      <4>1. DOMAIN << >> = {}
        OBVIOUS
      <4> QED  BY <2>2, <4>1, Zenon
    <3>2. /\ i \in DOMAIN records /\ runtime[i] = Runtime(records[i], config)
          /\ Verdict(records[i], config, TRUE) = "valid"
      BY <2>1, <2>2, <3>1 DEF Kept, RuntimeJobs
    <3>3. RequiredFields \subseteq DOMAIN records[i] /\ records[i].integrity = Integrity(records[i])
      BY <3>2, ValidRecord
    <3>4. runtime[i].inputSchema = records[i].schema
      BY <3>2, <3>3, RuntimeFields
    <3>5. ASSUME ~restamped PROVE IsInjective(runtime[i].warnings)
      <4>1. PICK origin \in Origins : records[i].integrity = origin.integrity
        BY <2>1, <3>2, <3>5 DEF IInv, Traced
      <4>2. AsPlanned(origin)
        BY <2>1 DEF IInv, Unedited
      <4>3. Integrity(records[i]) = Integrity(origin)
        BY <3>3, <4>1, <4>2 DEF AsPlanned
      <4>4. records[i].warnings = origin.warnings
        BY <4>3 DEF Integrity, Restrict, ProtectedFields
      <4> QED  BY <3>2, <3>3, <4>2, <4>4, WarningsOnce DEF AsPlanned
    <3> QED  BY <3>4, <3>5
  <2> QED  BY <2>1, <2>2 DEF Kept, ValidatedOnce
<1> QED  BY <1>1, Invariance, Drafting, PTL
-----------------------------------------------------------------------------
(* Volumes. No two of the names that identify answers with are volumes of   *)
(* one archive, unless a given name is itself in two series: x.part2.r00 is *)
(* taken for a volume of x.part2.rar, which is one of x.part1.rar.          *)
InOneSeries(name) ==
    Family(name) = "old-rar" /\ Len(name) >= 3 => Before2(name) \notin DOMAIN PartFirst

InputsInOneSeries ==
    \A s \in Scenarios : \A spelling \in ToSet(s.given) : InOneSeries(Name(PathKey(spelling)))

(* A name that stands for no volume but the first.                          *)
FirstOfSeries(name) ==
    /\ IsList(name) /\ name # << >>
    /\ Len(name) >= 2 => Last(name) \notin OldRarParts \union SplitZipParts
    /\ Len(name) >= 3 /\ Before2(name) \in {"7z", "zip"} => Last(name) \notin {"002", "0002"}
    /\ Len(name) >= 3 /\ Last(name) = "rar" => Before2(name) \notin {"part2", "part02"}

(* The ends of a sequence that is not empty.                                *)
LEMMA FrontAndLast ==
    ASSUME NEW S, NEW s \in Seq(S), s # << >>
    PROVE  /\ Front(s) \in Seq(S) /\ Len(Front(s)) = Len(s) - 1
           /\ \A i \in 1..(Len(s) - 1) : Front(s)[i] = s[i]
           /\ Last(s) = s[Len(s)] /\ Last(s) \in S /\ Len(s) \in Nat \ {0}
<1>1. Len(s) \in Nat \ {0} /\ \A i \in 1..Len(s) : s[i] \in S
  OBVIOUS
<1>2. Last(s) = s[Len(s)] /\ Last(s) \in S
  BY <1>1 DEF Last
<1> DEFINE e == Len(s) - 1
           f == SubSeq(s, 1, e)
<1>3. e \in Nat /\ e \in Int /\ \A i \in 1..e : s[i] \in S
  BY <1>1
<1> HIDE DEF e
<1>4. /\ f \in Seq(S) /\ Len(f) = IF 1 =< e THEN e - 1 + 1 ELSE 0
      /\ \A i \in 1..(e - 1 + 1) : f[i] = s[1 + i - 1]
  BY <1>3, SubSeqProperties
<1>5. Front(s) = f
  BY DEF Front, e
<1> HIDE DEF f
<1>6. /\ Len(f) = e /\ \A i \in 1..e : f[i] = s[i]
  <2>1. /\ (IF 1 =< e THEN e - 1 + 1 ELSE 0) = e /\ e - 1 + 1 = e
        /\ \A i \in 1..e : 1 + i - 1 = i
    BY <1>3
  <2> QED  BY <1>4, <2>1
<1> QED  BY <1>1, <1>2, <1>4, <1>5, <1>6 DEF e

(* A list stays one, whatever set its elements are taken from.              *)
LEMMA ListOf ==
    ASSUME NEW S, NEW s \in Seq(S)
    PROVE  IsList(s)
BY OfItsElements DEF IsList

(* The ends of a list.                                                      *)
LEMMA ListEnds ==
    ASSUME NEW s, IsList(s), s # << >>
    PROVE  /\ IsList(Front(s)) /\ Len(Front(s)) = Len(s) - 1 /\ Len(s) \in Nat \ {0}
           /\ \A i \in 1..(Len(s) - 1) : Front(s)[i] = s[i]
           /\ Last(s) = s[Len(s)]
<1>1. /\ Front(s) \in Seq(ToSet(s)) /\ Len(Front(s)) = Len(s) - 1 /\ Len(s) \in Nat \ {0}
      /\ \A i \in 1..(Len(s) - 1) : Front(s)[i] = s[i]
      /\ Last(s) = s[Len(s)]
  BY FrontAndLast DEF IsList
<1> QED  BY <1>1, ListOf

(* Two lists with the same elements at the same places are the same.        *)
LEMMA SameLists ==
    ASSUME NEW s, NEW t, IsList(s), IsList(t), Len(s) = Len(t),
           \A i \in 1..Len(s) : s[i] = t[i]
    PROVE  s = t
<1> DEFINE S == ToSet(s) \union ToSet(t)
<1>1. s \in Seq(S) /\ t \in Seq(S)
  <2>1. ToSet(s) \subseteq S /\ ToSet(t) \subseteq S
    OBVIOUS
  <2> HIDE DEF S
  <2> QED  BY <2>1, SeqMonotonic DEF IsList
<1> HIDE DEF S
<1> QED  BY <1>1, SeqEqual

(* Two lists with the same ends are the same.                               *)
LEMMA SameEnds ==
    ASSUME NEW s, NEW t, IsList(s), IsList(t), s # << >>, t # << >>,
           Front(s) = Front(t), Last(s) = Last(t)
    PROVE  s = t
<1>1. /\ Len(s) \in Nat \ {0} /\ Len(t) \in Nat \ {0}
      /\ Len(Front(s)) = Len(s) - 1 /\ Len(Front(t)) = Len(t) - 1
      /\ \A i \in 1..(Len(s) - 1) : Front(s)[i] = s[i]
      /\ \A i \in 1..(Len(t) - 1) : Front(t)[i] = t[i]
      /\ Last(s) = s[Len(s)] /\ Last(t) = t[Len(t)]
  BY ListEnds
<1>2. Len(s) = Len(t)
  BY <1>1
<1>3. ASSUME NEW i \in 1..Len(s) PROVE s[i] = t[i]
  <2>1. CASE i = Len(s)
    BY <1>1, <1>2, <2>1
  <2>2. CASE i # Len(s)
    <3>1. i \in 1..(Len(s) - 1) /\ i \in 1..(Len(t) - 1)
      BY <1>1, <1>2, <2>2
    <3>2. Front(s)[i] = s[i] /\ Front(t)[i] = t[i]
      BY <1>1, <3>1
    <3> QED  BY <3>2
  <2> QED  BY <2>1, <2>2
<1> QED  BY <1>2, <1>3, SameLists

(* The ends of a list that an element was added to.                         *)
LEMMA AppendEnds ==
    ASSUME NEW s, IsList(s), NEW e
    PROVE  /\ IsList(Append(s, e)) /\ Append(s, e) # << >>
           /\ Front(Append(s, e)) = s /\ Last(Append(s, e)) = e
           /\ Len(Append(s, e)) = Len(s) + 1
           /\ s # << >> => Append(s, e)[Len(s)] = Last(s)
<1> DEFINE t == Append(s, e)
           S == ToSet(s) \union {e}
<1>1. e \in S /\ s \in Seq(S)
  <2>1. ToSet(s) \subseteq S
    OBVIOUS
  <2> HIDE DEF S
  <2>2. s \in Seq(S)
    BY <2>1, SeqMonotonic DEF IsList
  <2> QED  BY <2>2 DEF S
<1> HIDE DEF S
<1>2. /\ t \in Seq(S) /\ t # << >> /\ Len(t) = Len(s) + 1 /\ t[Len(s) + 1] = e
      /\ \A i \in 1..Len(s) : t[i] = s[i]
  BY <1>1, AppendProperties
<1> HIDE DEF t
<1>3. IsList(t)
  BY <1>2, ListOf
<1>4. /\ IsList(Front(t)) /\ Len(Front(t)) = Len(t) - 1 /\ Last(t) = t[Len(t)]
      /\ \A i \in 1..(Len(t) - 1) : Front(t)[i] = t[i]
  BY <1>2, <1>3, ListEnds
<1>5. Len(s) \in Nat
  BY <1>1
<1>6. Front(t) = s
  <2>1. Len(Front(t)) = Len(s) /\ \A i \in 1..Len(s) : Front(t)[i] = s[i]
    BY <1>2, <1>4, <1>5
  <2> QED  BY <1>4, <2>1, SameLists
<1>7. Last(t) = e
  BY <1>2, <1>4, <1>5
<1>8. ASSUME s # << >> PROVE t[Len(s)] = Last(s)
  <2>1. Last(s) = s[Len(s)] /\ Len(s) \in Nat \ {0}
    BY <1>8, ListEnds
  <2> QED  BY <1>2, <2>1
<1> QED  BY <1>2, <1>3, <1>6, <1>7, <1>8 DEF t

(* The part before the last of a name, and what is left without either.     *)
LEMMA BeforeLast ==
    ASSUME NEW name, IsList(name), Len(name) >= 2
    PROVE  /\ IsList(Front(name)) /\ Front(name) # << >>
           /\ Last(Front(name)) = Before2(name)
           /\ IsList(Front(Front(name)))
<1>1. name # << >>
  OBVIOUS
<1>2. /\ IsList(Front(name)) /\ Len(Front(name)) = Len(name) - 1
      /\ \A i \in 1..(Len(name) - 1) : Front(name)[i] = name[i]
      /\ Len(name) \in Nat
  BY <1>1, ListEnds
<1>3. Front(name) # << >>
  BY <1>2
<1>4. Last(Front(name)) = Before2(name)
  BY <1>2 DEF Last, Before2
<1>5. IsList(Front(Front(name)))
  BY <1>2, <1>3, ListEnds
<1> QED  BY <1>2, <1>3, <1>4, <1>5

(* Of two firsts, none is a volume of the archive of the other.             *)
LEMMA FirstsDiffer ==
    ASSUME NEW m, NEW n, FirstOfSeries(m), FirstOfSeries(n), SameSeries(m, n)
    PROVE  m = n
<1> USE DEF FirstOfSeries
<1>1. /\ Len(Front(m)) = Len(m) - 1 /\ Len(Front(n)) = Len(n) - 1
      /\ Len(m) \in Nat /\ Len(n) \in Nat
  BY ListEnds
<1> HIDE DEF FirstOfSeries
<1>5. ASSUME Front(m) = Front(n), Last(m) = Last(n) PROVE m = n
  BY <1>5, SameEnds DEF FirstOfSeries
<1> USE DEF FirstOfSeries
<1>2. CASE /\ Len(m) >= 2 /\ Front(m) = Front(n)
           /\ \/ {Last(m), Last(n)} \subseteq {"rar", "r00", "r01"}
              \/ {Last(m), Last(n)} \subseteq {"zip", "z01", "z02"}
  <2>1. Len(n) >= 2
    BY <1>1, <1>2
  <2>2. Last(m) = Last(n)
    BY <1>2, <2>1 DEF OldRarParts, SplitZipParts
  <2> QED  BY <1>2, <1>5, <2>2
<1>3. CASE /\ Len(m) >= 3 /\ Front(m) = Front(n) /\ Before2(m) \in {"7z", "zip"}
           /\ \/ {Last(m), Last(n)} \subseteq {"001", "002"}
              \/ {Last(m), Last(n)} \subseteq {"0001", "0002"}
  <2>1. Len(n) >= 3 /\ Before2(n) = Before2(m)
    <3>1. Len(n) >= 3
      BY <1>1, <1>3
    <3> QED  BY <1>3, <3>1, BeforeLast
  <2>2. Last(m) = Last(n)
    BY <1>3, <2>1
  <2> QED  BY <1>3, <1>5, <2>2
<1>4. CASE /\ Len(m) >= 3 /\ Len(n) = Len(m) /\ Front(Front(m)) = Front(Front(n))
           /\ {Last(m), Last(n)} = {"rar"}
           /\ \/ {Before2(m), Before2(n)} \subseteq {"part1", "part2"}
              \/ {Before2(m), Before2(n)} \subseteq {"part01", "part02"}
  <2>1. Last(m) = "rar" /\ Last(n) = "rar"
    BY <1>4
  <2>2. Before2(m) = Before2(n)
    BY <1>4, <2>1
  <2>3. Front(m) = Front(n)
    <3>1. /\ IsList(Front(m)) /\ Front(m) # << >> /\ Last(Front(m)) = Before2(m)
          /\ IsList(Front(n)) /\ Front(n) # << >> /\ Last(Front(n)) = Before2(n)
      BY <1>1, <1>4, BeforeLast
    <3> QED  BY <1>4, <2>2, <3>1, SameEnds
  <2> QED  BY <1>5, <2>1, <2>3
<1> QED  BY <1>2, <1>3, <1>4 DEF SameSeries

(* What identify answers with, in the directory of the path it was asked    *)
(* about, is a first.                                                       *)
LEMMA FirstVolumeIsFirst ==
    ASSUME NEW path, ProperPath(path), InOneSeries(Name(path))
    PROVE  LET first == FirstVolume(path)
           IN  /\ first = Append(Parent(first), Name(first))
               /\ FirstOfSeries(Name(first))
<1> DEFINE name == Name(path)
           first == CASE Family(name) = "numbered" ->
                        WithSuffix(name, NumberedFirst[Suffix(name)])
                   [] Family(name) = "part-rar" ->
                        Append(Append(Front(Front(name)), PartFirst[Before2(name)]), "rar")
                   [] Family(name) = "old-rar"   -> WithSuffix(name, "rar")
                   [] Family(name) = "split-zip" -> WithSuffix(name, "zip")
                   [] OTHER -> name
<1>1. /\ IsList(name) /\ name # << >> /\ IsList(Front(path))
      /\ Len(name) \in Nat \ {0}
  BY ListEnds DEF ProperPath, Name
<1>2. FirstVolume(path) = Append(Front(path), first)
  BY DEF FirstVolume, WithName
<1>3. /\ DOMAIN NumberedFirst = {"001", "002", "0001", "0002"}
      /\ NumberedFirst["001"] = "001" /\ NumberedFirst["002"] = "001"
      /\ NumberedFirst["0001"] = "0001" /\ NumberedFirst["0002"] = "0001"
  BY DEF NumberedFirst
<1>4. /\ DOMAIN PartFirst = {"part1", "part2", "part01", "part02"}
      /\ PartFirst["part1"] = "part1" /\ PartFirst["part2"] = "part1"
      /\ PartFirst["part01"] = "part01" /\ PartFirst["part02"] = "part01"
  BY DEF PartFirst
<1>5. IsList(Front(name))
  BY <1>1, ListEnds
<1>6. FirstOfSeries(first)
  <2>1. CASE Family(name) = "numbered"
    <3>1. /\ Len(name) >= 3 /\ Last(name) \in DOMAIN NumberedFirst
          /\ Before2(name) \in {"7z", "zip"}
      BY <2>1 DEF Family, Suffix
    <3>2. first = Append(Front(name), NumberedFirst[Last(name)])
      BY <2>1 DEF WithSuffix, Suffix
    <3>3. NumberedFirst[Last(name)] \in {"001", "0001"}
      BY <1>3, <3>1
    <3> HIDE DEF first
    <3>4. IsList(first) /\ first # << >> /\ Last(first) \in {"001", "0001"}
      BY <1>5, <3>2, <3>3, AppendEnds
    <3> QED  BY <3>4 DEF FirstOfSeries, OldRarParts, SplitZipParts
  <2>2. CASE Family(name) = "part-rar"
    <3>1. Len(name) >= 3 /\ Before2(name) \in DOMAIN PartFirst
      BY <2>2 DEF Family
    <3> DEFINE number == PartFirst[Before2(name)]
               start == Append(Front(Front(name)), number)
    <3>2. first = Append(start, "rar") /\ number \in {"part1", "part01"}
      BY <1>4, <2>2, <3>1
    <3>3. IsList(Front(Front(name)))
      BY <1>1, <3>1, BeforeLast
    <3>4. IsList(start) /\ start # << >> /\ Last(start) = number
      BY <3>2, <3>3, AppendEnds
    <3> HIDE DEF start, number, first
    <3>5. /\ IsList(first) /\ first # << >> /\ Last(first) = "rar"
          /\ Len(first) = Len(start) + 1 /\ first[Len(start)] = number
      BY <3>2, <3>4, AppendEnds
    <3>6. Before2(first) = number
      BY <3>4, <3>5 DEF Before2
    <3> QED  BY <3>2, <3>5, <3>6 DEF FirstOfSeries, OldRarParts, SplitZipParts
  <2>3. CASE Family(name) = "old-rar"
    <3>1. Len(name) >= 2
      BY <2>3 DEF Family
    <3>2. first = Append(Front(name), "rar")
      BY <2>3 DEF WithSuffix
    <3>3. IsList(Front(name)) /\ Front(name) # << >> /\ Last(Front(name)) = Before2(name)
      BY <1>1, <3>1, BeforeLast
    <3> HIDE DEF first
    <3>4. /\ IsList(first) /\ first # << >> /\ Last(first) = "rar"
          /\ Len(first) = Len(Front(name)) + 1 /\ first[Len(Front(name))] = Before2(name)
          /\ Len(Front(name)) = Len(name) - 1
      BY <1>1, <3>2, <3>3, AppendEnds, ListEnds
    <3>5. Before2(first) = Before2(name) /\ Len(first) = Len(name)
      BY <1>1, <3>4 DEF Before2
    <3> QED  BY <1>4, <2>3, <3>4, <3>5 DEF FirstOfSeries, InOneSeries, OldRarParts, SplitZipParts
  <2>4. CASE Family(name) = "split-zip"
    <3>1. first = Append(Front(name), "zip")
      BY <2>4 DEF WithSuffix
    <3> HIDE DEF first
    <3>2. IsList(first) /\ first # << >> /\ Last(first) = "zip"
      BY <1>5, <3>1, AppendEnds
    <3> QED  BY <3>2 DEF FirstOfSeries, OldRarParts, SplitZipParts
  <2>5. CASE Family(name) = "none"
    <3>1. first = name
      BY <2>5
    <3>2. /\ Len(name) >= 2 => Last(name) \notin OldRarParts \union SplitZipParts
          /\ Len(name) >= 3 /\ Before2(name) \in {"7z", "zip"} =>
                Last(name) \notin DOMAIN NumberedFirst
          /\ Len(name) >= 3 /\ Last(name) = "rar" => Before2(name) \notin DOMAIN PartFirst
      BY <2>5 DEF Family, Suffix
    <3> QED  BY <1>1, <1>3, <1>4, <3>1, <3>2 DEF FirstOfSeries
  <2> QED  BY <2>1, <2>2, <2>3, <2>4, <2>5 DEF Family
<1>7. /\ Front(FirstVolume(path)) = Front(path) /\ Last(FirstVolume(path)) = first
  <2>1. IsList(first)
    BY <1>6 DEF FirstOfSeries
  <2> QED  BY <1>1, <1>2, <2>1, AppendEnds
<1> QED  BY <1>2, <1>6, <1>7 DEF Parent, Name

(* What is planned is meant by a given path, and each meaning is planned    *)
(* once.                                                                    *)
Intended ==
    /\ pc \in {"planning", "inventory"} => \A n \in DOMAIN inputs : inputs[n] \in Wanted
    /\ \A k \in DOMAIN jobs : jobs[k].path \in Wanted
    /\ \A i, k \in DOMAIN jobs : jobs[i].path = jobs[k].path => i = k

(* Only a turn of the planner adds a job, and that is its input's.          *)
LEMMA NextIntended == ASSUME IInv, AInv, DInv, Intended, [Next]_vars PROVE Intended'
<1>1. Wanted' = Wanted
  <2>1. CASE Preflight \/ Observe \/ Revalidate \/ CheckExtract \/ CheckCreateBegin \/ CheckCreateEnd
    BY <2>1, ValidationOutcome, CheckOutcome DEF AInv, Wanted
  <2>2. CASE \/ Configure \/ Collect \/ PlanExtract \/ PlanCreateBegin \/ PlanCreateEnd
             \/ WalkStep \/ Report \/ Edit \/ ForeignChange \/ Rerun \/ Conclude \/ UNCHANGED vars
    BY <2>2 DEF Configure, Collect, PlanExtract, PlanCreateBegin, PlanCreateEnd, WalkStep, Report,
                Edit, ForeignChange, Rerun, Conclude, vars, Wanted
  <2> QED  BY <2>1, <2>2 DEF Next, Ended
<1>2. CASE Collect
  <2>1. UNCHANGED jobs
    BY <1>2 DEF Collect
  <2>2. pc' = "planning" => \A n \in DOMAIN inputs' : inputs'[n] \in Wanted
    BY <1>2, CollectedInputs
  <2>3. pc' \in {"ended", "planning"}
    BY <1>2, CollectedInputs
  <2> QED  BY <1>1, <2>1, <2>2, <2>3 DEF Intended
<1>3. CASE PlanExtract \/ PlanCreateEnd
  <2>1. pc \in {"planning", "inventory"} /\ pc' = "planning" /\ UNCHANGED inputs
    BY <1>3 DEF PlanExtract, PlanCreateEnd, Planning
  <2>2. Drafted'
    BY <1>3, NextDrafted DEF DInv, Next
  <2>3. \A k \in DOMAIN jobs' : \E n \in DOMAIN inputs : jobs'[k].path = inputs[n]
    BY <2>1, <2>2 DEF Drafted
  <2>4. \A n \in DOMAIN inputs : inputs[n] \in Wanted
    BY <2>1 DEF Intended
  <2>5. \A i, k \in DOMAIN jobs' : jobs'[i].path = jobs'[k].path => i = k
    BY <2>1, <2>2 DEF Drafted
  <2>6. \A k \in DOMAIN jobs' : jobs'[k].path \in Wanted
    BY <2>3, <2>4
  <2> QED  BY <1>1, <2>1, <2>4, <2>5, <2>6 DEF Intended
<1>4. CASE PlanCreateBegin \/ WalkStep \/ Edit \/ ForeignChange \/ UNCHANGED vars
  <2>1. /\ UNCHANGED <<inputs, jobs>>
        /\ UNCHANGED pc \/ (pc = "planning" /\ pc' = "inventory")
    BY <1>4 DEF PlanCreateBegin, Planning, WalkStep, Edit, ForeignChange, vars, plan
  <2> QED  BY <1>1, <2>1 DEF Intended
<1>5. CASE Configure \/ Report \/ Rerun \/ Conclude
  <2>1. UNCHANGED jobs /\ pc' \notin {"planning", "inventory"}
    BY <1>5 DEF Configure, Report, Rerun, Conclude, Raise, Exit, plan
  <2> QED  BY <1>1, <2>1 DEF Intended
<1>6. CASE Preflight \/ Observe \/ Revalidate \/ CheckExtract \/ CheckCreateBegin \/ CheckCreateEnd
  <2>1. UNCHANGED jobs /\ pc' \notin {"planning", "inventory"}
    BY <1>6, ValidationOutcome, CheckOutcome DEF AInv
  <2> QED  BY <1>1, <2>1 DEF Intended
<1> QED  BY <1>2, <1>3, <1>4, <1>5, <1>6 DEF Next, Ended

(* OneJobPerArchive, of canonicalize and make_plan: any number of volumes   *)
(* in any order and spelling make one job, for every tree and list of       *)
(* paths, except where a name belongs to two series.                        *)
THEOREM OneExtraction == ASSUME InputsInOneSeries PROVE Spec => []OneJobPerArchive
<1>1. Init => Intended
  BY DEF Init, Intended
<1>2. IInv /\ AInv /\ DInv /\ Intended /\ [Next]_vars => Intended'
  BY NextIntended
<1>3. IInv /\ Intended => OneJobPerArchive
  <2>1. SUFFICES ASSUME IInv, Intended, scenario.operation = "extract",
                        NEW i \in DOMAIN jobs, NEW k \in DOMAIN jobs, i # k,
                        SameArchive(jobs[i].path, jobs[k].path)
                 PROVE  FALSE
    BY DEF OneJobPerArchive
  <2>2. ASSUME NEW j \in DOMAIN jobs
        PROVE  /\ jobs[j].path = Append(Parent(jobs[j].path), Name(jobs[j].path))
               /\ FirstOfSeries(Name(jobs[j].path))
    <3>1. PICK n \in DOMAIN scenario.given : jobs[j].path = FirstVolume(PathKey(scenario.given[n]))
      BY <2>1, <2>2 DEF Intended, Wanted, Meant
    <3>2. scenario.given[n] \in ToSet(scenario.given) /\ scenario \in Scenarios
      BY <2>1 DEF ToSet, IInv
    <3>3. /\ ProperPath(PathKey(scenario.given[n]))
          /\ InOneSeries(Name(PathKey(scenario.given[n])))
      BY <3>2, ScenariosAssumption DEF InputsInOneSeries
    <3> QED  BY <3>1, <3>3, FirstVolumeIsFirst
  <2>3. Name(jobs[i].path) = Name(jobs[k].path) /\ Parent(jobs[i].path) = Parent(jobs[k].path)
    BY <2>1, <2>2, FirstsDiffer DEF SameArchive
  <2>4. jobs[i].path = jobs[k].path
    BY <2>2, <2>3, Zenon
  <2> QED  BY <2>1, <2>4 DEF Intended
<1> QED  BY <1>1, <1>2, <1>3, Invariance, Accounted, Drafting, PTL DEF Spec

=============================================================================
