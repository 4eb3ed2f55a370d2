----------------------------- MODULE CommandLine -----------------------------
(***************************************************************************)
(* main of cli.py: the life of a manifest. A process plans jobs from its   *)
(* inputs and either writes them as a manifest or runs them at once; a     *)
(* manifest may be edited, and another process runs it: validation,        *)
(* detection of the I/O slots, validation again, and each job's check of   *)
(* its source. Meanwhile the sources may change. What follows a successful *)
(* check is in Executors, how jobs are scheduled in Scheduler and Runner.  *)
(***************************************************************************)
EXTENDS Planning, StorageLinux, StorageWindows

CONSTANTS
    Scenarios,      (* what is asked and what the world is like: records    *)
                    (*   command, operation, legacy, layers, given, listed, *)
                    (*   tree, listing, world, edits, changes, rerun, extra *)
    EditsOf(_, _),  (* of a record and the manifest: records it may become  *)
    Replacements    (* what a changed path may become: [kind, size, old]    *)

(* Records at hand to be added to a manifest are as a planner writes them.  *)
ASSUME ScenariosAssumption ==
    \A s \in Scenarios :
        /\ s.command \in {"plan", "direct", "run"} /\ s.given \in Seq(ToSet(s.given))
        /\ \A spelling \in ToSet(s.given) : ProperPath(PathKey(spelling))
        /\ ProperTree(s.tree) /\ (s.world.platform = "linux" => ProperSys(s.world.sys))
        /\ s.extra \in Seq(ToSet(s.extra)) /\ \A job \in ToSet(s.extra) : AsPlanned(job)

VARIABLES
    scenario,   (* the member of Scenarios this behaviour is about          *)
    pc,         (* where the process is; "manifest" between two processes   *)
    command,    (* "plan", "direct" (extract or create), or "run"           *)
    layers,     (* the settings it was given                                *)
    config,     (* as resolved; NoConfig before                             *)
    inputs,     (* normalized inputs, in order                              *)
    turn,       (* the input being planned, or the job being started        *)
    jobs,       (* of the plan                                              *)
    errors,     (* input errors of the plan: paths                          *)
    warned,     (* the plan has warnings                                    *)
    records,    (* the manifest: planned, written, possibly edited          *)
    preflight,  (* jobs of the first validation, when there are two         *)
    runtime,    (* the validated jobs, handed to execute_manifest           *)
    started,    (* per job whose source was checked: "started", "failed"    *)
    walk,       (* the inventory being taken                                *)
    exitCode,   (* of the process; -1 while it runs                         *)
    tree, clock,
    planned,    (* history: the jobs as planned                             *)
    editCount,  (* history: edits of the manifest                           *)
    restamped,  (* history: an edit recomputed the hash of a record         *)
    quiet       (* history: no change since the current walk began          *)

process == <<command, layers, config>>
plan    == <<inputs, jobs, errors, warned>>
run     == <<preflight, runtime, started>>
world   == <<tree, clock, quiet>>
history == <<planned, editCount, restamped>>
vars == <<scenario, pc, process, plan, turn, records, run, walk, exitCode, world, history>>

NoConfig == [uses_auto_io_slots |-> FALSE]

Init ==
    /\ scenario \in Scenarios
    /\ pc = "config" /\ command = scenario.command /\ layers = scenario.layers
    /\ config = NoConfig
    /\ inputs = << >> /\ jobs = << >> /\ errors = {} /\ warned = FALSE /\ turn = 1
    /\ records = << >> /\ preflight = << >> /\ runtime = << >> /\ started = << >>
    /\ walk = NoWalk /\ exitCode = -1
    /\ tree = scenario.tree /\ clock = 10 /\ quiet = TRUE
    /\ planned = << >> /\ editCount = 0 /\ restamped = FALSE

Exit(code) == pc' = "ended" /\ exitCode' = code

(* An exception ends the process: UsageError with 64, others with 1.        *)
Raise(verdict) == Exit(IF verdict = "usage" THEN 64 ELSE 1)
-----------------------------------------------------------------------------
(* _config_from_args                                                        *)
Configure ==
    /\ pc = "config"
    /\ IF Resolvable(layers)
       THEN /\ config' = Resolve(layers)
            /\ pc' = IF command = "run" THEN "preflight" ELSE "collect"
            /\ UNCHANGED exitCode
       ELSE Raise("usage") /\ UNCHANGED config
    /\ UNCHANGED <<scenario, command, layers, plan, turn, records, run, walk, world, history>>

(* collect_paths and the normalizations. An empty list of positional paths  *)
(* is a usage error, an empty file of paths an input error.                 *)
Collect ==
    /\ pc = "collect"
    /\ IF scenario.given = << >> /\ ~scenario.listed
       THEN Raise("usage") /\ UNCHANGED <<inputs, errors>>
       ELSE /\ pc' = "planning"
            /\ inputs' = IF scenario.operation = "extract"
                         THEN ExtractInputs(tree, scenario.given)
                         ELSE CreateInputs(tree, scenario.given)
            /\ errors' = IF scenario.given = << >> THEN {<< >>}
                         ELSE Rejected(tree, scenario.operation, scenario.given)
            /\ UNCHANGED exitCode
    /\ UNCHANGED <<scenario, process, jobs, warned, turn, records, run, walk, world, history>>

Planning(operation) ==
    pc = "planning" /\ turn \in DOMAIN inputs /\ scenario.operation = operation

(* One turn of make_plan.                                                   *)
PlanExtract ==
    /\ Planning("extract")
    /\ LET path == inputs[turn]
           job == ExtractJob(IF scenario.legacy THEN 1 ELSE 2, turn - 1, path, tree[path],
                             scenario.listing[path], config)
       IN  IF tree[path].kind = "absent"
           THEN errors' = errors \union {path} /\ UNCHANGED <<jobs, warned>>
           ELSE /\ jobs' = Append(jobs, job)
                /\ warned' = (warned \/ job.warnings # << >>)
                /\ UNCHANGED errors
    /\ turn' = turn + 1
    /\ UNCHANGED <<scenario, pc, process, inputs, records, run, walk, exitCode, world, history>>

(* One turn of make_create_plan: the inventory, ...                         *)
PlanCreateBegin ==
    /\ Planning("create")
    /\ pc' = "inventory" /\ walk' = Begin(tree, inputs[turn]) /\ quiet' = TRUE
    /\ UNCHANGED <<scenario, process, plan, turn, records, run, exitCode, tree, clock, history>>

(* ... and, when it is complete or has failed, the job.                     *)
PlanCreateEnd ==
    /\ pc = "inventory" /\ walk.phase \in {"done", "failed"}
    /\ LET path == inputs[turn]
           unsafe == WithinOwnSource(walk.kind, path, CreateDestination(path, config), config)
       IN  IF walk.phase = "failed" \/ unsafe
           THEN errors' = errors \union {path} /\ UNCHANGED jobs
           ELSE /\ jobs' = Append(jobs, CreateJob(turn - 1, path, walk.identity, config))
                /\ UNCHANGED errors
    /\ pc' = "planning" /\ turn' = turn + 1 /\ walk' = NoWalk
    /\ UNCHANGED <<scenario, process, inputs, warned, records, run, exitCode, world, history>>

(* The steps of inventory_source, for planners and executors.               *)
WalkStep ==
    /\ pc \in {"inventory", "check"}
    /\ \/ /\ walk.phase = "scan"
          /\ \E directory \in walk.pending : walk' = Scan(tree, walk, directory)
       \/ /\ walk.phase = "restat"
          /\ \E path \in Unstatted(walk) : walk' = Restat(tree, walk, path)
       \/ /\ walk.phase = "restat" /\ Unstatted(walk) = {}
          /\ walk' = Finish(tree, walk)
    /\ UNCHANGED <<scenario, pc, process, plan, turn, records, run, exitCode, world, history>>

PlanExit(allErrors) == IF allErrors # {} \/ warned THEN 1 ELSE 0

(* The plan is complete: refuse it, write it, or go on to run it.           *)
Report ==
    /\ pc = "planning" /\ turn \notin DOMAIN inputs
    /\ LET allErrors == errors \union Collisions(jobs)
       IN  /\ errors' = allErrors
           /\ IF allErrors # {} /\ config.on_input_error = "fail"
              THEN Exit(64) /\ UNCHANGED <<records, planned>>
              ELSE IF command = "plan"
              THEN /\ records' = jobs /\ planned' = jobs
                   /\ pc' = "manifest" /\ exitCode' = PlanExit(allErrors)
              ELSE IF jobs = << >>
              THEN Exit(IF allErrors # {} THEN 1 ELSE 64) /\ UNCHANGED <<records, planned>>
              ELSE /\ records' = jobs /\ planned' = jobs
                   /\ pc' = "preflight" /\ UNCHANGED exitCode
    /\ UNCHANGED <<scenario, process, inputs, jobs, warned, turn, run, walk, world,
                   editCount, restamped>>
-----------------------------------------------------------------------------
(* An editor changes, drops, repeats or adds records of the manifest.       *)
Edit ==
    /\ pc = "manifest" /\ editCount < scenario.edits
    /\ editCount' = editCount + 1
    /\ \/ \E i \in DOMAIN records : \E edited \in EditsOf(records[i], records) :
            /\ records' = [records EXCEPT ![i] = edited]
            /\ restamped' = (restamped \/ edited.integrity # records[i].integrity)
       \/ \E i \in DOMAIN records :
            /\ records' \in {RemoveAt(records, i), Append(records, records[i])}
            /\ UNCHANGED restamped
       \/ /\ scenario.extra # << >>
          /\ records' = records \o scenario.extra
          /\ UNCHANGED restamped
    /\ UNCHANGED <<scenario, pc, process, plan, turn, run, walk, exitCode, world, planned>>

(* run --manifest, a new process.                                           *)
Rerun ==
    /\ pc = "manifest"
    /\ layers' \in scenario.rerun
    /\ pc' = "config" /\ command' = "run" /\ config' = NoConfig
    /\ exitCode' = -1 /\ turn' = 1
    /\ UNCHANGED <<scenario, plan, records, run, walk, world, history>>
-----------------------------------------------------------------------------
Validated(result) ==
    IF result.verdict = "valid"
    THEN runtime' = result.jobs /\ pc' = "execute" /\ turn' = 1 /\ UNCHANGED exitCode
    ELSE Raise(result.verdict) /\ UNCHANGED <<runtime, turn>>

(* _prepare_runtime_jobs up to the detection, if there is one.              *)
Preflight ==
    /\ pc = "preflight"
    /\ IF config.uses_auto_io_slots
       THEN LET result == Validate(records, config, FALSE)
            IN  IF result.verdict = "valid"
                THEN pc' = "observe" /\ preflight' = result.jobs
                     /\ UNCHANGED <<exitCode, runtime, turn>>
                ELSE Raise(result.verdict) /\ UNCHANGED <<preflight, runtime, turn>>
       ELSE Validated(Validate(records, config, TRUE)) /\ UNCHANGED preflight
    /\ UNCHANGED <<scenario, process, plan, records, started, walk, world, history>>

Endpoints ==
    [i \in 1..(2 * Len(preflight)) |->
        LET job == preflight[(i + 1) \div 2]
        IN  IF i % 2 = 1 THEN Spelled(job.path) ELSE job.destination]

(* default_storage_detector                                                 *)
Detect(path) ==
    LET w == scenario.world
    IN  IF path \in w.raising THEN Observation(PathDeviceKey("none", path), "raises")
        ELSE CASE w.platform = "linux" -> LinuxObserve(w.sys, path)
               [] w.platform = "win32" ->
                    WindowsObserve(w.volume[Head(path)], path)
               [] OTHER -> Unknown(PathDeviceKey("unsupported", path))

Detector == [path \in {PathKey(Endpoints[i]) : i \in DOMAIN Endpoints} |-> Detect(path)]

Observe ==
    /\ pc = "observe"
    /\ config' = [config EXCEPT !.io_slots =
                    ResolveAutoIoSlots(ObservePaths(Endpoints, Detector), config.max_processes)]
    /\ pc' = "validate"
    /\ UNCHANGED <<scenario, command, layers, plan, turn, records, run, walk, exitCode, world,
                   history>>

ValidateAgain == Validate(preflight, config, TRUE)

(* The second validation is of the records as read.                         *)
ValidateRecords == Validate(records, config, TRUE)

Revalidate ==
    /\ pc = "validate"
    /\ Validated(ValidateRecords)
    /\ UNCHANGED <<scenario, process, plan, records, preflight, started, walk, world, history>>
-----------------------------------------------------------------------------
Executing(operation) ==
    pc = "execute" /\ turn \in DOMAIN runtime /\ runtime[turn].operation = operation

JudgedAgain(status) == started' = Append(started, status) /\ UNCHANGED turn

Judged(status) == started' = Append(started, status) /\ turn' = turn + 1

(* execute_job of extract.py, as far as its source is concerned.            *)
CheckExtract ==
    /\ Executing("extract")
    /\ LET job == runtime[turn]
           entry == tree[job.path]
           changed == \/ entry.size # job.identity.size
                      \/ entry.mtime # job.identity.mtime
       IN  Judged(IF \/ job.encrypted
                     \/ entry.kind = "absent"
                     \/ changed /\ ~config.allow_changed
                  THEN "failed" ELSE IF changed THEN "changed" ELSE "started")
    /\ UNCHANGED <<scenario, pc, process, plan, records, preflight, runtime, walk, exitCode,
                   world, history>>

(* execute_job of create.py: containment, then the inventory, ...           *)
CheckCreateBegin ==
    /\ Executing("create")
    /\ LET job == runtime[turn]
       IN  IF WithinOwnSource(job.identity.kind, job.path, PathKey(job.destination), config)
           THEN Judged("failed") /\ UNCHANGED <<pc, walk, quiet>>
           ELSE /\ pc' = "check" /\ walk' = Begin(tree, job.path) /\ quiet' = TRUE
                /\ UNCHANGED <<started, turn>>
    /\ UNCHANGED <<scenario, process, plan, records, preflight, runtime, exitCode, tree, clock,
                   history>>

Accepted(job) ==
    /\ walk.phase = "done" /\ walk.kind = job.identity.kind
    /\ walk.identity = job.identity \/ config.allow_changed

(* ... and whether the source is what was planned.                          *)
CheckCreateEnd ==
    /\ pc = "check" /\ walk.phase \in {"done", "failed"}
    /\ Judged(IF ~Accepted(runtime[turn]) THEN "failed"
              ELSE IF walk.identity # runtime[turn].identity THEN "changed" ELSE "started")
    /\ pc' = "execute" /\ walk' = NoWalk
    /\ UNCHANGED <<scenario, process, plan, records, preflight, runtime, exitCode, world, history>>

ExecutionExit(failed) ==
    IF failed THEN 2
    ELSE IF \/ "changed" \in ToSet(started)
            \/ \E i \in DOMAIN runtime : runtime[i].warnings # << >> THEN 1 ELSE 0

ExitOfExecution(code) == code

(* The end of a direct command: input errors show in the exit code.         *)
FinalExit(code) == IF command = "direct" /\ errors # {} /\ code = 0 THEN 1 ELSE code

(* execute_manifest returns; a job that was started may have failed, too.   *)
Conclude ==
    /\ pc = "execute" /\ turn \notin DOMAIN runtime
    /\ \E failed \in BOOLEAN :
        /\ "failed" \in ToSet(started) => failed
        /\ Exit(FinalExit(ExecutionExit(failed)))
    /\ UNCHANGED <<scenario, process, plan, turn, records, run, walk, world, history>>
-----------------------------------------------------------------------------
Changes == clock - 10

(* Another program writes a file, or creates, replaces or removes an entry; *)
(* its directory's mtime goes up with all but the first. An entry moved in  *)
(* may be an old one; the change itself always gets a new time stamp.       *)
ForeignChange ==
    /\ Changes < scenario.changes /\ pc \notin {"ended", "config", "collect"}
    /\ clock' = clock + 1 /\ quiet' = FALSE
    /\ \E p \in DOMAIN tree, r \in Replacements :
        LET parent == Parent(p)
            below == {q \in DOMAIN tree : q # p /\ IsPrefix(p, q)}
            entry == [kind |-> r.kind, size |-> r.size, mtime |-> IF r.old THEN 0 ELSE clock']
        IN  /\ parent \in DOMAIN tree => tree[parent].kind = "directory"
            /\ r.kind = "absent" => tree[p].kind # "absent"
            /\ tree' = [q \in DOMAIN tree |->
                IF q = p THEN entry
                ELSE IF q \in below THEN [kind |-> "absent", size |-> 0, mtime |-> 0]
                ELSE IF q = parent /\ ~(r.kind = "file" /\ tree[p].kind = "file" /\ ~r.old)
                THEN [tree[q] EXCEPT !.mtime = clock']
                ELSE tree[q]]
    /\ UNCHANGED <<scenario, pc, process, plan, turn, records, run, walk, exitCode, history>>

(* A process that ended starts no more, and a manifest may never be run.    *)
Ended == pc \in {"ended", "manifest"} /\ UNCHANGED vars

Next ==
    \/ Configure \/ Collect \/ PlanExtract \/ PlanCreateBegin \/ PlanCreateEnd \/ WalkStep
    \/ Report \/ Edit \/ Rerun
    \/ Preflight \/ Observe \/ Revalidate
    \/ CheckExtract \/ CheckCreateBegin \/ CheckCreateEnd \/ Conclude
    \/ ForeignChange \/ Ended

Spec == Init /\ [][Next]_vars
-----------------------------------------------------------------------------
Statuses == {"started", "changed", "failed"}

(* The variables stay in their types, and there are jobs to execute only    *)
(* when a configuration was resolved.                                       *)
TypeOK ==
    /\ pc \in {"config", "collect", "planning", "inventory", "manifest", "preflight",
               "observe", "validate", "execute", "check", "ended"}
    /\ command \in {"plan", "direct", "run"}
    /\ turn \in 1..(1 + Len(inputs) + Len(runtime))
    /\ warned \in BOOLEAN /\ restamped \in BOOLEAN /\ quiet \in BOOLEAN
    /\ started \in Seq(Statuses) /\ Len(started) =< Len(runtime)
    /\ exitCode \in {-1, 0, 1, 2, 64}
    /\ (exitCode = -1) = (pc \notin {"ended", "manifest"})
    /\ walk.phase # "none" => pc \in {"inventory", "check"}
    /\ runtime # << >> => config # NoConfig

Fits(job, cfg) ==
    /\ 1 =< job.threads /\ job.threads =< job.cpu_tokens
    /\ job.cpu_tokens =< cfg.cpu_budget
    /\ 1 =< job.io_tokens /\ job.io_tokens =< cfg.io_slots

(* Whatever was edited in the manifest, and under whatever settings it is   *)
(* run, no job that execute_manifest gets asks for more than the budgets:   *)
(* the scheduler can start each of them.                                    *)
HandedOverFits == \A i \in DOMAIN runtime : Fits(runtime[i], config)

(* No two jobs handed over have one id, or one destination however it is    *)
(* spelled, whether their records are of schema 1 or 2.                     *)
DistinctJobs ==
    \A i, k \in DOMAIN runtime : i # k =>
        /\ runtime[i].job_id # runtime[k].job_id
        /\ PathKey(runtime[i].destination) # PathKey(runtime[k].destination)

Origins == ToSet(planned) \union ToSet(scenario.extra)

EditedAsAllowed(origin, job) ==
    /\ \A f \in {"operation", "job_id", "plan_index", "path", "identity", "encrypted", "io_tokens"} :
            job[f] = origin[f]
    /\ job.profile = origin.profile \/ job.reason = "manifest-override"
    /\ IsPrefix(origin.warnings, job.warnings)

(* Unless somebody recomputed a hash, each job handed over is one that was  *)
(* planned: of its source, its tokens for I/O and its place in the plan     *)
(* nothing has changed, and a changed profile is marked as such.            *)
OnlyAllowlistEdited ==
    ~restamped =>
        \A i \in DOMAIN runtime : \E origin \in Origins : EditedAsAllowed(origin, runtime[i])

(* A plan without errors that nobody edited is accepted under every         *)
(* configuration that can be resolved, whatever the budgets it was planned  *)
(* for and whatever the storage.                                            *)
PlannedIsAccepted ==
    (pc = "ended" /\ planned # << >> /\ errors = {} /\ editCount = 0 /\ config # NoConfig)
        => runtime # << >>

(* Two validations leave the traces of one: each warning appears once       *)
(* (unless a hash was recomputed over others), each job remembers the       *)
(* schema its record has in the manifest, and the second refuses only what  *)
(* needs more I/O slots than were found.                                    *)
ValidatedOnce ==
    /\ \A i \in DOMAIN runtime :
        /\ runtime[i].inputSchema = records[i].schema
        /\ ~restamped => IsInjective(runtime[i].warnings)
    /\ pc = "ended" /\ preflight # << >> /\ runtime = << >> =>
        \E i \in DOMAIN records : records[i].io_tokens > config.io_slots

(* Nodes reached from a block device without passing one whose queue tells  *)
(* what it is.                                                              *)
Backing(sys, node) ==
    LET opaque(n) == QueueOwner(sys, n) = "none"
        closed(C) == \A n \in C : opaque(n) => sys.slaves[n] \ {"broken"} \subseteq C
    IN  {n \in DOMAIN sys.slaves :
            \A C \in SUBSET DOMAIN sys.slaves : node \in C /\ closed(C) => n \in C}

BackingCapacities(sys, node) ==
    LET opaque == {n \in Backing(sys, node) : QueueOwner(sys, n) = "none"}
        cyclic(n) == \E s \in sys.slaves[n] \ {"broken"} : n \in Backing(sys, s)
    IN  {Capacity[QueueClass(sys, n)] : n \in Backing(sys, node) \ opaque}
        \union (IF \E n \in opaque : sys.slaves[n] = {} \/ "broken" \in sys.slaves[n] \/ cyclic(n)
                THEN {Capacity["unknown"]} ELSE {})

(* What the slowest device at a path allows, said without the algorithms.   *)
EndpointCapacity(path) ==
    LET w == scenario.world
        sys == w.sys
        device == NearestDevice(sys, path)
        v == w.volume[Head(path)]
        local == /\ ~v.unc /\ v.exists /\ v.api /\ v.drive \in {"fixed", "removable"}
                 /\ v.named /\ v.opens /\ v.identified /\ v.closes
    IN  IF path \in w.raising THEN 2
        ELSE CASE w.platform = "linux" ->
                    IF \/ device = "denied"
                       \/ sys.filesystem[device] \in NetworkFilesystems
                       \/ sys.node[device] = "broken" THEN 2
                    ELSE Min(BackingCapacities(sys, sys.node[device]))
               [] w.platform = "win32" ->
                    IF ~local \/ Property(v.bus, 32) \in VirtualBusTypes \union {"error"} THEN 2
                    ELSE IF v.bus.value = "nvme" THEN 4
                    ELSE IF Property(v.seek, 9) = "yes" THEN 1 ELSE 2
               [] OTHER -> 2

(* With automatic slots the slowest device behind any source or destination *)
(* decides, what is not understood counts as an SSD, and there are never    *)
(* more slots than processes; detection alone never ends a run.             *)
SlotsConservative ==
    preflight # << >> /\ pc \notin {"observe", "config", "preflight"} =>
        config.io_slots = Min({EndpointCapacity(PathKey(Endpoints[i])) : i \in DOMAIN Endpoints}
                              \union {config.max_processes})

(* A number of I/O slots, or a storage profile, given in any layer is what  *)
(* the jobs run with: the highest layer that has it wins and nothing is     *)
(* detected in its place.                                                   *)
ExplicitIoKept ==
    LET having(f) == {i \in DOMAIN Layers : f \in DOMAIN layers[Layers[i]]}
        given(f) == layers[Layers[Max(having(f))]][f]
    IN  runtime # << >> =>
            IF having("io_slots") # {} THEN config.io_slots = given("io_slots")
            ELSE having("storage_profile") # {} /\ given("storage_profile") # "auto" =>
                    config.io_slots = ProfileSlots[given("storage_profile")]

EntriesBelow(root) ==
    {[path |-> p, kind |-> tree[p].kind, mtime |-> tree[p].mtime,
      size |-> IF tree[p].kind = "file" THEN tree[p].size ELSE 0] :
        p \in {p \in DOMAIN tree : /\ IsPrefix(root, p) /\ tree[p].kind # "absent"
                                   /\ p = root => tree[p].kind = "file"}}

(* When a creation starts and nothing changed while its source was walked   *)
(* again, the tree is entry by entry the one in the manifest; with          *)
(* --allow-changed it may differ, but is of the same kind and free of       *)
(* links. Whatever happened during the first walk. And its destination and  *)
(* logs are outside.                                                        *)
StartsFromInventoriedTree ==
    [][Len(started') > Len(started) /\ runtime[turn].operation = "create"
         /\ Last(started') # "failed" =>
            LET job == runtime[turn]
                entries == EntriesBelow(job.path)
            IN  /\ job.identity.kind = "directory" =>
                        /\ ~Encloses(job.path, PathKey(job.destination))
                        /\ ~Encloses(job.path, LogBase(config))
                /\ quiet => /\ tree[job.path].kind = job.identity.kind
                            /\ \A e \in entries : e.kind \in Supported
                            /\ Last(started') = "started" => entries = job.identity.digest
      ]_vars

(* Exit code 0 of a command that took inputs means that each input has a    *)
(* job, and of one that ran jobs that each was started unchanged; exit code *)
(* 64 means that nothing was started.                                       *)
EveryInputAccounted ==
    /\ exitCode = 0 /\ command # "run" =>
        \A i \in DOMAIN scenario.given : \E k \in DOMAIN planned :
            LET path == PathKey(scenario.given[i])
            IN  planned[k].path = IF scenario.operation = "extract" THEN FirstVolume(path)
                                  ELSE path
    /\ exitCode = 0 /\ command # "plan" => started = [i \in DOMAIN runtime |-> "started"]
    /\ exitCode = 64 => runtime = << >>

(* Names of volumes of one archive differ in one part only, their number:   *)
(* the last, or in the .partN.rar series the last but one.                  *)
SameSeries(m, n) ==
    LET ends == {Last(m), Last(n)}
    IN  \/ /\ Len(m) >= 2 /\ Front(m) = Front(n)
           /\ ends \subseteq {"rar", "r00", "r01"} \/ ends \subseteq {"zip", "z01", "z02"}
        \/ /\ Len(m) >= 3 /\ Front(m) = Front(n) /\ Before2(m) \in {"7z", "zip"}
           /\ ends \subseteq {"001", "002"} \/ ends \subseteq {"0001", "0002"}
        \/ /\ Len(m) >= 3 /\ Len(n) = Len(m) /\ Front(Front(m)) = Front(Front(n)) /\ ends = {"rar"}
           /\ \/ {Before2(m), Before2(n)} \subseteq {"part1", "part2"}
              \/ {Before2(m), Before2(n)} \subseteq {"part01", "part02"}

SameArchive(p, q) ==
    Parent(p) = Parent(q) /\ (Name(p) = Name(q) \/ SameSeries(Name(p), Name(q)))

(* However many volumes of one archive are supplied, and however they are   *)
(* spelled, the plan has one job for it.                                    *)
OneJobPerArchive ==
    scenario.operation = "extract" =>
        \A i, k \in DOMAIN jobs : i # k => ~SameArchive(jobs[i].path, jobs[k].path)
=============================================================================
