------------------------------- MODULE Manifest -------------------------------
(***************************************************************************)
(* manifest.py: job records of schemas 1 and 2, what their integrity hash  *)
(* protects and what may be edited, and validate_manifest, which turns     *)
(* records into runtime jobs of schema 2 or refuses them all.              *)
(*                                                                         *)
(* A hash is modelled as what is hashed: equal hashes, equal contents.     *)
(***************************************************************************)
EXTENDS Integers, Sequences, FiniteSets, TLC, Paths, Configuration

Profiles == {"small", "heavy-serial", "heavy-scalable"}
(* a list or object where the profile's name belongs                        *)
NotHashable == "[]"

SmallReasons    == {"below-small-threshold", "create-below-small-threshold"}
SerialReasons   == {"conservative-fallback", "inspection-failed", "create-store-mode"}
ScalableReasons == {"bzip2-method", "multi-block-7z", "create-7z-lzma2", "create-zip-deflate"}

(* _ORIGINAL_PROFILES                                                       *)
PlannedProfile ==
    [reason \in SmallReasons \union SerialReasons \union ScalableReasons |->
        IF reason \in SmallReasons THEN "small"
        ELSE IF reason \in SerialReasons THEN "heavy-serial" ELSE "heavy-scalable"]

Warnings == {"inspection failed", "cpu clamped", "threads clamped", "profile overridden"}

(* source_identity                                                          *)
Identity(kind, size, mtime, count, digest) ==
    [kind |-> kind, size |-> size, mtime |-> mtime, count |-> count, digest |-> digest]

FileIdentity(size, mtime) == Identity("file", size, mtime, 1, {})

(* deterministic_job_id, and legacy_job_id for records of schema 1.         *)
JobId(schema, operation, path, identity) ==
    [schema |-> schema, operation |-> operation, path |-> path, identity |-> identity]

(* All but the destination's path, profile, cpu_tokens, threads, priority   *)
(* and tags (the last two are no part of this model), the hash itself, and  *)
(* the private _input_schema_version.                                       *)
ProtectedFields ==
    {"schema", "operation", "job_id", "plan_index", "path", "identity", "encrypted",
     "reason", "profile_source", "io_tokens", "warnings", "form"}

(* Without one of these a record is refused, by the check of its fields or  *)
(* by ensure_int of what scheduling.get returns.                            *)
RequiredFields ==
    ProtectedFields \union {"destination", "profile", "cpu_tokens", "threads", "integrity"}

IntegrityWithoutTokens(job) == Restrict(job, ProtectedFields \ {"io_tokens"})

(* calculate_integrity                                                      *)
Integrity(job) == Restrict(job, ProtectedFields)

Stamped(job) == [job EXCEPT !.integrity = Integrity(job)]
-----------------------------------------------------------------------------
ClampedThreadsFirst(job, config) ==
    [job EXCEPT !.threads = Smaller(@, job.cpu_tokens),
                !.cpu_tokens = Smaller(@, config.cpu_budget)]

(* _validate_scheduling: cpu_tokens within the budget, threads within them. *)
Clamped(job, config) ==
    LET cpu == Smaller(job.cpu_tokens, config.cpu_budget)
        threads == Smaller(job.threads, cpu)
    IN  [job EXCEPT
            !.cpu_tokens = cpu,
            !.threads = threads,
            !.warnings = @ \o (IF cpu < job.cpu_tokens THEN <<"cpu clamped">> ELSE << >>)
                           \o (IF threads < job.threads THEN <<"threads clamped">> ELSE << >>)]

(* _validate_scheduling: who chose the profile.                             *)
Attributed(job) ==
    IF job.reason \in DOMAIN PlannedProfile /\ job.profile # PlannedProfile[job.reason]
    THEN [job EXCEPT !.profile_source = "manifest", !.reason = "manifest-override",
                     !.warnings = Append(@, "profile overridden")]
    ELSE job

(* _convert_v1, and the last lines of _validate_v2.                         *)
Runtime(job, config) ==
    Stamped(Updated(Attributed(Clamped(job, config)),
                    [schema |-> 2, inputSchema |-> job.schema]))

OversizedRefused(job, config, enforceIoBudget) ==
    \/ job.profile \notin Profiles
    \/ job.io_tokens \notin Nat \ {0} \/ job.threads \notin Nat \ {0}
    \/ job.cpu_tokens \notin 1..config.cpu_budget
    \/ enforceIoBudget /\ ~(job.io_tokens =< config.io_slots)

(* _validate_scheduling: what it refuses. Too many CPU tokens are not.      *)
SchedulingRefused(job, config, enforceIoBudget) ==
    \/ job.profile \notin Profiles
    \/ \E field \in {"io_tokens", "cpu_tokens", "threads"} : job[field] \notin Nat \ {0}
    \/ enforceIoBudget /\ ~(job.io_tokens =< config.io_slots)

(* A record that nobody edited: make_plan and make_create_plan write these. *)
AsPlanned(job) ==
    /\ RequiredFields \subseteq DOMAIN job
    /\ job.integrity = Integrity(job)
    /\ job.reason \in DOMAIN PlannedProfile /\ job.profile = PlannedProfile[job.reason]
    /\ job.warnings \in {<< >>, <<"inspection failed">>}

(* _validate_v1 and _validate_v2, up to the first refusal. A profile that   *)
(* cannot be hashed raises TypeError where its membership is tested.        *)
Verdict(job, config, enforceIoBudget) ==
    IF \/ ~(RequiredFields \subseteq DOMAIN job)
       \/ job.form # "ok"
       \/ job.job_id # JobId(job.schema, job.operation, job.path, job.identity)
       \/ job.integrity # Integrity(job) THEN "usage"
    ELSE IF job.profile = NotHashable THEN "TypeError"
    ELSE IF SchedulingRefused(job, config, enforceIoBudget) THEN "usage"
    ELSE "valid"

ClashesAsSpelled(records, i) ==
    \E k \in 1..(i - 1) : \/ records[k].job_id = records[i].job_id
                          \/ records[k].destination = records[i].destination

(* An earlier record has this one's job_id or destination.                  *)
Clashes(records, i) ==
    \E k \in 1..(i - 1) :
        \/ records[k].job_id = records[i].job_id
        \/ PathKey(records[k].destination) = PathKey(records[i].destination)

RuntimeJobs(records, config) == [i \in DOMAIN records |-> Runtime(records[i], config)]

(* validate_manifest: all records or none; the first that is refused, or    *)
(* clashes with one before it, decides how.                                 *)
Validate(records, config, enforceIoBudget) ==
    LET verdict(i) == Verdict(records[i], config, enforceIoBudget)
        refused == {i \in DOMAIN records : verdict(i) # "valid" \/ Clashes(records, i)}
        first == CHOOSE i \in refused : \A k \in refused : i =< k
    IN  [verdict |-> IF records = << >> THEN "usage"
                     ELSE IF refused = {} THEN "valid"
                     ELSE IF verdict(first) = "valid" THEN "usage"
                     ELSE verdict(first),
         jobs |-> IF refused = {} THEN RuntimeJobs(records, config) ELSE << >>]
=============================================================================
