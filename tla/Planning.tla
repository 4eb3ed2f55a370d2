------------------------------- MODULE Planning -------------------------------
(***************************************************************************)
(* The planners: make_plan of operations/extract.py with classify.py, and  *)
(* make_create_plan of operations/create.py. Each turns one source into a  *)
(* job record; sizes are in units of half the default thresholds.          *)
(***************************************************************************)
EXTENDS Inventory

CONSTANT DefaultLogDir     (* .arcshuttle/logs below the working directory  *)

Classification(profile, reason, tokens) ==
    [profile |-> profile, reason |-> reason, tokens |-> tokens]

(* classify; archive is what the name and the inspection tell.              *)
Classify(size, archive, inspectionFailed, config) ==
    LET scalable == Smaller(config.heavy_threads, config.cpu_budget)
    IN  IF size < config.small_threshold
        THEN Classification("small", "below-small-threshold", 1)
        ELSE IF inspectionFailed
        THEN Classification("heavy-serial", "inspection-failed", 1)
        ELSE IF archive.bzip2
        THEN Classification("heavy-scalable", "bzip2-method", scalable)
        ELSE IF archive.format = "7z" /\ archive.blocks > 1
        THEN Classification("heavy-scalable", "multi-block-7z", scalable)
        ELSE Classification("heavy-serial", "conservative-fallback", 1)

(* _scheduling of create.py                                                 *)
ClassifyCreate(size, config) ==
    IF size < config.small_threshold
    THEN Classification("small", "create-below-small-threshold", 1)
    ELSE IF config.compression_level = 0
    THEN Classification("heavy-serial", "create-store-mode", 1)
    ELSE Classification("heavy-scalable",
                        IF config.create_format = "7z" THEN "create-7z-lzma2"
                        ELSE "create-zip-deflate",
                        Smaller(config.heavy_threads, config.cpu_budget))

(* The fields every job record has, its integrity last.                     *)
JobRecord(schema, operation, index, path, identity, destination, encrypted, class, warnings) ==
    Stamped([schema |-> schema, operation |-> operation, plan_index |-> index,
             job_id |-> JobId(schema, operation, path, identity), path |-> path,
             identity |-> identity, destination |-> Spelled(destination),
             encrypted |-> encrypted, profile |-> class.profile, profile_source |-> "auto",
             reason |-> class.reason, cpu_tokens |-> class.tokens, threads |-> class.tokens,
             io_tokens |-> 1, warnings |-> warnings, form |-> "ok", inputSchema |-> 0,
             integrity |-> << >>])

OutputParent(path, config) == IF config.output_dir = << >> THEN Parent(path) ELSE config.output_dir

(* make_plan for one archive: entry is what stat says of it, listing what   *)
(* an inspection would report, with "none" and 0 for what it leaves out.    *)
ExtractJob(schema, index, path, entry, listing, config) ==
    LET inferred == InferredFormat(Name(path))
        inspect == entry.size >= config.inspect_threshold \/ inferred = "none"
        failed == inspect /\ listing.error
        archive == [format |-> IF inspect /\ listing.format # "none" THEN listing.format
                               ELSE inferred,
                    bzip2 |-> inspect /\ listing.bzip2,
                    blocks |-> IF inspect THEN listing.blocks ELSE 0]
    IN  JobRecord(schema, "extract", index, path, FileIdentity(entry.size, entry.mtime),
                  Append(OutputParent(path, config), ArchiveStem(Name(path))),
                  inspect /\ listing.encrypted,
                  Classify(entry.size, archive, failed, config),
                  IF failed THEN <<"inspection failed">> ELSE << >>)

CreateDestination(path, config) ==
    Append(OutputParent(path, config), Append(Name(path), config.create_format))

CreateJob(index, path, identity, config) ==
    JobRecord(2, "create", index, path, identity, CreateDestination(path, config), FALSE,
              ClassifyCreate(identity.size, config), << >>)

LogBase(config) == IF config.log_dir = << >> THEN DefaultLogDir ELSE config.log_dir

(* Nothing of a job may lie inside its own source directory.                *)
WithinOwnSource(kind, path, destination, config) ==
    kind = "directory" /\ (Encloses(path, destination) \/ Encloses(path, LogBase(config)))

(* Destinations that more than one job has.                                 *)
Collisions(jobs) ==
    {PathKey(jobs[i].destination) : i \in
        {i \in DOMAIN jobs : \E k \in DOMAIN jobs \ {i} :
            PathKey(jobs[k].destination) = PathKey(jobs[i].destination)}}
-----------------------------------------------------------------------------
(* The paths of one of these kinds, each once.                              *)
Unique(tree, paths, kinds) ==
    Picked(paths, {i \in FirstPlaces(paths) : KindAt(tree, paths[i]) \in kinds})

(* normalize_paths, normalize_create_paths: spellings to paths, each once,  *)
(* of the kinds the operation takes.                                        *)
NormalizePaths(tree, given, kinds) ==
    Unique(tree, [i \in DOMAIN given |-> PathKey(given[i])], kinds)

EachVolume(tree, paths) ==
    SelectSeq([i \in DOMAIN paths |-> FirstVolume(paths[i])],
              LAMBDA p : KindAt(tree, p) = "file")

(* canonicalize: each archive once, by its first volume if that is there.   *)
Canonicalize(tree, paths) ==
    Unique(tree, [i \in DOMAIN paths |-> FirstVolume(paths[i])], {"file"})

ExtractInputs(tree, given) == Canonicalize(tree, NormalizePaths(tree, given, {"file"}))
CreateInputs(tree, given)  == NormalizePaths(tree, given, Supported)

(* The given paths that make no input: the errors of these steps.           *)
Rejected(tree, operation, given) ==
    {p \in {PathKey(given[i]) : i \in DOMAIN given} :
        IF operation = "extract"
        THEN KindAt(tree, p) # "file" \/ KindAt(tree, FirstVolume(p)) # "file"
        ELSE KindAt(tree, p) \notin Supported}
=============================================================================
