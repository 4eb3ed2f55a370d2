------------------------------ MODULE Executors ------------------------------
(***************************************************************************)
(* execute_job of operations/create.py and of operations/extract.py, run   *)
(* by several workers on one filesystem, on which other programs create    *)
(* entries, change sources and remove ownership markers.  One action per   *)
(* filesystem step between which somebody else can act.                    *)
(***************************************************************************)
EXTENDS Staging

CONSTANTS Operations,     (* what the manifest may say the jobs are         *)
          Policies,       (* what --existing may be                         *)
          Desired,        (* destination.path of each job                   *)
          AllowChanged,   (* --allow-changed                                *)
          Codes,          (* the return codes a 7-Zip process may have      *)
          CallMayRaise,   (* a log or metadata write may raise OSError      *)
          FinishMayRaise, (* so may the print to stderr of finish()         *)
          ForeignKinds,   (* what other programs create at output paths     *)
          MaxForeign      (* bound: how many entries they create            *)

ASSUME ExecutorsAssumption ==
    /\ Operations \subseteq [Job -> {"create", "extract"}]
    /\ Policies \subseteq {"fail", "skip", "rename"}
    /\ Desired \in [Job -> Path]
    /\ AllowChanged \in BOOLEAN
    /\ Codes \subseteq Int
    /\ CallMayRaise \in BOOLEAN
    /\ FinishMayRaise \in BOOLEAN
    /\ ForeignKinds \subseteq Kinds \ {"absent"}
    /\ MaxForeign \in Nat

VARIABLES
    operation, (* per job: "create" or "extract"                            *)
    existing,  (* the --existing policy of the run                          *)
    pc,        (* where each executor is                                    *)
    final,     (* the output path it has chosen                             *)
    code,      (* return code of its last 7-Zip process                     *)
    whole,     (* what is staged is the whole output                        *)
    status,    (* status of its result record; "raised": an exception left  *)
               (* execute_job, and the runner makes a "failed" record of it *)
    reported,  (* where staging_path of that record is; "none": null        *)
    source,    (* "planned", "changed" or "unusable"                        *)
    stop,      (* interrupt_event                                           *)
    foreign    (* entries created by other programs so far                  *)

disk == <<fs, staging, owned, refusal>>
env  == <<operation, existing, source, stop, foreign>>
work == <<pc, final, code, whole, status, reported>>
vars == <<disk, env, work>>

Statuses == {"success", "warning", "skipped", "failed", "interrupted", "raised"}

TypeOK ==
    /\ StagingTypeOK
    /\ operation \in Operations
    /\ existing \in Policies
    /\ pc \in [Job -> {"start", "source", "resolve", "stage", "run", "judge",
                       "test", "judgeTest", "recheck", "commit", "publish",
                       "cleanup", "done"}]
    /\ final \in [Job -> Path]
    /\ code \in [Job -> Codes \union {0}]
    /\ whole \in [Job -> BOOLEAN]
    /\ status \in [Job -> Statuses \union {"none"}]
    /\ \A j \in Job : pc[j] = "done" <=> status[j] # "none"
    /\ reported \in [Job -> {"none", "tmp", "failed"}]
    /\ source \in [Job -> {"planned", "changed", "unusable"}]
    /\ stop \in BOOLEAN
    /\ foreign \in 0..MaxForeign

Init ==
    /\ operation \in Operations
    /\ existing \in Policies
    /\ fs = [p \in Path |-> Absent]
    /\ staging = [j \in Job |-> "none"]
    /\ owned = [j \in Job |-> FALSE]
    /\ refusal = [j \in Job |-> "none"]
    /\ pc = [j \in Job |-> "start"]
    /\ final = Desired
    /\ code = [j \in Job |-> 0]
    /\ whole = [j \in Job |-> FALSE]
    /\ status = [j \in Job |-> "none"]
    /\ reported = [j \in Job |-> "none"]
    /\ source = [j \in Job |-> "planned"]
    /\ stop = FALSE
    /\ foreign = 0
-----------------------------------------------------------------------------
(* As in Scheduler, a name with a suffix that contradicts it (RetainUnchecked, *)
(* LinkAtDesired ...) is a mistake that a property below would catch.       *)

Creates(j) == operation[j] = "create"

Goto(j, p, q) == pc[j] = p /\ pc' = [pc EXCEPT ![j] = q]

(* An exception leaves execute_job: the runner's record has no staging_path.*)
Raise(j, p) ==
    /\ Goto(j, p, "done")
    /\ status' = [status EXCEPT ![j] = "raised"]
    /\ UNCHANGED reported

(* finish(): the record with the staging directory as it is now, unless the *)
(* line about it cannot be printed, which no caller catches.                *)
Finish(j, p, s) ==
    \/ /\ Goto(j, p, "done")
       /\ status' = [status EXCEPT ![j] = s]
       /\ reported' = [reported EXCEPT ![j] = IF s = "success" THEN "none" ELSE staging'[j]]
    \/ FinishMayRaise /\ Raise(j, p)

Continue(j, p, q) == Goto(j, p, q) /\ UNCHANGED <<status, reported>>

FinishWithoutRetain(j, p, s) ==
    /\ UNCHANGED disk
    /\ Finish(j, p, s)

(* retain(): the staging directory becomes .failed if it can, then the      *)
(* record.                                                                  *)
RetainAndFinish(j, p, s) ==
    /\ Retain(j)
    /\ Finish(j, p, s)

Start(j) ==
    /\ UNCHANGED <<disk, env, final, code, whole>>
    /\ IF stop THEN Finish(j, "start", "interrupted") ELSE Continue(j, "start", "source")

(* create: inventory, kind and identity, and a source directory around its  *)
(* own destination or log; extract: encrypted, size and mtime.              *)
CheckSource(j) ==
    /\ UNCHANGED <<disk, env, final, code, whole>>
    /\ IF source[j] = "planned" \/ (source[j] = "changed" /\ AllowChanged)
       THEN Continue(j, "source", "resolve")
       ELSE Finish(j, "source", "failed")

(* resolve_existing(desired, config.existing).                              *)
ResolveExisting(j) ==
    /\ UNCHANGED <<disk, env, code, whole>>
    /\ CASE ~LExists(Desired[j]) -> Continue(j, "resolve", "stage") /\ UNCHANGED final
         [] LExists(Desired[j]) /\ existing = "fail" ->
                Finish(j, "resolve", "failed") /\ UNCHANGED final
         [] LExists(Desired[j]) /\ existing = "skip" ->
                Finish(j, "resolve", "skipped") /\ UNCHANGED final
         [] LExists(Desired[j]) /\ existing = "rename" ->
                /\ HasUniquePath(Desired[j])
                /\ Continue(j, "resolve", "stage")
                /\ final' = [final EXCEPT ![j] = UniquePath(Desired[j])]

Stage(j) ==
    /\ Continue(j, "stage", "run")
    /\ CreateStaging(j)
    /\ UNCHANGED <<env, final, code, whole>>

CannotStage(j) ==
    /\ UNCHANGED <<disk, env, final, code, whole>>
    /\ Finish(j, "stage", "failed")

(* 7-Zip a or x writes to the staging directory.  Exit code 0: everything   *)
(* was written; otherwise some of it may be missing.                        *)
Run(j) ==
    /\ ~stop
    /\ Continue(j, "run", "judge")
    /\ \E c \in Codes :
          /\ code' = [code EXCEPT ![j] = c]
          /\ whole' = [whole EXCEPT ![j] = (c = 0)]
    /\ UNCHANGED <<disk, env, final>>

CancelledUnderAnotherName(j) ==
    /\ stop
    /\ \/ RetainAndFinish(j, "run", "cancelled")
       \/ RetainAndFinish(j, "test", "cancelled")
    /\ UNCHANGED <<env, final, code, whole>>

(* Cancelled before the process was started.                                *)
Cancelled(j) ==
    /\ stop
    /\ \/ RetainAndFinish(j, "run", "interrupted")
       \/ RetainAndFinish(j, "test", "interrupted")
    /\ UNCHANGED <<env, final, code, whole>>

(* The process does not start; or create's guard around the call catches    *)
(* an OSError of a log file, before or after the process.                   *)
CallFails(j) ==
    /\ \/ RetainAndFinish(j, "run", "failed")
       \/ RetainAndFinish(j, "test", "failed")
       \/ /\ CallMayRaise /\ Creates(j)
          /\ \/ RetainAndFinish(j, "judge", "failed")
             \/ RetainAndFinish(j, "judgeTest", "failed")
    /\ UNCHANGED <<env, final, code, whole>>

(* extract has no such guard: the OSError of a log file leaves execute_job. *)
ExtractRaises(j) ==
    /\ CallMayRaise
    /\ ~Creates(j)
    /\ Raise(j, "run") \/ Raise(j, "judge")
    /\ UNCHANGED <<disk, env, final, code, whole>>

VerdictIgnoresWarnings(c) ==
    IF stop THEN "interrupted" ELSE IF c >= 2 THEN "failed" ELSE "success"

(* What a return code means, once the event has been looked at.             *)
Verdict(c) ==
    IF stop THEN "interrupted" ELSE IF c >= 2 THEN "failed"
    ELSE IF c = 1 THEN "warning" ELSE "success"

Judge(j) ==
    /\ IF Verdict(code[j]) = "success"
       THEN /\ Continue(j, "judge", IF Creates(j) THEN "test" ELSE "recheck")
            /\ UNCHANGED disk
       ELSE RetainAndFinish(j, "judge", Verdict(code[j]))
    /\ UNCHANGED <<env, final, code, whole>>

(* create only: 7-Zip ended well and there is no regular file.              *)
ArchiveMissing(j) ==
    /\ Creates(j)
    /\ Verdict(code[j]) = "success"
    /\ RetainAndFinish(j, "judge", "failed")
    /\ UNCHANGED <<env, final, code, whole>>

(* 7-Zip t of the staged archive: exit code 0 only for a whole archive.     *)
Test(j) ==
    /\ ~stop
    /\ Continue(j, "test", "judgeTest")
    /\ \E c \in Codes : /\ c = 0 => whole[j]
                        /\ code' = [code EXCEPT ![j] = c]
    /\ UNCHANGED <<disk, env, final, whole>>

JudgeTest(j) ==
    /\ IF Verdict(code[j]) = "success"
       THEN Continue(j, "judgeTest", "recheck") /\ UNCHANGED disk
       ELSE RetainAndFinish(j, "judgeTest", Verdict(code[j]))
    /\ UNCHANGED <<env, final, code, whole>>

(* create looks with lexists, and gives up unless it may rename; extract    *)
(* looks with exists, and leaves the rest to finalize_directory.            *)
Recheck(j) ==
    LET taken == IF Creates(j) THEN LExists(final[j]) ELSE Exists(final[j]) IN
    /\ CASE taken /\ existing = "rename" ->
                /\ HasUniquePath(final[j])
                /\ Continue(j, "recheck", "commit")
                /\ final' = [final EXCEPT ![j] = UniquePath(final[j])]
                /\ UNCHANGED disk
         [] taken /\ existing # "rename" /\ Creates(j) ->
                RetainAndFinish(j, "recheck", "failed") /\ UNCHANGED final
         [] ~taken \/ (existing # "rename" /\ ~Creates(j)) ->
                Continue(j, "recheck", "commit") /\ UNCHANGED <<disk, final>>
    /\ UNCHANGED <<env, code, whole>>

(* finalize_archive, finalize_directory: ownership, then lexists(final).    *)
Commit(j) ==
    /\ IF owned[j] /\ ~LExists(final[j])
       THEN Continue(j, "commit", "publish") /\ UNCHANGED disk
       ELSE RetainAndFinish(j, "commit", "failed")
    /\ UNCHANGED <<env, final, code, whole>>

LinkAtDesired(j) ==
    /\ Creates(j)
    /\ CanLink(final[j])
    /\ Continue(j, "publish", "cleanup")
    /\ Publish(Desired[j], [kind |-> "file", owner |-> j, whole |-> whole[j]])
    /\ UNCHANGED <<staging, owned, refusal, env, final, code, whole>>

(* os.link of the archive, which never replaces anything.                   *)
Link(j) ==
    /\ Creates(j)
    /\ CanLink(final[j])
    /\ Continue(j, "publish", "cleanup")
    /\ Publish(final[j], [kind |-> "file", owner |-> j, whole |-> whole[j]])
    /\ UNCHANGED <<staging, owned, refusal, env, final, code, whole>>

(* os.replace of the staging directory, its marker still inside.            *)
Replace(j) ==
    /\ ~Creates(j)
    /\ CanReplace(final[j])
    /\ Continue(j, "publish", "cleanup")
    /\ Publish(final[j], [kind |-> "dir", owner |-> j, whole |-> whole[j]])
    /\ staging' = [staging EXCEPT ![j] = "published"]
    /\ UNCHANGED <<owned, refusal, env, final, code, whole>>

(* Either call may fail with an OSError, and does when its target is taken. *)
PublishFails(j) ==
    /\ RetainAndFinish(j, "publish", "failed")
    /\ UNCHANGED <<env, final, code, whole>>

(* create: unlink the staged name, the marker and the directory, where an   *)
(* error, a missing marker or an unexpected entry is only a warning.        *)
CleanupArchive(j) ==
    /\ Creates(j)
    /\ \/ UNCHANGED <<staging, owned>>
       \/ /\ owned[j]
          /\ owned' = [owned EXCEPT ![j] = FALSE]
          /\ \E left \in {"tmp", "removed"} : staging' = [staging EXCEPT ![j] = left]
    /\ Finish(j, "cleanup", "success")
    /\ UNCHANGED <<fs, refusal, env, final, code, whole>>

(* extract: unlink the marker, unless that fails; with it goes the last     *)
(* entry of an empty output.                                                *)
CleanupDirectory(j) ==
    /\ ~Creates(j)
    /\ \/ UNCHANGED fs
       \/ j \in Empty /\ fs' = [fs EXCEPT ![final[j]].kind = "emptyDir"]
    /\ Finish(j, "cleanup", "success")
    /\ UNCHANGED <<staging, owned, refusal, env, final, code, whole>>
-----------------------------------------------------------------------------
(* The world around: Ctrl-C, other programs.                                *)
Interrupt ==
    /\ ~stop
    /\ stop' = TRUE
    /\ UNCHANGED <<disk, work, operation, existing, source, foreign>>

ForeignCreates(p, kind) ==
    /\ foreign < MaxForeign
    /\ ~LExists(p)
    /\ Publish(p, [kind |-> kind, owner |-> Foreign, whole |-> FALSE])
    /\ foreign' = foreign + 1
    /\ UNCHANGED <<staging, owned, refusal, work, operation, existing, source, stop>>

SourceChanges(j) ==
    /\ pc[j] \in {"start", "source"}
    /\ source[j] = "planned"
    /\ source' = [source EXCEPT ![j] = "changed"]
    /\ UNCHANGED <<disk, work, operation, existing, stop, foreign>>

SourceUnusable(j) ==
    /\ pc[j] \in {"start", "source"}
    /\ source[j] # "unusable"
    /\ source' = [source EXCEPT ![j] = "unusable"]
    /\ UNCHANGED <<disk, work, operation, existing, stop, foreign>>

Disown(j) ==
    /\ foreign < MaxForeign
    /\ staging[j] = "tmp" /\ owned[j]
    /\ owned' = [owned EXCEPT ![j] = FALSE]
    /\ foreign' = foreign + 1
    /\ UNCHANGED <<fs, staging, refusal, work, operation, existing, source, stop>>

Execute(j) ==
    \/ Start(j) \/ CheckSource(j) \/ ResolveExisting(j) \/ Stage(j) \/ CannotStage(j)
    \/ Run(j) \/ Cancelled(j) \/ CallFails(j) \/ ExtractRaises(j) \/ Judge(j) \/ ArchiveMissing(j)
    \/ Test(j) \/ JudgeTest(j) \/ Recheck(j) \/ Commit(j) \/ Link(j) \/ Replace(j)
    \/ PublishFails(j) \/ CleanupArchive(j) \/ CleanupDirectory(j)

Environment ==
    \/ Interrupt
    \/ \E p \in Path, kind \in ForeignKinds : ForeignCreates(p, kind)
    \/ \E j \in Job : SourceChanges(j) \/ SourceUnusable(j) \/ Disown(j)

(* Every job has its record.                                                *)
Ended == (\A j \in Job : pc[j] = "done") /\ UNCHANGED vars

Next == (\E j \in Job : Execute(j)) \/ Environment \/ Ended

Spec == Init /\ [][Next]_vars
-----------------------------------------------------------------------------
Outputs(j) == {p \in Path : fs[p].owner = j}

(* Action.  What is at an output path is never replaced or removed by a     *)
(* job: README, "handle existing destinations without overwriting them".    *)
NoOverwrite ==
    [][\A p \in Path : LExists(p) => LExists(p)' /\ fs'[p].owner = fs[p].owner]_vars

(* Safety.  What a job has published is all of its source: "Exit 0          *)
(* finalizes the output" (manual, section 10.1).                            *)
PublishedIsWhole == \A p \in Path : fs[p].owner \in Job => fs[p].whole

(* Safety.  An executor that returns "success" has its output at the path   *)
(* its record names, so that no two jobs succeed with the same path; one    *)
(* that returns another status has nothing at any output path; and one that *)
(* raised has nothing anywhere but at its path.                             *)
SuccessIsPublished ==
    \A j \in Job :
        /\ status[j] = "success" => Outputs(j) = {final[j]}
        /\ status[j] \in {"warning", "skipped", "failed", "interrupted"} => Outputs(j) = {}
        /\ status[j] = "raised" => Outputs(j) \subseteq {final[j]}

(* Safety.  The record of a job that warned, failed or was interrupted      *)
(* after it staged something names where that is now.  It is an owned       *)
(* .failed, or a .tmp that was left because its marker is gone or because   *)
(* os.replace failed, which the record's warnings say.                      *)
StagingRetained ==
    \A j \in Job :
        (status[j] \in {"warning", "failed", "interrupted"} /\ staging[j] # "none") =>
            /\ reported[j] = staging[j]
            /\ \/ staging[j] = "failed" /\ owned[j]
               \/ staging[j] = "tmp" /\ refusal[j] = "unowned" /\ ~owned[j]
               \/ staging[j] = "tmp" /\ refusal[j] = "error" /\ MoveMayFail

(* Action.  "Unowned paths are never moved or deleted": a staging directory *)
(* that has lost its marker stays where it is, unless it lost it between    *)
(* the last look at the marker and the call that publishes.                 *)
UnownedUntouched ==
    [][\A j \in Job : (staging[j] = "tmp" /\ ~owned[j] /\ pc[j] # "publish")
                      => staging'[j] = "tmp"]_vars

(* Safety.  "Warning, failure, or interruption retains owned staging as     *)
(* .failed" (manual, section 10.1; 10.2 of creation), whoever makes the     *)
(* record: the output of a job that did not succeed is not published, and   *)
(* what it staged has not kept its .tmp name.                               *)
FailureRetains ==
    \A j \in Job : status[j] \in Statuses \ {"success"} =>
        /\ Outputs(j) = {}
        /\ owned[j] => staging[j] # "tmp"
=============================================================================
