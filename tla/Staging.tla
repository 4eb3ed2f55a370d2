------------------------------- MODULE Staging -------------------------------
(***************************************************************************)
(* Output selection and owned staging directories (staging.py, and         *)
(* unique_path of util.py): what is at each output path, where each job's  *)
(* staging directory is, and the steps that publish or retain it.          *)
(***************************************************************************)
EXTENDS Integers, Sequences, FiniteSets

CONSTANTS Job,
          Path,        (* output paths                                      *)
          Candidates,  (* per path p: p, "p (2)", "p (3)", ... as paths     *)
          Empty,       (* jobs whose archive holds nothing                  *)
          Foreign,     (* the owner of what no job has made                 *)
          MoveMayFail  (* the rename of retain_failed may raise OSError     *)

ASSUME StagingAssumption ==
    /\ Candidates \in [Path -> Seq(Path)]
    /\ \A p \in Path : Candidates[p] # << >> /\ Candidates[p][1] = p
    /\ Empty \subseteq Job
    /\ Foreign \notin Job
    /\ MoveMayFail \in BOOLEAN

VARIABLES
    fs,        (* per path: what is there                                   *)
    staging,   (* per job: its staging directory                            *)
    owned,     (* per job: its .arcshuttle-owned marker is in place         *)
    refusal    (* per job: why retain_failed raised, for the job's warnings *)

Kinds == {"absent", "file", "dir", "emptyDir", "dangling"}

(* whole: all of the source, as 7-Zip's exit code 0 says.                   *)
Entry == [kind : Kinds, owner : Job \union {Foreign}, whole : BOOLEAN]
Absent == [kind |-> "absent", owner |-> Foreign, whole |-> FALSE]

StagingTypeOK ==
    /\ fs \in [Path -> Entry]
    /\ \A p \in Path : fs[p].kind = "absent" => fs[p] = Absent
    /\ staging \in [Job -> {"none", "tmp", "failed", "published", "removed"}]
    /\ owned \in [Job -> BOOLEAN]
    /\ refusal \in [Job -> {"none", "unowned", "error"}]
-----------------------------------------------------------------------------
(* os.path.lexists and Path.exists: a dangling link exists only to lexists. *)
LExists(p) == fs[p].kind # "absent"
Exists(p) == fs[p].kind \notin {"absent", "dangling"}

(* The first of the names of p at which nothing is; the finite Candidates   *)
(* bounds the search.                                                       *)
UniquePath(p) ==
    LET free == {i \in DOMAIN Candidates[p] : ~LExists(Candidates[p][i])}
    IN  Candidates[p][CHOOSE i \in free : \A k \in free : i =< k]

HasUniquePath(p) == \E i \in DOMAIN Candidates[p] : ~LExists(Candidates[p][i])

(* mkdir and the marker; a failed marker write removes the directory.       *)
CreateStaging(j) ==
    /\ staging' = [staging EXCEPT ![j] = "tmp"]
    /\ owned' = [owned EXCEPT ![j] = TRUE]
    /\ UNCHANGED <<fs, refusal>>

CanRetain(j) == staging[j] = "tmp" /\ owned[j]

RetainUnchecked(j) ==
    /\ staging' = [staging EXCEPT ![j] = "failed"]
    /\ UNCHANGED <<fs, owned, refusal>>

(* retain_failed raises an OSError when the directory is not owned, and     *)
(* when os.replace does; every caller catches either and adds it to the     *)
(* warnings of the record.                                                  *)
Retain(j) ==
    /\ \/ /\ CanRetain(j)
          /\ staging' = [staging EXCEPT ![j] = "failed"]
          /\ UNCHANGED refusal
       \/ /\ ~CanRetain(j)
          /\ refusal' = [refusal EXCEPT ![j] = "unowned"]
          /\ UNCHANGED staging
       \/ /\ MoveMayFail /\ CanRetain(j)
          /\ refusal' = [refusal EXCEPT ![j] = "error"]
          /\ UNCHANGED staging
    /\ UNCHANGED <<fs, owned>>

CanLinkOver(p) == TRUE

(* os.link(staged_archive, final) fails when anything is there.             *)
CanLink(p) == ~LExists(p)

(* os.replace(staging, final) of a directory: nothing, or an empty          *)
(* directory, may be there (POSIX rename).                                  *)
CanReplace(p) == fs[p].kind \in {"absent", "emptyDir"}

Publish(p, entry) == fs' = [fs EXCEPT ![p] = entry]
=============================================================================
