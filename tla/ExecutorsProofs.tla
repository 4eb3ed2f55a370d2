---------------------------- MODULE ExecutorsProofs ----------------------------
(***************************************************************************)
(* What holds of the executors for every number of jobs, every choice of   *)
(* operations and output paths, and whatever other programs do.            *)
(***************************************************************************)
EXTENDS Executors, WellFoundedInduction, TLAPS

(* The types, without the cap on what other programs create.                *)
Types ==
    /\ StagingTypeOK
    /\ operation \in Operations
    /\ existing \in Policies
    /\ pc \in [Job -> {"start", "source", "resolve", "stage", "run", "judge",
                       "test", "judgeTest", "recheck", "commit", "publish",
                       "cleanup", "done"}]
    /\ final \in [Job -> Path]
    /\ code \in [Job -> Codes \union {0}]
    /\ whole \in [Job -> BOOLEAN]
    /\ status \in [Job -> Statuses \union {"none"}]
    /\ reported \in [Job -> {"none", "tmp", "failed"}]
    /\ source \in [Job -> {"planned", "changed", "unusable"}]
    /\ stop \in BOOLEAN
    /\ foreign \in 0..MaxForeign

(* A job has a status exactly when it is done.                              *)
StatusAtEnd == \A j \in Job : pc[j] = "done" <=> status[j] # "none"

(* The staging directory is there from Stage until something is published. *)
StagedWhileRun ==
    \A j \in Job :
        /\ pc[j] \in {"start", "source", "resolve", "stage"} => staging[j] = "none"
        /\ pc[j] \in {"run", "judge", "test", "judgeTest", "recheck", "commit", "publish"}
              => staging[j] = "tmp"

(* Past the judgement of the first process everything is staged.            *)
WholeIsStaged ==
    \A j \in Job :
        /\ pc[j] = "judge" /\ code[j] = 0 => whole[j]
        /\ pc[j] \in {"test", "judgeTest", "recheck", "commit", "publish", "cleanup"}
              => whole[j]

(* A job owns no entry but that at its path, and that one from its          *)
(* publication on; it is lost sight of only if an exception ends the job.   *)
PublishedOnce ==
    \A j \in Job :
        /\ Outputs(j) \subseteq {final[j]}
        /\ pc[j] = "cleanup" \/ status[j] = "success" => Outputs(j) = {final[j]}
        /\ pc[j] # "cleanup" /\ status[j] \notin {"success", "raised"} => Outputs(j) = {}

(* The names a job may be given: the one it wants, the numbered variants of *)
(* that, and, as a name can be taken twice, the variants of those.          *)
ClosedUnderNames(S) == \A p \in S : \A i \in DOMAIN Candidates[p] : Candidates[p][i] \in S

NamesOf(j) ==
    {p \in Path : \A S \in SUBSET Path : Desired[j] \in S /\ ClosedUnderNames(S) => p \in S}

(* Whatever is renamed, each job stays among its names.                     *)
WithinNames == \A j \in Job : final[j] \in NamesOf(j)

(* Only an extraction of an empty archive leaves an empty directory.        *)
EmptyIsExtracted ==
    \A p \in Path : fs[p].kind = "emptyDir" =>
        fs[p].owner \in Empty /\ operation[fs[p].owner] = "extract"
-----------------------------------------------------------------------------
(* unique_path returns a candidate, and one at which nothing is.            *)
LEMMA UniquePathIsFree ==
  ASSUME NEW p \in Path, HasUniquePath(p)
  PROVE  /\ UniquePath(p) \in Path /\ ~LExists(UniquePath(p))
         /\ \E i \in DOMAIN Candidates[p] : UniquePath(p) = Candidates[p][i]
<1> DEFINE free == {i \in DOMAIN Candidates[p] : ~LExists(Candidates[p][i])}
<1>1. Candidates[p] \in Seq(Path)
  BY StagingAssumption
<1>2. free \subseteq Nat /\ free # {}
  BY <1>1 DEF HasUniquePath
<1>3. \E i \in free : \A k \in free : i =< k
  <2>1. PICK i \in free : \A k \in free : ~(<<k, i>> \in OpToRel(<, Nat))
    BY <1>2, NatLessThanWellFounded, WFMin
  <2>2. ASSUME NEW k \in free PROVE i =< k
    <3>1. ~(k < i)
      BY <1>2, <2>1 DEF OpToRel
    <3>2. QED
      BY <1>2, <3>1
  <2>3. QED
    BY <2>2
<1>4. PICK i \in free : UniquePath(p) = Candidates[p][i]
  BY <1>3 DEF UniquePath
<1>5. QED
  BY <1>1, <1>4

(* The types of what the end of an execution changes.                       *)
WorkTypes ==
    /\ pc \in [Job -> {"start", "source", "resolve", "stage", "run", "judge",
                       "test", "judgeTest", "recheck", "commit", "publish",
                       "cleanup", "done"}]
    /\ status \in [Job -> Statuses \union {"none"}]
    /\ reported \in [Job -> {"none", "tmp", "failed"}]

(* Finish keeps them, whether it leaves a record or an exception.           *)
LEMMA FinishTypes ==
  ASSUME Types, NEW j \in Job, NEW p, NEW s \in Statuses, Finish(j, p, s),
         s = "success" \/ staging'[j] \in {"none", "tmp", "failed"}
  PROVE  WorkTypes'
<1> USE DEF Types, WorkTypes, Goto
<1>1. CASE Raise(j, p)
  BY <1>1 DEF Raise, Statuses
<1>2. CASE /\ Goto(j, p, "done")
           /\ status' = [status EXCEPT ![j] = s]
           /\ reported' = [reported EXCEPT ![j] = IF s = "success" THEN "none" ELSE staging'[j]]
  BY <1>2
<1>3. QED
  BY <1>1, <1>2 DEF Finish

(* Ending a job as failed, warned or interrupted keeps every type.          *)
LEMMA RetainTypes ==
  ASSUME Types, StagedWhileRun, NEW j \in Job,
         NEW p \in {"run", "judge", "test", "judgeTest", "recheck", "commit", "publish"},
         NEW s \in Statuses, RetainAndFinish(j, p, s),
         UNCHANGED <<env, final, code, whole>>
  PROVE  Types'
<1>1. pc[j] = p /\ staging[j] = "tmp"
  BY DEF StagedWhileRun, RetainAndFinish, Finish, Raise, Goto
<1>2. staging'[j] \in {"tmp", "failed"} /\ StagingTypeOK'
  BY <1>1 DEF Types, StagingTypeOK, RetainAndFinish, Retain
<1>3. WorkTypes'
  BY <1>2, FinishTypes DEF RetainAndFinish
<1>4. QED
  BY <1>2, <1>3 DEF Types, WorkTypes, env

(* The initial state has the right types.                                   *)
LEMMA TypesInitially == Init => Types
<1> SUFFICES ASSUME Init PROVE Types
  OBVIOUS
<1>1. Absent \in Entry
  BY StagingAssumption DEF Absent, Entry, Kinds
<1>2. StagingTypeOK
  BY <1>1 DEF Init, StagingTypeOK
<1>3. /\ operation \in Operations /\ existing \in Policies
      /\ final \in [Job -> Path] /\ status \in [Job -> Statuses \union {"none"}]
  BY ExecutorsAssumption DEF Init
<1>4. /\ pc \in [Job -> {"start", "source", "resolve", "stage", "run", "judge",
                         "test", "judgeTest", "recheck", "commit", "publish",
                         "cleanup", "done"}]
      /\ code \in [Job -> Codes \union {0}]
      /\ source \in [Job -> {"planned", "changed", "unusable"}]
      /\ whole \in [Job -> BOOLEAN]
      /\ reported \in [Job -> {"none", "tmp", "failed"}]
  BY DEF Init
<1>5. stop \in BOOLEAN /\ foreign \in 0..MaxForeign
  <2>1. foreign = 0 /\ MaxForeign \in Nat
    BY ExecutorsAssumption DEF Init
  <2>2. foreign \in 0..MaxForeign
    BY <2>1
  <2>3. QED
    BY <2>2 DEF Init
<1>6. QED
  BY <1>2, <1>3, <1>4, <1>5 DEF Types

(* Putting an entry at a path keeps the type of what is on the disk.        *)
LEMMA PublishTypes ==
  ASSUME StagingTypeOK, NEW p \in Path, NEW entry \in Entry, entry.kind # "absent",
         Publish(p, entry)
  PROVE  /\ fs' \in [Path -> Entry]
         /\ \A q \in Path : fs'[q].kind = "absent" => fs'[q] = Absent
<1>1. fs \in [Path -> Entry] /\ fs' = [fs EXCEPT ![p] = entry]
  BY DEF StagingTypeOK, Publish
<1>2. fs' \in [Path -> Entry]
  BY <1>1
<1>3. ASSUME NEW q \in Path, fs'[q].kind = "absent"
      PROVE  fs'[q] = Absent
  <2>1. q # p /\ fs'[q] = fs[q]
    BY <1>1, <1>3
  <2>2. QED
    BY <1>3, <2>1 DEF StagingTypeOK
<1>4. QED
  BY <1>2, <1>3

(* So has the state after each step of an executor,                         *)
LEMMA TypesOfExecute ==
  ASSUME Types, StagedWhileRun, NEW j \in Job, Execute(j)
  PROVE  Types'
<1> USE ExecutorsAssumption DEF Types, StagingTypeOK, Goto, Continue, disk, env, Statuses
<1>0. ASSUME NEW p \in {"start", "source", "resolve", "stage"},
             NEW s \in {"skipped", "failed", "interrupted"}, Finish(j, p, s),
             UNCHANGED <<disk, env, final, code, whole>>
      PROVE  Types'
  <2>1. staging'[j] = "none"
    BY <1>0 DEF StagedWhileRun, Finish, Raise
  <2>2. WorkTypes'
    BY <1>0, <2>1, FinishTypes
  <2>3. QED
    BY <1>0, <2>2 DEF WorkTypes
<1>1. CASE Start(j)
  <2>1. CASE stop
    BY <1>0, <1>1, <2>1 DEF Start
  <2>2. CASE ~stop
    BY <1>1, <2>2 DEF Start
  <2>3. QED
    BY <1>1, <2>1, <2>2
<1>2. CASE CheckSource(j)
  <2>1. CASE source[j] = "planned" \/ (source[j] = "changed" /\ AllowChanged)
    BY <1>2, <2>1 DEF CheckSource
  <2>2. CASE ~(source[j] = "planned" \/ (source[j] = "changed" /\ AllowChanged))
    BY <1>0, <1>2, <2>2 DEF CheckSource
  <2>3. QED
    BY <1>2, <2>1, <2>2
<1>3. CASE ResolveExisting(j)
  <2>1. CASE ~LExists(Desired[j])
    <3>1. Continue(j, "resolve", "stage") /\ UNCHANGED <<disk, env, final, code, whole>>
      BY <1>3, <2>1 DEF ResolveExisting
    <3>2. QED
      BY <3>1
  <2>2. CASE LExists(Desired[j]) /\ existing = "fail"
    BY <1>0, <1>3, <2>2 DEF ResolveExisting
  <2>3. CASE LExists(Desired[j]) /\ existing = "skip"
    BY <1>0, <1>3, <2>3 DEF ResolveExisting
  <2>4. CASE LExists(Desired[j]) /\ existing = "rename"
    BY <1>3, <2>4, UniquePathIsFree DEF ResolveExisting
  <2>5. QED
    BY <1>3, <2>1, <2>2, <2>3, <2>4 DEF ResolveExisting
<1>4. CASE Stage(j)
  BY <1>4 DEF Stage, CreateStaging
<1>5. CASE CannotStage(j)
  BY <1>0, <1>5 DEF CannotStage
<1>6. CASE Run(j)
  BY <1>6 DEF Run
<1>7. CASE Cancelled(j)
  BY <1>7, RetainTypes DEF Cancelled
<1>8. CASE CallFails(j)
  BY <1>8, RetainTypes DEF CallFails
<1>9. CASE ExtractRaises(j)
  BY <1>9 DEF ExtractRaises, Raise
<1>10. CASE Judge(j)
  <2>1. CASE Verdict(code[j]) = "success"
    BY <1>10, <2>1 DEF Judge, Verdict
  <2>2. CASE Verdict(code[j]) # "success"
    <3>1. Verdict(code[j]) \in Statuses
      BY DEF Verdict
    <3>2. RetainAndFinish(j, "judge", Verdict(code[j])) /\ UNCHANGED <<env, final, code, whole>>
      BY <1>10, <2>2 DEF Judge
    <3>3. QED
      BY <3>1, <3>2, RetainTypes
  <2>3. QED
    BY <1>10, <2>1, <2>2
<1>11. CASE ArchiveMissing(j)
  BY <1>11, RetainTypes DEF ArchiveMissing
<1>12. CASE Test(j)
  BY <1>12 DEF Test
<1>13. CASE JudgeTest(j)
  <2>1. CASE Verdict(code[j]) = "success"
    BY <1>13, <2>1 DEF JudgeTest, Verdict
  <2>2. CASE Verdict(code[j]) # "success"
    <3>1. Verdict(code[j]) \in Statuses
      BY DEF Verdict
    <3>2. RetainAndFinish(j, "judgeTest", Verdict(code[j])) /\ UNCHANGED <<env, final, code, whole>>
      BY <1>13, <2>2 DEF JudgeTest
    <3>3. QED
      BY <3>1, <3>2, RetainTypes
  <2>3. QED
    BY <1>13, <2>1, <2>2
<1>14. CASE Recheck(j)
  <2> DEFINE taken == IF Creates(j) THEN LExists(final[j]) ELSE Exists(final[j])
  <2>1. CASE taken /\ existing = "rename"
    <3>1. /\ HasUniquePath(final[j]) /\ Continue(j, "recheck", "commit")
          /\ final' = [final EXCEPT ![j] = UniquePath(final[j])]
          /\ UNCHANGED <<disk, env, code, whole>>
      BY <1>14, <2>1 DEF Recheck
    <3>2. UniquePath(final[j]) \in Path
      BY <3>1, UniquePathIsFree
    <3>3. QED
      BY <3>1, <3>2
  <2>2. CASE taken /\ existing # "rename" /\ Creates(j)
    <3>1. RetainAndFinish(j, "recheck", "failed") /\ UNCHANGED <<env, final, code, whole>>
      BY <1>14, <2>2 DEF Recheck
    <3>2. QED
      BY <3>1, RetainTypes
  <2>3. CASE ~taken \/ (existing # "rename" /\ ~Creates(j))
    <3>1. /\ Continue(j, "recheck", "commit")
          /\ UNCHANGED <<disk, final, env, code, whole>>
      BY <1>14, <2>3 DEF Recheck
    <3>2. QED
      BY <3>1
  <2>4. QED
    BY <2>1, <2>2, <2>3
<1>15. CASE Commit(j)
  <2>1. CASE owned[j] /\ ~LExists(final[j])
    BY <1>15, <2>1 DEF Commit
  <2>2. CASE ~(owned[j] /\ ~LExists(final[j]))
    <3>1. RetainAndFinish(j, "commit", "failed") /\ UNCHANGED <<env, final, code, whole>>
      BY <1>15, <2>2 DEF Commit
    <3>2. QED
      BY <3>1, RetainTypes
  <2>3. QED
    BY <1>15, <2>1, <2>2
<1>16. CASE Link(j)
  <2>1. StagingTypeOK'
    <3> DEFINE entry == [kind |-> "file", owner |-> j, whole |-> whole[j]]
    <3>1. entry \in Entry /\ entry.kind # "absent"
      BY DEF Entry, Kinds
    <3>2. final[j] \in Path /\ Publish(final[j], entry)
      BY <1>16 DEF Link
    <3>3. /\ fs' \in [Path -> Entry]
          /\ \A p \in Path : fs'[p].kind = "absent" => fs'[p] = Absent
      BY <3>1, <3>2, PublishTypes
    <3>4. UNCHANGED <<staging, owned, refusal>>
      BY <1>16 DEF Link
    <3>5. QED
      BY <3>3, <3>4
  <2>2. QED
    BY <1>16, <2>1 DEF Link
<1>17. CASE Replace(j)
  <2>1. StagingTypeOK'
    <3> DEFINE entry == [kind |-> "dir", owner |-> j, whole |-> whole[j]]
    <3>1. entry \in Entry /\ entry.kind # "absent"
      BY DEF Entry, Kinds
    <3>2. final[j] \in Path /\ Publish(final[j], entry)
      BY <1>17 DEF Replace
    <3>3. /\ fs' \in [Path -> Entry]
          /\ \A p \in Path : fs'[p].kind = "absent" => fs'[p] = Absent
      BY <3>1, <3>2, PublishTypes
    <3>4. staging' = [staging EXCEPT ![j] = "published"] /\ UNCHANGED <<owned, refusal>>
      BY <1>17 DEF Replace
    <3>5. QED
      BY <3>3, <3>4
  <2>2. QED
    BY <1>17, <2>1 DEF Replace
<1>18. CASE PublishFails(j)
  BY <1>18, RetainTypes DEF PublishFails
<1>19. CASE CleanupArchive(j)
  <2>1. WorkTypes'
    BY <1>19, FinishTypes DEF CleanupArchive
  <2>2. StagingTypeOK'
    <3>1. CASE UNCHANGED <<staging, owned>>
      BY <1>19, <3>1 DEF CleanupArchive
    <3>2. CASE /\ owned' = [owned EXCEPT ![j] = FALSE]
               /\ \E left \in {"tmp", "removed"} : staging' = [staging EXCEPT ![j] = left]
      BY <1>19, <3>2 DEF CleanupArchive
    <3>3. QED
      BY <1>19, <3>1, <3>2 DEF CleanupArchive
  <2>3. QED
    BY <1>19, <2>1, <2>2 DEF CleanupArchive, WorkTypes
<1>20. CASE CleanupDirectory(j)
  <2>0. WorkTypes'
    BY <1>20, FinishTypes DEF CleanupDirectory
  <2>1. CASE UNCHANGED fs
    BY <1>20, <2>0, <2>1 DEF CleanupDirectory, WorkTypes
  <2>2. CASE fs' = [fs EXCEPT ![final[j]].kind = "emptyDir"]
    <3>1. /\ Finish(j, "cleanup", "success")
          /\ UNCHANGED <<staging, owned, refusal, env, final, code, whole>>
      BY <1>20 DEF CleanupDirectory
    <3>2. [fs[final[j]] EXCEPT !.kind = "emptyDir"] \in Entry
      <4>1. fs[final[j]] \in Entry
        OBVIOUS
      <4>2. QED
        BY <4>1 DEF Entry, Kinds
    <3>3. fs' = [fs EXCEPT ![final[j]] = [fs[final[j]] EXCEPT !.kind = "emptyDir"]]
      BY <2>2
    <3>4. [fs[final[j]] EXCEPT !.kind = "emptyDir"].kind = "emptyDir"
      <4>1. fs[final[j]] \in Entry
        OBVIOUS
      <4>2. QED
        BY <4>1 DEF Entry
    <3>5. StagingTypeOK'
      BY <3>1, <3>2, <3>3, <3>4
    <3>6. QED
      BY <2>0, <3>1, <3>5 DEF WorkTypes
  <2>3. QED
    BY <1>20, <2>1, <2>2 DEF CleanupDirectory
<1>21. QED
  BY <1>1, <1>2, <1>3, <1>4, <1>5, <1>6, <1>7, <1>8, <1>9, <1>10, <1>11, <1>12, <1>13,
     <1>14, <1>15, <1>16, <1>17, <1>18, <1>19, <1>20 DEF Execute

(* and after each step of the user and of other programs.                   *)
LEMMA TypesOfEnvironment ==
  ASSUME Types, Environment
  PROVE  Types'
<1> USE ExecutorsAssumption DEF Types, StagingTypeOK, disk, work
<1>1. CASE Interrupt
  BY <1>1 DEF Interrupt
<1>2. ASSUME NEW p \in Path, NEW kind \in ForeignKinds, ForeignCreates(p, kind) PROVE Types'
  <2>1. /\ [kind |-> kind, owner |-> Foreign, whole |-> FALSE] \in Entry
        /\ kind # "absent"
    BY DEF Entry, Kinds
  <2>2. foreign' \in 0..MaxForeign
    BY <1>2 DEF ForeignCreates
  <2>3. StagingTypeOK'
    BY <1>2, <2>1, PublishTypes DEF ForeignCreates
  <2>4. QED
    BY <1>2, <2>2, <2>3 DEF ForeignCreates
<1>3. ASSUME NEW j \in Job, SourceChanges(j) PROVE Types'
  BY <1>3 DEF SourceChanges
<1>4. ASSUME NEW j \in Job, SourceUnusable(j) PROVE Types'
  BY <1>4 DEF SourceUnusable
<1>5. ASSUME NEW j \in Job, Disown(j) PROVE Types'
  BY <1>5 DEF Disown
<1>6. QED
  BY <1>1, <1>2, <1>3, <1>4, <1>5 DEF Environment
-----------------------------------------------------------------------------
(* What an executor's step can be, as far as the staging directory and the  *)
(* record are concerned: it goes on, gives up before there is anything      *)
(* staged, keeps what is staged, or one of the steps that have a case of    *)
(* their own below.                                                         *)
NextPoint == {<<"start", "source">>, <<"source", "resolve">>, <<"resolve", "stage">>,
              <<"judge", "test">>, <<"judge", "recheck">>, <<"judgeTest", "recheck">>,
              <<"recheck", "commit">>, <<"commit", "publish">>}

Advance(j) ==
    /\ \E q \in {"source", "resolve", "stage", "test", "recheck", "commit", "publish"} :
          <<pc[j], q>> \in NextPoint /\ pc' = [pc EXCEPT ![j] = q]
    /\ pc[j] = "judge" => Verdict(code[j]) = "success"
    /\ \A k \in Job : k # j => final'[k] = final[k]
    /\ UNCHANGED <<disk, code, whole, status, reported>>

GiveUp(j) ==
    /\ \E p \in {"start", "source", "resolve", "stage"},
          s \in {"skipped", "failed", "interrupted"} : Finish(j, p, s)
    /\ UNCHANGED <<disk, final, code, whole>>

Keep(j) ==
    /\ \E p \in {"run", "judge", "test", "judgeTest", "recheck", "commit", "publish"},
          s \in {"warning", "failed", "interrupted"} : RetainAndFinish(j, p, s)
    /\ UNCHANGED <<final, code, whole>>

Move(j) == \/ Advance(j) \/ GiveUp(j) \/ Keep(j) \/ Stage(j) \/ Run(j) \/ Test(j)
           \/ ExtractRaises(j) \/ Link(j) \/ Replace(j)
           \/ CleanupArchive(j) \/ CleanupDirectory(j)

(* Every step of an executor is of one of these kinds.                      *)
LEMMA ExecuteMoves ==
  ASSUME Types, NEW j \in Job, Execute(j)
  PROVE  Move(j) /\ UNCHANGED env
<1> USE DEF Continue, Goto, NextPoint
<1>0. pc \in [Job -> {"start", "source", "resolve", "stage", "run", "judge", "test",
                      "judgeTest", "recheck", "commit", "publish", "cleanup", "done"}]
      /\ final \in [Job -> Path]
  BY DEF Types
<1>1. CASE Start(j)
  BY <1>1 DEF Start, Move, Advance, GiveUp
<1>2. CASE CheckSource(j)
  BY <1>2 DEF CheckSource, Move, Advance, GiveUp
<1>3. CASE ResolveExisting(j)
  <2>1. CASE ~LExists(Desired[j])
    BY <1>3, <2>1 DEF ResolveExisting, Move, Advance
  <2>2. CASE LExists(Desired[j]) /\ existing \in {"fail", "skip"}
    BY <1>3, <2>2 DEF ResolveExisting, Move, GiveUp
  <2>3. CASE LExists(Desired[j]) /\ existing = "rename"
    BY <1>0, <1>3, <2>3 DEF ResolveExisting, Move, Advance
  <2>4. QED
    BY <2>1, <2>2, <2>3, ExecutorsAssumption DEF Types
<1>4. CASE CannotStage(j)
  BY <1>4 DEF CannotStage, Move, GiveUp
<1>5. CASE Cancelled(j)
  BY <1>5 DEF Cancelled, Move, Keep
<1>6. CASE CallFails(j)
  BY <1>6 DEF CallFails, Move, Keep
<1>7. CASE Judge(j)
  BY <1>7 DEF Judge, Verdict, Move, Keep, Advance
<1>8. CASE ArchiveMissing(j)
  BY <1>8 DEF ArchiveMissing, Move, Keep
<1>9. CASE JudgeTest(j)
  BY <1>9 DEF JudgeTest, Verdict, Move, Keep, Advance
<1>10. CASE Recheck(j)
  BY <1>0, <1>10 DEF Recheck, Move, Keep, Advance
<1>11. CASE Commit(j)
  BY <1>11 DEF Commit, Move, Keep, Advance
<1>12. CASE PublishFails(j)
  BY <1>12 DEF PublishFails, Move, Keep
<1>13. QED
  BY <1>1, <1>2, <1>3, <1>4, <1>5, <1>6, <1>7, <1>8, <1>9, <1>10, <1>11, <1>12
     DEF Execute, Move, Stage, Run, Test, ExtractRaises, Link, Replace, CleanupArchive,
         CleanupDirectory

(* What the step of one job leaves alone, and where it may leave the job.   *)
LEMMA MoveFrame ==
  ASSUME Types, StatusAtEnd, NEW j \in Job, Move(j)
  PROVE  /\ pc[j] # "done" /\ status[j] = "none"
         /\ pc'[j] = "done" <=> status'[j] # "none"
         /\ \A k \in Job : k # j =>
               /\ pc'[k] = pc[k] /\ status'[k] = status[k] /\ reported'[k] = reported[k]
               /\ staging'[k] = staging[k] /\ owned'[k] = owned[k]
               /\ refusal'[k] = refusal[k]
               /\ final'[k] = final[k] /\ code'[k] = code[k] /\ whole'[k] = whole[k]
<1> USE DEF Types, StagingTypeOK, StatusAtEnd, Continue, Goto, disk, Finish, Raise
<1>1. CASE Advance(j)
  BY <1>1 DEF Advance, NextPoint
<1>2. CASE GiveUp(j)
  BY <1>2 DEF GiveUp
<1>3. CASE Keep(j)
  BY <1>3 DEF Keep, RetainAndFinish, Retain
<1>4. CASE Stage(j)
  BY <1>4 DEF Stage, CreateStaging
<1>5. CASE Run(j)
  BY <1>5 DEF Run
<1>6. CASE Test(j)
  BY <1>6 DEF Test
<1>7. CASE ExtractRaises(j)
  BY <1>7 DEF ExtractRaises
<1>8. CASE Link(j)
  BY <1>8 DEF Link
<1>9. CASE Replace(j)
  BY <1>9 DEF Replace
<1>10. CASE CleanupArchive(j)
  BY <1>10 DEF CleanupArchive
<1>11. CASE CleanupDirectory(j)
  BY <1>11 DEF CleanupDirectory
<1>12. QED
  BY <1>1, <1>2, <1>3, <1>4, <1>5, <1>6, <1>7, <1>8, <1>9, <1>10, <1>11 DEF Move

(* Where the step of a job leaves its staging directory.                    *)
StagedAt(j) ==
    /\ pc[j] \in {"start", "source", "resolve", "stage"} => staging[j] = "none"
    /\ pc[j] \in {"run", "judge", "test", "judgeTest", "recheck", "commit", "publish"}
          => staging[j] = "tmp"

RetainedAt(j) ==
    (status[j] \in {"warning", "failed", "interrupted"} /\ staging[j] # "none") =>
        /\ reported[j] = staging[j]
        /\ \/ staging[j] = "failed" /\ owned[j]
           \/ staging[j] = "tmp" /\ refusal[j] = "unowned" /\ ~owned[j]
           \/ staging[j] = "tmp" /\ refusal[j] = "error" /\ MoveMayFail

(* What a step does to the staging directory of its job follows from where  *)
(* the executor is.                                                         *)
LEMMA MoveOfStaging ==
  ASSUME Types, StatusAtEnd, NEW j \in Job, StagedAt(j), Move(j)
  PROVE  StagedAt(j)' /\ RetainedAt(j)'
<1> USE DEF Types, StagingTypeOK, StatusAtEnd, Continue, Goto, disk, Finish, Raise,
            StagedAt, RetainedAt
<1>1. CASE Advance(j)
  BY <1>1 DEF Advance, NextPoint
<1>2. CASE GiveUp(j)
  BY <1>2 DEF GiveUp
<1>3. CASE Keep(j)
  <2>1. staging[j] = "tmp" /\ pc'[j] = "done"
    BY <1>3 DEF Keep, RetainAndFinish
  <2>2. status'[j] = "raised" \/ (status'[j] # "success" /\ reported'[j] = staging'[j])
    BY <1>3, <2>1 DEF Keep, RetainAndFinish
  <2>3. /\ owned'[j] = owned[j]
        /\ \/ staging'[j] = "failed" /\ owned[j]
           \/ staging'[j] = "tmp" /\ refusal'[j] = "unowned" /\ ~owned[j]
           \/ staging'[j] = "tmp" /\ refusal'[j] = "error" /\ MoveMayFail
    BY <1>3, <2>1 DEF Keep, RetainAndFinish, Retain, CanRetain
  <2>4. QED
    BY <2>1, <2>2, <2>3
<1>4. CASE Stage(j)
  BY <1>4 DEF Stage, CreateStaging
<1>5. CASE Run(j)
  BY <1>5 DEF Run
<1>6. CASE Test(j)
  BY <1>6 DEF Test
<1>7. CASE ExtractRaises(j)
  BY <1>7 DEF ExtractRaises
<1>8. CASE Link(j)
  BY <1>8 DEF Link
<1>9. CASE Replace(j)
  BY <1>9 DEF Replace
<1>10. CASE CleanupArchive(j)
  BY <1>10 DEF CleanupArchive
<1>11. CASE CleanupDirectory(j)
  BY <1>11 DEF CleanupDirectory
<1>12. QED
  BY <1>1, <1>2, <1>3, <1>4, <1>5, <1>6, <1>7, <1>8, <1>9, <1>10, <1>11 DEF Move

(* Every step keeps the status, the staging directory and the record of     *)
(* each job in accord.                                                      *)
LEMMA StagedAndRetained ==
  ASSUME Types, StatusAtEnd, StagedWhileRun, StagingRetained, [Next]_vars
  PROVE  StatusAtEnd' /\ StagedWhileRun' /\ StagingRetained'
<1>1. ASSUME NEW j \in Job, Execute(j)
      PROVE  StatusAtEnd' /\ StagedWhileRun' /\ StagingRetained'
  <2>1. Move(j)
    BY <1>1, ExecuteMoves
  <2>2. StagedAt(j)
    BY DEF StagedWhileRun, StagedAt
  <2>3. StagedAt(j)' /\ RetainedAt(j)'
    BY <2>1, <2>2, MoveOfStaging
  <2>4. StatusAtEnd'
    BY <2>1, MoveFrame DEF StatusAtEnd
  <2>5. StagedWhileRun'
    BY <2>1, <2>3, MoveFrame DEF StagedWhileRun, StagedAt
  <2>6. StagingRetained'
    BY <2>1, <2>3, MoveFrame DEF StagingRetained, RetainedAt
  <2>7. QED
    BY <2>4, <2>5, <2>6
<1>2. ASSUME NEW j \in Job, Disown(j)
      PROVE  StatusAtEnd' /\ StagedWhileRun' /\ StagingRetained'
  BY <1>2 DEF Disown, work, Types, StagingTypeOK, StatusAtEnd, StagedWhileRun,
     StagingRetained
<1>3. CASE UNCHANGED <<pc, status, staging, owned, refusal, reported>>
  BY <1>3 DEF StatusAtEnd, StagedWhileRun, StagingRetained
<1>4. QED
  BY <1>1, <1>2, <1>3 DEF Next, Environment, Interrupt, ForeignCreates, SourceChanges,
                          SourceUnusable, Ended, vars, disk, work
-----------------------------------------------------------------------------
(* No 7-Zip process is ended by a signal from outside the program.          *)
NoSignalDeaths == Codes \subseteq Nat

(* So every return code is 0, a warning or an error.                        *)
LEMMA CodesAreNaturals ==
  ASSUME NoSignalDeaths
  PROVE  \A c \in Codes \union {0} : c \in Nat
  BY DEF NoSignalDeaths

(* Every step keeps what is staged whole from the verdict on.               *)
LEMMA WholeInductive ==
  ASSUME NoSignalDeaths, Types, StatusAtEnd, WholeIsStaged, [Next]_vars
  PROVE  WholeIsStaged'
<1> USE DEF WholeIsStaged
<1>1. ASSUME NEW j \in Job, Execute(j) PROVE WholeIsStaged'
  <2> USE DEF Types, Continue, Goto
  <2>1. Move(j)
    BY <1>1, ExecuteMoves
  <2>2. /\ pc'[j] = "judge" /\ code'[j] = 0 => whole'[j]
        /\ pc'[j] \in {"test", "judgeTest", "recheck", "commit", "publish", "cleanup"}
              => whole'[j]
    <3>1. CASE Advance(j)
      <4>1. pc[j] = "judge" => code[j] = 0
        <5>1. code[j] \in Codes \union {0}
          OBVIOUS
        <5>2. code[j] \in Nat
          BY <5>1, CodesAreNaturals
        <5>3. QED
          BY <3>1, <5>2 DEF Advance, Verdict
      <4>2. QED
        BY <3>1, <4>1 DEF Advance, NextPoint
    <3>2. CASE Run(j)
      BY <3>2 DEF Run
    <3>3. CASE Test(j)
      BY <3>3 DEF Test
    <3>4. CASE Link(j) \/ Replace(j)
      BY <3>4 DEF Link, Replace
    <3>5. CASE Stage(j)
      BY <3>5 DEF Stage
    <3>6. CASE GiveUp(j) \/ Keep(j) \/ ExtractRaises(j) \/ CleanupArchive(j) \/ CleanupDirectory(j)
      BY <3>6 DEF GiveUp, Keep, RetainAndFinish, Finish, Raise, ExtractRaises, CleanupArchive,
                  CleanupDirectory
    <3>7. QED
      BY <2>1, <3>1, <3>2, <3>3, <3>4, <3>5, <3>6 DEF Move
  <2>3. QED
    BY <2>1, <2>2, MoveFrame
<1>2. CASE UNCHANGED <<pc, code, whole>>
  BY <1>2
<1>3. QED
  BY <1>1, <1>2 DEF Next, Environment, Interrupt, ForeignCreates, SourceChanges,
                    SourceUnusable, Disown, Ended, vars, work
-----------------------------------------------------------------------------
(* The four ways in which an output path can change.                        *)
Published(j) ==
    /\ Link(j) \/ Replace(j)
    /\ \E kind \in {"file", "dir"} :
          fs' = [fs EXCEPT ![final[j]] = [kind |-> kind, owner |-> j, whole |-> whole[j]]]

Emptied(j) ==
    /\ CleanupDirectory(j)
    /\ j \in Empty
    /\ fs' = [fs EXCEPT ![final[j]].kind = "emptyDir"]

(* Only a publication, an unlinked marker and other programs change what is *)
(* at an output path.                                                       *)
LEMMA ChangesOfOutputs ==
  ASSUME Types, [Next]_vars
  PROVE  \/ fs' = fs
         \/ \E j \in Job : Published(j) \/ Emptied(j)
         \/ \E p \in Path, kind \in ForeignKinds : ForeignCreates(p, kind)
<1>1. ASSUME NEW j \in Job, Execute(j)
      PROVE  fs' = fs \/ Published(j) \/ Emptied(j)
  <2>1. Move(j)
    BY <1>1, ExecuteMoves
  <2>2. CASE Link(j)
    BY <2>2 DEF Link, Publish, Published
  <2>3. CASE Replace(j)
    BY <2>3 DEF Replace, Publish, Published
  <2>4. CASE CleanupDirectory(j)
    BY <2>4 DEF CleanupDirectory, Emptied
  <2>5. CASE ~(Link(j) \/ Replace(j) \/ CleanupDirectory(j))
    BY <2>1, <2>5 DEF Move, Advance, GiveUp, Keep, Stage, CreateStaging, Run, Test,
                      ExtractRaises, CleanupArchive, RetainAndFinish, Retain, disk
  <2>6. QED
    BY <2>2, <2>3, <2>4, <2>5
<1>2. QED
  BY <1>1 DEF Next, Environment, Interrupt, SourceChanges, SourceUnusable, Disown, Ended,
              vars, disk

(* What a job publishes is whole, and nothing else ever becomes a job's.    *)
LEMMA PublishedWholeInductive ==
  ASSUME Types, WholeIsStaged, PublishedIsWhole, [Next]_vars
  PROVE  PublishedIsWhole'
<1> USE DEF Types, StagingTypeOK, PublishedIsWhole
<1>1. ASSUME NEW j \in Job, Published(j) PROVE PublishedIsWhole'
  <2>1. whole[j] /\ final[j] \in Path
    BY <1>1 DEF Published, Link, Replace, Continue, Goto, WholeIsStaged
  <2>2. QED
    BY <1>1, <2>1 DEF Published
<1>2. ASSUME NEW j \in Job, Emptied(j) PROVE PublishedIsWhole'
  BY <1>2 DEF Emptied, Entry
<1>3. ASSUME NEW p \in Path, NEW kind, ForeignCreates(p, kind) PROVE PublishedIsWhole'
  BY <1>3, StagingAssumption DEF ForeignCreates, Publish
<1>4. QED
  BY <1>1, <1>2, <1>3, ChangesOfOutputs

(* An extraction of an empty archive shares no name with another            *)
(* extraction, and others make no empty directories: os.replace would       *)
(* replace those.                                                           *)
EmptyExtractionsApart ==
    /\ "emptyDir" \notin ForeignKinds
    /\ \A op \in Operations : \A j \in Empty, k \in Job :
          op[j] = "extract" /\ op[k] = "extract" /\ j # k => NamesOf(j) \cap NamesOf(k) = {}

(* The wanted path is a name of the job, and so is a variant of a name.     *)
LEMMA NamesAreClosed ==
  ASSUME NEW j \in Job
  PROVE  /\ Desired[j] \in NamesOf(j)
         /\ ClosedUnderNames(NamesOf(j))
<1>1. Desired[j] \in NamesOf(j)
  BY ExecutorsAssumption DEF NamesOf
<1>2. ASSUME NEW p \in NamesOf(j), NEW i \in DOMAIN Candidates[p]
      PROVE  Candidates[p][i] \in NamesOf(j)
  <2>1. p \in Path /\ Candidates[p] \in Seq(Path)
    BY StagingAssumption DEF NamesOf
  <2>2. Candidates[p][i] \in Path
    BY <2>1
  <2>3. ASSUME NEW S \in SUBSET Path, Desired[j] \in S, ClosedUnderNames(S)
        PROVE  Candidates[p][i] \in S
    <3>1. p \in S
      BY <2>3 DEF NamesOf
    <3>2. QED
      BY <2>3, <3>1 DEF ClosedUnderNames
  <2>4. QED
    BY <2>2, <2>3 DEF NamesOf
<1>3. QED
  BY <1>1, <1>2 DEF ClosedUnderNames

(* resolve_existing and the second look of the executors give a job another *)
(* of its names; no other step gives it any.                                *)
LEMMA NamesInductive ==
  ASSUME Types, StatusAtEnd, WithinNames, [Next]_vars
  PROVE  WithinNames'
<1>1. ASSUME NEW j \in Job, NEW p \in NamesOf(j), HasUniquePath(p)
      PROVE  UniquePath(p) \in NamesOf(j)
  <2>1. p \in Path
    BY DEF NamesOf
  <2>2. PICK i \in DOMAIN Candidates[p] : UniquePath(p) = Candidates[p][i]
    BY <1>1, <2>1, UniquePathIsFree
  <2>3. QED
    BY <2>2, NamesAreClosed DEF ClosedUnderNames
<1>2. ASSUME NEW j \in Job, Execute(j) PROVE WithinNames'
  <2>1. Move(j)
    BY <1>2, ExecuteMoves
  <2>2. \A k \in Job : k # j => final'[k] = final[k]
    BY <2>1, MoveFrame
  <2>3. final'[j] \in NamesOf(j)
    <3>1. CASE ResolveExisting(j)
      <4>1. \/ UNCHANGED final
            \/ /\ HasUniquePath(Desired[j])
               /\ final' = [final EXCEPT ![j] = UniquePath(Desired[j])]
        <5>1. CASE LExists(Desired[j]) /\ existing = "rename"
          BY <3>1, <5>1 DEF ResolveExisting
        <5>2. CASE LExists(Desired[j]) /\ existing = "skip"
          BY <3>1, <5>2 DEF ResolveExisting
        <5>3. CASE LExists(Desired[j]) /\ existing = "fail"
          BY <3>1, <5>3 DEF ResolveExisting
        <5>4. CASE ~LExists(Desired[j])
          BY <3>1, <5>4 DEF ResolveExisting
        <5>5. QED
          BY <5>1, <5>2, <5>3, <5>4, ExecutorsAssumption DEF Types
      <4>2. QED
        BY <1>1, <4>1, NamesAreClosed DEF WithinNames, Types
    <3>2. CASE Recheck(j)
      <4>1. \/ UNCHANGED final
            \/ /\ HasUniquePath(final[j])
               /\ final' = [final EXCEPT ![j] = UniquePath(final[j])]
        BY <3>2 DEF Recheck
      <4>2. QED
        BY <1>1, <4>1 DEF WithinNames, Types
    <3>3. CASE ~ResolveExisting(j) /\ ~Recheck(j)
      <4>1. UNCHANGED final
        BY <1>2, <3>3 DEF Execute, Start, CheckSource, Stage, CannotStage, Run, Cancelled,
           CallFails, ExtractRaises, Judge, ArchiveMissing, Test, JudgeTest, Commit, Link,
           Replace, PublishFails, CleanupArchive, CleanupDirectory
      <4>2. QED
        BY <4>1 DEF WithinNames
    <3>4. QED
      BY <3>1, <3>2, <3>3
  <2>4. QED
    BY <2>2, <2>3 DEF WithinNames
<1>3. CASE UNCHANGED final
  BY <1>3 DEF WithinNames
<1>4. QED
  BY <1>2, <1>3 DEF Next, Environment, Interrupt, ForeignCreates, SourceChanges,
                    SourceUnusable, Disown, Ended, vars, work

(* A job publishes only at a path at which nothing is.                      *)
LEMMA TargetIsFree ==
  ASSUME EmptyExtractionsApart, Types, WithinNames, StatusAtEnd, PublishedOnce,
         EmptyIsExtracted, NEW j \in Job, Link(j) \/ Replace(j)
  PROVE  fs[final[j]] = Absent
<1>1. final[j] \in Path
  BY DEF Types
<1>2. fs[final[j]].kind = "absent" => fs[final[j]] = Absent
  BY <1>1 DEF Types, StagingTypeOK
<1>3. CASE Link(j)
  BY <1>2, <1>3 DEF Link, CanLink, LExists
<1>4. CASE Replace(j) /\ fs[final[j]].kind = "emptyDir"
  <2> DEFINE k == fs[final[j]].owner
  <2>1. k \in Empty /\ operation[k] = "extract"
    BY <1>1, <1>4 DEF EmptyIsExtracted
  <2>2. k \in Job
    BY <2>1, StagingAssumption
  <2>3. operation \in Operations /\ operation[j] = "extract"
    BY <1>4, ExecutorsAssumption DEF Replace, Creates, Types
  <2>4. final[j] \in Outputs(k)
    BY <1>1 DEF Outputs
  <2>5. CASE k = j
    <3>1. pc[j] = "publish" /\ status[j] = "none"
      BY <1>4 DEF Replace, Continue, Goto, StatusAtEnd
    <3>2. Outputs(j) = {}
      BY <3>1 DEF PublishedOnce
    <3>3. QED
      BY <2>4, <2>5, <3>2
  <2>6. CASE k # j
    <3>1. final[j] = final[k]
      BY <2>2, <2>4 DEF PublishedOnce
    <3>2. final[j] \in NamesOf(k) \cap NamesOf(j)
      BY <2>2, <3>1 DEF WithinNames
    <3>3. QED
      BY <2>1, <2>2, <2>3, <2>6, <3>2 DEF EmptyExtractionsApart
  <2>7. QED
    BY <2>5, <2>6
<1>5. QED
  BY <1>2, <1>3, <1>4 DEF Replace, CanReplace

(* So each path keeps its owner, unless nothing was there.                  *)
LEMMA OwnersStay ==
  ASSUME EmptyExtractionsApart, Types, WithinNames, StatusAtEnd, PublishedOnce, EmptyIsExtracted,
         [Next]_vars, NEW p \in Path, LExists(p)
  PROVE  LExists(p)' /\ fs'[p].owner = fs[p].owner
<1> USE DEF Types, StagingTypeOK, LExists
<1>1. ASSUME NEW j \in Job, Published(j)
      PROVE  LExists(p)' /\ fs'[p].owner = fs[p].owner
  <2>1. fs[final[j]] = Absent
    BY <1>1, TargetIsFree DEF Published
  <2>2. p # final[j]
    BY <2>1 DEF Absent
  <2>3. QED
    BY <1>1, <2>2 DEF Published
<1>2. ASSUME NEW j \in Job, Emptied(j)
      PROVE  LExists(p)' /\ fs'[p].owner = fs[p].owner
  BY <1>2 DEF Emptied, Entry
<1>3. ASSUME NEW q \in Path, NEW kind, ForeignCreates(q, kind)
      PROVE  LExists(p)' /\ fs'[p].owner = fs[p].owner
  BY <1>3 DEF ForeignCreates, Publish
<1>4. QED
  BY <1>1, <1>2, <1>3, ChangesOfOutputs

(* Every step keeps empty directories to the extraction that made them.     *)
LEMMA EmptyInductive ==
  ASSUME EmptyExtractionsApart, Types, WithinNames, StatusAtEnd, PublishedOnce,
         EmptyIsExtracted, [Next]_vars
  PROVE  EmptyIsExtracted'
<1> USE DEF Types, StagingTypeOK, EmptyIsExtracted
<1>1. UNCHANGED operation
  <2>1. ASSUME NEW j \in Job, Execute(j) PROVE UNCHANGED operation
    BY <2>1, ExecuteMoves DEF env
  <2>2. QED
    BY <2>1 DEF Next, Environment, Interrupt, ForeignCreates, SourceChanges,
                SourceUnusable, Disown, Ended, vars, env
<1>2. ASSUME NEW j \in Job, Published(j) PROVE EmptyIsExtracted'
  BY <1>1, <1>2 DEF Published
<1>3. ASSUME NEW j \in Job, Emptied(j) PROVE EmptyIsExtracted'
  <2>1. pc[j] = "cleanup" /\ operation[j] = "extract"
    BY <1>3, ExecutorsAssumption
       DEF Emptied, CleanupDirectory, Finish, Raise, Goto, Creates
  <2>2. final[j] \in Path /\ fs[final[j]].owner = j
    BY <2>1 DEF PublishedOnce, Outputs
  <2>3. /\ fs'[final[j]].owner = j
        /\ \A p \in Path : p # final[j] => fs'[p] = fs[p]
    BY <1>3, <2>2 DEF Emptied, Entry
  <2>4. j \in Empty
    BY <1>3 DEF Emptied
  <2>5. QED
    BY <1>1, <2>1, <2>2, <2>3, <2>4
<1>4. ASSUME NEW p \in Path, NEW kind \in ForeignKinds, ForeignCreates(p, kind)
      PROVE  EmptyIsExtracted'
  BY <1>1, <1>4 DEF ForeignCreates, Publish, EmptyExtractionsApart
<1>5. CASE UNCHANGED fs
  BY <1>1, <1>5
<1>6. QED
  BY <1>2, <1>3, <1>4, <1>5, ChangesOfOutputs

(* Who owns what changes at a publication only.                             *)
LEMMA OutputsStay ==
  ASSUME Types, [Next]_vars, NEW k \in Job,
         \A j \in Job : Link(j) \/ Replace(j) => FALSE
  PROVE  Outputs(k)' = Outputs(k)
<1> USE DEF Types, StagingTypeOK, Outputs
<1>1. ASSUME NEW j \in Job, Emptied(j) PROVE Outputs(k)' = Outputs(k)
  BY <1>1 DEF Emptied, Entry
<1>2. ASSUME NEW p \in Path, NEW kind, ForeignCreates(p, kind)
      PROVE  Outputs(k)' = Outputs(k)
  BY <1>2, StagingAssumption DEF ForeignCreates, Publish, LExists, Absent
<1>3. QED
  BY <1>1, <1>2, ChangesOfOutputs DEF Published

(* Every step keeps the entries a job owns equal to what it has published.  *)
LEMMA PublishedOnceInductive ==
  ASSUME EmptyExtractionsApart, Types, WithinNames, StatusAtEnd, PublishedOnce,
         EmptyIsExtracted, [Next]_vars
  PROVE  PublishedOnce'
<1>1. ASSUME NEW j \in Job, Link(j) \/ Replace(j) PROVE PublishedOnce'
  <2>1. Move(j)
    BY <1>1 DEF Move
  <2>2. /\ pc[j] = "publish" /\ status[j] = "none" /\ pc'[j] = "cleanup"
        /\ UNCHANGED final /\ final[j] \in Path
    BY <1>1, <2>1, MoveFrame DEF Link, Replace, Continue, Goto, Types
  <2>3. fs[final[j]] = Absent
    BY <1>1, TargetIsFree
  <2>4. /\ fs'[final[j]].owner = j
        /\ \A p \in Path : p # final[j] => fs'[p] = fs[p]
    BY <1>1, <2>2 DEF Link, Replace, Publish, Types, StagingTypeOK
  <2>5. Outputs(j) = {}
    BY <2>2 DEF PublishedOnce
  <2>6. Outputs(j)' = {final[j]}
    BY <2>2, <2>4, <2>5 DEF Outputs
  <2>7. ASSUME NEW k \in Job, k # j PROVE Outputs(k)' = Outputs(k)
    <3>1. fs[final[j]].owner # k
      BY <2>3, StagingAssumption DEF Absent
    <3>2. \A p \in Path : fs'[p].owner = k <=> fs[p].owner = k
      BY <2>4, <2>7, <3>1
    <3>3. QED
      BY <3>2 DEF Outputs
  <2>8. \A k \in Job : k # j => pc'[k] = pc[k] /\ status'[k] = status[k]
    BY <2>1, MoveFrame
  <2>9. QED
    BY <2>2, <2>6, <2>7, <2>8 DEF PublishedOnce
<1>2. ASSUME \A j \in Job : Link(j) \/ Replace(j) => FALSE,
             NEW j \in Job, Execute(j)
      PROVE  PublishedOnce'
  <2>1. Move(j) /\ ~Link(j) /\ ~Replace(j)
    BY <1>2, ExecuteMoves
  <2>2. /\ pc[j] # "done" /\ status[j] = "none" /\ pc'[j] # "cleanup"
        /\ \/ pc[j] = "cleanup" /\ status'[j] \in {"success", "raised"} /\ final'[j] = final[j]
           \/ pc[j] # "cleanup" /\ status'[j] # "success"
    <3>1. pc[j] # "done" /\ status[j] = "none"
      BY <2>1, MoveFrame
    <3> USE DEF Types, Continue, Goto, Finish, Raise
    <3>2. CASE Advance(j)
      BY <3>1, <3>2 DEF Advance, NextPoint
    <3>3. CASE GiveUp(j)
      BY <3>1, <3>3 DEF GiveUp
    <3>4. CASE Keep(j)
      BY <3>1, <3>4 DEF Keep, RetainAndFinish
    <3>5. CASE Stage(j) \/ Run(j) \/ Test(j) \/ ExtractRaises(j)
      BY <3>1, <3>5 DEF Stage, Run, Test, ExtractRaises
    <3>6. CASE CleanupArchive(j) \/ CleanupDirectory(j)
      BY <3>1, <3>6 DEF CleanupArchive, CleanupDirectory
    <3>7. QED
      BY <2>1, <3>2, <3>3, <3>4, <3>5, <3>6 DEF Move
  <2>3. Outputs(j) = IF pc[j] = "cleanup" THEN {final[j]} ELSE {}
    BY <2>2 DEF PublishedOnce
  <2>4. \A k \in Job : k # j => final'[k] = final[k] /\ pc'[k] = pc[k] /\ status'[k] = status[k]
    BY <2>1, MoveFrame
  <2>5. \A k \in Job : Outputs(k)' = Outputs(k)
    BY <1>2, OutputsStay
  <2>6. QED
    BY <2>2, <2>3, <2>4, <2>5 DEF PublishedOnce
<1>3. ASSUME \A j \in Job : Link(j) \/ Replace(j) => FALSE, UNCHANGED <<pc, status, final>>
      PROVE  PublishedOnce'
  <2>1. \A k \in Job : Outputs(k)' = Outputs(k)
    BY <1>3, OutputsStay
  <2>2. QED
    BY <1>3, <2>1 DEF PublishedOnce
<1>4. QED
  BY <1>1, <1>2, <1>3 DEF Next, Environment, Interrupt, ForeignCreates, SourceChanges,
                          SourceUnusable, Disown, Ended, vars, work
-----------------------------------------------------------------------------
Always == Types /\ StatusAtEnd /\ StagedWhileRun /\ StagingRetained

(* Four of the invariants need no hypothesis on the run.                    *)
LEMMA AlwaysInvariant == Spec => []Always
<1>1. Init => Always
  BY TypesInitially DEF Init, Always, StatusAtEnd, StagedWhileRun, StagingRetained
<1>2. Types /\ StagedWhileRun /\ [Next]_vars => Types'
  <2>1. ASSUME Types, UNCHANGED vars PROVE Types'
    BY <2>1 DEF Types, StagingTypeOK, vars, disk, env, work
  <2>2. QED
    BY <2>1, TypesOfExecute, TypesOfEnvironment DEF Next, Ended
<1>3. Always /\ [Next]_vars => Always'
  BY <1>2, StagedAndRetained DEF Always
<1>4. QED
  BY <1>1, <1>3, PTL DEF Spec

(* The types of the variables, and that a job has a status only at its end. *)
THEOREM TypeCorrect == Spec => []TypeOK
<1>1. Always => TypeOK
  BY DEF Always, Types, StatusAtEnd, TypeOK
<1>2. QED
  BY <1>1, AlwaysInvariant, PTL

(* retain() and finish() of both executors: whatever warns, fails or is     *)
(* interrupted, with any number of jobs, at any point and whatever other    *)
(* programs do, the record names where the staging directory is: an owned   *)
(* .failed, or a .tmp left because its marker is gone or because os.replace *)
(* failed, which the warnings of the record then say.  An execution that an *)
(* exception ends has no such record (run exec_uncaught_error).             *)
THEOREM RetainedAndReported == Spec => []StagingRetained
<1>1. Always => StagingRetained
  BY DEF Always
<1>2. QED
  BY <1>1, AlwaysInvariant, PTL

(* retain_staging, finalize_directory and cleanup_staging look at the       *)
(* marker first: no step of any job moves or removes a staging directory    *)
(* that has lost it, but for the call that publishes after its last look.   *)
THEOREM UnownedStays == Spec => UnownedUntouched
<1>1. ASSUME Always, [Next]_vars, NEW j \in Job, staging[j] = "tmp", ~owned[j], pc[j] # "publish"
      PROVE  staging'[j] = "tmp"
  <2>1. ASSUME NEW k \in Job, Execute(k) PROVE staging'[j] = "tmp"
    <3>1. Move(k)
      BY <1>1, <2>1, ExecuteMoves DEF Always
    <3>2. CASE k # j
      BY <1>1, <3>1, <3>2, MoveFrame DEF Always
    <3>3. CASE k = j
      BY <1>1, <3>1, <3>3 DEF Always, StagedWhileRun, Types, StagingTypeOK, Move,
         Advance, GiveUp,
         Keep, RetainAndFinish, Retain, CanRetain, Raise, Stage, Run, Test, ExtractRaises, Link,
         Replace, CleanupArchive, CleanupDirectory, Continue, Goto, disk
    <3>4. QED
      BY <3>2, <3>3
  <2>2. CASE UNCHANGED staging
    BY <1>1, <2>2
  <2>3. QED
    BY <1>1, <2>1, <2>2 DEF Next, Environment, Interrupt, ForeignCreates, SourceChanges,
       SourceUnusable, Disown, Ended, vars, disk
<1>2. Always /\ [Next]_vars =>
        [\A j \in Job : (staging[j] = "tmp" /\ ~owned[j] /\ pc[j] # "publish")
                          => staging'[j] = "tmp"]_vars
  BY <1>1
<1>3. QED
  BY <1>2, AlwaysInvariant, PTL DEF Spec, UnownedUntouched

(* Verdict of both executors: if no process dies of a signal from outside,  *)
(* nothing is published of which 7-Zip has not written everything. The      *)
(* hypothesis is needed: run exec_killed_process shows a negative return    *)
(* code taken for success.                                                  *)
THEOREM PublishedWhole ==
  ASSUME NoSignalDeaths
  PROVE  Spec => []PublishedIsWhole
<1> DEFINE Inv == WholeIsStaged /\ PublishedIsWhole
<1>1. Init => Inv
  BY StagingAssumption DEF Init, WholeIsStaged, PublishedIsWhole, Absent
<1>2. Always /\ Inv /\ [Next]_vars => Inv'
  BY WholeInductive, PublishedWholeInductive DEF Always
<1>3. QED
  BY <1>1, <1>2, AlwaysInvariant, PTL DEF Spec

(* The invariants about what the jobs have published.                       *)
LEMMA OutputsInvariant ==
  ASSUME EmptyExtractionsApart
  PROVE  Spec => [](WithinNames /\ PublishedOnce /\ EmptyIsExtracted)
<1>1. Init => WithinNames /\ PublishedOnce /\ EmptyIsExtracted
  BY StagingAssumption, NamesAreClosed
     DEF Init, WithinNames, PublishedOnce, EmptyIsExtracted, Outputs, Absent
<1>2. Always /\ WithinNames /\ PublishedOnce /\ EmptyIsExtracted /\ [Next]_vars
        => WithinNames' /\ PublishedOnce' /\ EmptyIsExtracted'
  BY NamesInductive, PublishedOnceInductive, EmptyInductive DEF Always
<1>3. QED
  BY <1>1, <1>2, AlwaysInvariant, PTL DEF Spec

(* If the extractions of empty archives have names of their own, a job that *)
(* execute_job reports as a success has its output, and no other job's, at  *)
(* the path its record names; one that it reports otherwise has none; and   *)
(* one that an exception ends has at most that one: os.link and os.replace  *)
(* publish nothing twice.  An exception of finish() may follow the          *)
(* publication (see FailureRetains), so that the last part cannot be        *)
(* sharpened.  The hypothesis is needed: in run exec_empty_directory two    *)
(* extractions share a name, and os.replace removes an output.              *)
THEOREM SuccessPublishes ==
  ASSUME EmptyExtractionsApart
  PROVE  Spec => []SuccessIsPublished
<1>1. Always /\ PublishedOnce => SuccessIsPublished
  BY DEF Always, StatusAtEnd, PublishedOnce, SuccessIsPublished
<1>2. QED
  BY <1>1, AlwaysInvariant, OutputsInvariant, PTL

(* Under the same hypothesis no step replaces or removes an entry at an     *)
(* output path, whoever made it and whenever it appeared between lexists    *)
(* and the call that publishes.                                             *)
THEOREM NothingOverwritten ==
  ASSUME EmptyExtractionsApart
  PROVE  Spec => NoOverwrite
<1>1. Always /\ WithinNames /\ PublishedOnce /\ EmptyIsExtracted /\ [Next]_vars =>
        [\A p \in Path : LExists(p) => LExists(p)' /\ fs'[p].owner = fs[p].owner]_vars
  BY OwnersStay DEF Always
<1>2. QED
  BY <1>1, AlwaysInvariant, OutputsInvariant, PTL DEF Spec, NoOverwrite
=============================================================================
