---------------------------- MODULE JobLifecycle ----------------------------
(***************************************************************************)
(* What a run of the resource scheduler promises, with nothing said of how *)
(* it chooses: a job runs at most once, jobs run together only where the   *)
(* budgets allow these jobs together, and a job that was started finishes. *)
(***************************************************************************)
CONSTANTS Job,
          Allowed(_)   (* may the jobs of this set run at the same time?   *)

VARIABLE phase

Init == phase = [j \in Job |-> "waiting"]

InPhase(p) == {j \in Job : phase[j] = p}

Start(j) ==
    /\ phase[j] = "waiting"
    /\ Allowed(InPhase("running") \union {j})
    /\ phase' = [phase EXCEPT ![j] = "running"]

Finish(j) ==
    /\ phase[j] = "running"
    /\ phase' = [phase EXCEPT ![j] = "finished"]

Next == \E j \in Job : Start(j) \/ Finish(j)

SafetySpec == Init /\ [][Next]_phase

Spec == SafetySpec /\ \A j \in Job : WF_phase(Finish(j))
=============================================================================
