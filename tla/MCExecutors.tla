----------------------------- MODULE MCExecutors -----------------------------
(* Instances of Executors for TLC: two jobs, one of which wants the path    *)
(* that the other is given when its own is taken.                           *)
EXTENDS Executors, TLC

CONSTANTS j1, j2,
          o,         (* desired by j1                                       *)
          o2,        (* "o (2)", desired by j2                              *)
          o3,        (* "o (3)"                                             *)
          o22, o23   (* "o (2) (2)", "o (2) (3)"                            *)

MCCandidates ==
    (o :> <<o, o2, o3>>) @@ (o2 :> <<o2, o22, o23>>) @@ (o3 :> <<o3>>)
    @@ (o22 :> <<o22>>) @@ (o23 :> <<o23>>)

MCDesired == (j1 :> o) @@ (j2 :> o2)

MCOperations ==
    [{j1, j2} -> {"create", "extract"}] \ {(j1 :> "extract") @@ (j2 :> "extract")}
MCExtractions == {(j1 :> "extract") @@ (j2 :> "extract")}
MCMixed == {(j1 :> "create") @@ (j2 :> "extract")}

(* 0, warning, fatal error; and a process killed by a signal from outside   *)
MCCodes == {0, 1, 2}
MCCodesKilled == {0, 1, 2, -9}
=============================================================================
