----------------------------- MODULE MCSevenZip -----------------------------
(* Instances of SevenZip for TLC: a create job (create, then test), and an  *)
(* extract job whose process may ignore SIGTERM.                            *)
EXTENDS SevenZip, TLC

CONSTANTS create, extract

MCCalls == (create :> 2) @@ (extract :> 1)
=============================================================================
