------------------------------ MODULE MCRunner ------------------------------
(* Instances of Runner for TLC: three jobs of a mixed v1/v2 manifest, whose *)
(* plan order 2, 1, 3 differs from the order in which they are scheduled.   *)
EXTENDS Runner

MCPriority    == <<0, 0, 1>>
MCProfileRank == <<2, 2, 2>>
MCWeight      == <<1, 2, 1>>
MCPlanIndex   == <<1, 0, 1>>
MCCpuTokens   == <<1, 2, 1>>
MCIoTokens    == <<1, 1, 1>>
(* 2 fits the configured I/O slots, and not the one slot of a small batch   *)
SmallBatchIoTokens == <<1, 2, 1>>
MCSchema      == <<2, 1, 2>>
MCSourceSize  == <<2, 1, 3>>
=============================================================================
