---------------------------- MODULE MCScheduler ----------------------------
(* Instances of Scheduler for TLC: four jobs whose sort order 2, 3, 1, 4 is *)
(* not their input order: by priority, then profile, weight and, for 1 and  *)
(* 4, position in the input.                                                *)
EXTENDS Scheduler

MCPriority    == <<0, 1, 0, 0>>
MCProfileRank == <<2, 2, 0, 2>>
MCWeight      == <<1, 1, 1, 1>>
MCPlanIndex   == <<0, 0, 0, 0>>

(* 2 starts; 3 needs both CPU tokens and 1 more I/O slots than 2 leaves, so *)
(* that 4 backfills behind both, and 1 beside 4, until 3 is aged.  1 and 4  *)
(* fit together, so that the last two jobs may also end in either order.    *)
MCCpuTokens == <<1, 1, 2, 1>>
MCIoTokens  == <<2, 2, 1, 1>>
=============================================================================
