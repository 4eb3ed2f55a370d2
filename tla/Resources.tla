------------------------------ MODULE Resources ------------------------------
(***************************************************************************)
(* The jobs of one run and the three budgets they share: CPU tokens, I/O   *)
(* slots and processes (scheduler.py, ScheduledJob and the constructor of  *)
(* ResourceScheduler).  A job is its position in the list given to run().  *)
(***************************************************************************)
EXTENDS Integers, FiniteSets

CONSTANTS N,             (* the number of jobs                             *)
          CpuTokens,     (* cpu_tokens of each job                         *)
          IoTokens,      (* io_tokens of each job                          *)
          CpuBudget,     (* cpu_budget: CPU tokens in all                  *)
          IoSlots,       (* io_slots: I/O tokens in all                    *)
          MaxProcesses   (* max_processes: jobs that may run at once       *)

Job == 1..N

(* manifest.py accepts positive tokens only, and the constructor of         *)
(* ResourceScheduler raises ValueError unless every budget is at least 1.   *)
ASSUME ResourcesAssumption ==
    /\ N \in Nat
    /\ CpuTokens \in [Job -> Nat \ {0}]
    /\ IoTokens \in [Job -> Nat \ {0}]
    /\ CpuBudget \in Nat \ {0}
    /\ IoSlots \in Nat \ {0}
    /\ MaxProcesses \in Nat \ {0}
-----------------------------------------------------------------------------
(* The tokens a set of jobs takes together, one pair <<j, k>> per token k   *)
(* of job j: the sum of a function over a set, counted as a cardinality.    *)
Units(tokens, S) == UNION {{j} \X (1..tokens[j]) : j \in S}
Cost(tokens, S) == Cardinality(Units(tokens, S))

(* What the three budgets allow to run at the same time.                    *)
WithinBudgets(S) ==
    /\ Cost(CpuTokens, S) =< CpuBudget
    /\ Cost(IoTokens, S) =< IoSlots
    /\ Cardinality(S) =< MaxProcesses
=============================================================================
