---------------------------- MODULE CostControl ----------------------------
(***************************************************************************)
(* CostMiddleware (middleware/cost.py) in the processors of all workers:   *)
(* each worker's spending in memory and the total in Redis, both looked at *)
(* before a run and added to after it, with other runs in between.         *)
(*                                                                         *)
(* Amounts are natural numbers up to MaxCost.  Alerts, which only call     *)
(* back, are left out.  A run that raised has no result and is charged     *)
(* nothing, whatever its CLI has spent.                                    *)
(***************************************************************************)
EXTENDS Integers, FiniteSets

CONSTANTS
  Agent,        \* processors, each runs one task at a time
  Host,         \* workers
  HostOf,       \* HostOf[a]: the worker of processor a
  MaxCost,      \* the most a run reports
  HostBudget,   \* worker_budget_usd
  TotalBudget   \* global_budget_usd

ASSUME AgentAssumption == IsFiniteSet(Agent)

ASSUME HostOfAssumption == HostOf \in [Agent -> Host]

ASSUME AmountAssumption ==
  MaxCost \in Nat /\ HostBudget \in Nat \ {0} /\ TotalBudget \in Nat \ {0}

VARIABLES
  at,      \* at[a]: how far the processor's task is
  amount,  \* amount[a]: the cost on its way to Redis
  spent,   \* spent[h]: _worker_spent
  total    \* {ns}:cost:total

costVars == <<at, amount, spent, total>>

CostTypeOK ==
  /\ at \in [Agent -> {"idle", "asking", "running", "charging"}]
  /\ amount \in [Agent -> 0 .. MaxCost]
  /\ spent \in [Host -> Nat]
  /\ total \in Nat

CostInit ==
  /\ at = [a \in Agent |-> "idle"]
  /\ amount = [a \in Agent |-> 0]
  /\ spent = [h \in Host |-> 0]
  /\ total = 0

\* Faulty variant: a budget spent exactly lets one more run pass.
WithinHostBudgetLoosely(a) == spent[HostOf[a]] <= HostBudget

\* before_process, stage 1, lets the task pass.
WithinHostBudget(a) == spent[HostOf[a]] < HostBudget

\* A task that stage 1 lets pass asks Redis for the total; one that it
\* stops raises BudgetExceededError, and the processor is free again.
AskTotal(a) ==
  /\ at[a] = "idle" /\ WithinHostBudget(a)
  /\ at' = [at EXCEPT ![a] = "asking"]
  /\ UNCHANGED <<amount, spent, total>>

\* Faulty variant: the budget may be reached exactly.
WithinTotalLoosely(t) == t <= TotalBudget

\* before_process, stage 2, lets the task pass.
WithinTotal(t) == t < TotalBudget

\* Redis answers: the task runs, or BudgetExceededError is raised.
TotalAnswered(a) ==
  /\ at[a] = "asking"
  /\ at' = [at EXCEPT ![a] = IF WithinTotal(total) THEN "running" ELSE "idle"]
  /\ UNCHANGED <<amount, spent, total>>

\* Redis does not answer: the hook raises and the task fails.
TotalUnknown(a) ==
  /\ at[a] = "asking"
  /\ at' = [at EXCEPT ![a] = "idle"]
  /\ UNCHANGED <<amount, spent, total>>

\* after_process of a run with a usage: charged to the worker at once, on
\* its way to Redis.
Charge(a, c) ==
  /\ at[a] = "running"
  /\ spent' = [spent EXCEPT ![HostOf[a]] = @ + c]
  /\ amount' = [amount EXCEPT ![a] = c]
  /\ at' = [at EXCEPT ![a] = "charging"]
  /\ UNCHANGED total

\* after_process of a run that raised or reported no usage.
ChargeNothing(a) ==
  /\ at[a] = "running"
  /\ at' = [at EXCEPT ![a] = "idle"]
  /\ UNCHANGED <<amount, spent, total>>

\* INCRBYFLOAT is executed (its answer may be lost).
IncrCost(a) ==
  /\ at[a] = "charging"
  /\ total' = total + amount[a]
  /\ amount' = [amount EXCEPT ![a] = 0]
  /\ at' = [at EXCEPT ![a] = "idle"]
  /\ UNCHANGED spent

\* INCRBYFLOAT is not executed: the chain logs it and goes on.
IncrFails(a) ==
  /\ at[a] = "charging"
  /\ amount' = [amount EXCEPT ![a] = 0]
  /\ at' = [at EXCEPT ![a] = "idle"]
  /\ UNCHANGED <<spent, total>>

CostStep(a) ==
  \/ AskTotal(a) \/ TotalAnswered(a) \/ TotalUnknown(a)
  \/ (\E c \in 0 .. MaxCost : Charge(a, c))
  \/ ChargeNothing(a) \/ IncrCost(a) \/ IncrFails(a)

CostNext == \E a \in Agent : CostStep(a)

CostSpec == CostInit /\ [][CostNext]_costVars

-----------------------------------------------------------------------------
(* Properties. *)

\* The tasks of h that passed stage 1 and are not charged yet.
Admitted(h) == {a \in Agent : HostOf[a] = h /\ at[a] \in {"asking", "running"}}

\* The tasks that passed stage 2 and have not reached the total yet.
Cleared == {a \in Agent : at[a] \in {"running", "charging"}}

AgentsOf(h) == {a \in Agent : HostOf[a] = h}

\* A worker passes its budget by less than one run of every processor: all
\* of them may have been admitted just below the budget.
HostOverspend ==
  \A h \in Host :
    spent[h] < HostBudget + Cardinality(AgentsOf(h)) * MaxCost

\* All workers together pass the global budget by less than one run of
\* every processor, although the total is read before a run and added to
\* after it, and lost increments never make it larger.
TotalOverspend == total < TotalBudget + Cardinality(Agent) * MaxCost

=============================================================================
