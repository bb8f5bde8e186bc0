--------------------------- MODULE ServiceProofs ---------------------------
(***************************************************************************)
(* Proofs about the parts around the task system, for any number of        *)
(* workers, processors and tasks and any amounts: the budgets              *)
(* (CostControl), the order of a queue (QueueOrder), the rate limit        *)
(* (RateLimit) and the registry of workers (WorkerRegistry).               *)
(***************************************************************************)
EXTENDS ClientProofs, MCServices, SequenceTheorems

-----------------------------------------------------------------------------
(* CostControl: how far the budgets can be passed.                         *)
(*                                                                         *)
(* The bound is inductive once the runs that are still to be charged are   *)
(* counted with the most they may cost: a task is admitted only below the  *)
(* budget, and what it reports then is paid out of its own reserve.        *)

\* What the tasks of S may still cost.
Reserve(S) == Cardinality(S) * MaxCost

\* What is spent and may still be spent stays below the largest overspend.
TotalCovered ==
  total + Reserve(Cleared) <= TotalBudget - 1 + Reserve(Agent)

\* The same for the budget of one worker.
HostCovered(h) ==
  spent[h] + Reserve(Admitted(h)) <= HostBudget - 1 + Reserve(AgentsOf(h))

\* The inductive invariant.
Covered ==
  /\ CostTypeOK
  /\ TotalCovered
  /\ \A h \in Host : HostCovered(h)

-----------------------------------------------------------------------------
(* Arithmetic of reserves. *)

\* A larger number of tasks may cost more.
LEMMA TimesMonotone ==
  ASSUME NEW c \in Nat, NEW m \in Nat, NEW n \in Nat, m <= n
  PROVE  m * c \in Nat /\ m * c <= n * c
<1> DEFINE d == n - m
<1>1. d \in Nat /\ n = m + d
  OBVIOUS
<1>2. n * c = m * c + d * c
  BY <1>1
<1>3. m * c \in Nat /\ d * c \in Nat
  BY <1>1
<1> QED
  BY <1>2, <1>3

\* The reserve of fewer tasks is smaller.
LEMMA ReserveMonotone ==
  ASSUME NEW T \in SUBSET Agent, NEW S \in SUBSET T
  PROVE  Reserve(S) \in Nat /\ Reserve(S) <= Reserve(T)
<1>1. IsFiniteSet(T)
  BY AgentAssumption, FS_Subset
<1>2. /\ Cardinality(S) \in Nat /\ Cardinality(T) \in Nat
      /\ Cardinality(S) <= Cardinality(T)
  BY <1>1, FS_Subset, FS_CardinalityType
<1>3. MaxCost \in Nat
  BY AmountAssumption
<1> QED
  BY <1>2, <1>3, TimesMonotone DEF Reserve

\* A task admitted adds the most it may cost.
LEMMA ReserveAdd ==
  ASSUME NEW S \in SUBSET Agent, NEW a \in Agent \ S
  PROVE  Reserve(S \cup {a}) = Reserve(S) + MaxCost
<1>1. IsFiniteSet(S)
  BY AgentAssumption, FS_Subset
<1>2. /\ Cardinality(S \cup {a}) = Cardinality(S) + 1
      /\ Cardinality(S) \in Nat
  BY <1>1, FS_AddElement, FS_CardinalityType
<1>3. (Cardinality(S) + 1) * MaxCost = Cardinality(S) * MaxCost + MaxCost
  BY <1>2, AmountAssumption
<1> QED
  BY <1>2, <1>3 DEF Reserve

\* A task charged frees as much.
LEMMA ReserveRemove ==
  ASSUME NEW S \in SUBSET Agent, NEW a \in S
  PROVE  Reserve(S) = Reserve(S \ {a}) + MaxCost
<1>1. a \in Agent \ (S \ {a}) /\ S \ {a} \in SUBSET Agent
  OBVIOUS
<1>2. (S \ {a}) \cup {a} = S
  OBVIOUS
<1> QED
  BY <1>1, <1>2, ReserveAdd

-----------------------------------------------------------------------------
(* Type correctness. *)

\* Amounts, spendings and the total stay natural numbers.
LEMMA CostTypeStep ==
  ASSUME CostTypeOK, NEW a \in Agent, CostStep(a)
  PROVE  CostTypeOK'
<1>1. HostOf[a] \in Host /\ MaxCost \in Nat
  BY HostOfAssumption, AmountAssumption
<1>2. 0 \in 0 .. MaxCost
  BY <1>1
<1>3. CASE AskTotal(a)
  BY <1>3 DEF AskTotal, CostTypeOK
<1>4. CASE TotalAnswered(a)
  BY <1>4 DEF TotalAnswered, CostTypeOK
<1>5. CASE TotalUnknown(a)
  BY <1>5 DEF TotalUnknown, CostTypeOK
<1>6. CASE \E c \in 0 .. MaxCost : Charge(a, c)
  <2>1. PICK c \in 0 .. MaxCost : Charge(a, c)
    BY <1>6
  <2>2. spent[HostOf[a]] + c \in Nat
    BY <1>1, <2>1 DEF CostTypeOK
  <2> QED
    BY <1>1, <2>1, <2>2 DEF Charge, CostTypeOK
<1>7. CASE ChargeNothing(a)
  BY <1>7 DEF ChargeNothing, CostTypeOK
<1>8. CASE IncrCost(a)
  <2>1. total + amount[a] \in Nat
    BY <1>1 DEF CostTypeOK
  <2> QED
    BY <1>2, <1>8, <2>1 DEF IncrCost, CostTypeOK
<1>9. CASE IncrFails(a)
  BY <1>2, <1>9 DEF IncrFails, CostTypeOK
<1> QED
  BY <1>3, <1>4, <1>5, <1>6, <1>7, <1>8, <1>9 DEF CostStep

-----------------------------------------------------------------------------
(* The global budget. *)

\* Numbers of the invariant.
LEMMA TotalNumbers ==
  ASSUME CostTypeOK
  PROVE  /\ total \in Nat /\ TotalBudget \in Nat \ {0} /\ MaxCost \in Nat
         /\ Reserve(Cleared) \in Nat /\ Reserve(Agent) \in Nat
         /\ Reserve(Cleared) <= Reserve(Agent)
<1>1. Cleared \in SUBSET Agent
  BY DEF Cleared
<1> QED
  BY <1>1, ReserveMonotone, AmountAssumption DEF CostTypeOK

\* A step of a keeps the total and the runs it cleared below the bound.
LEMMA TotalStep ==
  ASSUME CostTypeOK, CostTypeOK', TotalCovered, NEW a \in Agent, CostStep(a)
  PROVE  TotalCovered'
<1>1. CASE total' = total /\ Cleared' \in SUBSET Cleared
  <2>1. Cleared \in SUBSET Agent
    BY DEF Cleared
  <2>2. Reserve(Cleared') <= Reserve(Cleared) /\ Reserve(Cleared') \in Nat
    BY <1>1, <2>1, ReserveMonotone
  <2> QED
    BY <1>1, <2>2, TotalNumbers DEF TotalCovered, Reserve
<1>2. CASE total <= TotalBudget - 1 /\ total' = total
  <2>1. Cleared' \in SUBSET Agent
    BY DEF Cleared
  <2>2. Reserve(Cleared') <= Reserve(Agent) /\ Reserve(Cleared') \in Nat
    BY <2>1, ReserveMonotone
  <2> QED
    BY <1>2, <2>2, TotalNumbers DEF TotalCovered, Reserve
<1>3. CASE IncrCost(a)
  <2>1. a \in Cleared /\ Cleared' = Cleared \ {a}
    BY <1>3 DEF IncrCost, Cleared, CostTypeOK
  <2>2. Cleared \in SUBSET Agent
    BY DEF Cleared
  <2>3. Reserve(Cleared) = Reserve(Cleared') + MaxCost
    BY <2>1, <2>2, ReserveRemove
  <2>4. Reserve(Cleared') \in Nat
    BY <2>1, <2>2, ReserveMonotone
  <2>5. total' = total + amount[a] /\ amount[a] \in 0 .. MaxCost
    BY <1>3 DEF IncrCost, CostTypeOK
  <2> QED
    BY <2>3, <2>4, <2>5, TotalNumbers DEF TotalCovered, Reserve
<1>4. CASE AskTotal(a)
  BY <1>1, <1>4 DEF AskTotal, Cleared, CostTypeOK
<1>5. CASE TotalAnswered(a)
  <2>1. CASE WithinTotal(total)
    <3>1. total <= TotalBudget - 1
      BY <2>1, TotalNumbers DEF WithinTotal
    <3> QED
      BY <1>2, <1>5, <3>1 DEF TotalAnswered
  <2>2. CASE ~WithinTotal(total)
    BY <1>1, <1>5, <2>2 DEF TotalAnswered, Cleared, CostTypeOK
  <2> QED
    BY <2>1, <2>2
<1>6. CASE TotalUnknown(a)
  BY <1>1, <1>6 DEF TotalUnknown, Cleared, CostTypeOK
<1>7. CASE \E c \in 0 .. MaxCost : Charge(a, c)
  <2>1. PICK c \in 0 .. MaxCost : Charge(a, c)
    BY <1>7
  <2> QED
    BY <1>1, <2>1 DEF Charge, Cleared, CostTypeOK
<1>8. CASE ChargeNothing(a)
  BY <1>1, <1>8 DEF ChargeNothing, Cleared, CostTypeOK
<1>9. CASE IncrFails(a)
  BY <1>1, <1>9 DEF IncrFails, Cleared, CostTypeOK
<1> QED
  BY <1>3, <1>4, <1>5, <1>6, <1>7, <1>8, <1>9 DEF CostStep

-----------------------------------------------------------------------------
(* The budget of a worker. *)

\* Numbers of the invariant.
LEMMA HostNumbers ==
  ASSUME CostTypeOK, NEW h \in Host
  PROVE  /\ spent[h] \in Nat /\ HostBudget \in Nat \ {0} /\ MaxCost \in Nat
         /\ AgentsOf(h) \in SUBSET Agent /\ Admitted(h) \in SUBSET AgentsOf(h)
         /\ Reserve(Admitted(h)) \in Nat /\ Reserve(AgentsOf(h)) \in Nat
         /\ Reserve(Admitted(h)) <= Reserve(AgentsOf(h))
<1>1. AgentsOf(h) \in SUBSET Agent /\ Admitted(h) \in SUBSET AgentsOf(h)
  BY DEF AgentsOf, Admitted
<1> QED
  BY <1>1, ReserveMonotone, AmountAssumption DEF CostTypeOK

\* A step of a keeps the spending of h and the tasks it admitted below the
\* bound.
LEMMA HostStep ==
  ASSUME CostTypeOK, CostTypeOK', NEW h \in Host, HostCovered(h),
         NEW a \in Agent, CostStep(a)
  PROVE  HostCovered(h)'
<1> USE HostNumbers
<1>1. AgentsOf(h)' = AgentsOf(h) /\ Reserve(AgentsOf(h))' = Reserve(AgentsOf(h))
  BY DEF AgentsOf, Reserve
<1>2. CASE spent'[h] = spent[h] /\ Admitted(h)' \in SUBSET Admitted(h)
  <2>1. /\ Reserve(Admitted(h)') <= Reserve(Admitted(h))
        /\ Reserve(Admitted(h)') \in Nat
    BY <1>2, ReserveMonotone
  <2> QED
    BY <1>1, <1>2, <2>1 DEF HostCovered, Reserve
<1>3. CASE spent[h] <= HostBudget - 1 /\ spent'[h] = spent[h]
  <2>1. Admitted(h)' \in SUBSET AgentsOf(h)
    BY DEF Admitted, AgentsOf
  <2>2. /\ Reserve(Admitted(h)') <= Reserve(AgentsOf(h))
        /\ Reserve(Admitted(h)') \in Nat
    BY <2>1, ReserveMonotone
  <2> QED
    BY <1>1, <1>3, <2>2 DEF HostCovered, Reserve
<1>4. CASE AskTotal(a)
  <2>1. CASE HostOf[a] = h
    <3>1. spent[h] <= HostBudget - 1 /\ spent' = spent
      BY <1>4, <2>1 DEF AskTotal, WithinHostBudget
    <3> QED
      BY <1>3, <3>1
  <2>2. CASE HostOf[a] # h
    BY <1>2, <1>4, <2>2 DEF AskTotal, Admitted, CostTypeOK
  <2> QED
    BY <2>1, <2>2
<1>5. CASE TotalAnswered(a)
  BY <1>2, <1>5 DEF TotalAnswered, Admitted, CostTypeOK
<1>6. CASE TotalUnknown(a)
  BY <1>2, <1>6 DEF TotalUnknown, Admitted, CostTypeOK
<1>7. CASE \E c \in 0 .. MaxCost : Charge(a, c)
  <2>1. PICK c \in 0 .. MaxCost : Charge(a, c)
    BY <1>7
  <2>2. CASE HostOf[a] # h
    BY <1>2, <2>1, <2>2 DEF Charge, Admitted, CostTypeOK
  <2>3. CASE HostOf[a] = h
    <3>1. a \in Admitted(h) /\ Admitted(h)' = Admitted(h) \ {a}
      BY <2>1, <2>3 DEF Charge, Admitted, CostTypeOK
    <3>2. Admitted(h) \in SUBSET Agent
      BY DEF Admitted
    <3>3. Reserve(Admitted(h)) = Reserve(Admitted(h)') + MaxCost
      BY <3>1, <3>2, ReserveRemove
    <3>4. Reserve(Admitted(h)') \in Nat
      BY <3>1, <3>2, ReserveMonotone
    <3>5. spent'[h] = spent[h] + c
      BY <2>1, <2>3 DEF Charge, CostTypeOK
    <3> QED
      BY <1>1, <3>3, <3>4, <3>5 DEF HostCovered, Reserve
  <2> QED
    BY <2>2, <2>3
<1>8. CASE ChargeNothing(a)
  BY <1>2, <1>8 DEF ChargeNothing, Admitted, CostTypeOK
<1>9. CASE IncrCost(a)
  BY <1>2, <1>9 DEF IncrCost, Admitted, CostTypeOK
<1>10. CASE IncrFails(a)
  BY <1>2, <1>10 DEF IncrFails, Admitted, CostTypeOK
<1> QED
  BY <1>4, <1>5, <1>6, <1>7, <1>8, <1>9, <1>10 DEF CostStep

-----------------------------------------------------------------------------
(* The invariant. *)

\* Nothing is spent and nothing admitted at the start.
LEMMA CoveredInit ==
  CostInit => Covered
<1> SUFFICES ASSUME CostInit PROVE Covered
  OBVIOUS
<1>1. CostTypeOK
  BY AmountAssumption DEF CostInit, CostTypeOK
<1>2. TotalCovered
  <2>1. total = 0 /\ Cleared = {}
    BY DEF CostInit, Cleared
  <2>2. Reserve(Cleared) = 0
    BY <2>1, FS_EmptySet, AmountAssumption DEF Reserve
  <2> QED
    BY <1>1, <2>1, <2>2, TotalNumbers DEF TotalCovered
<1>3. ASSUME NEW h \in Host PROVE HostCovered(h)
  <2>1. spent[h] = 0 /\ Admitted(h) = {}
    BY DEF CostInit, Admitted
  <2>2. Reserve(Admitted(h)) = 0
    BY <2>1, FS_EmptySet, AmountAssumption DEF Reserve
  <2> QED
    BY <1>1, <2>1, <2>2, HostNumbers DEF HostCovered
<1> QED
  BY <1>1, <1>2, <1>3 DEF Covered

\* Every step keeps it.
LEMMA CoveredStep ==
  Covered /\ [CostNext]_costVars => Covered'
<1> SUFFICES ASSUME Covered, [CostNext]_costVars PROVE Covered'
  OBVIOUS
<1>1. CASE CostNext
  <2>1. PICK a \in Agent : CostStep(a)
    BY <1>1 DEF CostNext
  <2>2. CostTypeOK'
    BY <2>1, CostTypeStep DEF Covered
  <2>3. TotalCovered'
    BY <2>1, <2>2, TotalStep DEF Covered
  <2>4. ASSUME NEW h \in Host PROVE HostCovered(h)'
    BY <2>1, <2>2, HostStep DEF Covered
  <2> QED
    BY <2>2, <2>3, <2>4 DEF Covered
<1>2. CASE UNCHANGED costVars
  BY <1>2 DEF costVars, Covered, CostTypeOK, TotalCovered, HostCovered, Cleared,
              Admitted, AgentsOf, Reserve
<1> QED
  BY <1>1, <1>2

\* It bounds what is spent.
LEMMA CoveredBounds ==
  Covered => CostTypeOK /\ TotalOverspend /\ HostOverspend
<1> SUFFICES ASSUME Covered PROVE CostTypeOK /\ TotalOverspend /\ HostOverspend
  OBVIOUS
<1>1. TotalOverspend
  BY TotalNumbers DEF Covered, TotalCovered, TotalOverspend, Reserve
<1>2. HostOverspend
  BY HostNumbers DEF Covered, HostCovered, HostOverspend, Reserve
<1> QED
  BY <1>1, <1>2 DEF Covered

\* CostMiddleware in any number of processors never lets the global budget
\* be passed by as much as one run of each of them.
THEOREM TotalOverspendTheorem == CostSpec => []TotalOverspend
  BY CoveredInit, CoveredStep, CoveredBounds, PTL DEF CostSpec

\* Nor a worker's budget by as much as one run of each of its processors.
THEOREM HostOverspendTheorem == CostSpec => []HostOverspend
  BY CoveredInit, CoveredStep, CoveredBounds, PTL DEF CostSpec

-----------------------------------------------------------------------------
(* QueueOrder: pops keep the order of the queue.  The invariant relates    *)
(* the score an id is queued with to the history: the priority it was      *)
(* computed from, and a time that was read before the script was executed. *)

\* The history says what the scores are.
ScoresExplained ==
  /\ OrderTypeOK
  /\ \A t \in Ticket :
       /\ score[t].time <= clock
       /\ place[t] \in {"calling", "returning", "queued"} =>
            score[t].priority = level[t]
       /\ place[t] = "queued" => score[t].time <= entered[t]

\* A step changes the place, score and history of a single ticket.
LEMMA ScoredStep ==
  ASSUME ScoresExplained, NEW t \in Ticket, NEW p \in {High, Normal, Low},
         NEW now \in 0 .. clock,
         place' \in [Ticket -> {"new", "calling", "returning", "queued",
                                "delayed", "active"}],
         score' = [score EXCEPT ![t] = [priority |-> p, time |-> now]],
         level' = [level EXCEPT ![t] = p],
         \A u \in Ticket \ {t} : place'[u] = place[u],
         \/ place'[t] # "queued" /\ entered' = entered
         \/ entered' = [entered EXCEPT ![t] = clock],
         UNCHANGED <<clock, priority>>
  PROVE  ScoresExplained'
<1> DEFINE s == [priority |-> p, time |-> now]
<1>0. clock \in 0 .. MaxTime /\ now \in 0 .. MaxTime /\ now <= clock
  BY MaxTimeAssumption DEF ScoresExplained, OrderTypeOK
<1>1. s \in [priority : {High, Normal, Low}, time : 0 .. MaxTime]
  BY <1>0
<1>2. s.priority = p /\ s.time = now
  OBVIOUS
<1>3. score'[t] = s /\ level'[t] = p
  BY DEF ScoresExplained, OrderTypeOK
<1>4. \A u \in Ticket \ {t} : score'[u] = score[u] /\ level'[u] = level[u]
  BY DEF ScoresExplained, OrderTypeOK
<1>6. OrderTypeOK'
  BY <1>0, <1>1 DEF ScoresExplained, OrderTypeOK
<1>7. entered' \in [Ticket -> 0 .. MaxTime]
  BY <1>6 DEF OrderTypeOK
<1>8. \A u \in Ticket \ {t} : entered'[u] = entered[u]
  BY DEF ScoresExplained, OrderTypeOK
<1>9. place'[t] = "queued" => entered'[t] = clock
  BY DEF ScoresExplained, OrderTypeOK
<1>10. ASSUME NEW u \in Ticket
       PROVE  /\ score'[u].time <= clock
              /\ place'[u] \in {"calling", "returning", "queued"} =>
                   score'[u].priority = level'[u]
              /\ place'[u] = "queued" => score'[u].time <= entered'[u]
  <2>1. CASE u = t
    BY <1>0, <1>2, <1>3, <1>9, <2>1
  <2>2. CASE u # t
    BY <1>4, <1>8, <2>2 DEF ScoresExplained
  <2> QED
    BY <2>1, <2>2
<1> QED
  BY <1>6, <1>10 DEF ScoresExplained

\* Nothing is queued at the start.
LEMMA ScoresExplainedInit ==
  OrderInit => ScoresExplained
BY MaxTimeAssumption DEF OrderInit, ScoresExplained, OrderTypeOK, High, Normal,
                         Low

\* Every step keeps the invariant.
LEMMA ScoresExplainedStep ==
  ScoresExplained /\ [OrderNext]_orderVars => ScoresExplained'
<1> SUFFICES ASSUME ScoresExplained, [OrderNext]_orderVars
             PROVE  ScoresExplained'
  OBVIOUS
<1>1. CASE ClockTicks
  <2>1. clock' \in 0 .. MaxTime /\ clock \in Nat /\ clock' = clock + 1
    BY <1>1, MaxTimeAssumption DEF ClockTicks, ScoresExplained, OrderTypeOK
  <2>2. \A t \in Ticket : score[t].time \in Nat
    BY MaxTimeAssumption DEF ScoresExplained, OrderTypeOK
  <2>3. \A t \in Ticket : score[t].time <= clock'
    BY <2>1, <2>2 DEF ScoresExplained
  <2> QED
    BY <1>1, <2>1, <2>3 DEF ClockTicks, ScoresExplained, OrderTypeOK
<1>2. ASSUME NEW t \in Ticket, EnqueueCall(t) PROVE ScoresExplained'
  <2>1. priority[t] \in {High, Normal, Low} /\ clock \in 0 .. clock
    BY MaxTimeAssumption DEF ScoresExplained, OrderTypeOK
  <2> QED
    BY <1>2, <2>1, ScoredStep
    DEF EnqueueCall, CallScored, Score, ScoresExplained, OrderTypeOK
<1>3. ASSUME NEW t \in Ticket, RequeueCall(t) PROVE ScoresExplained'
  <2>1. priority[t] \in {High, Normal, Low} /\ clock \in 0 .. clock
    BY MaxTimeAssumption DEF ScoresExplained, OrderTypeOK
  <2> QED
    BY <1>3, <2>1, ScoredStep
    DEF RequeueCall, CallScored, Score, ScoresExplained, OrderTypeOK
<1>4. ASSUME NEW t \in Ticket, NEW from, Demote(t, from)
      PROVE  ScoresExplained'
  <2>1. PICK now \in 0 .. clock :
          score' = [score EXCEPT ![t] = [priority |-> Normal, time |-> now]]
    BY <1>4 DEF Demote
  <2> QED
    BY <1>4, <2>1, ScoredStep DEF Demote, ScoresExplained, OrderTypeOK
<1>5. ASSUME NEW t \in Ticket, PromoteNormal(t) \/ ReapNormal(t)
      PROVE  ScoresExplained'
  BY <1>4, <1>5 DEF PromoteNormal, ReapNormal
<1>6. ASSUME NEW t \in Ticket, Arrive(t) PROVE ScoresExplained'
  BY <1>6 DEF Arrive, ScoresExplained, OrderTypeOK
<1>7. ASSUME NEW t \in Ticket, Delay(t) PROVE ScoresExplained'
  BY <1>7 DEF Delay, ScoresExplained, OrderTypeOK
<1>8. ASSUME NEW t \in Ticket, PopMin(t) PROVE ScoresExplained'
  BY <1>8 DEF PopMin, ScoresExplained, OrderTypeOK
<1>9. CASE UNCHANGED orderVars
  BY <1>9 DEF orderVars, ScoresExplained, OrderTypeOK
<1> QED
  BY <1>1, <1>2, <1>3, <1>5, <1>6, <1>7, <1>8, <1>9 DEF OrderNext

\* The order of two queued tasks: the first may be popped before the second.
Before(t, u) ==
  /\ level[t] <= level[u]
  /\ level[t] = level[u] => score[t].time <= entered[u]

\* A pop takes a task that may be popped before all the others.
LEMMA PopInOrder ==
  ASSUME ScoresExplained, NEW t \in Ticket, NEW u \in Ticket,
         place[t] = "queued", place[u] = "queued", PopMin(t)
  PROVE  Before(t, u)
<1>1. ~LowerScore(score[u], score[t])
  BY DEF PopMin
<1>2. /\ score[t].priority = level[t] /\ score[u].priority = level[u]
      /\ score[u].time <= entered[u]
  BY DEF ScoresExplained
<1>3. /\ score[t].time \in Nat /\ score[u].time \in Nat /\ entered[u] \in Nat
      /\ level[t] \in Nat /\ level[u] \in Nat
  BY MaxTimeAssumption DEF ScoresExplained, OrderTypeOK, High, Normal, Low
<1> QED
  BY <1>1, <1>2, <1>3 DEF LowerScore, Before

\* Tasks leave a queue in the order of their priorities, and of their
\* enqueues within one, whatever calls are under way (dequeue.lua, _score).
THEOREM NeverOvertakenTheorem == OrderSpec => NeverOvertaken
<1>1. ASSUME ScoresExplained, [OrderNext]_orderVars
      PROVE  [\A t, u \in Ticket :
                place[t] = "queued" /\ place'[t] = "active"
                  /\ place[u] = "queued" =>
                  /\ level[t] <= level[u]
                  /\ level[t] = level[u] =>
                       score[t].time <= entered[u]]_orderVars
  <2> SUFFICES ASSUME OrderNext, NEW t \in Ticket, NEW u \in Ticket,
                      place[t] = "queued", place'[t] = "active",
                      place[u] = "queued"
               PROVE  Before(t, u)
    BY <1>1 DEF Before
  <2>1. ~ClockTicks
    BY DEF ClockTicks
  <2>2. PICK s \in Ticket :
          \/ EnqueueCall(s) \/ RequeueCall(s) \/ Arrive(s) \/ Delay(s)
          \/ PromoteNormal(s) \/ ReapNormal(s) \/ PopMin(s)
    BY <2>1 DEF OrderNext
  <2>3. PopMin(t)
    BY <1>1, <2>2
    DEF EnqueueCall, RequeueCall, CallScored, Arrive, Delay, PromoteNormal,
        ReapNormal, Demote, PopMin, ScoresExplained, OrderTypeOK
  <2> QED
    BY <1>1, <2>3, PopInOrder
<1> QED
  BY <1>1, ScoresExplainedInit, ScoresExplainedStep, PTL
  DEF OrderSpec, NeverOvertaken

-----------------------------------------------------------------------------
(* RateLimit: one processor keeps to the limit.                            *)
(*                                                                         *)
(* While it waits, the list is the window it found, and its oldest start   *)
(* has left that window when the sleep is over; so the start it then adds  *)
(* takes the place of one that no longer counts.                           *)

\* A list of ages.
Ages == Seq(0 .. Window)

\* Where the starts are that no longer count.
Old(s) == {k \in DOMAIN s : s[k] >= Window}

\* Who waits found at most the limit, and its sleep outlasts the oldest start.
WaitsForTheOldest(p) ==
  runner[p] = "waiting" =>
    Len(stamps) \in 1 .. MaxRpm /\ stamps[1] + sleep[p] >= Window

\* The inductive invariant.
SoloInv ==
  /\ RateTypeOK
  /\ \A p \in Processor \ procs : runner[p] = "idle"
  /\ \A p \in procs : procs = {p} => WaitsForTheOldest(p) /\ RateLimited

\* The recent starts are those of the list that are not old.
LEMMA RecentStarts ==
  ASSUME NEW s \in Ages
  PROVE  /\ IsFiniteSet(Old(s)) /\ Cardinality(Old(s)) \in 0 .. Len(s)
         /\ Recent(s) \in Ages
         /\ Len(Recent(s)) = Len(s) - Cardinality(Old(s))
<1>1. Len(s) \in Nat /\ DOMAIN s = 1 .. Len(s)
  BY DEF Ages
<1>2. /\ IsFiniteSet(1 .. Len(s))
      /\ Cardinality(1 .. Len(s)) = Len(s)
  <2>1. 1 \in Int /\ Len(s) \in Int
    BY <1>1
  <2>2. Cardinality(1 .. Len(s)) = IF 1 > Len(s) THEN 0 ELSE Len(s) - 1 + 1
    BY <2>1, FS_Interval
  <2> QED
    BY <1>1, <2>1, <2>2, FS_Interval
<1>3. Old(s) \in SUBSET (1 .. Len(s))
  BY <1>1 DEF Old
<1>4. /\ IsFiniteSet(Old(s)) /\ Cardinality(Old(s)) \in Nat
      /\ Cardinality(Old(s)) <= Len(s)
  BY <1>2, <1>3, FS_Subset, FS_CardinalityType
<1>5. Recent(s) = SubSeq(s, Cardinality(Old(s)) + 1, Len(s))
  BY DEF Recent, Old
<1>6. ASSUME NEW m \in 1 .. Len(s) + 1
      PROVE  SubSeq(s, m, Len(s)) \in Ages
             /\ Len(SubSeq(s, m, Len(s))) = Len(s) - m + 1
  <2>1. /\ m \in Int /\ Len(s) \in Int
        /\ \A i \in m .. Len(s) : s[i] \in 0 .. Window
    <3>1. \A i \in m .. Len(s) : i \in 1 .. Len(s)
      BY <1>1, <1>6
    <3>2. ASSUME NEW i \in 1 .. Len(s) PROVE s[i] \in 0 .. Window
      BY <3>2, ElementOfSeq DEF Ages
    <3> QED
      BY <1>1, <1>6, <3>1, <3>2
  <2>2. /\ SubSeq(s, m, Len(s)) \in Seq(0 .. Window)
        /\ Len(SubSeq(s, m, Len(s))) =
             IF m <= Len(s) THEN Len(s) - m + 1 ELSE 0
    BY <2>1, SubSeqProperties
  <2> QED
    BY <1>1, <1>6, <2>2 DEF Ages
<1>7. Cardinality(Old(s)) + 1 \in 1 .. Len(s) + 1
  BY <1>1, <1>4
<1> QED
  BY <1>1, <1>4, <1>5, <1>6, <1>7

\* As ages grow, starts leave the window.
LEMMA RecentShrinks ==
  ASSUME NEW s \in Ages, NEW u \in Ages, Len(s) = Len(u),
         \A k \in 1 .. Len(s) : s[k] <= u[k]
  PROVE  Len(Recent(u)) <= Len(Recent(s))
<1>1. Old(s) \in SUBSET Old(u)
  BY WindowAssumption DEF Old, Ages
<1>2. Cardinality(Old(s)) <= Cardinality(Old(u))
  BY <1>1, RecentStarts, FS_Subset
<1> QED
  BY <1>2, RecentStarts DEF Ages

\* A start more is one more at most, and none more if the oldest does not
\* count.
LEMMA RecentAppend ==
  ASSUME NEW s \in Ages, NEW u, u = Append(s, 0)
  PROVE  /\ u \in Ages /\ Len(Recent(u)) <= Len(s) + 1
         /\ Len(s) # 0 /\ s[1] >= Window => Len(Recent(u)) <= Len(s)
<1>1. u \in Ages /\ Len(u) = Len(s) + 1 /\ Len(s) \in Nat
  BY WindowAssumption DEF Ages
<1>2. Len(Recent(u)) = Len(u) - Cardinality(Old(u))
      /\ Cardinality(Old(u)) \in 0 .. Len(u) /\ IsFiniteSet(Old(u))
  BY <1>1, RecentStarts
<1>3. ASSUME Len(s) # 0, s[1] >= Window
      PROVE  Cardinality(Old(u)) # 0
  <2>1. 1 \in DOMAIN u /\ u[1] = s[1]
    BY <1>1, <1>3 DEF Ages
  <2>2. Old(u) # {}
    BY <1>3, <2>1 DEF Old
  <2> QED
    BY <1>2, <2>2, FS_EmptySet
<1> QED
  BY <1>1, <1>2, <1>3

\* A check of the window, whether it ends in a wait or in a start.
LEMMA CheckKeepsRate ==
  ASSUME SoloInv, NEW p \in Processor, BeforeProcess(p)
  PROVE  SoloInv'
<1> DEFINE recent == Recent(stamps)
<1>1. /\ stamps \in Ages /\ rpm \in 1 .. MaxRpm /\ Window \in Nat \ {0}
      /\ MaxRpm \in Nat \ {0} /\ p \in procs /\ procs' = procs
      /\ runner[p] = "idle" /\ rpm' = rpm
      /\ runner \in [Processor -> {"idle", "waiting", "running"}]
      /\ sleep \in [Processor -> 0 .. Window] /\ procs \subseteq Processor
  BY MaxRpmAssumption, WindowAssumption
  DEF SoloInv, RateTypeOK, Ages, BeforeProcess
<1>2. /\ recent \in Ages /\ Len(recent) \in Nat
  BY <1>1, RecentStarts DEF Ages
<1>3. CASE Len(recent) >= rpm
  <2>1. /\ stamps' = recent /\ runner' = [runner EXCEPT ![p] = "waiting"]
        /\ sleep' = [sleep EXCEPT ![p] = Window - recent[1]]
    BY <1>3 DEF BeforeProcess
  <2>2. Len(recent) >= 1 /\ recent[1] \in 0 .. Window
    BY <1>1, <1>2, <1>3 DEF Ages
  <2>3. Window - recent[1] \in 0 .. Window
    BY <1>1, <2>2
  <2>4. RateTypeOK'
    BY <1>1, <1>2, <2>1, <2>3 DEF RateTypeOK, Ages
  <2>5. ASSUME procs = {p} PROVE WaitsForTheOldest(p)' /\ RateLimited'
    <3>1. Len(recent) <= MaxRpm
      BY <1>1, <2>5 DEF SoloInv, RateLimited
    <3>2. Len(Recent(recent)) <= Len(recent)
      BY <1>2, RecentStarts
    <3>3. sleep'[p] = Window - recent[1]
      BY <1>1, <2>1
    <3>4. WaitsForTheOldest(p)'
      BY <1>1, <1>2, <2>1, <2>2, <3>1, <3>3 DEF WaitsForTheOldest
    <3>5. RateLimited'
      <4>1. Len(Recent(recent)) \in Nat
        BY <1>2, RecentStarts DEF Ages
      <4>2. Len(Recent(recent)) <= MaxRpm
        BY <1>1, <1>2, <3>1, <3>2, <4>1
      <4> QED
        BY <2>1, <4>2 DEF RateLimited, Recent
    <3> QED
      BY <3>4, <3>5
  <2> QED
    BY <1>1, <2>1, <2>4, <2>5 DEF SoloInv
<1>4. CASE ~(Len(recent) >= rpm)
  <2>1. /\ stamps' = Append(recent, 0) /\ sleep' = sleep
        /\ runner' = [runner EXCEPT ![p] = "running"]
    BY <1>4 DEF BeforeProcess
  <2>2. stamps' \in Ages /\ Len(Recent(stamps')) <= Len(recent) + 1
    BY <1>2, <2>1, RecentAppend
  <2>3. RateTypeOK'
    BY <1>1, <2>1, <2>2 DEF RateTypeOK, Ages
  <2>4. Len(Recent(stamps')) \in Nat
    BY <2>2, RecentStarts DEF Ages
  <2>5. RateLimited'
    <3>1. Len(Recent(stamps')) <= MaxRpm
      BY <1>1, <1>2, <1>4, <2>2, <2>4
    <3> QED
      BY <3>1 DEF RateLimited, Recent
  <2>6. WaitsForTheOldest(p)'
    BY <1>1, <2>1 DEF WaitsForTheOldest
  <2> QED
    BY <1>1, <2>1, <2>3, <2>5, <2>6 DEF SoloInv
<1> QED
  BY <1>3, <1>4

\* A sleep ends: the oldest start has left the window.
LEMMA WakeKeepsRate ==
  ASSUME SoloInv, NEW p \in Processor, WakeUp(p)
  PROVE  SoloInv'
<1>1. /\ stamps \in Ages /\ Window \in Nat \ {0} /\ p \in procs
      /\ stamps' = Append(stamps, 0) /\ runner[p] = "waiting" /\ sleep[p] = 0
      /\ runner' = [runner EXCEPT ![p] = "running"]
      /\ runner \in [Processor -> {"idle", "waiting", "running"}]
      /\ MaxRpm \in Nat \ {0} /\ UNCHANGED <<procs, sleep, rpm>>
  BY MaxRpmAssumption, WindowAssumption
  DEF SoloInv, RateTypeOK, Ages, WakeUp
<1>2. /\ stamps' \in Ages
      /\ Len(stamps) # 0 /\ stamps[1] >= Window =>
           Len(Recent(stamps')) <= Len(stamps)
  BY <1>1, RecentAppend
<1>3. RateTypeOK'
  BY <1>1, <1>2 DEF SoloInv, RateTypeOK, Ages
<1>4. Len(Recent(stamps')) \in Nat
  BY <1>2, RecentStarts DEF Ages
<1>5. ASSUME procs = {p} PROVE RateLimited'
  <2>1. Len(stamps) \in 1 .. MaxRpm /\ stamps[1] + 0 >= Window
    BY <1>1, <1>5 DEF SoloInv, WaitsForTheOldest
  <2>2. stamps[1] \in 0 .. Window
    BY <1>1, <2>1 DEF Ages
  <2>3. Len(Recent(stamps')) <= MaxRpm
    BY <1>1, <1>2, <1>4, <2>1, <2>2
  <2> QED
    BY <1>1, <2>3 DEF RateLimited, Recent
<1>6. WaitsForTheOldest(p)'
  BY <1>1 DEF WaitsForTheOldest
<1> QED
  BY <1>1, <1>3, <1>5, <1>6 DEF SoloInv

\* The end of a run changes the limit, not the window.
LEMMA EndKeepsRate ==
  ASSUME SoloInv, NEW p \in Processor, Recover(p) \/ SlowDown(p)
  PROVE  SoloInv'
<1>1. /\ rpm \in 1 .. MaxRpm /\ MaxRpm \in Nat
      /\ runner' = [runner EXCEPT ![p] = "idle"]
      /\ UNCHANGED <<procs, sleep, stamps>>
  BY MaxRpmAssumption DEF SoloInv, RateTypeOK, Recover, SlowDown
<1>2. rpm' \in 1 .. MaxRpm
  <2>1. rpm # 1 => rpm \div 2 \in 1 .. MaxRpm
    BY <1>1
  <2> QED
    BY <1>1, <2>1 DEF Recover, SlowDown
<1>3. RateTypeOK'
  BY <1>1, <1>2 DEF SoloInv, RateTypeOK
<1> QED
  BY <1>1, <1>3
  DEF SoloInv, RateTypeOK, WaitsForTheOldest, RateLimited, Recent

\* A tick shortens a sleep as it ages the starts.
LEMMA TickKeepsRate ==
  ASSUME SoloInv, Tick
  PROVE  SoloInv'
<1>1. /\ stamps \in Ages /\ Window \in Nat \ {0}
      /\ MaxRpm \in Nat \ {0} /\ Len(stamps) \in Nat
      /\ sleep \in [Processor -> 0 .. Window] /\ procs \subseteq Processor
      /\ stamps' = [k \in 1 .. Len(stamps) |->
                      IF stamps[k] < Window THEN stamps[k] + 1 ELSE Window]
      /\ sleep' = [p \in Processor |->
                     IF sleep[p] > 0 THEN sleep[p] - 1 ELSE 0]
      /\ UNCHANGED <<procs, runner, rpm>>
  BY MaxRpmAssumption, WindowAssumption
  DEF SoloInv, RateTypeOK, Ages, Tick
<1>2. \A k \in 1 .. Len(stamps) : stamps[k] \in 0 .. Window
  BY <1>1 DEF Ages
<1>3. /\ stamps' \in Ages /\ Len(stamps') = Len(stamps)
      /\ \A k \in 1 .. Len(stamps) : stamps[k] <= stamps'[k]
  BY <1>1, <1>2 DEF Ages
<1>4. RateTypeOK'
  BY <1>1, <1>3 DEF SoloInv, RateTypeOK, Ages
<1>5. ASSUME NEW p \in procs, procs = {p}
      PROVE  WaitsForTheOldest(p)' /\ RateLimited'
  <2>0. Recent(stamps') \in Ages /\ Recent(stamps) \in Ages
    BY <1>1, <1>3, RecentStarts
  <2>1. /\ Len(Recent(stamps')) <= Len(Recent(stamps))
        /\ Len(Recent(stamps')) \in Nat /\ Len(Recent(stamps)) \in Nat
    <3>1. Len(Recent(stamps')) <= Len(Recent(stamps))
      BY <1>1, <1>3, RecentShrinks
    <3> QED
      BY <2>0, <3>1 DEF Ages
  <2>2. Len(Recent(stamps)) <= MaxRpm
    BY <1>5 DEF SoloInv, RateLimited
  <2>3. Len(Recent(stamps')) <= MaxRpm
    BY <1>1, <2>1, <2>2
  <2>4. ASSUME runner[p] = "waiting"
        PROVE  Len(stamps) \in 1 .. MaxRpm /\ stamps'[1] + sleep'[p] >= Window
    <3>1. Len(stamps) \in 1 .. MaxRpm /\ stamps[1] + sleep[p] >= Window
      BY <1>5, <2>4 DEF SoloInv, WaitsForTheOldest
    <3>2. 1 \in 1 .. Len(stamps) /\ sleep[p] \in 0 .. Window
      BY <1>1, <1>5, <3>1
    <3>3. /\ stamps'[1] = IF stamps[1] < Window THEN stamps[1] + 1 ELSE Window
          /\ sleep'[p] = IF sleep[p] > 0 THEN sleep[p] - 1 ELSE 0
      BY <1>1, <1>5, <3>2
    <3> QED
      BY <1>1, <1>2, <3>1, <3>2, <3>3
  <2> QED
    BY <1>1, <1>3, <2>3, <2>4 DEF WaitsForTheOldest, RateLimited, Recent
<1> QED
  BY <1>1, <1>4, <1>5 DEF SoloInv

\* The invariant always holds.
LEMMA SoloInvariant ==
  /\ RateInit => SoloInv
  /\ SoloInv /\ [RateNext]_rateVars => SoloInv'
<1>1. ASSUME RateInit PROVE SoloInv
  <2>1. RateTypeOK
    BY <1>1, MaxRpmAssumption, WindowAssumption DEF RateInit, RateTypeOK
  <2>2. Len(Recent(stamps)) <= MaxRpm
    <3>1. <<>> \in Ages /\ Len(<<>>) = 0
      BY DEF Ages
    <3>2. Len(Recent(<<>>)) = 0 - Cardinality(Old(<<>>))
          /\ Cardinality(Old(<<>>)) \in Nat
      BY <3>1, RecentStarts
    <3> QED
      BY <1>1, <3>2, MaxRpmAssumption DEF RateInit
  <2> QED
    BY <1>1, <2>1, <2>2
    DEF RateInit, SoloInv, WaitsForTheOldest, RateLimited
<1>2. ASSUME SoloInv, UNCHANGED rateVars PROVE SoloInv'
  BY <1>2
  DEF rateVars, SoloInv, RateTypeOK, WaitsForTheOldest, RateLimited, Recent
<1> QED
  BY <1>1, <1>2, CheckKeepsRate, WakeKeepsRate, EndKeepsRate, TickKeepsRate
  DEF RateNext

\* RateLimitMiddleware with one processor starts at most max_per_minute runs
\* within a minute, however its limit goes down and up.
THEOREM SoloRateLimitedTheorem == RateSpec => []SoloRateLimited
<1>1. SoloInv => SoloRateLimited
  BY DEF SoloInv, SoloRateLimited
<1> QED
  BY <1>1, SoloInvariant, PTL DEF RateSpec

-----------------------------------------------------------------------------
(* WorkerRegistry: no dead worker is forgotten before its queues are       *)
(* requeued.  A reaper removes an entry only after it was through the      *)
(* queues, and whoever died before that was noticed then.                  *)

\* The inductive invariant.
RegistryInv ==
  /\ RegistryTypeOK
  /\ \A w \in listed : member[w] = "gone"
  /\ \A w \in listed \ noticed, r \in Member : w \notin emptied[r]
  /\ ListedUntilReaped

\* The steps of a worker for its own entry, and of time.
LEMMA EntryStepListed ==
  ASSUME RegistryInv, NEW w \in Member,
         Enlist(w) \/ BeatRead(w) \/ BeatWrite(w) \/ GoesStale(w)
  PROVE  RegistryInv'
<1> USE DEF RegistryInv, RegistryTypeOK, ListedUntilReaped
<1>1. CASE Enlist(w)
  BY <1>1 DEF Enlist
<1>2. CASE BeatRead(w)
  BY <1>2 DEF BeatRead
<1>3. CASE BeatWrite(w)
  BY <1>3 DEF BeatWrite
<1>4. CASE GoesStale(w)
  BY <1>4 DEF GoesStale
<1> QED
  BY <1>1, <1>2, <1>3, <1>4

\* Its end, with or without its entry.
LEMMA EndListed ==
  ASSUME RegistryInv, NEW w \in Member, Deregister(w) \/ Dies(w)
  PROVE  RegistryInv'
<1> USE DEF RegistryInv, RegistryTypeOK, ListedUntilReaped
<1>1. /\ member[w] = "up" /\ w \notin listed /\ noticed' = noticed
      /\ member' = [member EXCEPT ![w] = "gone"] /\ beat' = beat \ {w}
      /\ claimed' = [claimed EXCEPT ![w] = {}]
      /\ emptied' = [emptied EXCEPT ![w] = {}]
  BY DEF Deregister, Dies, LoopsEnd
<1>2. \A r \in Member : emptied'[r] \subseteq emptied[r]
  BY <1>1
<1>3. CASE Deregister(w)
  BY <1>1, <1>2, <1>3 DEF Deregister
<1>4. CASE Dies(w)
  <2>1. /\ entry' = entry \/ entry' = [entry EXCEPT ![w] = "fresh"]
        /\ \/ listed' = listed
           \/ /\ listed' = listed \cup {w} /\ entry'[w] # "absent"
              /\ \A r \in Member : w \notin emptied[r]
    BY <1>4 DEF Dies
  <2>2. RegistryTypeOK'
    BY <1>1, <2>1
  <2>3. \A u \in listed' : member'[u] = "gone"
    BY <1>1, <2>1
  <2>4. \A u \in listed' \ noticed', r \in Member : u \notin emptied'[r]
    BY <1>1, <1>2, <2>1
  <2>5. \A u \in listed' \ noticed' : entry'[u] # "absent"
    BY <1>1, <2>1
  <2> QED
    BY <2>2, <2>3, <2>4, <2>5
<1> QED
  BY <1>3, <1>4

\* The steps of a reaper.
LEMMA ReaperStepListed ==
  ASSUME RegistryInv, NEW r \in Member, ReaperStep(r)
  PROVE  RegistryInv'
<1> USE DEF RegistryInv, RegistryTypeOK, ListedUntilReaped
<1>1. CASE Scan(r)
  BY <1>1 DEF Scan
<1>2. ASSUME NEW w \in Member, ReapQueues(r, w) PROVE RegistryInv'
  BY <1>2 DEF ReapQueues
<1>3. ASSUME NEW w \in Member, ForgetEntry(r, w) PROVE RegistryInv'
  <2>1. w \notin listed \ noticed
    BY <1>3 DEF ForgetEntry
  <2> QED
    BY <1>3, <2>1 DEF ForgetEntry
<1> QED
  BY <1>1, <1>2, <1>3 DEF ReaperStep

\* The invariant always holds.
LEMMA RegistryInvariant ==
  /\ RegistryInit => RegistryInv
  /\ RegistryInv /\ [RegistryNext]_registryVars => RegistryInv'
<1>1. RegistryInit => RegistryInv
  BY DEF RegistryInit, RegistryInv, RegistryTypeOK, ListedUntilReaped
<1>2. RegistryInv /\ UNCHANGED registryVars => RegistryInv'
  BY DEF registryVars, RegistryInv, RegistryTypeOK, ListedUntilReaped
<1> QED
  BY <1>1, <1>2, EntryStepListed, EndListed, ReaperStepListed
  DEF RegistryNext

\* Heartbeats and reaps (broker/redis.py), command by command and with any
\* number of reapers that may die between two of them, never forget a dead
\* worker whose queues nobody requeued.
THEOREM ListedUntilReapedTheorem == RegistrySpec => []ListedUntilReaped
<1>1. RegistryInv => ListedUntilReaped
  BY DEF RegistryInv
<1> QED
  BY <1>1, RegistryInvariant, PTL DEF RegistrySpec

-----------------------------------------------------------------------------
(* CliOutput: what read_stdout makes of the lines of Codex.                *)

\* The output of Codex alone.
CodexOutputSpec == CliInit /\ [][CodexLinesNext]_cliVars

\* The events there are.
ItemEvent == [type : {"tool_use", "tool_result", "progress"},
              id : {m.id : m \in CodexLine}]
CodexEvent ==
  ItemEvent \cup [type : {"text"}, text : {m.text : m \in CodexLine}]
    \cup [type : {"init", "cost", "progress"}]

\* The lines with an answer, those with an amount, and the last of some.
Said == {k \in DOMAIN printed : Answer(printed[k]) # None}
Paid == {k \in DOMAIN printed : Charged(printed[k]) # None}
Latest(S) == CHOOSE k \in S : \A j \in S : j <= k
HasLatest(S) == S = {} \/ \E k \in S : \A j \in S : j <= k

LastAnswer == LastOf(Answer, "")
LastCharge == LastOf(Charged, None)

\* The inductive invariant.
CodexOutputInv ==
  /\ printed \in Seq(CodexLine) /\ acc.published \in Seq(CodexEvent)
  /\ {"result", "cost", "published"} \subseteq DOMAIN acc
  /\ HasLatest(Said) /\ HasLatest(Paid)
  /\ acc.result = LastAnswer /\ acc.cost = LastCharge
  /\ \A id : Cardinality(Results(id)) = Cardinality(Completions(id))

\* A line more is the latest line.
LEMMA LatestOfMore ==
  ASSUME NEW n \in Nat, NEW S \in SUBSET (1 .. n)
  PROVE  /\ HasLatest(S \cup {n + 1}) /\ Latest(S \cup {n + 1}) = n + 1
         /\ HasLatest(S) /\ S # {} => Latest(S) \in S
<1>1. /\ n + 1 \in S \cup {n + 1}
      /\ \A j \in S \cup {n + 1} : j <= n + 1
  OBVIOUS
<1>2. ASSUME NEW k \in S \cup {n + 1}, \A j \in S \cup {n + 1} : j <= k
      PROVE  k = n + 1
  BY <1>2
<1> QED
  BY <1>1, <1>2 DEF HasLatest, Latest

\* What Append does.
LEMMA Appended ==
  ASSUME NEW S, NEW s \in Seq(S), NEW x \in S, NEW t, t = Append(s, x)
  PROVE  /\ t \in Seq(S) /\ Len(s) \in Nat /\ DOMAIN s = 1 .. Len(s)
         /\ DOMAIN t = (1 .. Len(s)) \cup {Len(s) + 1}
         /\ t[Len(s) + 1] = x /\ \A k \in 1 .. Len(s) : t[k] = s[k]
<1>1. Len(s) \in Nat /\ DOMAIN s = 1 .. Len(s)
  BY LenProperties
<1>2. /\ t \in Seq(S) /\ Len(t) = Len(s) + 1
      /\ t[Len(s) + 1] = x /\ \A k \in 1 .. Len(s) : t[k] = s[k]
  BY AppendProperties
<1>3. DOMAIN t = 1 .. Len(s) + 1
  BY <1>2, LenProperties
<1> QED
  BY <1>1, <1>2, <1>3

\* What a line says is the last that was said, or what was before stays.
LEMMA SaidMore ==
  ASSUME CodexOutputInv, NEW m \in CodexLine, printed' = Append(printed, m)
  PROVE  /\ HasLatest(Said') /\ HasLatest(Paid')
         /\ LastAnswer' =
              IF Answer(m) # None THEN Answer(m) ELSE LastAnswer
         /\ LastCharge' =
              IF Charged(m) # None THEN Charged(m) ELSE LastCharge
<1> DEFINE n == Len(printed)
<1>0. printed \in Seq(CodexLine)
  BY DEF CodexOutputInv
<1>1. /\ n \in Nat /\ DOMAIN printed = 1 .. n
      /\ DOMAIN printed' = (1 .. n) \cup {n + 1}
      /\ printed'[n + 1] = m /\ \A k \in 1 .. n : printed'[k] = printed[k]
  BY <1>0, Appended
<1>2. Said \in SUBSET (1 .. n) /\ Paid \in SUBSET (1 .. n)
  BY <1>1 DEF Said, Paid
<1>3. Said' = IF Answer(m) # None THEN Said \cup {n + 1} ELSE Said
  BY <1>1 DEF Said
<1>4. Paid' = IF Charged(m) # None THEN Paid \cup {n + 1} ELSE Paid
  BY <1>1 DEF Paid
<1>5. LastAnswer =
        IF Said = {} THEN "" ELSE Answer(printed[Latest(Said)])
  BY DEF LastAnswer, LastOf, Said, Latest
<1>6. LastCharge =
        IF Paid = {} THEN None ELSE Charged(printed[Latest(Paid)])
  BY DEF LastCharge, LastOf, Paid, Latest
<1>7. LastAnswer' =
        IF Said' = {} THEN "" ELSE Answer(printed'[Latest(Said')])
  BY DEF LastAnswer, LastOf, Said, Latest
<1>8. LastCharge' =
        IF Paid' = {} THEN None ELSE Charged(printed'[Latest(Paid')])
  BY DEF LastCharge, LastOf, Paid, Latest
<1>9. HasLatest(Said) /\ HasLatest(Paid)
  BY DEF CodexOutputInv
<1> HIDE DEF n
<1>10. HasLatest(Said') /\ LastAnswer' =
         IF Answer(m) # None THEN Answer(m) ELSE LastAnswer
  <2>1. CASE Answer(m) # None
    <3>1. HasLatest(Said') /\ Latest(Said') = n + 1
      BY <1>1, <1>2, <1>3, <2>1, LatestOfMore
    <3> QED
      BY <1>1, <1>3, <1>7, <2>1, <3>1
  <2>2. CASE ~(Answer(m) # None)
    <3>1. Said # {} => printed'[Latest(Said)] = printed[Latest(Said)]
      BY <1>1, <1>2, <1>9, LatestOfMore
    <3>2. Said' = Said
      BY <1>3, <2>2
    <3>3. HasLatest(Said')
      BY <1>9, <3>2 DEF HasLatest
    <3>4. LastAnswer' = LastAnswer
      BY <1>5, <1>7, <2>2, <3>1, <3>2
    <3> QED
      BY <2>2, <3>3, <3>4
  <2> QED
    BY <2>1, <2>2
<1>11. HasLatest(Paid') /\ LastCharge' =
         IF Charged(m) # None THEN Charged(m) ELSE LastCharge
  <2>1. CASE Charged(m) # None
    <3>1. HasLatest(Paid') /\ Latest(Paid') = n + 1
      BY <1>1, <1>2, <1>4, <2>1, LatestOfMore
    <3> QED
      BY <1>1, <1>4, <1>8, <2>1, <3>1
  <2>2. CASE ~(Charged(m) # None)
    <3>1. Paid # {} => printed'[Latest(Paid)] = printed[Latest(Paid)]
      BY <1>1, <1>2, <1>9, LatestOfMore
    <3>2. Paid' = Paid
      BY <1>4, <2>2
    <3>3. HasLatest(Paid')
      BY <1>9, <3>2 DEF HasLatest
    <3>4. LastCharge' = LastCharge
      BY <1>6, <1>8, <2>2, <3>1, <3>2
    <3> QED
      BY <2>2, <3>3, <3>4
  <2> QED
    BY <2>1, <2>2
<1> QED
  BY <1>10, <1>11

\* A line has one event at most: a result if it completes a tool.
LEMMA EventOfLine ==
  ASSUME NEW m \in CodexLine
  PROVE  \/ CodexEvents(m) = <<>> /\ ~IsTool(m)
         \/ \E e \in CodexEvent :
              /\ CodexEvents(m) = <<e>>
              /\ e.type = "tool_result" <=>
                   IsTool(m) /\ m.type = "item.completed"
              /\ IsTool(m) => e.id = m.id
<1>1. CASE IsTool(m)
  <2> DEFINE t == CASE m.type = "item.started" -> "tool_use"
                    [] m.type = "item.completed" -> "tool_result"
                    [] OTHER -> "progress"
             e == [type |-> t, id |-> m.id]
  <2>1. CodexEvents(m) = <<e>>
    <3>1. m.type \in ItemKind /\ m.item = "tool" /\ m.item # "agent_message"
      BY <1>1 DEF IsTool
    <3>2. ItemEvents(m) = <<e>>
      BY <3>1 DEF ItemEvents
    <3>3. CodexEvents(m) = ItemEvents(m)
      BY <3>1 DEF CodexEvents, ItemKind, Failure
    <3> QED
      BY <3>2, <3>3
  <2>2. t \in {"tool_use", "tool_result", "progress"}
        /\ (t = "tool_result" <=> m.type = "item.completed")
    BY <1>1 DEF IsTool, ItemKind
  <2>3. e.type = t /\ e.id = m.id
    OBVIOUS
  <2> HIDE DEF t
  <2>4. e \in CodexEvent
    BY <2>2 DEF CodexEvent, ItemEvent
  <2> QED
    BY <1>1, <2>1, <2>2, <2>3, <2>4
<1>2. CASE ~IsTool(m)
  <2>1. \/ CodexEvents(m) = <<>>
        \/ CodexEvents(m) = <<[type |-> "text", text |-> m.text]>>
        \/ CodexEvents(m) = <<[type |-> "init"]>>
        \/ CodexEvents(m) = <<[type |-> "cost"]>>
        \/ CodexEvents(m) = <<[type |-> "progress"]>>
    <3>1. CASE m.type \in ItemKind /\ m.item = "agent_message"
      BY <1>2, <3>1 DEF CodexEvents, ItemEvents, ItemKind
    <3>2. CASE m.type \in ItemKind /\ m.item # "agent_message"
      BY <1>2, <3>2 DEF CodexEvents, ItemEvents, ItemKind, IsTool
    <3>3. CASE m.type \notin ItemKind
      BY <3>3 DEF CodexEvents, ItemKind, Failure
    <3> QED
      BY <3>1, <3>2, <3>3
  <2>2. /\ [type |-> "text", text |-> m.text] \in CodexEvent
        /\ [type |-> "text", text |-> m.text].type # "tool_result"
        /\ [type |-> "init"] \in CodexEvent
        /\ [type |-> "cost"] \in CodexEvent
        /\ [type |-> "progress"] \in CodexEvent
        /\ \A t \in {"init", "cost", "progress"} :
             [type |-> t].type # "tool_result"
    BY DEF CodexEvent
  <2> QED
    BY <1>2, <2>1, <2>2
<1> QED
  BY <1>1, <1>2

\* An index more in a set of indices.
LEMMA CountMore ==
  ASSUME NEW n \in Nat, NEW S \in SUBSET (1 .. n)
  PROVE  Cardinality(S \cup {n + 1}) = Cardinality(S) + 1
<1>1. 1 \in Int /\ n \in Int
  OBVIOUS
<1>2. IsFiniteSet(1 .. n)
  BY <1>1, FS_Interval
<1>3. IsFiniteSet(S)
  BY <1>2, FS_Subset
<1>4. n + 1 \notin S
  OBVIOUS
<1> QED
  BY <1>3, <1>4, FS_AddElement

\* What a line publishes: its event, or nothing if it is no line of a tool.
Publishes(m) ==
  \/ acc'.published = acc.published /\ ~IsTool(m)
  \/ \E e \in CodexEvent :
       /\ acc'.published = Append(acc.published, e)
       /\ e.type = "tool_result" <=> IsTool(m) /\ m.type = "item.completed"
       /\ IsTool(m) => e.id = m.id

\* Completions and results are counted alike, line by line.
LEMMA CountsMore ==
  ASSUME CodexOutputInv, NEW m \in CodexLine, printed' = Append(printed, m),
         Publishes(m), NEW id
  PROVE  Cardinality(Results(id)') = Cardinality(Completions(id)')
<1> DEFINE n == Len(printed)
           k == Len(acc.published)
           new == IsTool(m) /\ m.type = "item.completed" /\ m.id = id
<1>0. printed \in Seq(CodexLine)
  BY DEF CodexOutputInv
<1>1. /\ n \in Nat /\ DOMAIN printed = 1 .. n
      /\ DOMAIN printed' = (1 .. n) \cup {n + 1}
      /\ printed'[n + 1] = m /\ \A j \in 1 .. n : printed'[j] = printed[j]
  BY <1>0, Appended
<1>2. /\ Completions(id) \in SUBSET (1 .. n)
      /\ Completions(id)' =
           IF new THEN Completions(id) \cup {n + 1} ELSE Completions(id)
  BY <1>1 DEF Completions
<1>3. /\ k \in Nat /\ acc.published \in Seq(CodexEvent)
      /\ DOMAIN acc.published = 1 .. k
  BY LenProperties DEF CodexOutputInv
<1>4. /\ Results(id) \in SUBSET (1 .. k)
      /\ Results(id)' =
           IF new THEN Results(id) \cup {k + 1} ELSE Results(id)
  <2>1. CASE acc'.published = acc.published /\ ~IsTool(m)
    BY <1>3, <2>1 DEF Results
  <2>2. ASSUME NEW e \in CodexEvent,
               acc'.published = Append(acc.published, e),
               e.type = "tool_result" <=>
                 (IsTool(m) /\ m.type = "item.completed"),
               IsTool(m) => e.id = m.id
        PROVE  Results(id)' =
                 IF new THEN Results(id) \cup {k + 1} ELSE Results(id)
    <3>1. /\ DOMAIN acc'.published = (1 .. k) \cup {k + 1}
          /\ acc'.published[k + 1] = e
          /\ \A j \in 1 .. k : acc'.published[j] = acc.published[j]
      BY <1>3, <2>2, Appended
    <3>2. new <=> (e.type = "tool_result" /\ e.id = id)
      BY <2>2
    <3> HIDE DEF new
    <3> QED
      BY <1>3, <3>1, <3>2 DEF Results
  <2>3. Results(id) \in SUBSET (1 .. k)
    BY <1>3 DEF Results
  <2> QED
    BY <2>1, <2>2, <2>3 DEF Publishes
<1>5. Cardinality(Results(id)) = Cardinality(Completions(id))
  BY DEF CodexOutputInv
<1> HIDE DEF n, k, new
<1>6. CASE new
  <2>1. Cardinality(Completions(id)') = Cardinality(Completions(id)) + 1
    BY <1>1, <1>2, <1>6, CountMore
  <2>2. Cardinality(Results(id)') = Cardinality(Results(id)) + 1
    BY <1>3, <1>4, <1>6, CountMore
  <2> QED
    BY <1>5, <2>1, <2>2
<1>7. CASE ~new
  BY <1>2, <1>4, <1>5, <1>7
<1> QED
  BY <1>6, <1>7

\* The invariant is kept if the accumulators follow what a line says.
LEMMA KeepsIfSaid ==
  ASSUME CodexOutputInv, NEW m \in CodexLine, printed' = Append(printed, m),
         acc'.result = IF Answer(m) # None THEN Answer(m) ELSE acc.result,
         acc'.cost = IF Charged(m) # None THEN Charged(m) ELSE acc.cost,
         Publishes(m),
         {"result", "cost", "published"} \subseteq DOMAIN acc'
  PROVE  CodexOutputInv'
<1>1. printed' \in Seq(CodexLine)
  BY AppendProperties DEF CodexOutputInv
<1>2. acc'.published \in Seq(CodexEvent)
  BY AppendProperties DEF CodexOutputInv, Publishes
<1>3. ASSUME NEW id
      PROVE  Cardinality(Results(id)') = Cardinality(Completions(id)')
  BY CountsMore
<1>4. HasLatest(Said') /\ HasLatest(Paid')
  BY SaidMore
<1>5. acc'.result = LastAnswer' /\ acc'.cost = LastCharge'
  <2>1. acc.result = LastAnswer /\ acc.cost = LastCharge
    BY DEF CodexOutputInv
  <2> QED
    BY <2>1, SaidMore
<1> QED
  BY <1>1, <1>2, <1>3, <1>4, <1>5 DEF CodexOutputInv, HasLatest

\* A line of Codex keeps the invariant.
LEMMA CodexLineKeeps ==
  ASSUME CodexOutputInv, NEW m \in CodexLine, CodexPrints(m)
  PROVE  CodexOutputInv'
<1>1. printed' = Append(printed, m) /\ printed' \in Seq(CodexLine)
  BY AppendProperties DEF CodexPrints, CodexOutputInv
<1>2. CASE m.type \in {"junk", "array"}
  <2>1. m.type \notin ItemKind /\ m.type \notin {"result", "turn.completed"}
    BY <1>2 DEF ItemKind
  <2>2. Answer(m) = None /\ Charged(m) = None /\ ~IsTool(m)
    BY <2>1 DEF Answer, Charged, IsTool
  <2>3. /\ acc'.result = acc.result /\ acc'.cost = acc.cost
        /\ acc'.published = acc.published /\ DOMAIN acc' = DOMAIN acc
    BY <1>2 DEF CodexPrints, CodexOutputInv
  <2> QED
    BY <1>1, <2>2, <2>3, KeepsIfSaid DEF Publishes, CodexOutputInv
<1>3. CASE m.type \notin {"junk", "array"}
  <2> DEFINE found == IF m.type \in ItemKind /\ m.item = "agent_message"
                        THEN m.text ELSE ""
            paid == m.type = "turn.completed" /\ m.usage
  <2>1. /\ acc'.result = IF found = "" THEN acc.result ELSE found
        /\ acc'.cost = IF paid THEN 0 ELSE acc.cost
        /\ acc'.published = acc.published \o CodexEvents(m)
        /\ DOMAIN acc' = DOMAIN acc
    BY <1>3 DEF CodexPrints, CodexOutputInv
  <2>2. m.type # "result"
    BY CodexLineAssumption DEF ItemKind, Failure
  <2>3. Answer(m) = IF found = "" THEN None ELSE found
    BY <2>2 DEF Answer
  <2>4. found # None
    BY CodexLineAssumption
  <2>5. Charged(m) = IF paid THEN 0 ELSE None
    BY <2>2 DEF Charged
  <2>6. Publishes(m)
    <3>1. CASE CodexEvents(m) = <<>> /\ ~IsTool(m)
      BY <2>1, <3>1, ConcatEmptySeq DEF Publishes, CodexOutputInv
    <3>2. ASSUME NEW e \in CodexEvent, CodexEvents(m) = <<e>>,
                 e.type = "tool_result" <=>
                   (IsTool(m) /\ m.type = "item.completed"),
                 IsTool(m) => e.id = m.id
          PROVE  Publishes(m)
      <4>1. acc'.published = Append(acc.published, e)
        BY <2>1, <3>2, AppendIsConcat DEF CodexOutputInv
      <4> QED
        BY <3>2, <4>1 DEF Publishes
    <3> QED
      BY <3>1, <3>2, EventOfLine
  <2>7. 0 # None
    BY CodexLineAssumption
  <2> HIDE DEF found, paid
  <2> QED
    BY <1>1, <2>1, <2>3, <2>4, <2>5, <2>6, <2>7, KeepsIfSaid
    DEF CodexOutputInv
<1> QED
  BY <1>2, <1>3

\* It holds before the first line, and always.
LEMMA CodexOutputInvariant == CodexOutputSpec => []CodexOutputInv
<1>1. CliInit => CodexOutputInv
  <2> SUFFICES ASSUME CliInit PROVE CodexOutputInv
    OBVIOUS
  <2>1. /\ printed = <<>> /\ acc.published = <<>> /\ acc.result = ""
        /\ acc.cost = None
        /\ {"result", "cost", "published"} \subseteq DOMAIN acc
    BY DEF CliInit
  <2>2. DOMAIN printed = {} /\ DOMAIN acc.published = {}
    <3>1. <<>> \in Seq({}) /\ Len(<<>>) = 0
      BY EmptySeq
    <3>2. DOMAIN <<>> = {}
      BY <3>1, LenProperties
    <3> QED
      BY <2>1, <3>2
  <2>3. Said = {} /\ Paid = {}
    BY <2>2 DEF Said, Paid
  <2>4. LastAnswer = "" /\ LastCharge = None
    BY <2>2 DEF LastAnswer, LastCharge, LastOf
  <2>5. \A id : Results(id) = {} /\ Completions(id) = {}
    BY <2>2 DEF Results, Completions
  <2> QED
    BY <2>1, <2>3, <2>4, <2>5, EmptySeq DEF CodexOutputInv, HasLatest
<1>2. CodexOutputInv /\ [CodexLinesNext]_cliVars => CodexOutputInv'
  <2>1. ASSUME CodexOutputInv, UNCHANGED cliVars PROVE CodexOutputInv'
    <3>1. printed' = printed /\ acc' = acc
      BY <2>1 DEF cliVars, parserVars
    <3>2. Said' = Said /\ Paid' = Paid
      BY <3>1 DEF Said, Paid
    <3>3. LastAnswer' = LastAnswer /\ LastCharge' = LastCharge
      BY <3>1 DEF LastAnswer, LastCharge, LastOf
    <3>4. \A id : /\ Results(id)' = Results(id)
                 /\ Completions(id)' = Completions(id)
      BY <3>1 DEF Results, Completions
    <3> QED
      BY <2>1, <3>1, <3>2, <3>3, <3>4 DEF CodexOutputInv, HasLatest
  <2> QED
    BY <2>1, CodexLineKeeps DEF CodexLinesNext
<1> QED
  BY <1>1, <1>2, PTL DEF CodexOutputSpec

\* A run of Codex reports the last answer that is not empty, and charges
\* nothing but the 0 of a usage, whatever its lines and their order
\* (read_stdout).
THEOREM CodexAnswerTheorem == CodexOutputSpec => []AnswerOfTheWholeOutput
<1>1. CodexOutputInv => AnswerOfTheWholeOutput
  BY DEF CodexOutputInv, AnswerOfTheWholeOutput, LastAnswer, LastCharge
<1> QED
  BY <1>1, CodexOutputInvariant, PTL

\* Every tool gets one result for each of its completions
\* (_events_from_item), for any lines and any number of them.
THEOREM OneResultPerToolTheorem == CodexOutputSpec => []OneResultPerTool
<1>1. CodexOutputInv => OneResultPerTool
  BY DEF CodexOutputInv, OneResultPerTool
<1> QED
  BY <1>1, CodexOutputInvariant, PTL

-----------------------------------------------------------------------------
(* The types of all the parts. *)

\* A reader's chunks are published ones, and no more are than the bound.
LEMMA StreamTypes ==
  ASSUME Unskipped, StreamTypeOK, [StreamNext]_streamVars
  PROVE  StreamTypeOK'
<1> USE DEF StreamTypeOK
<1>1. CASE TaskStep
  <2>1. UNCHANGED <<reader, got, page>>
    BY <1>1, TaskStepSettled DEF Unskipped, Settled, readerVars
  <2>2. /\ published' \in Nat /\ trimmed' \in Nat /\ trimmed' <= published'
        /\ published <= published' /\ published \in Nat
    BY <1>1, TaskStepNumbers DEF Unskipped, StreamValues
  <2>3. published' \in 0 .. MaxChunks
    <3>1. CASE PublishChunk
      BY <2>2, <3>1, StreamAssumption DEF PublishChunk
    <3>2. CASE ~PublishChunk
      BY <1>1, <3>2 DEF TaskStep, BeginRun, EndRun, CancelTask, StopPrinting,
                        Retry, TaskExpires, SettleTask
    <3> QED
      BY <3>1, <3>2
  <2>4. status' \in Terminal \cup {"none", "unsettled"}
    BY <1>1 DEF TaskStep, BeginRun, PublishChunk, EndRun, CancelTask,
                StopPrinting, Retry, TaskExpires, SettleTask, Store, Terminal
  <2>5. got \cup page \subseteq 1 .. published'
    BY <2>2
  <2>6. printing' \in 0 .. MaxRunners
    <3>1. CASE BeginRun
      BY <3>1, StreamAssumption DEF BeginRun
    <3>2. CASE EndRun \/ StopPrinting
      BY <3>2, StreamAssumption DEF EndRun, StopPrinting
    <3>3. CASE ~BeginRun /\ ~EndRun /\ ~StopPrinting
      BY <1>1, <3>3 DEF TaskStep, PublishChunk, SettleTask, Retry,
                        CancelTask, TaskExpires
    <3> QED
      BY <3>1, <3>2, <3>3
  <2> QED
    BY <2>1, <2>2, <2>3, <2>4, <2>5, <2>6
<1>2. ASSUME page = {}
      PROVE  Unread \subseteq 1 .. published
  <2>1. /\ cursor \in Nat /\ trimmed \in Nat /\ published \in Nat
        /\ PageSize \in Nat
    BY StreamAssumption DEF Unskipped, StreamValues
  <2> QED
    BY <2>1 DEF Unread, Min2
<1>3. CASE Yield
  <2>1. page # {}
    BY <1>3 DEF Yield
  <2> DEFINE m == CHOOSE n \in page : \A k \in page : n <= k
  <2>2. PICK lo \in Nat, hi \in Nat : page = lo .. hi
    BY DEF Unskipped, StreamValues
  <2>3. lo \in page /\ \A k \in page : lo <= k
    BY <2>1, <2>2
  <2>4. m \in page
    BY <2>3
  <2>5. got' = got \cup {m} /\ page' = page \ {m}
    BY <1>3 DEF Yield
  <2> HIDE DEF m
  <2> QED
    BY <1>3, <2>4, <2>5 DEF Yield, taskSide, taskVars
<1>4. CASE ReadPage
  BY <1>2, <1>4 DEF ReadPage, taskSide, taskVars, Unskipped
<1>5. CASE DrainPage
  BY <1>2, <1>5 DEF DrainPage, taskSide, taskVars, Unskipped
<1>6. CASE \/ FirstLook \/ AskStatus \/ PageDone \/ CheckStatus \/ LastDone
           \/ FinalLook \/ CallerTimeout \/ UNCHANGED streamVars
  BY <1>6 DEF FirstLook, AskStatus, PageDone, CheckStatus, LastDone, FinalLook,
              CallerTimeout, streamVars, readerVars, taskSide, taskVars
<1> QED
  BY <1>1, <1>3, <1>4, <1>5, <1>6 DEF StreamNext, ReaderNext, TaskStep

\* The invariants of the parts; a step of one leaves the others alone.
ServicesInv ==
  /\ SoloInv /\ Covered /\ Unskipped /\ StreamTypeOK /\ WaitInv
  /\ ScoresExplained /\ RegistryInv

\* A step of the composition is a step, or none, of every part.
LEMMA PartsStep ==
  ASSUME [ServicesNext]_serviceVars
  PROVE  /\ [RateNext]_rateVars /\ [CostNext]_costVars
         /\ [StreamNext]_streamVars /\ [BatchNext]_batchVars
         /\ [OrderNext]_orderVars /\ [RegistryNext]_registryVars
  BY DEF ServicesNext, serviceVars

\* Every part keeps to its types, whichever part runs.
THEOREM ServicesTypeCorrect == ServicesSpec => []ServicesTypeOK
<1>1. ServicesInit => ServicesInv
  <2> SUFFICES ASSUME ServicesInit PROVE ServicesInv
    OBVIOUS
  <2>1. SoloInv /\ RegistryInv
    BY SoloInvariant, RegistryInvariant DEF ServicesInit
  <2>2. Covered /\ ScoresExplained
    BY CoveredInit, ScoresExplainedInit DEF ServicesInit
  <2>3. Unskipped /\ StreamTypeOK
    <3>1. StreamInit
      BY DEF ServicesInit
    <3> QED
      BY <3>1, UnskippedInit, StreamAssumption DEF StreamInit, StreamTypeOK
  <2>4. WaitInv
    BY DEF ServicesInit, BatchInit, WaitInv, BatchTypeOK, NotWaited, Ended
  <2> QED
    BY <2>1, <2>2, <2>3, <2>4 DEF ServicesInv
<1>2. ServicesInv /\ [ServicesNext]_serviceVars => ServicesInv'
  <2> SUFFICES ASSUME ServicesInv, [ServicesNext]_serviceVars
               PROVE  ServicesInv'
    OBVIOUS
  <2>1. SoloInv' /\ RegistryInv'
    BY PartsStep, SoloInvariant, RegistryInvariant DEF ServicesInv
  <2>2. Covered' /\ ScoresExplained'
    BY PartsStep, CoveredStep, ScoresExplainedStep DEF ServicesInv
  <2>3. Unskipped' /\ StreamTypeOK'
    BY PartsStep, UnskippedStep, StreamTypes DEF ServicesInv
  <2>4. WaitInv'
    BY PartsStep, WaitInvStays DEF ServicesInv
  <2> QED
    BY <2>1, <2>2, <2>3, <2>4 DEF ServicesInv
<1>3. ServicesInv => ServicesTypeOK
  BY DEF ServicesInv, ServicesTypeOK, SoloInv, Covered, WaitInv,
         ScoresExplained, RegistryInv
<1> QED
  BY <1>1, <1>2, <1>3, PTL DEF ServicesSpec

=============================================================================
