--------------------------- MODULE TaskLifecycle ---------------------------
(***************************************************************************)
(* What the queue promises its users, without workers, queues or Redis: a  *)
(* submitted task is open until it is settled (run to an end or cancelled, *)
(* and acknowledged) or buried (in the DLQ).  A settled task stays settled *)
(* whatever happens; only an operator takes a task out of the DLQ, to open *)
(* it again or to discard it; an operator's retry that read the DLQ before *)
(* a purge brings the discarded task back.                                 *)
(***************************************************************************)
CONSTANT Task

VARIABLE stage

Stage == {"new", "open", "settled", "buried", "discarded"}

Init == stage = [t \in Task |-> "new"]

Move(t, from, to) ==
  stage[t] \in from /\ stage' = [stage EXCEPT ![t] = to]

Submit(t) == Move(t, {"new"}, "open")

Settle(t) == Move(t, {"open"}, "settled")

Bury(t) == Move(t, {"open"}, "buried")

Revive(t) == Move(t, {"buried", "discarded"}, "open")

\* The DLQ of a queue is dropped as a whole.
Discard(ts) ==
  /\ ts # {} /\ \A t \in ts : stage[t] = "buried"
  /\ stage' = [t \in Task |-> IF t \in ts THEN "discarded" ELSE stage[t]]

Next ==
  \/ \E t \in Task : Submit(t) \/ Settle(t) \/ Bury(t) \/ Revive(t)
  \/ \E ts \in SUBSET Task : Discard(ts)

\* An open task does not stay open for ever.
Spec ==
  /\ Init /\ [][Next]_stage
  /\ \A t \in Task : WF_stage(Settle(t) \/ Bury(t))
=============================================================================
