---------------------------- MODULE BatchRunner ----------------------------
(***************************************************************************)
(* BatchRunner (batch.py): submit_batch, wait_batch and get_batch_status,  *)
(* a caller that reads one task hash after the other while the tasks go    *)
(* on.  Every await of the caller is a step boundary.                      *)
(*                                                                         *)
(* A task is its stored status, "none" while the hash does not exist.      *)
(* Every store is blind (update_task is an HSET of the caller's copy): a   *)
(* client cancels a settled task, a second worker runs what is over, a     *)
(* late outcome revives a hash that has expired.  So any status may follow *)
(* any other.                                                              *)
(***************************************************************************)
EXTENDS Naturals, Sequences, FiniteSets

CONSTANT Item  \* the tasks of the batch

ASSUME ItemAssumption == IsFiniteSet(Item)

VARIABLES
  stored,    \* stored[i]: the status in the task's hash
  call,      \* where the caller is
  toRead,    \* ids this round, or this count, has still to read
  unsettled, \* wait_batch: pending
  settled,   \* wait_batch: done, the ids of this round
  results,   \* wait_batch: the snapshots collected
  timedOut,  \* wait_for has cancelled the polling
  counted,   \* get_batch_status: the statuses it has read
  report,    \* get_batch_status: what it returned
  past       \* history: past[i], how task i has ended so far

waitVars == <<unsettled, settled, results, timedOut>>
countVars == <<counted, report>>
batchVars == <<stored, call, toRead, waitVars, countVars, past>>

Ended == {"done", "failed", "cancelled"}

BatchTypeOK ==
  /\ stored \in [Item -> Ended \cup {"none", "pending", "running", "retrying"}]
  /\ call \in {"submitting", "submitted", "polling", "asleep", "collecting",
               "counting", "failed", "returned"}
  /\ toRead \cup unsettled \cup settled \subseteq Item
  /\ results \in Seq([id : Item, status : Ended])
  /\ past \in [Item -> SUBSET {"done", "failed"}]

BatchInit ==
  /\ stored = [i \in Item |-> "none"]
  /\ call = "submitting" /\ toRead = {}
  /\ unsettled = {} /\ settled = {} /\ results = <<>> /\ timedOut = FALSE
  /\ counted = [i \in Item |-> "none"] /\ report = "nothing"
  /\ past = [i \in Item |-> {}]

-----------------------------------------------------------------------------
(* The tasks. *)

\* The task has been enqueued, though it may have expired since.
Handed(i) == stored[i] # "none" \/ call \notin {"submitting", "failed"}

\* What get_batch_status counts a terminal status as.
Outcome(s) ==
  CASE s = "done" -> {"done"}
    [] s \in {"failed", "cancelled"} -> {"failed"}
    [] OTHER -> {}

\* A worker, the retry middleware, a cancelling client or an operator stores
\* a status, whatever is stored, or the TTL runs out.
TaskMoves(i) ==
  /\ Handed(i)
  /\ \E s \in Ended \cup {"none", "pending", "running", "retrying"} :
       /\ stored' = [stored EXCEPT ![i] = s]
       /\ past' = [past EXCEPT ![i] = @ \cup Outcome(s)]
  /\ UNCHANGED <<call, toRead, waitVars, countVars>>

-----------------------------------------------------------------------------
(* submit_batch *)

\* One enqueue; the ids are returned after the last one.
SubmitItem(i) ==
  /\ call = "submitting" /\ stored[i] = "none" /\ i \notin toRead
  /\ stored' = [stored EXCEPT ![i] = "pending"]
  /\ toRead' = toRead \cup {i}
  /\ UNCHANGED <<call, waitVars, countVars, past>>

\* An enqueue raises: its task may be stored or not, the caller gets no id of
\* those that are.
SubmitFails ==
  /\ call = "submitting" /\ toRead # Item
  /\ call' = "failed"
  /\ UNCHANGED <<stored, toRead, waitVars, countVars, past>>

SubmitDone ==
  /\ call = "submitting" /\ toRead = Item
  /\ call' = "submitted"
  /\ UNCHANGED <<stored, toRead, waitVars, countVars, past>>

-----------------------------------------------------------------------------
(* wait_batch *)

WaitBegin ==
  /\ call = "submitted"
  /\ call' = "polling"
  /\ unsettled' = Item /\ toRead' = Item
  /\ report' = "nothing"
  /\ UNCHANGED <<stored, settled, results, timedOut, counted, past>>

Snapshot(i) == [id |-> i, status |-> stored[i]]

\* Faulty variant: a snapshot is collected, its id not marked as done.
PollItemUnmarked(i) ==
  /\ call = "polling" /\ i \in toRead
  /\ toRead' = toRead \ {i}
  /\ IF stored[i] \in Ended
       THEN results' = Append(results, Snapshot(i))
       ELSE UNCHANGED results
  /\ UNCHANGED <<stored, call, settled, unsettled, timedOut, countVars, past>>

\* Faulty variant: cancelled tasks are waited for.
PollItemPartly(i) ==
  /\ call = "polling" /\ i \in toRead
  /\ toRead' = toRead \ {i}
  /\ IF stored[i] \in {"done", "failed"}
       THEN /\ results' = Append(results, Snapshot(i))
            /\ settled' = settled \cup {i}
       ELSE UNCHANGED <<results, settled>>
  /\ UNCHANGED <<stored, call, unsettled, timedOut, countVars, past>>

\* One get_task of a round: a settled task is collected as it is now.
PollItem(i) ==
  /\ call = "polling" /\ i \in toRead
  /\ toRead' = toRead \ {i}
  /\ IF stored[i] \in Ended
       THEN /\ results' = Append(results, Snapshot(i))
            /\ settled' = settled \cup {i}
       ELSE UNCHANGED <<results, settled>>
  /\ UNCHANGED <<stored, call, unsettled, timedOut, countVars, past>>

\* The end of a round: only now are its settled ids no longer pending.
RoundEnds ==
  /\ call = "polling" /\ toRead = {}
  /\ unsettled' = unsettled \ settled
  /\ settled' = {}
  /\ call' = IF unsettled \ settled = {} THEN "returned" ELSE "asleep"
  /\ UNCHANGED <<stored, toRead, results, timedOut, countVars, past>>

NextRound ==
  /\ call = "asleep"
  /\ call' = "polling"
  /\ toRead' = unsettled
  /\ UNCHANGED <<stored, waitVars, countVars, past>>

\* wait_for gives up at any await; what is still pending is read once more.
WaitTimeout ==
  /\ \/ call = "asleep"
     \/ call = "polling" /\ toRead # {}
  /\ call' = "collecting"
  /\ timedOut' = TRUE
  /\ toRead' = unsettled
  /\ UNCHANGED <<stored, unsettled, settled, results, countVars, past>>

CollectItem(i) ==
  /\ call = "collecting" /\ i \in toRead
  /\ toRead' = toRead \ {i}
  /\ results' = IF stored[i] \in Ended THEN Append(results, Snapshot(i))
                ELSE results
  /\ UNCHANGED <<stored, call, unsettled, settled, timedOut, countVars, past>>

CollectDone ==
  /\ call = "collecting" /\ toRead = {}
  /\ call' = "returned"
  /\ UNCHANGED <<stored, toRead, waitVars, countVars, past>>

-----------------------------------------------------------------------------
(* get_batch_status *)

CountBegin ==
  /\ call = "submitted"
  /\ call' = "counting"
  /\ toRead' = Item /\ report' = "nothing"
  /\ UNCHANGED <<stored, waitVars, counted, past>>

CountItem(i) ==
  /\ call = "counting" /\ i \in toRead
  /\ toRead' = toRead \ {i}
  /\ counted' = [counted EXCEPT ![i] = stored[i]]
  /\ UNCHANGED <<stored, call, waitVars, report, past>>

Counted(statuses) == {i \in Item : counted[i] \in statuses}

\* Faulty variant: the totals are those of the tasks found.
BatchStatusOfSeen ==
  LET seen == Item \ Counted({"none"})
  IN  CASE seen = {} -> "pending"
        [] Counted({"done"}) = seen -> "completed"
        [] Counted({"failed", "cancelled"}) = seen -> "failed"
        [] Counted(Ended) = seen -> "partial_failure"
        [] Counted(Ended \cup {"running"}) # {} -> "running"
        [] OTHER -> "pending"

\* The rules in their order.
BatchStatus ==
  IF Counted({"none"}) = Item THEN "pending"
  ELSE IF Counted({"done"}) = Item THEN "completed"
  ELSE IF Counted({"failed", "cancelled"}) = Item THEN "failed"
  ELSE IF Counted(Ended) = Item THEN "partial_failure"
  ELSE IF Counted(Ended \cup {"running"}) # {} THEN "running"
  ELSE "pending"

CountDone ==
  /\ call = "counting" /\ toRead = {}
  /\ call' = "submitted"
  /\ report' = BatchStatus
  /\ counted' = [i \in Item |-> "none"]
  /\ UNCHANGED <<stored, toRead, waitVars, past>>

-----------------------------------------------------------------------------
\* The polling loop runs on its own; the timeout may or may not come first.
PollingNext ==
  \/ \E i \in Item : PollItem(i) \/ CollectItem(i)
  \/ RoundEnds \/ NextRound \/ CollectDone

BatchNext ==
  \/ \E i \in Item : TaskMoves(i) \/ SubmitItem(i) \/ CountItem(i)
  \/ SubmitFails \/ SubmitDone \/ WaitBegin \/ WaitTimeout
  \/ CountBegin \/ CountDone
  \/ PollingNext

BatchFairness == WF_batchVars(PollingNext)

BatchSpec == BatchInit /\ [][BatchNext]_batchVars /\ BatchFairness

-----------------------------------------------------------------------------
(* Properties. *)

Occurrences(i) == Cardinality({k \in DOMAIN results : results[k].id = i})

\* wait_batch returns every task once, however its reads interleave with the
\* tasks; a timeout in the middle of a round may collect a task a second
\* time, in another status perhaps, but no more often.
EachTaskOnce ==
  \A i \in Item :
    /\ Occurrences(i) <= IF timedOut THEN 2 ELSE 1
    /\ Occurrences(i) = 2 => i \in settled
    /\ call = "returned" /\ ~timedOut => Occurrences(i) = 1

\* The summary of reads at different times is true of the batch's history:
\* COMPLETED is reported when every task has been done, FAILED when every
\* task failed or was cancelled, PARTIAL_FAILURE when every task ended.
ReportIsBacked ==
  /\ report = "completed" => \A i \in Item : "done" \in past[i]
  /\ report = "failed" => \A i \in Item : "failed" \in past[i]
  /\ report = "partial_failure" => \A i \in Item : past[i] # {}

\* A wait for tasks that stay settled returns without its timeout.
WaitEnds ==
  <>[](call \in {"polling", "asleep", "collecting", "returned"}
       /\ \A i \in Item : stored[i] \in Ended)
    => <>(call = "returned")

=============================================================================
