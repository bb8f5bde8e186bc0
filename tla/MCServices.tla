---------------------------- MODULE MCServices ----------------------------
(***************************************************************************)
(* Model checking of the parts around the task system: the output of a     *)
(* CLI, the rate limit, the budgets, the chunk stream, batches, the order  *)
(* of a queue and the registry of workers.  They share nothing that is     *)
(* modelled, so a behaviour is one of a single part; `service` says which, *)
(* the variables of the others keep one initial value, and the state space *)
(* is a sum.                                                               *)
(***************************************************************************)
EXTENDS CliOutput, RateLimit, CostControl, ChunkStream, BatchRunner,
        QueueOrder, WorkerRegistry, TLC

CONSTANTS p1, p2, a1, a2, a3, h1, h2, i1, i2, k1, k2,
          w1, w2, w3

MCProcessor == {p1, p2}
MCAgent == {a1, a2, a3}
MCHost == {h1, h2}
MCHostOf == (a1 :> h1) @@ (a2 :> h1) @@ (a3 :> h2)
MCItem == {i1, i2}
MCTicket == {k1, k2}
MCMember == {w1, w2, w3}
MCReaper == {w1, w2}

\* Outputs with a character across chunks, blank and empty lines, a lone
\* half, and a tail without a newline.
MCText ==
  { <<"a", "high", "low", "newline", "blank", "a", "newline", "newline", "a">>,
    <<"low", "newline", "high", "newline", "blank", "newline", "high", "low">>,
    <<"newline", "a", "blank", "a", "newline", "high", "a", "newline">> }

Final(said, cost, legacy, usage) ==
  [type |-> "result", text |-> said, total |-> cost, legacy |-> legacy,
   usage |-> usage, session |-> "s"]

MCClaudeLine ==
  { Final("x", 0, None, TRUE), Final("", None, 2, FALSE),
    Final("y", None, None, TRUE), Final("y", 0, 2, TRUE),
    [type |-> "assistant", blocks |-> <<[type |-> "text", text |-> "x"],
                                        [type |-> "tool_use"]>>],
    [type |-> "assistant", blocks |-> <<[type |-> "thinking", text |-> "x"],
                                        [type |-> "text", text |-> ""]>>],
    [type |-> "user", blocks |-> <<[type |-> "tool_result"]>>],
    [type |-> "tool_result"],
    [type |-> "system", subtype |-> "init", error |-> "", session |-> "s"],
    [type |-> "system", subtype |-> "api_retry", error |-> "billing_error",
     session |-> None],
    [type |-> "system", subtype |-> "api_retry", error |-> "rate_limit",
     session |-> None],
    [type |-> "stream_event", delta |-> "text", text |-> "x"],
    [type |-> "junk"] }

ItemLine(type, item, id, said) ==
  [type |-> type, item |-> item, id |-> id, text |-> said]

MCCodexLine ==
  { ItemLine("item.completed", "agent_message", 0, "x"),
    ItemLine("item.completed", "agent_message", 0, "y"),
    ItemLine("item.completed", "agent_message", 0, ""),
    ItemLine("item.started", "tool", 1, ""),
    ItemLine("item.updated", "tool", 1, ""),
    ItemLine("item.completed", "tool", 1, ""),
    ItemLine("item.completed", "tool", 2, ""),
    ItemLine("item.updated", "reasoning", 3, ""),
    [type |-> "thread.started", session |-> "s"],
    [type |-> "turn.completed", usage |-> TRUE],
    [type |-> "turn.completed", usage |-> FALSE],
    [type |-> "turn.failed"], [type |-> "junk"], [type |-> "array"],
    [type |-> "other"] }

VARIABLE service

serviceVars ==
  <<cliVars, rateVars, costVars, streamVars, batchVars, orderVars,
    registryVars, service>>

\* One initial value for the parts that do not run.
AtRest ==
  /\ service # "buffer" => text = CHOOSE t \in Text : TRUE
  /\ service # "limit" => procs = Processor
  /\ service # "stream" => method = "result"
  /\ service # "order" => priority = [t \in Ticket |-> Normal]

ServicesInit ==
  /\ service \in {"buffer", "claude", "codex", "limit", "cost", "stream",
                  "batch", "order", "registry"}
  /\ CliInit /\ RateInit /\ CostInit /\ StreamInit /\ BatchInit /\ OrderInit
  /\ RegistryInit
  /\ AtRest

ServicesNext ==
  /\ UNCHANGED service
  /\ \/ /\ \/ service = "buffer" /\ BufferNext
           \/ service = "claude" /\ ClaudeNext
           \/ service = "codex" /\ CodexLinesNext
        /\ UNCHANGED <<rateVars, costVars, streamVars, batchVars, orderVars,
                       registryVars>>
     \/ /\ service = "limit" /\ RateNext
        /\ UNCHANGED <<cliVars, costVars, streamVars, batchVars, orderVars,
                       registryVars>>
     \/ /\ service = "cost" /\ CostNext
        /\ UNCHANGED <<cliVars, rateVars, streamVars, batchVars, orderVars,
                       registryVars>>
     \/ /\ service = "stream" /\ StreamNext
        /\ UNCHANGED <<cliVars, rateVars, costVars, batchVars, orderVars,
                       registryVars>>
     \/ /\ service = "batch" /\ BatchNext
        /\ UNCHANGED <<cliVars, rateVars, costVars, streamVars, orderVars,
                       registryVars>>
     \/ /\ service = "registry" /\ RegistryNext
        /\ UNCHANGED <<cliVars, rateVars, costVars, streamVars, batchVars,
                       orderVars>>
     \/ /\ service = "order" /\ OrderNext
        /\ UNCHANGED <<cliVars, rateVars, costVars, streamVars, batchVars,
                       registryVars>>

\* The fairness of each part; nobody registers while another part runs.
ServicesFairness ==
  /\ WF_serviceVars(service = "stream" /\ ReaderNext /\ UNCHANGED service
       /\ UNCHANGED <<cliVars, rateVars, costVars, batchVars, orderVars,
                      registryVars>>)
  /\ WF_serviceVars(service = "batch" /\ PollingNext /\ UNCHANGED service
       /\ UNCHANGED <<cliVars, rateVars, costVars, streamVars, orderVars,
                      registryVars>>)
  /\ RegistryFairness

ServicesSpec ==
  ServicesInit /\ [][ServicesNext]_serviceVars /\ ServicesFairness

\* Every part keeps to its types.
ServicesTypeOK ==
  RateTypeOK /\ CostTypeOK /\ StreamTypeOK /\ BatchTypeOK /\ OrderTypeOK
  /\ RegistryTypeOK

=============================================================================
