---------------------------- MODULE MCExecutors ----------------------------
(***************************************************************************)
(* Model checking of the two runner adapters.  They share nothing, so a    *)
(* behaviour is one of the Claude executor or one of the Codex adapter;    *)
(* `provider` says which, and the other's variables keep their initial     *)
(* values: the state space is the sum of the two, not the product.         *)
(***************************************************************************)
EXTENDS PtyExecution, CodexExecution

CONSTANTS r1, r2, j1, j2

MCRun == {r1, r2}
MCFd == {7, 8}
MCJob == {j1, j2}
MCTimed == {j1}
MCMaxLines == 1

VARIABLE provider

execVars == <<ptyVars, codexVars, provider>>

ExecInit ==
  /\ PtyInit
  /\ CodexInit
  /\ provider \in {"claude", "codex"}

ExecNext ==
  /\ UNCHANGED provider
  /\ \/ provider = "claude" /\ PtyNext /\ UNCHANGED codexVars
     \/ provider = "codex" /\ CodexNext /\ UNCHANGED ptyVars

ExecSpec == ExecInit /\ [][ExecNext]_execVars /\ PtyFairness /\ CodexFairness

\* Both adapters keep to their types.
ExecTypeOK == PtyTypeOK /\ CodexTypeOK

=============================================================================
