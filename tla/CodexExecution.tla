--------------------------- MODULE CodexExecution ---------------------------
(***************************************************************************)
(* CodexRunnerAdapter (worker/codex_adapter.py): `codex exec` runs on      *)
(* asyncio subprocess pipes, with cancel() and cleanup_all() beside them.  *)
(*                                                                         *)
(* A step is the code between two awaits, or a step of a process.  The two *)
(* pipes are one: its end of file is that of the later one.  What a line   *)
(* says is CliOutput's.  asyncio (external) drops its handle on a process  *)
(* that has exited once the pipes are at their end, and from then on       *)
(* terminate() raises ProcessLookupError.                                  *)
(***************************************************************************)
EXTENDS Naturals, FiniteSets

CONSTANTS
  Job,      \* calls of execute() with distinct task ids
  Timed,    \* those whose options.timeout_sec is an int
  MaxLines  \* bound: lines a process can be ahead of the reader

ASSUME TimedAssumption == Timed \subseteq Job

ASSUME MaxLinesAssumption == MaxLines \in Nat \ {0}

VARIABLES
  phase,      \* where execute(j) is
  verdict,    \* how execute(j) ended
  proc,       \* the codex process
  piped,      \* the jobs whose pipe some process still has open
  backlog,    \* lines written and not yet read
  tracked,    \* CodexRunnerAdapter._active
  request,    \* what cancel(j) has come to
  sigterm,    \* history: the jobs whose process was sent SIGTERM
  wiped,      \* cleanup_all(): not called, returned or raised
  halted,     \* run() is over and asyncio.run has cancelled every task
  dropped,    \* history: in _active at cleanup_all(), never signalled
  behind      \* history: launched behind cancel() or cleanup_all()

atStop == <<halted, dropped, behind>>
codexVars ==
  <<phase, verdict, proc, piped, backlog, tracked, request, sigterm, wiped,
    atStop>>

CodexTypeOK ==
  /\ phase \in [Job -> {"idle", "spawning", "reading", "stopping", "ended"}]
  /\ verdict \in [Job -> {"none", "refused", "missing", "exit", "timeout",
                          "unstoppable", "vanished", "unpublished",
                          "interrupted", "shutdown"}]
  /\ proc \in [Job -> {"none", "running", "exited"}]
  /\ backlog \in [Job -> 0 .. MaxLines]
  /\ request \in [Job -> {"none", "missed", "sent", "raised"}]
  /\ wiped \in {"none", "returned", "raised"}
  /\ halted \in BOOLEAN
  /\ {piped, tracked, sigterm, dropped, behind} \subseteq SUBSET Job

CodexInit ==
  /\ phase = [j \in Job |-> "idle"]
  /\ verdict = [j \in Job |-> "none"]
  /\ proc = [j \in Job |-> "none"]
  /\ backlog = [j \in Job |-> 0]
  /\ request = [j \in Job |-> "none"]
  /\ wiped = "none" /\ halted = FALSE
  /\ piped = {} /\ tracked = {} /\ sigterm = {} /\ dropped = {}
  /\ behind = {}

\* process.terminate() raises: the transport has finished with the process.
Vanished(j) == proc[j] = "exited" /\ j \notin piped

\* The jobs of s whose process gets SIGTERM and has not exited.
Signal(s) == sigterm' = sigterm \cup {j \in s : proc[j] = "running"}

\* execute() leaves; its finally pops j from _active.
Finish(j, v) ==
  /\ phase' = [phase EXCEPT ![j] = "ended"]
  /\ verdict' = [verdict EXCEPT ![j] = v]
  /\ tracked' = tracked \ {j}

-----------------------------------------------------------------------------
(* execute() *)

\* _validate_options objects: exit code 1, no process.
Reject(j) ==
  /\ phase[j] = "idle"
  /\ Finish(j, "refused")
  /\ UNCHANGED <<proc, piped, backlog, request, sigterm, wiped, atStop>>

\* create_subprocess_exec begins.
Launch(j) ==
  /\ phase[j] = "idle" /\ ~halted
  /\ phase' = [phase EXCEPT ![j] = "spawning"]
  /\ UNCHANGED <<verdict, proc, piped, backlog, tracked, request, sigterm,
                 wiped, atStop>>

\* FileNotFoundError: exit code 127.
LaunchFails(j) ==
  /\ phase[j] = "spawning"
  /\ Finish(j, "missing")
  /\ UNCHANGED <<proc, piped, backlog, request, sigterm, wiped, atStop>>

\* The process is there and entered into _active.
Launched(j) ==
  /\ phase[j] = "spawning"
  /\ phase' = [phase EXCEPT ![j] = "reading"]
  /\ proc' = [proc EXCEPT ![j] = "running"]
  /\ piped' = piped \cup {j}
  /\ tracked' = tracked \cup {j}
  /\ behind' = IF request[j] = "none" /\ wiped = "none"
                 THEN behind ELSE behind \cup {j}
  /\ UNCHANGED <<verdict, backlog, request, sigterm, wiped, halted, dropped>>

\* read_stdout or read_stderr takes a line and publishes what it says.
ReadLine(j) ==
  /\ phase[j] = "reading" /\ backlog[j] > 0
  /\ backlog' = [backlog EXCEPT ![j] = @ - 1]
  /\ UNCHANGED <<phase, verdict, proc, piped, tracked, request, sigterm,
                 wiped, atStop>>

\* on_chunk raises (the broker is away) or readline does (a line over the
\* limit): nothing catches it, execute() raises, the process runs on.  (So
\* does the reader of the other pipe, as gather cancels nobody: ChunkStream.)
PublishFails(j) ==
  /\ phase[j] = "reading" /\ backlog[j] > 0
  /\ Finish(j, "unpublished")
  /\ UNCHANGED <<proc, piped, backlog, request, sigterm, wiped, atStop>>

\* Faulty variant: the exit is waited for, the readers are not.
GatheredEarly(j) ==
  /\ phase[j] = "reading" /\ proc[j] = "exited"
  /\ Finish(j, "exit")
  /\ UNCHANGED <<proc, piped, backlog, request, sigterm, wiped, atStop>>

\* gather: both pipes read to their end and the process exited.
Gathered(j) ==
  /\ phase[j] = "reading" /\ Vanished(j) /\ backlog[j] = 0
  /\ Finish(j, "exit")
  /\ UNCHANGED <<proc, piped, backlog, request, sigterm, wiped, atStop>>

\* The timeout: SIGTERM and a wait of two seconds.  terminate() is outside
\* the suppress(ProcessLookupError) and may raise.
CodexTimesOut(j) ==
  /\ phase[j] = "reading" /\ j \in Timed
  /\ IF Vanished(j)
       THEN Finish(j, "vanished") /\ UNCHANGED sigterm
       ELSE /\ phase' = [phase EXCEPT ![j] = "stopping"]
            /\ Signal({j})
            /\ UNCHANGED <<verdict, tracked>>
  /\ UNCHANGED <<proc, piped, backlog, request, wiped, atStop>>

\* The process heeded SIGTERM: exit code -1, "timed out".
Stopped(j) ==
  /\ phase[j] = "stopping" /\ proc[j] = "exited"
  /\ Finish(j, "timeout")
  /\ UNCHANGED <<proc, piped, backlog, request, sigterm, wiped, atStop>>

\* Faulty variant: the wait for the exit has no limit.
StopWaits(j) ==
  /\ phase[j] = "stopping" /\ proc[j] = "exited"
  /\ Finish(j, "unstoppable")
  /\ UNCHANGED <<proc, piped, backlog, request, sigterm, wiped, atStop>>

\* It did not: the inner TimeoutError is not suppressed and escapes.
StopExpires(j) ==
  /\ phase[j] = "stopping" /\ proc[j] = "running"
  /\ Finish(j, "unstoppable")
  /\ UNCHANGED <<proc, piped, backlog, request, sigterm, wiped, atStop>>

-----------------------------------------------------------------------------
(* cancel(), cleanup_all(), and the cancellation of the execute() task. *)

\* Faulty variant: cancel() pops the process and does not signal it.
CodexCancelUnsignalled(j) ==
  /\ phase[j] \in {"spawning", "reading", "stopping"} /\ request[j] = "none"
  /\ ~halted
  /\ tracked' = tracked \ {j}
  /\ request' =
       [request EXCEPT ![j] = IF j \notin tracked THEN "missed" ELSE "sent"]
  /\ UNCHANGED <<phase, verdict, proc, piped, backlog, sigterm, wiped, atStop>>

\* cancel(task_id): one SIGTERM, no waiting, no SIGKILL.
CodexCancel(j) ==
  /\ phase[j] \in {"spawning", "reading", "stopping"} /\ request[j] = "none"
  /\ ~halted
  /\ tracked' = tracked \ {j}
  /\ request' =
       [request EXCEPT ![j] = IF j \notin tracked THEN "missed"
                              ELSE IF Vanished(j) THEN "raised" ELSE "sent"]
  /\ Signal({j} \cap tracked)
  /\ UNCHANGED <<phase, verdict, proc, piped, backlog, wiped, atStop>>

\* cleanup_all(): _active is cleared, the processes are signalled in order;
\* the first that has vanished raises, and the rest is left alone.
CodexCleanup ==
  /\ wiped = "none" /\ ~halted
  /\ tracked' = {}
  /\ \/ /\ ~\E j \in tracked : Vanished(j)
        /\ wiped' = "returned"
        /\ Signal(tracked)
        /\ UNCHANGED dropped
     \/ \E j \in tracked, before \in SUBSET tracked :
          /\ Vanished(j) /\ \A b \in before : ~Vanished(b)
          /\ wiped' = "raised"
          /\ Signal(before)
          /\ dropped' = tracked \ (before \cup {j})
  /\ UNCHANGED <<phase, verdict, proc, piped, backlog, request, halted,
                 behind>>

\* run() returns, or raises: asyncio.run cancels all tasks of the loop.
LoopHalts ==
  /\ ~halted
  /\ halted' = TRUE
  /\ UNCHANGED <<phase, verdict, proc, piped, backlog, tracked, request,
                 sigterm, wiped, dropped, behind>>

\* The execute() task is cancelled: by its processor after cancel(), by
\* stop() after a cleanup_all() that returned, or by asyncio.run, also after
\* a cleanup_all() that raised.  Creating a process is undone by asyncio; a
\* running one is left running.
CodexInterrupt(j) ==
  /\ phase[j] \in {"spawning", "reading", "stopping"}
  /\ request[j] # "none" \/ wiped = "returned" \/ halted
  /\ Finish(j, IF halted THEN "shutdown" ELSE "interrupted")
  /\ UNCHANGED <<proc, piped, backlog, request, sigterm, wiped, atStop>>

-----------------------------------------------------------------------------
(* The codex process and its descendants. *)

\* Faulty variant: no limit.
CodexWritesOn(j) ==
  /\ j \in piped
  /\ backlog' = [backlog EXCEPT ![j] = @ + 1]
  /\ UNCHANGED <<phase, verdict, proc, piped, tracked, request, sigterm,
                 wiped, atStop>>

\* A process on the pipe prints a line.
CodexWrites(j) ==
  /\ j \in piped /\ backlog[j] < MaxLines
  /\ backlog' = [backlog EXCEPT ![j] = @ + 1]
  /\ UNCHANGED <<phase, verdict, proc, piped, tracked, request, sigterm,
                 wiped, atStop>>

\* codex exits, by itself or on a signal.
CodexExits(j) ==
  /\ proc[j] = "running"
  /\ proc' = [proc EXCEPT ![j] = "exited"]
  /\ UNCHANGED <<phase, verdict, piped, backlog, tracked, request, sigterm,
                 wiped, atStop>>

\* The last process with the pipes open goes, at or after codex's exit.
PipesClose(j) ==
  /\ j \in piped /\ proc[j] = "exited"
  /\ piped' = piped \ {j}
  /\ UNCHANGED <<phase, verdict, proc, backlog, tracked, request, sigterm,
                 wiped, atStop>>

-----------------------------------------------------------------------------
CodexNext ==
  \/ \E j \in Job :
       \/ Reject(j) \/ Launch(j) \/ LaunchFails(j) \/ Launched(j)
       \/ ReadLine(j) \/ PublishFails(j) \/ Gathered(j)
       \/ CodexTimesOut(j) \/ Stopped(j) \/ StopExpires(j)
       \/ CodexCancel(j) \/ CodexInterrupt(j)
       \/ CodexWrites(j) \/ CodexExits(j) \/ PipesClose(j)
  \/ CodexCleanup \/ LoopHalts

\* The coroutine of execute() goes on when its timers fire; the process is
\* obliged to nothing.
CodexProceeds(j) == CodexTimesOut(j) \/ Stopped(j) \/ StopExpires(j)

CodexFairness == \A j \in Job : WF_codexVars(CodexProceeds(j))

CodexSpec == CodexInit /\ [][CodexNext]_codexVars /\ CodexFairness

-----------------------------------------------------------------------------
(* Properties. *)

\* A result with the CLI's exit code is built from all of its output: the
\* pipes are at their end and no line is left unread.
CodexResultComplete ==
  \A j \in Job : verdict[j] = "exit" =>
    proc[j] = "exited" /\ j \notin piped /\ backlog[j] = 0

\* A process that outlives its execute() was sent SIGTERM, unless publishing
\* failed, or cleanup_all() broke off before it, or it was launched behind a
\* cancel() or cleanup_all() that found no entry in _active and execute()
\* was interrupted then, or execute() was cancelled by asyncio.run itself.
CodexNoOrphan ==
  \A j \in Job : phase[j] = "ended" /\ proc[j] = "running" =>
    \/ j \in sigterm \cup dropped
    \/ verdict[j] \in {"unpublished", "shutdown"}
    \/ verdict[j] = "interrupted" /\ j \in behind

\* A run with a timeout ends, whatever its process does.
CodexEnds == \A j \in Timed : phase[j] = "reading" ~> phase[j] = "ended"

=============================================================================
