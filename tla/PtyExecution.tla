---------------------------- MODULE PtyExecution ----------------------------
(***************************************************************************)
(* ClaudeCodeExecutor (worker/executor.py) and PTYProcess                  *)
(* (worker/pty_process.py): runs of the Claude CLI on pseudo-terminals,    *)
(* all on one event loop, with cancel() and cleanup_all() beside them.     *)
(*                                                                         *)
(* A step is the code between two awaits (the asyncio.Lock never           *)
(* suspends: its sections hold no await), or a step of a process or of     *)
(* the kernel.  Descriptor numbers are kept, because the selector of the   *)
(* loop is keyed by number and a closed number is used again.  Time is     *)
(* left out: a deadline may pass whenever the code would look at it.       *)
(* What the CLI prints is left out too: CliOutput has it.                  *)
(* Once run() is over, asyncio.run cancels every task at the await where   *)
(* it is (`closing`).  After SIGTERM that is within a second, mostly while *)
(* stop() still waits for the runs and has not called cleanup_all().  What *)
(* goes on even then is a read loop whose `done` was set at that moment:   *)
(* up to Python 3.11 asyncio.wait_for returns the answer and drops the     *)
(* cancellation.                                                           *)
(***************************************************************************)
EXTENDS Naturals, FiniteSets

CONSTANTS
  Run,      \* calls of execute() with distinct task ids
  Fd,       \* descriptor numbers free for pty masters
  NoRun     \* no run: a free number, no callback

ASSUME FdAssumption == Fd \subseteq Nat

ASSUME NoRunAssumption == NoRun \notin Run

VARIABLES
  exec,      \* where execute(r) is
  outcome,   \* how execute(r) ended
  child,     \* the forked CLI process
  tty,       \* the runs whose slave side some process still has open
  done,      \* the runs whose `done` event is set
  master,    \* master[r]: process.master_fd, a number
  closed,    \* the runs with process._closed
  file,      \* kernel: file[n] is the run whose pty master n refers to
  polled,    \* kernel: the runs whose open pty master is in the epoll set
  callback,  \* selector map: callback[n] is the run whose reader n has
  active,    \* ClaudeCodeExecutor._active
  stage,     \* stage[c][r]: the terminate() that caller c awaits on run r
  sweep,     \* cleanup_all: the processes still to terminate
  cleanup,   \* cleanup_all: where it is
  closing,   \* run() is over and asyncio.run has cancelled every task
  snatched,  \* history: runs closed by another caller under their reader
  late       \* history: runs spawned after cleanup_all's snapshot

frame == <<exec, outcome, active, done>>
files == <<master, closed, file, polled, callback>>
sweeping == <<sweep, cleanup, closing>>
history == <<snatched, late>>
ptyVars == <<frame, files, child, tty, stage, sweeping, history>>

\* Who awaits terminate(): the read loop, cancel(), cleanup_all().
Caller == {"exec", "cancel", "cleanup"}

\* The caller waits for the process after SIGHUP, SIGTERM or SIGKILL.
Signalled == {"hup", "term", "kill"}

Reading(r) == exec[r] \in {"reading", "terminating"}

PtyTypeOK ==
  /\ exec \in [Run -> {"idle", "reading", "terminating", "exiting",
                       "forcing", "ended"}]
  /\ outcome \in [Run -> {"none", "exit", "lost", "timeout",
                          "stream_error", "interrupted", "shutdown"}]
  /\ child \in [Run -> {"none", "running", "zombie", "reaped"}]
  /\ master \in [Run -> Fd \cup {NoRun}]
  /\ file \in [Fd -> Run \cup {NoRun}]
  /\ callback \in [Fd -> Run \cup {NoRun}]
  /\ stage \in [Caller -> [Run -> Signalled \cup {"none", "back",
                                                  "missed", "cut"}]]
  /\ cleanup \in {"none", "sweeping", "returned", "broken"}
  /\ closing \in BOOLEAN
  /\ {tty, done, closed, polled, active, sweep, snatched, late}
       \subseteq SUBSET Run

PtyInit ==
  /\ exec = [r \in Run |-> "idle"]
  /\ outcome = [r \in Run |-> "none"]
  /\ child = [r \in Run |-> "none"]
  /\ master = [r \in Run |-> NoRun]
  /\ file = [n \in Fd |-> NoRun]
  /\ callback = [n \in Fd |-> NoRun]
  /\ stage = [c \in Caller |-> [r \in Run |-> "none"]]
  /\ cleanup = "none" /\ closing = FALSE
  /\ tty = {} /\ done = {} /\ closed = {} /\ polled = {}
  /\ active = {} /\ sweep = {} /\ snatched = {} /\ late = {}

-----------------------------------------------------------------------------
(* Descriptors and readers. *)

\* Faulty variant: _close_fd without the _closed flag.
CloseFdAlways(r) ==
  /\ closed' = closed \cup {r}
  /\ file' = [file EXCEPT ![master[r]] = NoRun]
  /\ polled' = polled \ {file[master[r]]}

\* _close_fd: closing the file takes it out of the epoll set as well.
CloseFd(r) ==
  /\ closed' = closed \cup {r}
  /\ IF r \in closed
       THEN UNCHANGED <<file, polled>>
       ELSE /\ file' = [file EXCEPT ![master[r]] = NoRun]
            /\ polled' = polled \ {r}

\* remove_reader(n): forgets the callback of the number, whoever has it
\* now, and takes the file that the number refers to out of the epoll set.
RemoveReader(n) ==
  /\ callback' = [callback EXCEPT ![n] = NoRun]
  /\ polled' = polled \ {file[n]}
  /\ UNCHANGED file

\* The read loop after its terminate(): the master is closed, by now or by
\* another caller before, and the finally removes the reader of the number,
\* which may refer to the terminal of a later run.
CloseUnderReader(r) ==
  /\ closed' = closed \cup {r}
  /\ file' = IF r \in closed THEN file
              ELSE [file EXCEPT ![master[r]] = NoRun]
  /\ callback' = [callback EXCEPT ![master[r]] = NoRun]
  /\ polled' = polled \ {file[master[r]]}

\* Faulty variant: waitpid takes the exit status and the pty stays open.
ReapOnly(r) ==
  /\ child' = [child EXCEPT ![r] = "reaped"]
  /\ UNCHANGED <<closed, file, polled>>

\* waitpid takes the exit status, then the master is closed.
Reap(r) ==
  /\ child' = [child EXCEPT ![r] = "reaped"]
  /\ CloseFd(r)

\* execute() leaves with outcome o: its finally drops r from _active, its
\* locals go.
Leave(r, o) ==
  /\ exec' = [exec EXCEPT ![r] = "ended"]
  /\ outcome' = [outcome EXCEPT ![r] = o]
  /\ active' = active \ {r}
  /\ done' = done \ {r}

-----------------------------------------------------------------------------
(* execute(): spawn, read, wait for the exit. *)

FreeFd == {n \in Fd : file[n] = NoRun}

\* openpty takes the lowest free number; fork; _active; add_reader.  If the
\* number still has a reader, the selector only swaps the callback
\* (selectors' modify() with the same events makes no epoll_ctl call).
Spawn(r) ==
  /\ exec[r] = "idle" /\ ~closing
  /\ \E n \in FreeFd :
       /\ \A m \in FreeFd : n <= m
       /\ master' = [master EXCEPT ![r] = n]
       /\ file' = [file EXCEPT ![n] = r]
       /\ callback' = [callback EXCEPT ![n] = r]
       /\ polled' = IF callback[n] = NoRun THEN polled \cup {r} ELSE polled
  /\ exec' = [exec EXCEPT ![r] = "reading"]
  /\ child' = [child EXCEPT ![r] = "running"]
  /\ tty' = tty \cup {r}
  /\ active' = active \cup {r}
  /\ late' = IF cleanup = "none" THEN late ELSE late \cup {r}
  /\ UNCHANGED <<outcome, done, closed, stage, sweeping, snatched>>

\* _on_readable, for the reader that the number of r's file has: nothing
\* has r's terminal open any more (EIO), so the reader sets its `done`.
\* Output it reads goes into its LineBuffer, which is left out.
OnReadable(r) ==
  /\ r \in polled \ tty
  /\ done' = done \cup {callback[master[r]]}
  /\ UNCHANGED <<exec, outcome, active, files, child, tty, stage, sweeping,
                 history>>

\* Faulty variant: the reader stays when the loop is left by an exception.
StreamFailsListening(r) ==
  /\ exec[r] = "reading" /\ r \in polled \cup closed
  /\ Leave(r, "stream_error")
  /\ UNCHANGED <<files, child, tty, stage, sweeping, history>>

\* A line that was read (so the run has not been deaf from the start) raises
\* BillingError or ClaudeAuthError: the finally blocks remove
\* the reader and the _active entry, nothing stops or reaps the process.
StreamFails(r) ==
  /\ exec[r] = "reading" /\ r \in polled \cup closed
  /\ RemoveReader(master[r])
  /\ Leave(r, "stream_error")
  /\ UNCHANGED <<master, closed, child, tty, stage, sweeping, history>>

\* Faulty variant: the reader stays when the loop ends.
ReadEndsListening(r) ==
  /\ exec[r] = "reading" /\ r \in done
  /\ exec' = [exec EXCEPT ![r] = "exiting"]
  /\ UNCHANGED <<outcome, active, done, files, child, tty, stage, sweeping,
                 history>>

\* `done` is set: the loop ends, the rest is handled, the reader goes.
ReadEnds(r) ==
  /\ exec[r] = "reading" /\ r \in done
  /\ exec' = [exec EXCEPT ![r] = "exiting"]
  /\ RemoveReader(master[r])
  /\ UNCHANGED <<outcome, active, done, master, closed, child, tty, stage,
                 sweeping, history>>

\* Faulty variant: _wait_for_exit returns without _close_fd.
WaitExitOpen(r) ==
  /\ exec[r] = "exiting"
  /\ \/ child[r] = "zombie" /\ ReapOnly(r) /\ Leave(r, "exit")
     \/ child[r] = "reaped" /\ CloseFd(r) /\ Leave(r, "lost")
        /\ UNCHANGED child
  /\ UNCHANGED <<master, callback, tty, stage, sweeping, history>>

\* _wait_for_exit finds the exit status, or (ChildProcessError) that a
\* terminate() took it, and then reports -1.
WaitExit(r) ==
  /\ exec[r] = "exiting"
  /\ \/ child[r] = "zombie" /\ Reap(r) /\ Leave(r, "exit")
     \/ child[r] = "reaped" /\ CloseFd(r) /\ Leave(r, "lost")
        /\ UNCHANGED child
  /\ UNCHANGED <<master, callback, tty, stage, sweeping, history>>

-----------------------------------------------------------------------------
(* terminate(): SIGHUP, SIGTERM, SIGKILL, each followed by a wait. *)

\* terminate() of a live process (a zombie counts) sends SIGHUP and waits.
\* The signal obliges the process to nothing.
SendHup(c, r) ==
  /\ child[r] # "reaped"
  /\ stage' = [stage EXCEPT ![c][r] = "hup"]

\* The caller's own step when terminate() has reaped r: the read loop raises
\* (or reports the forced exit), the others go on.
TerminateReturns(c, r) ==
  /\ stage' =
       [stage EXCEPT ![c][r] = IF c = "exec" THEN "none" ELSE "back"]
  /\ IF c = "exec"
       THEN /\ Leave(r, IF exec[r] = "forcing" THEN "lost" ELSE "timeout")
            /\ UNCHANGED snatched
       ELSE /\ snatched' = IF r \notin closed /\ Reading(r)
                             THEN snatched \cup {r} ELSE snatched
            /\ UNCHANGED frame

\* _wait sees the process gone: _reap closes the master and returns.
TermWaits(c, r) ==
  /\ stage[c][r] \in Signalled /\ ~closing
  /\ child[r] \in {"zombie", "reaped"}
  /\ child' = [child EXCEPT ![r] = "reaped"]
  /\ IF c = "exec" /\ exec[r] = "terminating"
       THEN CloseUnderReader(r)
       ELSE CloseFd(r) /\ UNCHANGED callback
  /\ TerminateReturns(c, r)
  /\ UNCHANGED <<tty, master, sweeping, late>>

\* The grace period passes: SIGTERM, then SIGKILL to the group, which ends
\* the process at once (a kill that takes longer than the last wait of one
\* second is left out).
TermEscalates(c, r) ==
  /\ child[r] = "running" /\ ~closing
  /\ \/ /\ stage[c][r] = "hup"
        /\ stage' = [stage EXCEPT ![c][r] = "term"]
        /\ UNCHANGED child
     \/ /\ stage[c][r] = "term"
        /\ stage' = [stage EXCEPT ![c][r] = "kill"]
        /\ child' = [child EXCEPT ![r] = "zombie"]
  /\ UNCHANGED <<frame, files, tty, sweeping, history>>

\* Faulty variant: the exception of a timeout is raised without terminate().
TimesOutOnly(r) ==
  /\ exec[r] = "reading" /\ r \notin done /\ ~closing
  /\ RemoveReader(master[r])
  /\ Leave(r, "timeout")
  /\ UNCHANGED <<master, closed, child, tty, stage, sweeping, history>>

\* Faulty variant: the deadlines are looked at only when output comes in.
TimesOutOnOutput(r) ==
  /\ exec[r] = "reading" /\ r \notin done /\ ~closing
  /\ r \in polled \cap tty
  /\ SendHup("exec", r)
  /\ exec' = [exec EXCEPT ![r] = "terminating"]
  /\ UNCHANGED <<outcome, active, done, files, child, tty, sweeping,
                 history>>

\* The overall deadline or IDLE_TIMEOUT has passed: terminate() first.  A
\* process that another terminate() has reaped needs no waiting.
TimesOut(r) ==
  /\ exec[r] = "reading" /\ r \notin done /\ ~closing
  /\ \/ /\ SendHup("exec", r)
        /\ exec' = [exec EXCEPT ![r] = "terminating"]
        /\ UNCHANGED <<outcome, active, done, closed, file, polled,
                       callback>>
     \/ /\ child[r] = "reaped"
        /\ CloseUnderReader(r)
        /\ Leave(r, "timeout")
        /\ UNCHANGED stage
  /\ UNCHANGED <<child, tty, master, sweeping, history>>

\* _wait_for_exit gives up after five seconds and terminates.
WaitExpires(r) ==
  /\ exec[r] = "exiting" /\ child[r] = "running" /\ ~closing
  /\ SendHup("exec", r)
  /\ exec' = [exec EXCEPT ![r] = "forcing"]
  /\ UNCHANGED <<outcome, active, done, files, child, tty, sweeping,
                 history>>

-----------------------------------------------------------------------------
(* cancel(), cleanup_all(), and the cancellation of the execute() task. *)

\* cancel(task_id) pops the process and terminates it, or finds none.
Cancel(r) ==
  /\ exec[r] \notin {"idle", "ended"} /\ stage["cancel"][r] = "none"
  /\ ~closing
  /\ IF r \in active
       THEN SendHup("cancel", r)
       ELSE stage' = [stage EXCEPT !["cancel"][r] = "missed"]
  /\ active' = active \ {r}
  /\ UNCHANGED <<exec, outcome, done, files, child, tty, sweeping,
                 history>>

\* cleanup_all() takes all of _active, then terminates one after another.
CleanupAll ==
  /\ cleanup = "none" /\ ~closing
  /\ cleanup' = "sweeping"
  /\ sweep' = active
  /\ active' = {}
  /\ UNCHANGED <<exec, outcome, done, files, child, tty, stage, closing,
                 history>>

Waiting == \E r \in Run : stage["cleanup"][r] \in Signalled

\* The next process of cleanup_all's list: it may have been reaped by now.
CleanupNext(r) ==
  /\ cleanup = "sweeping" /\ r \in sweep /\ ~Waiting
  /\ sweep' = sweep \ {r}
  /\ \/ /\ SendHup("cleanup", r)
        /\ UNCHANGED <<closed, file, polled>>
     \/ /\ child[r] = "reaped"
        /\ CloseFd(r)
        /\ stage' = [stage EXCEPT !["cleanup"][r] = "back"]
  /\ UNCHANGED <<frame, master, callback, child, tty, cleanup, closing,
                 history>>

CleanupReturns ==
  /\ cleanup = "sweeping" /\ sweep = {} /\ ~Waiting
  /\ cleanup' = "returned"
  /\ UNCHANGED <<frame, files, child, tty, stage, sweep, closing, history>>

\* The processor of r is in cancel() when stop(), after cleanup_all(),
\* cancels it: that terminate() sends no further signal.
BreakOff(r) ==
  /\ stage["cancel"][r] \in Signalled /\ cleanup = "returned"
  /\ stage' = [stage EXCEPT !["cancel"][r] = "cut"]
  /\ UNCHANGED <<frame, files, child, tty, sweeping, history>>

\* run() returns, or raises: asyncio.run cancels all tasks of the loop.  It
\* finds processors in cancel() and stop() in cleanup_all(), at the await of
\* a terminate(), and what cleanup_all() has not come to it never will.
LoopCloses ==
  /\ ~closing
  /\ cleanup = "sweeping" => Waiting
  /\ closing' = TRUE
  /\ cleanup' = IF cleanup = "sweeping" THEN "broken" ELSE cleanup
  /\ stage' = [c \in Caller |-> [r \in Run |->
                 IF c # "exec" /\ stage[c][r] \in Signalled
                   THEN "cut" ELSE stage[c][r]]]
  /\ UNCHANGED <<frame, files, child, tty, sweep, history>>

\* The execute() task is cancelled: by its processor after cancel() and its
\* grace period, by stop() (through the processor) after cleanup_all(), or
\* by asyncio.run, whatever has been done about the process by then.  The
\* finally blocks run, a terminate() that the read loop was awaiting is
\* abandoned.
Interrupt(r) ==
  /\ exec[r] \notin {"idle", "ended"}
  /\ \/ stage["cancel"][r] \in {"back", "missed"}
     \/ cleanup = "returned"
     \/ closing
  /\ Leave(r, IF closing THEN "shutdown" ELSE "interrupted")
  /\ stage' = [stage EXCEPT !["exec"][r] = "none"]
  /\ IF Reading(r)
       THEN RemoveReader(master[r])
       ELSE UNCHANGED <<callback, polled, file>>
  /\ UNCHANGED <<master, closed, child, tty, sweeping, history>>

-----------------------------------------------------------------------------
(* The CLI and its descendants. *)

\* The CLI exits, by itself or on a signal.
CliExits(r) ==
  /\ child[r] = "running"
  /\ child' = [child EXCEPT ![r] = "zombie"]
  /\ UNCHANGED <<frame, files, tty, stage, sweeping, history>>

\* The last process with the terminal open goes, at or after the CLI's exit
\* (of interest only while somebody listens).
TtyCloses(r) ==
  /\ r \in tty \cap polled /\ child[r] # "running"
  /\ tty' = tty \ {r}
  /\ UNCHANGED <<frame, files, child, stage, sweeping, history>>

-----------------------------------------------------------------------------
ExecuteStep(r) ==
  \/ OnReadable(r) \/ ReadEnds(r) \/ WaitExit(r)
  \/ TimesOut(r) \/ WaitExpires(r)

TerminateStep(c, r) == TermWaits(c, r) \/ TermEscalates(c, r)

PtyNext ==
  \/ \E r \in Run :
       \/ Spawn(r) \/ ExecuteStep(r) \/ StreamFails(r)
       \/ Cancel(r) \/ CleanupNext(r) \/ BreakOff(r) \/ Interrupt(r)
       \/ CliExits(r) \/ TtyCloses(r)
       \/ \E c \in Caller : TerminateStep(c, r)
  \/ CleanupAll \/ CleanupReturns \/ LoopCloses

\* The coroutine of execute() goes on when what it awaits is there, or its
\* deadline has passed, or asyncio.run has cancelled it; no CLI is obliged
\* to print, to exit or to heed a signal.
Proceeds(r) ==
  \/ ReadEnds(r) \/ WaitExit(r) \/ TimesOut(r) \/ WaitExpires(r)
  \/ TerminateStep("exec", r)
  \/ closing /\ Interrupt(r)

PtyFairness == \A r \in Run : WF_ptyVars(Proceeds(r))

PtySpec == PtyInit /\ [][PtyNext]_ptyVars /\ PtyFairness

-----------------------------------------------------------------------------
(* Properties. *)

\* A run that has not closed its master still owns that number: no other
\* run's terminate() or exit closes the terminal it talks to, although
\* numbers are used again while several callers may close the same process.
OwnsDescriptor ==
  \A r \in Run : exec[r] # "idle" /\ r \notin closed => file[master[r]] = r

\* Output is handed to the run whose terminal it came from: the callback
\* under the number of a polled file is that run's own, while the run reads.
DispatchesToOwner ==
  \A r \in polled : callback[master[r]] = r /\ Reading(r)

\* The exit status is taken and the terminal closed together, so neither a
\* zombie nor an open master outlives the other, whoever does it.
ReapedAndClosed ==
  \A r \in Run : r \in closed <=> child[r] = "reaped"

\* A reading run is deaf (its open terminal is not polled, so it can only
\* time out) only when its number was taken from another run under whose
\* reader cancel() or cleanup_all() had closed it.
DeafOnlyByReuse ==
  \A r \in Run :
    exec[r] = "reading" /\ r \notin closed \cup polled =>
      \E x \in snatched : x # r /\ master[x] = master[r]

\* A terminate() that returned leaves no process, and an execute() that
\* ended leaves its CLI running only to a terminate() that is under way or
\* to come, or that was broken off after its first signal, or that
\* cleanup_all() did not come to; or after a BillingError or
\* ClaudeAuthError; or when it was spawned behind cleanup_all()'s back and
\* interrupted; or when it was cancelled by asyncio.run itself.
NoOrphan ==
  /\ \A c \in Caller, r \in Run : stage[c][r] = "back" => child[r] = "reaped"
  /\ \A r \in Run : exec[r] = "ended" /\ child[r] # "reaped" =>
       \/ r \in sweep
       \/ \E c \in Caller : stage[c][r] \in Signalled \cup {"cut"}
       \/ outcome[r] \in {"stream_error", "shutdown"}
       \/ outcome[r] = "interrupted" /\ r \in late

\* Every execute() ends, whatever the CLI, its descendants and the other
\* runs do, and even when its reader is deaf.
ExecutionEnds ==
  \A r \in Run : exec[r] = "reading" ~> exec[r] = "ended"

=============================================================================
