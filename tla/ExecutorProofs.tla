--------------------------- MODULE ExecutorProofs ---------------------------
(***************************************************************************)
(* The two runner adapters for any number of runs, descriptors, jobs and   *)
(* lines: PtyExecution first, then CodexExecution.                         *)
(***************************************************************************)
EXTENDS MCExecutors, TLAPS

-----------------------------------------------------------------------------
(* The inductive invariant of PtyExecution. *)

\* A run that has not been spawned is known to nobody.
FreshInv ==
  \A r \in Run : exec[r] = "idle" =>
    /\ child[r] = "none"
    /\ r \notin active \cup sweep \cup closed \cup snatched
    /\ \A c \in Caller : stage[c][r] = "none"

\* A spawned run has a number.
MasterInv == \A r \in Run : exec[r] # "idle" => master[r] \in Fd

\* A number in use refers to the open terminal of the run that has it.
FilesInv ==
  \A n \in Fd : file[n] # NoRun =>
    /\ master[file[n]] = n
    /\ file[n] \notin closed
    /\ exec[file[n]] # "idle"

\* The kernel polls open files only.
PolledInv == polled \cap closed = {}

\* A reader is under the number of a run whose read loop will remove it.
ReaderInv ==
  \A n \in Fd : callback[n] # NoRun =>
    Reading(callback[n]) /\ master[callback[n]] = n

\* execute() awaits a terminate() exactly while it is terminating or forcing
\* the exit.
StageInv ==
  \A r \in Run :
    /\ stage["exec"][r] \in Signalled <=> exec[r] \in {"terminating", "forcing"}
    /\ stage["exec"][r] \notin {"back", "missed", "cut"}

\* Only another caller closes a terminal under its reader.
SnatchedInv ==
  \A r \in Run : Reading(r) /\ r \in closed => r \in snatched

\* Numbers, files, the epoll set and the readers.
TerminalInv ==
  /\ MasterInv /\ FilesInv /\ PolledInv /\ ReaderInv
  /\ OwnsDescriptor /\ DispatchesToOwner

\* cleanup_all() is in one phase: before it nothing is swept, after it
\* nothing is left to sweep or to wait for.
CleanupInv ==
  /\ cleanup = "none" => sweep = {}
  /\ cleanup = "returned" => sweep = {} /\ ~Waiting
  /\ cleanup # "none" => active \subseteq late

\* A run that has left _active by another hand than its own finally was
\* handed to a terminate().
TrackInv ==
  \A r \in Run :
    /\ exec[r] \notin {"idle", "ended"} /\ r \notin active =>
         \/ r \in sweep
         \/ \E c \in {"cancel", "cleanup"} :
              stage[c][r] \in Signalled \cup {"back", "cut"}
    /\ stage["cancel"][r] # "none" => r \notin active

\* The inductive invariant.
PtyInv ==
  /\ PtyTypeOK
  /\ FreshInv /\ StageInv /\ TerminalInv
  /\ ReapedAndClosed /\ SnatchedInv /\ CleanupInv /\ TrackInv

\* The initial states satisfy all of it.
LEMMA PtyStart == PtyInit => PtyInv /\ DeafOnlyByReuse /\ NoOrphan
<1>1. PtyInit => PtyTypeOK
  <2>1. PtyInit => closing \in BOOLEAN
    BY DEF PtyInit
  <2> QED
    BY <2>1 DEF PtyInit, PtyTypeOK, Caller, Signalled
<1>2. PtyInit => FreshInv /\ StageInv /\ TerminalInv
  BY DEF PtyInit, FreshInv, StageInv, TerminalInv, MasterInv, FilesInv,
     PolledInv, ReaderInv, OwnsDescriptor, DispatchesToOwner, Reading, Caller,
     Signalled
<1>3. PtyInit => ReapedAndClosed /\ SnatchedInv /\ CleanupInv /\ TrackInv
  BY DEF PtyInit, ReapedAndClosed, SnatchedInv, CleanupInv, TrackInv, Reading,
     Caller, Signalled
<1>4. PtyInit => DeafOnlyByReuse /\ NoOrphan
  BY DEF PtyInit, DeafOnlyByReuse, NoOrphan, Caller, Signalled
<1> QED
  BY <1>1, <1>2, <1>3, <1>4 DEF PtyInv

-----------------------------------------------------------------------------
(* What a step does to the terminals: one of five things. *)

\* Nobody begins or ends to read, and no run is spawned.
SameReaders ==
  \A x \in Run : /\ exec'[x] = "idle" <=> exec[x] = "idle"
                 /\ Reading(x)' <=> Reading(x)

\* The numbers, files and readers stay.
SameTerminals == UNCHANGED files /\ SameReaders

\* The read loop of r is not reading any more, however it was left.
StopsReading(r) ==
  /\ Reading(r) /\ ~Reading(r)' /\ exec'[r] # "idle"
  /\ \A x \in Run : x # r => exec'[x] = exec[x]

\* The read loop of r ends, or is left, with its terminal as it was.
LoopEnds(r) ==
  StopsReading(r) /\ RemoveReader(master[r]) /\ UNCHANGED <<master, closed>>

\* The read loop of r is left behind a terminate().
LoopTerminated(r) ==
  StopsReading(r) /\ CloseUnderReader(r) /\ UNCHANGED master

\* The terminal of r is closed, by whomever.
Closes(r) ==
  /\ exec[r] # "idle"
  /\ CloseFd(r) /\ SameReaders
  /\ UNCHANGED <<master, callback>>

\* Every step is one of these.
LEMMA TerminalEffects ==
  ASSUME PtyTypeOK, FreshInv, StageInv, [PtyNext]_ptyVars
  PROVE  \/ SameTerminals
         \/ \E r \in Run : \/ Spawn(r) \/ LoopEnds(r) \/ LoopTerminated(r)
                           \/ Closes(r)
<1> USE DEF SameTerminals, SameReaders, Reading, frame, files, sweeping,
            history
<1>1. ASSUME NEW r \in Run, \/ OnReadable(r) \/ WaitExpires(r) \/ Cancel(r)
                            \/ BreakOff(r)
      PROVE  SameTerminals
  BY <1>1 DEF OnReadable, WaitExpires, Cancel, BreakOff, PtyTypeOK
<1>2. ASSUME NEW r \in Run, CliExits(r) \/ TtyCloses(r)
      PROVE  SameTerminals
  BY <1>2 DEF CliExits, TtyCloses
<1>3. ASSUME NEW r \in Run, ReadEnds(r) \/ StreamFails(r)
      PROVE  LoopEnds(r)
  BY <1>3 DEF ReadEnds, StreamFails, Leave, LoopEnds, StopsReading, PtyTypeOK
<1>4. ASSUME NEW r \in Run, WaitExit(r)
      PROVE  Closes(r)
  BY <1>4 DEF WaitExit, Reap, Leave, Closes, PtyTypeOK
<1>5. ASSUME NEW r \in Run, TimesOut(r)
      PROVE  SameTerminals \/ LoopTerminated(r)
  BY <1>5 DEF TimesOut, Leave, LoopTerminated, StopsReading, PtyTypeOK
<1>6. ASSUME NEW r \in Run, Interrupt(r)
      PROVE  SameTerminals \/ LoopEnds(r)
  BY <1>6 DEF Interrupt, Leave, LoopEnds, StopsReading, PtyTypeOK
<1>7. ASSUME NEW r \in Run, CleanupNext(r)
      PROVE  SameTerminals \/ Closes(r)
  BY <1>7 DEF CleanupNext, Closes, FreshInv
<1>8. ASSUME NEW r \in Run, NEW c \in Caller, TermWaits(c, r)
      PROVE  LoopTerminated(r) \/ Closes(r)
  <2>1. exec[r] # "idle"
    BY <1>8 DEF TermWaits, FreshInv, Signalled
  <2>2. CASE c = "exec" /\ exec[r] = "terminating"
    BY <1>8, <2>2 DEF TermWaits, TerminateReturns, Leave, LoopTerminated,
       StopsReading, PtyTypeOK
  <2>3. CASE c = "exec" /\ exec[r] = "forcing"
    BY <1>8, <2>3 DEF TermWaits, TerminateReturns, Leave, Closes, PtyTypeOK
  <2>4. CASE c # "exec"
    BY <1>8, <2>1, <2>4 DEF TermWaits, TerminateReturns, Closes
  <2>5. c = "exec" => exec[r] \in {"terminating", "forcing"}
    BY <1>8 DEF TermWaits, StageInv
  <2> QED
    BY <2>2, <2>3, <2>4, <2>5
<1>9. ASSUME NEW r \in Run, NEW c \in Caller, TermEscalates(c, r)
      PROVE  SameTerminals
  BY <1>9 DEF TermEscalates
<1>10. CASE CleanupAll \/ CleanupReturns \/ LoopCloses \/ UNCHANGED ptyVars
  BY <1>10 DEF CleanupAll, CleanupReturns, LoopCloses, ptyVars
<1> QED
  BY <1>1, <1>2, <1>3, <1>4, <1>5, <1>6, <1>7, <1>8, <1>9, <1>10
     DEF PtyNext, ExecuteStep, TerminateStep

\* None of the five confuses one terminal with another.
LEMMA TerminalStays ==
  ASSUME PtyTypeOK, FreshInv, StageInv, TerminalInv, [PtyNext]_ptyVars
  PROVE  TerminalInv'
<1> USE NoRunAssumption
        DEF PtyTypeOK, TerminalInv, MasterInv, FilesInv, PolledInv, ReaderInv,
            OwnsDescriptor, DispatchesToOwner, SameReaders
<1>1. CASE SameTerminals
  BY <1>1 DEF SameTerminals, files
<1>2. ASSUME NEW r \in Run, Spawn(r)
      PROVE  TerminalInv'
  <2>1. PICK n \in Fd :
          /\ file[n] = NoRun
          /\ master' = [master EXCEPT ![r] = n]
          /\ file' = [file EXCEPT ![n] = r]
          /\ callback' = [callback EXCEPT ![n] = r]
          /\ polled' = IF callback[n] = NoRun THEN polled \cup {r} ELSE polled
    BY <1>2 DEF Spawn, FreeFd
  <2>2. /\ exec[r] = "idle" /\ exec' = [exec EXCEPT ![r] = "reading"]
        /\ r \notin closed /\ UNCHANGED closed
    BY <1>2 DEF Spawn, FreshInv
  <2>3. r \notin polled
    BY <2>2 DEF Reading
  <2>4. \A x \in Run : x # r => (Reading(x)' <=> Reading(x))
    BY <2>2 DEF Reading
  <2>5. Reading(r)' /\ ~Reading(r)
    BY <2>2 DEF Reading
  <2>6. MasterInv' /\ OwnsDescriptor' /\ PolledInv'
    BY <2>1, <2>2, <2>3
  <2>7. FilesInv'
    BY <2>1, <2>2
  <2>8. ReaderInv'
    BY <2>1, <2>2, <2>4, <2>5
  <2>9. DispatchesToOwner'
    BY <2>1, <2>2, <2>3, <2>4, <2>5 DEF Reading
  <2> QED
    BY <2>6, <2>7, <2>8, <2>9
<1>3. ASSUME NEW r \in Run, LoopEnds(r)
      PROVE  TerminalInv'
  BY <1>3 DEF LoopEnds, StopsReading, RemoveReader, Reading
<1>4. ASSUME NEW r \in Run, LoopTerminated(r)
      PROVE  TerminalInv'
  BY <1>4 DEF LoopTerminated, StopsReading, CloseUnderReader, Reading
<1>5. ASSUME NEW r \in Run, Closes(r)
      PROVE  TerminalInv'
  BY <1>5 DEF Closes, CloseFd
<1> QED
  BY <1>1, <1>2, <1>3, <1>4, <1>5, TerminalEffects

-----------------------------------------------------------------------------
(* The types, and who is waited for. *)

\* Every step keeps the types: a polled file has a reader, so `done` is set
\* for runs only.
LEMMA PtyTypes ==
  ASSUME PtyTypeOK, FreshInv, TerminalInv, [PtyNext]_ptyVars
  PROVE  PtyTypeOK'
<1> USE DEF PtyTypeOK, Signalled, Caller, frame, files, sweeping, history
<1>1. ASSUME NEW r \in Run, Spawn(r) \/ OnReadable(r)
      PROVE  PtyTypeOK'
  BY <1>1 DEF Spawn, FreeFd, OnReadable, TerminalInv, DispatchesToOwner
<1>2. ASSUME NEW r \in Run, ReadEnds(r) \/ StreamFails(r)
      PROVE  PtyTypeOK'
  BY <1>2 DEF ReadEnds, StreamFails, RemoveReader, Leave
<1>3. ASSUME NEW r \in Run, WaitExit(r) \/ WaitExpires(r)
      PROVE  PtyTypeOK'
  BY <1>3 DEF WaitExit, WaitExpires, Reap, CloseFd, Leave, SendHup
<1>4. ASSUME NEW r \in Run, TimesOut(r)
      PROVE  PtyTypeOK'
  BY <1>4 DEF TimesOut, SendHup, CloseUnderReader, Leave
<1>5. ASSUME NEW r \in Run, Cancel(r) \/ CleanupNext(r) \/ BreakOff(r)
      PROVE  PtyTypeOK'
  BY <1>5 DEF Cancel, CleanupNext, BreakOff, SendHup, CloseFd
<1>6. ASSUME NEW r \in Run, Interrupt(r)
      PROVE  PtyTypeOK'
  <2>1. /\ exec' = [exec EXCEPT ![r] = "ended"]
        /\ outcome' = [outcome EXCEPT ![r] = IF closing THEN "shutdown"
                                             ELSE "interrupted"]
        /\ stage' = [stage EXCEPT !["exec"][r] = "none"]
        /\ active' = active \ {r} /\ done' = done \ {r}
        /\ UNCHANGED <<child, master, file, cleanup, closing, tty, closed,
                       sweep, snatched, late>>
    BY <1>6 DEF Interrupt, Leave, RemoveReader
  <2>2. /\ callback' \in [Fd -> Run \cup {NoRun}]
        /\ polled' \subseteq polled
    BY <1>6 DEF Interrupt, RemoveReader
  <2> QED
    BY <2>1, <2>2
<1>7. ASSUME NEW r \in Run, CliExits(r) \/ TtyCloses(r)
      PROVE  PtyTypeOK'
  BY <1>7 DEF CliExits, TtyCloses
<1>8. ASSUME NEW r \in Run, NEW c \in Caller, TermWaits(c, r)
      PROVE  PtyTypeOK'
  <2>1. /\ child' = [child EXCEPT ![r] = "reaped"]
        /\ closed' = closed \cup {r}
        /\ UNCHANGED <<tty, master, sweep, cleanup, closing, late>>
    BY <1>8 DEF TermWaits, CloseFd, CloseUnderReader
  <2>2. /\ file' \in [Fd -> Run \cup {NoRun}]
        /\ callback' \in [Fd -> Run \cup {NoRun}]
        /\ polled' \subseteq polled
    BY <1>8 DEF TermWaits, CloseFd, CloseUnderReader
  <2>3. /\ stage' \in [Caller -> [Run -> Signalled \cup {"none", "back",
                                                        "missed", "cut"}]]
        /\ exec' \in [Run -> {"idle", "reading", "terminating", "exiting",
                              "forcing", "ended"}]
        /\ outcome' \in [Run -> {"none", "exit", "lost", "timeout",
                                 "stream_error", "interrupted",
                                 "shutdown"}]
        /\ active' \subseteq active /\ done' \subseteq done
        /\ snatched' \subseteq snatched \cup {r}
    BY <1>8 DEF TermWaits, TerminateReturns, Leave
  <2>4. /\ tty' \subseteq Run /\ done' \subseteq Run /\ closed' \subseteq Run
        /\ polled' \subseteq Run /\ active' \subseteq Run
        /\ sweep' \subseteq Run /\ snatched' \subseteq Run
        /\ late' \subseteq Run
    BY <2>1, <2>2, <2>3
  <2>5. /\ child' \in [Run -> {"none", "running", "zombie", "reaped"}]
        /\ master' \in [Run -> Fd \cup {NoRun}]
        /\ cleanup' \in {"none", "sweeping", "returned", "broken"}
        /\ closing' \in BOOLEAN
    BY <2>1
  <2> QED
    BY <2>2, <2>3, <2>4, <2>5
<1>9. ASSUME NEW r \in Run, NEW c \in Caller, TermEscalates(c, r)
      PROVE  PtyTypeOK'
  BY <1>9 DEF TermEscalates
<1>10. CASE CleanupAll \/ CleanupReturns \/ UNCHANGED ptyVars
  BY <1>10 DEF CleanupAll, CleanupReturns, ptyVars
<1>11. CASE LoopCloses
  <2>1. /\ closing' = TRUE
        /\ cleanup' \in {"none", "sweeping", "returned", "broken"}
        /\ UNCHANGED <<frame, files, child, tty, sweep, history>>
    BY <1>11 DEF LoopCloses
  <2>2. stage' \in [Caller -> [Run -> Signalled \cup {"none", "back",
                                                    "missed", "cut"}]]
    BY <1>11 DEF LoopCloses
  <2> QED
    BY <2>1, <2>2
<1> HIDE DEF PtyTypeOK
<1> QED
  BY <1>1, <1>2, <1>3, <1>4, <1>5, <1>6, <1>7, <1>8, <1>9, <1>10,
     <1>11 DEF PtyNext, ExecuteStep, TerminateStep

\* A run that is not spawned yet stays unknown; stage["exec"] follows exec.
LEMMA FreshStays ==
  ASSUME PtyTypeOK, FreshInv, StageInv, ReapedAndClosed, [PtyNext]_ptyVars
  PROVE  FreshInv' /\ StageInv' /\ ReapedAndClosed'
<1> USE DEF PtyTypeOK, FreshInv, StageInv, ReapedAndClosed, Signalled, Caller,
            frame, files, sweeping, history
<1> DEFINE Goal == FreshInv' /\ StageInv' /\ ReapedAndClosed'
<1>1. ASSUME NEW r \in Run, Spawn(r)
      PROVE  Goal
  BY <1>1 DEF Spawn
<1>2. ASSUME NEW r \in Run, OnReadable(r) \/ ReadEnds(r) \/ StreamFails(r)
      PROVE  Goal
  BY <1>2 DEF OnReadable, ReadEnds, StreamFails, RemoveReader, Leave
<1>3. ASSUME NEW r \in Run, WaitExit(r) \/ WaitExpires(r)
      PROVE  Goal
  BY <1>3 DEF WaitExit, WaitExpires, Reap, CloseFd, Leave, SendHup
<1>4. ASSUME NEW r \in Run, TimesOut(r)
      PROVE  Goal
  BY <1>4 DEF TimesOut, SendHup, CloseUnderReader, Leave
<1>5. ASSUME NEW r \in Run, Cancel(r) \/ CleanupNext(r) \/ BreakOff(r)
      PROVE  Goal
  BY <1>5 DEF Cancel, CleanupNext, BreakOff, SendHup, CloseFd
<1>6. ASSUME NEW r \in Run, Interrupt(r)
      PROVE  Goal
  BY <1>6 DEF Interrupt, RemoveReader, Leave
<1>7. ASSUME NEW r \in Run, CliExits(r) \/ TtyCloses(r)
      PROVE  Goal
  BY <1>7 DEF CliExits, TtyCloses
<1>8. ASSUME NEW r \in Run, NEW c \in Caller, TermWaits(c, r)
      PROVE  Goal
  BY <1>8 DEF TermWaits, TerminateReturns, CloseFd, CloseUnderReader, Leave
<1>9. ASSUME NEW r \in Run, NEW c \in Caller, TermEscalates(c, r)
      PROVE  Goal
  BY <1>9 DEF TermEscalates
<1>10. CASE CleanupAll \/ CleanupReturns \/ LoopCloses \/ UNCHANGED ptyVars
  BY <1>10 DEF CleanupAll, CleanupReturns, LoopCloses, ptyVars
<1> QED
  BY <1>1, <1>2, <1>3, <1>4, <1>5, <1>6, <1>7, <1>8, <1>9, <1>10
     DEF PtyNext, ExecuteStep, TerminateStep

-----------------------------------------------------------------------------
(* Who closes, who cleans up, who terminates. *)

\* What a reader of the history needs to know: it only grows.
LEMMA SnatchedGrows ==
  ASSUME [PtyNext]_ptyVars
  PROVE  snatched \subseteq snatched'
<1> USE DEF frame, files, sweeping, history
<1>1. ASSUME NEW r \in Run, Spawn(r) \/ ExecuteStep(r) \/ StreamFails(r)
      PROVE  snatched \subseteq snatched'
  BY <1>1 DEF Spawn, ExecuteStep, OnReadable, ReadEnds, WaitExit, TimesOut,
     WaitExpires, StreamFails
<1>2. ASSUME NEW r \in Run, \/ Cancel(r) \/ CleanupNext(r) \/ Interrupt(r)
                            \/ BreakOff(r) \/ CliExits(r) \/ TtyCloses(r)
      PROVE  snatched \subseteq snatched'
  BY <1>2 DEF Cancel, CleanupNext, Interrupt, BreakOff, CliExits, TtyCloses
<1>3. ASSUME NEW r \in Run, NEW c \in Caller, TerminateStep(c, r)
      PROVE  snatched \subseteq snatched'
  BY <1>3 DEF TerminateStep, TermWaits, TerminateReturns, TermEscalates
<1>4. CASE CleanupAll \/ CleanupReturns \/ LoopCloses \/ UNCHANGED ptyVars
  BY <1>4 DEF CleanupAll, CleanupReturns, LoopCloses, ptyVars
<1> QED
  BY <1>1, <1>2, <1>3, <1>4 DEF PtyNext

\* A terminal that is closed under its reader was closed by cancel() or
\* cleanup_all(): the read loop itself is over when it has closed its own.
LEMMA SnatchedStays ==
  ASSUME PtyTypeOK, FreshInv, StageInv, ReapedAndClosed, SnatchedInv,
         [PtyNext]_ptyVars
  PROVE  SnatchedInv'
<1> USE DEF PtyTypeOK, FreshInv, StageInv, ReapedAndClosed, SnatchedInv,
            Reading, frame, files, sweeping, history
<1>1. ASSUME NEW r \in Run, Spawn(r) \/ OnReadable(r) \/ ReadEnds(r)
                            \/ StreamFails(r)
      PROVE  SnatchedInv'
  BY <1>1 DEF Spawn, OnReadable, ReadEnds, StreamFails, RemoveReader, Leave
<1>2. ASSUME NEW r \in Run, WaitExit(r) \/ WaitExpires(r) \/ TimesOut(r)
      PROVE  SnatchedInv'
  BY <1>2 DEF WaitExit, WaitExpires, TimesOut, Reap, CloseFd,
     CloseUnderReader, Leave
<1>3. ASSUME NEW r \in Run, \/ Cancel(r) \/ CleanupNext(r) \/ Interrupt(r)
                            \/ BreakOff(r)
      PROVE  SnatchedInv'
  BY <1>3 DEF Cancel, CleanupNext, CloseFd, Interrupt, BreakOff, RemoveReader,
     Leave
<1>4. ASSUME NEW r \in Run, CliExits(r) \/ TtyCloses(r)
      PROVE  SnatchedInv'
  BY <1>4 DEF CliExits, TtyCloses
<1>5. ASSUME NEW r \in Run, NEW c \in Caller, TerminateStep(c, r)
      PROVE  SnatchedInv'
  BY <1>5 DEF TerminateStep, TermWaits, TerminateReturns, TermEscalates,
     CloseFd, CloseUnderReader, Leave
<1>6. CASE CleanupAll \/ CleanupReturns \/ LoopCloses \/ UNCHANGED ptyVars
  BY <1>6 DEF CleanupAll, CleanupReturns, LoopCloses, ptyVars
<1> QED
  BY <1>1, <1>2, <1>3, <1>4, <1>5, <1>6 DEF PtyNext, ExecuteStep

\* cleanup_all() goes through its phases, and what is spawned after its
\* snapshot is remembered.
LEMMA CleanupStays ==
  ASSUME PtyTypeOK, FreshInv, CleanupInv, [PtyNext]_ptyVars
  PROVE  CleanupInv'
<1> USE DEF PtyTypeOK, FreshInv, CleanupInv, Waiting, Caller, Signalled,
            frame, files, sweeping, history
<1>1. ASSUME NEW r \in Run, Spawn(r) \/ OnReadable(r) \/ ReadEnds(r)
                            \/ StreamFails(r)
      PROVE  CleanupInv'
  BY <1>1 DEF Spawn, OnReadable, ReadEnds, StreamFails, Leave
<1>2. ASSUME NEW r \in Run, WaitExit(r) \/ WaitExpires(r) \/ TimesOut(r)
      PROVE  CleanupInv'
  BY <1>2 DEF WaitExit, WaitExpires, TimesOut, SendHup, Leave
<1>3. ASSUME NEW r \in Run, \/ Cancel(r) \/ CleanupNext(r) \/ Interrupt(r)
                            \/ BreakOff(r)
      PROVE  CleanupInv'
  BY <1>3 DEF Cancel, CleanupNext, Interrupt, BreakOff, SendHup, Leave
<1>4. ASSUME NEW r \in Run, CliExits(r) \/ TtyCloses(r)
      PROVE  CleanupInv'
  BY <1>4 DEF CliExits, TtyCloses
<1>5. ASSUME NEW r \in Run, NEW c \in Caller, TerminateStep(c, r)
      PROVE  CleanupInv'
  BY <1>5 DEF TerminateStep, TermWaits, TerminateReturns, TermEscalates,
     Leave
<1>6. CASE CleanupAll \/ CleanupReturns \/ LoopCloses \/ UNCHANGED ptyVars
  BY <1>6 DEF CleanupAll, CleanupReturns, LoopCloses, ptyVars
<1> QED
  BY <1>1, <1>2, <1>3, <1>4, <1>5, <1>6 DEF PtyNext, ExecuteStep

\* Whoever takes a run from _active terminates it.
LEMMA TrackStays ==
  ASSUME PtyTypeOK, FreshInv, CleanupInv, TrackInv, [PtyNext]_ptyVars
  PROVE  TrackInv'
<1> USE DEF PtyTypeOK, FreshInv, TrackInv, Caller, Signalled, frame, files,
            sweeping, history
<1>1. ASSUME NEW r \in Run, Spawn(r) \/ OnReadable(r) \/ ReadEnds(r)
                            \/ StreamFails(r)
      PROVE  TrackInv'
  BY <1>1 DEF Spawn, OnReadable, ReadEnds, StreamFails, Leave
<1>2. ASSUME NEW r \in Run, WaitExit(r) \/ WaitExpires(r) \/ TimesOut(r)
      PROVE  TrackInv'
  BY <1>2 DEF WaitExit, WaitExpires, TimesOut, SendHup, Leave
<1>3. ASSUME NEW r \in Run, \/ Cancel(r) \/ CleanupNext(r) \/ Interrupt(r)
                            \/ BreakOff(r)
      PROVE  TrackInv'
  BY <1>3 DEF Cancel, CleanupNext, Interrupt, BreakOff, SendHup, Leave
<1>4. ASSUME NEW r \in Run, CliExits(r) \/ TtyCloses(r)
      PROVE  TrackInv'
  BY <1>4 DEF CliExits, TtyCloses
<1>5. ASSUME NEW r \in Run, NEW c \in Caller, TerminateStep(c, r)
      PROVE  TrackInv'
  BY <1>5 DEF TerminateStep, TermWaits, TerminateReturns, TermEscalates,
     Leave
<1>6. CASE CleanupAll \/ CleanupReturns \/ LoopCloses \/ UNCHANGED ptyVars
  BY <1>6 DEF CleanupAll, CleanupReturns, LoopCloses, CleanupInv, ptyVars
<1> QED
  BY <1>1, <1>2, <1>3, <1>4, <1>5, <1>6 DEF PtyNext, ExecuteStep

-----------------------------------------------------------------------------
(* Deaf runs and orphans. *)

\* DeafOnlyByReuse for a run that is being terminated as well.
DeafInv ==
  \A r \in Run :
    Reading(r) /\ r \notin closed \cup polled =>
      \E x \in snatched : x # r /\ master[x] = master[r]

\* A terminal is missing from the epoll set only when its number was taken
\* from a run that had been closed under its reader: add_reader then swapped
\* the callback, or that run's remove_reader took the number.
LEMMA DeafStays ==
  ASSUME PtyInv, DeafInv, [PtyNext]_ptyVars
  PROVE  DeafInv'
<1> USE NoRunAssumption
        DEF PtyInv, PtyTypeOK, TerminalInv, MasterInv, FilesInv,
            OwnsDescriptor, SnatchedInv, DeafInv
<1>1. snatched \subseteq snatched'
  BY SnatchedGrows
<1>2. CASE SameTerminals
  BY <1>1, <1>2 DEF SameTerminals, SameReaders, files
<1>3. ASSUME NEW r \in Run, Spawn(r)
      PROVE  DeafInv'
  <2>1. PICK n \in Fd :
          /\ file[n] = NoRun
          /\ master' = [master EXCEPT ![r] = n]
          /\ polled' = IF callback[n] = NoRun THEN polled \cup {r} ELSE polled
    BY <1>3 DEF Spawn, FreeFd
  <2>2. /\ exec[r] = "idle" /\ exec' = [exec EXCEPT ![r] = "reading"]
        /\ r \notin closed \cup snatched /\ UNCHANGED <<closed, snatched>>
    BY <1>3 DEF Spawn, FreshInv
  <2>3. ASSUME NEW y \in Run, y # r, Reading(y)', y \notin (closed \cup polled)'
        PROVE  \E x \in snatched' : x # y /\ master'[x] = master'[y]
    <3>1. Reading(y) /\ y \notin closed \cup polled
      BY <2>1, <2>2, <2>3 DEF Reading
    <3>2. PICK x \in snatched : x # y /\ master[x] = master[y]
      BY <3>1
    <3>3. x # r
      BY <2>2
    <3> QED
      BY <2>1, <2>2, <2>3, <3>2, <3>3
  <2>4. ASSUME r \notin (closed \cup polled)'
        PROVE  \E x \in snatched' : x # r /\ master'[x] = master'[r]
    <3>1. callback[n] # NoRun
      BY <2>1, <2>2, <2>4
    <3>2. PICK x \in Run : x = callback[n]
      BY <3>1
    <3>3. Reading(x) /\ master[x] = n
      BY <3>1, <3>2 DEF ReaderInv
    <3>4. x # r
      BY <2>2, <3>3 DEF Reading
    <3>5. x \in closed
      BY <2>1, <3>3 DEF Reading
    <3>6. x \in snatched
      BY <3>3, <3>5
    <3> QED
      BY <2>1, <2>2, <3>3, <3>4, <3>6
  <2> QED
    BY <2>3, <2>4
<1>4. ASSUME NEW r \in Run, LoopEnds(r) \/ LoopTerminated(r)
      PROVE  DeafInv'
  <2>1. /\ Reading(r) /\ ~Reading(r)' /\ UNCHANGED master
        /\ \A x \in Run : x # r => exec'[x] = exec[x]
        /\ polled' = polled \ {file[master[r]]}
        /\ closed \subseteq closed'
    BY <1>4 DEF LoopEnds, LoopTerminated, StopsReading, RemoveReader,
       CloseUnderReader
  <2>2. ASSUME NEW y \in Run, Reading(y)', y \notin (closed \cup polled)'
        PROVE  \E x \in snatched' : x # y /\ master'[x] = master'[y]
    <3>1. y # r /\ Reading(y) /\ y \notin closed
      BY <2>1, <2>2 DEF Reading
    <3>2. CASE y \notin polled
      BY <1>1, <2>1, <3>1, <3>2
    <3>3. CASE y \in polled
      <4>1. file[master[r]] = y /\ exec[r] # "idle"
        BY <2>1, <2>2, <3>3 DEF Reading
      <4>2. master[y] = master[r] /\ r \in closed
        BY <3>1, <4>1
      <4>3. r \in snatched
        BY <2>1, <4>2
      <4> QED
        BY <1>1, <2>1, <3>1, <4>2, <4>3
    <3> QED
      BY <3>2, <3>3
  <2> QED
    BY <2>2
<1>5. ASSUME NEW r \in Run, Closes(r)
      PROVE  DeafInv'
  BY <1>1, <1>5 DEF Closes, CloseFd, SameReaders
<1> QED
  BY <1>2, <1>3, <1>4, <1>5, TerminalEffects

\* A process that outlives its execute() is somebody's to terminate, or is
\* one of the kinds that the code forgets.
LEMMA OrphanStays ==
  ASSUME PtyInv, NoOrphan, [PtyNext]_ptyVars
  PROVE  NoOrphan'
<1> USE DEF PtyInv, PtyTypeOK, FreshInv, StageInv, ReapedAndClosed, TrackInv,
            NoOrphan, Caller, Signalled, frame, files, sweeping, history
<1>1. ASSUME NEW r \in Run, Spawn(r) \/ OnReadable(r) \/ ReadEnds(r)
                            \/ StreamFails(r)
      PROVE  NoOrphan'
  BY <1>1 DEF Spawn, OnReadable, ReadEnds, StreamFails, Leave
<1>2. ASSUME NEW r \in Run, WaitExit(r) \/ WaitExpires(r)
      PROVE  NoOrphan'
  BY <1>2 DEF WaitExit, WaitExpires, Reap, SendHup, Leave
<1>3. ASSUME NEW r \in Run, TimesOut(r)
      PROVE  NoOrphan'
  BY <1>3 DEF TimesOut, SendHup, Leave
<1>4. ASSUME NEW r \in Run, Cancel(r) \/ CleanupNext(r) \/ BreakOff(r)
      PROVE  NoOrphan'
  BY <1>4 DEF Cancel, CleanupNext, BreakOff, SendHup
<1>5. ASSUME NEW r \in Run, Interrupt(r)
      PROVE  NoOrphan'
  <2>1. /\ exec' = [exec EXCEPT ![r] = "ended"]
        /\ outcome' = [outcome EXCEPT ![r] = IF closing THEN "shutdown"
                                             ELSE "interrupted"]
        /\ stage' = [stage EXCEPT !["exec"][r] = "none"]
        /\ UNCHANGED <<child, sweep, late>>
    BY <1>5 DEF Interrupt, Leave
  <2>2. \A c \in {"cancel", "cleanup"}, x \in Run : stage'[c][x] = stage[c][x]
    BY <2>1
  <2>3. \A x \in Run : stage["exec"][x] # stage'["exec"][x] => x = r
    BY <2>1
  <2>4. ASSUME child[r] # "reaped", r \notin sweep, r \notin late, ~closing
        PROVE  \E c \in {"cancel", "cleanup"} :
                 stage[c][r] \in Signalled \cup {"cut"}
    <3>1. /\ exec[r] \notin {"idle", "ended"}
          /\ stage["cancel"][r] \in {"back", "missed"} \/ cleanup = "returned"
      BY <1>5, <2>4 DEF Interrupt
    <3>2. r \notin active
      BY <2>4, <3>1 DEF CleanupInv
    <3> QED
      BY <2>4, <3>1, <3>2
  <2> QED
    BY <2>1, <2>2, <2>3, <2>4
<1>6. ASSUME NEW r \in Run, CliExits(r) \/ TtyCloses(r)
      PROVE  NoOrphan'
  BY <1>6 DEF CliExits, TtyCloses
<1>7. ASSUME NEW r \in Run, NEW c \in Caller, TerminateStep(c, r)
      PROVE  NoOrphan'
  BY <1>7 DEF TerminateStep, TermWaits, TerminateReturns, TermEscalates, Leave
<1>8. CASE CleanupAll \/ CleanupReturns \/ LoopCloses \/ UNCHANGED ptyVars
  BY <1>8 DEF CleanupAll, CleanupReturns, LoopCloses, CleanupInv, ptyVars
<1> QED
  BY <1>1, <1>2, <1>3, <1>4, <1>5, <1>6, <1>7, <1>8 DEF PtyNext, ExecuteStep

-----------------------------------------------------------------------------
(* Theorems about PtyExecution. *)

\* The invariant is inductive.
LEMMA PtyInvStays ==
  ASSUME PtyInv, [PtyNext]_ptyVars
  PROVE  PtyInv'
BY PtyTypes, FreshStays, TerminalStays, SnatchedStays, CleanupStays,
   TrackStays DEF PtyInv

\* So it always holds.
LEMMA PtyInvariant == PtySpec => []PtyInv
<1>1. PtyInit => PtyInv
  BY PtyStart
<1>2. PtyInv /\ [PtyNext]_ptyVars => PtyInv'
  BY PtyInvStays
<1> QED
  BY <1>1, <1>2, PTL DEF PtySpec

\* Every step of execute, cancel and cleanup_all keeps the types.
THEOREM PtyTypeCorrect == PtySpec => []PtyTypeOK
<1>1. PtyInv => PtyTypeOK
  BY DEF PtyInv
<1> QED
  BY <1>1, PtyInvariant, PTL

\* No terminate() or exit of one run (executor.py, pty_process.py) closes the
\* terminal of another, however often numbers are used again.
THEOREM DescriptorsAreOwned == PtySpec => []OwnsDescriptor
<1>1. PtyInv => OwnsDescriptor
  BY DEF PtyInv, TerminalInv
<1> QED
  BY <1>1, PtyInvariant, PTL

\* The reader of _read_pty_output gets the output of its own run only.
THEOREM OutputIsDispatched == PtySpec => []DispatchesToOwner
<1>1. PtyInv => DispatchesToOwner
  BY DEF PtyInv, TerminalInv
<1> QED
  BY <1>1, PtyInvariant, PTL

\* Whoever reaps closes, and nobody closes without reaping (PTYProcess).
THEOREM ReapingCloses == PtySpec => []ReapedAndClosed
<1>1. PtyInv => ReapedAndClosed
  BY DEF PtyInv
<1> QED
  BY <1>1, PtyInvariant, PTL

\* A run is deaf only by the reuse of a number that was closed under its
\* reader.
THEOREM DeafRunsExplained == PtySpec => []DeafOnlyByReuse
<1>1. PtyInit => DeafInv
  BY DEF PtyInit, DeafInv, Reading
<1>2. PtyInv /\ DeafInv /\ [PtyNext]_ptyVars => DeafInv'
  BY DeafStays
<1>3. DeafInv => DeafOnlyByReuse
  BY DEF DeafInv, DeafOnlyByReuse, Reading
<1> QED
  BY <1>1, <1>2, <1>3, PtyInvariant, PTL DEF PtySpec

\* The only processes left behind are those that NoOrphan names.
THEOREM OrphansExplained == PtySpec => []NoOrphan
<1>1. PtyInit => NoOrphan
  BY PtyStart
<1>2. PtyInv /\ NoOrphan /\ [PtyNext]_ptyVars => NoOrphan'
  BY OrphanStays
<1> QED
  BY <1>1, <1>2, PtyInvariant, PTL DEF PtySpec

-----------------------------------------------------------------------------
(* CodexExecution. *)

\* A verdict is given once, at the end.
VerdictInv == \A j \in Job : verdict[j] # "none" <=> phase[j] = "ended"

\* There is a process only after it was launched, and an entry in _active
\* only while execute() reads or stops it.
ProcessInv ==
  \A j \in Job :
    /\ phase[j] \in {"idle", "spawning"} =>
         /\ proc[j] = "none" /\ j \notin piped
         /\ request[j] \notin {"sent", "raised"}
    /\ j \in tracked => phase[j] \in {"reading", "stopping"}
    /\ phase[j] \in {"reading", "stopping"} => proc[j] # "none"

\* Who has been stopped and runs on was sent SIGTERM.
SignalInv ==
  /\ \A j \in Job : proc[j] = "running" =>
       /\ phase[j] = "stopping" => j \in sigterm
       /\ request[j] = "sent" => j \in sigterm
       /\ request[j] # "raised"
  /\ wiped = "none" => dropped = {}

\* A process without an entry in _active was signalled or forgotten, and one
\* that has an entry after cancel() or cleanup_all() came behind it.
EntryInv ==
  \A j \in Job :
    /\ phase[j] \in {"reading", "stopping"} /\ proc[j] = "running" =>
         j \in tracked \cup sigterm \cup dropped \cup behind
    /\ j \in tracked /\ (request[j] # "none" \/ wiped # "none") =>
         j \in behind

\* The inductive invariant.
CodexInv ==
  /\ CodexTypeOK /\ VerdictInv /\ ProcessInv /\ SignalInv /\ EntryInv
  /\ CodexResultComplete /\ CodexNoOrphan

\* The calls of execute() keep it.
LEMMA ExecuteKeeps ==
  ASSUME CodexInv, NEW j \in Job,
         \/ Reject(j) \/ Launch(j) \/ LaunchFails(j) \/ Launched(j)
         \/ ReadLine(j) \/ PublishFails(j) \/ Gathered(j)
         \/ CodexTimesOut(j) \/ Stopped(j) \/ StopExpires(j)
  PROVE  CodexInv'
<1> USE MaxLinesAssumption
        DEF CodexInv, CodexTypeOK, VerdictInv, ProcessInv, SignalInv,
            EntryInv, CodexResultComplete, CodexNoOrphan, atStop
<1>1. CASE Reject(j) \/ LaunchFails(j)
  BY <1>1 DEF Reject, LaunchFails, Finish
<1>2. CASE Launch(j)
  BY <1>2 DEF Launch
<1>3. CASE Launched(j)
  BY <1>3 DEF Launched
<1>4. CASE ReadLine(j)
  BY <1>4 DEF ReadLine
<1>5. CASE PublishFails(j)
  BY <1>5 DEF PublishFails, Finish
<1>6. CASE Gathered(j)
  BY <1>6 DEF Gathered, Finish, Vanished
<1>7. CASE CodexTimesOut(j)
  BY <1>7 DEF CodexTimesOut, Finish, Vanished, Signal
<1>8. CASE Stopped(j) \/ StopExpires(j)
  BY <1>8 DEF Stopped, StopExpires, Finish
<1> QED
  BY <1>1, <1>2, <1>3, <1>4, <1>5, <1>6, <1>7, <1>8

\* So do cancel(), cleanup_all(), interruption and the end of the loop.
LEMMA CallersKeep ==
  ASSUME CodexInv, (\E j \in Job : CodexCancel(j) \/ CodexInterrupt(j))
                   \/ CodexCleanup \/ LoopHalts
  PROVE  CodexInv'
<1> USE DEF CodexInv, CodexTypeOK, VerdictInv, ProcessInv, SignalInv,
            EntryInv, CodexResultComplete, CodexNoOrphan, atStop
<1>1. ASSUME NEW j \in Job, CodexCancel(j)
      PROVE  CodexInv'
  BY <1>1 DEF CodexCancel, Vanished, Signal
<1>2. ASSUME NEW j \in Job, CodexInterrupt(j)
      PROVE  CodexInv'
  BY <1>2 DEF CodexInterrupt, Finish
<1>3. CASE CodexCleanup
  BY <1>3 DEF CodexCleanup, Vanished, Signal
<1>4. CASE LoopHalts
  BY <1>4 DEF LoopHalts
<1> QED
  BY <1>1, <1>2, <1>3, <1>4

\* So does the process.
LEMMA ProcessKeeps ==
  ASSUME CodexInv, NEW j \in Job,
         CodexWrites(j) \/ CodexExits(j) \/ PipesClose(j)
  PROVE  CodexInv'
BY MaxLinesAssumption
   DEF CodexInv, CodexTypeOK, VerdictInv, ProcessInv, SignalInv, EntryInv,
       CodexResultComplete, CodexNoOrphan, CodexWrites, CodexExits, PipesClose,
       atStop

\* It holds before any job.
LEMMA CodexStart == CodexInit => CodexInv
<1>1. CodexInit => CodexTypeOK
  <2>1. CodexInit => halted \in BOOLEAN
    BY DEF CodexInit
  <2> QED
    BY <2>1, MaxLinesAssumption DEF CodexInit, CodexTypeOK
<1>2. CodexInit => VerdictInv /\ ProcessInv /\ SignalInv /\ EntryInv
  BY DEF CodexInit, VerdictInv, ProcessInv, SignalInv, EntryInv
<1>3. CodexInit => CodexResultComplete /\ CodexNoOrphan
  BY DEF CodexInit, CodexResultComplete, CodexNoOrphan
<1> QED
  BY <1>1, <1>2, <1>3 DEF CodexInv

\* Every step keeps it.
LEMMA CodexInvStays == CodexInv /\ [CodexNext]_codexVars => CodexInv'
<1>1. CodexInv /\ UNCHANGED codexVars => CodexInv'
  BY DEF codexVars, CodexInv, CodexTypeOK, VerdictInv, ProcessInv,
     SignalInv, EntryInv, CodexResultComplete, CodexNoOrphan, atStop
<1> QED
  BY <1>1, ExecuteKeeps, CallersKeep, ProcessKeeps DEF CodexNext

\* The invariant of CodexExecution always holds.
LEMMA CodexInvariant == CodexSpec => []CodexInv
  BY CodexStart, CodexInvStays, PTL DEF CodexSpec

\* Every step of the adapter and of the processes keeps the types.
THEOREM CodexTypeCorrect == CodexSpec => []CodexTypeOK
<1>1. CodexInv => CodexTypeOK
  BY DEF CodexInv
<1> QED
  BY <1>1, CodexInvariant, PTL

\* A result with the CLI's exit code (execute's gather) is complete, in
\* whatever order the exit and the ends of the pipes come.
THEOREM CodexResultsAreComplete == CodexSpec => []CodexResultComplete
<1>1. CodexInv => CodexResultComplete
  BY DEF CodexInv
<1> QED
  BY <1>1, CodexInvariant, PTL

\* The only processes that execute, cancel and cleanup_all leave behind are
\* those that CodexNoOrphan names.
THEOREM CodexOrphansExplained == CodexSpec => []CodexNoOrphan
<1>1. CodexInv => CodexNoOrphan
  BY DEF CodexInv
<1> QED
  BY <1>1, CodexInvariant, PTL

-----------------------------------------------------------------------------
(* Both adapters. *)

\* A worker with both adapters (MCExecutors) keeps to the types of both,
\* whichever of them runs.
THEOREM ExecTypeCorrect == ExecSpec => []ExecTypeOK
<1>1. ExecInit => PtyInv /\ CodexInv
  <2>1. CodexInit => CodexInv
    BY CodexStart
  <2> QED
    BY <2>1, PtyStart DEF ExecInit
<1>2. ASSUME PtyInv, CodexInv, [ExecNext]_execVars
      PROVE  PtyInv' /\ CodexInv'
  <2>1. [PtyNext]_ptyVars /\ [CodexNext]_codexVars
    BY <1>2 DEF ExecNext, execVars
  <2> QED
    BY <1>2, <2>1, PtyInvStays, CodexInvStays
<1>3. PtyInv /\ CodexInv => ExecTypeOK
  BY DEF PtyInv, CodexInv, ExecTypeOK
<1> QED
  BY <1>1, <1>2, <1>3, PTL DEF ExecSpec

=============================================================================
