---------------------------- MODULE ChunkStream ----------------------------
(***************************************************************************)
(* One task's chunk stream in Redis and a client that reads it:            *)
(* publish_chunk and subscribe_chunks (broker/redis.py), AgentClient.stream*)
(* and AgentClient.result (client.py), against the status that the worker, *)
(* the retry middleware and a cancelling client store meanwhile.           *)
(*                                                                         *)
(* Chunks are numbered in the order of their XADD.  The stored status is   *)
(* TaskSystem's, reduced to what a reader goes by: PENDING, RUNNING and    *)
(* RETRYING are "unsettled", "none" is a hash that does not exist.  Every  *)
(* await of the reader is a step boundary.                                 *)
(*                                                                         *)
(* Whoever stores a status overwrites what is there (update_task is an     *)
(* HSET of the caller's copy), so the task's side has no guard on the      *)
(* status; and after a reap, a crash or a requeue several processors may   *)
(* have the task.  It does more than TaskSystem would.                     *)
(***************************************************************************)
EXTENDS Integers, FiniteSets

CONSTANTS
  MaxLen,    \* stream_maxlen: chunks XADD keeps at least
  PageSize,  \* count of an XREAD (100 in the code)
  MaxChunks, \* bound: chunks published in a behaviour
  MaxRunners \* bound: processors that run the task at one time

ASSUME StreamAssumption ==
  /\ MaxLen \in Nat \ {0} /\ PageSize \in Nat \ {0}
  /\ MaxChunks \in Nat /\ MaxRunners \in Nat

VARIABLES
  status,     \* the task hash
  printing,   \* number of processors that run the CLI and publish its chunks
  leftover,   \* a codex run that raised has left its stdout reader behind
  overlapped, \* history: two processors had the task at one time
  published,  \* number of the last chunk
  trimmed,    \* chunks up to this number are gone from the stream
  method,     \* the client calls stream() or result()
  reader,     \* where that call is
  cursor,     \* last_id
  got,        \* the chunks yielded
  page,       \* chunks of the current XREAD not yet yielded
  overdue,    \* the caller's timeout has passed
  answer,     \* what result() returned
  drained,    \* history: published when the final XREAD was made
  cut,        \* history: the final XREAD returned a full page
  busy,       \* history: somebody could still publish then
  relapsed    \* history: the terminal status that ended the subscription
              \* was replaced by another

taskVars ==
  <<status, printing, leftover, overlapped, published, trimmed>>
lastRead == <<drained, cut, busy>>
readerVars == <<reader, cursor, got, page, overdue, answer, lastRead>>
streamVars == <<taskVars, method, relapsed, readerVars>>

Terminal == {"done", "failed", "cancelled"}

StreamTypeOK ==
  /\ status \in Terminal \cup {"none", "unsettled"}
  /\ printing \in 0 .. MaxRunners
  /\ published \in 0 .. MaxChunks /\ trimmed \in 0 .. published
  /\ reader \in {"start", "reading", "checking", "draining", "yielding",
                 "asking", "last", "lastAsking", "final", "ended"}
  /\ got \cup page \subseteq 1 .. published

StreamInit ==
  /\ status = "unsettled" /\ printing = 0
  /\ leftover = FALSE /\ overlapped = FALSE
  /\ published = 0 /\ trimmed = 0
  /\ method \in {"stream", "result"}
  /\ reader = IF method = "result" THEN "start" ELSE "reading"
  /\ cursor = 0 /\ got = {} /\ page = {}
  /\ overdue = FALSE /\ answer = "nothing"
  /\ drained = 0 /\ cut = FALSE /\ busy = FALSE /\ relapsed = FALSE

-----------------------------------------------------------------------------
(* The task's side. *)

\* Nothing but a terminal status, or the caller's timeout, leads here.
Ending == reader \in {"draining", "last", "lastAsking", "final", "ended"}

Store(s) ==
  /\ status' = s
  /\ relapsed' = (relapsed \/ (Ending /\ status \in Terminal /\ s # status))

\* A processor stores RUNNING, whatever is stored (a CANCELLED it has not
\* seen, the RUNNING or DONE of another), and runs the CLI, also while
\* another still does.
BeginRun ==
  /\ printing < MaxRunners
  /\ Store("unsettled")
  /\ printing' = printing + 1
  /\ overlapped' = (overlapped \/ printing > 0)
  /\ UNCHANGED <<leftover, published, trimmed, method, readerVars>>

Publishing == printing > 0 \/ leftover

\* publish_chunk: XADD with an approximate MAXLEN.
PublishChunk ==
  /\ Publishing /\ published < MaxChunks
  /\ published' = published + 1
  /\ trimmed' \in {n \in trimmed .. published :
                     n = trimmed \/ n <= published + 1 - MaxLen}
  /\ UNCHANGED <<status, printing, leftover, overlapped, method, relapsed,
                 readerVars>>

\* execute() has returned or raised and the outcome is stored.  All is
\* published then, unless the reader of codex's stderr raised (a line over
\* the limit): gather lets the reader of stdout go on.
EndRun ==
  /\ printing > 0
  /\ printing' = printing - 1
  /\ \/ \E s \in {"done", "failed"} : Store(s) /\ UNCHANGED leftover
     \/ Store("failed") /\ leftover' = TRUE
  /\ UNCHANGED <<overlapped, published, trimmed, method, readerVars>>

\* The CLI is stopped: CANCELLED was seen, or the processor was interrupted
\* or has died.
StopPrinting ==
  /\ printing > 0
  /\ printing' = printing - 1
  /\ UNCHANGED <<status, leftover, overlapped, published, trimmed, method,
                 relapsed, readerVars>>

\* A processor that does not run the CLI stores an outcome: an unknown
\* provider, a hook or an ack that raised, a cancellation it has seen.
SettleTask ==
  /\ \E s \in {"failed", "cancelled"} : Store(s)
  /\ overlapped' = (overlapped \/ printing > 0)
  /\ UNCHANGED <<printing, leftover, published, trimmed, method, readerVars>>

\* RetriesMiddleware or a DLQ retry: RETRYING or PENDING.
Retry ==
  /\ Store("unsettled")
  /\ UNCHANGED <<printing, leftover, overlapped, published, trimmed, method,
                 readerVars>>

\* A client's cancel(), also of a task that is settled.
CancelTask ==
  /\ Store("cancelled")
  /\ UNCHANGED <<printing, leftover, overlapped, published, trimmed, method,
                 readerVars>>

\* A TTL set by ack or nack runs out, also when the task was handed out
\* again: the hash, the stream or both are gone.
TaskExpires ==
  /\ \E s \in {status, "none"} : Store(s)
  /\ trimmed' \in {trimmed, published}
  /\ UNCHANGED <<printing, leftover, overlapped, published, method, readerVars>>

-----------------------------------------------------------------------------
(* The reader's side. *)

Min2(a, b) == IF a < b THEN a ELSE b

\* What XREAD after the cursor returns: the oldest chunks, a page at most.
Unread ==
  LET from == IF cursor > trimmed THEN cursor ELSE trimmed
  IN  from + 1 .. Min2(published, from + PageSize)

taskSide == <<taskVars, method, relapsed>>

\* result() looks first: a missing or settled task is returned at once.
FirstLook ==
  /\ reader = "start"
  /\ IF status \in Terminal \cup {"none"}
       THEN reader' = "ended" /\ answer' = status
       ELSE reader' = "reading" /\ UNCHANGED answer
  /\ UNCHANGED <<cursor, got, page, overdue, lastRead, taskSide>>

\* XREAD BLOCK: a page of chunks, or nothing for a second.
ReadPage ==
  /\ reader = "reading"
  /\ page' = Unread
  /\ reader' = IF Unread = {} THEN "checking" ELSE "yielding"
  /\ UNCHANGED <<cursor, got, overdue, answer, lastRead, taskSide>>

\* A chunk is yielded.  stream() looks at its deadline, result() at the task,
\* also while the last page is yielded.
Yield ==
  /\ reader \in {"yielding", "last"} /\ page # {}
  /\ LET n == CHOOSE n \in page : \A m \in page : n <= m
     IN  /\ cursor' = n
         /\ got' = got \cup {n}
         /\ page' = page \ {n}
         /\ reader' =
              CASE method = "stream" /\ overdue -> "ended"
                [] method = "result" ->
                     IF reader = "last" THEN "lastAsking" ELSE "asking"
                [] OTHER -> reader
  /\ UNCHANGED <<overdue, answer, lastRead, taskSide>>

\* result() reads the task after an event.
AskStatus ==
  /\ reader \in {"asking", "lastAsking"}
  /\ IF status \in Terminal
       THEN reader' = "ended" /\ answer' = status
       ELSE /\ reader' = IF reader = "asking" THEN "yielding" ELSE "last"
            /\ UNCHANGED answer
  /\ UNCHANGED <<cursor, got, page, overdue, lastRead, taskSide>>

PageDone ==
  /\ reader = "yielding" /\ page = {}
  /\ reader' = "reading"
  /\ UNCHANGED <<cursor, got, page, overdue, answer, lastRead, taskSide>>

\* Faulty variant: a cancelled task is not taken for a finished one.
CheckStatusPartly ==
  /\ reader = "checking"
  /\ reader' = IF status \in {"done", "failed"} THEN "draining" ELSE "reading"
  /\ UNCHANGED <<cursor, got, page, overdue, answer, lastRead, taskSide>>

\* Nothing came: a settled task ends the subscription after one more read,
\* anything else (an expired task, too) goes on.
CheckStatus ==
  /\ reader = "checking"
  /\ reader' = IF status \in Terminal THEN "draining" ELSE "reading"
  /\ UNCHANGED <<cursor, got, page, overdue, answer, lastRead, taskSide>>

\* Faulty variant: the subscription ends without the last read.
DrainNothing ==
  /\ reader = "draining"
  /\ drained' = published /\ busy' = Publishing
  /\ reader' = "last"
  /\ UNCHANGED <<cursor, got, page, overdue, answer, cut, taskSide>>

\* "Drain remaining": one page.
DrainPage ==
  /\ reader = "draining"
  /\ page' = Unread
  /\ drained' = published /\ busy' = Publishing
  /\ cut' = (Cardinality(Unread) = PageSize)
  /\ reader' = "last"
  /\ UNCHANGED <<cursor, got, overdue, answer, taskSide>>

\* The generator is exhausted: result() has its final look to take.
LastDone ==
  /\ reader = "last" /\ page = {}
  /\ reader' = IF method = "result" THEN "final" ELSE "ended"
  /\ UNCHANGED <<cursor, got, page, overdue, answer, lastRead, taskSide>>

\* Faulty variant: whatever was read first is returned.
FinalLookStale ==
  /\ reader = "final"
  /\ answer' = "unsettled"
  /\ reader' = "ended"
  /\ UNCHANGED <<cursor, got, page, overdue, lastRead, taskSide>>

\* "Final check": the task as it is now, whatever that is.
FinalLook ==
  /\ reader = "final"
  /\ answer' = status
  /\ reader' = "ended"
  /\ UNCHANGED <<cursor, got, page, overdue, lastRead, taskSide>>

\* The caller's timeout: wait_for stops result() where it is, stream() only
\* remembers a deadline.
CallerTimeout ==
  /\ ~overdue /\ reader \notin {"start", "ended", "final"}
  /\ overdue' = TRUE
  /\ reader' = IF method = "result" THEN "final" ELSE reader
  /\ UNCHANGED <<cursor, got, page, answer, lastRead, taskSide>>

-----------------------------------------------------------------------------
ReaderNext ==
  \/ FirstLook \/ ReadPage \/ Yield \/ AskStatus \/ PageDone
  \/ CheckStatus \/ DrainPage \/ LastDone \/ FinalLook

StreamNext ==
  \/ BeginRun \/ PublishChunk \/ EndRun \/ StopPrinting
  \/ SettleTask \/ Retry \/ CancelTask \/ TaskExpires
  \/ ReaderNext \/ CallerTimeout

\* The reader's event loop runs; nobody else owes it anything.
StreamFairness == WF_streamVars(ReaderNext)

StreamSpec == StreamInit /\ [][StreamNext]_streamVars /\ StreamFairness

-----------------------------------------------------------------------------
(* Properties. *)

\* A stream() that ran to its end has yielded every chunk, although chunks
\* keep coming between its reads: all but those trimmed and those behind a
\* full last page.  Chunks that come later are those of a task that did not
\* stay as the subscription was shown it, or of somebody who was publishing
\* at the last read: a cancelled run not stopped yet, one of two processors
\* that had the task at one time, or a reader that a codex run left behind.
SubscriberComplete ==
  method = "stream" /\ reader = "ended" /\ ~overdue =>
    /\ cut \/ \A n \in 1 .. drained : n \in got \/ n <= trimmed
    /\ published > drained =>
         \/ relapsed
         \/ busy /\ (status = "cancelled" \/ overlapped \/ leftover)

\* result() answers with an unsettled task only when its timeout passed, or
\* when a terminal status it was shown did not last (FAILED, before the
\* retry middleware writes RETRYING; CANCELLED, overwritten by RUNNING).
ResultIsTerminal ==
  method = "result" /\ reader = "ended" =>
    answer \in Terminal \cup {"none"} \/ overdue \/ relapsed

\* A subscription to a task that stays settled ends by itself.
SubscriptionEnds == <>[](status \in Terminal) => <>(reader = "ended")

=============================================================================
