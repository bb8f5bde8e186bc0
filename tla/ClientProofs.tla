---------------------------- MODULE ClientProofs ----------------------------
(***************************************************************************)
(* What a client of the task system is told, for any number of tasks and   *)
(* chunks and any page and stream length: result() and stream() of         *)
(* ChunkStream, wait_batch() and get_batch_status() of BatchRunner.        *)
(***************************************************************************)
EXTENDS ChunkStream, BatchRunner, FiniteSetTheorems, TLAPS

-----------------------------------------------------------------------------
(* A terminal status that was seen. *)

\* A reader that was shown a terminal status finds one, or it did not last.
SeenTerminal == status \in Terminal \/ relapsed

\* While the task is one processor's, no outcome is stored before the run
\* ends.
PrintingStatus ==
  /\ printing \in Nat /\ overlapped \in BOOLEAN
  /\ printing > 0 /\ ~overlapped =>
       printing = 1 /\ status \notin {"done", "failed"}

\* What has been seen where.
Settled ==
  /\ relapsed \in BOOLEAN
  /\ PrintingStatus
  /\ reader = "draining" => SeenTerminal
  /\ reader \in {"last", "lastAsking", "final"} => SeenTerminal \/ overdue
  /\ ResultIsTerminal

\* Storing a status never hides a relapse, and replacing a terminal one
\* that was shown is a relapse.
LEMMA StoreKeepsSeen ==
  ASSUME NEW s, Store(s), relapsed \in BOOLEAN
  PROVE  /\ status' = s /\ relapsed' \in BOOLEAN
         /\ relapsed => relapsed'
         /\ Ending /\ SeenTerminal => SeenTerminal'
         /\ Ending /\ status \in Terminal => relapsed' \/ status' = status
  BY DEF Store, SeenTerminal

\* The task's side moves.
TaskStep ==
  \/ BeginRun \/ PublishChunk \/ EndRun \/ StopPrinting
  \/ SettleTask \/ Retry \/ CancelTask \/ TaskExpires

\* The task's side leaves the reader alone, and what was seen stays seen.
LEMMA TaskStepSettled ==
  ASSUME relapsed \in BOOLEAN, PrintingStatus, TaskStep
  PROVE  /\ UNCHANGED <<method, readerVars>>
         /\ relapsed' \in BOOLEAN /\ (relapsed => relapsed')
         /\ Ending /\ SeenTerminal => SeenTerminal'
         /\ Ending /\ status \in Terminal => relapsed' \/ status' = status
         /\ PrintingStatus'
<1>1. CASE BeginRun
  <2>1. Store("unsettled") /\ UNCHANGED <<method, readerVars>>
    BY <1>1 DEF BeginRun
  <2>2. /\ printing' = printing + 1
        /\ overlapped' = (overlapped \/ printing > 0)
    BY <1>1 DEF BeginRun
  <2>3. status' = "unsettled"
    BY <2>1 DEF Store
  <2>4. overlapped' \in BOOLEAN
    BY <2>2
  <2>5. printing = 0 \/ overlapped'
    <3>1. CASE printing = 0
      BY <3>1
    <3>2. CASE printing # 0
      <4>1. printing > 0
        BY <3>2 DEF PrintingStatus
      <4> QED
        BY <2>2, <4>1
    <3> QED
      BY <3>1, <3>2
  <2>6. PrintingStatus'
    BY <2>2, <2>3, <2>4, <2>5 DEF PrintingStatus
  <2> QED
    BY <2>1, <2>6, StoreKeepsSeen
<1>2. CASE PublishChunk
  BY <1>2 DEF PublishChunk, PrintingStatus, SeenTerminal
<1>3. CASE EndRun
  <2>1. PICK s \in {"done", "failed"} : Store(s)
    BY <1>3 DEF EndRun
  <2>2. /\ printing' = printing - 1 /\ printing > 0
        /\ UNCHANGED <<overlapped, method, readerVars>>
    BY <1>3 DEF EndRun
  <2>3. PrintingStatus'
    BY <2>2 DEF PrintingStatus
  <2> QED
    BY <2>1, <2>2, <2>3, StoreKeepsSeen
<1>4. CASE CancelTask
  BY <1>4, StoreKeepsSeen DEF CancelTask, PrintingStatus
<1>5. CASE StopPrinting
  BY <1>5 DEF StopPrinting, PrintingStatus, SeenTerminal
<1>6. CASE Retry
  BY <1>6, StoreKeepsSeen DEF Retry, PrintingStatus
<1>7. CASE TaskExpires
  <2>1. PICK s \in {status, "none"} : Store(s)
    BY <1>7 DEF TaskExpires
  <2> QED
    BY <1>7, <2>1, StoreKeepsSeen DEF TaskExpires, PrintingStatus
<1>8. CASE SettleTask
  <2>1. PICK s \in {"failed", "cancelled"} : Store(s)
    BY <1>8 DEF SettleTask
  <2> QED
    BY <1>8, <2>1, StoreKeepsSeen DEF SettleTask, PrintingStatus
<1> QED
  BY <1>1, <1>2, <1>3, <1>4, <1>5, <1>6, <1>7, <1>8 DEF TaskStep

\* The initial state.
LEMMA SettledInit == StreamInit => Settled
<1>1. StreamInit => PrintingStatus /\ relapsed \in BOOLEAN
  <2>1. StreamInit => overlapped \in BOOLEAN /\ relapsed \in BOOLEAN
    BY DEF StreamInit
  <2>2. StreamInit => printing = 0
    BY DEF StreamInit
  <2> QED
    BY <2>1, <2>2 DEF PrintingStatus
<1> QED
  BY <1>1 DEF StreamInit, Settled, ResultIsTerminal

\* Every step keeps what has been seen.
LEMMA SettledStep == Settled /\ [StreamNext]_streamVars => Settled'
<1> SUFFICES ASSUME Settled, [StreamNext]_streamVars PROVE Settled'
  OBVIOUS
<1>1. CASE TaskStep
  <2>1. /\ UNCHANGED <<method, readerVars>>
        /\ relapsed' \in BOOLEAN /\ (relapsed => relapsed')
        /\ Ending /\ SeenTerminal => SeenTerminal'
        /\ PrintingStatus'
    BY <1>1, TaskStepSettled DEF Settled
  <2> QED
    BY <2>1 DEF readerVars, Settled, Ending, ResultIsTerminal
<1>2. CASE ReaderNext \/ CallerTimeout
  <2>1. PrintingStatus' /\ relapsed' = relapsed /\ SeenTerminal' = SeenTerminal
        /\ status' = status /\ method' = method
    BY <1>2
    DEF ReaderNext, FirstLook, ReadPage, Yield, AskStatus, PageDone,
        CheckStatus, DrainPage, LastDone, FinalLook, CallerTimeout, taskSide,
        taskVars, Settled, PrintingStatus, SeenTerminal
  <2>2. CASE FirstLook
    BY <2>1, <2>2 DEF FirstLook, Settled, ResultIsTerminal
  <2>3. CASE ReadPage
    BY <2>1, <2>3 DEF ReadPage, Settled, ResultIsTerminal
  <2>4. CASE Yield
    BY <2>1, <2>4 DEF Yield, Settled, ResultIsTerminal
  <2>5. CASE AskStatus
    BY <2>1, <2>5 DEF AskStatus, Settled, ResultIsTerminal
  <2>6. CASE PageDone
    BY <2>1, <2>6 DEF PageDone, Settled, ResultIsTerminal
  <2>7. CASE CheckStatus
    BY <2>1, <2>7 DEF CheckStatus, Settled, SeenTerminal, ResultIsTerminal
  <2>8. CASE DrainPage
    BY <2>1, <2>8 DEF DrainPage, Settled, ResultIsTerminal
  <2>9. CASE LastDone
    BY <2>1, <2>9 DEF LastDone, Settled, ResultIsTerminal
  <2>10. CASE FinalLook
    BY <2>1, <2>10 DEF FinalLook, Settled, SeenTerminal, ResultIsTerminal
  <2>11. CASE CallerTimeout
    BY <2>1, <2>11 DEF CallerTimeout, Settled, ResultIsTerminal
  <2> QED
    BY <1>2, <2>2, <2>3, <2>4, <2>5, <2>6, <2>7, <2>8, <2>9, <2>10, <2>11
    DEF ReaderNext
<1>3. CASE UNCHANGED streamVars
  BY <1>3 DEF streamVars, taskVars, readerVars, Settled, PrintingStatus,
              SeenTerminal,
              ResultIsTerminal
<1> QED
  BY <1>1, <1>2, <1>3 DEF StreamNext, TaskStep

\* result() answers with an unsettled task only after its timeout, or when a
\* terminal status did not last (client.py, "final check").
THEOREM ResultIsTerminalTheorem == StreamSpec => []ResultIsTerminal
<1>1. Settled => ResultIsTerminal
  BY DEF Settled
<1> QED
  BY <1>1, SettledInit, SettledStep, PTL DEF StreamSpec

-----------------------------------------------------------------------------
(* No chunk is skipped. *)

\* What the numbers are.
StreamValues ==
  /\ published \in Nat /\ trimmed \in Nat /\ trimmed <= published
  /\ cursor \in Nat /\ drained \in Nat
  /\ \E lo \in Nat, hi \in Nat : page = lo .. hi

\* Chunk n was yielded, is about to be, or is gone from the stream.
Accounted(n) == n \in got \/ n \in page \/ n <= trimmed

\* Everything before the cursor and before a chunk of the page is.
NoGap == \A p \in page \cup {cursor} : \A n \in 1 .. p : Accounted(n)

\* After the last read: only somebody who was publishing then publishes, or
\* the task did not stay settled, so chunks that came later are explained.
LateChunks ==
  /\ Publishing => relapsed \/ busy
  /\ published > drained =>
       \/ relapsed
       \/ busy /\ (status = "cancelled" \/ overlapped \/ leftover)

\* The invariant: there is no gap, and the last page reaches to the end.
Unskipped ==
  /\ Settled
  /\ StreamValues
  /\ reader \in {"start", "reading", "checking", "draining"} => page = {}
  /\ method = "stream" =>
       reader \notin {"start", "asking", "lastAsking", "final"}
  /\ NoGap
  /\ reader \in {"last", "lastAsking"} /\ ~cut =>
       \A n \in 1 .. drained : Accounted(n)
  /\ method = "stream" /\ reader = "ended" => SeenTerminal \/ overdue
  /\ method = "stream" /\ reader \in {"last", "ended"} /\ ~overdue =>
       LateChunks
  /\ SubscriberComplete

\* The initial state.
LEMMA UnskippedInit == StreamInit => Unskipped
<1> SUFFICES ASSUME StreamInit PROVE Unskipped
  OBVIOUS
<1>1. Settled
  BY SettledInit
<1>2. \A n \in 1 .. 0 : FALSE
  OBVIOUS
<1> QED
  BY <1>1, <1>2
  DEF StreamInit, Unskipped, StreamValues, NoGap, SubscriberComplete

\* The task's side: chunks are added at the end and go at the beginning.
LEMMA TaskStepNumbers ==
  ASSUME StreamValues, TaskStep
  PROVE  /\ published' \in Nat /\ trimmed' \in Nat /\ trimmed' <= published'
         /\ trimmed <= trimmed'
         /\ \/ published' = published
            \/ published' = published + 1 /\ PublishChunk
<1>1. CASE PublishChunk
  BY <1>1 DEF PublishChunk, StreamValues
<1>2. CASE TaskExpires
  BY <1>2 DEF TaskExpires, StreamValues
<1>3. CASE ~PublishChunk /\ ~TaskExpires
  <2>1. UNCHANGED <<published, trimmed>>
    BY <1>3 DEF TaskStep, BeginRun, EndRun, CancelTask, StopPrinting, Retry,
                SettleTask
  <2> QED
    BY <2>1 DEF StreamValues
<1> QED
  BY <1>1, <1>2, <1>3

\* A page starts right behind the cursor or what is trimmed.
LEMMA UnreadHasNoGap ==
  ASSUME StreamValues, NoGap, page = {}
  PROVE  /\ \E lo \in Nat, hi \in Nat : Unread = lo .. hi
         /\ \A p \in Unread \cup {cursor} : \A n \in 1 .. p :
              n \in got \/ n \in Unread \/ n <= trimmed
         /\ Cardinality(Unread) # PageSize =>
              \A n \in 1 .. published :
                n \in got \/ n \in Unread \/ n <= trimmed
<1> DEFINE from == IF cursor > trimmed THEN cursor ELSE trimmed
           to == Min2(published, from + PageSize)
<1>1. from \in Nat /\ to \in Nat /\ to <= published /\ PageSize \in Nat \ {0}
  BY StreamAssumption DEF StreamValues, Min2
<1>2. Unread = from + 1 .. to
  BY DEF Unread
<1>3. \A n \in 1 .. from : n \in got \/ n <= trimmed
  BY DEF StreamValues, NoGap, Accounted
<1>4. ASSUME Cardinality(Unread) # PageSize PROVE to = published
  <2>1. SUFFICES ASSUME published > from + PageSize PROVE FALSE
    BY <1>1 DEF StreamValues, Min2
  <2>2. to = from + PageSize
    BY <1>1, <2>1 DEF StreamValues, Min2
  <2>3. Cardinality(from + 1 .. to) = to - (from + 1) + 1
    BY <1>1, <2>2, FS_Interval
  <2> QED
    BY <1>1, <1>2, <1>4, <2>2, <2>3
<1> HIDE DEF from, to
<1>5. \E lo \in Nat, hi \in Nat : Unread = lo .. hi
  BY <1>1, <1>2
<1>6. \A n \in 1 .. to : n \in got \/ n \in Unread \/ n <= trimmed
  BY <1>1, <1>2, <1>3
<1>7. ASSUME NEW p \in Unread \cup {cursor}, NEW n \in 1 .. p
      PROVE  n \in got \/ n \in Unread \/ n <= trimmed
  <2>1. CASE p \in Unread
    BY <1>1, <1>2, <1>6, <2>1
  <2>2. CASE p = cursor
    BY <2>2 DEF NoGap, Accounted
  <2> QED
    BY <2>1, <2>2
<1> QED
  BY <1>4, <1>5, <1>6, <1>7

\* The task's side keeps the invariant.
LEMMA TaskStepUnskipped ==
  ASSUME Unskipped, TaskStep, Settled'
  PROVE  Unskipped'
<1>1. /\ UNCHANGED <<method, reader, cursor, got, page, overdue, drained, cut,
                     busy>>
      /\ relapsed' \in BOOLEAN /\ (relapsed => relapsed')
      /\ Ending /\ SeenTerminal => SeenTerminal'
      /\ Ending /\ status \in Terminal => relapsed' \/ status' = status
  BY TaskStepSettled DEF Unskipped, Settled, readerVars, lastRead
<1>2. /\ published' \in Nat /\ trimmed' \in Nat /\ trimmed' <= published'
      /\ trimmed <= trimmed'
      /\ \/ published' = published
         \/ published' = published + 1 /\ PublishChunk
  BY TaskStepNumbers DEF Unskipped
<1>3. StreamValues'
  BY <1>1, <1>2 DEF Unskipped, StreamValues
<1>4. ASSUME NEW n \in Nat, Accounted(n) PROVE Accounted(n)'
  BY <1>1, <1>2, <1>4 DEF Accounted, Unskipped, StreamValues
<1>5. NoGap'
  <2>1. ASSUME NEW p \in page \cup {cursor}, NEW n \in 1 .. p
        PROVE  Accounted(n)'
    BY <1>4 DEF Unskipped, NoGap
  <2> QED
    BY <1>1, <2>1 DEF NoGap
<1>6. reader' \in {"last", "lastAsking"} /\ ~cut' =>
        \A n \in 1 .. drained' : Accounted(n)'
  BY <1>1, <1>4 DEF Unskipped
<1>7. ASSUME method = "stream", reader \in {"last", "ended"}, ~overdue
      PROVE  LateChunks'
  <2>1. Ending /\ SeenTerminal /\ LateChunks
    BY <1>7 DEF Unskipped, Settled, Ending
  <2>2. CASE relapsed'
    BY <2>2 DEF LateChunks
  <2>3. CASE ~relapsed'
    <3>1. ~relapsed /\ status \in Terminal /\ status' = status
      BY <1>1, <2>1, <2>3 DEF SeenTerminal, Unskipped, Settled
    <3>2. ~BeginRun
      BY <2>3, <3>1 DEF BeginRun, Store, Terminal
    <3>3. /\ Publishing' => Publishing
          /\ (overlapped => overlapped') /\ (leftover => leftover')
      BY <3>2 DEF TaskStep, PublishChunk, EndRun, CancelTask, StopPrinting,
         Retry, SettleTask, TaskExpires, Publishing, Unskipped, Settled,
         PrintingStatus
    <3>4. CASE published' = published
      <4>0. published' > drained' => published > drained
        BY <1>1, <3>4
      <4>1. /\ published' > drained' => published > drained
            /\ status = "cancelled" \/ overlapped \/ leftover
                 => status' = "cancelled" \/ overlapped' \/ leftover'
        BY <3>1, <3>3, <4>0
      <4>2. /\ Publishing' => busy'
            /\ published' > drained' => busy'
        BY <1>1, <2>1, <3>1, <3>3, <4>1 DEF LateChunks
      <4> QED
        BY <2>1, <3>1, <4>1, <4>2 DEF LateChunks
    <3>5. CASE PublishChunk
      <4>1. Publishing /\ UNCHANGED <<leftover, overlapped>>
        BY <3>5 DEF PublishChunk
      <4>2. printing > 0 /\ ~overlapped => status = "cancelled"
        BY <3>1 DEF Unskipped, Settled, PrintingStatus, Terminal
      <4>3. busy
        BY <2>1, <3>1, <4>1 DEF LateChunks
      <4>4. status = "cancelled" \/ overlapped \/ leftover
        BY <4>1, <4>2 DEF Publishing
      <4> QED
        BY <1>1, <3>1, <4>1, <4>3, <4>4 DEF LateChunks
    <3> QED
      BY <1>2, <3>4, <3>5
  <2> QED
    BY <2>2, <2>3
<1>8. SubscriberComplete'
  <2>1. ASSUME NEW n \in 1 .. drained, n \in got \/ n <= trimmed
        PROVE  n \in got' \/ n <= trimmed'
    BY <1>1, <1>2, <2>1 DEF Unskipped, StreamValues
  <2> QED
    BY <1>1, <1>7, <2>1 DEF Unskipped, SubscriberComplete, LateChunks
<1> QED
  BY <1>1, <1>3, <1>5, <1>6, <1>7, <1>8 DEF Unskipped, Ending

\* The reader's side keeps it.
LEMMA ReaderStepUnskipped ==
  ASSUME Unskipped, ReaderNext \/ CallerTimeout, Settled'
  PROVE  Unskipped'
<1> USE DEF Unskipped
<1>1. UNCHANGED taskSide
  BY DEF ReaderNext, FirstLook, ReadPage, Yield, AskStatus, PageDone,
         CheckStatus, DrainPage, LastDone, FinalLook, CallerTimeout
<1>2. /\ UNCHANGED <<status, published, trimmed, method, relapsed, printing,
                     leftover, overlapped>>
      /\ SeenTerminal' = SeenTerminal
  BY <1>1 DEF taskSide, taskVars, SeenTerminal
\* Steps that move the call on and leave its chunks alone.
<1>3. ASSUME UNCHANGED <<cursor, got, page, lastRead>>
      PROVE  /\ StreamValues' /\ NoGap' /\ LateChunks' = LateChunks
             /\ UNCHANGED <<drained, cut, busy>>
             /\ \A n : Accounted(n)' = Accounted(n)
  BY <1>2, <1>3 DEF StreamValues, NoGap, Accounted, LateChunks, Publishing,
     lastRead
<1>4. CASE FirstLook
  BY <1>2, <1>3, <1>4 DEF FirstLook, SubscriberComplete
<1>5. CASE ReadPage
  <2>1. page = {}
    BY <1>5 DEF ReadPage
  <2>2. StreamValues'
    BY <1>2, <1>5, <2>1, UnreadHasNoGap DEF ReadPage, StreamValues, lastRead
  <2>3. NoGap'
    BY <1>2, <1>5, <2>1, UnreadHasNoGap DEF ReadPage, NoGap, Accounted
  <2> QED
    BY <1>2, <1>5, <2>2, <2>3 DEF ReadPage, SubscriberComplete
<1>6. CASE Yield
  <2> DEFINE m == CHOOSE n \in page : \A k \in page : n <= k
  <2>1. PICK lo \in Nat, hi \in Nat : page = lo .. hi
    BY DEF StreamValues
  <2>2. lo \in page /\ \A k \in page : lo <= k
    BY <1>6, <2>1 DEF Yield
  <2>3. m \in page /\ \A k \in page : m <= k
    BY <2>2
  <2>4. cursor' = m /\ got' = got \cup {m} /\ page' = page \ {m}
    BY <1>6 DEF Yield
  <2>5. m \in page /\ cursor' = m /\ got' = got \cup {m} /\ page' = page \ {m}
    BY <2>3, <2>4
  <2>6. m = lo
    BY <2>1, <2>2, <2>3
  <2> HIDE DEF m
  <2>7. StreamValues'
    <3>1. page' = lo + 1 .. hi
      BY <2>1, <2>4, <2>6
    <3>2. cursor' = lo /\ lo + 1 \in Nat /\ drained' = drained
      BY <1>6, <2>1, <2>2, <2>4, <2>6 DEF Yield, lastRead
    <3> QED
      BY <1>2, <3>1, <3>2 DEF StreamValues
  <2>8. \A n : Accounted(n)' = Accounted(n)
    BY <1>2, <2>5 DEF Accounted
  <2>9. NoGap'
    BY <2>5, <2>8 DEF NoGap
  <2>10. UNCHANGED <<overdue, drained, cut, busy>>
    BY <1>6 DEF Yield, lastRead
  <2>11. LateChunks' = LateChunks
    BY <1>2, <2>10 DEF LateChunks, Publishing
  <2> QED
    BY <1>2, <1>6, <2>7, <2>8, <2>9, <2>10, <2>11
    DEF Yield, SubscriberComplete
<1>7. CASE AskStatus
  BY <1>2, <1>3, <1>7 DEF AskStatus, SubscriberComplete
<1>8. CASE PageDone
  BY <1>2, <1>3, <1>8 DEF PageDone, SubscriberComplete
<1>9. CASE CheckStatus
  BY <1>2, <1>3, <1>9 DEF CheckStatus, SubscriberComplete
<1>10. CASE DrainPage
  <2>1. page = {}
    BY <1>10 DEF DrainPage
  <2>2. StreamValues'
    BY <1>2, <1>10, <2>1, UnreadHasNoGap DEF DrainPage, StreamValues
  <2>3. NoGap'
    BY <1>2, <1>10, <2>1, UnreadHasNoGap DEF DrainPage, NoGap, Accounted
  <2>4. ~cut' => \A n \in 1 .. drained' : Accounted(n)'
    BY <1>2, <1>10, <2>1, UnreadHasNoGap DEF DrainPage, Accounted
  <2>5. ~(published' > drained')
    BY <1>2, <1>10 DEF DrainPage, StreamValues
  <2>6. LateChunks'
    BY <1>2, <1>10, <2>5 DEF DrainPage, LateChunks, Publishing
  <2> QED
    BY <1>2, <1>10, <2>2, <2>3, <2>4, <2>6 DEF DrainPage, SubscriberComplete
<1>11. CASE LastDone
  <2>1. ~cut => \A n \in 1 .. drained : n \in got \/ n <= trimmed
    BY <1>11 DEF LastDone, Accounted
  <2>2. SeenTerminal \/ overdue
    BY <1>11 DEF LastDone, Settled
  <2>3. /\ UNCHANGED <<overdue, got, page, drained, cut, busy>>
        /\ StreamValues' /\ NoGap' /\ LateChunks' = LateChunks
        /\ \A n : Accounted(n)' = Accounted(n)
    BY <1>3, <1>11 DEF LastDone
  <2>4. method = "stream" /\ ~overdue => LateChunks
    BY <1>11 DEF LastDone
  <2>5. SubscriberComplete'
    BY <1>2, <2>1, <2>3, <2>4 DEF SubscriberComplete, LateChunks
  <2> QED
    BY <1>2, <1>11, <2>1, <2>2, <2>3, <2>4, <2>5 DEF LastDone
<1>12. CASE FinalLook
  BY <1>2, <1>3, <1>12 DEF FinalLook, SubscriberComplete
<1>13. CASE CallerTimeout
  BY <1>2, <1>3, <1>13 DEF CallerTimeout, SubscriberComplete
<1> QED
  BY <1>4, <1>5, <1>6, <1>7, <1>8, <1>9, <1>10, <1>11, <1>12, <1>13
  DEF ReaderNext

\* Every step keeps it.
LEMMA UnskippedStep == Unskipped /\ [StreamNext]_streamVars => Unskipped'
<1> SUFFICES ASSUME Unskipped, [StreamNext]_streamVars PROVE Unskipped'
  OBVIOUS
<1>1. Settled'
  BY SettledStep DEF Unskipped
<1>2. CASE TaskStep
  BY <1>1, <1>2, TaskStepUnskipped
<1>3. CASE ReaderNext \/ CallerTimeout
  BY <1>1, <1>3, ReaderStepUnskipped
<1>4. CASE UNCHANGED streamVars
  <2>0. UNCHANGED <<status, printing, leftover, overlapped, published, trimmed,
                    method, relapsed, reader, cursor, got, page, overdue,
                    drained, cut, busy>>
    BY <1>4 DEF streamVars, taskVars, readerVars, lastRead
  <2>1. StreamValues' /\ NoGap' /\ \A n : Accounted(n)' = Accounted(n)
    BY <2>0 DEF Unskipped, StreamValues, NoGap, Accounted
  <2>2. /\ SeenTerminal' = SeenTerminal /\ LateChunks' = LateChunks
        /\ SubscriberComplete'
    BY <2>0 DEF Unskipped, SeenTerminal, SubscriberComplete, LateChunks,
                Publishing
  <2> QED
    BY <1>1, <2>0, <2>1, <2>2 DEF Unskipped
<1> QED
  BY <1>2, <1>3, <1>4 DEF StreamNext, TaskStep

\* A stream() that ends has yielded all it could, whatever the length of
\* the stream, the size of a page and the steps in between.
THEOREM SubscriberCompleteTheorem == StreamSpec => []SubscriberComplete
<1>1. Unskipped => SubscriberComplete
  BY DEF Unskipped
<1> QED
  BY <1>1, UnskippedInit, UnskippedStep, PTL DEF StreamSpec

-----------------------------------------------------------------------------
(* wait_batch: how often a task is in the results. *)

\* Where the snapshots of task i are.
Places(i) == {k \in DOMAIN results : results[k].id = i}

\* Nothing has been waited for yet.
NotWaited ==
  unsettled = {} /\ settled = {} /\ results = <<>> /\ ~timedOut

\* The collected tasks are those that are no longer pending, or were settled
\* in this round.
OncePerRound ==
  /\ ~timedOut
  /\ settled \subseteq unsettled /\ toRead \subseteq unsettled \ settled
  /\ \A i \in Item :
       Occurrences(i) = IF i \in unsettled \ settled THEN 0 ELSE 1

\* After the timeout what was pending is read once more, the tasks of the
\* round that was broken off included.
OnceMore ==
  /\ timedOut
  /\ settled \subseteq unsettled /\ toRead \subseteq unsettled
  /\ \A i \in Item :
       Occurrences(i) <= (IF i \in unsettled \ settled THEN 0 ELSE 1)
                         + (IF i \in unsettled \ toRead THEN 1 ELSE 0)

\* What the caller holds in each of its phases.
WaitInv ==
  /\ BatchTypeOK
  /\ call \in {"submitting", "submitted", "counting", "failed"} => NotWaited
  /\ call \in {"polling", "asleep"} => OncePerRound
  /\ call = "asleep" => settled = {}
  /\ call = "collecting" => OnceMore
  /\ call = "returned" =>
       \/ OncePerRound /\ unsettled = {}
       \/ OnceMore /\ toRead = {}

\* Occurrences are natural numbers.
LEMMA OccurrencesNat ==
  ASSUME BatchTypeOK, NEW i \in Item
  PROVE  /\ IsFiniteSet(Places(i)) /\ Occurrences(i) = Cardinality(Places(i))
         /\ Occurrences(i) \in Nat
<1>1. IsFiniteSet(DOMAIN results)
  BY FS_Interval DEF BatchTypeOK
<1>2. IsFiniteSet(Places(i))
  BY <1>1, FS_Subset DEF Places
<1> QED
  BY <1>2, FS_CardinalityType DEF Places, Occurrences

\* Appending the snapshot of a task adds one occurrence, of that task.
LEMMA OneMore ==
  ASSUME BatchTypeOK, NEW j \in Item, stored[j] \in Ended,
         results' = Append(results, Snapshot(j))
  PROVE  /\ results' \in Seq([id : Item, status : Ended])
         /\ \A i \in Item :
              Occurrences(i)' = Occurrences(i) + (IF i = j THEN 1 ELSE 0)
<1> DEFINE n == Len(results) + 1
<1>1. /\ Snapshot(j) \in [id : Item, status : Ended]
      /\ results \in Seq([id : Item, status : Ended])
  BY DEF Snapshot, BatchTypeOK
<1>2. /\ results' \in Seq([id : Item, status : Ended])
      /\ DOMAIN results = 1 .. Len(results) /\ Len(results) \in Nat
      /\ DOMAIN results' = 1 .. n
      /\ \A k \in DOMAIN results : results'[k] = results[k]
      /\ results'[n] = Snapshot(j)
  BY <1>1
<1>3. n \notin DOMAIN results /\ Snapshot(j).id = j
  BY <1>2 DEF Snapshot
<1>4. ASSUME NEW i \in Item
      PROVE  Occurrences(i)' = Occurrences(i) + (IF i = j THEN 1 ELSE 0)
  <2>1. /\ IsFiniteSet(Places(i)) /\ Occurrences(i) = Cardinality(Places(i))
        /\ Occurrences(i) \in Nat /\ n \notin Places(i)
    BY <1>3, OccurrencesNat DEF Places
  <2>2. Occurrences(i)' = Cardinality(Places(i)')
    BY DEF Occurrences, Places
  <2>3. CASE i = j
    <3>1. Places(i)' = Places(i) \cup {n}
      BY <1>2, <1>3, <2>3 DEF Places
    <3> QED
      BY <2>1, <2>2, <2>3, <3>1, FS_AddElement
  <2>4. CASE i # j
    <3>1. Places(i)' = Places(i)
      BY <1>2, <1>3, <2>4 DEF Places
    <3> QED
      BY <2>1, <2>2, <2>4, <3>1
  <2> QED
    BY <2>3, <2>4
<1> QED
  BY <1>2, <1>4

\* Every step of the caller and of the tasks keeps it.
LEMMA WaitInvStays ==
  ASSUME WaitInv, [BatchNext]_batchVars
  PROVE  WaitInv'
<1> USE DEF WaitInv, BatchTypeOK, NotWaited, OncePerRound, OnceMore, waitVars,
            countVars
<1>1. ASSUME UNCHANGED <<results, timedOut, settled, unsettled>>
      PROVE  \A i \in Item : Occurrences(i)' = Occurrences(i)
  BY <1>1 DEF Occurrences
<1>2. ASSUME NEW i \in Item, TaskMoves(i) \/ SubmitItem(i) \/ CountItem(i)
      PROVE  WaitInv'
  <2>1. BatchTypeOK'
    BY <1>2 DEF TaskMoves, SubmitItem, CountItem, Outcome, Ended
  <2>2. /\ UNCHANGED <<call, waitVars>>
        /\ toRead' = toRead \/ call \in {"submitting", "counting"}
    BY <1>2 DEF TaskMoves, SubmitItem, CountItem
  <2> QED
    BY <1>1, <2>1, <2>2
<1>3. CASE SubmitFails \/ SubmitDone \/ CountBegin \/ CountDone
  BY <1>3 DEF SubmitFails, SubmitDone, CountBegin, CountDone
<1>4. CASE WaitBegin
  <2>1. \A i \in Item : Occurrences(i)' = 0
    BY <1>4, FS_EmptySet DEF WaitBegin, Occurrences
  <2> QED
    BY <1>4, <2>1 DEF WaitBegin
<1>5. ASSUME NEW i \in Item, PollItem(i)
      PROVE  WaitInv'
  <2>1. CASE stored[i] \in Ended
    <3>1. /\ call = "polling" /\ i \in toRead
          /\ toRead' = toRead \ {i}
          /\ results' = Append(results, Snapshot(i))
          /\ settled' = settled \cup {i}
          /\ UNCHANGED <<stored, call, unsettled, timedOut, past>>
      BY <1>5, <2>1 DEF PollItem
    <3>2. /\ results' \in Seq([id : Item, status : Ended])
          /\ \A j \in Item :
               Occurrences(j)' = Occurrences(j) + (IF j = i THEN 1 ELSE 0)
      BY <2>1, <3>1, OneMore
    <3>3. \A j \in Item :
            Occurrences(j) = IF j \in unsettled \ settled THEN 0 ELSE 1
      BY <3>1
    <3>4. i \in unsettled \ settled
      BY <3>1
    <3>5. \A j \in Item :
            Occurrences(j)' = IF j \in unsettled \ settled' THEN 0 ELSE 1
      BY <3>1, <3>2, <3>3, <3>4
    <3>6. OncePerRound'
      BY <3>1, <3>4, <3>5
    <3> QED
      BY <3>1, <3>2, <3>6
  <2>2. CASE stored[i] \notin Ended
    BY <1>1, <1>5, <2>2 DEF PollItem
  <2> QED
    BY <2>1, <2>2
<1>6. CASE RoundEnds
  <2>1. \A i \in Item : Occurrences(i)' = Occurrences(i)
    BY <1>6 DEF RoundEnds, Occurrences
  <2> QED
    BY <1>6, <2>1 DEF RoundEnds
<1>7. CASE NextRound
  BY <1>1, <1>7 DEF NextRound
<1>8. CASE WaitTimeout
  <2>1. \A i \in Item : Occurrences(i)' = Occurrences(i)
    BY <1>8 DEF WaitTimeout, Occurrences
  <2> QED
    BY <1>8, <2>1 DEF WaitTimeout
<1>9. ASSUME NEW i \in Item, CollectItem(i)
      PROVE  WaitInv'
  <2>1. CASE stored[i] \in Ended
    BY <1>9, <2>1, OneMore, OccurrencesNat DEF CollectItem
  <2>2. CASE stored[i] \notin Ended
    <3>1. \A j \in Item : Occurrences(j)' = Occurrences(j)
      BY <1>9, <2>2 DEF CollectItem, Occurrences
    <3> QED
      BY <1>9, <2>2, <3>1, OccurrencesNat DEF CollectItem
  <2> QED
    BY <2>1, <2>2
<1>10. CASE CollectDone
  BY <1>1, <1>10 DEF CollectDone
<1>11. CASE UNCHANGED batchVars
  BY <1>1, <1>11 DEF batchVars
<1> QED
  BY <1>2, <1>3, <1>4, <1>5, <1>6, <1>7, <1>8, <1>9, <1>10, <1>11
     DEF BatchNext, PollingNext

\* wait_batch (batch.py) returns every task once, or, when its timeout broke
\* a round off, a task of that round twice, for any number of tasks.
THEOREM EachTaskOnceTheorem == BatchSpec => []EachTaskOnce
<1>1. BatchInit => WaitInv
  BY DEF BatchInit, WaitInv, BatchTypeOK, NotWaited, Ended
<1>2. WaitInv /\ [BatchNext]_batchVars => WaitInv'
  BY WaitInvStays
<1>3. WaitInv => EachTaskOnce
  <2>1. ASSUME WaitInv, NEW i \in Item
        PROVE  /\ Occurrences(i) <= IF timedOut THEN 2 ELSE 1
               /\ Occurrences(i) = 2 => i \in settled
               /\ call = "returned" /\ ~timedOut => Occurrences(i) = 1
    <3>1. CASE NotWaited /\ call # "returned"
      <4>1. Occurrences(i) = 0
        BY <3>1, FS_EmptySet DEF NotWaited, Occurrences
      <4> QED
        BY <3>1, <4>1 DEF NotWaited
    <3>2. CASE OncePerRound /\ (call = "returned" => unsettled = {})
      BY <3>2 DEF OncePerRound
    <3>3. CASE OnceMore
      <4>1. Occurrences(i) \in Nat
        BY <2>1, OccurrencesNat DEF WaitInv
      <4> QED
        BY <3>3, <4>1 DEF OnceMore
    <3> QED
      BY <2>1, <3>1, <3>2, <3>3 DEF WaitInv, BatchTypeOK
  <2> QED
    BY <2>1 DEF EachTaskOnce
<1> QED
  BY <1>1, <1>2, <1>3, PTL DEF BatchSpec

-----------------------------------------------------------------------------
(* get_batch_status: reads at different times. *)

\* The history remembers what is stored and what has been counted, and the
\* last report.
HistoryInv ==
  /\ stored \in [Item -> Ended \cup {"none", "pending", "running", "retrying"}]
  /\ past \in [Item -> SUBSET {"done", "failed"}]
  /\ counted \in [Item -> Ended \cup {"none", "pending", "running",
                                      "retrying"}]
  /\ \A i \in Item : Outcome(stored[i]) \cup Outcome(counted[i])
                       \subseteq past[i]
  /\ ReportIsBacked

\* A step of a task and a step of the caller keep it; past only grows.
LEMMA HistoryStays ==
  ASSUME HistoryInv, [BatchNext]_batchVars
  PROVE  HistoryInv'
<1> USE DEF HistoryInv, ReportIsBacked, waitVars, countVars
<1>1. ASSUME NEW i \in Item, TaskMoves(i)
      PROVE  HistoryInv'
  <2>1. PICK s \in Ended \cup {"none", "pending", "running", "retrying"} :
          /\ stored' = [stored EXCEPT ![i] = s]
          /\ past' = [past EXCEPT ![i] = @ \cup Outcome(s)]
    BY <1>1 DEF TaskMoves
  <2>2. UNCHANGED <<counted, report>>
    BY <1>1 DEF TaskMoves
  <2>3. /\ s \in Ended \cup {"none", "pending", "running", "retrying"}
        /\ Outcome(s) \subseteq {"done", "failed"}
    BY <2>1 DEF Outcome, Ended
  <2>4. \A x \in Item : past[x] \subseteq past'[x]
    BY <2>1
  <2> QED
    BY <2>1, <2>2, <2>3, <2>4
<1>2. ASSUME NEW i \in Item, SubmitItem(i)
      PROVE  HistoryInv'
  BY <1>2 DEF SubmitItem, Outcome
<1>3. ASSUME NEW i \in Item, CountItem(i)
      PROVE  HistoryInv'
  BY <1>3 DEF CountItem
<1>4. ASSUME NEW i \in Item, PollItem(i) \/ CollectItem(i)
      PROVE  HistoryInv'
  BY <1>4 DEF PollItem, CollectItem
<1>5. CASE CountDone
  <2>1. /\ report' = BatchStatus /\ counted' = [i \in Item |-> "none"]
        /\ UNCHANGED <<stored, past>>
    BY <1>5 DEF CountDone
  <2>2. report' = "completed" => Counted({"done"}) = Item
    BY <2>1 DEF BatchStatus
  <2>3. report' = "failed" => Counted({"failed", "cancelled"}) = Item
    BY <2>1 DEF BatchStatus
  <2>4. report' = "partial_failure" => Counted(Ended) = Item
    BY <2>1 DEF BatchStatus
  <2>5. ReportIsBacked'
    BY <2>1, <2>2, <2>3, <2>4 DEF Counted, Outcome, Ended
  <2>6. Outcome("none") = {}
    BY DEF Outcome
  <2> QED
    BY <2>1, <2>5, <2>6
<1>6. CASE \/ SubmitFails \/ SubmitDone \/ WaitBegin \/ WaitTimeout
           \/ CountBegin \/ RoundEnds \/ NextRound \/ CollectDone
           \/ UNCHANGED batchVars
  BY <1>6 DEF SubmitFails, SubmitDone, WaitBegin, WaitTimeout, CountBegin,
     RoundEnds, NextRound, CollectDone, batchVars
<1> QED
  BY <1>1, <1>2, <1>3, <1>4, <1>5, <1>6 DEF BatchNext, PollingNext

\* get_batch_status (batch.py) reports nothing that the tasks' history does
\* not back, for any number of tasks.
THEOREM ReportIsBackedTheorem == BatchSpec => []ReportIsBacked
<1>1. BatchInit => HistoryInv
  BY DEF BatchInit, HistoryInv, ReportIsBacked, Outcome
<1>2. HistoryInv /\ [BatchNext]_batchVars => HistoryInv'
  BY HistoryStays
<1>3. HistoryInv => ReportIsBacked
  BY DEF HistoryInv
<1> QED
  BY <1>1, <1>2, <1>3, PTL DEF BatchSpec
=============================================================================
