----------------------------- MODULE CliOutput -----------------------------
(***************************************************************************)
(* From the bytes a CLI prints to a TaskResult: LineBuffer                 *)
(* (worker/line_buffer.py), the stream-json parser of Claude               *)
(* (worker/stream_parser.py) with the read loop that collects its events   *)
(* (worker/executor.py), and the JSONL events of Codex                     *)
(* (worker/codex_adapter.py).                                              *)
(*                                                                         *)
(* A byte is a member of Byte: a newline, white space, a letter, the two   *)
(* halves of a two-byte character.  A line is a record with the fields the *)
(* parsers branch on; texts, ids and amounts are opaque values, "" is the  *)
(* empty or blank text, None an absent field.                              *)
(***************************************************************************)
EXTENDS Naturals, SequencesExt

CONSTANTS
  Text,        \* what a CLI may print, bytes in a row
  ClaudeLine,  \* lines of claude, parsed as JSON
  CodexLine,   \* lines of codex, parsed as JSON
  None,        \* an absent field
  MaxPrinted,  \* bound: lines in a run
  MaxDebug     \* debug lines kept (20 in the code)

Byte == {"newline", "blank", "a", "high", "low"}

ASSUME TextAssumption == Text \subseteq Seq(Byte)

ItemKind == {"item.started", "item.updated", "item.completed"}
Failure == {"turn.failed", "error"}

\* "other" stands for all types that the Codex adapter does not know, "" for
\* a text that is missing.
ASSUME CodexLineAssumption ==
  /\ \A m \in CodexLine :
       /\ m.type \in ItemKind \cup Failure \cup
            {"thread.started", "turn.completed", "junk", "array", "other"}
       /\ m.type \in ItemKind /\ m.item = "agent_message" => m.text # None
  /\ None \notin {"", 0}

VARIABLES
  text,     \* LineBuffer: all that the CLI prints
  rest,     \* what it has still to print
  buf,      \* LineBuffer._buf
  lines,    \* the lines handed out so far
  printed,  \* history: the JSON lines handled so far
  acc,      \* locals of the read loop: result, parts, session, ...
  fatal     \* a line has raised BillingError or ClaudeAuthError

bufferVars == <<text, rest, buf, lines>>
parserVars == <<printed, acc, fatal>>
cliVars == <<bufferVars, parserVars>>

CliInit ==
  /\ text \in Text /\ rest = text
  /\ buf = <<>> /\ lines = <<>>
  /\ printed = <<>> /\ fatal = FALSE
  /\ acc = [result |-> "", parts |-> <<>>, session |-> None, cost |-> None,
            debug |-> <<>>, published |-> <<>>]

-----------------------------------------------------------------------------
(* LineBuffer *)

\* decode("utf-8", errors="replace"): a half without the other becomes "?".
Decode(bytes) ==
  LET from[i \in 1 .. Len(bytes) + 2] ==
        IF i > Len(bytes) THEN <<>>
        ELSE IF bytes[i] = "high" /\ i < Len(bytes) /\ bytes[i + 1] = "low"
          THEN <<"char">> \o from[i + 2]
        ELSE <<IF bytes[i] \in {"high", "low"} THEN "?" ELSE bytes[i]>>
               \o from[i + 1]
  IN  from[1]

\* strip()
Strip(chars) ==
  LET solid == {i \in 1 .. Len(chars) : chars[i] # "blank"}
  IN  IF solid = {} THEN <<>>
      ELSE SubSeq(chars, CHOOSE i \in solid : \A k \in solid : i <= k,
                         CHOOSE i \in solid : \A k \in solid : k <= i)

\* A line without its newline: an empty one is dropped.
Emit(bytes) ==
  LET line == Strip(Decode(bytes)) IN IF line = <<>> THEN <<>> ELSE <<line>>

Newlines(bytes) == {i \in 1 .. Len(bytes) : bytes[i] = "newline"}

\* get_lines: the buffer is split at its newlines, the tail stays in it.
GetLines(bytes) ==
  LET ends == SetToSortSeq(Newlines(bytes), <)
      starts == <<1>> \o [k \in 1 .. Len(ends) |-> ends[k] + 1]
  IN  [lines |-> FlattenSeq([k \in 1 .. Len(ends) |->
                   Emit(SubSeq(bytes, starts[k], ends[k] - 1))]),
       tail |-> SubSeq(bytes, starts[Len(ends) + 1], Len(bytes))]

\* feed: os.read returns the next chunk.
Feed ==
  /\ \E n \in 1 .. Len(rest) :
       /\ buf' = buf \o SubSeq(rest, 1, n)
       /\ rest' = SubSeq(rest, n + 1, Len(rest))
  /\ UNCHANGED <<text, lines, parserVars>>

\* Faulty variant: the tail is handed out as if it were a line.
TakeChunk ==
  /\ buf # <<>>
  /\ lines' = lines \o GetLines(buf).lines \o Emit(GetLines(buf).tail)
  /\ buf' = <<>>
  /\ UNCHANGED <<text, rest, parserVars>>

\* The read loop wakes up and takes the complete lines.
TakeLines ==
  /\ Newlines(buf) # {}
  /\ lines' = lines \o GetLines(buf).lines
  /\ buf' = GetLines(buf).tail
  /\ UNCHANGED <<text, rest, parserVars>>

\* The CLI is done: the complete lines, then flush().
Drain ==
  /\ rest = <<>> /\ buf # <<>>
  /\ lines' = lines \o GetLines(buf).lines \o Emit(GetLines(buf).tail)
  /\ buf' = <<>>
  /\ UNCHANGED <<text, rest, parserVars>>

-----------------------------------------------------------------------------
(* parse_stream_json_line and _handle_event *)

\* _first_present: presence, not truth.
FirstPresent(a, b) == IF a # None THEN a ELSE b

IfText(type, source, t) ==
  IF t = "" THEN <<>> ELSE <<[type |-> type, source |-> source, text |-> t]>>

\* Faulty variant: the first key with a true value, so that a 0 is absent.
AmountIfTrue(m) == IF m.total \in {None, 0} THEN m.legacy ELSE m.total

\* total_cost_usd, or cost_usd of an older CLI.
Amount(m) == FirstPresent(m.total, m.legacy)

\* The final message: its cost if it has one, and its text.
ResultEvents(m) ==
  LET cost == Amount(m)
  IN  (IF cost # None \/ m.usage
         THEN <<[type |-> "cost", cost |-> FirstPresent(cost, 0),
                 session |-> m.session]>>
         ELSE <<>>)
      \o IfText("text", "result", m.text)

\* One content block of an assistant or user message.
BlockEvents(m, b) ==
  CASE m.type = "assistant" /\ b.type \in {"text", "thinking"} ->
         IfText(b.type, "assistant", b.text)
    [] m.type = "assistant" /\ b.type = "tool_use" -> <<b>>
    [] m.type = "user" /\ b.type = "tool_result" -> <<b>>
    [] OTHER -> <<>>

\* The events of a line; none for a line to ignore.
ClaudeEvents(m) ==
  CASE m.type = "result" -> ResultEvents(m)
    [] m.type \in {"assistant", "user"} ->
         FlattenSeq([k \in 1 .. Len(m.blocks) |-> BlockEvents(m, m.blocks[k])])
    [] m.type = "tool_result" -> <<m>>
    [] m.type = "system" /\ m.subtype \in {"api_retry", "init",
                                           "task_progress"} ->
         <<[type |-> m.subtype, session |-> m.session]>>
    [] m.type = "stream_event" -> IfText(m.delta, "delta", m.text)
    [] OTHER -> <<>>

\* HTTP 402 and 401 in an api_retry message raise.
Fatal(m) ==
  /\ m.type = "system" /\ m.subtype = "api_retry"
  /\ m.error \in {"billing_error", "authentication_failed"}

\* _handle_event: the accumulators after one event, which is published.
Handle(a, e) ==
  [a EXCEPT
     !.published = Append(@, e),
     !.parts = IF e.type = "text" THEN Append(@, e.text) ELSE @,
     !.result = IF e.type = "text" /\ e.source = "result" THEN e.text ELSE @,
     !.cost = IF e.type = "cost" THEN e.cost ELSE @,
     !.session = IF e.type \in {"cost", "init"}
                   THEN FirstPresent(e.session, @) ELSE @]

\* The last MaxDebug lines that said nothing.
Note(debug, m) ==
  LET all == Append(debug, m)
  IN  IF Len(all) > MaxDebug THEN Tail(all) ELSE all

\* _process_line of the Claude executor.
ClaudePrints(m) ==
  /\ ~fatal /\ Len(printed) < MaxPrinted
  /\ printed' = Append(printed, m)
  /\ fatal' = Fatal(m)
  /\ acc' = IF Fatal(m) THEN acc
            ELSE IF ClaudeEvents(m) = <<>>
              THEN [acc EXCEPT !.debug = Note(@, m)]
            ELSE FoldLeft(Handle, acc, ClaudeEvents(m))
  /\ UNCHANGED bufferVars

-----------------------------------------------------------------------------
(* _parse_json_event and read_stdout of the Codex adapter *)

\* Faulty variant: every snapshot of a tool item is a result.
ItemEventsEager(m) ==
  CASE m.item = "agent_message" -> <<[type |-> "text", text |-> m.text]>>
    [] m.item = "tool" ->
         <<[type |-> IF m.type = "item.started" THEN "tool_use"
                     ELSE "tool_result", id |-> m.id]>>
    [] OTHER -> <<[type |-> "progress"]>>

\* _events_from_item: one event per item line; a tool starts, goes on, ends.
ItemEvents(m) ==
  CASE m.item = "agent_message" -> <<[type |-> "text", text |-> m.text]>>
    [] m.item = "tool" ->
         <<[type |-> CASE m.type = "item.started" -> "tool_use"
                       [] m.type = "item.completed" -> "tool_result"
                       [] OTHER -> "progress", id |-> m.id]>>
    [] OTHER -> <<[type |-> "progress"]>>

CodexEvents(m) ==
  CASE m.type \in ItemKind -> ItemEvents(m)
    [] m.type = "thread.started" -> <<[type |-> "init"]>>
    [] m.type = "turn.completed" -> <<[type |-> "cost"]>>
    [] m.type \in Failure -> <<>>
    [] OTHER -> <<[type |-> "progress"]>>

\* The fourth component of _parse_json_event, which read_stdout takes for
\* the session id: a thread id, or the whole event of a failure.
CodexSession(m) ==
  CASE m.type = "thread.started" -> m.session
    [] m.type \in Failure -> m.type
    [] OTHER -> None

\* read_stdout: a line that is no JSON is a debug line, JSON that is no
\* object is skipped.  Codex reports tokens, so the cost of a usage is 0.
CodexPrints(m) ==
  /\ Len(printed) < MaxPrinted
  /\ printed' = Append(printed, m)
  /\ LET answer == IF m.type \in ItemKind /\ m.item = "agent_message"
                     THEN m.text ELSE ""
     IN  acc' =
       CASE m.type = "junk" -> [acc EXCEPT !.debug = Note(@, m)]
         [] m.type = "array" -> acc
         [] OTHER ->
              [acc EXCEPT
                 !.result = IF answer = "" THEN @ ELSE answer,
                 !.parts = IF answer = "" THEN @ ELSE Append(@, answer),
                 !.cost = IF m.type = "turn.completed" /\ m.usage
                            THEN 0 ELSE @,
                 !.session = FirstPresent(CodexSession(m), @),
                 !.published = @ \o CodexEvents(m)]
  /\ UNCHANGED <<bufferVars, fatal>>

-----------------------------------------------------------------------------
BufferNext == Feed \/ TakeLines \/ Drain
ClaudeNext == \E m \in ClaudeLine : ClaudePrints(m)
CodexLinesNext == \E m \in CodexLine : CodexPrints(m)

-----------------------------------------------------------------------------
(* Properties. *)

\* The lines of a whole output, one byte after the other.
LinesOf(bytes) ==
  LET step(s, b) ==
        IF b = "newline" THEN [line |-> <<>>, out |-> s.out \o Emit(s.line)]
        ELSE [s EXCEPT !.line = Append(@, b)]
      end == FoldLeft(step, [line |-> <<>>, out |-> <<>>], bytes)
  IN  end.out \o Emit(end.line)

\* However the kernel cuts the output into chunks, inside a character or a
\* line, and whenever the loop wakes, the lines are those of the output.
LinesIndependentOfChunks ==
  lines \o LinesOf(buf \o rest) = LinesOf(text)

\* The last value that f gives over the lines printed, or none.
LastOf(f(_), default) ==
  LET said == {k \in DOMAIN printed : f(printed[k]) # None}
  IN  IF said = {} THEN default
      ELSE f(printed[CHOOSE k \in said : \A j \in said : j <= k])

Answer(m) ==
  IF \/ m.type = "result"
     \/ m.type \in ItemKind /\ m.item = "agent_message"
    THEN IF m.text = "" THEN None ELSE m.text
    ELSE None

\* What the last result message reports is charged: a reported 0 is a 0,
\* and a usage without an amount costs 0.
Charged(m) ==
  CASE m.type = "result" /\ m.total # None -> m.total
    [] m.type = "result" /\ m.legacy # None -> m.legacy
    [] m.type = "result" /\ m.usage -> 0
    [] m.type = "turn.completed" /\ m.usage -> 0
    [] OTHER -> None

\* A run that ends without an error reports the last answer its CLI gave,
\* whatever came after it, and the amount of the last message that had one.
AnswerOfTheWholeOutput ==
  ~fatal =>
    /\ acc.result = LastOf(Answer, "")
    /\ acc.cost = LastOf(Charged, None)

\* The tools that were in the output, their completions and their results.
IsTool(m) == m.type \in ItemKind /\ m.item = "tool"

Completions(id) ==
  {k \in DOMAIN printed :
     /\ IsTool(printed[k])
     /\ printed[k].type = "item.completed" /\ printed[k].id = id}

Results(id) ==
  {k \in DOMAIN acc.published :
     acc.published[k].type = "tool_result" /\ acc.published[k].id = id}

\* A Codex tool item gets one tool_result, when it completes, however many
\* snapshots of it come before.
OneResultPerTool ==
  \A m \in {m \in ToSet(printed) : IsTool(m)} :
    Cardinality(Results(m.id)) = Cardinality(Completions(m.id))

=============================================================================
