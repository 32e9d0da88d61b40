--------------------------- MODULE McpTransports ---------------------------
(* The transports of the MCP core: the child process with its two threads    *)
(* and queues, the HTTP exchanges with their session, and the decoder of the *)
(* event stream.                                                             *)
EXTENDS Naturals, Sequences, SequencesExt

-----------------------------------------------------------------------------
(***************************************************************************)
(* The stdio transport of rpi-mcp-core (transport.rs, process.rs): the     *)
(* caller of request_control, the writer and reader threads with their     *)
(* bounded queues, and stop, which joins them.  The server is external: it *)
(* reads its stdin or not, answers, repeats itself, sends requests of its  *)
(* own, writes nonsense, closes its output or dies.                        *)
(***************************************************************************)

CONSTANTS
  QueueSize,    \* capacity of the write and the line queue
  MaxCallerRequests, \* bound on requests of the caller
  MaxLines      \* bound on lines the server writes

ASSUME McpStdioConstants ==
  QueueSize \in Nat \ {0} /\ MaxCallerRequests \in Nat /\ MaxLines \in Nat

VARIABLES
  request,     \* the caller: step and request id
  writes,      \* write queue: request ids, or ReplyLine to a server request
  senders,     \* who still holds a sender of it
  writerStep, readerStep,
  acked,       \* ids whose write was confirmed
  lines,       \* line queue
  receiver,    \* the caller still holds its receiver
  held,        \* the line the reader has in hand
  server,      \* "up", "mute" (its output is closed) or "dead"
  written,     \* lines the server has written
  asked        \* request ids the server has read

stdioVars == <<request, writes, senders, writerStep, readerStep, acked, lines, receiver, held,
               server, written, asked>>
wireVars == <<writes, senders, writerStep, readerStep, acked, lines, held>>

\* Lines that are no answer, and the reply to a server request: tags above
\* every request id.
ReplyLine == 101
OldLine == 102
AskLine == 103
BadLine == 104
ErrorLine == 105
NoneLine == 106

RequestAt(step) == request.step = step
RequestTo(step) == request' = [request EXCEPT !.step = step]

-----------------------------------------------------------------------------
(* The caller.                                                              *)

\* write: the job is queued without waiting; a full or closed queue fails.
RequestBegins ==
  /\ RequestAt("idle") /\ request.id < MaxCallerRequests
  /\ IF Len(writes) < QueueSize /\ writerStep # "done"
     THEN /\ request' = [step |-> "writing", id |-> request.id + 1]
          /\ writes' = Append(writes, request'.id)
     ELSE request' = [step |-> "stop", id |-> request.id + 1] /\ UNCHANGED writes
  /\ UNCHANGED <<senders, writerStep, readerStep, acked, lines, receiver, held, server, written, asked>>

WriteConfirmed ==
  /\ RequestAt("writing") /\ request.id \in acked /\ RequestTo("receiving")
  /\ UNCHANGED <<wireVars, receiver, server, written, asked>>

\* Deadline, cancellation, or the writer ended without an answer.
RequestFails ==
  /\ request.step \in {"writing", "receiving"} /\ RequestTo("stop")
  /\ UNCHANGED <<wireVars, receiver, server, written, asked>>

\* Answers to other ids are skipped.
Matches(line) == line = request.id

\* One line: the answer, a line to skip, or an error.
LineReceived ==
  /\ RequestAt("receiving") /\ lines # <<>> /\ lines' = Tail(lines)
  /\ IF Matches(Head(lines)) THEN request' = [request EXCEPT !.step = "idle"]
     ELSE IF Head(lines) \in {BadLine, ErrorLine} THEN RequestTo("stop")
     ELSE UNCHANGED request
  /\ UNCHANGED <<writes, senders, writerStep, readerStep, acked, receiver, held, server, written, asked>>

\* finish: every failure stops the transport.  The queue ends are dropped
\* first, then the process tree is killed, then the threads are joined.
StopDrops ==
  /\ RequestAt("stop") /\ RequestTo("kill")
  /\ senders' = senders \ {"owner"} /\ receiver' = FALSE
  /\ UNCHANGED <<writes, writerStep, readerStep, acked, lines, held, server, written, asked>>

\* The owner may also drop the transport between two requests.
Dropped ==
  /\ RequestAt("idle") /\ request.id > 0 /\ RequestTo("stop")
  /\ UNCHANGED <<wireVars, receiver, server, written, asked>>

TreeKilled ==
  /\ RequestAt("kill") /\ RequestTo("join") /\ server' = "dead"
  /\ UNCHANGED <<wireVars, receiver, written, asked>>

Joined ==
  /\ RequestAt("join") /\ writerStep = "done" /\ readerStep = "done" /\ RequestTo("closed")
  /\ UNCHANGED <<wireVars, receiver, server, written, asked>>

-----------------------------------------------------------------------------
(* The writer thread.                                                       *)

JobWritten ==
  /\ writerStep = "loop" /\ writes # <<>> /\ server # "dead"
  /\ writes' = Tail(writes)
  /\ IF Head(writes) = ReplyLine THEN UNCHANGED <<acked, asked>>
     ELSE acked' = acked \cup {Head(writes)} /\ asked' = asked \cup {Head(writes)}
  /\ UNCHANGED <<request, senders, writerStep, readerStep, lines, receiver, held, server, written>>

\* The pipe is closed: the job fails and the thread ends.
WriteFails ==
  /\ writerStep = "loop" /\ writes # <<>> /\ server = "dead"
  /\ writes' = <<>> /\ writerStep' = "done"
  /\ UNCHANGED <<request, senders, readerStep, acked, lines, receiver, held, server, written, asked>>

\* Every sender is gone.
WriterEnds ==
  /\ writerStep = "loop" /\ writes = <<>> /\ senders = {} /\ writerStep' = "done"
  /\ UNCHANGED <<request, writes, senders, readerStep, acked, lines, receiver, held, server, written, asked>>

-----------------------------------------------------------------------------
(* The reader thread, and the server's lines.                               *)

\* The server writes a line: an answer to something it was asked, once or
\* again; OldLine, an answer nobody waits for; AskLine, a request of its own;
\* BadLine, not an MCP message.
ServerWrites(line) ==
  /\ server = "up" /\ written < MaxLines /\ readerStep = "read"
  /\ written' = written + 1
  /\ held' = line /\ readerStep' = "line"
  /\ UNCHANGED <<request, writes, senders, writerStep, acked, lines, receiver, server, asked>>

ServerLines == asked \cup {OldLine, AskLine, BadLine}

ServerEnds(how) ==
  /\ server = "up" /\ server' = how
  /\ UNCHANGED <<request, wireVars, receiver, written, asked>>

\* client_reply: answered at once, even while no caller polls; a full or
\* closed write queue ends the reader with an error.
ServerAsked ==
  /\ readerStep = "line" /\ held = AskLine
  /\ IF Len(writes) < QueueSize /\ writerStep # "done"
     THEN writes' = Append(writes, ReplyLine) /\ readerStep' = "read" /\ held' = NoneLine
     ELSE readerStep' = "last" /\ held' = ErrorLine /\ UNCHANGED writes
  /\ UNCHANGED <<request, senders, writerStep, acked, lines, receiver, server, written, asked>>

\* send blocks while the queue is full and fails once its receiver is gone.
LineSent ==
  /\ readerStep \in {"line", "last"} /\ held # AskLine
  /\ IF ~receiver
     THEN readerStep' = "ended" /\ UNCHANGED lines
     ELSE /\ Len(lines) < QueueSize /\ lines' = Append(lines, held)
          /\ readerStep' = IF readerStep = "last" THEN "ended" ELSE "read"
  /\ held' = NoneLine
  /\ UNCHANGED <<request, writes, senders, writerStep, acked, receiver, server, written, asked>>

\* The pipe ends.
ReaderEof ==
  /\ readerStep = "read" /\ server # "up" /\ readerStep' = "ended"
  /\ UNCHANGED <<request, writes, senders, writerStep, acked, lines, receiver, held, server, written, asked>>

\* The thread's sender of replies goes with it.
ReaderEnds ==
  /\ readerStep = "ended" /\ readerStep' = "done" /\ senders' = senders \ {"reader"}
  /\ UNCHANGED <<request, writes, writerStep, acked, lines, receiver, held, server, written, asked>>

-----------------------------------------------------------------------------
StdioInit ==
  /\ request = [step |-> "idle", id |-> 0] /\ writes = <<>> /\ senders = {"owner", "reader"}
  /\ writerStep = "loop" /\ readerStep = "read" /\ acked = {} /\ lines = <<>> /\ receiver = TRUE
  /\ held = NoneLine /\ server = "up" /\ written = 0 /\ asked = {}

CallerRuns == WriteConfirmed \/ RequestFails \/ LineReceived \/ StopDrops \/ TreeKilled \/ Joined
WriterRuns == WriteFails \/ WriterEnds
ReaderRuns == ServerAsked \/ LineSent \/ ReaderEof \/ ReaderEnds

StdioNext ==
  \/ RequestBegins \/ Dropped \/ CallerRuns \/ WriterRuns \/ ReaderRuns \/ JobWritten
  \/ \E line \in ServerLines : ServerWrites(line)
  \/ \E how \in {"mute", "dead"} : ServerEnds(how)

-----------------------------------------------------------------------------
\* Whatever the server does, a request comes back: answered, or failed with
\* the transport stopped and its threads joined.
WriteOwed == RequestAt("writing")
WriteMet == request.step \in {"idle", "closed"}
-----------------------------------------------------------------------------
(* The streamable HTTP transport of the MCP core (http.rs): one request at a   *)
(* time over its own exchange, whose answer is one JSON body or a stream of    *)
(* events with the server's own requests in between. The server names a        *)
(* session in the header of its first answer; from then on every message       *)
(* carries it, and the transport ends it when it is dropped.                   *)

CONSTANTS
    HttpModes,       \* subset of BOOLEAN: configured (typed) transports or not
    MaxHttpCalls,    \* calls of one transport: initialize, initialized, requests
    MaxServerAsks    \* requests and notifications of the server

ASSUME McpHttpAssumption == HttpModes \subseteq BOOLEAN /\ MaxHttpCalls \in Nat /\ MaxServerAsks \in Nat

VARIABLES
    transport,   \* [configured, session, open]; session 0 is none
    exchange,    \* [at, id, provisional, header]: the call in progress
    heard,       \* what the server heard: [what, id, in, known]
    arrived,     \* the session whose header has reached the client
    abandoned,   \* calls given up by their caller or their deadline
    httpCalls, serverAsks

mcpHttpVars == <<transport, exchange, heard, arrived, abandoned, httpCalls, serverAsks>>

NoExchange == [at |-> "none", id |-> 0, provisional |-> 0, header |-> 0]
Initialize == 1
\* "notifications/initialized" has no id of its own and no answer to wait for.
Notification == 2

McpHttpInit ==
       /\ transport \in [configured : HttpModes, session : {0}, open : {TRUE}]
       /\ exchange = NoExchange
       /\ heard = {} /\ arrived = 0 /\ abandoned = {} /\ httpCalls = 0 /\ serverAsks = 0

McpHttpSays(what, id, in) == heard' = heard \cup {[what |-> what, id |-> id, in |-> in, known |-> arrived]}

\* raw: a caller that has given up already is refused before anything is sent,
\* and announced all the same.
CallBegins ==
    /\ transport.open /\ exchange.at = "none"
    /\ httpCalls < MaxHttpCalls /\ httpCalls' = httpCalls + 1
    /\ exchange' = [NoExchange EXCEPT !.at = "begun", !.id = httpCalls + 1]
    /\ UNCHANGED <<transport, heard, arrived, abandoned, serverAsks>>
Posts ==
    /\ exchange.at = "begun"
    /\ McpHttpSays("call", exchange.id, transport.session)
    /\ exchange' = [exchange EXCEPT !.at = "posted"]
    /\ UNCHANGED <<transport, arrived, abandoned, httpCalls, serverAsks>>

Provisional(s) == IF transport.configured /\ exchange.id = Initialize THEN s ELSE 0

\* The head of the answer; a notification ends with it.
HeadArrives(s) ==
    /\ exchange.at = "posted"
    /\ s # 0 => exchange.id = Initialize
    /\ arrived' = IF s = 0 THEN arrived ELSE s
    /\ exchange' = IF exchange.id = Notification THEN NoExchange
                   ELSE [exchange EXCEPT !.at = "reads", !.header = s, !.provisional = Provisional(s)]
    /\ UNCHANGED <<transport, heard, abandoned, httpCalls, serverAsks>>

(* The stream: the server asks, speaks of something else, or answers. *)
ServerAsks ==
    /\ exchange.at = "reads" /\ serverAsks < MaxServerAsks /\ serverAsks' = serverAsks + 1
    /\ exchange' = [exchange EXCEPT !.at = "asked"]
    /\ UNCHANGED <<transport, heard, arrived, abandoned, httpCalls>>
\* The reply to a request of the server, in the session it may have named just now.
ReplySession == IF transport.session = 0 THEN exchange.header ELSE transport.session
RepliesToServer ==
    /\ exchange.at = "asked"
    /\ McpHttpSays("reply", serverAsks, ReplySession)
    /\ exchange' = [exchange EXCEPT !.at = "reads"]
    /\ UNCHANGED <<transport, arrived, abandoned, httpCalls, serverAsks>>
McpHttpAnswers ==
           /\ exchange.at = "reads"
           /\ transport' = IF exchange.id = Initialize THEN [transport EXCEPT !.session = exchange.header]
                           ELSE transport
           /\ exchange' = NoExchange
           /\ UNCHANGED <<heard, arrived, abandoned, httpCalls, serverAsks>>

\* What a failed exchange leaves: the session it was told of.
Kept == IF exchange.provisional = 0 THEN transport ELSE [transport EXCEPT !.session = exchange.provisional]
\* A broken answer, an error status, an expired session (404).
ExchangeFails ==
    /\ exchange.at \in {"posted", "reads", "asked"}
    /\ transport' = Kept /\ exchange' = [exchange EXCEPT !.at = "failed"]
    /\ UNCHANGED <<heard, arrived, abandoned, httpCalls, serverAsks>>
\* The caller cancels, or the deadline passes: the exchange is dropped.
HttpGivenUp ==
        /\ exchange.at \in {"begun", "posted", "reads", "asked"}
        /\ transport' = Kept
        /\ exchange' = [exchange EXCEPT !.at = IF exchange.id = Notification THEN "failed" ELSE "announces"]
        /\ abandoned' = abandoned \cup {exchange.id}
        /\ UNCHANGED <<heard, arrived, httpCalls, serverAsks>>
Announced == TRUE
Announces ==
    /\ exchange.at = "announces"
    /\ IF Announced THEN McpHttpSays("cancelled", exchange.id, transport.session) ELSE UNCHANGED heard
    /\ exchange' = [exchange EXCEPT !.at = "failed"]
    /\ UNCHANGED <<transport, arrived, abandoned, httpCalls, serverAsks>>

\* A failed session is dropped, any other when its owner lets go of it.
Closes ==
    /\ transport.open /\ exchange.at \in {"none", "failed"}
    /\ IF transport.session # 0 THEN McpHttpSays("delete", 0, transport.session) ELSE UNCHANGED heard
    /\ transport' = [transport EXCEPT !.open = FALSE, !.session = 0]
    /\ exchange' = NoExchange
    /\ UNCHANGED <<arrived, abandoned, httpCalls, serverAsks>>

McpHttpNext ==
       \/ CallBegins \/ Posts \/ (\E s \in {0, 1} : HeadArrives(s)) \/ ServerAsks \/ RepliesToServer
       \/ McpHttpAnswers \/ ExchangeFails \/ HttpGivenUp \/ Announces \/ Closes

(* ---------------------------------------------------------- properties ---- *)
\* Once the session's header has reached a configured transport, everything it
\* says is said in that session: the rest of the handshake, a reply to a server
\* that asks before it answers, the notice of a cancelled initialize, the end.
SpeaksInSession ==
    \A h \in heard : transport.configured /\ h.known # 0 => h.in = h.known

\* A session the server named is ended when the transport is, whatever became of
\* the handshake (the provisional session of a configured transport).
SessionGivenBack ==
    transport.configured /\ ~transport.open /\ arrived # 0
        => \E h \in heard : h.what = "delete" /\ h.in = arrived

\* A request its caller gave up is announced to the server, and no other is.
CancelsAnnounced ==
    /\ \A h \in heard : h.what = "cancelled" => h.id \in abandoned
    /\ exchange.at \in {"none", "failed"}
           => \A id \in abandoned \ {Notification} :
                  \E h \in heard : h.what = "cancelled" /\ h.id = id

-----------------------------------------------------------------------------
(* The incremental decoder of the MCP transport's event stream (SseDecoder):   *)
(* bytes arrive in any grouping, lines end in CR, LF or CRLF, the data lines   *)
(* of an event are joined by a line feed. One step is one byte.                *)

CONSTANTS
    MaxBytes   \* bytes of the stream

ASSUME SseAssumption == MaxBytes \in Nat

VARIABLES
    fed,      \* the bytes so far
    sseDecoder,  \* [buffer, data, skip]: the line, the event's data lines, "\n" to skip
    events    \* the events handed out

sseVars == <<fed, sseDecoder, events>>

\* "d" stands for the prefix of a data line; any other text is not data.
SseBytes == {"d", "x", "\r", "\n"}
IsData(line) == line # <<>> /\ Head(line) = "d"
SseNoLine == [buffer |-> <<>>, data |-> <<>>, skip |-> FALSE]

SseInit == fed = <<>> /\ sseDecoder = SseNoLine /\ events = <<>>

SkipAfter(d, byte) == FALSE
Byte(byte) ==
    /\ byte \notin {"\r", "\n"}
    /\ sseDecoder' = [sseDecoder EXCEPT !.buffer = Append(@, byte), !.skip = SkipAfter(sseDecoder, byte)]
    /\ UNCHANGED events
SseSkipped(byte) == byte = "\n" /\ sseDecoder.skip
Skips(byte) ==
    /\ SseSkipped(byte)
    /\ sseDecoder' = [sseDecoder EXCEPT !.skip = FALSE] /\ UNCHANGED events
LineEnds(byte) ==
    /\ byte \in {"\r", "\n"} /\ ~SseSkipped(byte)
    /\ LET line == sseDecoder.buffer IN
       /\ sseDecoder' = [buffer |-> <<>>, skip |-> byte = "\r",
                         data |-> IF line = <<>> THEN <<>>
                                  ELSE IF IsData(line) THEN Append(sseDecoder.data, Tail(line))
                                  ELSE sseDecoder.data]
       /\ events' = IF line = <<>> /\ sseDecoder.data # <<>> THEN Append(events, sseDecoder.data) ELSE events

SseNext ==
    /\ Len(fed) < MaxBytes
    /\ \E byte \in SseBytes :
        /\ fed' = Append(fed, byte)
        /\ Byte(byte) \/ Skips(byte) \/ LineEnds(byte)

(* ---------------------------------------------------------- properties ---- *)
\* The lines of a text whose ends are CRLF, CR or LF, without the unended last one.
LineEnd(i) == fed[i] = "\n" \/ (fed[i] = "\r" /\ ~(i < Len(fed) /\ fed[i + 1] = "\n"))
EndsOfLines == {i \in 1..Len(fed) : LineEnd(i) \/ (i = Len(fed) /\ fed[i] = "\r")}
From(i) == IF \E j \in EndsOfLines : j < i
           THEN (CHOOSE j \in EndsOfLines : j < i /\ \A k \in EndsOfLines : k < i => k <= j) + 1 ELSE 1
LineAt(i) == SelectSeq(SubSeq(fed, From(i), i), LAMBDA c : c \notin {"\r", "\n"})
StreamLines == LET ends == SetToSortSeq(EndsOfLines, <)
               IN [k \in 1..Len(ends) |-> LineAt(ends[k])]
\* The data lines between two empty lines are one event.
Blanks == {k \in 1..Len(StreamLines) : StreamLines[k] = <<>>}
After(k) == IF \E j \in Blanks : j < k
            THEN (CHOOSE j \in Blanks : j < k /\ \A i \in Blanks : i < k => i <= j) + 1 ELSE 1
DataBefore(k) == LET data == SelectSeq(SubSeq(StreamLines, After(k), k), IsData)
                 IN [i \in 1..Len(data) |-> Tail(data[i])]
SseWritten == SelectSeq([i \in 1..Len(SetToSortSeq(Blanks, <)) |-> DataBefore(SetToSortSeq(Blanks, <)[i])],
                        LAMBDA data : data # <<>>)

\* However the bytes were grouped, the events handed out are those of the stream
\* read as a whole: no line end is counted twice and no line is joined or lost.
DecodesTheStream == events = SseWritten

=============================================================================
