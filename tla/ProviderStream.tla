--------------------------- MODULE ProviderStream ---------------------------
(***************************************************************************)
(* One request of the Antigravity provider (rpi-providers antigravity:     *)
(* driver.rs, stream.rs, sse.rs, events.rs): the pre-response deadline, the *)
(* caller's cancellation, the SSE decoder over a body that arrives in      *)
(* arbitrary pieces, the machine that turns chunks into events, and the    *)
(* consumer that rebuilds the message from them.                           *)
(*                                                                         *)
(* A chunk is [part, sign, finish, usage], part one of "none", "text",     *)
(* "thought", "call" and "mark" (a thought of a signature alone); its text  *)
(* and its signature are named by its number.  A token of the body is a data line, a line that   *)
(* carries no chunk ("junk": a comment, [DONE], invalid or cut JSON) or    *)
(* the blank line that ends a frame ("end").                               *)
(***************************************************************************)
EXTENDS Integers, Sequences, SequencesExt

CONSTANTS Chunk,        \* the chunks the server may send
          WithTrailing, \* TRUE for a model whose usage follows the finish
          MaxProviderLines,     \* bound on the lines the server sends
          MaxJunk       \* bound on those that carry no chunk

ASSUME StreamAssumption == MaxProviderLines \in Nat \ {0} /\ MaxJunk \in Nat

VARIABLES providerRequest,   \* the driver: where it is, its deadline, its outcome
          providerServer,    \* what the server sent so far
          decoder,   \* the bytes read and the frame being taken apart
          output,    \* the message being built
          consumer   \* what the host stream rebuilt from the events

providerStreamVars == <<providerRequest, providerServer, decoder, output, consumer>>

Absent == -1
NoUsage == [prompt |-> Absent, cache |-> Absent]
NoSign == 0
Line(n) == [tag |-> "line", chunk |-> n]
Junk == [tag |-> "junk", chunk |-> 0]
End == [tag |-> "end", chunk |-> 0]

StreamInit ==
    /\ providerRequest = [at |-> "new", active |-> TRUE, expired |-> FALSE,
                          cancelled |-> FALSE, flow |-> "continue", accepted |-> FALSE,
                          error |-> "none", sink |-> TRUE, executed |-> FALSE]
    /\ providerServer = [sent |-> <<>>, junk |-> 0]
    /\ decoder = [buffer |-> <<>>, frame |-> <<>>, eof |-> FALSE, taken |-> {}]
    /\ output = [content |-> <<>>, text |-> 0, thinking |-> 0,
                 pending |-> NoSign, terminal |-> FALSE, reason |-> "stop",
                 input |-> 0, cacheRead |-> 0]
    /\ consumer = [blocks |-> <<>>, open |-> {}, last |-> "none",
                   message |-> <<>>]

(***************************************************************************)
(* The deadline: one expiry for everything before accepted headers.        *)
(***************************************************************************)
Checked ==
    IF providerRequest.cancelled THEN "aborted"
    ELSE IF providerRequest.active /\ providerRequest.expired THEN "timeout" ELSE "none"

Cancel ==
    /\ providerRequest.at # "over" /\ ~providerRequest.cancelled
    /\ providerRequest' = [providerRequest EXCEPT !.cancelled = TRUE]
    /\ UNCHANGED <<providerServer, decoder, output, consumer>>

\* An expiry after accepted headers is never looked at.
Expire ==
    /\ providerRequest.at # "over" /\ providerRequest.active /\ ~providerRequest.expired
    /\ providerRequest' = [providerRequest EXCEPT !.expired = TRUE]
    /\ UNCHANGED <<providerServer, decoder, output, consumer>>

\* The consumer drops its stream: every later event is refused.
ConsumerLeaves ==
    /\ providerRequest.at \notin {"new", "over"} /\ providerRequest.sink
    /\ providerRequest' = [providerRequest EXCEPT !.sink = FALSE]
    /\ UNCHANGED <<providerServer, decoder, output, consumer>>

ProviderFails(error) == providerRequest' = [providerRequest EXCEPT !.at = "failing", !.error = error]

\* Every wait of the driver: the caller's cancellation and the deadline are
\* looked at before, during and after the work.
Waits(step) ==
    IF Checked # "none"
      THEN ProviderFails(Checked) /\ UNCHANGED <<providerServer, decoder, output, consumer>>
      ELSE step

(***************************************************************************)
(* The consumer: it rebuilds the message from the events alone.            *)
(***************************************************************************)
\* An event is [type, index, chunk]; the blocks of a message are
\* [kind, says, sign].
Rebuilt(view, event) ==
    CASE event.type = "start" -> [view EXCEPT
           !.blocks = Append(@, [kind |-> event.kind, says |-> <<>>]),
           !.open = @ \cup {event.index}]
      [] event.type = "delta" -> [view EXCEPT
           !.blocks[event.index].says = Append(@, event.chunk)]
      [] event.type = "end" -> [view EXCEPT !.open = @ \ {event.index}]

ProviderEvent(type, kind, index, n) ==
            [type |-> type, kind |-> kind, index |-> index, chunk |-> n]

\* The events of one chunk reach the consumer, or, once it has left, the
\* first of them stops the driver.
ProviderEmits(events, next) ==
            IF events = <<>> \/ providerRequest.sink
              THEN /\ consumer' = FoldLeft(Rebuilt, consumer, events)
                   /\ next
              ELSE ProviderFails("closed") /\ UNCHANGED <<output, consumer>>

(***************************************************************************)
(* The stream machine: one chunk.                                          *)
(***************************************************************************)
Closing(index, kind) ==
    IF index = 0 THEN <<>> ELSE <<ProviderEvent("end", kind, index, 0)>>

Block(kind, says, sign) == [kind |-> kind, says |-> says, sign |-> sign]

\* A lone signature is kept for the next block, or given to the open text.
OnlySigns(out, n) ==
    IF out.text # 0
      THEN [out EXCEPT !.content[out.text].sign = n]
      ELSE [out EXCEPT !.pending = n]

\* The signature a new call or text takes: its own, else the pending one.
Signature(out, chunk, n) == IF chunk.sign THEN n ELSE out.pending

WithCall(out, chunk, n) ==
    [out EXCEPT !.content = Append(@, Block("call", <<n>>, Signature(out, chunk, n))),
                !.pending = NoSign, !.text = 0, !.thinking = 0,
                !.reason = "toolUse"]

CallEvents(out, n) ==
    LET index == Len(out.content) + 1
    IN  Closing(out.text, "text") \o Closing(out.thinking, "thinking")
          \o <<ProviderEvent("start", "call", index, n), ProviderEvent("delta", "call", index, n),
               ProviderEvent("end", "call", index, n)>>

\* A thought or a text goes to the open block of its kind or opens one, after
\* the open block of the other kind is closed.
WithThought(out, chunk, n) ==
    LET index == IF out.thinking = 0 THEN Len(out.content) + 1 ELSE out.thinking
        sign == IF chunk.sign THEN n
                ELSE IF out.thinking = 0 THEN NoSign
                ELSE out.content[index].sign
        says == IF out.thinking = 0 THEN <<n>> ELSE Append(out.content[index].says, n)
        block == Block("thinking", says, sign)
    IN  [out EXCEPT !.content = IF out.thinking = 0 THEN Append(@, block)
                                ELSE [@ EXCEPT ![index] = block],
                    !.thinking = index, !.text = 0]

WithText(out, chunk, n) ==
    LET index == IF out.text = 0 THEN Len(out.content) + 1 ELSE out.text
        sign == IF out.text = 0 THEN Signature(out, chunk, n)
                ELSE IF chunk.sign THEN n ELSE out.content[index].sign
        says == IF out.text = 0 THEN <<n>> ELSE Append(out.content[index].says, n)
        block == Block("text", says, sign)
    IN  [out EXCEPT !.content = IF out.text = 0 THEN Append(@, block)
                                ELSE [@ EXCEPT ![index] = block],
                    !.pending = IF out.text = 0 THEN NoSign ELSE @,
                    !.text = index, !.thinking = 0]

SpokenEvents(out, kind, n) ==
    LET mine == IF kind = "text" THEN out.text ELSE out.thinking
        index == IF mine = 0 THEN Len(out.content) + 1 ELSE mine
    IN  (IF kind = "text" THEN Closing(out.thinking, "thinking")
         ELSE Closing(out.text, "text"))
          \o (IF mine = 0 THEN <<ProviderEvent("start", kind, index, n)>> ELSE <<>>)
          \o <<ProviderEvent("delta", kind, index, n)>>

Spoken(out, chunk, n) ==
    CASE chunk.part = "call" -> WithCall(out, chunk, n)
      [] chunk.part = "thought" -> WithThought(out, chunk, n)
      [] chunk.part = "text" -> WithText(out, chunk, n)
      [] chunk.part = "none" /\ chunk.sign -> OnlySigns(out, n)
      [] chunk.part = "mark" -> IF chunk.sign THEN [out EXCEPT !.pending = n] ELSE out
      [] OTHER -> out

PartEvents(out, chunk, n) ==
    CASE chunk.part = "call" -> CallEvents(out, n)
      [] chunk.part = "thought" -> SpokenEvents(out, "thinking", n)
      [] chunk.part = "text" -> SpokenEvents(out, "text", n)
      [] OTHER -> <<>>

\* A usage record may leave a count out: the last known one stands.
Counted(out, usage) ==
    IF usage = NoUsage THEN out
    ELSE LET cache == IF usage.cache = Absent THEN out.cacheRead ELSE usage.cache
             prompt == IF usage.prompt = Absent THEN out.input + out.cacheRead
                       ELSE usage.prompt
         IN  [out EXCEPT !.input = IF prompt > cache THEN prompt - cache ELSE 0,
                         !.cacheRead = cache]

ProviderFinished(out) ==
            [out EXCEPT !.text = 0, !.thinking = 0, !.terminal = TRUE]

FlowAfter(chunk) ==
    IF WithTrailing /\ chunk.usage = NoUsage THEN "trailing" ELSE "complete"

\* After the terminal chunk only usage is looked at; the stream machine stops
\* once it has come.
HandlesChunk(n) ==
    LET chunk == providerServer.sent[n]
        counted == Counted(output, chunk.usage)
        said == Spoken(counted, chunk, n)
        flow == IF output.terminal \/ chunk.finish THEN FlowAfter(chunk) ELSE "continue"
    IN  IF output.terminal
          THEN /\ output' = counted
               /\ providerRequest' = [providerRequest EXCEPT !.flow = IF chunk.usage = NoUsage
                                                                      THEN "trailing" ELSE "complete"]
               /\ UNCHANGED consumer
          ELSE ProviderEmits(PartEvents(counted, chunk, n)
                               \o (IF chunk.finish
                                   THEN Closing(said.text, "text") \o Closing(said.thinking, "thinking")
                                   ELSE <<>>),
                             /\ output' = IF chunk.finish THEN ProviderFinished(said) ELSE said
                             /\ providerRequest' = [providerRequest EXCEPT !.flow = flow])

(***************************************************************************)
(* The SSE decoder.                                                        *)
(***************************************************************************)
\* The lines of the first complete frame; at the end of the body, the rest.
Boundary(tokens) ==
    IF \E k \in DOMAIN tokens : tokens[k].tag = "end"
      THEN CHOOSE k \in DOMAIN tokens :
             tokens[k].tag = "end" /\ \A j \in 1 .. k - 1 : tokens[j].tag # "end"
      ELSE 0

\* next_chunk: the next data line of the frame, taking frames until one has it.
NextFrame(dec) ==
    IF dec.frame # <<>> THEN dec
    ELSE IF Boundary(dec.buffer) # 0
      THEN [dec EXCEPT !.frame = SubSeq(dec.buffer, 1, Boundary(dec.buffer) - 1),
                       !.buffer = SubSeq(dec.buffer, Boundary(dec.buffer) + 1,
                                         Len(dec.buffer))]
    ELSE IF dec.eof THEN [dec EXCEPT !.frame = dec.buffer, !.buffer = <<>>]
    ELSE dec

DecoderIdle == decoder.frame = <<>> /\ NextFrame(decoder) = decoder

TakesFrame ==
    /\ providerRequest.at = "reading"
    /\ NextFrame(decoder) # decoder
    /\ Waits(decoder' = NextFrame(decoder)
             /\ UNCHANGED <<providerRequest, providerServer, output, consumer>>)

TakesLine ==
    /\ providerRequest.at = "reading" /\ providerRequest.flow # "complete"
    /\ decoder.frame # <<>>
    /\ Waits(/\ decoder' = [decoder EXCEPT !.frame = Tail(@),
                                           !.taken = IF Head(decoder.frame).tag = "line"
                                                     THEN @ \cup {Head(decoder.frame).chunk}
                                                     ELSE @]
             /\ IF Head(decoder.frame).tag = "line"
                  THEN HandlesChunk(Head(decoder.frame).chunk)
                  ELSE UNCHANGED <<providerRequest, output, consumer>>
             /\ UNCHANGED providerServer)

(***************************************************************************)
(* The body: the server sends a piece, ends it, or the read fails.         *)
(***************************************************************************)
\* A server that has finished sends usage at most; a finish comes last.
Sends(chunk) ==
    LET ended == \E k \in DOMAIN providerServer.sent : providerServer.sent[k].finish
    IN  /\ Len(providerServer.sent) + providerServer.junk < MaxProviderLines
        /\ ended => chunk.part = "none" /\ ~chunk.sign /\ ~chunk.finish

\* The body returns a piece: a line, a line with the end of its frame, or the
\* end of a frame with the first line of the next.
ProviderReadsLine(chunk) ==
            /\ providerRequest.at = "reading" /\ providerRequest.flow # "complete"
            /\ DecoderIdle /\ ~decoder.eof /\ Sends(chunk)
            /\ LET n == Len(providerServer.sent) + 1
               IN  \E piece \in {<<Line(n)>>, <<Line(n), End>>, <<End, Line(n)>>} :
                     Waits(/\ providerServer' = [providerServer EXCEPT !.sent = Append(@, chunk)]
                           /\ decoder' = [decoder EXCEPT !.buffer = @ \o piece]
                           /\ UNCHANGED <<providerRequest, output, consumer>>)

ReadsJunk ==
    /\ providerRequest.at = "reading" /\ providerRequest.flow # "complete"
    /\ DecoderIdle /\ ~decoder.eof /\ providerServer.junk < MaxJunk
    /\ Len(providerServer.sent) + providerServer.junk < MaxProviderLines
    /\ \E piece \in {<<Junk>>, <<Junk, End>>} :
         Waits(/\ providerServer' = [providerServer EXCEPT !.junk = @ + 1]
               /\ decoder' = [decoder EXCEPT !.buffer = @ \o piece]
               /\ UNCHANGED <<providerRequest, output, consumer>>)

ReadsEnd ==
    /\ providerRequest.at = "reading" /\ providerRequest.flow # "complete"
    /\ DecoderIdle /\ ~decoder.eof
    /\ Waits(/\ decoder' = [decoder EXCEPT !.eof = TRUE]
             /\ UNCHANGED <<providerRequest, providerServer, output, consumer>>)

\* A broken connection, or the idle limit of a silent one.
ProviderReadFails ==
            /\ providerRequest.at = "reading" /\ providerRequest.flow # "complete"
            /\ DecoderIdle /\ ~decoder.eof
            /\ Waits(ProviderFails("read") /\ UNCHANGED <<providerServer, decoder, output, consumer>>)

\* A chunk may carry an error or a blocked prompt.
ReadsError ==
    /\ providerRequest.at = "reading" /\ providerRequest.flow # "complete"
    /\ DecoderIdle /\ ~decoder.eof
    /\ Waits(ProviderFails("embedded") /\ UNCHANGED <<providerServer, decoder, output, consumer>>)

\* Nothing follows the finish for a second: the message ends without usage.
TrailingEnds ==
    /\ providerRequest.at = "reading" /\ providerRequest.flow = "trailing"
    /\ DecoderIdle /\ Checked = "none"
    /\ providerRequest' = [providerRequest EXCEPT !.at = "finishing"]
    /\ UNCHANGED <<providerServer, decoder, output, consumer>>

BodyOver ==
    /\ providerRequest.at = "reading"
    /\ \/ providerRequest.flow = "complete" /\ providerRequest' = [providerRequest EXCEPT !.at = "finishing"]
       \/ /\ providerRequest.flow # "complete" /\ DecoderIdle /\ decoder.eof
          /\ IF Checked = "none" THEN providerRequest' = [providerRequest EXCEPT !.at = "finishing"]
             ELSE ProviderFails(Checked)
    /\ UNCHANGED <<providerServer, decoder, output, consumer>>

(***************************************************************************)
(* The run.                                                                *)
(***************************************************************************)
ProviderStarts ==
            /\ providerRequest.at = "new"
            /\ providerRequest' = [providerRequest EXCEPT !.at = "opening"]
            /\ UNCHANGED <<providerServer, decoder, output, consumer>>

\* The response arrives; a success passes a check of its own before the
\* deadline is lifted, another status is read under the deadline.
ProviderOpens ==
            /\ providerRequest.at = "opening"
            /\ Waits(/\ \/ providerRequest' = [providerRequest EXCEPT !.at = "headers"]
                        \/ providerRequest' = [providerRequest EXCEPT !.at = "refused"]
                        \/ ProviderFails("send")
                     /\ UNCHANGED <<providerServer, decoder, output, consumer>>)

\* The wait ends although nothing arrives.
OpenEnds ==
    /\ providerRequest.at \in {"opening", "refused"} /\ Checked # "none"
    /\ ProviderFails(Checked)
    /\ UNCHANGED <<providerServer, decoder, output, consumer>>

ProviderAccepts ==
            /\ providerRequest.at = "headers"
            /\ Waits(/\ providerRequest' = [providerRequest EXCEPT !.at = "reading", !.accepted = TRUE,
                                                                   !.active = FALSE]
                     /\ UNCHANGED <<providerServer, decoder, output, consumer>>)

ProviderRefused ==
            /\ providerRequest.at = "refused"
            /\ Waits(ProviderFails("status") /\ UNCHANGED <<providerServer, decoder, output, consumer>>)

\* finish: a cancelled caller, a missing terminal chunk or an empty message is
\* an error; otherwise the done event carries the message.
Finishes ==
    /\ providerRequest.at = "finishing"
    /\ IF providerRequest.cancelled THEN ProviderFails("aborted") /\ UNCHANGED consumer
       ELSE IF ~output.terminal THEN ProviderFails("incomplete") /\ UNCHANGED consumer
       ELSE IF output.content = <<>> THEN ProviderFails("empty") /\ UNCHANGED consumer
       ELSE IF ~providerRequest.sink THEN ProviderFails("closed") /\ UNCHANGED consumer
       ELSE /\ providerRequest' = [providerRequest EXCEPT !.at = "over", !.executed = output.reason = "stop"]
            /\ consumer' = [consumer EXCEPT !.last = "done", !.message = output.content]
    /\ UNCHANGED <<providerServer, decoder, output>>

\* fail: the reason is the caller's state now.
ProviderEnds ==
            /\ providerRequest.at = "failing"
            /\ providerRequest' = [providerRequest EXCEPT !.at = "over"]
            /\ consumer' = IF ~providerRequest.sink THEN consumer
                           ELSE [consumer EXCEPT !.last = IF providerRequest.cancelled THEN "aborted"
                                                          ELSE "error",
                                                 !.message = output.content]
            /\ UNCHANGED <<providerServer, decoder, output>>

DriverSteps ==
    \/ ProviderStarts \/ OpenEnds \/ ProviderAccepts \/ ProviderRefused \/ TakesFrame \/ TakesLine
    \/ ProviderReadFails \/ TrailingEnds \/ BodyOver \/ Finishes \/ ProviderEnds

ProviderServerSteps ==
            \/ ProviderOpens \/ ReadsJunk \/ ReadsEnd \/ ReadsError
            \/ \E chunk \in Chunk : ProviderReadsLine(chunk)

Rests == providerRequest.at = "over" /\ UNCHANGED providerStreamVars

StreamNext ==
    DriverSteps \/ ProviderServerSteps \/ Cancel \/ Expire \/ ConsumerLeaves \/ Rests

(***************************************************************************)
(* Properties                                                              *)
(***************************************************************************)
Shape(content) == [k \in DOMAIN content |-> [kind |-> content[k].kind,
                                             says |-> content[k].says]]

\* What the events say is what the message holds: whenever the request is over
\* its message is the one the consumer rebuilt, and a done message leaves no
\* block open.
EventsRebuild ==
    consumer.last # "none" =>
        /\ consumer.blocks = Shape(consumer.message)
        /\ consumer.last = "done" => consumer.open = {}

\* A signature of the server lands on one block at most: a call never carries
\* the signature that an earlier block took.
SignedOnce ==
    \A i, j \in DOMAIN output.content :
        i # j /\ output.content[i].sign # NoSign
            => output.content[i].sign # output.content[j].sign

\* A done message holds, in order, every part the server sent, however the
\* body was cut into pieces.
Says(n) == providerServer.sent[n].part \in {"text", "thought", "call"}
DoneIsWhole ==
    consumer.last = "done" =>
        FlattenSeq([k \in DOMAIN consumer.message |-> consumer.message[k].says])
          = SelectSeq([n \in DOMAIN providerServer.sent |-> n], Says)

\* Once the caller has cancelled the request cannot end well, in whichever gap
\* between two waits the cancellation falls.
CancelledNeverDone ==
    [][providerRequest.cancelled /\ consumer.last # "done" => consumer'.last # "done"]_providerStreamVars

\* The pre-response deadline never ends a response it has accepted.
TimeoutOnlyBefore == providerRequest.error = "timeout" => ~providerRequest.accepted

\* Every prompt token is counted once, cached or not, over all the usage
\* records of a stream, the partial ones included.
PromptOf(taken) ==
    LET said == {n \in taken : providerServer.sent[n].usage.prompt # Absent}
    IN  IF said = {} THEN 0
        ELSE providerServer.sent[CHOOSE n \in said : \A m \in said : m <= n].usage.prompt
PromptCountedOnce ==
    PromptOf(decoder.taken) # 0 =>
        \/ output.input + output.cacheRead = PromptOf(decoder.taken)
        \/ providerRequest.at = "failing" \/ providerRequest.at = "over"

\* Every request that was begun ends: a server that never answers meets the deadline, one
\* that falls silent the idle limit.
ResponseOwed == providerRequest.at # "over"
ResponseMet == providerRequest.at = "over"
=============================================================================
