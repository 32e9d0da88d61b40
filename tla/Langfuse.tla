------------------------------- MODULE Langfuse -------------------------------
(***************************************************************************)
(* rpi-langfuse: one trace per turn, built from the host's events, which   *)
(* the host dispatches one at a time.  A span is buffered while it is open *)
(* and exported once: at the end of the turn, or in the middle of it when  *)
(* it has ended; an export may fail and is tried again with the next one.  *)
(***************************************************************************)
EXTENDS Naturals, Sequences

CONSTANTS
  MaxSpans,      \* bound on spans ever started
  MaxLostExports \* bound on exports that fail

ASSUME LangfuseConstants == MaxSpans \in Nat /\ MaxLostExports \in Nat

VARIABLES
  turn,       \* PROMPT_STATE: the open turn, or NoTurn
  spans,      \* the tracer's buffer
  exported,   \* the spans Langfuse received, in order
  parentEnv,  \* the parent's trace and root in the environment; trace 0 for none
  latch,      \* the session id latched from a tool call's arguments
  spanCount,
  named,      \* per trace: the session id its turn's payload named
  lostExports

langfuseVars == <<turn, spans, exported, parentEnv, latch, spanCount, named, lostExports>>

NoSession == "none"
NoTurn == [open |-> FALSE]
NoParent == [trace |-> 0, span |-> 0]
TraceIds == 0..MaxSpans

\* Token and cost counts a message may report.
Usages == {[output |-> 2, reasoning |-> 1, cost |-> 3], [output |-> 1, reasoning |-> 2, cost |-> 1]}
NoUsage == [output |-> 0, reasoning |-> 0, cost |-> 0]

\* resolve_reasoning_split: the reasoning tokens are part of the output.
CanSplit(u) == u.reasoning > 0 /\ u.reasoning <= u.output

\* build_usage_details, build_cost_details: the parts Langfuse adds up.
Details(u) ==
  LET split == CanSplit(u)
      reasoningCost == IF split THEN (u.cost * u.reasoning) \div u.output ELSE 0 IN
  [output |-> IF split THEN u.output - u.reasoning ELSE u.output,
   reasoning |-> IF split THEN u.reasoning ELSE 0,
   cost |-> u.cost - reasoningCost, reasoningCost |-> reasoningCost]

-----------------------------------------------------------------------------
\* current_session_id: the payload, then the tool arguments, then the process.
CurrentSession(payload, latched) ==
  CASE payload # NoSession -> payload [] latched # NoSession -> latched [] OTHER -> "pid"

\* start_observation, update_observation and end_observation on the buffer.
Span(n, trace, parent, session) ==
  [id |-> n, trace |-> trace, parent |-> parent, session |-> session, ended |-> FALSE, usage |-> NoUsage, details |-> Details(NoUsage)]
EndedAll(ss, ids) == [i \in DOMAIN ss |-> IF ss[i].id \in ids THEN [ss[i] EXCEPT !.ended = TRUE] ELSE ss[i]]
Used(ss, id, u) == [i \in DOMAIN ss |-> IF ss[i].id = id THEN [ss[i] EXCEPT !.usage = u, !.details = Details(u)] ELSE ss[i]]
Spans(n) == spanCount + n <= MaxSpans /\ spanCount' = spanCount + n

\* update_trace_context: the root and every span of the trace still buffered.
Relabelled(ss, trace, session) == [i \in DOMAIN ss |-> IF ss[i].trace = trace THEN [ss[i] EXCEPT !.session = session] ELSE ss[i]]

\* finalize_root: what is still open of the turn ends before its root.
FinalizeRoot(ss) == IF turn.open THEN EndedAll(ss, {turn.root, turn.generation} \cup turn.tools) ELSE ss

\* flush_ended_spans: a trace's root goes last.
Batch(ss, includeOpen) ==
  SelectSeq(ss, LAMBDA s : (s.ended \/ includeOpen) /\ s.parent # 0)
  \o SelectSeq(ss, LAMBDA s : (s.ended \/ includeOpen) /\ s.parent = 0)

\* What stays in the buffer after a successful export.
Kept(ss, includeOpen) == SelectSeq(ss, LAMBDA s : ~s.ended /\ ~includeOpen)

\* maybe_flush, force_flush: a failed export keeps its spans.
Flush(ss, includeOpen) ==
  \/ exported' = exported \o Batch(ss, includeOpen) /\ spans' = Kept(ss, includeOpen) /\ UNCHANGED lostExports
  \/ /\ lostExports < MaxLostExports /\ lostExports' = lostExports + 1
     /\ spans' = ss /\ UNCHANGED exported

-----------------------------------------------------------------------------
\* SessionStart forgets the turn; its spans stay in the buffer.
OnSessionStart ==
  /\ turn.open /\ turn' = NoTurn
  /\ UNCHANGED <<spans, exported, parentEnv, latch, spanCount, named, lostExports>>

\* BeforeAgentStart: the former turn is closed as cancelled, and withdraws the
\* parent from the environment; a subagent hangs its root under its parent's.
OnBeforeAgentStart(payload) ==
  LET env == IF turn.open THEN NoParent ELSE parentEnv
      root == spanCount + 1
      trace == IF env.trace # 0 THEN env.trace ELSE root
      session == CurrentSession(payload, latch) IN
  /\ Spans(1)
  /\ spans' = Append(FinalizeRoot(spans), Span(root, trace, env.span, session))
  /\ parentEnv' = IF env.trace # 0 THEN env ELSE [trace |-> trace, span |-> root]
  /\ turn' = [open |-> TRUE, root |-> root, trace |-> trace, session |-> session,
              generation |-> 0, tools |-> {}]
  /\ named' = [named EXCEPT ![trace] = IF @ = NoSession THEN payload ELSE @]
  /\ UNCHANGED <<exported, latch, lostExports>>

\* BeforeProviderRequest: a generation still open was superseded by a retry.
OnBeforeProviderRequest ==
  /\ turn.open /\ Spans(1)
  /\ spans' = Append(EndedAll(spans, {turn.generation}), Span(spanCount + 1, turn.trace, turn.root, turn.session))
  /\ turn' = [turn EXCEPT !.generation = spanCount + 1]
  /\ UNCHANGED <<exported, parentEnv, latch, named, lostExports>>

\* MessageEnd of an assistant: without tool calls the turn is over.
OnMessageEnd(u, hasCalls) ==
  LET used == EndedAll(Used(spans, turn.generation, u), {turn.generation}) IN
  /\ turn.open /\ turn.generation # 0
  /\ IF ~hasCalls /\ turn.tools = {}
     THEN turn' = NoTurn /\ parentEnv' = NoParent /\ Flush(FinalizeRoot(used), TRUE)
     ELSE turn' = [turn EXCEPT !.generation = 0] /\ Flush(used, FALSE) /\ UNCHANGED parentEnv
  /\ UNCHANGED <<latch, spanCount, named>>

\* ToolExecutionStart: only a plugin's tool reveals the session in its
\* arguments; the payload of the turn is not asked again.
OnToolStart(revealed) ==
  LET latched == IF revealed = NoSession THEN latch ELSE revealed
      session == CurrentSession(NoSession, latched)
      labelled == IF session = turn.session THEN spans ELSE Relabelled(spans, turn.trace, session) IN
  /\ turn.open /\ Spans(1) /\ latch' = latched
  /\ spans' = Append(labelled, Span(spanCount + 1, turn.trace, turn.root, session))
  /\ turn' = [turn EXCEPT !.session = session, !.tools = @ \cup {spanCount + 1}]
  /\ UNCHANGED <<exported, parentEnv, named, lostExports>>

\* ToolExecutionEnd: a usage the result reports becomes a span of its own.
OnToolEnd(tool, u) ==
  LET own == spanCount + 1
      with == Append(spans, Span(own, turn.trace, tool, turn.session)) IN
  /\ turn.open /\ tool \in turn.tools
  /\ IF u = NoUsage
     THEN spans' = EndedAll(spans, {tool}) /\ UNCHANGED spanCount
     ELSE Spans(1) /\ spans' = EndedAll(Used(with, own, u), {own, tool})
  /\ turn' = [turn EXCEPT !.tools = @ \ {tool}]
  /\ UNCHANGED <<exported, parentEnv, latch, named, lostExports>>

\* SessionCompact and SessionTree: a trace of one span that has ended.
OnSummary(u) ==
  LET own == spanCount + 1 IN
  /\ Spans(1)
  /\ spans' = EndedAll(Used(Append(spans, Span(own, own, 0, NoSession)), own, u), {own})
  /\ UNCHANGED <<turn, exported, parentEnv, latch, named, lostExports>>

\* AgentSettled and SessionShutdown: finalize and export everything.
OnTurnOver ==
  /\ turn.open \/ spans # <<>>
  /\ turn' = NoTurn /\ parentEnv' = IF turn.open THEN NoParent ELSE parentEnv
  /\ Flush(FinalizeRoot(spans), TRUE)
  /\ UNCHANGED <<latch, spanCount, named>>

-----------------------------------------------------------------------------
LangfuseInit ==
  /\ turn = NoTurn /\ spans = <<>> /\ exported = <<>> /\ parentEnv = NoParent
  /\ latch = NoSession /\ spanCount = 0 /\ lostExports = 0
  /\ named = [t \in TraceIds |-> NoSession]

LangfuseNext ==
  \/ OnSessionStart \/ OnBeforeProviderRequest \/ OnTurnOver
  \/ \E payload \in {NoSession, "s"} : OnBeforeAgentStart(payload)
  \/ \E u \in Usages, hasCalls \in BOOLEAN : OnMessageEnd(u, hasCalls)
  \/ \E revealed \in {NoSession, "s"} : OnToolStart(revealed)
  \/ turn.open /\ \E tool \in turn.tools, u \in Usages \cup {NoUsage} : OnToolEnd(tool, u)
  \/ \E u \in Usages : OnSummary(u)

-----------------------------------------------------------------------------
IdsIn(ss) == {ss[i].id : i \in DOMAIN ss}

\* Every span that was started is still buffered or was exported, exactly
\* once, whichever exports failed in between.
ExportedOnce ==
  /\ IdsIn(spans) \cup IdsIn(exported) = 1..spanCount
  /\ Len(spans) + Len(exported) = spanCount

\* Langfuse freezes a trace when its root arrives: nothing of the trace that
\* started while the turn was open is exported after its finished root.
RootLast ==
  \A i, j \in DOMAIN exported :
    /\ exported[i].parent = 0 /\ exported[i].ended /\ exported[j].trace = exported[i].trace
    => j <= i

\* A turn that was finalized left nothing open under its root: a span is open
\* only while its parent is.
ChildrenEndFirst ==
  \A i, j \in DOMAIN spans : spans[j].parent = spans[i].id /\ ~spans[j].ended => ~spans[i].ended

\* Splitting off the reasoning tokens neither loses nor invents a token or a cost.
UsageAddsUp ==
  \A i \in DOMAIN exported :
    LET s == exported[i] IN
    /\ s.details.output + s.details.reasoning = s.usage.output
    /\ s.details.cost + s.details.reasoningCost = s.usage.cost
    /\ s.details.output >= 0 /\ s.details.cost >= 0

===============================================================================
