-------------------------------- MODULE Durable --------------------------------
(***************************************************************************)
(* rpi-durable: a workflow, a run's tool calls and a work queue kept as a  *)
(* journal of entries on the session's branch, of which memory holds a     *)
(* decoded copy.  An event or a tool call reads the copy, computes the     *)
(* next state, and commits under a lock if the copy has not changed.  The  *)
(* append may be refused, may succeed without a readable answer, and the   *)
(* process may die around it.  rpi-durable-core replays the same journal   *)
(* for the service's projection.                                           *)
(***************************************************************************)
EXTENDS Naturals, Sequences, FiniteSets, SequencesExt

CONSTANTS
  StepIds,          \* the steps of a workflow
  Calls,            \* tool call ids
  MaxTools,         \* MAX_JOURNAL_ENTRIES
  MaxItems,         \* MAX_QUEUE_ITEMS
  SnapshotInterval, \* SNAPSHOT_INTERVAL
  MaxAppends,       \* bound on journal entries written
  MaxJournalFaults, \* bound on failed appends, crashes and navigations
  Topics            \* what the tool may be called about; one per behaviour

ASSUME DurableConstants ==
  /\ IsFiniteSet(StepIds) /\ IsFiniteSet(Calls) /\ StepIds # {}
  /\ MaxTools \in Nat \ {0} /\ MaxItems \in Nat /\ SnapshotInterval \in Nat \ {0}
  /\ MaxAppends \in Nat /\ MaxJournalFaults \in Nat /\ Topics \subseteq {"run", "workflow", "queue"}

VARIABLES
  journal,       \* the branch: its durable entries
  appends,       \* the native ids given out
  store,         \* STATE: [initialized, failed, state, anchor, commits, force]
  caller,        \* per thread: what it read and will commit, [at, current, next]
  journalFaults,
  topic          \* what the tool is called about in this behaviour

durableVars == <<journal, appends, store, caller, journalFaults, topic>>

DurableThreads == {"events", "tool"}
NoWorkflow == [status |-> "none", steps |-> <<>>]
NoRun == [id |-> 0, status |-> "none", recovers |-> 0, updated |-> 0, tools |-> <<>>]
NoState == [revision |-> 0, runs |-> 0, items |-> 0, workflow |-> NoWorkflow, run |-> NoRun, queue |-> <<>>]
NoCall == [at |-> "idle", current |-> NoState, next |-> NoState]

\* Store::default: nothing decoded yet.
NoStore == [initialized |-> FALSE, failed |-> FALSE, state |-> NoState, anchor |-> 0, commits |-> 0, force |-> TRUE]

-----------------------------------------------------------------------------
(* The state's transitions.                                                 *)

\* drain: the oldest tool entries go when there are too many.
Bounded(tools) == IF Len(tools) > MaxTools THEN SubSeq(tools, Len(tools) - MaxTools + 1, Len(tools)) ELSE tools

\* allocate_run, start_run.
StartRun(s) ==
  [s EXCEPT !.runs = @ + 1,
            !.run = [id |-> s.runs + 1, status |-> "running", updated |-> s.revision + 1, tools |-> <<>>,
                     recovers |-> IF s.run.status \in {"queued", "running"} THEN s.run.id ELSE 0]]

EnsureRun(s) == IF s.run = NoRun THEN StartRun(s) ELSE s

\* record_tool_start: an entry for a call already known is kept as it is.
ToolStarted(s, c) ==
  LET r == EnsureRun(s) IN
  IF r.run.status # "running" \/ \E i \in DOMAIN r.run.tools : r.run.tools[i].call = c /\ r.run.tools[i].status # "unknown"
  THEN r
  ELSE [r EXCEPT !.run.tools = Bounded(Append(@, [call |-> c, status |-> "started"]))]

\* record_tool_end: the result goes to the one entry of its call, if that has
\* none yet; with none or several, it is kept apart.
ToolEnded(s, c, status) ==
  LET r == EnsureRun(s)
      matching == {i \in DOMAIN r.run.tools : r.run.tools[i].call = c} IN
  IF Cardinality(matching) = 1
  THEN LET i == CHOOSE j \in matching : TRUE IN
       IF r.run.tools[i].status = "started" THEN [r EXCEPT !.run.tools[i].status = status] ELSE r
  ELSE [r EXCEPT !.run.tools = Bounded(Append(@, [call |-> c, status |-> "unknown"]))]

\* settle_run and mark_interrupted: a running run ends, and with it its calls.
EndRun(s, status) ==
  IF s.run.status # "running" THEN s
  ELSE [s EXCEPT !.run.status = status,
                 !.run.tools = [i \in DOMAIN @ |-> IF @[i].status = "started" THEN [@[i] EXCEPT !.status = "interrupted"] ELSE @[i]]]

\* recover_run: a queued run takes an interrupted one's calls over.
Recovered(s) ==
  IF s.run.status = "interrupted"
  THEN {[s EXCEPT !.runs = @ + 1,
                  !.run = [id |-> s.runs + 1, status |-> "queued", recovers |-> s.run.id,
                           updated |-> s.revision + 1, tools |-> s.run.tools]]}
  ELSE {}

\* start, checkpoint, pause, resume, complete, fail, reset.
WorkflowMoves(s) ==
  LET With(status) == {[s EXCEPT !.workflow.status = status]} IN
  {[s EXCEPT !.workflow = [status |-> "running", steps |-> [i \in StepIds |-> "pending"]]], [s EXCEPT !.workflow = NoWorkflow]}
  \cup (IF s.workflow.status = "running"
        THEN {[s EXCEPT !.workflow.steps[i] = st] : i \in StepIds, st \in {"pending", "in_progress", "completed"}} \cup With("paused")
        ELSE {})
  \cup (IF s.workflow.status = "paused" THEN With("running") ELSE {})
  \cup (IF s.workflow.status = "running" /\ \A i \in StepIds : s.workflow.steps[i] = "completed" THEN With("completed") ELSE {})
  \cup (IF s.workflow.status \in {"running", "paused"} THEN With("failed") ELSE {})

\* enqueue_item, claim_item, finish_item, cancel_item.
Enqueued(s) ==
  IF Len(s.queue) >= MaxItems THEN {}
  ELSE {[s EXCEPT !.items = @ + 1, !.queue = Append(@, [id |-> s.items + 1, status |-> "queued"])]}
ItemMoves(s, from, to) ==
  {[s EXCEPT !.queue[i].status = st] : i \in {j \in DOMAIN s.queue : s.queue[j].status \in from}, st \in to}
Claimed(s) == ItemMoves(s, {"queued"}, {"claimed"})
Finished(s) == ItemMoves(s, {"claimed"}, {"completed", "failed"})
Cancelled(s) == ItemMoves(s, {"queued", "claimed"}, {"cancelled"})

\* apply_action: what one call of the tool may ask for; a refused one changes
\* nothing.
ToolAsks(s) ==
  CASE topic = "run" -> {StartRun(s), EndRun(s, "settled")} \cup Recovered(s) \cup (IF s.run = NoRun THEN {} ELSE {[s EXCEPT !.run = NoRun]})
    [] topic = "workflow" -> WorkflowMoves(s)
    [] topic = "queue" -> Enqueued(s) \cup Claimed(s) \cup Finished(s) \cup Cancelled(s)

\* handle_event, but for the restores.
EventAsks(s) ==
  {StartRun(s), EndRun(s, "settled"), EndRun(s, "interrupted")}
  \cup {ToolStarted(s, c) : c \in Calls} \cup {ToolEnded(s, c, st) : c \in Calls, st \in {"completed", "failed"}}

-----------------------------------------------------------------------------
(* The journal.                                                             *)

\* tool_changes: an append, also at the bound, or updates of entries whose
\* call is unique; else the whole list.
ToolChanges(a, b) ==
  LET Unique(i) == Cardinality({j \in DOMAIN a : a[j].call = a[i].call}) = 1
      changed == {i \in DOMAIN a : i \in DOMAIN b /\ a[i] # b[i]} IN
  CASE a = b -> <<>>
    [] a # b /\ (IF Len(b) = Len(a) + 1 THEN IsPrefix(a, b)
                 ELSE Len(a) = MaxTools /\ Len(b) = MaxTools /\ Front(b) = Tail(a)) -> <<[op |-> "append_tool", tool |-> Last(b)]>>
    [] a # b /\ Len(b) = Len(a) /\ ~(Len(a) = MaxTools /\ Front(b) = Tail(a))
       /\ \A i \in changed : a[i].call = b[i].call /\ Unique(i) ->
         LET order == SetToSortSeq(changed, <) IN [n \in DOMAIN order |-> [op |-> "update_tool", tool |-> b[order[n]]]]
    [] OTHER -> <<[op |-> "set_tools", tools |-> b]>>

\* workflow_changes.
WorkflowChanges(a, b) ==
  IF a = NoWorkflow \/ b = NoWorkflow THEN <<[op |-> "set_workflow", workflow |-> b]>>
  ELSE (IF a.status # b.status THEN <<[op |-> "workflow_status", status |-> b.status]>> ELSE <<>>)
       \o LET order == SetToSeq({i \in StepIds : a.steps[i] # b.steps[i]}) IN
          [n \in DOMAIN order |-> [op |-> "update_step", step |-> order[n], status |-> b.steps[order[n]]]]

QueueChanges(a, b) ==
  LET changed == {i \in DOMAIN a : i \in DOMAIN b /\ a[i] # b[i]} IN
  CASE a = b -> <<>>
    [] a # b /\ Len(b) = Len(a) + 1 /\ IsPrefix(a, b) -> <<[op |-> "append_item", item |-> Last(b)]>>
    [] a # b /\ Len(b) = Len(a) /\ Cardinality(changed) = 1 -> <<[op |-> "update_item", item |-> b[CHOOSE i \in changed : TRUE]]>>
    [] OTHER -> <<[op |-> "set_queue", queue |-> b]>>

RunChanges(a, b) ==
  IF a = NoRun \/ b = NoRun \/ a.id # b.id THEN (IF a = b THEN <<>> ELSE <<[op |-> "set_run", run |-> b]>>)
  ELSE (IF [a EXCEPT !.tools = b.tools] # b THEN <<[op |-> "run_meta", run |-> [b EXCEPT !.tools = <<>>]]>> ELSE <<>>)
       \o ToolChanges(a.tools, b.tools)

\* journal_changes.
Changes(a, b) ==
  (IF a.workflow # b.workflow THEN WorkflowChanges(a.workflow, b.workflow) ELSE <<>>)
  \o (IF a.runs # b.runs \/ a.items # b.items THEN <<[op |-> "counters", runs |-> b.runs, items |-> b.items]>> ELSE <<>>)
  \o RunChanges(a.run, b.run) \o QueueChanges(a.queue, b.queue)

\* validate_state.
ValidState(s) ==
  /\ Len(s.run.tools) <= MaxTools /\ Len(s.queue) <= MaxItems
  /\ \A i, j \in DOMAIN s.queue : s.queue[i].id = s.queue[j].id => i = j

\* apply_change: a path that is not there, or not unique, is an error.
Error == [ok |-> FALSE, state |-> NoState, anchor |-> 0, deltas |-> 0]
Applied(s, c) ==
  LET needsRun == c.op \in {"run_meta", "append_tool", "update_tool", "set_tools"}
      tool == IF c.op = "update_tool" THEN {i \in DOMAIN s.run.tools : s.run.tools[i].call = c.tool.call} ELSE {}
      item == IF c.op = "update_item" THEN {i \in DOMAIN s.queue : s.queue[i].id = c.item.id} ELSE {} IN
  CASE c.op = "set_workflow" -> <<[s EXCEPT !.workflow = c.workflow]>>
    [] c.op = "workflow_status" /\ s.workflow # NoWorkflow -> <<[s EXCEPT !.workflow.status = c.status]>>
    [] c.op = "update_step" /\ s.workflow # NoWorkflow -> <<[s EXCEPT !.workflow.steps[c.step] = c.status]>>
    [] c.op = "counters" -> <<[s EXCEPT !.runs = c.runs, !.items = c.items]>>
    [] c.op = "set_run" -> <<[s EXCEPT !.run = c.run]>>
    [] c.op = "run_meta" /\ s.run # NoRun -> <<[s EXCEPT !.run = [c.run EXCEPT !.tools = s.run.tools]]>>
    [] c.op = "append_tool" /\ s.run # NoRun -> <<[s EXCEPT !.run.tools = Bounded(Append(@, c.tool))]>>
    [] c.op = "update_tool" /\ s.run # NoRun /\ Cardinality(tool) = 1 ->
         <<[s EXCEPT !.run.tools = [i \in DOMAIN @ |-> IF i \in tool THEN c.tool ELSE @[i]]]>>
    [] c.op = "set_tools" /\ s.run # NoRun -> <<[s EXCEPT !.run.tools = c.tools]>>
    [] c.op = "append_item" -> <<[s EXCEPT !.queue = Append(@, c.item)]>>
    [] c.op = "update_item" /\ item # {} -> <<[s EXCEPT !.queue = [i \in DOMAIN @ |-> IF i \in item THEN c.item ELSE @[i]]]>>
    [] c.op = "set_queue" -> <<[s EXCEPT !.queue = c.queue]>>
    [] OTHER -> <<>>
ApplyAll(s, changes) ==
  FoldLeft(LAMBDA r, c : IF r = <<>> THEN <<>>
                         ELSE IF Applied(r[1], c) # <<>> /\ ValidState(Applied(r[1], c)[1]) THEN Applied(r[1], c) ELSE <<>>,
           <<s>>, changes)

\* decode_branch: from the newest snapshot on, each delta follows the entry
\* before it by anchor and by revision.
Snapshots(entries) == {i \in DOMAIN entries : entries[i].kind = "snapshot"}
Follow(r, e) ==
  IF ~r.ok \/ e.base # r.state.revision \/ e.anchor # r.anchor \/ e.revision # r.state.revision + 1
     \/ ApplyAll(r.state, e.changes) = <<>>
  THEN Error
  ELSE [ok |-> TRUE, state |-> [ApplyAll(r.state, e.changes)[1] EXCEPT !.revision = e.revision], anchor |-> e.id, deltas |-> r.deltas + 1]
Replay(entries) ==
  IF entries = <<>> THEN [ok |-> TRUE, state |-> NoState, anchor |-> 0, deltas |-> 0]
  ELSE IF Snapshots(entries) = {} THEN Error
  ELSE LET base == entries[Max(Snapshots(entries))] IN
       FoldLeft(Follow, [ok |-> TRUE, state |-> base.state, anchor |-> base.id, deltas |-> 0],
                SubSeq(entries, Max(Snapshots(entries)) + 1, Len(entries)))

CoreBounded(tools) == Bounded(tools)

\* rpi-durable-core's apply_change, where it is written apart: the same paths,
\* its own bounds.
CoreApplied(s, c) ==
  CASE c.op = "append_tool" /\ s.run # NoRun -> <<[s EXCEPT !.run.tools = CoreBounded(Append(@, c.tool))]>>
    [] c.op = "set_tools" /\ (s.run = NoRun \/ Len(c.tools) > MaxTools) -> <<>>
    [] c.op = "append_item" /\ (Len(s.queue) >= MaxItems \/ \E i \in DOMAIN s.queue : s.queue[i].id = c.item.id) -> <<>>
    [] OTHER -> Applied(s, c)
CoreApplyAll(s, changes) ==
  FoldLeft(LAMBDA r, c : IF r = <<>> THEN <<>>
                         ELSE IF CoreApplied(r[1], c) # <<>> /\ ValidState(CoreApplied(r[1], c)[1]) THEN CoreApplied(r[1], c) ELSE <<>>,
           <<s>>, changes)

\* replay_entries.
CoreFollow(r, e) ==
  IF ~r.ok \/ e.base # r.state.revision \/ e.anchor # r.anchor \/ e.revision # r.state.revision + 1
     \/ CoreApplyAll(r.state, e.changes) = <<>>
  THEN Error
  ELSE [ok |-> TRUE, state |-> [CoreApplyAll(r.state, e.changes)[1] EXCEPT !.revision = e.revision], anchor |-> e.id, deltas |-> r.deltas + 1]
CoreReplay(entries) ==
  IF entries = <<>> THEN [ok |-> TRUE, state |-> NoState, anchor |-> 0, deltas |-> 0]
  ELSE IF Snapshots(entries) = {} THEN Error
  ELSE LET base == entries[Max(Snapshots(entries))] IN
       FoldLeft(CoreFollow, [ok |-> TRUE, state |-> base.state, anchor |-> base.id, deltas |-> 0],
                SubSeq(entries, Max(Snapshots(entries)) + 1, Len(entries)))

\* commit_candidate: a snapshot when one is due or is no larger.
Record(s, n, smaller) ==
  LET next == [n EXCEPT !.revision = s.state.revision + 1, !.run = IF n.run = NoRun THEN NoRun ELSE [n.run EXCEPT !.updated = s.state.revision + 1]]
      snapshot == s.force \/ s.anchor = 0 \/ s.commits + 1 >= SnapshotInterval \/ smaller IN
  [id |-> appends + 1, kind |-> IF snapshot THEN "snapshot" ELSE "delta", base |-> s.state.revision, revision |-> next.revision,
   anchor |-> s.anchor, state |-> IF snapshot THEN next ELSE NoState,
   changes |-> IF snapshot THEN <<>> ELSE Changes(s.state, next), next |-> next]
Entry(r) == [f \in DOMAIN r \ {"next"} |-> r[f]]
Written(s, r) ==
  [s EXCEPT !.state = r.next, !.anchor = r.id, !.commits = IF r.kind = "snapshot" THEN 0 ELSE @ + 1, !.force = FALSE]

\* The append took place, or not; the answer was read, or not.
Answers == {"ok", "refused", "unread", "lost"}
Append_(r, answer) ==
  /\ appends < MaxAppends
  /\ IF answer = "ok" THEN UNCHANGED journalFaults ELSE journalFaults < MaxJournalFaults /\ journalFaults' = journalFaults + 1
  /\ IF answer \in {"ok", "unread"} THEN journal' = Append(journal, Entry(r)) /\ appends' = appends + 1 ELSE UNCHANGED <<journal, appends>>

-----------------------------------------------------------------------------
(* restore_state: decode the branch; what was running is now interrupted,   *)
(* which is committed before it is published.                               *)
Failed == [NoStore EXCEPT !.initialized = TRUE, !.failed = TRUE]
RestoreFrom(entries, answer, smaller) ==
  LET r == Replay(entries)
      s == [NoStore EXCEPT !.initialized = TRUE, !.state = r.state, !.anchor = r.anchor, !.commits = r.deltas, !.force = (entries = <<>>)] IN
  IF ~r.ok THEN store' = Failed /\ UNCHANGED <<appends, journalFaults>> /\ journal' = entries
  ELSE IF EndRun(r.state, "interrupted") = r.state
       THEN answer = "ok" /\ store' = s /\ journal' = entries /\ UNCHANGED <<appends, journalFaults>>
       ELSE LET rec == Record(s, EndRun(r.state, "interrupted"), smaller) IN
            /\ store' = IF answer = "ok" THEN Written(s, rec) ELSE Failed
            /\ entries = journal /\ Append_(rec, answer)

\* SessionStart, and ensure_initialized of the first caller.
Restore(answer, smaller) ==
  /\ caller["events"].at = "idle" /\ (~store.initialized \/ store.failed)
  /\ RestoreFrom(journal, answer, smaller) /\ UNCHANGED <<caller, topic>>

\* SessionTree: the host moved the branch back; no commit is under way.
MoveBranch(length) ==
  /\ \A t \in DurableThreads : caller[t].at = "idle"
  /\ store.initialized /\ length < Len(journal) /\ journalFaults < MaxJournalFaults
  /\ journal' = SubSeq(journal, 1, length) /\ store' = NoStore /\ journalFaults' = journalFaults + 1
  /\ UNCHANGED <<appends, caller, topic>>

\* snapshot_state or mutate_state: the copy is read, the next state computed.
ReadState(t) ==
  /\ caller[t].at = "idle" /\ store.initialized /\ ~store.failed
  /\ \E n \in IF t = "events" THEN EventAsks(store.state) ELSE ToolAsks(store.state) :
       n # store.state /\ caller' = [caller EXCEPT ![t] = [at |-> "committing", current |-> store.state, next |-> n]]
  /\ UNCHANGED <<journal, appends, store, journalFaults, topic>>

Unchanged(t) == store.state = caller[t].current

\* commit_state after a failed append: with an unreadable answer the journal
\* is not used again before a reload.
Refused(answer) == IF answer \in {"unread", "lost"} THEN [store EXCEPT !.failed = TRUE] ELSE store

CommitState(t, answer, smaller) ==
  /\ caller[t].at = "committing" /\ caller' = [caller EXCEPT ![t] = NoCall] /\ UNCHANGED topic
  /\ IF store.failed \/ ~Unchanged(t)
     THEN answer = "ok" /\ UNCHANGED <<journal, appends, store, journalFaults>>
     ELSE LET r == Record([store EXCEPT !.state = caller[t].current], caller[t].next, smaller) IN
          /\ Append_(r, answer)
          /\ store' = IF answer = "ok" THEN Written(store, r) ELSE Refused(answer)

\* The process dies, perhaps with the append done and nothing published.
DurableCrash(t, appended, smaller) ==
  /\ journalFaults < MaxJournalFaults /\ journalFaults' = journalFaults + 1
  /\ store' = NoStore /\ caller' = [u \in DurableThreads |-> NoCall] /\ UNCHANGED topic
  /\ IF appended
     THEN /\ caller[t].at = "committing" /\ ~store.failed /\ Unchanged(t) /\ appends < MaxAppends
          /\ journal' = Append(journal, Entry(Record(store, caller[t].next, smaller))) /\ appends' = appends + 1
     ELSE UNCHANGED <<journal, appends>>

DurableInit ==
  /\ journal = <<>> /\ appends = 0 /\ store = NoStore
  /\ caller = [t \in DurableThreads |-> NoCall] /\ journalFaults = 0 /\ topic \in Topics

DurableNext ==
  \/ \E answer \in Answers, smaller \in BOOLEAN :
       \/ Restore(answer, smaller)
       \/ \E t \in DurableThreads : CommitState(t, answer, smaller)
  \/ \E length \in 0..MaxAppends : MoveBranch(length)
  \/ \E t \in DurableThreads :
       \/ ReadState(t)
       \/ \E appended, smaller \in BOOLEAN : DurableCrash(t, appended, smaller)

-----------------------------------------------------------------------------
\* What memory holds is what the journal says: deltas, at every bound and
\* after every crash, refusal or navigation, replay to the state they were
\* computed from, and the next delta is anchored at the last entry.
JournalIsState ==
  store.initialized /\ ~store.failed =>
    LET r == Replay(journal) IN r.ok /\ r.state = store.state /\ r.anchor = store.anchor

\* No commit makes the branch unreadable: an answer that was not understood
\* never lets a later delta skip the entry it may have written.
JournalReadable == Replay(journal).ok

\* The service's projection, with a replay of its own, reads of any branch
\* what the package does, and refuses what the package refuses.
CoreAgrees == CoreReplay(journal) = Replay(journal)
===============================================================================
