--------------------------------- MODULE Goal ---------------------------------
(***************************************************************************)
(* rpi-goal: the goal of a session branch.  A change (tool or command) is  *)
(* queued as a pending state and a pending notice; both are appended to    *)
(* the branch at a safe boundary, TurnEnd or the end of the command.  The  *)
(* agent's thread (tool calls, then TurnEnd) and the thread of the /goal   *)
(* command interleave at every host call, and an append may fail.          *)
(*                                                                         *)
(* A goal is its identity, status, turns used and turn budget; a deadline  *)
(* is a budget that may run out at any turn.                               *)
(***************************************************************************)
EXTENDS Naturals, FiniteSets

CONSTANTS
  MaxGoals,       \* bound on goals started
  MaxBudget,      \* largest turn budget
  MaxNotices,     \* bound on notices queued
  MaxAppendFaults \* bound on appends that fail

ASSUME GoalConstants ==
  MaxGoals \in Nat /\ MaxBudget \in Nat /\ MaxNotices \in Nat /\ MaxAppendFaults \in Nat

VARIABLES
  branch,        \* goal state of the session branch
  pendingState,  \* state queued for it
  pendingNotice, \* notice queued: revision, fingerprint, budget
  noticeRevision,\* INJECTION_REVISION
  lastInjected,  \* fingerprint of the notice remembered as injected
  shown,         \* revision of the newest queued notice that was appended
  subagent,      \* PROCESS_IS_SUBAGENT
  goalsMade, appendFaults,
  goalThread     \* per thread: step, what it holds, what follows

goalVars == <<branch, pendingState, pendingNotice, noticeRevision, lastInjected, shown, subagent,
              goalsMade, appendFaults, goalThread>>
quietVars == <<subagent, goalsMade>>

GoalThreads == {"agent", "command"}
Unlimited == 0
NoGoal == [id |-> 0, status |-> "none", used |-> 0, max |-> Unlimited]
Nothing == [id |-> 0, status |-> "unset", used |-> 0, max |-> Unlimited]
NoNotice == [rev |-> 0, print |-> <<0, "none">>]
\* fingerprint: the live counter is left out.
Fingerprint(g) == <<g.id, g.status>>

Step(t) == goalThread[t].step
IdleGoalThread == [step |-> "idle", goals |-> NoGoal, notice |-> NoNotice, req |-> [op |-> "none"], next |-> "idle"]
GoesTo(t, step) == goalThread' = [goalThread EXCEPT ![t] = [IdleGoalThread EXCEPT !.step = step,
                                            !.next = IF step = "idle" THEN "idle" ELSE goalThread[t].next]]

\* A host call: it may fail, a bounded number of times.
AppendOk(ok) == IF ok THEN UNCHANGED appendFaults
                ELSE appendFaults < MaxAppendFaults /\ appendFaults' = appendFaults + 1

-----------------------------------------------------------------------------
(* The requests of the tool and of the command.                             *)

GoalRequests ==
  [op : {"start"}, id : {goalsMade + 1}, max : 0..MaxBudget] \cup [op : {"status"}, status : {"active", "paused"}]
  \cup [op : {"limits"}, max : 0..MaxBudget] \cup [op : {"complete"}]

\* require_active
Accepted(req, g) == req.op # "start" => g.id # 0

\* op_start archives what was active; op_update, op_set_limits change it;
\* op_complete archives it.
GoalApplied(req, g) ==
  CASE req.op = "start" -> [id |-> req.id, status |-> "active", used |-> 0, max |-> req.max]
    [] req.op = "status" -> [g EXCEPT !.status = req.status]
    [] req.op = "limits" -> [g EXCEPT !.max = req.max]
    [] req.op = "complete" -> NoGoal
\* The notice of a completed goal is that of the goal, not of the state.
NoticeOf(req, g) == IF req.op = "complete" THEN <<g.id, "complete">> ELSE Fingerprint(GoalApplied(req, g))

\* read_goals: what is pending, else what the branch says.
CurrentGoals == IF pendingState # Nothing THEN pendingState ELSE branch

QueueNotice(print) ==
  /\ noticeRevision < MaxNotices /\ noticeRevision' = noticeRevision + 1
  /\ pendingNotice' = [rev |-> noticeRevision', print |-> print]

\* An operation reads, validates and computes ...
OpReads(t, req) ==
  /\ Step(t) = "idle" /\ Accepted(req, CurrentGoals)
  /\ req.op = "start" => goalsMade < MaxGoals
  /\ goalsMade' = IF req.op = "start" THEN goalsMade + 1 ELSE goalsMade
  /\ goalThread' = [goalThread EXCEPT ![t] = [@ EXCEPT !.step = "queue", !.goals = CurrentGoals, !.req = req]]
  /\ UNCHANGED <<branch, pendingState, pendingNotice, noticeRevision, lastInjected, shown,
                 appendFaults, subagent>>

\* ... and queues (persist_and_queue).  A tool call returns to its batch; the
\* command goes on to flush.
OpQueues(t) ==
  LET th == goalThread[t] IN
  /\ Step(t) = "queue"
  /\ pendingState' = GoalApplied(th.req, th.goals)
  /\ QueueNotice(NoticeOf(th.req, th.goals))
  /\ goalThread' = [goalThread EXCEPT ![t] = [IdleGoalThread EXCEPT !.step = IF t = "agent" THEN "idle" ELSE "flush"]]
  /\ UNCHANGED <<branch, lastInjected, shown, quietVars, appendFaults>>

-----------------------------------------------------------------------------
(* Flushing: flush_pending_state, then flush_pending_inject_with.           *)

StateTaken(t) ==
  /\ Step(t) = "flush"
  /\ IF pendingState = Nothing
     THEN GoesTo(t, "notice") /\ UNCHANGED pendingState
     ELSE /\ goalThread' = [goalThread EXCEPT ![t].step = "write", ![t].goals = pendingState]
          /\ pendingState' = Nothing
  /\ UNCHANGED <<branch, pendingNotice, noticeRevision, lastInjected, shown, appendFaults, quietVars>>

\* A failed write puts the state back and leaves the notice for later.
StateWritten(t, ok) ==
  /\ Step(t) = "write" /\ AppendOk(ok)
  /\ IF ok
     THEN branch' = goalThread[t].goals /\ GoesTo(t, "notice") /\ UNCHANGED pendingState
     ELSE /\ pendingState' = goalThread[t].goals /\ UNCHANGED branch
          /\ GoesTo(t, goalThread[t].next)
  /\ UNCHANGED <<pendingNotice, noticeRevision, lastInjected, shown, quietVars>>

NoticeTaken(t) ==
  /\ Step(t) = "notice"
  /\ IF pendingNotice = NoNotice
     THEN GoesTo(t, goalThread[t].next) /\ UNCHANGED pendingNotice
     ELSE /\ goalThread' = [goalThread EXCEPT ![t].step = "inject", ![t].notice = pendingNotice]
          /\ pendingNotice' = NoNotice
  /\ UNCHANGED <<branch, pendingState, noticeRevision, lastInjected, shown, appendFaults, quietVars>>

\* After the append: nothing when a newer notice was queued meanwhile, even if
\* that one has been delivered already; else remembered or queued again.
GoalSettled(n, ok) ==
  IF n.rev # noticeRevision THEN UNCHANGED <<lastInjected, pendingNotice>>
  ELSE IF ok THEN lastInjected' = n.print /\ UNCHANGED pendingNotice
  ELSE /\ pendingNotice' = IF pendingNotice = NoNotice THEN n ELSE pendingNotice
       /\ UNCHANGED lastInjected

NoticeAppended(t, ok) ==
  /\ Step(t) = "inject" /\ AppendOk(ok) /\ GoalSettled(goalThread[t].notice, ok)
  /\ shown' = IF ok /\ goalThread[t].notice.rev > shown THEN goalThread[t].notice.rev ELSE shown
  /\ GoesTo(t, goalThread[t].next)
  /\ UNCHANGED <<branch, pendingState, noticeRevision, quietVars>>

-----------------------------------------------------------------------------
(* TurnEnd.                                                                 *)

\* A subagent shares its parent's goals and leaves them alone.
TurnEnds ==
  /\ Step("agent") = "idle" /\ ~subagent
  /\ goalThread' = [goalThread EXCEPT !["agent"] = [IdleGoalThread EXCEPT !.step = "flush", !.next = "turn"]]
  /\ UNCHANGED <<branch, pendingState, pendingNotice, noticeRevision, lastInjected, shown, appendFaults,
                 subagent, goalsMade>>

\* One more turn (counted up to the largest budget); the budget or the deadline may be exhausted by it.
Charged(g, late) ==
  LET used == IF g.used < MaxBudget THEN g.used + 1 ELSE g.used IN
  [g EXCEPT !.used = used, !.status = IF late \/ (g.max # Unlimited /\ used >= g.max) THEN "paused" ELSE @]

TurnReads(late) ==
  LET g == CurrentGoals
      c == Charged(g, late) IN
  /\ Step("agent") = "turn"
  /\ lastInjected' = IF g.id = 0 THEN <<0, "none">> ELSE lastInjected
  /\ goalThread' = [goalThread EXCEPT !["agent"] = IF g.status # "active" THEN IdleGoalThread
                                                   ELSE [@ EXCEPT !.step = "charge", !.goals = c]]
  /\ UNCHANGED <<branch, pendingState, pendingNotice, noticeRevision, shown, appendFaults, quietVars>>

\* The new count is appended whether or not that succeeds; an exhausted budget
\* queues its notice and flushes again.
TurnWrites(ok) ==
  LET c == goalThread["agent"].goals IN
  /\ Step("agent") = "charge" /\ AppendOk(ok)
  /\ branch' = IF ok THEN c ELSE branch
  /\ IF c.status = "paused"
     THEN /\ QueueNotice(Fingerprint(c))
          /\ goalThread' = [goalThread EXCEPT !["agent"] = [IdleGoalThread EXCEPT !.step = "flush"]]
     ELSE UNCHANGED <<pendingNotice, noticeRevision>> /\ goalThread' = [goalThread EXCEPT !["agent"].step = "remind"]
  /\ UNCHANGED <<pendingState, lastInjected, shown, quietVars>>

\* The active goal is injected unless a notice waits or it was injected before.
TurnInjects(ok) ==
  LET print == Fingerprint(goalThread["agent"].goals) IN
  /\ Step("agent") = "remind"
  /\ IF pendingNotice # NoNotice \/ lastInjected = print
     THEN UNCHANGED <<lastInjected, appendFaults>>
     ELSE AppendOk(ok) /\ lastInjected' = IF ok THEN print ELSE lastInjected
  /\ goalThread' = [goalThread EXCEPT !["agent"] = IdleGoalThread]
  /\ UNCHANGED <<branch, pendingState, pendingNotice, noticeRevision, shown, quietVars>>

-----------------------------------------------------------------------------
GoalInit ==
  /\ branch = NoGoal /\ pendingState = Nothing /\ pendingNotice = NoNotice /\ noticeRevision = 0
  /\ lastInjected = <<0, "none">> /\ shown = 0 /\ subagent \in BOOLEAN
  /\ goalsMade = 0 /\ appendFaults = 0
  /\ goalThread = [t \in GoalThreads |-> IdleGoalThread]

GoalThreadSteps(t) ==
  OpQueues(t) \/ StateTaken(t) \/ NoticeTaken(t) \/ \E ok \in BOOLEAN : StateWritten(t, ok) \/ NoticeAppended(t, ok)
TurnSteps == \E b \in BOOLEAN : TurnReads(b) \/ TurnWrites(b) \/ TurnInjects(b)

GoalNext ==
  \/ \E t \in GoalThreads : GoalThreadSteps(t) \/ \E req \in GoalRequests : OpReads(t, req)
  \/ TurnEnds \/ TurnSteps

-----------------------------------------------------------------------------
\* "never overwrite a newer goal change queued while the host callback was in
\* flight", "A newer notice may have been queued AND delivered": the notice
\* that waits is always newer than every notice the branch has.
PendingIsNewest == pendingNotice # NoNotice => pendingNotice.rev = noticeRevision /\ shown < noticeRevision

\* The newest change is shown to the model: a notice survives failed appends
\* until it is appended or a newer one replaces it.
NoticeOwed(r) == noticeRevision = r /\ ~subagent
NoticeMet(r) == shown >= r \/ noticeRevision > r
===============================================================================
