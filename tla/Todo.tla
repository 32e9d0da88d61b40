--------------------------------- MODULE Todo ---------------------------------
(***************************************************************************)
(* rpi-todo: the task list of a session branch.  The branch holds          *)
(* snapshots; the plugin keeps the last committed one and whether it may   *)
(* be trusted (Recovery).  Tool calls and the /todos command hold the      *)
(* commit gate; the user moves between branches, the process restarts, and *)
(* an append is acknowledged, rejected, or its outcome is unknown.         *)
(***************************************************************************)
EXTENDS Naturals, Sequences, FiniteSets

CONSTANTS
  TodoBranches,  \* session branches
  MaxTodos,      \* bound on tasks of a list
  MaxUnknown     \* bound on appends and reads that go wrong

ASSUME TodoConstants == MaxTodos \in Nat /\ MaxUnknown \in Nat

VARIABLES
  snapshot,   \* per branch: its newest todo-state entry
  here,       \* the current branch
  todoCommitted,  \* the plugin's last committed state
  recovery,   \* "uninitialized", "ready" or "blocked"
  answer,     \* state the last answered call reported, and its branch
  unknowns

todoVars == <<snapshot, here, todoCommitted, recovery, answer, unknowns>>

\* A snapshot: the tasks' ids and statuses and the next id; an old one was
\* written without a next id.
EmptyTodos == [todos |-> <<>>, next |-> 0]
OldSnapshot == [todos |-> <<[id |-> 0, status |-> "pending"]>>, next |-> 0]
IdsOf(s) == {s.todos[i].id : i \in DOMAIN s.todos}

\* The next id is past every id that is used.
ParseTodos(s) ==
  [s EXCEPT !.next = CHOOSE n \in {@} \cup {i + 1 : i \in IdsOf(s)} :
                       \A k \in {@} \cup {i + 1 : i \in IdsOf(s)} : k <= n]

NoAnswer == [branch |-> "none", state |-> EmptyTodos]
GoesWrong == unknowns < MaxUnknown /\ unknowns' = unknowns + 1

-----------------------------------------------------------------------------
\* candidate: the state after an action; an unknown id changes nothing.
WithStatus(s, id, status) ==
  [s EXCEPT !.todos = [i \in DOMAIN @ |-> IF @[i].id = id THEN [@[i] EXCEPT !.status = status] ELSE @[i]]]
ToggledStatus(s, id) ==
  IF \E i \in DOMAIN s.todos : s.todos[i].id = id /\ s.todos[i].status = "completed" THEN "pending" ELSE "completed"
Candidate(req, s) ==
  CASE req.op = "list" -> s
    [] req.op = "add" -> [todos |-> Append(s.todos, [id |-> s.next, status |-> "pending"]), next |-> s.next + 1]
    [] req.op = "toggle" -> WithStatus(s, req.id, ToggledStatus(s, req.id))
    [] req.op = "update" -> WithStatus(s, req.id, req.status)
    [] req.op = "clear" -> EmptyTodos

TodoRequests ==
  [op : {"list", "add", "clear"}] \cup [op : {"toggle"}, id : 0..MaxTodos]
  \cup [op : {"update"}, id : 0..MaxTodos, status : {"pending", "in_progress", "completed"}]

\* current_state: every use reads the newest snapshot of the current branch.
CurrentState == ParseTodos(snapshot[here])

\* The read fails or is not a snapshot: blocked until an explicit reload.
TodoReadFails ==
  /\ recovery # "blocked" /\ GoesWrong /\ recovery' = "blocked"
  /\ UNCHANGED <<snapshot, here, todoCommitted, answer>>

\* The call answers without a write when nothing changes.
TodoUnchanged(req) ==
  /\ recovery # "blocked" /\ Candidate(req, CurrentState) = CurrentState
  /\ todoCommitted' = CurrentState /\ recovery' = "ready"
  /\ answer' = [branch |-> here, state |-> CurrentState]
  /\ UNCHANGED <<snapshot, here, unknowns>>

\* The append is acknowledged and published.
TodoAppended(req) ==
  LET next == Candidate(req, CurrentState) IN
  /\ recovery # "blocked" /\ next # CurrentState /\ Len(next.todos) <= MaxTodos
  /\ snapshot' = [snapshot EXCEPT ![here] = next]
  /\ todoCommitted' = next /\ recovery' = "ready"
  /\ answer' = [branch |-> here, state |-> next]
  /\ UNCHANGED <<here, unknowns>>

\* Rejected: nothing was appended, no id is consumed.
TodoRejected(req) ==
  /\ recovery # "blocked" /\ Candidate(req, CurrentState) # CurrentState /\ GoesWrong
  /\ todoCommitted' = CurrentState /\ recovery' = "ready"
  /\ UNCHANGED <<snapshot, here, answer>>

\* Without a usable entry id the append may or may not have happened.
TodoUnknown(req, appended) ==
  LET next == Candidate(req, CurrentState) IN
  /\ recovery # "blocked" /\ next # CurrentState /\ Len(next.todos) <= MaxTodos /\ GoesWrong
  /\ snapshot' = IF appended THEN [snapshot EXCEPT ![here] = next] ELSE snapshot
  /\ todoCommitted' = CurrentState /\ recovery' = "blocked"
  /\ UNCHANGED <<here, answer>>

\* SessionStart and SessionTree restore; only they unblock.
TodoReload ==
  /\ todoCommitted' = ParseTodos(snapshot[here]) /\ recovery' = "ready"
  /\ UNCHANGED <<snapshot, here, answer, unknowns>>
TodoReloadFails ==
  /\ GoesWrong /\ recovery' = "blocked" /\ UNCHANGED <<snapshot, here, todoCommitted, answer>>

\* Navigation need not dispatch an event.
TodoNavigate(b) ==
  /\ here # b /\ here' = b /\ UNCHANGED <<snapshot, todoCommitted, recovery, answer, unknowns>>

TodoRestart ==
  /\ todoCommitted' = EmptyTodos /\ recovery' = "uninitialized" /\ answer' = NoAnswer
  /\ UNCHANGED <<snapshot, here, unknowns>>

-----------------------------------------------------------------------------
TodoInit ==
  /\ snapshot \in [TodoBranches -> {EmptyTodos, OldSnapshot}] /\ here \in TodoBranches
  /\ todoCommitted = EmptyTodos /\ recovery = "uninitialized" /\ answer = NoAnswer /\ unknowns = 0

TodoNext ==
  \/ \E req \in TodoRequests : \/ TodoUnchanged(req) \/ TodoAppended(req) \/ TodoRejected(req)
                               \/ \E appended \in BOOLEAN : TodoUnknown(req, appended)
  \/ TodoReadFails \/ TodoReload \/ TodoReloadFails \/ TodoRestart
  \/ \E b \in TodoBranches : TodoNavigate(b)

-----------------------------------------------------------------------------
\* Ids name one task each, whatever snapshots, clears and reloads came before.
TodoIdsUnique ==
  \A b \in TodoBranches : \A i, j \in DOMAIN snapshot[b].todos :
    snapshot[b].todos[i].id = snapshot[b].todos[j].id => i = j

\* What a call reports is what its branch holds: never a state of another
\* branch, and never a change whose append is not known to have happened.
AnswersBranch ==
  [][answer' # answer /\ answer'.branch # "none" =>
       answer'.branch = here /\ answer'.state = ParseTodos(snapshot'[here])]_todoVars
===============================================================================
