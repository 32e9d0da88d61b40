---------------------------- MODULE AcpConnection ----------------------------
(* One ACP connection of rpi-acp: the ingress that routes lines of stdin into  *)
(* a bounded queue, the dispatcher that handles one request at a time, the     *)
(* prompt tasks it spawns, the durable watchers of its sessions, and the one   *)
(* output stream they share.  An unfinished frame that is dropped ends the     *)
(* whole stream.  Dialogs and the client requests they make are in AcpPrompt.  *)
EXTENDS Integers, Sequences, FiniteSets

CONSTANTS
  AcpSession,       \* session ids
  AcpId,            \* ids the client gives its requests; it may reuse one
  AcpQueue,         \* capacity of the request queue, 64 in the code
  MaxAcpRequests,   \* bound: requests the client sends
  MaxAcpFaults      \* bound: steps that fail, hosts that die, deadlines that pass

ASSUME AcpBounds == {AcpQueue, MaxAcpRequests, MaxAcpFaults} \subseteq Nat

AcpMethod == {"new", "load", "prompt", "close", "delete", "cancel"}
AcpRequest == [id : AcpId, method : AcpMethod, sess : AcpSession]
Nobody == <<"nobody", 0>>
Dispatcher == <<"dispatcher", 0>>

VARIABLES
  ingress,       \* stdin: "open", "eof", or "failed" when the queue overflowed
  acpQueue,      \* requests read and not yet dispatched
  stream,        \* Writer: "open" or "closed" (its terminal flag)
  writing,       \* who holds the output lock and has a frame half written
  torn,          \* a frame was dropped half written
  dispatch,      \* the dispatcher: [at, request, ok (not refused), wait]
  attached,      \* the sessions map
  children,      \* the native child of a session: "none", "live", "dead"
  saved,         \* sessions with a directory on disk
  tasks,         \* every prompt task ever spawned, in order
  promptTasks,   \* the dispatcher's map: request id -> its task, 0 when absent
  watcher,       \* a session's durable watcher runs
  owed,          \* requests of an id the client has sent, less the answers it got
  sentRequests, acpFaults

connVars == <<ingress, acpQueue, stream, writing, torn, dispatch, attached, children,
              saved, tasks, promptTasks, watcher, owed, sentRequests, acpFaults>>

NoWork == [at |-> "recv", request |-> <<>>, ok |-> TRUE, wait |-> {}]

\* Some sessions are on disk, and some of those were loaded before.
ConnectionInit ==
  /\ ingress = "open" /\ acpQueue = <<>> /\ stream = "open" /\ writing = Nobody /\ torn = FALSE
  /\ dispatch = NoWork /\ saved \in SUBSET AcpSession /\ attached \in SUBSET saved
  /\ children = [s \in AcpSession |-> IF s \in attached THEN "live" ELSE "none"]
  /\ watcher = [s \in AcpSession |-> s \in attached]
  /\ tasks = <<>> /\ promptTasks = [i \in AcpId |-> 0] /\ owed = [i \in AcpId |-> 0]
  /\ sentRequests = 0 /\ acpFaults = 0

Unfinished == {t \in DOMAIN tasks : tasks[t].phase # "done"}
Leased(s) == \E t \in Unfinished : tasks[t].sess = s /\ tasks[t].phase \in {"running", "usage"}
AcpSess == dispatch.request.sess
AcpFault == acpFaults < MaxAcpFaults /\ acpFaults' = acpFaults + 1

(***************************************************************************)
(* The ingress.                                                            *)
(***************************************************************************)
AskedFor == {acpQueue[i] : i \in DOMAIN acpQueue} \cup
              (IF dispatch.request = <<>> THEN {} ELSE {dispatch.request})

\* A new session gets an id no other has; it is fixed here, when it is asked for.
Receives(r) ==
  /\ ingress = "open" /\ stream = "open" /\ sentRequests < MaxAcpRequests
  /\ r.method = "new" =>
       r.sess \notin saved \cup attached \cup {q.sess : q \in {p \in AskedFor : p.method = "new"}}
  /\ sentRequests' = sentRequests + 1
  /\ owed' = [owed EXCEPT ![r.id] = @ + 1]
  /\ IF Len(acpQueue) < AcpQueue
     THEN acpQueue' = Append(acpQueue, r) /\ UNCHANGED <<ingress, stream>>
     ELSE stream' = "closed" /\ ingress' = "failed" /\ UNCHANGED acpQueue
  /\ UNCHANGED <<writing, torn, dispatch, attached, children, saved, tasks, promptTasks,
                 watcher, acpFaults>>

\* End of input: the queue is drained first, the stream is not closed.
Eof ==
  /\ ingress = "open" /\ ingress' = "eof"
  /\ UNCHANGED <<acpQueue, stream, writing, torn, dispatch, attached, children, saved, tasks,
                 promptTasks, watcher, owed, sentRequests, acpFaults>>

\* The host stops the server, or the client closes its end of stdout.
StreamEnds ==
  /\ stream = "open" /\ AcpFault /\ stream' = "closed"
  /\ UNCHANGED <<ingress, acpQueue, writing, torn, dispatch, attached, children, saved, tasks,
                 promptTasks, watcher, owed, sentRequests>>

(***************************************************************************)
(* Frames.  A writer takes the output lock; the client reads at its own    *)
(* pace.  When the stream is closed every write returns at once.           *)
(***************************************************************************)
StartFrame(w) == writing = Nobody /\ stream = "open" /\ writing' = w

\* The frame ended: complete, or cut off by the end of the stream.
FrameOver(w) == writing = w /\ writing' = Nobody

\* FrameWrite::drop: aborting a task that holds a half-written frame closes
\* the stream before the lock is free.
DropFrame(ws) ==
  IF writing \in ws
  THEN writing' = Nobody /\ torn' = TRUE /\ stream' = "closed"
  ELSE UNCHANGED <<writing, torn, stream>>

AcpAnswered(id, n) == owed' = IF stream = "open" THEN [owed EXCEPT ![id] = @ - n] ELSE owed

\* A commit of the branch makes the session's watcher write a notification.
WatcherWrites(s) ==
  /\ watcher[s] /\ children[s] = "live" /\ StartFrame(<<"watcher", s>>)
  /\ UNCHANGED <<ingress, acpQueue, stream, torn, dispatch, attached, children, saved, tasks,
                 promptTasks, watcher, owed, sentRequests, acpFaults>>
WatcherWrote(s) ==
  /\ FrameOver(<<"watcher", s>>)
  /\ UNCHANGED <<ingress, acpQueue, stream, torn, dispatch, attached, children, saved, tasks,
                 promptTasks, watcher, owed, sentRequests, acpFaults>>

(***************************************************************************)
(* A prompt task: Session::prompt and the answer it writes.                *)
(***************************************************************************)
Phase(t, p) == tasks' = [tasks EXCEPT ![t].phase = p]

TaskBegins(t) ==
  LET s == tasks[t].sess IN
  /\ tasks[t].phase = "spawned"
  /\ Phase(t, IF children[s] = "live" /\ ~Leased(s) THEN "running" ELSE "answer")
  /\ UNCHANGED <<ingress, acpQueue, stream, writing, torn, dispatch, attached, children, saved,
                 promptTasks, watcher, owed, sentRequests, acpFaults>>

\* Native events of the run, and the usage frame after its settlement.
TaskWrites(t) ==
  /\ tasks[t].phase \in {"running", "usage", "answer"} /\ StartFrame(<<"task", t>>)
  /\ UNCHANGED <<ingress, acpQueue, stream, torn, dispatch, attached, children, saved, tasks,
                 promptTasks, watcher, owed, sentRequests, acpFaults>>

TaskWrote(t) ==
  /\ FrameOver(<<"task", t>>)
  /\ CASE tasks[t].phase = "running" -> UNCHANGED <<tasks, owed>>
       [] tasks[t].phase = "usage" -> Phase(t, "answer") /\ UNCHANGED owed
       [] tasks[t].phase = "answer" -> Phase(t, "done") /\ AcpAnswered(tasks[t].id, 1)
  /\ UNCHANGED <<ingress, acpQueue, stream, torn, dispatch, attached, children, saved,
                 promptTasks, watcher, sentRequests, acpFaults>>

\* write_context_usage gives the frame two seconds; a client that does not
\* read in time loses the connection.
UsageStalls(t) ==
  /\ writing = <<"task", t>> /\ tasks[t].phase = "usage" /\ stream = "open" /\ AcpFault
  /\ writing' = Nobody /\ torn' = TRUE /\ stream' = "closed" /\ Phase(t, "answer")
  /\ UNCHANGED <<ingress, acpQueue, dispatch, attached, children, saved, promptTasks, watcher,
                 owed, sentRequests>>

TaskSettles(t) ==
  /\ tasks[t].phase = "running" /\ writing # <<"task", t>>
  /\ IF children[tasks[t].sess] = "live"
     THEN Phase(t, "usage") ELSE Phase(t, "answer")   \* host_closed ends the run
  /\ UNCHANGED <<ingress, acpQueue, stream, writing, torn, dispatch, attached, children, saved,
                 promptTasks, watcher, owed, sentRequests, acpFaults>>

\* The event stream overran the receiver: the backend is stopped.
TaskLags(t) ==
  /\ tasks[t].phase = "running" /\ writing # <<"task", t>> /\ AcpFault
  /\ Phase(t, "answer")
  /\ children' = [children EXCEPT ![tasks[t].sess] = IF @ = "live" THEN "dead" ELSE @]
  /\ UNCHANGED <<ingress, acpQueue, stream, writing, torn, dispatch, attached, saved,
                 promptTasks, watcher, owed, sentRequests>>

\* Nothing can be written any more, or the usage is unchanged or unavailable.
TaskSkips(t) ==
  /\ writing # <<"task", t>>
  /\ \/ tasks[t].phase = "usage" /\ Phase(t, "answer")
     \/ tasks[t].phase = "answer" /\ stream = "closed" /\ Phase(t, "done")
  /\ UNCHANGED <<ingress, acpQueue, stream, writing, torn, dispatch, attached, children, saved,
                 promptTasks, watcher, owed, sentRequests, acpFaults>>

HostDies(s) ==
  /\ children[s] = "live" /\ AcpFault /\ children' = [children EXCEPT ![s] = "dead"]
  /\ UNCHANGED <<ingress, acpQueue, stream, writing, torn, dispatch, attached, saved, tasks,
                 promptTasks, watcher, owed, sentRequests>>

(***************************************************************************)
(* The dispatcher.  It takes the next request, forgets finished prompt     *)
(* tasks, and refuses an id that still belongs to a task.                  *)
(***************************************************************************)
Reaped == [i \in AcpId |-> IF promptTasks[i] \in Unfinished THEN promptTasks[i] ELSE 0]
Duplicate(r) == Reaped[r.id] # 0

\* Session::abort reaches a run that is in progress, not one yet to begin.
Aborted(ts) == [t \in DOMAIN tasks |->
                 IF t \in ts /\ tasks[t].phase = "running"
                 THEN [tasks[t] EXCEPT !.cancelled = TRUE] ELSE tasks[t]]
OfSession(s) == {t \in Unfinished : tasks[t].sess = s /\ \E i \in AcpId : Reaped[i] = t}
AcpWithout(ts) == [i \in AcpId |-> IF Reaped[i] \in ts THEN 0 ELSE Reaped[i]]

To(r, at) == dispatch' = [at |-> at, request |-> r, ok |-> TRUE, wait |-> {}]

\* How a request starts.  A session opened anew has a fresh id; a session
\* that is attached is prepared again; a prompt leaves its answer to its task.
Handle(r) ==
  CASE r.method = "new" -> To(r, "opening") /\ promptTasks' = Reaped /\ UNCHANGED tasks
    [] r.method = "load" ->
         /\ To(r, IF r.sess \in attached THEN "prepared"
                  ELSE IF r.sess \in saved THEN "opening" ELSE "answer")
         /\ promptTasks' = Reaped /\ UNCHANGED tasks
    [] r.method = "prompt" /\ r.sess \in attached ->
         /\ tasks' = Append(tasks, [id |-> r.id, sess |-> r.sess, phase |-> "spawned",
                                    cancelled |-> FALSE])
         /\ promptTasks' = [Reaped EXCEPT ![r.id] = Len(tasks) + 1]
         /\ dispatch' = NoWork
    [] r.method = "prompt" /\ r.sess \notin attached ->
         To(r, "answer") /\ promptTasks' = Reaped /\ UNCHANGED tasks
    [] r.method = "cancel" ->
         /\ tasks' = Aborted(OfSession(r.sess)) /\ promptTasks' = Reaped /\ To(r, "answer")
    [] r.method \in {"close", "delete"} ->
         /\ tasks' = Aborted(OfSession(r.sess)) /\ promptTasks' = AcpWithout(OfSession(r.sess))
         /\ dispatch' = [at |-> "stopping", request |-> r, ok |-> TRUE, wait |-> OfSession(r.sess)]

Takes ==
  /\ dispatch.at = "recv" /\ stream = "open" /\ acpQueue # <<>>
  /\ acpQueue' = Tail(acpQueue)
  /\ LET r == Head(acpQueue) IN
     IF Duplicate(r)
     THEN /\ dispatch' = [NoWork EXCEPT !.at = "answer", !.request = r, !.ok = FALSE]
          /\ promptTasks' = Reaped /\ UNCHANGED tasks
     ELSE Handle(r)
  /\ UNCHANGED <<ingress, stream, writing, torn, attached, children, saved, watcher, owed,
                 sentRequests, acpFaults>>

\* The child process is started, or is not.
Opens(ok) ==
  /\ dispatch.at = "opening" /\ IF ok THEN UNCHANGED acpFaults ELSE AcpFault
  /\ children' = [children EXCEPT ![AcpSess] = IF ok THEN "live" ELSE "none"]
  /\ saved' = IF ok THEN saved \cup {AcpSess} ELSE saved
  /\ dispatch' = [dispatch EXCEPT !.at = IF ok THEN "prepared" ELSE "answer"]
  /\ UNCHANGED <<ingress, acpQueue, stream, writing, torn, attached, tasks, promptTasks, watcher,
                 owed, sentRequests>>

\* File authority, configuration or replay fails: a child this request opened
\* is killed, one that was attached before is kept.
KillUnattached == children' = [children EXCEPT ![AcpSess] = IF AcpSess \in attached THEN @ ELSE "none"]

AfterFailure == "answer"

PreparationFails ==
  /\ dispatch.at = "prepared"
  /\ IF children[AcpSess] = "live" THEN AcpFault ELSE UNCHANGED acpFaults
  /\ KillUnattached
  /\ dispatch' = [dispatch EXCEPT !.at = AfterFailure]
  /\ UNCHANGED <<ingress, acpQueue, stream, writing, torn, attached, saved, tasks, promptTasks,
                 watcher, owed, sentRequests>>

\* The session enters the map; an earlier watcher is aborted and replaced.
Attaches ==
  /\ dispatch.at = "prepared" /\ children[AcpSess] = "live"
  /\ attached' = attached \cup {AcpSess}
  /\ DropFrame({<<"watcher", AcpSess>>})
  /\ watcher' = [watcher EXCEPT ![AcpSess] = TRUE]
  /\ dispatch' = [dispatch EXCEPT !.at = "answer"]
  /\ UNCHANGED <<ingress, acpQueue, children, saved, tasks, promptTasks, owed, sentRequests,
                 acpFaults>>

(***************************************************************************)
(* stop_live_session and the end of the connection wait for prompt tasks,  *)
(* thirty seconds each; one that is late has its session killed under it.  *)
(***************************************************************************)
LateKilled(s) == [children EXCEPT ![s] = "dead"]

WaitTimesOut(t) ==
  /\ dispatch.at \in {"stopping", "ending"} /\ t \in dispatch.wait \cap Unfinished
  /\ children[tasks[t].sess] = "live" /\ children' = LateKilled(tasks[t].sess)
  /\ UNCHANGED <<ingress, acpQueue, stream, writing, torn, dispatch, attached, saved, tasks,
                 promptTasks, watcher, owed, sentRequests, acpFaults>>

Waited == dispatch.wait \cap Unfinished = {}

Stops ==
  /\ dispatch.at = "stopping" /\ Waited
  /\ DropFrame({<<"watcher", AcpSess>>})
  /\ watcher' = [watcher EXCEPT ![AcpSess] = FALSE]
  /\ attached' = attached \ {AcpSess}
  /\ children' = [children EXCEPT ![AcpSess] = IF AcpSess \in attached THEN "none" ELSE @]
  /\ saved' = IF dispatch.request.method = "delete" THEN saved \ {AcpSess} ELSE saved
  /\ dispatch' = [dispatch EXCEPT !.at = "answer"]
  /\ UNCHANGED <<ingress, acpQueue, tasks, promptTasks, owed, sentRequests, acpFaults>>

\* The dispatcher writes its answer; with the stream closed it has none to write.
AnswerStarts ==
  /\ dispatch.at = "answer" /\ StartFrame(Dispatcher)
  /\ UNCHANGED <<ingress, acpQueue, stream, torn, dispatch, attached, children, saved, tasks,
                 promptTasks, watcher, owed, sentRequests, acpFaults>>
AnswerEnds ==
  /\ dispatch.at = "answer"
  /\ \/ FrameOver(Dispatcher) /\ AcpAnswered(dispatch.request.id, 1)
     \/ stream = "closed" /\ writing # Dispatcher /\ UNCHANGED <<writing, owed>>
  /\ dispatch' = NoWork
  /\ UNCHANGED <<ingress, acpQueue, stream, torn, attached, children, saved, tasks, promptTasks,
                 watcher, sentRequests, acpFaults>>

\* Input ended and is drained, or the stream is closed: the writer is closed,
\* every prompt aborted, and all of them awaited before any child is killed.
EndBegins ==
  /\ dispatch.at = "recv" /\ (stream = "closed" \/ (ingress # "open" /\ acpQueue = <<>>))
  /\ stream' = "closed" /\ acpQueue' = <<>>
  /\ tasks' = Aborted({promptTasks[i] : i \in AcpId})
  /\ dispatch' = [NoWork EXCEPT !.at = "ending", !.wait = {promptTasks[i] : i \in AcpId}]
  /\ promptTasks' = [i \in AcpId |-> 0]
  /\ UNCHANGED <<ingress, writing, torn, attached, children, saved, watcher, owed, sentRequests,
                 acpFaults>>

EndFinishes ==
  /\ dispatch.at = "ending" /\ Waited
  /\ DropFrame({<<"watcher", s>> : s \in AcpSession})
  /\ watcher' = [s \in AcpSession |-> FALSE]
  /\ children' = [s \in AcpSession |-> IF s \in attached THEN "none" ELSE children[s]]
  /\ attached' = {}
  /\ dispatch' = [dispatch EXCEPT !.at = "ended"]
  /\ UNCHANGED <<ingress, acpQueue, saved, tasks, promptTasks, owed, sentRequests, acpFaults>>

AcpDispatcherSteps ==
     \/ Takes \/ Opens(TRUE) \/ Opens(FALSE) \/ PreparationFails \/ Attaches
     \/ \E t \in DOMAIN tasks : WaitTimesOut(t)
     \/ Stops \/ AnswerStarts \/ AnswerEnds \/ EndBegins \/ EndFinishes

\* A task goes on when it can; a run that is told to abort, or whose host is
\* gone, settles, and any other runs as long as it likes.
TaskSteps(t) ==
  /\ t \in DOMAIN tasks
  /\ \/ TaskBegins(t) \/ TaskWrote(t) \/ TaskSkips(t)
     \/ tasks[t].phase = "answer" /\ TaskWrites(t)
AcpRunEnds(t) ==
     /\ t \in DOMAIN tasks /\ (tasks[t].cancelled \/ children[tasks[t].sess] # "live")
     /\ TaskSettles(t)
WatcherEnds == \E s \in AcpSession : WatcherWrote(s)
PromptTask == 1..MaxAcpRequests

ConnectionNext ==
  \/ \E r \in AcpRequest : Receives(r)
  \/ Eof \/ StreamEnds
  \/ \E s \in AcpSession : WatcherWrites(s) \/ WatcherWrote(s) \/ HostDies(s)
  \/ \E t \in DOMAIN tasks : \/ TaskBegins(t) \/ TaskWrites(t) \/ TaskWrote(t) \/ UsageStalls(t)
                             \/ TaskSettles(t) \/ TaskLags(t) \/ TaskSkips(t)
  \/ AcpDispatcherSteps

(***************************************************************************)
(* Properties.                                                             *)
(***************************************************************************)

\* A child process that runs belongs to a session of the map, or to the request
\* the dispatcher is working on; when the connection has ended none runs and no
\* prompt task is left (new, load, stop_live_session, the end of
\* dispatch_connection).
NothingLeftBehind ==
  /\ \A s \in AcpSession : children[s] = "live" =>
       s \in attached \/ (dispatch.at = "prepared" /\ AcpSess = s)
  /\ dispatch.at = "ended" => /\ Unfinished = {}
                              /\ \A s \in AcpSession : children[s] = "none"

\* The answer to session/close or session/delete is written when nothing of the
\* session runs any more: no prompt, no watcher, no child (stop_live_session).
ClosedIsQuiet ==
  (/\ dispatch.at = "answer" /\ dispatch.ok
   /\ dispatch.request.method \in {"close", "delete"}) =>
    /\ \A t \in Unfinished : tasks[t].sess # AcpSess
    /\ ~watcher[AcpSess] /\ children[AcpSess] = "none" /\ AcpSess \notin attached

\* While the stream is open and nothing is in progress every request has had
\* exactly one answer, and never more (dispatch_connection's handlers and the
\* prompt task).
AnsweredOnce ==
  /\ \A i \in AcpId : owed[i] >= 0
  /\ (stream = "open" /\ acpQueue = <<>> /\ dispatch.at = "recv" /\ Unfinished = {}) =>
       \A i \in AcpId : owed[i] = 0

\* Nothing is written after a frame that was cut off (FrameWrite).
TornIsLast == torn => stream = "closed" /\ writing = Nobody

\* The end of input, an overflow or a closed stream ends the connection with
\* every child gone, whatever its prompts are doing (wait_prompt_task).
ConnectionOwed == ingress # "open" \/ stream = "closed"
ConnectionMet == dispatch.at = "ended"
=============================================================================
