---------------------------- MODULE AcpRequests ----------------------------
(* What an ACP connection has under way: the prompt of a session with its    *)
(* dialogs, and the tasks beside the prompts - child queries, subscriptions  *)
(* and session lists.                                                        *)
EXTENDS Integers, Sequences, FiniteSets

-----------------------------------------------------------------------------
(* One prompt of an ACP session: Session::prompt follows the native's events,  *)
(* RunTracker decides when the run is over and how, DialogTasks keeps one task *)
(* for each open dialog, and each task makes one request to the client through *)
(* the Writer's table of pending requests.  The client may answer late, twice, *)
(* with nonsense or never; the native may close a dialog by itself.            *)

CONSTANTS
  Dlg,                 \* dialogs the native may open during the run
  MaxClientRequests,   \* entries of Writer::pending, 64 in the code
  MaxRunEvents         \* events the broadcast channel keeps for a slow receiver

ASSUME PromptBounds == {MaxClientRequests, MaxRunEvents} \subseteq Nat

\* What a client's response says: an option it selected, one that was not
\* offered, a cancellation that still names an option, or null.
Response == [outcome : {"selected", "cancelled"}, offered : BOOLEAN]
Null == [outcome |-> "null", offered |-> FALSE]
Command == [what : {"abort"}] \cup [what : {"allowed", "cancelled"}, d : Dlg]
Event == [what : {"accepted", "rejected", "completed", "aborted", "closed-host"}]
         \cup [what : {"ask", "close"}, d : Dlg]

VARIABLES
  promptNative,        \* the run in the native: "starting", "running", "over"
  nativeResult,  \* how the native ended the run that was asked for
  dialogs,       \* per dialog, native side: "unused", "open", "closed"
  told,          \* per dialog: what the native was told, "" when nothing
  runEvents,     \* events the prompt has not seen
  lagged,        \* the receiver lost events
  turn,          \* the prompt: "waiting", "over"
  accepted,      \* RunTracker: the command was accepted
  promptOut,     \* commands on their way to the native: the host's channel, its writer, the pipe
  abortRun,      \* abort_run: "no", "asked" (the generation moved), "queued", "read" by the native
  promptCancelled,     \* the prompt has seen it
  outcome,       \* what the prompt reported
  dlgTask,       \* per dialog: "none", "starting", "sending", "asking", "answering", "ended"
  dlgPending,    \* DialogTasks::pending
  requests,      \* Writer::pending, by dialog
  result,        \* per dialog: the result its task got
  clientStream,  \* "open" or "closed"
  permitted      \* dialogs for which the client selected an offered option in time

promptVars == <<promptNative, nativeResult, dialogs, told, promptOut, runEvents, lagged, turn, accepted, abortRun,
                promptCancelled, outcome, dlgTask, dlgPending, requests, result, clientStream, permitted>>
nativeVars == <<promptNative, nativeResult, dialogs, told>>
turnVars == <<turn, accepted, promptCancelled, outcome>>
taskVars == <<dlgTask, dlgPending, requests, result>>

PromptInit ==
  /\ promptNative = "starting" /\ nativeResult = "" /\ dialogs = [d \in Dlg |-> "unused"]
  /\ told = [d \in Dlg |-> ""] /\ lagged = FALSE /\ turn = "waiting" /\ accepted = FALSE
  /\ runEvents \in {<<>>, <<[what |-> "completed"]>>}   \* perhaps of an earlier run
  /\ promptOut = <<>>
  /\ abortRun = "no" /\ promptCancelled = FALSE /\ outcome = ""
  /\ dlgTask = [d \in Dlg |-> "none"] /\ dlgPending = {} /\ requests = {}
  /\ result = [d \in Dlg |-> Null] /\ clientStream = "open" /\ permitted = {}

(***************************************************************************)
(* The native host.  Its events reach the prompt in order or, when the     *)
(* receiver is too slow, not at all.                                       *)
(***************************************************************************)
Emits(e) ==
  IF Len(runEvents) < MaxRunEvents
  THEN runEvents' = Append(runEvents, e) /\ UNCHANGED lagged
  ELSE lagged' = TRUE /\ UNCHANGED runEvents

PromptNativeStarts(ok) ==
        /\ promptNative = "starting"
        /\ promptNative' = IF ok THEN "running" ELSE "over"
        /\ nativeResult' = IF ok THEN "" ELSE "rejected"
        /\ Emits([what |-> IF ok THEN "accepted" ELSE "rejected"])
        /\ UNCHANGED <<dialogs, told, promptOut, turnVars, abortRun, taskVars, clientStream, permitted>>

NativeAsks(d) ==
  /\ promptNative = "running" /\ dialogs[d] = "unused" /\ dialogs' = [dialogs EXCEPT ![d] = "open"]
  /\ Emits([what |-> "ask", d |-> d])
  /\ UNCHANGED <<promptNative, nativeResult, told, promptOut, turnVars, abortRun, taskVars, clientStream, permitted>>

\* The native's own deadline passes, or its tool is done with the question.
NativeCloses(d) ==
  /\ promptNative = "running" /\ dialogs[d] = "open" /\ dialogs' = [dialogs EXCEPT ![d] = "closed"]
  /\ Emits([what |-> "close", d |-> d])
  /\ UNCHANGED <<promptNative, nativeResult, told, promptOut, turnVars, abortRun, taskVars, clientStream, permitted>>

\* The run ends with its dialogs; an abort may find it completed, and a host that
\* is gone takes the commands on their way with it.
NativeSettles(how) ==
  /\ promptNative = "running"
  /\ \/ how = "aborted" /\ abortRun = "read"
     \/ how = "completed" /\ \A d \in Dlg : dialogs[d] # "open"
     \/ how = "closed-host"
  /\ promptNative' = "over" /\ nativeResult' = how
  /\ dialogs' = [d \in Dlg |-> IF dialogs[d] = "open" THEN "closed" ELSE dialogs[d]]
  /\ Emits([what |-> how])
  /\ promptOut' = IF how = "closed-host" THEN <<>> ELSE promptOut
  /\ UNCHANGED <<told, turnVars, abortRun, taskVars, clientStream, permitted>>

\* HostSession::notify only queues a command; a host that is gone refuses it.
HostGone == nativeResult \in {"closed-host", "killed"}
Queues(command) == promptOut' = IF HostGone THEN promptOut ELSE Append(promptOut, command)

\* The native reads one command after the other.  Only its first word on a dialog
\* counts, and only while the dialog is open.
Tells(d, answer) ==
  /\ told' = IF dialogs[d] = "open" /\ told[d] = "" THEN [told EXCEPT ![d] = answer] ELSE told
  /\ dialogs' = [dialogs EXCEPT ![d] = IF @ = "open" THEN "closed" ELSE @]

NativeReads ==
  /\ promptOut # <<>> /\ promptOut' = Tail(promptOut)
  /\ \/ /\ Head(promptOut).what = "abort" /\ abortRun' = "read" /\ UNCHANGED <<told, dialogs>>
     \/ /\ Head(promptOut).what # "abort" /\ Tells(Head(promptOut).d, Head(promptOut).what)
        /\ UNCHANGED abortRun
  /\ UNCHANGED <<promptNative, nativeResult, runEvents, lagged, turnVars, taskVars, clientStream,
                 permitted>>

\* session/cancel, close or $/cancel_request for this prompt: Session::abort.
\* abort_run moves the generation first and queues the command after it.
CancelMoved == abortRun # "no"
CancelAsked ==
  /\ ~CancelMoved /\ turn = "waiting" /\ abortRun' = "asked"
  /\ UNCHANGED <<nativeVars, promptOut, runEvents, lagged, turnVars, taskVars, clientStream, permitted>>

AbortQueued ==
  /\ abortRun = "asked" /\ abortRun' = "queued" /\ Queues([what |-> "abort"])
  /\ UNCHANGED <<nativeVars, runEvents, lagged, turnVars, taskVars, clientStream, permitted>>

(***************************************************************************)
(* The tasks of open dialogs.                                              *)
(***************************************************************************)
\* request_checked: the table is bounded; a closed stream answers at once.
TaskAsks(d) ==
  /\ dlgTask[d] = "starting"
  /\ IF clientStream = "open" /\ Cardinality(requests) < MaxClientRequests
     THEN dlgTask' = [dlgTask EXCEPT ![d] = "sending"] /\ requests' = requests \cup {d}
     ELSE dlgTask' = [dlgTask EXCEPT ![d] = "answering"] /\ UNCHANGED requests
  /\ UNCHANGED <<nativeVars, promptOut, runEvents, lagged, turnVars, abortRun, dlgPending, result,
                 clientStream, permitted>>

RequestSent(d) ==
  /\ dlgTask[d] = "sending" /\ clientStream = "open"
  /\ dlgTask' = [dlgTask EXCEPT ![d] = "asking"]
  /\ UNCHANGED <<nativeVars, promptOut, runEvents, lagged, turnVars, abortRun, dlgPending, requests,
                 result, clientStream, permitted>>

\* The ingress routes a response to the request it answers, if that is still
\* pending; anything later, repeated or unknown is dropped.
ClientResponds(d, r) ==
  /\ clientStream = "open" /\ d \in requests /\ dlgTask[d] = "asking"
  /\ requests' = requests \ {d} /\ result' = [result EXCEPT ![d] = r]
  /\ dlgTask' = [dlgTask EXCEPT ![d] = "answering"]
  /\ permitted' = IF r.outcome = "selected" /\ r.offered THEN permitted \cup {d} ELSE permitted
  /\ UNCHANGED <<nativeVars, promptOut, runEvents, lagged, turnVars, abortRun, dlgPending, clientStream>>

\* The dialog's deadline passes, the client cancels the request by its id, or
\* the stream closes: the request leaves the table without a result.  A frame
\* that is cut off by the deadline ends the stream.
PromptGivenUp(d) == dlgTask[d] \in {"sending", "asking"}

RequestGivenUp(d) ==
  /\ PromptGivenUp(d)
  /\ requests' = requests \ {d} /\ dlgTask' = [dlgTask EXCEPT ![d] = "answering"]
  /\ clientStream' = IF dlgTask[d] = "sending" THEN "closed" ELSE clientStream
  /\ UNCHANGED <<nativeVars, promptOut, runEvents, lagged, turnVars, abortRun, dlgPending, result,
                 permitted>>

\* permission_answer, elicitation_answer, questions::answer.
ReadAnswer(r) == IF r.outcome = "selected" /\ r.offered THEN "allowed" ELSE "cancelled"

\* The answer joins the commands; nobody waits for the native to read it.
TaskAnswers(d) ==
  /\ dlgTask[d] = "answering" /\ Queues([what |-> ReadAnswer(result[d]), d |-> d])
  /\ dlgTask' = [dlgTask EXCEPT ![d] = "ended"] /\ result' = [result EXCEPT ![d] = Null]
  /\ UNCHANGED <<nativeVars, runEvents, lagged, turnVars, abortRun, dlgPending, requests,
                 clientStream, permitted>>

TaskJoined(d) ==
  /\ turn = "waiting" /\ dlgTask[d] = "ended" /\ d \in dlgPending /\ dlgPending' = dlgPending \ {d}
  /\ UNCHANGED <<nativeVars, promptOut, runEvents, lagged, turnVars, abortRun, dlgTask, requests, result,
                 clientStream, permitted>>

ClientGone ==
  /\ clientStream = "open" /\ clientStream' = "closed"
  /\ UNCHANGED <<nativeVars, promptOut, runEvents, lagged, turnVars, abortRun, taskVars, permitted>>

(***************************************************************************)
(* The prompt.  Aborting a task drops its request; if the request's frame  *)
(* was half written, the stream ends with it.                              *)
(***************************************************************************)
Abort(ds) ==
  /\ dlgTask' = [d \in Dlg |-> IF d \in ds /\ dlgTask[d] # "none" THEN "ended" ELSE dlgTask[d]]
  /\ requests' = requests \ ds /\ dlgPending' = dlgPending \ ds
  /\ clientStream' = IF \E d \in ds : dlgTask[d] = "sending" THEN "closed" ELSE clientStream
  /\ result' = [d \in Dlg |-> IF d \in ds THEN Null ELSE result[d]]

\* select! is biased: a cancellation is seen before the next event.
SeesCancel ==
  /\ turn = "waiting" /\ CancelMoved /\ ~promptCancelled /\ promptCancelled' = TRUE
  /\ Abort(Dlg)
  /\ UNCHANGED <<nativeVars, promptOut, runEvents, lagged, turn, accepted, outcome, abortRun, permitted>>

Refused == promptCancelled

Outcome(e) ==
  CASE e.what = "rejected" -> IF promptCancelled THEN "cancelled" ELSE "error"
    [] e.what = "completed" /\ accepted -> "end_turn"
    [] e.what = "aborted" /\ accepted -> "cancelled"
    [] e.what = "closed-host" -> "error"
    [] OTHER -> ""

AtEnd == Dlg
PromptOver(how) == outcome' = how /\ turn' = "over" /\ Abort(AtEnd)

TakesEvent ==
  LET e == Head(runEvents) IN
  /\ turn = "waiting" /\ (CancelMoved => promptCancelled) /\ runEvents # <<>>
  /\ runEvents' = Tail(runEvents)
  /\ accepted' = (accepted \/ e.what = "accepted")
  /\ CASE Outcome(e) # "" -> PromptOver(Outcome(e)) /\ UNCHANGED promptOut
       [] e.what = "ask" /\ Refused ->
            Queues([what |-> "cancelled", d |-> e.d]) /\ UNCHANGED <<turn, outcome, taskVars, clientStream>>
       [] e.what = "ask" /\ ~Refused /\ e.d \notin dlgPending ->
            /\ dlgTask' = [dlgTask EXCEPT ![e.d] = "starting"] /\ dlgPending' = dlgPending \cup {e.d}
            /\ UNCHANGED <<turn, outcome, promptOut, requests, result, clientStream>>
       [] e.what = "close" ->
            Abort({e.d} \cap dlgPending) /\ UNCHANGED <<turn, outcome, promptOut>>
       [] OTHER -> UNCHANGED <<turn, outcome, promptOut, taskVars, clientStream>>
  /\ UNCHANGED <<nativeVars, lagged, promptCancelled, abortRun, permitted>>

\* Lost events may include the settlement: the backend is stopped.
SeesLag ==
  /\ turn = "waiting" /\ (CancelMoved => promptCancelled) /\ lagged /\ runEvents = <<>>
  /\ promptNative' = "over" /\ nativeResult' = "killed" /\ promptOut' = <<>>
  /\ dialogs' = [d \in Dlg |-> IF dialogs[d] = "open" THEN "closed" ELSE dialogs[d]]
  /\ PromptOver("error")
  /\ UNCHANGED <<told, runEvents, lagged, accepted, promptCancelled, abortRun, permitted>>

PromptTurnSteps == SeesCancel \/ TakesEvent \/ SeesLag \/ (\E d \in Dlg : TaskJoined(d))
TaskGoesOn(d) == TaskAsks(d) \/ RequestSent(d) \/ RequestGivenUp(d) \/ TaskAnswers(d)

PromptNext ==
  \/ \E ok \in BOOLEAN : PromptNativeStarts(ok)
  \/ \E d \in Dlg : NativeAsks(d) \/ NativeCloses(d) \/ TaskGoesOn(d)
  \/ \E d \in Dlg, r \in Response : ClientResponds(d, r)
  \/ \E how \in {"completed", "aborted", "closed-host"} : NativeSettles(how)
  \/ NativeReads \/ CancelAsked \/ AbortQueued \/ ClientGone \/ PromptTurnSteps

(***************************************************************************)
(* Properties.                                                             *)
(***************************************************************************)

\* What the native was allowed, or will be when it reads its commands.
Granted == {d \in Dlg : \/ told[d] = "allowed"
                        \/ \E k \in DOMAIN promptOut : promptOut[k] = [what |-> "allowed", d |-> d]}

\* A tool goes ahead only if the client selected an option that was offered, for
\* this very request, while it was pending (resolve_checked, permission_answer).
AllowedWasPermitted == Granted \subseteq permitted

\* Once the prompt has seen its cancellation nothing more is granted: the native
\* may still read a permission that was queued before, but none is queued any
\* more (dialogs.cancel_all joins every task before the loop goes on).
CancelledAllowsNothing == [][promptCancelled => Granted' \subseteq Granted]_promptVars

\* A prompt that is over has no dialog task and no client request left
\* (the final cancel_all; PendingRequest::drop).
PromptLeavesNothing ==
  turn = "over" => requests = {} /\ dlgPending = {} /\ \A d \in Dlg : dlgTask[d] \in {"none", "ended"}

\* The prompt reports the end of its own run: a settlement counts only after the
\* acceptance of its command (RunTracker::observe).
OutcomeIsOwn ==
  /\ outcome = "end_turn" => nativeResult = "completed"
  /\ outcome = "cancelled" => nativeResult \in {"aborted", "rejected"}

\* A question the native asks is closed in the end, whatever the client does
\* (the deadline in handle_ui_dialog, the settlement after a cancellation).
QuestionOwed(d) == dialogs[d] = "open"
QuestionMet(d) == dialogs[d] # "open"
-----------------------------------------------------------------------------
(* rpi-acp: the tasks a connection runs beside its prompts.  A child query    *)
(* owns its native read and its answer; a subscription owns a stream that     *)
(* begins with the answer; a session list owns a catalogue page.  The one     *)
(* dispatcher starts them, cancels them by request, by subscription and by    *)
(* session, and ends them all when the client hangs up.                       *)

CONSTANTS
  ReqKey,       \* ids of requests the client still waits for
  SubId,        \* subscription ids of the client
  TaskSession,  \* attached sessions
  MaxOfKind,    \* limits of queries (64), subscriptions (16) and lists (2), one number here
  MaxTaskRuns,  \* bound: tasks ever started
  MaxControls   \* bound: cancellations, unsubscriptions and closings of the client

ASSUME TaskBounds ==
  /\ {MaxOfKind, MaxTaskRuns, MaxControls} \subseteq Nat
  /\ "none" \notin TaskSession   \* stands for the session of a list

VARIABLES
  runs,       \* every task: [kind, key, sub, sess, phase, told (it was cancelled), said (frames)]
  queryTasks, \* tasks of the map of QueryTasks
  listTasks,  \* tasks of the map of ListTasks
  taskEntries,    \* the subscription registry: sub -> its task, 0 when absent
  pendingSubs, \* its pending requests: the tasks whose key is still registered
  stdout,     \* [open, by]: the output and the task with a frame half written
  control,    \* the dispatcher's blocking work: [at, what, sess, wait]
  controls,
  closedSessions \* sessions whose close was answered

acpTaskVars == <<runs, queryTasks, listTasks, taskEntries, pendingSubs, stdout, control, controls, closedSessions>>

TaskIdle == [at |-> "idle", what |-> "none", sess |-> "none", wait |-> {}]
TasksInit ==
  /\ runs = <<>> /\ queryTasks = {} /\ listTasks = {} /\ taskEntries = [s \in SubId |-> 0] /\ pendingSubs = {}
  /\ stdout = [open |-> TRUE, by |-> 0] /\ control = TaskIdle /\ controls = 0 /\ closedSessions = {}

TaskUnfinished == {t \in DOMAIN runs : runs[t].phase # "done"}

(***************************************************************************)
(* Requests that start a task.                                             *)
(***************************************************************************)
\* The dispatcher reaps what has ended before it looks at the next request.
TaskReaped(map) == map \cap TaskUnfinished
InUse(k) == \E t \in TaskReaped(queryTasks) \cup TaskReaped(listTasks) \cup pendingSubs : runs[t].key = k

Starts(kind, k, s, x) ==
  /\ runs' = Append(runs, [kind |-> kind, key |-> k, sub |-> s, sess |-> x, phase |-> "core", told |-> FALSE, said |-> 0])
  /\ UNCHANGED <<stdout, control, controls, closedSessions>>

Accepts(k) == control = TaskIdle /\ stdout.open /\ Len(runs) < MaxTaskRuns /\ ~InUse(k)

StartsQuery(k, x) ==
  /\ Accepts(k) /\ x \notin closedSessions /\ Cardinality(TaskReaped(queryTasks)) < MaxOfKind
  /\ queryTasks' = TaskReaped(queryTasks) \cup {Len(runs) + 1} /\ listTasks' = TaskReaped(listTasks)
  /\ Starts("query", k, "none", x) /\ UNCHANGED <<taskEntries, pendingSubs>>

StartsList(k) ==
  /\ Accepts(k) /\ Cardinality(TaskReaped(listTasks)) < MaxOfKind
  /\ listTasks' = TaskReaped(listTasks) \cup {Len(runs) + 1} /\ queryTasks' = TaskReaped(queryTasks)
  /\ Starts("list", k, "none", "none") /\ UNCHANGED <<taskEntries, pendingSubs>>

Registered == {s \in SubId : taskEntries[s] # 0}
TaskSubscribes(k, s, x) ==
      /\ Accepts(k) /\ x \notin closedSessions /\ taskEntries[s] = 0 /\ Cardinality(Registered) < MaxOfKind
      /\ taskEntries' = [taskEntries EXCEPT ![s] = Len(runs) + 1] /\ pendingSubs' = pendingSubs \cup {Len(runs) + 1}
      /\ Starts("sub", k, s, x) /\ queryTasks' = TaskReaped(queryTasks) /\ listTasks' = TaskReaped(listTasks)

(***************************************************************************)
(* The tasks.                                                              *)
(***************************************************************************)
TaskPhase(t, p) == runs' = [runs EXCEPT ![t].phase = p]

\* registry.finish: the entry goes only if it is still this task's own.
TaskReleased(t) == [s \in SubId |-> IF taskEntries[s] = t THEN 0 ELSE taskEntries[s]]
TaskEnds(t) == /\ TaskPhase(t, "done")
               /\ taskEntries' = IF runs[t].kind = "sub" THEN TaskReleased(t) ELSE taskEntries

\* The native read is over; a subscription whose cancellation came first says nothing.
CoreEnds(t) ==
  /\ runs[t].phase = "core" /\ pendingSubs' = pendingSubs \ {t}
  /\ IF runs[t].kind = "sub" /\ (runs[t].told \/ ~stdout.open) THEN TaskEnds(t)
     ELSE TaskPhase(t, "writes") /\ UNCHANGED taskEntries
  /\ UNCHANGED <<queryTasks, listTasks, stdout, control, controls, closedSessions>>

\* A frame is taken to the output; a closed output refuses it.
FrameBegins(t) ==
  /\ runs[t].phase = "writes" /\ stdout.by = 0
  /\ IF stdout.open THEN stdout' = [stdout EXCEPT !.by = t] /\ TaskPhase(t, "frame") /\ UNCHANGED taskEntries
     ELSE TaskEnds(t) /\ UNCHANGED stdout
  /\ UNCHANGED <<queryTasks, listTasks, pendingSubs, control, controls, closedSessions>>

\* A subscription's stream begins once its answer is flushed.
FrameEnds(t) ==
  /\ runs[t].phase = "frame" /\ stdout.open /\ stdout' = [stdout EXCEPT !.by = 0]
  /\ IF runs[t].kind = "sub" THEN runs' = [runs EXCEPT ![t].phase = "streams", ![t].said = 1] /\ UNCHANGED taskEntries
     ELSE runs' = [runs EXCEPT ![t].phase = "done", ![t].said = 1] /\ UNCHANGED taskEntries
  /\ UNCHANGED <<queryTasks, listTasks, pendingSubs, control, controls, closedSessions>>

\* A closed output ends every write; so does the closing of lists.
FrameFails(t) ==
  /\ runs[t].phase = "frame" /\ (~stdout.open \/ (runs[t].kind = "list" /\ control.what = "shutdown" /\ runs[t].told))
  /\ stdout' = [open |-> FALSE, by |-> 0] /\ TaskEnds(t)
  /\ UNCHANGED <<queryTasks, listTasks, pendingSubs, control, controls, closedSessions>>

Updates(t) ==
  /\ runs[t].phase = "streams" /\ ~runs[t].told /\ stdout.open /\ TaskPhase(t, "writes")
  /\ UNCHANGED <<queryTasks, listTasks, taskEntries, pendingSubs, stdout, control, controls, closedSessions>>

\* The native resynchronises, the client cancelled, or the output is closed.
TaskStreamEnds(t) ==
      /\ runs[t].phase = "streams" /\ TaskEnds(t)
      /\ UNCHANGED <<queryTasks, listTasks, pendingSubs, stdout, control, controls, closedSessions>>

\* A list told to close while it waits for the output gives its answer up.
ListGivesUp(t) ==
  /\ runs[t].phase = "writes" /\ runs[t].kind = "list" /\ runs[t].told /\ control.what = "shutdown" /\ TaskEnds(t)
  /\ UNCHANGED <<queryTasks, listTasks, pendingSubs, stdout, control, controls, closedSessions>>

RunSteps(t) == CoreEnds(t) \/ FrameBegins(t) \/ FrameEnds(t) \/ FrameFails(t) \/ TaskStreamEnds(t) \/ ListGivesUp(t)

(***************************************************************************)
(* Cancellation, on the dispatcher.                                        *)
(***************************************************************************)
\* An aborted query is dropped where it stands; a frame it was writing ends the
\* output of the whole connection.
AbortedRuns(ts) == [t \in DOMAIN runs |-> IF t \in ts THEN [runs[t] EXCEPT !.phase = "done", !.told = TRUE] ELSE runs[t]]
AfterAbort(ts) == IF stdout.by \in ts THEN [open |-> FALSE, by |-> 0] ELSE stdout
Told(ts, rs) == [t \in DOMAIN rs |-> IF t \in ts THEN [rs[t] EXCEPT !.told = TRUE] ELSE rs[t]]
EntriesWithout(ts) == [s \in SubId |-> IF taskEntries[s] \in ts THEN 0 ELSE taskEntries[s]]
ThenWaits(what, x, ts) == control' = [at |-> IF ts = {} THEN "answer" ELSE "waits", what |-> what, sess |-> x, wait |-> ts]

Controls == control = TaskIdle /\ stdout.open /\ controls < MaxControls /\ controls' = controls + 1

\* $/cancel_request: a list completes as cancelled, a query is dropped, a pending
\* subscription is cancelled and waited for.
CancelsRequest(k) ==
  LET queries == {t \in queryTasks \cap TaskUnfinished : runs[t].key = k}
      lists == {t \in listTasks \cap TaskUnfinished : runs[t].key = k}
      ended == {taskEntries[runs[t].sub] : t \in {u \in pendingSubs : runs[u].key = k}} \ {0} IN
  /\ Controls /\ InUse(k)
  /\ runs' = Told(lists \cup ended, AbortedRuns(queries)) /\ queryTasks' = queryTasks \ queries
  /\ stdout' = AfterAbort(queries) /\ pendingSubs' = {t \in pendingSubs : runs[t].key # k}
  /\ taskEntries' = EntriesWithout(ended) /\ ThenWaits("cancel", "none", ended)
  /\ UNCHANGED <<listTasks, closedSessions>>

SessionOf(t) == runs[t].sess
TaskUnsubscribes(s, x) ==
      /\ Controls /\ taskEntries[s] # 0
      /\ IF SessionOf(taskEntries[s]) = x
         THEN /\ runs' = Told({taskEntries[s]}, runs) /\ taskEntries' = [taskEntries EXCEPT ![s] = 0]
              /\ ThenWaits("unsubscribe", "none", {taskEntries[s]})
         ELSE ThenWaits("unsubscribe", "none", {}) /\ UNCHANGED <<runs, taskEntries>>
      /\ UNCHANGED <<queryTasks, listTasks, pendingSubs, stdout, closedSessions>>

\* session/close and session/cancel: every query of the session is dropped, every
\* subscription cancelled and waited for, before the session is stopped.
InSession(ts, x) == {t \in ts \cap TaskUnfinished : SessionOf(t) = x}
EndsSession(what, x) ==
  LET queries == InSession(queryTasks, x)
      subs == InSession({taskEntries[s] : s \in Registered}, x) IN
  /\ Controls /\ x \notin closedSessions
  /\ runs' = Told(subs, AbortedRuns(queries)) /\ queryTasks' = queryTasks \ queries
  /\ stdout' = AfterAbort(queries)
  /\ taskEntries' = EntriesWithout(subs)
  /\ ThenWaits(what, x, subs) /\ UNCHANGED <<listTasks, pendingSubs, closedSessions>>

\* The wait for a subscription ends with it, or after two seconds by closing the
\* output, or after two more without it.
WaitEnds == /\ control.at = "waits" /\ control.wait \cap TaskUnfinished = {}
            /\ control' = [control EXCEPT !.at = "answer", !.wait = {}]
            /\ UNCHANGED <<runs, queryTasks, listTasks, taskEntries, pendingSubs, stdout, controls, closedSessions>>
WaitExpires == /\ control.at = "waits" /\ control.what # "shutdown" /\ stdout.by \in TaskUnfinished
               /\ stdout' = [stdout EXCEPT !.open = FALSE]
               /\ UNCHANGED <<runs, queryTasks, listTasks, taskEntries, pendingSubs, control, controls, closedSessions>>
AnswersControl ==
  /\ control.at = "answer" /\ control.what \notin {"hangup", "shutdown"} /\ (stdout.by = 0 \/ ~stdout.open)
  /\ control' = TaskIdle
  /\ closedSessions' = IF control.what = "close" THEN closedSessions \cup {control.sess} ELSE closedSessions
  /\ UNCHANGED <<runs, queryTasks, listTasks, taskEntries, pendingSubs, stdout, controls>>

(***************************************************************************)
(* The client hangs up: queries, then subscriptions, then lists.           *)
(***************************************************************************)
HangsUp ==
  /\ control = TaskIdle
  /\ runs' = Told({taskEntries[s] : s \in Registered}, AbortedRuns(queryTasks \cap TaskUnfinished))
  /\ stdout' = AfterAbort(queryTasks \cap TaskUnfinished) /\ queryTasks' = {}
  /\ taskEntries' = [s \in SubId |-> 0]
  /\ control' = [at |-> "waits", what |-> "hangup", sess |-> "any", wait |-> {taskEntries[s] : s \in Registered}]
  /\ UNCHANGED <<listTasks, pendingSubs, controls, closedSessions>>

ListsTold == listTasks
ClosesLists ==
  /\ control.at = "answer" /\ control.what = "hangup"
  /\ runs' = Told(ListsTold, runs)
  /\ control' = [control EXCEPT !.at = "waits", !.what = "shutdown", !.wait = listTasks]
  /\ UNCHANGED <<queryTasks, listTasks, taskEntries, pendingSubs, stdout, controls, closedSessions>>

ConnectionOver ==
  /\ control.at = "answer" /\ control.what = "shutdown" /\ control' = [control EXCEPT !.at = "over"]
  /\ stdout' = [stdout EXCEPT !.open = FALSE]
  /\ UNCHANGED <<runs, queryTasks, listTasks, taskEntries, pendingSubs, controls, closedSessions>>

TaskDispatcherSteps == WaitEnds \/ WaitExpires \/ AnswersControl \/ ClosesLists \/ ConnectionOver

TasksNext ==
  \/ TaskDispatcherSteps \/ HangsUp
  \/ \E k \in ReqKey : StartsList(k) \/ CancelsRequest(k)
       \/ \E x \in TaskSession : StartsQuery(k, x) \/ \E s \in SubId : TaskSubscribes(k, s, x)
  \/ \E x \in TaskSession : EndsSession("close", x) \/ EndsSession("cancel", x)
       \/ \E s \in SubId : TaskUnsubscribes(s, x)
  \/ \E t \in DOMAIN runs : RunSteps(t) \/ Updates(t)

(***************************************************************************)
(* Properties                                                              *)
(***************************************************************************)
Speaks(t) == stdout.open /\ runs[t].phase \in {"core", "writes", "frame", "streams"}

\* Once the close of a session is answered, none of its queries and subscriptions can
\* write another frame.
ClosedIsSilent == \A t \in TaskUnfinished : SessionOf(t) \in closedSessions => ~Speaks(t)

\* A subscription that still speaks can be ended: its registry entry is there and is
\* its own, unless it was told to end already.
StreamHasEntry ==
  \A t \in TaskUnfinished : (runs[t].kind = "sub" /\ ~runs[t].told /\ stdout.open) => taskEntries[runs[t].sub] = t

\* After the client hung up every task is joined.
HangUpOwed == control.what = "hangup"
HangUpMet == control.at = "over" /\ TaskUnfinished = {}
=============================================================================
