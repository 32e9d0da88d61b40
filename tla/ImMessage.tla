----------------------------- MODULE ImMessage -----------------------------
(* The message adapter (packages/rpi-im-message): the server with its        *)
(* replies, and the file of session selections that the message handlers     *)
(* share.                                                                    *)
EXTENDS Naturals, Sequences, FiniteSets, Integers

-----------------------------------------------------------------------------
(* One server of packages/rpi-im-message: its command loop and the automatic  *)
(* replies.  A reply is a blocking job;                                       *)
(* jobs share one lock, one active progress and one prompt flag, and the      *)
(* host's tool events reach whatever progress is active.  A chat shows one    *)
(* message per tool call, updated in place, and one final reply.              *)

CONSTANTS
  MaxIncoming,    \* messages that ask for a reply
  MaxUserEvents,  \* tool events of the user's turns
  MaxImFaults     \* requests to the chat service that fail

ASSUME ImConstants ==
  MaxIncoming \in Nat /\ MaxUserEvents \in Nat /\ MaxImFaults \in Nat

VARIABLES
  imServer,       \* the server thread: off, starting, loop, draining, ended
  imRegistered,     \* whether the registry has the server
  stopper,        \* the caller of stop: idle, waiting, joining, stopped, failed
  imCommands,     \* the unbounded channel to the loop
  job,            \* where the reply to each message is
  replyLock,      \* AUTO_REPLY_LOCK
  activeProgress, \* ACTIVE_PROGRESS
  promptActive,   \* FEISHU_PROMPT_ACTIVE
  toolState,      \* Progress: status of each tool call of each reply
  hostTurn,       \* what the host's harness runs: 0 nothing or the user's turn
  userEvents,     \* tool events of the user's turns that found a progress
  hostEvent,      \* a tool event the host is dispatching
  cards,          \* progress_messages: keys whose message is known
  created,        \* messages the chat shows for each key
  imShown,          \* the last text of each key
  unsure,         \* keys with a failed request
  imReplies,        \* replies the chat shows
  imFaults

serverVars == <<imServer, imRegistered, stopper>>
scopeVars == <<replyLock, activeProgress, promptActive>>
imHostVars == <<hostTurn, userEvents, hostEvent>>
chatVars == <<cards, created, imShown, unsure, imReplies, imFaults>>
imVars == <<serverVars, imCommands, job, scopeVars, toolState, imHostVars, chatVars>>

Prompts == 1..MaxIncoming
ToolCalls == {"own", "foreign"}   \* of the reply itself, of a turn of the user
ToolKeys == Prompts \X ToolCalls
ImCommand(c, run) == [c |-> c, run |-> run, tool |-> "own", text |-> "none"]
ProgressCommand(key, text) == [c |-> "progress", run |-> key[1], tool |-> key[2], text |-> text]
NoEvent == [to |-> 0, text |-> "none"]

\* The receiver of the channel lives as long as the loop.
Queued(cs) == imCommands' = IF imServer \in {"starting", "loop"} THEN imCommands \o cs ELSE imCommands

-----------------------------------------------------------------------------
\* Progress::event: the status a tool call takes, or none for no update.
EventText(key, text) ==
  IF toolState[key] = "none" THEN text
  ELSE IF text = "running" \/ toolState[key] = text THEN "none" ELSE text

ToolEvent(key, text) ==
  LET new == EventText(key, text)
  IN  IF new = "none" THEN UNCHANGED <<toolState, imCommands>>
      ELSE toolState' = [toolState EXCEPT ![key] = new] /\ Queued(<<ProgressCommand(key, new)>>)

\* Progress::finish: what runs is marked unfinished.
UnfinishedKeys(m) == {t \in ToolCalls : toolState[<<m, t>>] = "running"}
FinishCommands(m) ==
  LET order == IF UnfinishedKeys(m) = ToolCalls THEN <<"own", "foreign">>
               ELSE IF UnfinishedKeys(m) = {} THEN <<>> ELSE <<CHOOSE t \in UnfinishedKeys(m) : TRUE>>
  IN  [i \in DOMAIN order |-> ProgressCommand(<<m, order[i]>>, "unfinished")]
MarkUnfinished(m) ==
  toolState' = [k \in ToolKeys |-> IF k[1] = m /\ toolState[k] = "running" THEN "unfinished" ELSE toolState[k]]

-----------------------------------------------------------------------------
\* start: the thread, then at most 10 s for its ready signal.  A start that
\* times out leaves the thread running with nobody to stop it.
StartServer ==
  /\ imServer = "off" /\ imServer' = "starting"
  /\ UNCHANGED <<imRegistered, stopper, imCommands, job, scopeVars, toolState, imHostVars, chatVars>>

ServerReady(timely) ==
  /\ imServer = "starting" /\ imServer' = "loop" /\ imRegistered' = timely
  /\ UNCHANGED <<stopper, imCommands, job, scopeVars, toolState, imHostVars, chatVars>>

StartupFails ==
  /\ imServer = "starting" /\ imServer' = "ended"
  /\ UNCHANGED <<imRegistered, stopper, imCommands, job, scopeVars, toolState, imHostVars, chatVars>>

\* MessageHandler::handle schedules a reply to an ordinary message.
MessageArrives(m) ==
  /\ imServer = "loop" /\ job[m] = "none" /\ \A j \in 1..(m - 1) : job[j] # "none"
  /\ job' = [job EXCEPT ![m] = "lock"]
  /\ UNCHANGED <<serverVars, imCommands, scopeVars, toolState, imHostVars, chatVars>>

-----------------------------------------------------------------------------
\* A job takes the lock and enters its two scopes.  A selected session, and a
\* host without a harness, use a print process.
JobEnters(m, path) ==
  /\ job[m] = "lock" /\ replyLock = 0
  /\ replyLock' = m /\ activeProgress' = m /\ promptActive' = TRUE
  /\ job' = [job EXCEPT ![m] = path]
  /\ UNCHANGED <<serverVars, imCommands, toolState, imHostVars, chatVars>>

\* SendUserMessage: a turn of the host's session, or its refusal.
HostTurnBegins(m) ==
  /\ job[m] = "host" /\ hostTurn = 0 /\ hostEvent = NoEvent /\ hostTurn' = m
  /\ UNCHANGED <<serverVars, imCommands, job, scopeVars, toolState, userEvents, hostEvent, chatVars>>
HostAnswers(m) ==
  /\ job[m] = "host" /\ hostTurn' = (IF hostTurn = m THEN 0 ELSE hostTurn)
  /\ job' = [job EXCEPT ![m] = "left"]
  /\ UNCHANGED <<serverVars, imCommands, scopeVars, toolState, userEvents, hostEvent, chatVars>>

\* The print process: its reader applies each tool event; it ends by itself or
\* is killed at its timeout.  An attempt repeated after an error of the
\* provider only prolongs the step: it keeps the progress.
PrintTool(m, text) ==
  /\ job[m] = "print" /\ (text = "ended" => toolState[<<m, "own">>] # "none")
  /\ EventText(<<m, "own">>, text) # "none" /\ ToolEvent(<<m, "own">>, text)
  /\ UNCHANGED <<serverVars, job, scopeVars, imHostVars, chatVars>>

PrintEnds(m) ==
  /\ job[m] = "print" /\ job' = [job EXCEPT ![m] = "left"]
  /\ UNCHANGED <<serverVars, imCommands, scopeVars, toolState, imHostVars, chatVars>>

\* The scopes end in the reverse order: the prompt, the progress, the lock.
JobLeaves(m) ==
  /\ job[m] = "left" /\ promptActive' = FALSE
  /\ job' = [job EXCEPT ![m] = "finish"]
  /\ UNCHANGED <<serverVars, imCommands, replyLock, activeProgress, toolState, imHostVars, chatVars>>

DoneCommands(m) == FinishCommands(m) \o <<ImCommand("done", m)>>
JobFinishes(m) ==
  /\ job[m] = "finish" /\ activeProgress' = 0
  /\ IF activeProgress = 0 THEN UNCHANGED <<toolState, imCommands>>
     ELSE MarkUnfinished(activeProgress) /\ Queued(DoneCommands(activeProgress))
  /\ replyLock' = IF replyLock = m THEN 0 ELSE replyLock
  /\ job' = [job EXCEPT ![m] = "answer"]
  /\ UNCHANGED <<serverVars, promptActive, imHostVars, chatVars>>

\* The task that awaited the job queues the reply, if the runtime still is.
JobAnswers(m, replied) ==
  /\ job[m] = "answer" /\ job' = [job EXCEPT ![m] = "done"]
  /\ IF replied THEN Queued(<<ImCommand("async", m)>>) ELSE UNCHANGED imCommands
  /\ UNCHANGED <<serverVars, scopeVars, toolState, imHostVars, chatVars>>

-----------------------------------------------------------------------------
\* on_tool_progress copies the active progress, whoever it belongs to, and
\* applies the event to it later.  A turn ends after its events, so for a turn
\* of a reply the two are one step; a turn of the user has no such order.
ReplyTool(m, text) ==
  /\ hostTurn = m /\ (text = "ended" => toolState[<<m, "own">>] # "none")
  /\ EventText(<<m, "own">>, text) # "none" /\ ToolEvent(<<activeProgress, "own">>, text)
  /\ UNCHANGED <<serverVars, job, scopeVars, imHostVars, chatVars>>
UserTool(text) ==
  /\ hostTurn = 0 /\ hostEvent = NoEvent /\ activeProgress # 0 /\ userEvents < MaxUserEvents
  /\ userEvents' = userEvents + 1 /\ hostEvent' = [to |-> activeProgress, text |-> text]
  /\ UNCHANGED <<serverVars, imCommands, job, scopeVars, toolState, hostTurn, chatVars>>
HostEventApplied ==
  /\ hostEvent # NoEvent /\ hostEvent' = NoEvent
  /\ ToolEvent(<<hostEvent.to, "foreign">>, hostEvent.text)
  /\ UNCHANGED <<serverVars, job, scopeVars, hostTurn, userEvents, chatVars>>

-----------------------------------------------------------------------------
\* send_message and update_progress_message; a failed request may have been
\* carried out, and its response has no message id.
Requested(cmd, ok, carried) ==
  LET key == <<cmd.run, cmd.tool>> IN
  /\ ok \/ imFaults < MaxImFaults
  /\ imFaults' = IF ok THEN imFaults ELSE imFaults + 1
  /\ IF cmd.c = "progress"
     THEN /\ cards' = IF ok THEN cards \cup {key} ELSE cards
          /\ created' = IF carried /\ key \notin cards THEN [created EXCEPT ![key] = @ + 1] ELSE created
          /\ imShown' = IF carried THEN [imShown EXCEPT ![key] = cmd.text] ELSE imShown
          /\ unsure' = (IF ok THEN unsure ELSE unsure \cup {key}) /\ UNCHANGED imReplies
     ELSE /\ imReplies' = IF carried THEN imReplies \cup {cmd.run} ELSE imReplies
          /\ UNCHANGED <<cards, created, imShown, unsure>>

\* run_server: one command at a time.
SendNext(ok, carried) ==
  /\ imServer = "loop" /\ imCommands # <<>> /\ Head(imCommands).c \in {"progress", "async"}
  /\ ok => carried
  /\ imCommands' = Tail(imCommands) /\ Requested(Head(imCommands), ok, carried)
  /\ UNCHANGED <<serverVars, job, scopeVars, toolState, imHostVars>>
ProgressDone ==
  /\ imServer = "loop" /\ imCommands # <<>> /\ Head(imCommands).c = "done"
  /\ imCommands' = Tail(imCommands) /\ cards' = {k \in cards : k[1] # Head(imCommands).run}
  /\ UNCHANGED <<serverVars, job, scopeVars, toolState, imHostVars, created, imShown, unsure, imReplies, imFaults>>

\* stop ends the loop; what is queued behind it is dropped.
StopTaken ==
  /\ imServer = "loop" /\ imCommands # <<>> /\ Head(imCommands).c = "stop"
  /\ imServer' = "draining" /\ imCommands' = <<>>
  /\ stopper' = IF stopper = "waiting" THEN "joining" ELSE stopper
  /\ UNCHANGED <<imRegistered, job, scopeVars, toolState, imHostVars, chatVars>>

\* The long connection is polled between two commands only.
ImStreamEnds ==
    /\ imServer = "loop" /\ imServer' = "draining" /\ imCommands' = <<>>
    /\ stopper' = IF stopper = "waiting" THEN "failed" ELSE stopper
    /\ UNCHANGED <<imRegistered, job, scopeVars, toolState, imHostVars, chatVars>>

\* Dropping the runtime waits for the blocking jobs that began.
PoolIdle == \A m \in Prompts : job[m] \in {"none", "answer", "done"}
ThreadEnds ==
  /\ imServer = "draining" /\ PoolIdle /\ imServer' = "ended"
  /\ UNCHANGED <<imRegistered, stopper, imCommands, job, scopeVars, toolState, imHostVars, chatVars>>

\* stop, and each server of stop_all_servers: out of the registry, then 5 s
\* for the acknowledgement, then the join, without a limit.
StopBegins ==
  /\ imRegistered /\ stopper = "idle" /\ imRegistered' = FALSE
  /\ IF imServer = "loop" THEN stopper' = "waiting" /\ Queued(<<ImCommand("stop", 0)>>)
     ELSE stopper' = "failed" /\ UNCHANGED imCommands
  /\ UNCHANGED <<imServer, job, scopeVars, toolState, imHostVars, chatVars>>
StopEnds ==
  /\ \/ stopper = "waiting" /\ stopper' = "failed"
     \/ stopper = "joining" /\ imServer = "ended" /\ stopper' = "stopped"
  /\ UNCHANGED <<imServer, imRegistered, imCommands, job, scopeVars, toolState, imHostVars, chatVars>>

-----------------------------------------------------------------------------
ImInit ==
  /\ imServer = "off" /\ imRegistered = FALSE /\ stopper = "idle"
  /\ imCommands = <<>>
  /\ job = [m \in Prompts |-> "none"] /\ replyLock = 0 /\ activeProgress = 0 /\ promptActive = FALSE
  /\ toolState = [k \in ToolKeys |-> "none"] /\ hostTurn = 0 /\ userEvents = 0 /\ hostEvent = NoEvent
  /\ cards = {} /\ created = [k \in ToolKeys |-> 0] /\ imShown = [k \in ToolKeys |-> "none"] /\ unsure = {}
  /\ imReplies = {} /\ imFaults = 0

JobSteps(m) ==
  \/ \E path \in {"host", "print"} : JobEnters(m, path)
  \/ HostTurnBegins(m) \/ HostAnswers(m) \/ PrintEnds(m)
  \/ JobLeaves(m) \/ JobFinishes(m) \/ \E replied \in BOOLEAN : JobAnswers(m, replied)
ServerSteps == SendNext(TRUE, TRUE) \/ ProgressDone \/ StopTaken \/ ThreadEnds

ImNext ==
  \/ StartServer \/ StartupFails \/ \E timely \in BOOLEAN : ServerReady(timely)
  \/ \E m \in Prompts : \/ MessageArrives(m) \/ JobSteps(m)
                         \/ \E text \in {"running", "ended"} : PrintTool(m, text) \/ ReplyTool(m, text)
  \/ \E text \in {"running", "ended"} : UserTool(text)
  \/ HostEventApplied \/ ServerSteps \/ \E carried \in BOOLEAN : SendNext(FALSE, carried)
  \/ ImStreamEnds \/ StopBegins \/ StopEnds

-----------------------------------------------------------------------------
\* While a reply is worked on, the events of its turn and its prompt are its
\* own: no other job's end takes them away.
ScopeIsOwn == \A m \in Prompts : job[m] \in {"host", "print"} => activeProgress = m /\ promptActive

\* A tool call of the reply has one message in the chat, updated in place,
\* unless a request for it failed.
OneMessagePerTool == \A m \in Prompts : created[<<m, "own">>] <= 1 \/ <<m, "own">> \in unsure

\* The reply comes last: by then no tool of its turn is shown as running.
ReplyComesLast ==
  \A m \in imReplies : imShown[<<m, "own">>] # "running" \/ <<m, "own">> \in unsure

\* A stop that reports success leaves no reply at work, neither a turn of the
\* host nor a print process.
StoppedIsIdle == stopper = "stopped" => \A m \in Prompts : job[m] \notin {"lock", "host", "print", "left", "finish"}

\* stop comes back, with its success or with a timeout.
ImStopOwed == stopper \in {"waiting", "joining"}
ImStopMet == stopper \in {"stopped", "failed"}
-----------------------------------------------------------------------------
(* The session selections of packages/rpi-im-message/src/sessions.rs: one     *)
(* file for every profile and chat, read and rewritten by the message         *)
(* handlers of all servers of the process under one lock.                     *)

CONSTANTS
  Chats,          \* the chats of a profile
  Handlers,       \* message handlers that run at the same time
  MaxNewSessions, \* /new commands answered or failed
  MaxStoreFaults  \* failed writes

ASSUME ImSessionConstants == MaxNewSessions \in Nat /\ MaxStoreFaults \in Nat

VARIABLES
  chatStore,      \* the file: per chat the selected session and the known ones
  storeLock,      \* the handler inside STORE_LOCK
  handler,        \* what each handler does
  stamps,         \* identities /new drew
  answeredNew,    \* sessions a chat was told it has
  replySession,   \* the session each chat's last reply was given
  storeFaults

imSessionVars == <<chatStore, storeLock, handler, stamps, answeredNew, replySession, storeFaults>>

BaseSession == 0    \* conversation_session_id: another one for each chat
NoChatEntry == [selected |-> -1, known |-> {}]
DefaultEntry == [selected |-> BaseSession, known |-> {BaseSession}]
FreeHandler == [op |-> "none", chat |-> CHOOSE c \in Chats : TRUE, id |-> 0, read |-> [c \in Chats |-> NoChatEntry]]
ChatEntry(st, c) == IF st[c] = NoChatEntry THEN DefaultEntry ELSE st[c]

StoreFree == storeLock = "none"

KnownHere(st, c, id) == id \in ChatEntry(st, c).known

\* What the command makes of the store it read: the file as it is for a query
\* and for a refused identity.
StoreAfter(st, c, op, id) ==
  CASE op = "new" -> [st EXCEPT ![c] = [selected |-> id, known |-> ChatEntry(st, c).known \cup {id}]]
    [] op = "session" /\ KnownHere(st, c, id) -> [st EXCEPT ![c] = [ChatEntry(st, c) EXCEPT !.selected = id]]
    [] OTHER -> st

\* handle: lock and load; /new draws its identity from the clock.
CommandBegins(h, c, op, id) ==
  /\ handler[h].op = "none" /\ StoreFree /\ storeLock' = h
  /\ op = "new" => stamps < MaxNewSessions /\ id = stamps + 1
  /\ op = "session" => id <= stamps
  /\ op = "list" => id = 0
  /\ stamps' = IF op = "new" THEN stamps + 1 ELSE stamps
  /\ handler' = [handler EXCEPT ![h] = [op |-> op, chat |-> c, id |-> id, read |-> chatStore]]
  /\ UNCHANGED <<chatStore, answeredNew, replySession, storeFaults>>

\* The stage is written and renamed, or the write fails and the file stays.
CommandEnds(h, saved) ==
  LET r == handler[h] IN
  /\ r.op # "none" /\ (saved \/ storeFaults < MaxStoreFaults)
  /\ storeLock' = "none" /\ handler' = [handler EXCEPT ![h] = FreeHandler]
  /\ storeFaults' = IF saved THEN storeFaults ELSE storeFaults + 1
  /\ chatStore' = IF saved /\ StoreAfter(r.read, r.chat, r.op, r.id) # r.read
                  THEN StoreAfter(r.read, r.chat, r.op, r.id) ELSE chatStore
  /\ answeredNew' = IF r.op = "new" /\ saved THEN [answeredNew EXCEPT ![r.chat] = @ \cup {r.id}] ELSE answeredNew
  /\ UNCHANGED <<stamps, replySession>>

\* selected: the session a reply to an ordinary message goes to.
SelectForReply(h, c) ==
  /\ handler[h].op = "none" /\ StoreFree
  /\ replySession' = [replySession EXCEPT ![c] = chatStore[c].selected]
  /\ UNCHANGED <<chatStore, storeLock, handler, stamps, answeredNew, storeFaults>>

ImSessionInit ==
  /\ chatStore = [c \in Chats |-> NoChatEntry] /\ storeLock = "none" /\ handler = [h \in Handlers |-> FreeHandler]
  /\ stamps = 0 /\ answeredNew = [c \in Chats |-> {}] /\ replySession = [c \in Chats |-> -1] /\ storeFaults = 0

ImSessionNext ==
  \E h \in Handlers :
    \/ \E c \in Chats, op \in {"new", "session", "list"}, id \in 0..MaxNewSessions : CommandBegins(h, c, op, id)
    \/ \E saved \in BOOLEAN : CommandEnds(h, saved)
    \/ \E c \in Chats : SelectForReply(h, c)

-----------------------------------------------------------------------------
\* A session a chat was told it has stays in its list, whatever other handlers
\* write at the same time.
NewIsKept == \A c \in Chats : answeredNew[c] \subseteq chatStore[c].known

\* The history of one chat never reaches another: replies use a session that
\* the chat itself created, or its base session.
RepliesInOwnSession ==
  \A c, d \in Chats : c # d => replySession[c] \notin answeredNew[d] \ {BaseSession}

=============================================================================
