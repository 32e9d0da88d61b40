--------------------------- MODULE PluginServers ---------------------------
(* The servers that plugins run: the HTTP service with its logins and event  *)
(* streams, and the WebSocket relay of the user interface adapter.           *)
EXTENDS Integers, FiniteSets, Sequences, SequencesExt

-----------------------------------------------------------------------------
(* rpi-http around the shared service: the plugin that starts the server when  *)
(* the host's session starts and joins its thread when the session ends,       *)
(* serve_until and its shutdown, the logins of Security, and the event streams *)
(* that must end with the login they were opened under.  rpi-web starts the    *)
(* same server in the same way.                                                *)

CONSTANTS
  EventStream,   \* requests for one of the three SSE endpoints
  Cookie,        \* logins a browser can hold
  MaxLogins,     \* logins that are valid together (64 in the code)
  MaxStarts,     \* bound: session starts of the host process
  MaxPublished   \* bound: events published to one stream

ASSUME HttpBounds == {MaxLogins, MaxStarts, MaxPublished} \subseteq Nat

VARIABLES
  password,   \* a password is configured
  starts,     \* SessionStart events the plugin had
  stopHeld,   \* STOP: the run whose sender it holds, 0 while unset
  thread,     \* THREAD: "none", "running", or "joining" by SessionShutdown
  serving,    \* serve_until: "no", "serving", "stopping", "closing" the service, "reaping", "done"
  webTold,       \* the stop future of this run has completed
  shutdown,   \* the watch every stream takes until
  service,    \* the shared Service: "none", "running", "closed"
  timedOut,   \* the eight seconds passed
  reaper,     \* the idle reaper runs
  logins,     \* Security::sessions
  webReader,     \* stream -> [at, cookie]: "none", "open", "closed"
  published, webDelivered   \* stream -> events for it, and events it has yielded

httpVars == <<password, starts, stopHeld, thread, serving, webTold, shutdown, service, timedOut, reaper,
              logins, webReader, published, webDelivered>>
runVars == <<starts, stopHeld, thread, serving, webTold, shutdown, service, timedOut, reaper>>
streamVars == <<webReader, published, webDelivered>>

NoCookie == "no cookie"

HttpInit ==
  /\ password \in BOOLEAN /\ starts = 0 /\ stopHeld = 0 /\ thread = "none" /\ serving = "no"
  /\ webTold = FALSE /\ shutdown = FALSE /\ service = "none" /\ timedOut = FALSE /\ reaper = FALSE
  /\ logins = {} /\ webReader = [s \in EventStream |-> [at |-> "none", cookie |-> NoCookie]]
  /\ published = [s \in EventStream |-> 0] /\ webDelivered = published

(***************************************************************************)
(* The plugin and serve_until.                                             *)
(***************************************************************************)
\* start: STOP keeps the sender of the first run only.  A later run's sender is
\* dropped at once, which completes its stop future.
WebSessionStarts ==
     /\ thread = "none" /\ starts < MaxStarts
     /\ starts' = starts + 1 /\ thread' = "running" /\ serving' = "serving" /\ service' = "running"
     /\ stopHeld' = IF stopHeld = 0 THEN starts' ELSE stopHeld
     /\ webTold' = (stopHeld' # starts') /\ shutdown' = FALSE /\ timedOut' = FALSE
     /\ reaper' \in BOOLEAN
     /\ logins' = {} /\ webReader' = [s \in EventStream |-> [at |-> "none", cookie |-> NoCookie]]
     /\ published' = [s \in EventStream |-> 0] /\ webDelivered' = published' /\ UNCHANGED password

\* stop: the sender is used and the thread joined, under the lock of THREAD.
SessionEnds ==
  /\ thread = "running" /\ thread' = "joining" /\ webTold' = (webTold \/ stopHeld = starts)
  /\ UNCHANGED <<password, starts, stopHeld, serving, shutdown, service, timedOut, reaper, logins,
                 streamVars>>

StopSeen ==
  /\ serving = "serving" /\ webTold /\ serving' = "stopping" /\ shutdown' = TRUE
  /\ UNCHANGED <<password, starts, stopHeld, thread, webTold, service, timedOut, reaper, logins, streamVars>>

\* The listener fails: the service is closed outside the deadline.
ServingFails ==
  /\ serving = "serving" /\ serving' = "closing"
  /\ UNCHANGED <<password, starts, stopHeld, thread, webTold, shutdown, service, timedOut, reaper, logins,
                 streamVars>>

ServiceCloses ==
  /\ serving \in {"stopping", "closing"} /\ service = "running" /\ service' = "closed"
  /\ serving' = IF serving = "closing" THEN "reaping" ELSE serving
  /\ UNCHANGED <<password, starts, stopHeld, thread, webTold, shutdown, timedOut, reaper, logins, streamVars>>

\* axum's graceful shutdown waits for every response, streams included.
Drained ==
  /\ serving = "stopping" /\ service = "closed"
  /\ \A s \in EventStream : webReader[s].at # "open"
  /\ serving' = "reaping"
  /\ UNCHANGED <<password, starts, stopHeld, thread, webTold, shutdown, service, timedOut, reaper, logins,
                 streamVars>>

Deadline == serving = "stopping"
StopDeadline ==
  /\ Deadline /\ serving' = "reaping" /\ timedOut' = TRUE
  /\ UNCHANGED <<password, starts, stopHeld, thread, webTold, shutdown, service, reaper, logins, streamVars>>

ReaperAborted == FALSE
ServeEnds ==
  /\ serving = "reaping" /\ reaper' = ReaperAborted /\ serving' = "done"
  /\ UNCHANGED <<password, starts, stopHeld, thread, webTold, shutdown, service, timedOut, logins, streamVars>>

\* The runtime of the thread goes, and its tasks with it.
WebJoined ==
     /\ thread = "joining" /\ serving = "done" /\ thread' = "none" /\ serving' = "no"
     /\ webReader' = [s \in EventStream |-> [webReader[s] EXCEPT !.at = IF @ = "open" THEN "closed" ELSE @]]
     /\ service' = "none"
     /\ UNCHANGED <<password, starts, stopHeld, webTold, shutdown, timedOut, reaper, logins, published,
                    webDelivered>>

(***************************************************************************)
(* Logins.                                                                 *)
(***************************************************************************)
LogsIn(c) ==
  /\ serving \in {"serving", "stopping"} /\ password /\ c \notin logins /\ Cardinality(logins) < MaxLogins
  /\ logins' = logins \cup {c} /\ UNCHANGED <<password, runVars, streamVars>>

\* Another tab logs out, or the twelve hours are over.
LoginEnds(c) ==
  /\ c \in logins /\ logins' = logins \ {c} /\ UNCHANGED <<password, runVars, streamVars>>

Authorized(c) == ~password \/ c \in logins

(***************************************************************************)
(* Streams: take_until the shutdown, around authorized_events.             *)
(***************************************************************************)
\* The guard checks the request; the subscription is made after that.
WebOpens(s, c) ==
     /\ serving = "serving" /\ webReader[s].at = "none" /\ Authorized(c)
     /\ webReader' = [webReader EXCEPT ![s] = [at |-> "open", cookie |-> c]]
     /\ UNCHANGED <<password, runVars, logins, published, webDelivered>>

Published(s) ==
  /\ webReader[s].at = "open" /\ service = "running" /\ published[s] < MaxPublished
  /\ published' = [published EXCEPT ![s] = @ + 1]
  /\ UNCHANGED <<password, runVars, logins, webReader, webDelivered>>

Closed(s) == webReader' = [webReader EXCEPT ![s].at = "closed"]

\* An event is taken; the login is looked at again before it is yielded.
StillAuthorized(s) == Authorized(webReader[s].cookie)

Delivers(s) ==
  /\ webReader[s].at = "open" /\ webDelivered[s] < published[s]
  /\ IF StillAuthorized(s)
     THEN webDelivered' = [webDelivered EXCEPT ![s] = @ + 1] /\ UNCHANGED webReader
     ELSE Closed(s) /\ UNCHANGED webDelivered
  /\ UNCHANGED <<password, runVars, logins, published>>

\* Every ten seconds the login is looked at without an event.
ExpirySeen(s) == ~Authorized(webReader[s].cookie)
ExpiryCheck(s) ==
  /\ webReader[s].at = "open" /\ ExpirySeen(s) /\ Closed(s)
  /\ UNCHANGED <<password, runVars, logins, published, webDelivered>>

\* The shutdown, the end of the service's channels, or the client.
StreamOver(s) ==
  /\ webReader[s].at = "open" /\ (shutdown \/ service = "closed") /\ Closed(s)
  /\ UNCHANGED <<password, runVars, logins, published, webDelivered>>

ClientCloses(s) ==
  /\ webReader[s].at = "open" /\ Closed(s) /\ UNCHANGED <<password, runVars, logins, published, webDelivered>>

WebServerEnds == StopSeen \/ ServiceCloses \/ Drained \/ StopDeadline \/ ServeEnds \/ WebJoined

HttpNext ==
  \/ WebSessionStarts \/ SessionEnds \/ ServingFails \/ WebServerEnds
  \/ \E c \in Cookie : LogsIn(c) \/ LoginEnds(c)
  \/ \E s \in EventStream :
       \/ \E c \in Cookie \cup {NoCookie} : WebOpens(s, c)
       \/ Published(s) \/ Delivers(s) \/ ExpiryCheck(s) \/ StreamOver(s) \/ ClientCloses(s)

(***************************************************************************)
(* Properties.                                                             *)
(***************************************************************************)

\* Nothing is yielded on a stream whose login has ended since it was opened
\* (authorized_events).
RevokedIsQuiet == [][\A s \in EventStream :
  webDelivered'[s] > webDelivered[s] => Authorized(webReader[s].cookie)]_httpVars

\* A server that has ended left nothing running: the service is closed, unless
\* its deadline passed, and the idle reaper is gone whichever way it ended
\* (serve_until).
EndedIsClean == serving = "done" => ~reaper /\ (service = "closed" \/ timedOut)

\* A stream whose login has ended is closed, though its session says nothing
\* (the expiry check of authorized_events).
RevokedOwed(s) == webReader[s].at = "open" /\ ~Authorized(webReader[s].cookie)
RevokedMet(s) == webReader[s].at # "open" \/ Authorized(webReader[s].cookie)
\* The host's SessionShutdown returns: whatever the streams and the service do,
\* the server's thread can be joined (serve_until's deadline, stop).
ShutdownOwed == thread = "joining"
ShutdownMet == thread = "none"
-----------------------------------------------------------------------------
(* rpi-ui-adapter: one WebSocket of the Open WebUI backend and the rpi-acp     *)
(* process behind it.  The relay is one task: it moves a message to the agent  *)
(* or a line to the socket, each to its end, and when it stops it cancels the  *)
(* prompts still open, waits for their answers, closes the agent's input and   *)
(* waits again before it kills.                                                *)

CONSTANTS
  RelayPrompts,   \* request ids of session/prompt
  PipeSize   \* lines a pipe to or from the agent holds

ASSUME PipeBound == PipeSize \in Nat \ {0}

VARIABLES
  socketIn,   \* what the backend has sent and the relay has not read
  socketOpen, \* the backend still reads and writes
  uiStop,     \* the server was told to stop
  relay,      \* [at, item, togo]
  activePrompts, \* active_prompts
  toAgent, toRelay,  \* the agent's stdin and stdout
  inputOpen,  \* the relay holds the agent's stdin
  agent,      \* "running", "killed", "exited"
  agentRuns,  \* prompts the agent works on
  agentTold,  \* prompts the agent was told to cancel
  answered    \* prompts whose answer reached the backend

uiVars == <<socketIn, socketOpen, uiStop, relay, activePrompts, toAgent, toRelay, inputOpen, agent,
            agentRuns, agentTold, answered>>
agentVars == <<agent, agentRuns, agentTold>>
backendVars == <<socketIn, socketOpen, uiStop>>

NoLine == <<>>

UiInit ==
  /\ socketIn = <<>> /\ socketOpen = TRUE /\ uiStop = FALSE
  /\ relay = [at |-> "loop", item |-> NoLine, togo |-> {}] /\ activePrompts = {}
  /\ toAgent = <<>> /\ toRelay = <<>> /\ inputOpen = TRUE
  /\ agent = "running" /\ agentRuns = {} /\ agentTold = {} /\ answered = {}

(***************************************************************************)
(* The backend, and the server the socket belongs to.                      *)
(***************************************************************************)
\* A prompt has an id of its own; a message may be no ACP at all.
BackendSends(i, what) ==
  /\ socketOpen /\ Len(socketIn) < PipeSize
  /\ \A p \in activePrompts \cup agentRuns \cup answered : p # i
  /\ \A k \in DOMAIN socketIn : socketIn[k].id # i
  /\ socketIn' = Append(socketIn, [what |-> what, id |-> i])
  /\ UNCHANGED <<socketOpen, uiStop>>

BackendLeaves == socketOpen /\ socketOpen' = FALSE /\ UNCHANGED <<socketIn, uiStop>>
UiStops == ~uiStop /\ uiStop' = TRUE /\ UNCHANGED <<socketIn, socketOpen>>

BackendSteps ==
  /\ relay.at # "over"
  /\ BackendLeaves \/ UiStops \/ \E i \in RelayPrompts, what \in {"prompt", "garbage"} : BackendSends(i, what)
  /\ UNCHANGED <<relay, activePrompts, toAgent, toRelay, inputOpen, agentVars, answered>>

(***************************************************************************)
(* The agent.                                                              *)
(***************************************************************************)
AgentReads ==
  /\ agent = "running" /\ toAgent # <<>> /\ toAgent' = Tail(toAgent)
  /\ LET l == Head(toAgent) IN
     IF l.what = "prompt" THEN agentRuns' = agentRuns \cup {l.id} /\ UNCHANGED agentTold
     ELSE agentTold' = agentTold \cup {l.id} /\ UNCHANGED agentRuns
  /\ UNCHANGED <<toRelay, agent>>

AgentWrites(i) ==
  /\ agent = "running" /\ i \in agentRuns /\ Len(toRelay) < PipeSize
  /\ \E what \in {"answer", "garbage"} :
       /\ toRelay' = Append(toRelay, [what |-> what, id |-> i])
       /\ agentRuns' = IF what = "answer" THEN agentRuns \ {i} ELSE agentRuns
  /\ UNCHANGED <<toAgent, agent, agentTold>>

AgentExits ==
  /\ agent = "running" /\ agent' = "exited" /\ agentRuns' = {}
  /\ UNCHANGED <<toAgent, toRelay, agentTold>>

AgentSteps ==
  /\ AgentReads \/ AgentExits \/ \E i \in RelayPrompts : AgentWrites(i)
  /\ UNCHANGED <<backendVars, relay, activePrompts, inputOpen, answered>>

(***************************************************************************)
(* The relay: its loop.                                                    *)
(***************************************************************************)
RelayAt(at) == relay' = [relay EXCEPT !.at = at]
Stopping == relay' = [at |-> "cancel", item |-> NoLine, togo |-> activePrompts]

\* The stop of the server, or the end of either side.
LoopEnds ==
  /\ relay.at = "loop" /\ (uiStop \/ (~socketOpen /\ socketIn = <<>>) \/ (agent # "running" /\ toRelay = <<>>))
  /\ Stopping /\ UNCHANGED <<backendVars, activePrompts, toAgent, toRelay, answered>>

\* A prompt is active before the agent has it.
RelayRemembered(i) == activePrompts \cup {i}
TakesMessage ==
  /\ relay.at = "loop" /\ socketIn # <<>> /\ socketIn' = Tail(socketIn)
  /\ LET l == Head(socketIn) IN
     IF l.what = "garbage" THEN Stopping /\ UNCHANGED activePrompts
     ELSE /\ activePrompts' = RelayRemembered(l.id)
          /\ relay' = [relay EXCEPT !.at = "write", !.item = <<l>>]
  /\ UNCHANGED <<socketOpen, uiStop, toAgent, toRelay, answered>>

\* write_all ends when the pipe has room, or fails when nobody reads it.
Written ==
  /\ relay.at = "write"
  /\ IF agent # "running" THEN Stopping /\ UNCHANGED toAgent
     ELSE /\ Len(toAgent) < PipeSize /\ toAgent' = Append(toAgent, relay.item[1])
          /\ relay' = [relay EXCEPT !.at = "loop", !.item = NoLine]
  /\ UNCHANGED <<backendVars, activePrompts, toRelay, answered>>

\* A response ends its prompt before it is sent on.
RelayTakesLine ==
       /\ relay.at = "loop" /\ toRelay # <<>> /\ toRelay' = Tail(toRelay)
       /\ LET l == Head(toRelay) IN
          IF l.what = "garbage" THEN Stopping /\ UNCHANGED activePrompts
          ELSE /\ activePrompts' = activePrompts \ {l.id}
               /\ relay' = [relay EXCEPT !.at = "send", !.item = <<l>>]
       /\ UNCHANGED <<backendVars, toAgent, answered>>

SocketTakes ==
  /\ relay.at = "send"
  /\ IF socketOpen THEN RelayAt("loop") /\ answered' = answered \cup {relay.item[1].id}
     ELSE Stopping /\ UNCHANGED answered
  /\ UNCHANGED <<backendVars, activePrompts, toAgent, toRelay>>

(***************************************************************************)
(* The relay: its end.                                                     *)
(***************************************************************************)
ToCancel == relay.togo

\* session/cancel for every open prompt; write errors are dropped.
RelayCancels ==
       /\ relay.at = "cancel"
       /\ IF ToCancel = {} THEN RelayAt("drain") /\ UNCHANGED toAgent
          ELSE \E i \in ToCancel :
                 /\ relay' = [relay EXCEPT !.togo = @ \ {i}]
                 /\ IF agent # "running" THEN UNCHANGED toAgent
                    ELSE /\ Len(toAgent) < PipeSize
                         /\ toAgent' = Append(toAgent, [what |-> "cancel", id |-> i])
       /\ UNCHANGED <<backendVars, activePrompts, toRelay, inputOpen, answered>>

\* For two seconds the agent's lines are read and dropped, for the answers of
\* the open prompts.  Then its input is closed.
Drains ==
  /\ relay.at = "drain" /\ toRelay # <<>> /\ activePrompts # {} /\ toRelay' = Tail(toRelay)
  /\ activePrompts' = IF Head(toRelay).what = "answer" THEN activePrompts \ {Head(toRelay).id}
                      ELSE activePrompts
  /\ UNCHANGED <<backendVars, relay, toAgent, inputOpen, answered>>

DrainEnds ==
  /\ relay.at = "drain" /\ RelayAt("wait") /\ inputOpen' = FALSE
  /\ UNCHANGED <<backendVars, activePrompts, toAgent, toRelay, answered>>

RelayLoop == (LoopEnds \/ TakesMessage \/ Written \/ RelayTakesLine \/ SocketTakes) /\ UNCHANGED <<inputOpen, agentVars>>
RelayEnd == (RelayCancels \/ Drains \/ DrainEnds) /\ UNCHANGED agentVars

\* Five seconds for the agent to exit, then it is killed.
KilledLate == relay.at = "wait"
AgentGone ==
  /\ relay.at = "wait" /\ agent # "running" /\ RelayAt("over")
  /\ UNCHANGED <<backendVars, activePrompts, toAgent, toRelay, inputOpen, agentVars, answered>>

Kills ==
  /\ KilledLate /\ agent = "running" /\ agent' = "killed" /\ agentRuns' = {} /\ RelayAt("over")
  /\ UNCHANGED <<backendVars, activePrompts, toAgent, toRelay, inputOpen, agentTold, answered>>

\* run does not wait for upgraded connections: it returns, its runtime is
\* dropped with the relay, and kill_on_drop ends the agent.
DropLeaves == UNCHANGED <<agent, agentRuns>>
DropKills == agent' = (IF agent = "running" THEN "killed" ELSE agent) /\ agentRuns' = {}
RuntimeDropped ==
  /\ uiStop /\ relay.at # "over" /\ DropKills /\ RelayAt("over") /\ inputOpen' = FALSE
  /\ UNCHANGED <<backendVars, activePrompts, toAgent, toRelay, agentTold, answered>>

UiNext == BackendSteps \/ AgentSteps \/ RelayLoop \/ RelayEnd \/ AgentGone \/ Kills \/ RuntimeDropped

(***************************************************************************)
(* Properties.                                                             *)
(***************************************************************************)

\* An agent whose input was closed has been told to cancel every prompt it
\* still runs, however the connection ended (relay).
EofFollowsCancel == ~inputOpen /\ agent = "running" =>
  \A p \in agentRuns : p \in agentTold \/ \E k \in DOMAIN toAgent : toAgent[k] = [what |-> "cancel", id |-> p]

\* No agent outlives its relay (kill_on_drop, the wait and the kill).
RelayLeavesNoAgent == relay.at = "over" => agent # "running"

\* What the relay takes for open is what the agent has not answered: nothing is
\* forgotten on the way, so that a cancel reaches it.
OpenIsKnown == relay.at \in {"loop", "send"} =>
  \A p \in agentRuns : p \in activePrompts

\* A relay told to stop ends, whatever the agent does, as long as the agent
\* reads its input and the backend its socket.
RelayStopOwed == uiStop
RelayStopMet == relay.at = "over"
=============================================================================
