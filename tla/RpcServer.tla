------------------------------ MODULE RpcServer ------------------------------
(* rpi-server: a TCP server of JSON lines.  Each connection has a handler that *)
(* forwards the events of its subscriptions, then waits fifty milliseconds for *)
(* a line and handles one request; requests take the lock of the session map   *)
(* and of single sessions; stopping the server kills the children of the map.  *)
(* The tool's call that starts the server waits ten seconds for it, the call   *)
(* that stops it five, and neither takes back what it began.                   *)
EXTENDS Integers, Sequences, FiniteSets

CONSTANTS
  Peer,              \* connections
  MaxServerSessions, \* bound: session ids given out
  MaxPeerRequests,   \* bound: lines sent by all clients
  MaxChildEvents,    \* bound: events of one child, session_end not counted
  Channel,           \* capacity of the broadcast channel of a session (256 in the code)
  MaxSplits,         \* bound: lines that arrive in two pieces
  MaxOddities,       \* bound: such lines and children with events together
  WithToken          \* the server requires a token: {TRUE}, {FALSE} or both

ASSUME ServerBounds ==
  /\ {MaxServerSessions, MaxPeerRequests, MaxChildEvents, MaxSplits, MaxOddities} \subseteq Nat
  /\ Channel \in Nat \ {0} /\ WithToken \subseteq BOOLEAN

Child == 1..MaxServerSessions
Free == "free"

VARIABLES
  token,      \* the server requires authenticate
  listening,  \* "no", "yes", "stopped": the accept loop
  rpcRegistered, \* the server is in SERVERS
  stopCall,   \* "none", "waiting", "done", "late"
  rpcStopper,    \* TcpServerHandle::stop: [at, left]
  sessions,   \* AppState::sessions: the ids in the map
  rpcChild,      \* id -> "none", "running", "killing", "exited"
  tracked,    \* the sessions stop found in the map
  mapLock, sessionLock,  \* who holds them over an await: a connection, "stopper" or Free
  eventCount, \* id -> events its child has sent, session_end included
  ended,      \* ids whose reader saw the end of the child's output
  peer,       \* connection -> [at, auth, request, left]
  inbox,      \* lines of a client that were not read yet
  piece,      \* the first line of inbox: "none" of it, its "first" half was read, or "lost"
  rpcAsked, replied,  \* requests a connection sent, and answers it got, in order
  subPos,     \* connection, id -> events its receiver has passed, -1 without subscription
  believed,   \* the same, as the client counts from events and "lagged" notices
  splits

rpcVars == <<token, listening, rpcRegistered, stopCall, rpcStopper, sessions, rpcChild, tracked,
             mapLock, sessionLock, eventCount, ended, peer, inbox, piece, rpcAsked, replied, subPos,
             believed, splits>>
toolVars == <<token, listening, rpcRegistered, stopCall, rpcStopper, tracked>>
rpcSessionVars == <<sessions, rpcChild, eventCount, ended>>
lockVars == <<mapLock, sessionLock>>
lineVars == <<inbox, piece, rpcAsked, splits>>
answerVars == <<replied, subPos, believed>>

PeerRequest == [method : {"start", "list"}, id : {0}]
               \cup [method : {"send", "stop", "subscribe"}, id : Child]
               \cup [method : {"authenticate", "wrong"}, id : {0}]
RpcNothing == [method |-> "none", id |-> 0]

RpcInit ==
  /\ token \in WithToken /\ listening = "no" /\ rpcRegistered = FALSE
  /\ stopCall = "none" /\ rpcStopper = [at |-> "none", left |-> {}] /\ sessions = {} /\ tracked = {}
  /\ rpcChild = [s \in Child |-> "none"] /\ mapLock = Free /\ sessionLock = [s \in Child |-> Free]
  /\ eventCount = [s \in Child |-> 0] /\ ended = {} /\ splits = 0
  /\ peer = [c \in Peer |-> [at |-> "away", auth |-> FALSE, request |-> RpcNothing, left |-> {}]]
  /\ inbox = [c \in Peer |-> <<>>] /\ piece = [c \in Peer |-> "none"]
  /\ rpcAsked = [c \in Peer |-> <<>>] /\ replied = [c \in Peer |-> <<>>]
  /\ subPos = [c \in Peer |-> [s \in Child |-> -1]] /\ believed = subPos

(***************************************************************************)
(* The tool calls: do_start, do_stop, stop_all_servers.                    *)
(***************************************************************************)
\* The thread: run_server listens, then the server is registered, whether the
\* call that started it still waits or not.
ServerUp ==
  /\ listening = "no" /\ listening' = "yes" /\ rpcRegistered' = TRUE
  /\ UNCHANGED <<token, stopCall, rpcStopper, tracked>>

\* The id leaves the registry before the server has stopped.
StopCalled ==
  /\ rpcRegistered /\ rpcRegistered' = FALSE /\ stopCall' = "waiting"
  /\ rpcStopper' = [at |-> "begin", left |-> {}]
  /\ UNCHANGED <<token, listening, tracked>>

StopTimesOut ==
  /\ stopCall = "waiting" /\ stopCall' = "late"
  /\ UNCHANGED <<token, listening, rpcRegistered, rpcStopper, tracked>>

\* TcpServerHandle::stop: the accept loop ends, the map is locked, and each
\* child of it is killed and awaited under its lock.
StopLocks ==
  /\ rpcStopper.at = "begin" /\ mapLock = Free
  /\ mapLock' = "stopper" /\ listening' = "stopped"
  /\ rpcStopper' = [at |-> "kill", left |-> sessions] /\ tracked' = sessions
  /\ UNCHANGED <<token, rpcRegistered, stopCall, sessionLock>>

StopKills(s) ==
  /\ rpcStopper.at = "kill" /\ s \in rpcStopper.left /\ sessionLock[s] = Free
  /\ \A t \in Child : sessionLock[t] # "stopper"
  /\ sessionLock' = [sessionLock EXCEPT ![s] = "stopper"]
  /\ rpcChild' = IF rpcChild[s] = "running" THEN [rpcChild EXCEPT ![s] = "killing"] ELSE rpcChild
  /\ UNCHANGED <<mapLock, sessions, eventCount, ended>>

Awaited(s) == rpcChild[s] = "exited"
StopKilled(s) ==
  /\ rpcStopper.at = "kill" /\ sessionLock[s] = "stopper" /\ Awaited(s)
  /\ sessionLock' = [sessionLock EXCEPT ![s] = Free]
  /\ rpcStopper' = [rpcStopper EXCEPT !.left = @ \ {s}]
  /\ UNCHANGED <<mapLock, token, listening, rpcRegistered, stopCall, tracked>>

StopOver ==
  /\ rpcStopper.at = "kill" /\ rpcStopper.left = {} /\ mapLock' = Free
  /\ rpcStopper' = [rpcStopper EXCEPT !.at = "over"]
  /\ stopCall' = IF stopCall = "waiting" THEN "done" ELSE stopCall
  /\ UNCHANGED <<sessionLock, token, listening, rpcRegistered, tracked>>

ToolSteps ==
  \/ (ServerUp \/ StopCalled \/ StopTimesOut)
     /\ UNCHANGED <<rpcSessionVars, lockVars, peer, lineVars, answerVars>>
  \/ \E s \in Child : StopKills(s) /\ UNCHANGED <<toolVars, peer, lineVars, answerVars>>
  \/ (StopLocks \/ StopOver \/ \E s \in Child : StopKilled(s))
     /\ UNCHANGED <<rpcSessionVars, peer, lineVars, answerVars>>

(***************************************************************************)
(* A child: events while it runs, session_end when its output ends.        *)
(***************************************************************************)
ChildSays(s) ==
  /\ rpcChild[s] \in {"running", "killing"} /\ eventCount[s] < MaxChildEvents
  /\ splits + Cardinality({d \in Child : eventCount[d] # 0} \cup {s}) <= MaxOddities
  /\ eventCount' = [eventCount EXCEPT ![s] = @ + 1] /\ UNCHANGED <<sessions, rpcChild, ended>>

ChildExits(s) ==
  /\ rpcChild[s] \in {"running", "killing"} /\ rpcChild' = [rpcChild EXCEPT ![s] = "exited"]
  /\ UNCHANGED <<sessions, eventCount, ended>>

RpcReaderEnds(s) ==
     /\ rpcChild[s] = "exited" /\ s \notin ended /\ ended' = ended \cup {s}
     /\ eventCount' = [eventCount EXCEPT ![s] = @ + 1] /\ UNCHANGED <<sessions, rpcChild>>

ChildSteps == \E s \in Child : (ChildSays(s) \/ ChildExits(s) \/ RpcReaderEnds(s))
              /\ UNCHANGED <<toolVars, lockVars, peer, lineVars, answerVars>>

\* A child that is killed does end.
KilledDies == \E s \in Child : rpcChild[s] = "killing" /\ ChildExits(s)
              /\ UNCHANGED <<toolVars, lockVars, peer, lineVars, answerVars>>

(***************************************************************************)
(* The client's side of a connection.                                      *)
(***************************************************************************)
RpcConnects(c) ==
     /\ listening = "yes" /\ peer[c].at = "away"
     /\ peer' = [peer EXCEPT ![c].at = "poll", ![c].auth = ~token]
     /\ UNCHANGED <<lineVars>>

AllAsked == LET n[P \in SUBSET Peer] ==
                  IF P = {} THEN 0 ELSE LET c == CHOOSE c \in P : TRUE IN Len(rpcAsked[c]) + n[P \ {c}]
            IN n[Peer]

Asks(c, r) ==
  /\ peer[c].at \notin {"away", "gone"} /\ AllAsked < MaxPeerRequests
  /\ inbox' = [inbox EXCEPT ![c] = Append(@, r)] /\ rpcAsked' = [rpcAsked EXCEPT ![c] = Append(@, r)]
  /\ UNCHANGED <<peer, piece, splits>>

\* Half of a line is there when the handler reads; it is gone when the fifty
\* milliseconds pass before the rest comes, since the read is dropped with what
\* it has read (TcpConnection::recv under timeout).
HalfRead(c) ==
  /\ peer[c].at = "recv" /\ inbox[c] # <<>> /\ piece[c] = "none" /\ splits < MaxSplits
  /\ splits + Cardinality({d \in Child : eventCount[d] # 0}) < MaxOddities
  /\ piece' = [piece EXCEPT ![c] = "first"] /\ splits' = splits + 1
  /\ UNCHANGED <<peer, inbox, rpcAsked>>

ReadTimesOut(c) ==
  /\ peer[c].at = "recv" /\ (piece[c] = "first" \/ inbox[c] = <<>>)
  /\ peer' = [peer EXCEPT ![c].at = "poll"]
  /\ piece' = [piece EXCEPT ![c] = IF @ = "first" THEN "lost" ELSE @]
  /\ UNCHANGED <<inbox, rpcAsked, splits>>

\* What is left of such a line is no JSON, which ends the connection.
RpcBadLine(c) == peer' = [peer EXCEPT ![c].at = "gone"]

RpcReadsLine(c) ==
     /\ peer[c].at = "recv" /\ inbox[c] # <<>>
     /\ IF piece[c] = "lost" THEN RpcBadLine(c)
        ELSE peer' = [peer EXCEPT ![c].at = "handle", ![c].request = Head(inbox[c])]
     /\ inbox' = [inbox EXCEPT ![c] = Tail(@)] /\ piece' = [piece EXCEPT ![c] = "none"]
     /\ UNCHANGED <<rpcAsked, splits>>

\* The client is seen to have gone only when the handler reads or writes.
ClientLeaves(c) ==
  /\ peer[c].at \in {"poll", "recv", "reply"} /\ peer' = [peer EXCEPT ![c].at = "gone"]
  /\ UNCHANGED lineVars

LineSteps(c) == (HalfRead(c) \/ ReadTimesOut(c) \/ RpcReadsLine(c))
                /\ UNCHANGED <<toolVars, rpcSessionVars, lockVars, answerVars>>
RpcClientSteps(c) == (RpcConnects(c) \/ ClientLeaves(c) \/ \E r \in PeerRequest : Asks(c, r))
                     /\ UNCHANGED <<toolVars, rpcSessionVars, lockVars, answerVars>>

(***************************************************************************)
(* The handler: forwards events, handles a request, answers.               *)
(***************************************************************************)
\* A receiver that fell behind is told how many events it missed.
Oldest(s) == IF eventCount[s] > Channel THEN eventCount[s] - Channel ELSE 0
Skipped(c, s) == Oldest(s) - subPos[c][s]

RpcForwards(c, s) ==
     /\ peer[c].at = "poll" /\ subPos[c][s] \in 0..(eventCount[s] - 1)
     /\ IF subPos[c][s] < Oldest(s)
        THEN /\ subPos' = [subPos EXCEPT ![c][s] = Oldest(s)]
             /\ believed' = [believed EXCEPT ![c][s] = @ + Skipped(c, s)]
        ELSE /\ subPos' = [subPos EXCEPT ![c][s] = @ + 1]
             /\ believed' = [believed EXCEPT ![c][s] = @ + 1]
     /\ UNCHANGED <<toolVars, rpcSessionVars, lockVars, peer, lineVars, replied>>

AllForwarded(c) ==
  /\ peer[c].at = "poll" /\ \A s \in Child : subPos[c][s] < 0 \/ subPos[c][s] = eventCount[s]
  /\ peer' = [peer EXCEPT ![c].at = "recv"]
  /\ UNCHANGED <<toolVars, rpcSessionVars, lockVars, lineVars, answerVars>>

RpcGoes(c, at) == peer' = [peer EXCEPT ![c].at = at]
Id(c) == peer[c].request.id
Quiet == UNCHANGED <<toolVars, lineVars>>

\* Requests that need no lock, are not allowed yet, or name no session.
RpcAnswers(c) ==
     /\ peer[c].at = "handle"
     /\ LET r == peer[c].request IN
        \/ ~peer[c].auth /\ r.method = "authenticate" /\ peer' = [peer EXCEPT ![c].at = "reply", ![c].auth = TRUE]
        \/ ~peer[c].auth /\ r.method # "authenticate" /\ RpcGoes(c, IF r.method = "wrong" THEN "refuse" ELSE "reply")
        \/ peer[c].auth /\ r.method \in {"authenticate", "wrong"} /\ RpcGoes(c, "reply")
        \/ peer[c].auth /\ r.method \in {"send", "stop", "subscribe"} /\ mapLock = Free
           /\ r.id \notin sessions /\ RpcGoes(c, "reply")
     /\ UNCHANGED <<rpcSessionVars, lockVars, answerVars>> /\ Quiet

\* The child is there before it is in the map.
RpcSpawns(c) ==
     /\ peer[c].at = "handle" /\ peer[c].auth /\ peer[c].request.method = "start"
     /\ \E s \in Child :
          /\ rpcChild[s] = "none" /\ \A t \in Child : t < s => rpcChild[t] # "none"
          /\ rpcChild' = [rpcChild EXCEPT ![s] = "running"]
          /\ peer' = [peer EXCEPT ![c].at = "insert", ![c].request.id = s]
     /\ UNCHANGED <<sessions, eventCount, ended, lockVars, answerVars>> /\ Quiet

Inserts(c) ==
  /\ peer[c].at = "insert" /\ mapLock = Free /\ sessions' = sessions \cup {Id(c)} /\ RpcGoes(c, "reply")
  /\ UNCHANGED <<rpcChild, eventCount, ended, lockVars, answerVars>> /\ Quiet

\* send, stop and subscribe look the session up and then lock it.
LooksUp(c) ==
  /\ peer[c].at = "handle" /\ peer[c].auth /\ mapLock = Free
  /\ peer[c].request.method \in {"send", "stop", "subscribe"} /\ Id(c) \in sessions
  /\ sessions' = IF peer[c].request.method = "stop" THEN sessions \ {Id(c)} ELSE sessions
  /\ RpcGoes(c, "lock")
  /\ UNCHANGED <<rpcChild, eventCount, ended, lockVars, answerVars>> /\ Quiet

RpcSubscribes(c) ==
     /\ peer[c].at = "lock" /\ peer[c].request.method = "subscribe" /\ sessionLock[Id(c)] = Free
     /\ subPos' = [subPos EXCEPT ![c][Id(c)] = eventCount[Id(c)]]
     /\ believed' = [believed EXCEPT ![c][Id(c)] = eventCount[Id(c)]]
     /\ RpcGoes(c, "reply")
     /\ UNCHANGED <<rpcSessionVars, lockVars, replied>> /\ Quiet

Kill(s) == rpcChild' = IF rpcChild[s] = "running" THEN [rpcChild EXCEPT ![s] = "killing"] ELSE rpcChild

RpcLocks(c) ==
     /\ peer[c].at = "lock" /\ peer[c].request.method \in {"send", "stop"} /\ sessionLock[Id(c)] = Free
     /\ sessionLock' = [sessionLock EXCEPT ![Id(c)] = c]
     /\ IF peer[c].request.method = "stop" THEN Kill(Id(c)) ELSE UNCHANGED rpcChild
     /\ RpcGoes(c, "locked")
     /\ UNCHANGED <<mapLock, sessions, eventCount, ended, answerVars>> /\ Quiet

\* The line is written when the child reads, or fails when it is dead; a child
\* told to die is awaited.  Only then is the session unlocked.
WriteEndsNever(s) == FALSE
WriteEnds(s) == TRUE
Unlocks(c) ==
  /\ peer[c].at = "locked"
  /\ IF peer[c].request.method = "stop" THEN rpcChild[Id(c)] # "killing" ELSE WriteEnds(Id(c))
  /\ sessionLock' = [sessionLock EXCEPT ![Id(c)] = Free] /\ RpcGoes(c, "reply")
  /\ UNCHANGED <<mapLock, rpcSessionVars, answerVars>> /\ Quiet

\* list_sessions and server_status hold the map while they lock each session.
ListBegins(c) ==
  /\ peer[c].at = "handle" /\ peer[c].auth /\ peer[c].request.method = "list" /\ mapLock = Free
  /\ mapLock' = c /\ peer' = [peer EXCEPT ![c].at = "listing", ![c].left = sessions]
  /\ UNCHANGED <<sessionLock, rpcSessionVars, answerVars>> /\ Quiet

ListNext(c) ==
  /\ peer[c].at = "listing"
  /\ \/ \E s \in peer[c].left : sessionLock[s] = Free /\ peer' = [peer EXCEPT ![c].left = @ \ {s}]
                                /\ UNCHANGED mapLock
     \/ peer[c].left = {} /\ mapLock' = Free /\ RpcGoes(c, "reply")
  /\ UNCHANGED <<sessionLock, rpcSessionVars, answerVars>> /\ Quiet

\* A wrong token is answered, and the connection dropped.
Replies(c) ==
  /\ peer[c].at \in {"reply", "refuse"}
  /\ replied' = [replied EXCEPT ![c] = Append(@, peer[c].request.method)]
  /\ peer' = [peer EXCEPT ![c].at = IF @ = "refuse" THEN "gone" ELSE "poll", ![c].request = RpcNothing]
  /\ UNCHANGED <<rpcSessionVars, lockVars, subPos, believed>> /\ Quiet

HandlerSteps(c) ==
  \/ AllForwarded(c) \/ RpcAnswers(c) \/ RpcSpawns(c) \/ Inserts(c) \/ LooksUp(c) \/ RpcSubscribes(c)
  \/ RpcLocks(c) \/ Unlocks(c) \/ ListBegins(c) \/ ListNext(c) \/ Replies(c)
  \/ \E s \in Child : RpcForwards(c, s)

RpcNext ==
  \/ ToolSteps \/ ChildSteps
  \/ \E c \in Peer : LineSteps(c) \/ RpcClientSteps(c) \/ HandlerSteps(c)

(***************************************************************************)
(* Properties.                                                             *)
(***************************************************************************)

\* No child is forgotten: one that runs is in the map, or is about to be put
\* there by a handler, or is being killed by one (handle_start_session,
\* handle_stop_session).
ChildIsKept == \A s \in Child : rpcChild[s] = "running" =>
  \/ s \in sessions
  \/ \E c \in Peer : Id(c) = s /\ (peer[c].at = "insert" \/ (peer[c].request.method = "stop" /\ peer[c].at = "lock"))

\* A stop that reports success has ended every child of the map it found,
\* whatever the handlers were doing with them (TcpServerHandle::stop, do_stop).
StopKillsTracked == stopCall = "done" => \A s \in tracked : rpcChild[s] = "exited"

\* The answers of a connection are the answers to its requests, in order, with
\* none left out: a line that was lost in the middle ends the connection rather
\* than shift the answers that follow (handle_connection).
AnswersMatch == \A c \in Peer :
  /\ Len(replied[c]) <= Len(rpcAsked[c])
  /\ \A i \in DOMAIN replied[c] : replied[c][i] = rpcAsked[c][i].method

\* A subscriber always knows which event it gets: what it counts from events
\* and "lagged" notices is where its receiver is.
NoSilentSkip == \A c \in Peer, s \in Child : believed[c][s] = subPos[c][s]

\* A server that is asked to stop does, while its handlers hold locks
\* (TcpServerHandle::stop), provided the children read what they are sent.
RpcStopOwed == rpcStopper.at = "begin"
RpcStopMet == rpcStopper.at = "over"
=============================================================================
