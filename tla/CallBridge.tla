------------------------------ MODULE CallBridge ------------------------------
(***************************************************************************)
(* The two bridges on which the native asks its host to act: external      *)
(* tools (external_tools.rs, kind "tools") and client file I/O (file_io.rs,*)
(* kind "files"), with the configuration transaction of host.rs that       *)
(* installs a bridge and the writer that sends its answers.                *)
(*                                                                         *)
(* A request is an instance 1..MaxRequests under an identity the native    *)
(* chose; the native may use an identity again once it has closed the      *)
(* earlier request.  Requests and closures are frames in a pipe the reader *)
(* routes one by one, looking entries up by identity; a supervisor starts  *)
(* one worker per queued invocation, and a worker's answer goes through    *)
(* the outbound channel to the writer, which looks at the control of the   *)
(* call once more and then writes, a wait in which frames are routed.      *)
(***************************************************************************)
EXTENDS Naturals, Sequences, FiniteSets

CONSTANTS
  RequestId,     \* request identities of the native
  MaxRequests,   \* bound: requests in a behaviour
  MaxCalls       \* MAX_CALLS (64) and MAX_PENDING, which also size the queue

ASSUME BridgeConstants == MaxRequests \in Nat /\ MaxCalls \in Nat \ {0}

VARIABLES
  kind,       \* "tools" or "files"
  config,     \* configure_tools/configure_file_io: idle, discover, sent, acked, done, failed
  defined,    \* the native has accepted the definitions (external)
  conns,      \* MCP connections of the bridge's runtime: none, open, drop, shut
  closedSig,  \* closed_signal of the host runtime
  reader,     \* the native reader: run, broken, ended
  routed,     \* the runtime's weak reference to the bridge is set
  bridgeClosing,    \* a fail_closed or finish has the signal set and not yet closed the bridge
  super,      \* the supervisor: none, loop, drain, join, done
  stopped,    \* Active.stopped / State.stopped
  stop,       \* the supervisor's stop control
  calls,      \* the table: identity -> instance, 0 for none
  closedReq,  \* instances whose entry has Call.closed
  cancelled,  \* instances whose control is cancelled
  phase,      \* where an instance's invocation is
  bridgeQueue,      \* the bounded request channel
  bridgePipe, \* frames of the native the reader has not routed: [of, closed]
  ident,      \* identity of an instance, as requested
  native,     \* identity -> the instance the native has open, 0 for none (external)
  bridgeWriting,    \* the instance whose answer the writer is writing, 0 for none
  filesWritten,    \* instances whose answer was written to the native
  lastReq     \* instances requested so far

bridgeVars == <<kind, config, defined, conns, closedSig, reader, routed, bridgeClosing, super,
                stopped, stop, calls, closedReq, cancelled, phase, bridgeQueue, bridgePipe,
                ident, native, bridgeWriting, filesWritten, lastReq>>
workVars == <<calls, closedReq, cancelled, phase, bridgeQueue>>
writeVars == <<bridgeWriting, filesWritten>>
nativeSide == <<ident, native, lastReq>>
bridgeWire == <<nativeSide, bridgePipe, writeVars>>
tableVars == <<workVars, bridgeWire>>
setupVars == <<kind, config, defined, conns>>
endVars == <<closedSig, reader, routed, bridgeClosing, super, stopped, stop>>

Instance == 1..MaxRequests
Entered == {calls[r] : r \in RequestId} \ {0}
Tasks == {i \in Instance :
            phase[i] \in {"run", "joining", "answer", "out", "exit", "panicked"}}

-----------------------------------------------------------------------------
(* Configuration: one transaction per host.                                 *)

\* configure_tools starts a discovery in a blocking task; configure_file_io
\* sends its registration at once.
ConfigureBegin ==
  /\ config = "idle" /\ ~closedSig
  /\ IF kind = "tools"
     THEN config' = "discover" /\ conns' = "open"
     ELSE config' = "sent" /\ UNCHANGED conns
  /\ UNCHANGED <<kind, defined, endVars, tableVars>>

\* Candidate::drop: discovery failed, timed out or was cancelled; the task is
\* cancelled and joined before its connections are shut down.
DiscoverEnds ==
  /\ config = "discover"
  /\ \/ config' = "sent" /\ UNCHANGED conns
     \/ config' = "failed" /\ conns' = "drop"
  /\ UNCHANGED <<kind, defined, endVars, tableVars>>

CandidateShut ==
  /\ conns = "drop" /\ conns' = "shut"
  /\ UNCHANGED <<kind, config, defined, endVars, tableVars>>

\* The native accepts or refuses the definitions; the answer may be lost.
NativeDefines ==
  /\ config = "sent" /\ ~defined /\ defined' = TRUE
  /\ UNCHANGED <<kind, config, conns, endVars, tableVars>>

Acknowledged ==
  /\ config = "sent" /\ defined /\ config' = "acked"
  /\ UNCHANGED <<kind, defined, conns, endVars, tableVars>>

\* fail_closed: the signal first, then the routed bridge.
SignalClosed == closedSig' = TRUE /\ bridgeClosing' = TRUE

\* ExternalConfigurationGuard: after the send only an explicit rejection of
\* the tools leaves the host open.
ConfigureFails ==
  /\ config \in {"sent", "acked"} /\ config' = "failed"
  /\ conns' = IF kind = "tools" THEN "drop" ELSE conns
  /\ \/ SignalClosed
     \/ kind = "tools" /\ config = "sent" /\ ~defined /\ UNCHANGED <<closedSig, bridgeClosing>>
  /\ UNCHANGED <<kind, defined, reader, routed, super, stopped, stop, tableVars>>

\* The supervisor is started; under the routing lock the signal decides
\* whether the bridge is published or dropped, which closes it.
Install ==
  /\ config = "acked" /\ super = "none" /\ super' = "loop"
  /\ \/ /\ ~closedSig /\ routed' = TRUE /\ config' = "done"
        /\ UNCHANGED <<stopped, stop>>
     \/ /\ closedSig /\ config' = "failed" /\ stopped' = TRUE /\ stop' = TRUE
        /\ UNCHANGED routed
  /\ UNCHANGED <<kind, defined, conns, closedSig, reader, bridgeClosing, tableVars>>

-----------------------------------------------------------------------------
(* The native (external) and the reader.                                    *)

\* A request under an identity that is free on the native's side.
CallOpened(r) ==
  LET i == lastReq + 1
  IN /\ defined /\ native[r] = 0 /\ i \in Instance
     /\ lastReq' = i /\ ident' = [ident EXCEPT ![i] = r]
     /\ native' = [native EXCEPT ![r] = i]
     /\ bridgePipe' = Append(bridgePipe, [of |-> i, closed |-> FALSE])
     /\ UNCHANGED <<setupVars, endVars, workVars, writeVars>>

\* The native closes a request whenever it likes.
CallClosed(r) ==
  /\ native[r] # 0 /\ native' = [native EXCEPT ![r] = 0]
  /\ bridgePipe' = Append(bridgePipe, [of |-> native[r], closed |-> TRUE])
  /\ UNCHANGED <<setupVars, endVars, workVars, writeVars, ident, lastReq>>

ReadsFrame == reader = "run" /\ bridgePipe # << >> /\ bridgePipe' = Tail(bridgePipe)

\* route, a request: refused when stopped, full or known; entered before it
\* is queued, which fails on a full queue and on the receiver file_io.rs closes
\* before it sets stopped.  A refusal, and a request without a bridge, end the
\* reader.
RouteRequest ==
  LET i == Head(bridgePipe).of
      r == ident[i]
      full == Cardinality(Entered) >= MaxCalls
      fits == Len(bridgeQueue) < MaxCalls /\ ~(kind = "files" /\ super = "drain")
  IN /\ ReadsFrame /\ ~Head(bridgePipe).closed
     /\ \/ /\ ~routed \/ stopped \/ full \/ calls[r] # 0
           /\ reader' = "broken"
           /\ UNCHANGED <<calls, phase, bridgeQueue>>
        \/ /\ routed /\ ~stopped /\ ~full /\ calls[r] = 0
           /\ calls' = [calls EXCEPT ![r] = i]
           /\ phase' = [phase EXCEPT ![i] = IF fits THEN "queued" ELSE "lost"]
           /\ bridgeQueue' = IF fits THEN Append(bridgeQueue, i) ELSE bridgeQueue
           /\ reader' = IF fits THEN "run" ELSE "broken"
     /\ UNCHANGED <<setupVars, closedSig, routed, bridgeClosing, super, stopped, stop,
                    closedReq, cancelled, nativeSide, writeVars>>

\* route, a closure: it cancels whatever stands under its identity.  For tools
\* the entry goes with it.
ClosedTool(r) == calls' = [calls EXCEPT ![r] = 0] /\ UNCHANGED closedReq

\* For files the entry stays until its worker has exited too.
ClosedFile(r) ==
  /\ closedReq' = closedReq \cup {calls[r]}
  /\ calls' = [calls EXCEPT ![r] = IF phase[@] = "end" THEN 0 ELSE @]

RouteClosed ==
  LET r == ident[Head(bridgePipe).of]
  IN /\ ReadsFrame /\ Head(bridgePipe).closed
     /\ \/ /\ routed /\ calls[r] # 0
           /\ cancelled' = cancelled \cup {calls[r]}
           /\ IF kind = "tools" THEN ClosedTool(r) ELSE ClosedFile(r)
        \/ ~(routed /\ calls[r] # 0) /\ UNCHANGED <<cancelled, calls, closedReq>>
     /\ UNCHANGED <<setupVars, endVars, phase, bridgeQueue, nativeSide, writeVars>>

\* cancel_calls: tools drain the table, files keep their entries.
CancelCalls ==
  /\ cancelled' = cancelled \cup Entered
  /\ calls' = IF kind = "tools" THEN [r \in RequestId |-> 0] ELSE calls

\* agent_settled and abort_run, whatever the native has open.
RunSettled ==
  /\ routed /\ Entered # {} /\ CancelCalls
  /\ UNCHANGED <<setupVars, endVars, closedReq, phase, bridgeQueue, bridgeWire>>

\* The reader stops at a refused frame or at the end of the pipe, and finishes
\* the runtime.
FilesReaderEnds ==
  /\ reader \in {"run", "broken"} /\ reader' = "ended" /\ SignalClosed
  /\ UNCHANGED <<setupVars, routed, super, stopped, stop, tableVars>>

\* close() of the bridge the runtime refers to.
CloseRouted ==
  /\ bridgeClosing /\ bridgeClosing' = FALSE
  /\ IF routed THEN stopped' = TRUE /\ stop' = TRUE /\ CancelCalls
               ELSE UNCHANGED <<stopped, stop, cancelled, calls>>
  /\ UNCHANGED <<setupVars, closedSig, reader, routed, super, closedReq, phase, bridgeQueue,
                 bridgeWire>>

-----------------------------------------------------------------------------
(* The supervisor and its workers.                                          *)

\* join_next: a joined file worker has exited, and its closed entry goes.
JoinNext(i) ==
  /\ super \in {"loop", "join"} /\ phase[i] = "exit"
  /\ phase' = [phase EXCEPT ![i] = "end"]
  /\ calls' = IF kind = "files" /\ super = "loop" /\ i \in closedReq
              THEN [r \in RequestId |-> IF calls[r] = i THEN 0 ELSE calls[r]] ELSE calls
  /\ UNCHANGED <<setupVars, endVars, closedReq, cancelled, bridgeQueue, bridgeWire>>

Receive ==
  /\ super = "loop" /\ ~stop /\ bridgeQueue # << >> /\ Cardinality(Tasks) < MaxCalls
  /\ bridgeQueue' = Tail(bridgeQueue) /\ phase' = [phase EXCEPT ![Head(bridgeQueue)] = "run"]
  /\ UNCHANGED <<setupVars, endVars, calls, closedReq, cancelled, bridgeWire>>

\* A worker panics and its guard cancels the call.  The result of a tool task
\* is not looked at.
WorkerPanics(i) ==
  /\ phase[i] \in {"run", "answer", "out"}
  /\ phase' = [phase EXCEPT ![i] = IF kind = "files" THEN "panicked" ELSE "exit"]
  /\ cancelled' = cancelled \cup {i}
  /\ UNCHANGED <<setupVars, endVars, calls, closedReq, bridgeQueue, bridgeWire>>

\* A panicked file worker is joined: the supervisor fails the host closed and
\* leaves.
JoinPanicked(i) ==
  /\ phase[i] = "panicked" /\ phase' = [phase EXCEPT ![i] = "end"]
  /\ \/ super = "loop" /\ super' = "failing" /\ SignalClosed
     \/ super = "join" /\ UNCHANGED <<super, closedSig, bridgeClosing>>
  /\ UNCHANGED <<setupVars, reader, routed, stopped, stop, calls, closedReq, cancelled,
                 bridgeQueue, bridgeWire>>

\* The loop is left once stop is set, or once the supervisor's own fail_closed
\* has closed the routed bridge.
SupervisorStops ==
  /\ \/ super = "loop" /\ stop
     \/ super = "failing" /\ (routed => stopped)
  /\ super' = "drain"
  /\ UNCHANGED <<setupVars, closedSig, reader, routed, bridgeClosing, stopped, stop, tableVars>>

\* Everything is cancelled, the queue is drained; then the tasks are joined.
SupervisorDrains ==
  /\ super = "drain" /\ super' = "join" /\ stopped' = TRUE
  /\ LET queued == {bridgeQueue[n] : n \in DOMAIN bridgeQueue}
     IN /\ cancelled' = cancelled \cup Entered \cup queued
        /\ phase' = [i \in Instance |-> IF i \in queued THEN "end" ELSE phase[i]]
  /\ bridgeQueue' = << >>
  /\ calls' = IF kind = "tools" THEN [r \in RequestId |-> 0] ELSE calls
  /\ UNCHANGED <<setupVars, closedSig, reader, routed, bridgeClosing, stop, closedReq, bridgeWire>>

SupervisorEnds ==
  /\ super = "join" /\ Tasks = {} /\ super' = "done"
  /\ calls' = [r \in RequestId |-> 0]
  /\ conns' = IF conns = "none" THEN "none" ELSE "shut"
  /\ UNCHANGED <<kind, config, defined, closedSig, reader, routed, bridgeClosing, stopped, stop,
                 closedReq, cancelled, phase, bridgeQueue, bridgeWire>>

\* A mutated form of WorkerStep: without the deadline, on a server that never
\* answers.
WorkerStepForever(i) ==
  /\ phase[i] = "run" /\ i \in cancelled
  /\ phase' = [phase EXCEPT ![i] = IF kind = "tools" THEN "joining" ELSE "exit"]
  /\ UNCHANGED <<setupVars, endVars, calls, closedReq, cancelled, bridgeQueue, bridgeWire>>

\* invoke / the file worker: a cancelled call is given up, a tool call only
\* once the blocking call has returned; otherwise it ends with a result, an
\* error or the deadline.
WorkerStep(i) ==
  /\ phase[i] = "run"
  /\ phase' = [phase EXCEPT ![i] =
       IF i \in cancelled THEN (IF kind = "tools" THEN "joining" ELSE "exit") ELSE "answer"]
  /\ UNCHANGED <<setupVars, endVars, calls, closedReq, cancelled, bridgeQueue, bridgeWire>>

CallReturns(i) ==
  /\ phase[i] = "joining" /\ phase' = [phase EXCEPT ![i] = "exit"]
  /\ UNCHANGED <<setupVars, endVars, calls, closedReq, cancelled, bridgeQueue, bridgeWire>>

\* A tool's answer is sent while its own entry is in the table.
StillEntered(i) == ~stopped /\ calls[ident[i]] = i /\ i \notin cancelled

Respond(i) ==
  /\ phase[i] = "answer"
  /\ phase' = [phase EXCEPT ![i] = IF kind = "files" \/ StillEntered(i) THEN "out" ELSE "exit"]
  /\ cancelled' = IF kind = "tools" /\ ~StillEntered(i) THEN cancelled \cup {i} ELSE cancelled
  /\ UNCHANGED <<setupVars, endVars, calls, closedReq, bridgeQueue, bridgeWire>>

\* Mutated form of Writable: what was queued is written.
WritableQueued(i) == phase[i] = "out" /\ i \notin filesWritten

\* write_commands looks at the control again, immediately before writing.
Writable(i) == phase[i] = "out" /\ i \notin filesWritten /\ i \notin cancelled

StartWrite(i) ==
  /\ bridgeWriting = 0 /\ Writable(i) /\ bridgeWriting' = i
  /\ UNCHANGED <<setupVars, endVars, workVars, nativeSide, bridgePipe, filesWritten>>

\* write_all and flush return; meanwhile the worker may have given up.
EndWrite ==
  /\ bridgeWriting # 0 /\ filesWritten' = filesWritten \cup {bridgeWriting} /\ bridgeWriting' = 0
  /\ UNCHANGED <<setupVars, endVars, workVars, nativeSide, bridgePipe>>

\* The native acknowledges a written answer; dropping the guard cancels.
AnswerAcknowledged(i) ==
  /\ phase[i] = "out" /\ i \in filesWritten /\ reader = "run"
  /\ phase' = [phase EXCEPT ![i] = "exit"] /\ cancelled' = cancelled \cup {i}
  /\ UNCHANGED <<setupVars, endVars, calls, closedReq, bridgeQueue, bridgeWire>>

\* respond gives up on a cancelled control or a closed host; without a valid
\* acknowledgement it fails the host closed.
RespondEnds(i) ==
  /\ phase[i] = "out" /\ phase' = [phase EXCEPT ![i] = "exit"]
  /\ cancelled' = cancelled \cup {i}
  /\ \/ (closedSig \/ i \in cancelled) /\ UNCHANGED <<closedSig, bridgeClosing>>
     \/ i \notin cancelled /\ SignalClosed
  /\ UNCHANGED <<setupVars, reader, routed, super, stopped, stop, calls, closedReq, bridgeQueue,
                 bridgeWire>>

-----------------------------------------------------------------------------
BridgeInit ==
  /\ kind \in {"tools", "files"} /\ config = "idle" /\ defined = FALSE /\ conns = "none"
  /\ closedSig = FALSE /\ reader = "run" /\ routed = FALSE /\ bridgeClosing = FALSE
  /\ super = "none" /\ stopped = FALSE /\ stop = FALSE
  /\ calls = [r \in RequestId |-> 0] /\ closedReq = {} /\ cancelled = {}
  /\ phase = [i \in Instance |-> "new"] /\ bridgeQueue = << >>
  /\ ident = [i \in Instance |-> CHOOSE r \in RequestId : TRUE]
  /\ native = [r \in RequestId |-> 0] /\ bridgePipe = << >>
  /\ bridgeWriting = 0 /\ filesWritten = {} /\ lastReq = 0

Configure == \/ ConfigureBegin \/ DiscoverEnds \/ CandidateShut \/ NativeDefines
             \/ Acknowledged \/ ConfigureFails \/ Install
Worker(i) == \/ JoinNext(i) \/ JoinPanicked(i) \/ WorkerStep(i) \/ CallReturns(i)
             \/ Respond(i) \/ AnswerAcknowledged(i) \/ RespondEnds(i)
Supervisor == \/ Receive \/ SupervisorStops \/ SupervisorDrains \/ SupervisorEnds

BridgeNext ==
  \/ Configure \/ Supervisor \/ RunSettled \/ FilesReaderEnds \/ CloseRouted
  \/ RouteRequest \/ RouteClosed \/ EndWrite
  \/ \E r \in RequestId : CallOpened(r) \/ CallClosed(r)
  \/ \E i \in Instance : Worker(i) \/ WorkerPanics(i) \/ StartWrite(i)

\* Fairness: the tasks of the executor run, a cancelled blocking call returns,
\* a broken reader finishes the runtime, a configuration ends.
BridgeProgress ==
  \/ DiscoverEnds \/ CandidateShut \/ ConfigureFails \/ Install \/ Supervisor
  \/ (reader = "broken" /\ FilesReaderEnds) \/ CloseRouted
WorkerProgress(i) == Worker(i)

-----------------------------------------------------------------------------
\* A closure the reader has still to route.
OnItsWay(i, pipe) == \E n \in DOMAIN pipe : pipe[n] = [of |-> i, closed |-> TRUE]

\* The writer begins an answer only for the request that stands under its
\* identity, and only if the native has it open or its closure is a frame the
\* host has not read: not after a closure the host has seen or the end of the
\* run, nor for an earlier request of the same identity.
AnswersOpen ==
  [][\A i \in Instance : bridgeWriting' = i /\ bridgeWriting # i =>
       /\ calls[ident[i]] = i
       /\ native[ident[i]] = i \/ OnItsWay(i, bridgePipe)]_bridgeVars

\* As the guard of the configuration promises, an open host never has native
\* definitions without a bridge that owns them.
DefinitionsOwned ==
  defined /\ ~closedSig => routed \/ config \in {"sent", "acked"}

\* The admission of a file request lasts until its worker has exited and the
\* native has closed it, so its queue never overflows and no request is lost.
FilesNeverOverflow ==
  kind = "files" => \A i \in Instance : phase[i] # "lost"

\* Once the host is closed, or a request did not fit, every worker is joined,
\* the table is empty and the tool connections are shut down.
BridgeOwed == closedSig \/ \E i \in Instance : phase[i] = "lost"
BridgeMet ==
  /\ super \in {"none", "done"} /\ config \notin {"discover", "sent", "acked"}
  /\ Entered = {} /\ Tasks = {} /\ conns \in {"none", "shut"}
\* Every admitted request is answered or cancelled.
AnswerOwed(i) == phase[i] \in {"queued", "run"}
AnswerMet(i) == i \in cancelled
===============================================================================
