---------------------------- MODULE McpConnections ----------------------------
(***************************************************************************)
(* The connections of rpi-mcp-core's runtime.rs under one key: the entry   *)
(* in the registry with its lock, stop flag and notification dispatcher,   *)
(* the session (generation) it holds, and the callers: list and call over  *)
(* a configuration file (with_session), discover_configured and            *)
(* call_configured over an in-memory target, close_key and                 *)
(* shutdown_connections.                                                   *)
(*                                                                         *)
(* A key is either of the legacy or of the typed kind (the keys cannot     *)
(* collide); two typed targets of one server name share a key and differ   *)
(* in their configuration.                                                 *)
(***************************************************************************)
EXTENDS Naturals, FiniteSets

CONSTANTS
  Caller,       \* threads that use the runtime
  McpTarget,    \* targets that share the key
  MaxEntries,   \* bound on entries registered under the key
  MaxSessions   \* bound on sessions started

ASSUME McpConnectionConstants ==
  MaxEntries \in Nat /\ MaxSessions \in Nat

VARIABLES
  keyKind,      \* "legacy", "stdio" or "http": the key and its transport
  configs,      \* the configuration of each target
  registered,   \* the entry in the sessions map, 0 when there is none
  entriesMade,
  stopFlag,     \* entries whose stop control is cancelled
  mcpHolder,       \* who holds the entry's session lock
  configOf,     \* last configuration of the entry
  generation,   \* the entry's session, 0 when it has none
  sessionsMade,
  listed,       \* sessions whose every tools/list page validated
  admission,    \* per target: the generation discovery admitted, 0 for none
  admissionLock,\* per target: who holds it
  dispatcher,   \* per entry: its thread's step and the entry it resolved
  mcpCaller        \* per thread: operation, step, target and entry

mcpVars == <<keyKind, configs, registered, entriesMade, stopFlag, mcpHolder, configOf, generation,
             sessionsMade, listed, admission, admissionLock, dispatcher, mcpCaller>>
registryVars == <<keyKind, configs, registered, entriesMade, stopFlag>>
sessionVars == <<configOf, generation, sessionsMade, listed>>
targetVars == <<admission, admissionLock>>

McpEntry == 1..MaxEntries
McpFree == "free"
Dispatch == "dispatcher"
NoConfig == 0
IdleCaller == [op |-> "none", step |-> "idle", t |-> "none", e |-> 0]
McpAtRest(c) == mcpCaller[c].step = "idle"
McpAt(c, step) == mcpCaller[c].step = step
Goes(c, step) == mcpCaller' = [mcpCaller EXCEPT ![c].step = step]

\* The operation is over: the locks it holds are released.
Ends(c) ==
  /\ mcpCaller' = [mcpCaller EXCEPT ![c] = IdleCaller]
  /\ mcpHolder' = [e \in McpEntry |-> IF mcpHolder[e] = c THEN McpFree ELSE mcpHolder[e]]
  /\ admissionLock' = [t \in McpTarget |-> IF admissionLock[t] = c THEN McpFree ELSE admissionLock[t]]

-----------------------------------------------------------------------------
(* Entering an operation.                                                   *)

McpOps == IF keyKind = "legacy" THEN {"list"} ELSE {"discover", "call"}

\* A legacy key stands for one server of one file (its edits are the business
\* of McpSubscriptions).
FirstTarget == CHOOSE u \in McpTarget : TRUE

OperationBegins(c, op, t) ==
  /\ McpAtRest(c) /\ op \in McpOps /\ (op = "list" => t = FirstTarget)
  /\ mcpCaller' = [mcpCaller EXCEPT ![c] = [op |-> op, step |-> IF op = "list" THEN "resolve" ELSE "admit",
                                      t |-> t, e |-> 0]]
  /\ UNCHANGED <<registryVars, mcpHolder, sessionVars, targetVars, dispatcher>>

\* A failed rediscovery must not leave the old catalogue callable.
DiscoverAdmits(c) ==
  /\ McpAt(c, "admit") /\ mcpCaller[c].op = "discover" /\ admissionLock[mcpCaller[c].t] = McpFree
  /\ admissionLock' = [admissionLock EXCEPT ![mcpCaller[c].t] = c]
  /\ admission' = [admission EXCEPT ![mcpCaller[c].t] = 0]
  /\ Goes(c, "resolve")
  /\ UNCHANGED <<registryVars, mcpHolder, sessionVars, dispatcher>>

CallAdmits(c) ==
  /\ McpAt(c, "admit") /\ mcpCaller[c].op = "call" /\ admissionLock[mcpCaller[c].t] = McpFree
  /\ IF admission[mcpCaller[c].t] = 0
     THEN Ends(c)
     ELSE /\ admissionLock' = [admissionLock EXCEPT ![mcpCaller[c].t] = c]
          /\ Goes(c, "resolve") /\ UNCHANGED mcpHolder
  /\ UNCHANGED <<registryVars, sessionVars, admission, dispatcher>>

\* A deadline passes or the request is cancelled while it waits for a lock,
\* or the registry is at its limit.
CallerGivesUp(c) ==
  /\ mcpCaller[c].step \in {"admit", "resolve", "lock"} /\ mcpCaller[c].op \in McpOps
  /\ Ends(c)
  /\ UNCHANGED <<registryVars, sessionVars, admission, dispatcher>>

\* with_session_access under the registry lock: existing-only access creates
\* nothing, any other creates the entry and its dispatcher.
Resolve(c) ==
  /\ McpAt(c, "resolve")
  /\ IF registered # 0
     THEN /\ mcpCaller' = [mcpCaller EXCEPT ![c].step = "lock", ![c].e = registered]
          /\ UNCHANGED <<registered, entriesMade, dispatcher, mcpHolder, admissionLock>>
     ELSE IF mcpCaller[c].op = "call"
     THEN Ends(c) /\ UNCHANGED <<registered, entriesMade, dispatcher>>
     ELSE /\ entriesMade < MaxEntries /\ entriesMade' = entriesMade + 1
          /\ registered' = entriesMade'
          /\ dispatcher' = [dispatcher EXCEPT ![entriesMade'] = [step |-> "idle", on |-> 0]]
          /\ mcpCaller' = [mcpCaller EXCEPT ![c].step = "lock", ![c].e = entriesMade']
          /\ UNCHANGED <<mcpHolder, admissionLock>>
  /\ UNCHANGED <<keyKind, configs, stopFlag, sessionVars, admission>>

\* lock_until: the deadline and the controls are checked before every try.
LockChecked(c) ==
  /\ McpAt(c, "lock") /\ mcpCaller[c].e \notin stopFlag /\ Goes(c, "try")
  /\ UNCHANGED <<registryVars, mcpHolder, sessionVars, targetVars, dispatcher>>

LockBusy(c) ==
  /\ McpAt(c, "try") /\ mcpHolder[mcpCaller[c].e] # McpFree /\ Goes(c, "lock")
  /\ UNCHANGED <<registryVars, mcpHolder, sessionVars, targetVars, dispatcher>>

\* The check of an existing-only access, under the lock that replaces and
\* retires sessions.
StaleTarget(c) ==
  LET e == mcpCaller[c].e IN
  configOf[e] # configs[mcpCaller[c].t] \/ generation[e] = 0 \/ generation[e] # admission[mcpCaller[c].t]

LockRefused(c) ==
  /\ McpAt(c, "try") /\ mcpHolder[mcpCaller[c].e] = McpFree
  /\ mcpCaller[c].op = "call" /\ StaleTarget(c) /\ Ends(c)
  /\ UNCHANGED <<registryVars, sessionVars, admission, dispatcher>>

\* A changed configuration retires the session.
LockTaken(c) ==
  LET e == mcpCaller[c].e
      keeps == configOf[e] = configs[mcpCaller[c].t] IN
  /\ McpAt(c, "try") /\ mcpHolder[e] = McpFree
  /\ mcpCaller[c].op = "call" => ~StaleTarget(c)
  /\ mcpHolder' = [mcpHolder EXCEPT ![e] = c]
  /\ configOf' = [configOf EXCEPT ![e] = configs[mcpCaller[c].t]]
  /\ generation' = [generation EXCEPT ![e] = IF keeps THEN @ ELSE 0]
  /\ Goes(c, IF generation'[e] = 0 THEN "start" ELSE "run")
  /\ UNCHANGED <<registryVars, sessionsMade, listed, targetVars, dispatcher>>

StartChecked(c) ==
  /\ McpAt(c, "start") /\ mcpCaller[c].e \notin stopFlag /\ Goes(c, "starting")
  /\ UNCHANGED <<registryVars, mcpHolder, sessionVars, targetVars, dispatcher>>

\* The transport, initialize, initialized and the restored subscriptions.
SessionStarts(c) ==
  /\ McpAt(c, "starting") /\ sessionsMade < MaxSessions
  /\ sessionsMade' = sessionsMade + 1
  /\ generation' = [generation EXCEPT ![mcpCaller[c].e] = sessionsMade']
  /\ Goes(c, "run")
  /\ UNCHANGED <<registryVars, mcpHolder, configOf, listed, targetVars, dispatcher>>

\* Any of them fails, is cancelled or passes its deadline: no session is kept.
StartFails(c) ==
  /\ mcpCaller[c].step \in {"start", "starting"} /\ Ends(c)
  /\ UNCHANGED <<registryVars, sessionVars, admission, dispatcher>>

\* Session::tools, Catalog::page: every page of tools/list is read and validated
\* under the locks held; a discovery admits the session's generation.
ListCompletes(c) ==
  /\ McpAt(c, "run") /\ mcpCaller[c].op # "call"
  /\ IF mcpCaller[c].op = "list" THEN UNCHANGED <<listed, admission>>
     ELSE /\ listed' = listed \cup {generation[mcpCaller[c].e]}
          /\ admission' = [admission EXCEPT ![mcpCaller[c].t] = generation[mcpCaller[c].e]]
  /\ Ends(c)
  /\ UNCHANGED <<registryVars, configOf, generation, sessionsMade, dispatcher>>

CallAnswered(c) ==
  /\ McpAt(c, "run") /\ mcpCaller[c].op = "call" /\ Ends(c)
  /\ UNCHANGED <<registryVars, sessionVars, admission, dispatcher>>

\* A decoded error keeps the session of a stdio target or of a legacy caller;
\* a failed transport, and any error of a typed HTTP target, retires it.
RunFails(c, transport) ==
  /\ McpAt(c, "run")
  /\ generation' = [generation EXCEPT ![mcpCaller[c].e] = IF transport \/ keyKind = "http" THEN 0 ELSE @]
  /\ Ends(c)
  /\ UNCHANGED <<registryVars, configOf, sessionsMade, listed, admission, dispatcher>>

-----------------------------------------------------------------------------
(* Closing: close_key (legacy keys) and shutdown_connections.               *)

CloseBegins(c, op) ==
  /\ McpAtRest(c) /\ registered # 0 /\ op \in {"close", "shutdown"}
  /\ op = "close" => keyKind = "legacy"
  /\ stopFlag' = stopFlag \cup {registered}
  /\ mcpCaller' = [mcpCaller EXCEPT ![c] = [IdleCaller EXCEPT !.op = op, !.step = "release", !.e = registered]]
  /\ UNCHANGED <<keyKind, configs, registered, entriesMade, mcpHolder, sessionVars, targetVars, dispatcher>>

\* release_entry: the session is taken under the entry's lock.
ReleaseSession(c) ==
  /\ McpAt(c, "release") /\ mcpHolder[mcpCaller[c].e] = McpFree
  /\ generation' = [generation EXCEPT ![mcpCaller[c].e] = 0] /\ Goes(c, "join")
  /\ UNCHANGED <<registryVars, mcpHolder, configOf, sessionsMade, listed, targetVars, dispatcher>>

\* retire_entry: joins are serialized on the dispatcher's slot, so every
\* closer passes here only once the thread has ended.
Join(c) ==
  /\ McpAt(c, "join") /\ dispatcher[mcpCaller[c].e].step = "done" /\ Goes(c, "unmap")
  /\ UNCHANGED <<registryVars, mcpHolder, sessionVars, targetVars, dispatcher>>

\* The key is removed only when it still names this entry.
Unmap(c) ==
  /\ McpAt(c, "unmap")
  /\ registered' = IF registered = mcpCaller[c].e THEN 0 ELSE registered
  /\ Ends(c)
  /\ UNCHANGED <<keyKind, configs, entriesMade, stopFlag, sessionVars, admission, dispatcher>>

-----------------------------------------------------------------------------
(* The dispatcher of an entry: spawn_dispatcher, read_resource_by_key.      *)

DispatcherAt(e, step) == dispatcher[e].step = step
DispatcherTo(e, step, on) == dispatcher' = [dispatcher EXCEPT ![e] = [step |-> step, on |-> on]]

\* A notification of a session of this entry, past or present, is dequeued and
\* its resource is subscribed to (under legacy keys only).
Notified(e) ==
  /\ keyKind = "legacy"
  /\ DispatcherAt(e, "idle") /\ e \notin stopFlag /\ configOf[e] # NoConfig
  /\ DispatcherTo(e, "notified", 0)
  /\ UNCHANGED <<registryVars, mcpHolder, sessionVars, targetVars, mcpCaller>>

\* The key is resolved again.
DispatcherResolves(e) ==
  /\ DispatcherAt(e, "notified")
  /\ IF registered = 0 THEN DispatcherTo(e, "idle", 0) ELSE DispatcherTo(e, "lock", registered)
  /\ UNCHANGED <<registryVars, mcpHolder, sessionVars, targetVars, mcpCaller>>

DispatcherLocks(e) ==
  LET on == dispatcher[e].on IN
  /\ DispatcherAt(e, "lock") /\ on \notin stopFlag /\ mcpHolder[on] = McpFree
  /\ IF generation[on] = 0
     THEN DispatcherTo(e, "idle", 0) /\ UNCHANGED mcpHolder
     ELSE DispatcherTo(e, "read", on) /\ mcpHolder' = [mcpHolder EXCEPT ![on] = Dispatch]
  /\ UNCHANGED <<registryVars, sessionVars, targetVars, mcpCaller>>

DispatcherRefused(e) ==
  /\ DispatcherAt(e, "lock") /\ DispatcherTo(e, "idle", 0)
  /\ UNCHANGED <<registryVars, mcpHolder, sessionVars, targetVars, mcpCaller>>

DispatcherReads(e, failed) ==
  LET on == dispatcher[e].on IN
  /\ DispatcherAt(e, "read")
  /\ generation' = [generation EXCEPT ![on] = IF failed THEN 0 ELSE @]
  /\ mcpHolder' = [mcpHolder EXCEPT ![on] = McpFree] /\ DispatcherTo(e, "idle", 0)
  /\ UNCHANGED <<registryVars, configOf, sessionsMade, listed, targetVars, mcpCaller>>

\* The stop flag is polled between two notifications.
DispatcherEnds(e) ==
  /\ DispatcherAt(e, "idle") /\ e \in stopFlag /\ DispatcherTo(e, "done", 0)
  /\ UNCHANGED <<registryVars, mcpHolder, sessionVars, targetVars, mcpCaller>>

-----------------------------------------------------------------------------
McpInit ==
  /\ keyKind \in {"legacy", "stdio", "http"}
  /\ \/ configs = [t \in McpTarget |-> 1]
     \/ configs = [t \in McpTarget |-> IF t = FirstTarget THEN 1 ELSE 2] /\ keyKind = "stdio"
  /\ registered = 0 /\ entriesMade = 0 /\ stopFlag = {} /\ sessionsMade = 0 /\ listed = {}
  /\ mcpHolder = [e \in McpEntry |-> McpFree]
  /\ configOf = [e \in McpEntry |-> NoConfig]
  /\ generation = [e \in McpEntry |-> 0]
  /\ admission = [t \in McpTarget |-> 0] /\ admissionLock = [t \in McpTarget |-> McpFree]
  /\ dispatcher = [e \in McpEntry |-> [step |-> "none", on |-> 0]]
  /\ mcpCaller = [c \in Caller |-> IdleCaller]

CallerSteps(c) ==
  \/ DiscoverAdmits(c) \/ CallAdmits(c) \/ CallerGivesUp(c) \/ Resolve(c) \/ LockChecked(c)
  \/ LockBusy(c) \/ LockRefused(c) \/ LockTaken(c) \/ StartChecked(c) \/ SessionStarts(c)
  \/ StartFails(c) \/ ListCompletes(c) \/ CallAnswered(c)
  \/ \E transport \in BOOLEAN : RunFails(c, transport)

CloserSteps(c) == ReleaseSession(c) \/ Join(c) \/ Unmap(c)

DispatcherSteps(e) ==
  \/ DispatcherResolves(e) \/ DispatcherLocks(e) \/ DispatcherRefused(e) \/ DispatcherEnds(e)
  \/ \E failed \in BOOLEAN : DispatcherReads(e, failed)

McpNext ==
  \/ \E c \in Caller : \/ CallerSteps(c) \/ CloserSteps(c) 
                       \/ \E op \in {"list", "discover", "call"}, t \in McpTarget : OperationBegins(c, op, t)
                       \/ \E op \in {"close", "shutdown"} : CloseBegins(c, op)
  \/ \E e \in McpEntry : DispatcherSteps(e) \/ Notified(e)

-----------------------------------------------------------------------------
\* A tools/call over a configured target reaches only the session its own
\* discovery admitted, and only if every page of its catalogue validated.
CallsAdmitted ==
  \A c \in Caller : McpAt(c, "run") /\ mcpCaller[c].op = "call" =>
    /\ generation[mcpCaller[c].e] \in listed
    /\ generation[mcpCaller[c].e] = admission[mcpCaller[c].t]
    /\ configOf[mcpCaller[c].e] = configs[mcpCaller[c].t]

\* An entry that left the registry leaves no session behind (a child process
\* or an HTTP session nobody would close), however late its callers are.
NoOrphan == \A e \in 1..entriesMade : e # registered => generation[e] = 0

\* "an old notification must not resolve this key to a newly opened
\* connection and read from it".
DispatcherOwn ==
  \A e \in McpEntry : dispatcher[e].on \in {0, e}

\* A close, and a shutdown, come back.
CloseOwed(c) == McpAt(c, "release")
CloseMet(c) == McpAtRest(c)
===============================================================================
