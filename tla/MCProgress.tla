----------------------------- MODULE MCProgress -----------------------------
(* What the components owe in the end, under the fairness of their own        *)
(* threads, on instances smaller than those of the safety runs. Every         *)
(* behaviour is one component's, which is owed its own fairness while it      *)
(* runs.                                                                      *)
EXTENDS ResourceTransition, CallBridge, IdleRelease, McpConnections,
        McpTransports, Goal, DurableProjection, ImMessage,
        AcpConnection, AcpRequests, RpcServer, PluginServers,
        Configuration, Catalogs, CodeMode, Orchestrator,
        ProviderStream, NativeCli

CONSTANTS o1, o2, c1, c2   \* the members of Operation and of Caller

VARIABLE active   \* the component whose steps this behaviour is made of

Components == {"resources", "bridge", "release", "connections", "stdio", "goal",
               "projection", "im", "acpconnection", "acpprompt",
               "rpc", "http", "ui", "configuration", "acptasks",
               "catalog", "code", "orchestrator", "provider",
               "cli"}

\* A component that does not run starts in one of its initial states only.
Init ==
  /\ active \in Components
  /\ ResInit
  /\ active = "resources" \/ (known = NoRecord /\ ~faults.linger)
  /\ IF active = "bridge" THEN TRUE ELSE kind = "tools"
  /\ BridgeInit
  /\ ReleaseInit
  /\ IF active = "connections" THEN TRUE ELSE keyKind = "legacy"
  /\ McpInit
  /\ StdioInit
  /\ GoalInit
  /\ active = "goal" \/ (~subagent)
  /\ ProjectionInit
  /\ active = "projection" \/ (commits = 0 /\ client.after = 0)
  /\ ImInit
  /\ IF active = "acpconnection" THEN TRUE ELSE saved = {}
  /\ ConnectionInit
  /\ IF active = "acpprompt" THEN TRUE ELSE runEvents = <<>>
  /\ PromptInit
  /\ RpcInit
  /\ active = "rpc" \/ (~token)
  /\ HttpInit
  /\ active = "http" \/ (~password)
  /\ UiInit
  /\ IF active = "configuration" THEN TRUE ELSE nativeModel = CHOOSE m \in Model : TRUE
  /\ ConfigInit
  /\ TasksInit
  /\ CatalogInit
  /\ CodeInit
  /\ GraphInit
  /\ active = "orchestrator" \/ (graph.session = CHOOSE s \in GraphSession : TRUE)
  /\ StreamInit
  /\ CliInit
  /\ active = "cli" \/ (history.lockFile)
  /\ McpHttpInit
  /\ active = "mcphttp" \/ (~transport.configured)
  /\ SseInit
  /\ ImSessionInit
  /\ IF active = "projects" THEN TRUE ELSE folders = Folder \cap Configured
  /\ ProjectsInit

OthersRest ==
  /\ UNCHANGED active
  /\ IF active = "resources" THEN TRUE ELSE UNCHANGED resVars
  /\ IF active = "bridge" THEN TRUE ELSE UNCHANGED bridgeVars
  /\ IF active = "release" THEN TRUE ELSE UNCHANGED relVars
  /\ IF active = "connections" THEN TRUE ELSE UNCHANGED mcpVars
  /\ IF active = "stdio" THEN TRUE ELSE UNCHANGED stdioVars
  /\ IF active = "goal" THEN TRUE ELSE UNCHANGED goalVars
  /\ IF active = "projection" THEN TRUE ELSE UNCHANGED projVars
  /\ IF active = "im" THEN TRUE ELSE UNCHANGED imVars
  /\ IF active = "acpconnection" THEN TRUE ELSE UNCHANGED connVars
  /\ IF active = "acpprompt" THEN TRUE ELSE UNCHANGED promptVars
  /\ IF active = "rpc" THEN TRUE ELSE UNCHANGED rpcVars
  /\ IF active = "http" THEN TRUE ELSE UNCHANGED httpVars
  /\ IF active = "ui" THEN TRUE ELSE UNCHANGED uiVars
  /\ IF active = "configuration" THEN TRUE ELSE UNCHANGED configVars
  /\ IF active = "acptasks" THEN TRUE ELSE UNCHANGED acpTaskVars
  /\ IF active = "catalog" THEN TRUE ELSE UNCHANGED catalogVars
  /\ IF active = "code" THEN TRUE ELSE UNCHANGED codeVars
  /\ IF active = "orchestrator" THEN TRUE ELSE UNCHANGED graphVars
  /\ IF active = "provider" THEN TRUE ELSE UNCHANGED providerStreamVars
  /\ IF active = "cli" THEN TRUE ELSE UNCHANGED cliVars
  /\ UNCHANGED mcpHttpVars
  /\ UNCHANGED sseVars
  /\ UNCHANGED imSessionVars
  /\ UNCHANGED projectVars

Next ==
  /\ \/ active = "resources" /\ ResNext
     \/ active = "bridge" /\ BridgeNext
     \/ active = "release" /\ ReleaseNext
     \/ active = "connections" /\ McpNext
     \/ active = "stdio" /\ StdioNext
     \/ active = "goal" /\ GoalNext
     \/ active = "projection" /\ ProjectionNext
     \/ active = "im" /\ ImNext
     \/ active = "acpconnection" /\ ConnectionNext
     \/ active = "acpprompt" /\ PromptNext
     \/ active = "rpc" /\ RpcNext
     \/ active = "http" /\ HttpNext
     \/ active = "ui" /\ UiNext
     \/ active = "configuration" /\ ConfigNext
     \/ active = "acptasks" /\ TasksNext
     \/ active = "catalog" /\ CatalogNext
     \/ active = "code" /\ CodeNext
     \/ active = "orchestrator" /\ GraphNext
     \/ active = "provider" /\ StreamNext
     \/ active = "cli" /\ CliNext
  /\ OthersRest

vars == <<active, resVars, bridgeVars, relVars, mcpVars, stdioVars,
          goalVars, projVars, imVars, connVars, promptVars,
          rpcVars, httpVars, uiVars, configVars, acpTaskVars,
          catalogVars, codeVars, graphVars, providerStreamVars,
          cliVars, mcpHttpVars, sseVars, imSessionVars,
          projectVars>>

\* The threads of each component, numbered. A behaviour is one component's, so the
\* i-th condition of Spec is about that component's i-th thread.
WeakThread(i) ==
  \/ active = "resources" /\ i = 1 /\ ResOwner
  \/ active = "resources" /\ i = 2 /\ ResChild
  \/ active = "bridge" /\ i = 1 /\ BridgeProgress
  \/ active = "bridge" /\ i = 2 /\ WorkerProgress(1)
  \/ active = "bridge" /\ i = 3 /\ WorkerProgress(2)
  \/ active = "release" /\ i = 1 /\ ReleaseSteps
  \/ active = "connections" /\ i = 1 /\ ((CallerSteps(c1) \/ CloserSteps(c1)))
  \/ active = "connections" /\ i = 2 /\ ((CallerSteps(c2) \/ CloserSteps(c2)))
  \/ active = "connections" /\ i = 3 /\ DispatcherSteps(1)
  \/ active = "stdio" /\ i = 1 /\ CallerRuns
  \/ active = "stdio" /\ i = 2 /\ WriterRuns
  \/ active = "stdio" /\ i = 3 /\ ReaderRuns
  \/ active = "goal" /\ i = 1 /\ GoalThreadSteps("agent")
  \/ active = "goal" /\ i = 2 /\ GoalThreadSteps("command")
  \/ active = "goal" /\ i = 3 /\ ((TurnSteps \/ TurnEnds))
  \/ active = "projection" /\ i = 1 /\ WatcherSteps
  \/ active = "projection" /\ i = 2 /\ RefreshSteps("service")
  \/ active = "im" /\ i = 1 /\ JobSteps(1)
  \/ active = "im" /\ i = 2 /\ ((ServerSteps \/ StopEnds))
  \/ active = "im" /\ i = 3 /\ HostEventApplied
  \/ active = "acpconnection" /\ i = 1 /\ WatcherEnds
  \/ active = "acpprompt" /\ i = 1 /\ PromptTurnSteps
  \/ active = "acpprompt" /\ i = 2 /\ (\E d \in Dlg : TaskGoesOn(d))
  \/ active = "acpprompt" /\ i = 3 /\ (AbortQueued \/ NativeReads \/ NativeSettles("aborted"))
  \/ active = "rpc" /\ i = 1 /\ KilledDies
  \/ active = "http" /\ i = 1 /\ ((StopSeen \/ StopDeadline \/ ServeEnds \/ WebJoined \/ (serving = "closing" /\ ServiceCloses)))
  \/ active = "http" /\ i = 2 /\ (\E s \in EventStream : ExpiryCheck(s))
  \/ active = "ui" /\ i = 1 /\ ((RelayLoop \/ RelayEnd))
  \/ active = "ui" /\ i = 2 /\ (((DrainEnds /\ UNCHANGED agentVars) \/ AgentGone \/ Kills))
  \/ active = "ui" /\ i = 3 /\ ((AgentReads /\ UNCHANGED <<backendVars, relay, activePrompts, inputOpen, answered>>))
  \/ active = "configuration" /\ i = 1 /\ RuntimeSteps
  \/ active = "acptasks" /\ i = 1 /\ TaskDispatcherSteps
  \/ active = "acptasks" /\ i = 2 /\ (1 \in DOMAIN runs /\ runs[1].told /\ TaskStreamEnds(1))
  \/ active = "acptasks" /\ i = 3 /\ (2 \in DOMAIN runs /\ runs[2].told /\ TaskStreamEnds(2))
  \/ active = "catalog" /\ i = 1 /\ ShutdownSteps
  \/ active = "catalog" /\ i = 2 /\ (1 \in DOMAIN workers /\ ListWorkerSteps(1))
  \/ active = "catalog" /\ i = 3 /\ (2 \in DOMAIN workers /\ ListWorkerSteps(2))
  \/ active = "code" /\ i = 1 /\ WorkerSteps
  \/ active = "code" /\ i = 2 /\ DeadlinePasses
  \/ active = "orchestrator" /\ i = 1 /\ (1 \in DOMAIN waves /\ (WaveSteps(1) \/ \E n \in Working(1) : TimeRunsOut(1, n)))
  \/ active = "provider" /\ i = 1 /\ DriverSteps
  \/ active = "provider" /\ i = 2 /\ Expire
  \/ active = "cli" /\ i = 1 /\ CliSteps

StrongThread(i) ==
  \/ active = "resources" /\ i = 1 /\ Retry
  \/ active = "resources" /\ i = 2 /\ ResReads(o1)
  \/ active = "resources" /\ i = 3 /\ ResReads(o2)
  \/ active = "release" /\ i = 1 /\ SomeRelease
  \/ active = "release" /\ i = 2 /\ ManageBegins
  \/ active = "acpconnection" /\ i = 1 /\ AcpDispatcherSteps
  \/ active = "acpconnection" /\ i = 2 /\ ((\E t \in PromptTask : TaskSteps(t)))
  \/ active = "acpconnection" /\ i = 3 /\ ((\E t \in PromptTask : AcpRunEnds(t)))
  \/ active = "rpc" /\ i = 1 /\ (rpcStopper.at # "none" /\ ToolSteps)
  \/ active = "rpc" /\ i = 2 /\ (\E c \in Peer : HandlerSteps(c))
  \/ active = "configuration" /\ i = 1 /\ SetGates
  \/ active = "configuration" /\ i = 2 /\ SetSteps
  \/ active = "configuration" /\ i = 3 /\ ForwardSteps
  \/ active = "acptasks" /\ i = 1 /\ (1 \in DOMAIN runs /\ (CoreEnds(1) \/ FrameBegins(1) \/ FrameFails(1) \/ ListGivesUp(1)))
  \/ active = "acptasks" /\ i = 2 /\ (2 \in DOMAIN runs /\ (CoreEnds(2) \/ FrameBegins(2) \/ FrameFails(2) \/ ListGivesUp(2)))

\* The variables of the component that runs.
activeVars ==
  CASE active = "resources" -> resVars
    [] active = "bridge" -> bridgeVars
    [] active = "release" -> relVars
    [] active = "connections" -> mcpVars
    [] active = "stdio" -> stdioVars
    [] active = "goal" -> goalVars
    [] active = "projection" -> projVars
    [] active = "im" -> imVars
    [] active = "acpconnection" -> connVars
    [] active = "acpprompt" -> promptVars
    [] active = "rpc" -> rpcVars
    [] active = "http" -> httpVars
    [] active = "ui" -> uiVars
    [] active = "configuration" -> configVars
    [] active = "acptasks" -> acpTaskVars
    [] active = "catalog" -> catalogVars
    [] active = "code" -> codeVars
    [] active = "orchestrator" -> graphVars
    [] active = "provider" -> providerStreamVars
    [] active = "cli" -> cliVars

Spec ==
  /\ Init /\ [][Next]_vars
  /\ \A i \in 1..3 : WF_activeVars(UNCHANGED active /\ WeakThread(i))
  /\ \A i \in 1..3 : SF_activeVars(UNCHANGED active /\ StrongThread(i))

(* What is owed, and when it is met, by component and number.                *)
StopOwed(i) ==
  \/ active = "bridge" /\ i = 1 /\ BridgeOwed
  \/ active = "release" /\ i = 1 /\ OwnerOwed("release")
  \/ active = "release" /\ i = 2 /\ OwnerOwed("manage")
  \/ active = "connections" /\ i = 1 /\ CloseOwed(c1)
  \/ active = "connections" /\ i = 2 /\ CloseOwed(c2)
  \/ active = "im" /\ i = 1 /\ ImStopOwed
  \/ active = "acpconnection" /\ i = 1 /\ ConnectionOwed
  \/ active = "rpc" /\ i = 1 /\ RpcStopOwed
  \/ active = "http" /\ i = 1 /\ ShutdownOwed
  \/ active = "ui" /\ i = 1 /\ RelayStopOwed
  \/ active = "acptasks" /\ i = 1 /\ HangUpOwed
  \/ active = "catalog" /\ i = 1 /\ CatalogCloseOwed
StopMet(i) ==
  \/ active = "bridge" /\ i = 1 /\ BridgeMet
  \/ active = "release" /\ i = 1 /\ OwnerMet("release")
  \/ active = "release" /\ i = 2 /\ OwnerMet("manage")
  \/ active = "connections" /\ i = 1 /\ CloseMet(c1)
  \/ active = "connections" /\ i = 2 /\ CloseMet(c2)
  \/ active = "im" /\ i = 1 /\ ImStopMet
  \/ active = "acpconnection" /\ i = 1 /\ ConnectionMet
  \/ active = "rpc" /\ i = 1 /\ RpcStopMet
  \/ active = "http" /\ i = 1 /\ ShutdownMet
  \/ active = "ui" /\ i = 1 /\ RelayStopMet
  \/ active = "acptasks" /\ i = 1 /\ HangUpMet
  \/ active = "catalog" /\ i = 1 /\ CatalogCloseMet

\* Whatever is told to stop, to close or to let go does so in the end: the tool
\* bridge, the MCP callers, the web server, the message adapter, the JSONL server,
\* the plugin relay, the ACP connection and its tasks, the session catalog, and the
\* owner of a release or of a managed change.
EveryStopReturns == \A i \in 1..2 : StopOwed(i) ~> StopMet(i)

RequestOwed(i) ==
  \/ active = "resources" /\ i = 1 /\ WaitingOwed
  \/ active = "bridge" /\ i = 1 /\ AnswerOwed(1)
  \/ active = "bridge" /\ i = 2 /\ AnswerOwed(2)
  \/ active = "stdio" /\ i = 1 /\ WriteOwed
  \/ active = "goal" /\ i = 1 /\ NoticeOwed(1)
  \/ active = "projection" /\ i = 1 /\ CommitOwed
  \/ active = "acpprompt" /\ i = 1 /\ (\E d \in Dlg : QuestionOwed(d))
  \/ active = "http" /\ i = 1 /\ (\E s \in EventStream : RevokedOwed(s))
  \/ active = "configuration" /\ i = 1 /\ ModelOwed
  \/ active = "code" /\ i = 1 /\ CodeOwed
  \/ active = "orchestrator" /\ i = 1 /\ WaveOwed(1)
  \/ active = "provider" /\ i = 1 /\ ResponseOwed
  \/ active = "cli" /\ i = 1 /\ CliJobOwed
RequestMet(i) ==
  \/ active = "resources" /\ i = 1 /\ WaitingMet
  \/ active = "bridge" /\ i = 1 /\ AnswerMet(1)
  \/ active = "bridge" /\ i = 2 /\ AnswerMet(2)
  \/ active = "stdio" /\ i = 1 /\ WriteMet
  \/ active = "goal" /\ i = 1 /\ NoticeMet(1)
  \/ active = "projection" /\ i = 1 /\ CommitMet
  \/ active = "acpprompt" /\ i = 1 /\ (\A d \in Dlg : QuestionMet(d))
  \/ active = "http" /\ i = 1 /\ (\A s \in EventStream : RevokedMet(s))
  \/ active = "configuration" /\ i = 1 /\ ModelMet
  \/ active = "code" /\ i = 1 /\ CodeMet
  \/ active = "orchestrator" /\ i = 1 /\ WaveMet(1)
  \/ active = "provider" /\ i = 1 /\ ResponseMet
  \/ active = "cli" /\ i = 1 /\ CliJobMet

\* Whatever was begun comes to its end: a waiting resource change, a call of a
\* tool, a line to a server, a goal's notice, a question, a revoked stream, a
\* program, an orchestrator's wave, a model response, a command line job, a commit that
\* the projection has yet to show, a model that the client has yet to see.
EveryRequestEnds == \A i \in 1..2 : RequestOwed(i) ~> RequestMet(i)

\* What the model server may send in one chunk.
ChunkOf(p, s, f, u) == [part |-> p, sign |-> s, finish |-> f, usage |-> u]
FullUsage == [prompt |-> 3, cache |-> 1]
CacheUsage == [prompt |-> Absent, cache |-> 2]
ProviderChunks ==
  {ChunkOf(p, FALSE, FALSE, NoUsage) : p \in {"text", "thought", "call"}}
    \cup {ChunkOf(p, TRUE, FALSE, NoUsage) : p \in {"mark", "none"}}
    \cup {ChunkOf("text", FALSE, TRUE, FullUsage), ChunkOf("call", TRUE, TRUE, NoUsage),
          ChunkOf("none", FALSE, FALSE, CacheUsage)}

=============================================================================
