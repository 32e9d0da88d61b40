----------------------------- MODULE MCAdapters -----------------------------
(* The clients and transports around the service (MCP, ACP, JSONL server,     *)
(* HTTP, user interface plugins), each on a small instance. They share no     *)
(* state with one another here, so one run checks them side by side: every    *)
(* behaviour is one component's.                                              *)
EXTENDS McpConnections, McpSubscriptions, McpTransports, RpcServer,
        PluginServers, AcpConnection, AcpRequests

VARIABLE active   \* the component whose steps this behaviour is made of

Components == {"connections", "subscriptions", "stdio", "mcphttp", "sse", "rpc",
               "http", "ui", "acpconnection", "acpprompt",
               "acptasks"}

\* The members of these sets play equal parts; one component's at a time do
\* anything, so that one permutation, of all the sets at once, is enough.
AllOrNone(f) == \/ \A x \in DOMAIN f : f[x] = x
                \/ \A x \in DOMAIN f : f[x] # x
Symmetry == {f \in {a @@ b @@ c @@ d @@ e @@ g @@ h :
                      a \in Permutations(Peer), b \in Permutations(Caller),
                      c \in Permutations(User), d \in Permutations(SubBatch),
                      e \in Permutations(AcpId), g \in Permutations(Dlg),
                      h \in Permutations(TaskSession)} : AllOrNone(f)}

\* A component that does not run starts in one of its initial states only.
Init ==
  /\ active \in Components
  /\ IF active = "connections" THEN TRUE ELSE keyKind = "legacy"
  /\ McpInit
  /\ SubsInit
  /\ StdioInit
  /\ McpHttpInit
  /\ active = "mcphttp" \/ (~transport.configured)
  /\ SseInit
  /\ RpcInit
  /\ active = "rpc" \/ (~token)
  /\ HttpInit
  /\ active = "http" \/ (~password)
  /\ UiInit
  /\ IF active = "acpconnection" THEN TRUE ELSE saved = {}
  /\ ConnectionInit
  /\ IF active = "acpprompt" THEN TRUE ELSE runEvents = <<>>
  /\ PromptInit
  /\ TasksInit

OthersRest ==
  /\ UNCHANGED active
  /\ IF active = "connections" THEN TRUE ELSE UNCHANGED mcpVars
  /\ IF active = "subscriptions" THEN TRUE ELSE UNCHANGED subVars
  /\ IF active = "stdio" THEN TRUE ELSE UNCHANGED stdioVars
  /\ IF active = "mcphttp" THEN TRUE ELSE UNCHANGED mcpHttpVars
  /\ IF active = "sse" THEN TRUE ELSE UNCHANGED sseVars
  /\ IF active = "rpc" THEN TRUE ELSE UNCHANGED rpcVars
  /\ IF active = "http" THEN TRUE ELSE UNCHANGED httpVars
  /\ IF active = "ui" THEN TRUE ELSE UNCHANGED uiVars
  /\ IF active = "acpconnection" THEN TRUE ELSE UNCHANGED connVars
  /\ IF active = "acpprompt" THEN TRUE ELSE UNCHANGED promptVars
  /\ IF active = "acptasks" THEN TRUE ELSE UNCHANGED acpTaskVars

Next ==
  /\ \/ active = "connections" /\ McpNext
     \/ active = "subscriptions" /\ SubsNext
     \/ active = "stdio" /\ StdioNext
     \/ active = "mcphttp" /\ McpHttpNext
     \/ active = "sse" /\ SseNext
     \/ active = "rpc" /\ RpcNext
     \/ active = "http" /\ HttpNext
     \/ active = "ui" /\ UiNext
     \/ active = "acpconnection" /\ ConnectionNext
     \/ active = "acpprompt" /\ PromptNext
     \/ active = "acptasks" /\ TasksNext
  /\ OthersRest

\* MCP: a call runs on a connection of its own target and settings, no
\* connection or dispatcher is orphaned, pending updates belong to the current
\* subscription and only the newest is retried, a message is sent in the
\* session the server named, a session is given back, a cancellation is
\* announced, and the decoder reads the stream as it was sent.
McpIsOrderly ==
  /\ active = "connections" => /\ CallsAdmitted
                               /\ NoOrphan
                               /\ DispatcherOwn
  /\ active = "subscriptions" => /\ PendingCurrent
                                 /\ NewestRetried
                                 /\ MarkedIsSubscribed
  /\ active = "mcphttp" => /\ SpeaksInSession
                           /\ SessionGivenBack
                           /\ CancelsAnnounced
  /\ active = "sse" => DecodesTheStream

\* The adapters: children are kept while a client may use them and killed at
\* the stop, answers match their requests, nothing is skipped in silence; an
\* agent, task, stream or dialog does not outlive its connection, session or
\* prompt, and after a torn frame or a close nothing more is written.
AdaptersLeaveNothing ==
  /\ active = "rpc" => /\ ChildIsKept
                       /\ StopKillsTracked
                       /\ AnswersMatch
                       /\ NoSilentSkip
  /\ active = "http" => EndedIsClean
  /\ active = "ui" => /\ EofFollowsCancel
                      /\ RelayLeavesNoAgent
                      /\ OpenIsKnown
  /\ active = "acpconnection" => /\ NothingLeftBehind
                                 /\ ClosedIsQuiet
                                 /\ AnsweredOnce
                                 /\ TornIsLast
  /\ active = "acpprompt" => /\ AllowedWasPermitted
                             /\ PromptLeavesNothing
                             /\ OutcomeIsOwn
  /\ active = "acptasks" => /\ ClosedIsSilent
                            /\ StreamHasEntry

\* What a step may never do: drop a fresh subscription update, publish to a
\* stream whose login was revoked, or let a cancelled prompt allow a tool.
NothingAfterTheEnd ==
  /\ FreshSurvives
  /\ RevokedIsQuiet
  /\ CancelledAllowsNothing
=============================================================================
