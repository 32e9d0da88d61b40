----------------------------- MODULE MCServices -----------------------------
(* The parts of the session service (rpi-extcore) beside the host and the     *)
(* model providers, each on a small instance. They share no state with one    *)
(* another here, so one run checks them side by side: every behaviour is one  *)
(* component's.                                                               *)
EXTENDS ResourceTransition, CallBridge, IdleRelease, DurableProjection,
        ChildStream, Configuration, Transcript, Catalogs, RunTimings,
        NativeCli, ProviderStream, ProviderAccess, ServiceProofs

VARIABLE active   \* the component whose steps this behaviour is made of

Components == {"resources", "bridge", "release", "projection", "children",
               "configuration", "history", "catalog", "timings",
               "message", "projects", "cli", "provider", "logins",
               "tokens"}

\* The members of these sets play equal parts; one component's at a time do
\* anything, so that one permutation, of all the sets at once, is enough.
AllOrNone(f) == \/ \A x \in DOMAIN f : f[x] = x
                \/ \A x \in DOMAIN f : f[x] # x
Symmetry == {f \in {a @@ b @@ c @@ d :
                      a \in Permutations(ProgramChild), b \in Permutations(Adapters),
                      c \in Permutations(ListCaller), d \in Permutations(Account)} :
                AllOrNone(f)}

\* A component that does not run starts in one of its initial states only.
Init ==
  /\ active \in Components
  /\ ResInit
  /\ active = "resources" \/ (known = NoRecord /\ ~faults.linger)
  /\ IF active = "bridge" THEN TRUE ELSE kind = "tools"
  /\ BridgeInit
  /\ ReleaseInit
  /\ ProjectionInit
  /\ active = "projection" \/ (commits = 0 /\ client.after = 0)
  /\ ChildInit
  /\ IF active = "configuration" THEN TRUE ELSE nativeModel = CHOOSE m \in Model : TRUE
  /\ ConfigInit
  /\ HistoryInit
  /\ active = "history" \/ (~paged /\ parents = <<>>)
  /\ CatalogInit
  /\ TimingInit
  /\ TextInit
  /\ active = "message" \/ (~withIds)
  /\ IF active = "projects" THEN TRUE ELSE folders = Folder \cap Configured
  /\ ProjectsInit
  /\ CliInit
  /\ active = "cli" \/ (history.lockFile)
  /\ StreamInit
  /\ LoginInit
  /\ TokenInit

OthersRest ==
  /\ UNCHANGED active
  /\ IF active = "resources" THEN TRUE ELSE UNCHANGED resVars
  /\ IF active = "bridge" THEN TRUE ELSE UNCHANGED bridgeVars
  /\ IF active = "release" THEN TRUE ELSE UNCHANGED relVars
  /\ IF active = "projection" THEN TRUE ELSE UNCHANGED projVars
  /\ IF active = "children" THEN TRUE ELSE UNCHANGED childVars
  /\ IF active = "configuration" THEN TRUE ELSE UNCHANGED configVars
  /\ IF active = "history" THEN TRUE ELSE UNCHANGED historyVars
  /\ IF active = "catalog" THEN TRUE ELSE UNCHANGED catalogVars
  /\ IF active = "timings" THEN TRUE ELSE UNCHANGED timingVars
  /\ IF active = "message" THEN TRUE ELSE UNCHANGED messageVars
  /\ IF active = "projects" THEN TRUE ELSE UNCHANGED projectVars
  /\ IF active = "cli" THEN TRUE ELSE UNCHANGED cliVars
  /\ IF active = "provider" THEN TRUE ELSE UNCHANGED providerStreamVars
  /\ IF active = "logins" THEN TRUE ELSE UNCHANGED loginVars
  /\ IF active = "tokens" THEN TRUE ELSE UNCHANGED tokenVars

Next ==
  /\ \/ active = "resources" /\ ResNext
     \/ active = "bridge" /\ BridgeNext
     \/ active = "release" /\ ReleaseNext
     \/ active = "projection" /\ ProjectionNext
     \/ active = "children" /\ ChildNext
     \/ active = "configuration" /\ ConfigNext
     \/ active = "history" /\ HistoryNext
     \/ active = "catalog" /\ CatalogNext
     \/ active = "timings" /\ TimingNext
     \/ active = "message" /\ TextNext
     \/ active = "projects" /\ ProjectsNext
     \/ active = "cli" /\ CliNext
     \/ active = "provider" /\ StreamNext
     \/ active = "logins" /\ LoginNext
     \/ active = "tokens" /\ TokenNext
  /\ OthersRest

\* What the model server may send in one chunk.
ChunkOf(p, s, f, u) == [part |-> p, sign |-> s, finish |-> f, usage |-> u]
FullUsage == [prompt |-> 3, cache |-> 1]
CacheUsage == [prompt |-> Absent, cache |-> 2]
ProviderChunks ==
  {ChunkOf(p, FALSE, FALSE, NoUsage) : p \in {"text", "thought", "call"}}
    \cup {ChunkOf(p, TRUE, FALSE, NoUsage) : p \in {"mark", "none"}}
    \cup {ChunkOf("text", FALSE, TRUE, FullUsage), ChunkOf("call", TRUE, TRUE, NoUsage),
          ChunkOf("none", FALSE, FALSE, CacheUsage)}


\* What the service starts and what it records agree. A resource change is
\* durable before a native sees it and only a live, verified one is applied; a
\* session has one child, a retired one none that works; a bridge answers only
\* open requests from the definitions of its owner; a command line job leaves
\* no file, process or stale lease behind.
NativeIsAccountedFor ==
  /\ active = "resources" => /\ WriteAhead
                             /\ AppliedIsBound
                             /\ SupersededUncommitted
                             /\ NeverRejected
                             /\ OneChild
                             /\ RetiredIdle
  /\ active = "bridge" => /\ DefinitionsOwned
                          /\ FilesNeverOverflow
  /\ active = "release" => /\ CaptureIsLast
                           /\ OneChildPerSession
  /\ active = "cli" => /\ NoJobLeftBehind
                       /\ LeaseIsCurrent

\* What a reader is shown is what the session's branch holds: no commit, phase
\* or entry is missed or shown twice, a resynchronisation has a cause, a page
\* keeps its order, and no worker or poller outlives its limit.
ReadersSeeTheBranch ==
  /\ active = "projection" => NothingMissed
  /\ active = "children" => /\ UpdateOfTheBranch
                            /\ NoPhaseSkipped
                            /\ ResyncHasCause
  /\ active = "configuration" => /\ OnePoller
                                 /\ SnapshotAgrees
  /\ active = "history" => /\ NeverTwice
                           /\ TranscriptFollows
  /\ active = "catalog" => /\ ThreadsBounded
                           /\ BusyHasWorker
                           /\ ListedInOrder
                           /\ ShutdownIsClean
  /\ active = "message" => /\ ReplyIsWhole
                           /\ ReplyIsExact
                           /\ LiveIsMessage
  /\ active = "projects" => CatalogIsDurable

\* A model's answer is rebuilt whole from its stream, signed and counted once,
\* and a job's output is whole; a login is redeemed once, by its own callback,
\* and a request runs in the project of its own account.
AnswersAreWhole ==
  /\ active = "cli" => AnswerIsWhole
  /\ active = "provider" => /\ EventsRebuild
                            /\ SignedOnce
                            /\ DoneIsWhole
                            /\ TimeoutOnlyBefore
                            /\ PromptCountedOnce
  /\ active = "logins" => /\ LoginUsedOnce
                          /\ CallbackIsOwn
  /\ active = "tokens" => /\ RequestIsOwn
                          /\ OneLookup

\* What a step may never do: skip a child in a release, move a projection or a
\* client's view backwards, answer a call that was closed, prepare another
\* branch than the session's, mix two transcripts or lose a run's timing,
\* forget an archive mark, finish a cancelled response, consume a login for a
\* rejected code, or rebind a token.
NothingGoesBack ==
  /\ ReleaseComplete
  /\ ProjectionForward
  /\ AnswersOpen
  /\ PreparedIsBranch
  /\ ViewNeverGoesBack
  /\ OneTranscript
  /\ TimingsExact
  /\ ArchiveIsKept
  /\ CancelledNeverDone
  /\ RejectedTakesNothing
  /\ BindingKept

-----------------------------------------------------------------------------
(* The group is proved about as it is checked.                                *)

\* The variables of the group, and its steps.
serviceVars == <<active, resVars, bridgeVars, relVars, projVars, childVars, configVars,
                 historyVars, catalogVars, timingVars, messageVars, projectVars, cliVars,
                 providerStreamVars, loginVars, tokenVars>>
Services == Init /\ [][Next]_serviceVars

\* The parts of the service that start native processes account for every one
\* of them, side by side: the four components' promises hold in their group.
THEOREM NativeAccounted == Services => []NativeIsAccountedFor
<1> DEFINE All == ResInv /\ BridgeInv /\ RelInv /\ CliInv
<1>1. Init => All
  BY TransitionsStart, BridgeStarts, ReleaseStarts, CliStarts DEF Init
<1>2. [Next]_serviceVars =>
        [ResNext]_resVars /\ [BridgeNext]_bridgeVars /\ [ReleaseNext]_relVars /\ [CliNext]_cliVars
  <2>1. Next => [ResNext]_resVars
    BY DEF Next, OthersRest
  <2>2. Next => [BridgeNext]_bridgeVars
    BY DEF Next, OthersRest
  <2>3. Next => [ReleaseNext]_relVars
    BY DEF Next, OthersRest
  <2>4. Next => [CliNext]_cliVars
    BY DEF Next, OthersRest
  <2>5. UNCHANGED serviceVars => UNCHANGED <<resVars, bridgeVars, relVars, cliVars>>
    BY DEF serviceVars
  <2> QED BY <2>1, <2>2, <2>3, <2>4, <2>5
<1>3. All /\ [Next]_serviceVars => All'
  BY <1>2, TransitionsStay, BridgeStays, ReleaseStays, CliStays
<1>4. All => NativeIsAccountedFor
  <2>1. ResInv => /\ WriteAhead /\ AppliedIsBound /\ SupersededUncommitted
                  /\ NeverRejected /\ OneChild /\ RetiredIdle
    BY TransitionsSafe
  <2>2. BridgeInv => DefinitionsOwned /\ FilesNeverOverflow
    BY DEF BridgeInv, Owned
  <2>3. RelInv => CaptureIsLast /\ OneChildPerSession
    BY DEF RelInv, HostsKnown, RelTyped, OneChildPerSession
  <2>4. CliInv => NoJobLeftBehind /\ LeaseIsCurrent
    BY DEF CliInv, AnswerCurrent, LockHeld
  <2> QED BY <2>1, <2>2, <2>3, <2>4 DEF NativeIsAccountedFor
<1> QED BY <1>1, <1>3, <1>4, PTL DEF Services
=============================================================================
