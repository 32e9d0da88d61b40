# rpi-packages in TLA+

This directory is the verification project of the rpi package repository: TLA+ modules of
its stateful parts, instances that TLC checks, and theorems that TLAPS proves for every
value of the constants. `PROJECT.json` lists components, runs, mutated forms, the map from
the main definitions to source lines, hazards and theorems.

## 1. The system and its parts

The repository is a Rust workspace of about thirty packages around the external agent
`rpi`. `packages/rpi-extcore` owns native agent processes on behalf of every protocol
adapter; the adapters (HTTP/web, ACP, JSON lines, UI relay) and the MCP core connect it to
the outside; the remaining packages are plugins that run inside the agent.

    Browser - rpi-web - rpi-http --.
                                    >-- rpi-extcore -- rpi --mode rpc (native child)
    Editor  --------- rpi-acp -----'                      |
    TCP client ------ rpi-server --- rpi --mode rpc        '-- plugins: goal, plan, todo,
                                                              ask-user, codemode, edit,
    MCP servers ----- rpi-mcp-core (stdio, HTTP) -----------  orchestrator, durable, voice,
    model service --- rpi-providers ------------------------  im-message, langfuse, ...

| Part | State | What is hard |
| --- | --- | --- |
| Host session, commands (`rpi-extcore/src/host.rs`, `host/admission.rs`, `run.rs`) | command channel, correlation map, run lease, admission gate, the one execution intent | a caller that times out while the writer publishes its intent; idleness proved in several steps; runs the native begins itself |
| Host session, events (`host.rs`, `events.rs`) | sequence counter, status and dialogs, bounded history, broadcast | two publishers, tasks aborted inside a publication, two limits, cursors that outlive their host |
| Service, registry, deletion (`service.rs`, `registry.rs`, `deletion.rs`) | session map, lifecycle mutex, registry in memory and on disk, deletion plans | crash between any two steps, saves that fail before or after their rename, removals that fail half-way |
| Resource transitions, idle release, native command line (`resources*`, `service/resources.rs`, `host/resources.rs`) | operation ledger, fences, candidate processes, process tree and files of a job | crash and retry of a half-done transition, exits never confirmed, a child that outlives its deadline |
| Bridges (`external_tools.rs`, `file_io.rs`) | active calls, queue, supervisor | settlement against closure and reuse of an id |
| Projections and queries (`service/tool_program_*`, `history`, `message`, `session_catalog*`, `run_timing.rs`, `configuration.rs`, `workspace/`) | cursors, budgets, revisions, one poller | reads in several steps of something the native changes meanwhile |
| HTTP, web, UI relay, ACP, JSON-lines adapters | connections, logins, tasks, queues | disconnects, cancellation, half-written frames, stop |
| MCP core | connections, generations, subscriptions, transports | stale generations, batches retried after newer updates, joins of blocked threads |
| Providers | streamed answer, logins, tokens | chunk boundaries, cancellation, two logins at once |
| Plugins | small persistent states, task graph, journal, audio and message turns | branch moves, restarts, failed writes, concurrent tool calls |

How they interact: adapters call the service. A request that changes a session runs as a
retained task (a cancelled HTTP request does not cancel it) and holds `session_lifecycle`
to its end; a command takes no service lock and goes straight to its `HostSession`. A host
owns its child through two pipes and two tasks: the writer sends queued commands, the
reader observes frames, settles the intent, resolves waiting requests and publishes events
to state, history and broadcast. Clients read a snapshot and follow the stream from its
cursor. Plugins keep their state in entries of the session's branch, which the user may
move, and are called by the agent's thread, by commands and by threads of their own.

What makes each part correct is the list of properties in section 3; what can go wrong is
in `PROJECT.json` under `hazards`, at the lines where it bites.

## 2. Modules

In every module the state is the code's state, an action is what one thread or task does
between two points where another may act (an await, a lock released, a call to the host),
and the external side (the native agent, a server, a user, a file system) is a set of
actions that may do anything the interface allows, marked external in the map.

### The core

**HostAdmission.** One hosted session: callers, the command channel, the writer, the
native, the reader and `shutdown_if_idle`. `intent`, `nativeUnsettled` and `nativeRun` are
the fields of `ExecutionAdmission`; `Observe` is `observe`, `Rollback` the drop of a
ticket, `caller` the position of a task in `send_timeout`/`notify`, `retire` the position
in `shutdown_if_idle`. A command is a model value with a kind (prompt, compaction, steer,
probe), submitted once, as its id is a fresh UUID.

**HostEvents.** `publish` in the three steps it makes (number; state under its lock;
history under its lock and broadcast) by two publishers, the reader and `finish`; a client
that takes either kind of snapshot, subscribes (receiver first, history copy second),
replays, receives or lags, disconnects and returns with its cursor; a session reopened on
a new host, where numbering starts over. `Bridged` says whether a bridge may call
`fail_closed`, which starts `finish` beside the reader.

**SessionLifecycle** and **SessionRetention.** The service, the registry and deletion
composed: `lifecycle` is the mutex, `mem` and `disk` the registry, `host` the host slots
with their native child, `lock` the native `.lock` of a transcript, `files` the fingerprint
of every file of a history (the number of the write that produced it, so "unchanged since
captured" is equality, as in the code). A save is done, failed with the old file, or failed
with the new file already renamed into place (`SyncFails`). A crash keeps the disk, drops
tasks and locks and leaves children behind as orphans. `SessionRetention` is the abstract
specification: a session is absent, kept, archived or deleting; files are erased only while
it is deleting and only those the deletion captured; it is forgotten only when none of them
is left. `KeepsPromise` is the refinement, with the mapping at the end of
`SessionLifecycle`.

`Configured` names the sessions created with resources: `Configure` saves their entry before
a host is started, so a create that fails later leaves the session remembered.

Abstracted there: clocks of the reaper; what a resource operation does to `open` (it may be
refused for a configured session, `record.blocked()`; `ResourceTransition` has the rest); a fork's id is chosen when it starts; titles, tags
and pins are saves that change nothing a property looks at; the semaphore that bounds
retirements is subsumed by the mutex.

The theorems about the core are in modules of their own: `HostAdmissionProofs`,
`HostEventsProofs` and `SessionLifecycleProofs` (types and locks, what each handler does,
field by field, then registry, deletion, refinement and writers). Section 5 says what they
show.

### The service beside the host, and the providers (run `services`)

| Module | Models |
| --- | --- |
| `ResourceTransition` | one configured session's transitions: the ledger on disk, the binding in the native's file, fence, retirement, candidate, verification, over failing saves, unconfirmed exits and crashes |
| `CallBridge` | both bridges: configuration transaction, the native's pipe of requests and closures and their routing, workers and their panics, answers through the writer, overflow, the supervisor's shutdown |
| `IdleRelease` | `release_idle_resources` and the managed change over several hosts: fence all, capture all, retire all, await exits; a capture that cannot be saved latches its session |
| `NativeCli` | a job of the native command line: three runs, files, deadline, output limit, process tree, the shared lock of a saved read |
| `DurableProjection` | the service's projection of the durable journal and its subscribers |
| `ChildStream` | the live subscription to tool-program children: snapshot, replay, proof of each event against the branch |
| `Configuration` | the poller, setters and forwarder of `ConfigurationRuntime` with the ACP adapter |
| `Transcript` | history pages under the run lease; the text of a message from deltas, snapshots and final text |
| `Catalogs` | generations and cursors of saved sessions with their workers; the catalog of projects with its saves |
| `RunTimings` | the incremental scan of a transcript that grows, restarts and may be replaced |
| `ProviderStream`, `ProviderAccess` | an SSE answer to events and back to a message; logins, tokens, projects |

`ServiceProofs` holds the theorems about the first four, the ones that start and stop
processes; `MCServices` carries them over to the group.

### Adapters (run `adapters`)

`McpConnections`, `McpSubscriptions` and `McpTransports` (registry entries and generations;
tokens, pushed updates and delivery batches; stdio threads, HTTP exchanges, the event
stream decoder), `RpcServer` (the JSON-lines server), `PluginServers` (HTTP service with
logins and streams, UI relay), `AcpConnection` and `AcpRequests` (ingress, dispatcher,
prompt tasks, watchers, one output; dialogs, child queries, subscriptions, lists).

`AcpProofs` holds the theorems about the two ACP modules, `AdapterProofs` those about the
server, the HTTP service, the relay and the subscriptions, and about the group.

### Packages (run `packages`)

`ImMessage`, `Goal`, `Todo`, `PlanMode`, `AskUser`, `Langfuse`, `Voice` (floor, spoken
reply, recorder), `Durable`, `CodeMode`, `Orchestrator`, `Edit` (matching and applying,
display diff, locks and replacement) and `Permissions` (patterns, store, gate). Each module
header says what its actors are.

### Groups

`MCServices`, `MCAdapters`, `MCPackages` and `MCProgress` put these components side by
side: `active` is chosen initially and only that component moves, the others rest in one
fixed state. They share no state with one another in the code paths modelled, so their
product would add interleavings and no behaviour; the group is a way to check many
instances in one run, not a claim about composition. The invariants of a group are
conjunctions `active = "x" => ...` of invariants that the component's own module defines
and comments. Components that do interact are composed in one module (the service with the
registry and deletion; the ACP connection with its tasks; the configuration runtime with
its adapter; the edit tool with its locks).

## 3. Runs

Distinct states in parentheses. Each property of a run that passes has a mutated form of the
code, in `PROJECT.json`, that violates it under the same configuration.

| Run | What it shows |
| --- | --- |
| `admission_exec` (2,240,085) | A prompt beside a compaction and a run the native begins by itself, and a prompt beside a steering message and a retirement with its probes, over a channel of one, with timeouts, cancellation, fail-closed and exit: `ExecutionCovered` (a written execution stays covered by its intent until its last frame), `NotifiedCovered`, `RetiredQuiet` (a retirement closes only when nothing admitted is in flight), `ReleasedUnlessMisbound` (only a compaction bound to a foreign run leaves its intent behind), `OnlyOwnFrameSettles`, `TypeOK`. |
| `admission_live` (69,869) | Under fairness, for a prompt against a retirement, a prompt beside a native-begun run, and a compaction: `IntentSettles`, `EveryCallReturns`. |
| `admission_claim` (violated) | A compaction beside a native-begun run: `SettlementReleases`, that every observed settlement releases its intent, as the README of `rpi-extcore` has it (435-447), is false of the code (section 6). |
| `events_follow` (43,769) | One client, one host: `NoGap`, `NoOverlap`, `BoundaryQuiet`, `ClosedLast`, and `CatchesUp` under fairness. |
| `events_end` (561,092) | Two hosts with a bridge, two dialogs: `DialogsAgree`, `TerminateCloses`, `TypeOK`. |
| `service_open` (1,186,608) | Two workers, two sessions, one of them created with resources, two host slots: `SingleWriter`, `NoRetiredWriter`, `DurableFollows`, `ShutdownLeavesNone`, `LiveRemembered`, `TypeOK`. |
| `service_delete` (35,922) | One session, an outsider, an unconfirmed stop, a crash, two files: `DeletionFinal`, `IntentFirst`, `RetainedUntilGone`, and `DeletionEnds` under fairness. |
| `service_promise` (471,345) | Two sessions, room for one intent, failing saves, a crash: `KeepsPromise`, `LoadAccepts`. |
| `services` (908,002) | `NativeIsAccountedFor` (what is started is stopped, recorded, or still owned: transitions, bridges, idle release, native command line), `ReadersSeeTheBranch` (projection, children, configuration, history, catalogs, timings), `AnswersAreWhole` (message text, projects on disk, provider events, logins, tokens), `NothingGoesBack` (steps). |
| `adapters` (746,144) | `McpIsOrderly`, `AdaptersLeaveNothing`, `NothingAfterTheEnd` (steps: nothing is written, delivered or allowed after a close, cancel or end). |
| `packages` (824,095) | `StateIsOneStory` (what is in memory, persisted and told agree), `FilesAndRulesHold` (edits exact, files whole, rules kept, a held call runs only when this call was allowed), `StepsKeepTheirWord`. |
| `progress` (97,844) | Under fairness, twenty components: `EveryStopReturns`, `EveryRequestEnds`. |

Bounds and why they are enough. `Workloads` lists the sets of commands and native-begun runs
that occur together in one behaviour. There is one intent per host, so a second execution is
what can displace it, and a foreign run what can be taken for it; a channel of one is full as
soon as one command waits. Two history and two
broadcast slots (512 in the code) are overrun by three events; the follow run publishes
five. Clients do not interact. Service requests hold the mutex, so two workers give every
pair of holder and waiter; two host slots are what a second writer needs; a file and a
companion give every half-done removal; one crash puts a restart between any two steps.
In the groups, limits of the code (queues, pending updates, pages, parallel calls) are one
or two so that they are met, `Max...` constants that have no counterpart in the code bound
faults, requests and environment events, and there are two of whatever can collide: two
callers, two logins, two dialogs, two processes, two edits of a file, two requests of a bridge (under
one identity or two in `services`, under one in `progress`, where they are one use and one
reuse). An edit meets two faults, so that the removal of its temporary file can fail after the
rename did. A ledger has three
operations, so that one is superseded after another was applied. `Generation` and
`HistorySize` number versions. A recursion over text (matching, diff, patterns, chunks) is
checked against a reference definition over every text up to the bound.

`service_open`, `service_promise`, `services` and `adapters` use symmetry: hosts, callers,
peers, dialogs, logins and the like play equal parts in the initial states, in every step and
in every property, and no liveness is checked there. In the two groups one component moves in
each behaviour, so one permutation, which exchanges the two members of every such set at
once, is enough. `progress` checks liveness and uses none.

Deadlock is checked only for `HostAdmission`, which has an explicit `Terminated` step;
everything else really stops: services shut down, servers end, a bounded number of requests
is used up. That nobody waits for ever is what the liveness properties say.

## 4. Fairness

`HostAdmission`: weak fairness of each task's steps (tokio polls what is ready; the native,
while alive, goes on answering and settling) and of the child's exit once the reader has
ended; strong fairness of `Admit`, because the admission gate is tokio's FIFO read-write
lock. Timeouts, cancellations, new commands and closures need not happen.

`HostEvents`: weak fairness of publication, `finish` and the live receiver.

`SessionLifecycle`: weak fairness of workers, of a native becoming ready, of the exit of a
child that was told to stop or lost its parent; strong fairness of the client's retry of a
pending DELETE and of each step of its execution: no step fails for ever. `DeletionEnds`
further lets outsiders eventually leave the transcript alone and allows the outcome that
somebody changed a captured file, which the code refuses to delete by design.

`MCProgress`: while a component is active, its own threads have weak fairness, contenders
for a FIFO lock and the arms of a fair `select!` strong fairness; peers, users, faults and
clocks have none, except a deadline the code itself sets (an idle limit, a kill timer, a
call's timeout). Where the code has no such limit the property does not promise an end;
section 6 lists those waits.

## 5. What is proved

Eight modules hold theorems, for every value of the constants allowed by the named
assumptions beside the `CONSTANTS` of the modules (bounds are naturals, the sets of commands
disjoint, `Nobody`, `NoHost`, ... outside the sets they extend; in `AcpRequests`, that no
session is called `"none"`, which stands there for the session of a list). Every invariant
named below was first checked by TLC on the instances of section 3.

| Module | Theorems | Assumption |
| --- | --- | --- |
| `HostAdmissionProofs` | `TypeCorrect`, `ExecutionsCovered`, `NotificationsCovered`, `RetirementQuiet`, `SettlementReleased`, `OwnFrameSettles` | none |
| `HostEventsProofs` | `EventsTyped`, `DialogsAlwaysAgree` | none |
| | `HostEndsClosed`, `BoundaryIsQuiet`, `EventsComeInOrder`, `NothingIsMissing` | `~Bridged` |
| | `OneHostHasNoGap` | `~Bridged`, `Hosts = 1` |
| `SessionLifecycleProofs` | `TypeCorrect`, `DeletedForGood`, `ReachableRemembered`, `ProjectionFollows`, `RestartLoads`, `IntentBeforeUnlink`, `IntentRetained`, `Retention` | none |
| | `OneWriter`, `RetiredQuiet`, `ShutdownComplete` | `~StopUnconfirmed` |
| `ServiceProofs` | `TransitionsAreWriteAhead`, `BridgesAnswerOpenCalls`, `ReleasesAreComplete`, `CommandsLeaveNothing` | none |
| `MCServices` | `NativeAccounted` | none |
| `AcpProofs` | `ConnectionIsClean`, `PromptsAreClean`, `AcpTasksAreClean` | none |
| `AdapterProofs` | `ServerIsClean`, `WebIsClean`, `RelayIsClean`, `UpdatesSurvive` | none |
| | `AdaptersAreClean`, `NothingFollowsTheEnd` (the group) | none |
| `Permissions` | `StoreKept`, `CallsAllowed` | none |

**Admission.** `ExecutionCovered` is not inductive: whether the intent may be cleared depends
on where every copy of a command is. `CoverInv` follows each execution from its caller
through channel, writer, native and pipe: it is in at most one of those places (`Life`), the
frames about it come in the order acceptance, settlement or rejection, nothing (`Order`), and
while a frame of it is outstanding the published intent is its own (`Covered`).

**Settlement.** `SettleInv` adds what the observer knows when a settlement reaches it: that
the acceptance was seen or is before it in the pipe, and for a prompt that the last start
before it is its own (`Announced`). So a prompt's settlement always finds the intent bound to
its own run. A compaction starts no run: its intent is bound to none, and is then released by
its settlement, or to the last run the native began by itself, and then it is not
(`Misbound`); `Released` says that this is the only way in which an accepted intent is left
without anything of its command between writer and reader. The theorems assume nothing of
what the native serves or begins; what they concede is the case that `admission_claim`
exhibits, and the settlement of the foreign run may clear such an intent in the end.
`KeepInv` is about the tickets of `notify`: none that is dropped belongs to a
waiting command. `QuietInv` is about retirement: since the gate is held exclusively and the
probes were answered, everything before the last probe has been driven out of the
channel, the native and the pipe (`Quieted`, `Flushing`), so that no late steering message
is left behind it.

**Events.** `CloseInv` says that `finish` starts when the reader has left its loop, which is
so where no bridge can call `fail_closed`; hence one publisher at a time, and `Numbered` puts
the counter, the state and the end of the history no more than one publication apart.
With a bridge `ClosedLast` is refuted by TLC (section 6). `DialogsAlwaysAgree` needs no
such assumption, and neither does `EventsTyped`.

`NoGap` and `NoOverlap` say nothing of how a client comes to have what it has, so they are
far from inductive. `FollowInv` adds, about the host, `Feed`: the numbers in the history and
in what was broadcast ascend, what was broadcast is in the history or older than all of it,
and a publication under way has a number that is not broadcast yet. About a client it adds
`Follows`: what it was given ascends and lies up to its cursor, and every number known on its
host up to the cursor was given to it or is covered by its snapshot (`Given`); the copy of the
history it replays leaves out only what is older or newer than all of it (`Copied`); the
receiver it took before the copy is behind the broadcast (`Attached`). So the replay joins
what the client had unless the gap check refuses it, and the receiver joins the replay.
`NothingIsMissing` is `NoGap` for a client that still follows the host its snapshot stands
for, over any number of hosts and reconnections; `OneHostHasNoGap` is `NoGap` itself. With a
second host `NoGap` is false (section 6), which is the hazard at `service.rs:1695`.

**Service, registry, deletion.** `TypeInv` has three parts: types, `Serial` (a worker in the
middle of a request holds the mutex; hence at most one is), `Locked` (who holds a native
lock). On it rests `SessionInv`, whose idea is the relation of disk and memory: `Change(disk)`
says that the registry on disk is the one in memory or differs from it by one change that a
request may make at this moment - remembering an admitted session, a preference, an exact
intent, the removal of a session with nothing left. So a save that failed after its rename,
or a crash, leads to nothing that a finished request could not have led to. The rest says
what makes each change admissible: `Sound` (what `Registry::load` accepts), `Numbered` (a
fingerprint is the number of a write that was made, hence a file that is gone never matches
again), `Live`, `Final` and `Projected` (session map, deleted sessions and projections
agree with memory), and `Cand`, what a worker has established of its session at each of its
steps. The seven theorems without assumption follow from `SessionInv` in a state or over a
step.

`Retention` is the refinement, `Spec => Promise!Spec`: memory gives the phase of a session,
its files what is present, its intent what is owed. A change of memory is one step of
`SessionRetention` by `RegistryStep` (every step makes one `Change`), an unlink or a write is
one by `FilesMoves`, a restart is one or none because the disk is one `Change` away.

The last three are about processes. `Owned`: every child that is up and not an orphan of an
earlier crash is that of a mapped host or of the one request that starts it; `Down`: after
`closing` is set nobody starts. With `StopUnconfirmed` a child whose exit `stop_checked` did
not see would escape both: the failure paths of open, create and fork then go on (section 6),
and TLC refutes `SingleWriter`; so the assumption is that a kill is confirmed within its
timeout. Under it the theorems cover failed saves, failed starts and crashes.

**Processes of the service.** `ResInv` is about one ledger on disk, one binding in the
native's file and the memory of an owner that may die between them. `Accounts` ties the
first two: every binding and every commit belongs to an operation of the ledger, an applied
one was committed, the revision an operation expects is that of the first operation plus the
number applied before it, a child carries a waiting operation's selection. `InHand` says
what the owner's task has established of its operation at each step, `OneAtATime` that
children, the live host and the task exclude one another. That is what makes a retry after
a crash recognise a commit, and `NeverRejected` is the reason for the account of revisions:
the service validates the ledger it loads by counting it. Facts about the least or
greatest index with a property are proved by a minimal counterexample over finite sets, not
by an induction theorem. The attempt found that `AppliedIsBound` was too strong: with
children that linger the binding may be that of an operation that a later intent superseded
while it was committing, which takes three operations to see; the property now says so, and
the run has three.

`BridgeInv`: an open call is in the table under its own identity (`Named`), the queue holds
what waits to be started, once each, and nothing after the supervisor drained it
(`QueueHolds`); a request in the pipe is a fresh one, there once and before its closure
(`PipeHolds`); and what is not cancelled is in the table, and the native has it open or its
closure is a frame the host has still to read (`StillOpen`). `AnswersOpen` is about the
moment a write begins and promises no more than that: between the native's closure and the
reader's routing of it, and while a write that has begun goes on, an answer may be written
for a request that is closed (section 6). `RelInv`: while the owner of the lifecycle lock goes from its fences to the
exits, what it picked is fenced, what is in scope is picked or to be done, and what it
has captured is still so (`OwnerKnows`); a capture whose save failed leaves its host retired
and the session refused (`storageFailed`), and ends the release. `CliInv`: there is a process tree only while the job
waits for it or stops it (`TreeOwned`), no writer is at the history while a saved read holds
its lock (`LockHeld`), and what the program said under the lock is still so (`AnswerCurrent`).
`NativeAccounted` carries the four over to `NativeIsAccountedFor`: a step of the group is a
step of one component or leaves its variables alone.

**Adapters.** `ConnInv`: while the stream is open, the number of answers owed under an id
is the number of requests queued under it, plus one if a prompt task holds it, plus one if the
dispatcher does (`Owing`); hence no request is answered twice or forgotten. It needs that
there is one task per id (`OneTaskPerId`), that a close waits for the tasks of its session
(`ClosingWaits`), and that a live child is attached or in the dispatcher's hand
(`KidsHaveOwner`). `PromptInv` adds that an answer in a dialog task's hands was permitted
(`ResultPermitted`), that a prompt that saw its cancellation has no task (`CancelledIdle`) and
that the settlements on the way are the run's own (`EventsOwn`). A task's answer only joins
the commands for the native, so `Granted` counts what was told and what is queued: the
theorem is that it does not grow once the cancellation was seen, not that an answer queued
before is taken back. `TasksInv`: every task is
listed where a close looks for it, a told task is awaited, a closed session has none.

`ServerInv`: for each connection the requests sent are those answered, the one in hand and
those to be read, in this order (`InOrder`), and the stop happens once and has killed what
it let go of (`StopOnce`). `UiInv`: while the relay goes round, each prompt is in one place
(`OnePlace`) - with the relay, on the way to the agent, in it, or answered on the way
back; when it ends, each is cancelled or still to be (`CancelsAll`). `HttpInv` and `SubsTyped`
are small, and the theorems about them are about steps: `RevokedIsQuiet` and `FreshSurvives`.
The two group theorems are `AdaptersLeaveNothing` and `NothingAfterTheEnd` as the run
checks them. The proof of `PromptStays` found two arms of the model's `TakesEvent` that
overlapped, which made TLC's choice of the first part of its meaning; they are exclusive now.

**Permissions.** `RulesInv` follows a document from the file it was read from through the
call that changes it to the temporary file of the process: at each place it is whole, gives a
rule one effect and holds the global rules nobody named (`Sensible`). That two processes may
lose each other's grants (section 6) does not contradict it. `GateInv`: requests are numbered
as their dialogs open, each held call polls its own, and an answer does not change.

**Only model-checked.** Liveness (`IntentSettles`, `EveryCallReturns`, `CatchesUp`,
`TerminateCloses`, `DeletionEnds`, `EveryStopReturns`, `EveryRequestEnds`) is beyond the
prover, as is `ENABLED`. Of the groups, `McpIsOrderly`, `ReadersSeeTheBranch`,
`AnswersAreWhole`, `NothingGoesBack`, `StateIsOneStory`, `FilesAndRulesHold` and
`StepsKeepTheirWord` are not proved as a whole. Each has a conjunct about what a decoder, a
scanner, a matcher or a replay computes of its whole input; that is induction over data
through the library's theorems with an operator parameter, or through `RECURSIVE` operators,
which the prover does not reach. Other conjuncts of them could be proved and are not. Proved
are, of `NothingGoesBack`, `ReleaseComplete` and `AnswersOpen`, and of `FilesAndRulesHold`
the conjuncts about the store and the gate of permissions.

## 6. Observations

Behaviour of the code met while modelling that a reader of its docs might not expect. The
first is the subject of a run; otherwise the runs above are configured so that these do not
occur, or state what holds all the same, and the constants that bring a counterexample are
given where there is one.

Core:

* A compaction published while a native-begun run starts is bound to that run's id
  (`admission.rs:134`); its own settlement then does not release admission, and every later
  execution is refused until the foreign run settles, or, when that run had settled before the
  compaction was accepted, until another run starts and settles or the host ends. The README of
  `rpi-extcore` (435-447) says that settlement completes a run and that a compaction takes the
  same path. This is the finding of `PROJECT.json`; the run `admission_claim` expects it.
* With a bridge (`Bridged = TRUE`) `fail_closed` starts `finish` beside the reader: a frame
  projected after `host_closed` leaves a stopped host with a status other than closed
  (`ClosedLast`; `host.rs:409`).
* A cursor does not say which host it belongs to; after a reopen it is accepted and the
  first events of the new host are skipped (`NoGap` with two hosts and a client;
  `service.rs:1695`).
* `begin_deletion` rolls memory back also when the save failed after its rename; after a
  restart the stale intent may refuse open and DELETE (`SyncFails`; `registry.rs:130`).
* `SingleWriter` and `NoRetiredWriter` assume confirmed stops: the failure paths of open,
  create and fork use `HostSession::shutdown`, which ignores an unconfirmed exit
  (`host.rs:1415`); the native lock still keeps a second child from writing.

* A snapshot's messages are read after its boundary (`service.rs:1574-1601`), so they may show
  what an event after the cursor repeats. `HostEvents` stands for events only.
* The registry's temporary file left by a crash makes every later save fail until the owner
  removes it (`registry.rs:356`); `DeletionEnds` assumes that this happens.

Bridges: between the native's closure of a request and the reader's routing of that frame,
and between the writer's check of the control and the end of its write (`host.rs:242-258`), an
answer is written for a request that is closed; a native that uses the identity again would
receive it for the new one. The file supervisor closes its receiver before it sets `stopped`
(`file_io.rs:315-323`), so a request routed between fails the reader instead of being refused.

Service: after a partial idle release the remaining hosts stay retired in the map with live
children (`host.rs:1022`). With lingering children a superseded transition may have been
committed, and the native's binding be that one's while a later intent waits
(`AppliedIsBound` allows both only then). A prompt's events published after begin make a
load fail spuriously. A file rewritten in place between a query's checks and its last read
is not noticed by run timings;
the ABA of a native configuration within one read is not detected. No commit is seen between
`try_attach`'s read and `subscribe_raw`. A child snapshot may cover fewer children than the
head (`tool_program_live.rs` 357-385). A job of the native command line outlives a crash of
the service. Renaming a configured project outside the managed root is answered but ignored
at the next load; a directory removed outside and added again has two saved items, and the
changes go to the wrong one; a failed save or `git init` leaves the folder.

Adapters: an ACP cancel before the prompt task began is lost; an "allow" that a dialog task
queued before the prompt saw its cancellation stays in the channel beside the abort
(`host.rs:1103-1142`) and is written to the native, so the tool may still go ahead; aborting a task with a
half-written frame ends the connection (documented); a dispatcher blocked on an unread
stdout is not ended by EOF. `rpi-server`: a line that arrives in two pieces more than 50 ms
apart ends the connection; a child that does not read its stdin holds the session lock and
then the map lock, so `stop` times out with the server already unregistered; sessions whose
child exited stay "running"; a start that timed out leaves a registered server. The web
plugins' `STOP` is a `OnceLock`: a second SessionStart's server stops at once. `run` of the
UI adapter does not wait for upgraded relays. An MCP HTTP request refused before it was sent
is announced as cancelled all the same.

Packages: goal and plan mode persist after letting their lock go, so branch entries can be
out of order; a failed `set_tools` loses the former tools. The 2000-span cap of tracing is
not reached when exports fail. Voice: several check-then-set races of the floor flags; a
loud warm-up can deafen the detector; fixed gain applies twice. Messages: foreign tool
events are attributed to the active reply; two processes share the store without a lock.
Code mode: a failed release in cleanup is not latched. Orchestrator: a panic in the worker
leaves nodes running. Permissions: "only * is a wildcard" against a literal comparison
before the star; two processes' read-modify-write of the store loses grants. Edit: hard
links share no lock (documented); a temporary file whose removal fails stays and nobody is
told (`lib.rs:351-353`); blank lines are numbered otherwise than the comment of
`edit_diff.rs:147` says. Providers: a bare code takes the newest login even if it belongs to
an older one; without an idle limit a silent accepted response waits for ever.

Waits without a limit, which no liveness property covers: a gate's dialog never answered
(documented), a message adapter's join at stop, a management command's output after its
deadline.

## 7. Limits

Data is abstracted throughout: contents, titles, JSON validation, wire formats. The file
system is atomic per operation and a fingerprint identifies a version. `Todo` assumes no
branch move within one call. Each group instance is one component by itself; cross-component
races other than the composed ones are not checked. Not modelled, with the reason for each
in `PROJECT.json`: the MCP adapter plugin, web fetch and search, lens, codegraph, subagents,
btw, statistics, installer; and inside modelled components: message queries, the JavaScript
engine, provider conversion and cost tables, resampling and devices, rendering, semantic
edit passes, authorisation flows of MCP, redaction.
