---------------------------- MODULE Orchestrator ----------------------------
(* The task graph of rpi-orchestrator: `plan` edits it, `dispatch` runs one    *)
(* wave of its ready nodes as child processes, in chunks, without the graph's  *)
(* lock (dispatch.rs, graph.rs, plan.rs, spawn.rs, lib.rs). The graph belongs  *)
(* to the session of the last call; a wave rejoins it only if nobody replaced  *)
(* or edited it meanwhile.                                                     *)
EXTENDS Integers, Sequences, FiniteSets, SequencesExt

CONSTANTS
  GraphNode,      \* node ids
  GraphSession,   \* session ids
  MaxParallel,    \* maxParallel
  MaxWaves,       \* bound: dispatch calls that start a wave
  MaxEdits        \* bound: plan calls that change the graph

ASSUME GraphAssumption == MaxParallel \in Nat \ {0} /\ {MaxWaves, MaxEdits} \subseteq Nat

VARIABLES
  graph,      \* GraphState; a node keeps the number of the edit that made it
  waves,      \* the dispatch calls that run, or ran, a wave
  edits       \* plan calls so far

graphVars == <<graph, waves, edits>>

NoNodes == [n \in {} |-> 0]
GraphFresh(s, generation) == [session |-> s, generation |-> generation, nodes |-> NoNodes]
GraphInit ==
  /\ \E s \in GraphSession : graph = GraphFresh(s, 0)
  /\ waves = <<>> /\ edits = 0

\* `lock_graph`: a call of another session finds an empty graph.
Locked(s) == IF graph.session = s THEN graph ELSE GraphFresh(s, graph.generation + 1)

Marked(g, status) == {n \in DOMAIN g.nodes : g.nodes[n].status = status}
Ready(g) == {n \in Marked(g, "pending") : g.nodes[n].deps \subseteq Marked(g, "done")}

\* `validate`: the dependencies exist, and taking away what depends on nothing
\* that is left takes everything (`check_acyclic`).
Peeled[nodes \in SUBSET GraphNode, deps \in [GraphNode -> SUBSET GraphNode], k \in 0..Cardinality(GraphNode)] ==
  IF k = 0 THEN nodes
  ELSE LET left == Peeled[nodes, deps, k - 1] IN {n \in left : deps[n] \cap left # {}}
Valid(nodes) ==
  /\ \A n \in DOMAIN nodes : nodes[n].deps \subseteq DOMAIN nodes
  /\ Peeled[DOMAIN nodes, [n \in GraphNode |-> IF n \in DOMAIN nodes THEN nodes[n].deps ELSE {}],
            Cardinality(GraphNode)] = {}

-----------------------------------------------------------------------------
\* `plan`: showing the graph only moves it to the session; `set` and `update`
\* are refused while a wave runs, and change all or nothing.
Shows(s) ==
  /\ graph.session # s /\ graph' = Locked(s)
  /\ edits < MaxEdits /\ edits' = edits + 1 /\ UNCHANGED waves

NewNode(deps) == [deps |-> deps, task |-> edits + 1, status |-> "pending", result |-> 0]
Replaces(s, nodes) ==
  /\ Valid(nodes) /\ nodes # graph.nodes
  /\ graph' = [Locked(s) EXCEPT !.nodes = nodes, !.generation = @ + 1]

Edits(s) ==
  /\ edits < MaxEdits /\ Marked(Locked(s), "running") = {}
  /\ edits' = edits + 1 /\ UNCHANGED waves
  /\ LET old == Locked(s).nodes IN
     \/ \E ids \in SUBSET GraphNode \ {{}} : \E deps \in [ids -> SUBSET ids] :    \* set
          Replaces(s, [n \in ids |-> NewNode(deps[n])])
     \/ \E n \in GraphNode \ DOMAIN old, deps \in SUBSET DOMAIN old :            \* addNodes
          Replaces(s, [i \in DOMAIN old \cup {n} |-> IF i = n THEN NewNode(deps) ELSE old[i]])
     \/ \E gone \in DOMAIN old :                                              \* removeIds
          Replaces(s, [i \in DOMAIN old \ {gone} |-> old[i]])
     \/ \E n \in DOMAIN old, deps \in SUBSET DOMAIN old :                       \* setDeps
          Replaces(s, [old EXCEPT ![n].deps = deps])
     \/ \E n \in DOMAIN old :                                                 \* reset
          Replaces(s, [old EXCEPT ![n].status = "pending", ![n].result = 0])

-----------------------------------------------------------------------------
\* `dispatch` marks the ready nodes and leaves the lock with a snapshot.
GraphIdle == [at |-> "idle", ok |-> FALSE, due |-> FALSE]
Dispatches(s) ==
  LET g == Locked(s) ready == Ready(g) IN
  /\ Len(waves) < MaxWaves
  /\ Marked(g, "running") = {} /\ ready # {}
  /\ graph' = [g EXCEPT !.nodes = [n \in DOMAIN @ |->
                 IF n \in ready THEN [@[n] EXCEPT !.status = "running"] ELSE @[n]]]
  /\ waves' = Append(waves, [at |-> "between", session |-> s, generation |-> g.generation,
       ready |-> ready, rest |-> ready, chunk |-> {}, tasks |-> [n \in ready |-> g.nodes[n].task],
       outcomes |-> NoNodes, process |-> [n \in ready |-> GraphIdle], cancelled |-> FALSE])
  /\ UNCHANGED edits

GraphCall(w, wave) == waves' = [waves EXCEPT ![w] = wave] /\ UNCHANGED <<graph, edits>>

\* The tool call is cancelled or destroyed.
CancelsWave(w) ==
  /\ ~ waves[w].cancelled /\ waves[w].at # "ended"
  /\ GraphCall(w, [waves[w] EXCEPT !.cancelled = TRUE])

\* `run_wave`: the next chunk is not started once the wave is cancelled.
NextChunk(w) ==
  /\ waves[w].at = "between"
  /\ IF waves[w].cancelled \/ waves[w].rest = {} THEN GraphCall(w, [waves[w] EXCEPT !.at = "ran"])
     ELSE \E chunk \in SUBSET waves[w].rest :
            /\ Cardinality(chunk) = MaxParallel
               \/ (chunk = waves[w].rest /\ Cardinality(chunk) < MaxParallel)
            /\ GraphCall(w, [waves[w] EXCEPT !.at = "chunk", !.chunk = chunk, !.rest = @ \ chunk])
ChunkEnds(w) ==
  /\ waves[w].at = "chunk" /\ waves[w].chunk \subseteq DOMAIN waves[w].outcomes
  /\ GraphCall(w, [waves[w] EXCEPT !.at = "between", !.chunk = {}])

-----------------------------------------------------------------------------
\* A process of the wave - a node's child, or its verification command - and
\* the thread that waits for it (`run_with_exe`, `run_verify_command`).
Working(w) == CASE waves[w].at = "chunk" -> waves[w].chunk \ DOMAIN waves[w].outcomes
                [] waves[w].at = "verify" -> waves[w].chunk
                [] OTHER -> {}
\* It ends the node's part of the phase: the child's outcome, or what remains of
\* it after verification.
GraphOutcome(w, n, result, process) ==
       GraphCall(w, [waves[w] EXCEPT
              !.process[n] = process,
              !.chunk = IF waves[w].at = "verify" THEN {} ELSE @,
              !.outcomes = [i \in DOMAIN @ \cup {n} |-> IF i = n THEN result ELSE @[i]]])
Process(w, n, process) == GraphCall(w, [waves[w] EXCEPT !.process[n] = process])

GraphSpawns(w, n) ==
       /\ n \in Working(w) /\ waves[w].process[n].at = "idle"
       /\ \/ ~ waves[w].cancelled /\ Process(w, n, [GraphIdle EXCEPT !.at = "running"])
          \/ GraphOutcome(w, n, "failed", GraphIdle)         \* cancelled, or the spawn fails

\* The child exits; a descendant of it may hold its pipes open.
ProcessExits(w, n) ==
  /\ n \in Working(w) /\ waves[w].process[n].at = "running"
  /\ \E ok, held \in BOOLEAN :
       Process(w, n, [waves[w].process[n] EXCEPT !.at = IF held THEN "held" ELSE "closed", !.ok = ok])
DescendantEnds(w, n) ==
  /\ n \in Working(w) /\ waves[w].process[n].at = "held"
  /\ Process(w, n, [waves[w].process[n] EXCEPT !.at = "closed"])
TimeRunsOut(w, n) ==
  /\ n \in Working(w) /\ waves[w].process[n].at \in {"running", "held", "closed"}
  /\ ~ waves[w].process[n].due
  /\ Process(w, n, [waves[w].process[n] EXCEPT !.due = TRUE])

\* Cancellation and the deadline are looked at while the child runs and again
\* while its output is collected; either way the whole tree is killed.
MustKill(w, n) == waves[w].cancelled \/ waves[w].process[n].due
KillsTree(w, n) ==
  /\ n \in Working(w) /\ waves[w].process[n].at \in {"running", "held", "closed"}
  /\ MustKill(w, n)
  /\ GraphOutcome(w, n, "failed", GraphIdle)
Collects(w, n) ==
  /\ n \in Working(w) /\ waves[w].process[n].at = "closed"
  /\ GraphOutcome(w, n, IF waves[w].process[n].ok THEN "done" ELSE "failed", GraphIdle)

-----------------------------------------------------------------------------
\* `lock_graph_for_wave`
Stale(w) == graph.session # waves[w].session \/ graph.generation # waves[w].generation
GraphEnds(w) == [waves[w] EXCEPT !.at = "ended"]

\* A stale wave is dropped before the verification, which runs node by node.
RejoinsFirst(w) ==
  /\ waves[w].at = "ran"
  /\ GraphCall(w, IF Stale(w) THEN GraphEnds(w)
                  ELSE [waves[w] EXCEPT !.at = "verify", !.chunk = {},
                          !.rest = {n \in DOMAIN waves[w].outcomes : waves[w].outcomes[n] = "done"}])
\* A node's expected file is there or not; there may be a command to run.
VerifiesNode(w) ==
  /\ waves[w].at = "verify" /\ waves[w].chunk = {}
  /\ \E n \in waves[w].rest :
       \/ GraphCall(w, [waves[w] EXCEPT !.rest = @ \ {n}])
       \/ GraphCall(w, [waves[w] EXCEPT !.rest = @ \ {n}, !.outcomes[n] = "failed"])
       \/ GraphCall(w, [waves[w] EXCEPT !.rest = @ \ {n}, !.chunk = {n}])

\* `propagate_skips`: whatever depends on a dead node is skipped, and so on.
SkippedOnce(nodes) ==
  LET dead == {n \in DOMAIN nodes : nodes[n].status \in {"failed", "skipped"}} IN
  [n \in DOMAIN nodes |-> IF nodes[n].status = "pending" /\ nodes[n].deps \cap dead # {}
                          THEN [nodes[n] EXCEPT !.status = "skipped"] ELSE nodes[n]]
PropagatedNever(nodes) == nodes                   \* left to the next dispatch
Propagated(nodes) ==
  FoldLeftDomain(LAMBDA skipped, i : SkippedOnce(skipped), nodes,
                 [i \in 1..Cardinality(GraphNode) |-> i])

\* The results are applied under the lock; nodes the wave never reached are
\* pending again.
UnreachedKept == "running"      \* the node keeps its mark
Unreached == "pending"
GraphApplied(w) ==
       [n \in DOMAIN graph.nodes |->
          IF n \in DOMAIN waves[w].outcomes
          THEN [graph.nodes[n] EXCEPT !.status = waves[w].outcomes[n], !.result = waves[w].tasks[n]]
          ELSE IF n \in waves[w].ready THEN [graph.nodes[n] EXCEPT !.status = Unreached] ELSE graph.nodes[n]]
Rejoins(w) ==
  /\ waves[w].at = "verify" /\ waves[w].chunk = {} /\ waves[w].rest = {}
  /\ waves' = [waves EXCEPT ![w] = GraphEnds(w)]
  /\ graph' = IF Stale(w) THEN graph ELSE [graph EXCEPT !.nodes = Propagated(GraphApplied(w))]
  /\ UNCHANGED edits

WaveSteps(w) ==
  \/ NextChunk(w) \/ ChunkEnds(w) \/ RejoinsFirst(w) \/ VerifiesNode(w) \/ Rejoins(w)
  \/ \E n \in Working(w) : GraphSpawns(w, n) \/ KillsTree(w, n) \/ Collects(w, n)
Surroundings(w) ==
  \/ CancelsWave(w)
  \/ \E n \in Working(w) : ProcessExits(w, n) \/ DescendantEnds(w, n) \/ TimeRunsOut(w, n)
GraphNext ==
  \/ \E s \in GraphSession : Shows(s) \/ Edits(s) \/ Dispatches(s)
  \/ \E w \in DOMAIN waves : WaveSteps(w) \/ Surroundings(w)
GraphSpec ==
  /\ GraphInit /\ [][GraphNext]_graphVars
  /\ \A w \in 1..MaxWaves : WF_graphVars(w \in DOMAIN waves /\ WaveSteps(w))
  /\ \A w \in 1..MaxWaves : \A n \in GraphNode :
       WF_graphVars(w \in DOMAIN waves /\ n \in Working(w) /\ TimeRunsOut(w, n))

-----------------------------------------------------------------------------
\* A node runs only as long as the wave that runs it can still finish it: no
\* node is stranded, whatever was cancelled, replaced or timed out
\* (dispatch.rs "leaving them `running` would strand them").
RunningHasWave ==
  \A n \in Marked(graph, "running") : \E w \in DOMAIN waves :
    waves[w].at # "ended" /\ ~ Stale(w) /\ n \in waves[w].ready

\* A node's result is its own: it was produced for the task the node has now,
\* also if ids are used again or the session returns (lib.rs "The generation
\* also detects A -> B -> A switches with reused node ids").
ResultIsOwn ==
  \A n \in DOMAIN graph.nodes : graph.nodes[n].result \in {0, graph.nodes[n].task}

\* When a wave has been applied, whatever is still pending can be reached: some
\* node is ready (graph.rs "a dead branch cannot look dispatchable forever").
WaveLeavesProgress ==
  [][\A w \in DOMAIN waves : Rejoins(w) /\ ~ Stale(w) /\ Marked(graph, "pending")' # {}
       => Ready(graph)' # {}]_graphVars

\* A dispatch call returns, whatever its children and their descendants do.
WaveOwed(w) == w \in DOMAIN waves
WaveMet(w) == w \in DOMAIN waves /\ waves[w].at = "ended"
=============================================================================
