---------------------------- MODULE Configuration ----------------------------
(* rpi-extcore's ConfigurationRuntime and the rpi-acp side of it: one poller   *)
(* per native host reads the model and its thinking levels in several          *)
(* commands, a client's setter mutates and reads under the same gate, and the  *)
(* forwarder tells the client of what changed, never behind a setter's answer. *)
EXTENDS Integers, FiniteSets

CONSTANTS
  Model,            \* models of the native catalog
  Adapters,         \* who attaches to the runtime of the host
  MaxNativeChanges, \* bound: changes of the model nobody here asked for
  MaxSets,          \* bound: requests of the client
  MaxConfigFaults   \* bound: commands that fail or time out, frames that stall

ASSUME ConfigBounds == {MaxNativeChanges, MaxSets, MaxConfigFaults} \subseteq Nat

Performer == {"poll", "set"}
LevelsOf(m) == m   \* every model has levels of its own
Unset == "unset"

VARIABLES
  nativeModel, nativeChanges,
  configOwner,  \* adapters inside try_attach: "no", "reading", "holds"
  pollers,      \* workers spawned
  hostGone,     \* the native host closed
  gateOf,       \* who holds the runtime's gate
  perform,      \* a performer: [at, tries, model, levels, ask]
  latest,       \* the watch: [revision, model, levels]
  projectionOf, \* who holds the projection's gate
  projected,    \* what the projection recorded: [revision, model]
  forwarder,    \* [at, seen (revision of the watch it has seen), frame]
  setter,       \* [at, ask, answer]
  clientView,   \* the last configuration frame written: [revision, model]
  configOpen,   \* the connection
  configSets, configFaults

nativeConfigVars == <<nativeModel, nativeChanges, hostGone>>
runtimeVars == <<configOwner, pollers, gateOf, perform, latest>>
projectionVars == <<projectionOf, projected, forwarder, setter, clientView, configOpen, configSets>>
configVars == <<nativeConfigVars, runtimeVars, projectionVars, configFaults>>

NoPerform == [at |-> "idle", tries |-> 0, model |-> Unset, levels |-> Unset, ask |-> Unset]
NoAnswer == [revision |-> 0, model |-> Unset]

ConfigInit ==
  /\ nativeModel \in Model /\ nativeChanges = 0 /\ hostGone = FALSE
  /\ configOwner = [a \in Adapters |-> "no"] /\ pollers = 0 /\ gateOf = "none"
  /\ perform = [p \in Performer |-> NoPerform]
  /\ latest = [revision |-> 0, model |-> Unset, levels |-> Unset]
  /\ projectionOf = "none" /\ projected = NoAnswer /\ forwarder = [at |-> "none", seen |-> 0, frame |-> NoAnswer]
  /\ setter = [at |-> "idle", ask |-> Unset, answer |-> NoAnswer] /\ clientView = NoAnswer
  /\ configOpen = TRUE /\ configSets = 0 /\ configFaults = 0

(***************************************************************************)
(* The native: another command, or an extension, changes the model.        *)
(***************************************************************************)
ChangesModel ==
  /\ nativeChanges < MaxNativeChanges /\ ~hostGone
  /\ nativeModel' \in Model \ {nativeModel} /\ nativeChanges' = nativeChanges + 1
  /\ UNCHANGED <<hostGone, runtimeVars, projectionVars, configFaults>>

HostGoes == /\ latest.revision > 0 /\ ~hostGone /\ hostGone' = TRUE
            /\ configFaults < MaxConfigFaults /\ configFaults' = configFaults + 1
            /\ UNCHANGED <<nativeModel, nativeChanges, runtimeVars, projectionVars>>

(***************************************************************************)
(* try_attach: the owner's lock is held across the first read, and whoever *)
(* comes later upgrades the weak owner it finds.                           *)
(***************************************************************************)
Held == \E a \in Adapters : configOwner[a] = "reading"
ConfigAlive == latest.revision > 0
ConfigAttaches(a) ==
        /\ configOwner[a] = "no" /\ ~Held /\ ~hostGone
        /\ configOwner' = [configOwner EXCEPT ![a] = IF ConfigAlive THEN "holds" ELSE "reading"]
        /\ UNCHANGED <<nativeConfigVars, pollers, gateOf, perform, latest, projectionVars, configFaults>>

\* The initial configuration is revision 1; the adapter of the client subscribes and
\* starts its forwarder after its first answer.
AttachReads(a) ==
  /\ configOwner[a] = "reading" /\ configOwner' = [configOwner EXCEPT ![a] = "holds"]
  /\ latest' = [revision |-> 1, model |-> nativeModel, levels |-> LevelsOf(nativeModel)] /\ pollers' = pollers + 1
  /\ UNCHANGED <<nativeConfigVars, gateOf, perform, projectionVars, configFaults>>

AttachFails(a) ==
  /\ configOwner[a] = "reading" /\ configOwner' = [configOwner EXCEPT ![a] = "no"]
  /\ configFaults < MaxConfigFaults /\ configFaults' = configFaults + 1
  /\ UNCHANGED <<nativeConfigVars, pollers, gateOf, perform, latest, projectionVars>>

StartsForwarding ==
  /\ ConfigAlive /\ forwarder.at = "none"
  /\ projected' = [revision |-> latest.revision, model |-> latest.model] /\ clientView' = projected'
  /\ forwarder' = [at |-> "waits", seen |-> latest.revision, frame |-> NoAnswer]
  /\ UNCHANGED <<nativeConfigVars, runtimeVars, projectionOf, setter, configOpen, configSets, configFaults>>

(***************************************************************************)
(* perform: gate, mutation, then state, levels and state again, twice at   *)
(* most.  A deadline or an error gives the gate up and changes nothing     *)
(* here, though the native may already have changed.                       *)
(***************************************************************************)
Runs(p, next) == perform' = [perform EXCEPT ![p] = next] /\ UNCHANGED <<configOwner, pollers>>
ConfigOf(p) == perform[p]

PollTicks == /\ pollers > 0 /\ ConfigOf("poll").at = "idle" /\ ~hostGone
             /\ Runs("poll", [NoPerform EXCEPT !.at = "gate"]) /\ UNCHANGED <<nativeModel, nativeChanges, gateOf, latest>>
Gates(p) == /\ ConfigOf(p).at = "gate" /\ gateOf = "none" /\ gateOf' = p
            /\ Runs(p, [ConfigOf(p) EXCEPT !.at = IF p = "set" THEN "mutate" ELSE "before"])
            /\ UNCHANGED <<nativeModel, nativeChanges, latest>>
Mutates == /\ ConfigOf("set").at = "mutate" /\ nativeModel' = ConfigOf("set").ask
           /\ Runs("set", [ConfigOf("set") EXCEPT !.at = "before"]) /\ UNCHANGED <<nativeChanges, gateOf, latest>>
ReadsBefore(p) == /\ ConfigOf(p).at = "before" /\ Runs(p, [ConfigOf(p) EXCEPT !.at = "levels", !.model = nativeModel])
                  /\ UNCHANGED <<nativeModel, nativeChanges, gateOf, latest>>
ReadsLevels(p) == /\ ConfigOf(p).at = "levels" /\ Runs(p, [ConfigOf(p) EXCEPT !.at = "after", !.levels = LevelsOf(nativeModel)])
                  /\ UNCHANGED <<nativeModel, nativeChanges, gateOf, latest>>
StateMovedNever(p) == FALSE   \* mutant: the state is not read again
StateMoved(p) == nativeModel # ConfigOf(p).model
ReadsAfter(p) ==
  /\ ConfigOf(p).at = "after" /\ UNCHANGED <<nativeModel, nativeChanges>>
  /\ IF ~StateMoved(p)
     THEN /\ latest' = IF [latest EXCEPT !.model = ConfigOf(p).model, !.levels = ConfigOf(p).levels] = latest THEN latest
                       ELSE [revision |-> latest.revision + 1, model |-> ConfigOf(p).model, levels |-> ConfigOf(p).levels]
          /\ Runs(p, [NoPerform EXCEPT !.at = "done"]) /\ gateOf' = "none"
     ELSE /\ UNCHANGED latest
          /\ IF ConfigOf(p).tries = 0 THEN Runs(p, [ConfigOf(p) EXCEPT !.at = "before", !.tries = 1]) /\ UNCHANGED gateOf
             ELSE Runs(p, [NoPerform EXCEPT !.at = "failed"]) /\ gateOf' = "none"
PollEnds == /\ ConfigOf("poll").at \in {"done", "failed"} /\ Runs("poll", NoPerform)
            /\ UNCHANGED <<nativeModel, nativeChanges, gateOf, latest>>

PerformSteps(p) == Gates(p) \/ ReadsBefore(p) \/ ReadsLevels(p) \/ ReadsAfter(p)
HostThere == ~hostGone /\ UNCHANGED <<hostGone, projectionVars, configFaults>>
RuntimeSteps == HostThere /\ (PollTicks \/ Mutates \/ PollEnds \/ \E p \in Performer : PerformSteps(p))
SetGates == HostThere /\ Gates("set")   \* the gate is handed over in the order of asking

ConfigAborted(p) == /\ Runs(p, [NoPerform EXCEPT !.at = "failed"])
                    /\ gateOf' = (IF gateOf = p THEN "none" ELSE gateOf) /\ UNCHANGED latest
PerformFails(p) ==
  /\ ConfigOf(p).at \in {"gate", "mutate", "before", "levels", "after"} /\ ConfigAborted(p)
  /\ \/ hostGone /\ UNCHANGED configFaults
     \/ configFaults < MaxConfigFaults /\ configFaults' = configFaults + 1
  /\ UNCHANGED <<nativeConfigVars, projectionVars>>

(***************************************************************************)
(* The setter: the projection's gate from the native set to the answer.    *)
(***************************************************************************)
\* A frame is written in full, or its deadline closes the whole connection.
Writes(frame) == configOpen /\ clientView' = frame /\ UNCHANGED <<configOpen, configFaults>>
Stalls == /\ configFaults < MaxConfigFaults /\ configFaults' = configFaults + 1
          /\ configOpen' = FALSE /\ UNCHANGED clientView

SetAsked(m) ==
  /\ configOpen /\ setter.at = "idle" /\ forwarder.at # "none" /\ configSets < MaxSets /\ configSets' = configSets + 1
  /\ setter' = [setter EXCEPT !.at = "lock", !.ask = m]
  /\ UNCHANGED <<nativeConfigVars, runtimeVars, projectionOf, projected, forwarder, clientView, configOpen, configFaults>>
SetterHolds == "set"
SetLocks ==
  /\ setter.at = "lock" /\ projectionOf = "none" /\ projectionOf' = SetterHolds
  /\ setter' = [setter EXCEPT !.at = "performs"]
  /\ Runs("set", [NoPerform EXCEPT !.at = "gate", !.ask = setter.ask])
  /\ UNCHANGED <<nativeConfigVars, gateOf, latest, projected, forwarder, clientView, configOpen, configSets, configFaults>>
\* set_model returns the snapshot it published under the gate.
SetReturns ==
  /\ setter.at = "performs" /\ ConfigOf("set").at \in {"done", "failed"} /\ Runs("set", NoPerform)
  /\ IF ConfigOf("set").at = "done"
     THEN /\ setter' = [setter EXCEPT !.at = "answers", !.answer = [revision |-> latest.revision, model |-> latest.model]]
          /\ UNCHANGED projectionOf
     ELSE setter' = [setter EXCEPT !.at = "idle", !.ask = Unset] /\ projectionOf' = "none"
  /\ UNCHANGED <<nativeConfigVars, gateOf, latest, projected, forwarder, clientView, configOpen, configSets, configFaults>>
SetAnswers ==
  /\ setter.at = "answers" /\ setter' = [at |-> "idle", ask |-> Unset, answer |-> NoAnswer] /\ projectionOf' = "none"
  /\ \/ Writes(setter.answer) /\ projected' = setter.answer
     \/ /\ UNCHANGED projected
        /\ Stalls \/ (~configOpen /\ UNCHANGED <<clientView, configOpen, configFaults>>)
  /\ UNCHANGED <<nativeConfigVars, runtimeVars, forwarder, configSets>>

(***************************************************************************)
(* The forwarder (forward): it wakes, takes the gate, and only then reads. *)
(***************************************************************************)
Forwards(next) == /\ forwarder' = next
                  /\ UNCHANGED <<nativeConfigVars, runtimeVars, setter, configSets>>

ForwardWakes ==
  /\ forwarder.at = "waits" /\ latest.revision > forwarder.seen
  /\ Forwards([forwarder EXCEPT !.at = "lock", !.seen = latest.revision,
                                !.frame = [revision |-> latest.revision, model |-> latest.model]])
  /\ UNCHANGED <<projectionOf, projected, clientView, configOpen, configFaults>>
ConfigTold(now) == now.revision <= projected.revision
ForwardLocks ==
  /\ forwarder.at = "lock" /\ projectionOf = "none"
  /\ LET now == [revision |-> latest.revision, model |-> latest.model] IN
     IF ConfigTold(now)
     THEN /\ Forwards([at |-> "waits", seen |-> latest.revision, frame |-> NoAnswer]) /\ UNCHANGED <<projectionOf, projected>>
     ELSE /\ Forwards([at |-> "writes", seen |-> latest.revision, frame |-> now])
          /\ projectionOf' = "forward" /\ UNCHANGED projected
  /\ UNCHANGED <<clientView, configOpen, configFaults>>
ForwardWrites ==
  /\ forwarder.at = "writes" /\ projectionOf' = "none"
  /\ \/ /\ IF forwarder.frame.model = projected.model THEN UNCHANGED <<clientView, configOpen, configFaults>>
           ELSE Writes(forwarder.frame)
        /\ projected' = forwarder.frame /\ Forwards([forwarder EXCEPT !.at = "waits", !.frame = NoAnswer])
     \/ Stalls /\ UNCHANGED projected /\ Forwards([forwarder EXCEPT !.at = "over"])
\* Closing the session or the host only asks it to end, between two frames.
ForwardEnds ==
  /\ forwarder.at \in {"waits", "lock"} /\ (hostGone \/ ~configOpen)
  /\ Forwards([forwarder EXCEPT !.at = "over"]) /\ UNCHANGED <<projectionOf, projected, clientView, configOpen, configFaults>>

ForwardSteps == ForwardWakes \/ ForwardLocks \/ ForwardWrites \/ ForwardEnds
SetSteps == SetLocks \/ SetReturns \/ SetAnswers

ConfigNext ==
  \/ ChangesModel \/ HostGoes \/ StartsForwarding \/ RuntimeSteps \/ ForwardSteps \/ SetSteps
  \/ \E a \in Adapters : ConfigAttaches(a) \/ AttachReads(a) \/ AttachFails(a)
  \/ \E p \in Performer : PerformFails(p)
  \/ \E m \in Model : SetAsked(m)

(***************************************************************************)
(* Properties                                                              *)
(***************************************************************************)
\* Two adapters attaching at once never start two pollers on one native host.
OnePoller == pollers <= 1

\* The levels published with a model are that model's, as long as the native changes
\* at most once during a read; there and back within one read is beyond the code.
SnapshotAgrees == nativeChanges <= 1 => latest.levels = LevelsOf(latest.model)

\* What the client is told never goes back: no notification computed before a
\* setter's answer is written after it.
ViewNeverGoesBack == [][clientView'.revision >= clientView.revision]_clientView

\* The client of an open connection comes to see the model that is in use.
ModelOwed == configOpen /\ ~hostGone /\ forwarder.at # "none"
ModelMet == clientView.model = nativeModel \/ ~configOpen \/ hostGone \/ forwarder.at = "none"
==============================================================================
