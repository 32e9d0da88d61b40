------------------------------- MODULE PlanMode -------------------------------
(***************************************************************************)
(* rpi-plan-mode: a read-only planning mode that narrows the session's     *)
(* tool set while it is active and gives the former set back afterwards.   *)
(* A tool call and the /plan command run on threads of their own; each     *)
(* holds the state lock over its host calls and writes the branch entry    *)
(* after it let the lock go.                                               *)
(***************************************************************************)
EXTENDS Naturals

CONSTANTS
  PlanBranches,  \* session branches
  MaxPlanFaults  \* bound on host calls that fail

ASSUME PlanConstants == MaxPlanFaults \in Nat

VARIABLES
  planActive,  \* PlanState.active
  plan,        \* PlanState.plan: is there one
  previous,    \* PlanState.previous_tools: "none" or a tool set
  toolSet,     \* the native's active tools: "full" or "planning"
  planEntry,   \* per branch: the newest plan-mode entry
  planHere,    \* the current branch
  planPc,      \* per thread: its next step
  persisting,  \* per thread: the entry it is about to append
  clean,       \* no failed restore of tools, no reload that changed the mode
  planFaults

planVars == <<planActive, plan, previous, toolSet, planEntry, planHere, planPc,
              persisting, clean, planFaults>>

PlanThreads == {"tool", "command"}
NoEntry == [active |-> FALSE, plan |-> FALSE, written |-> FALSE]
PlanWritten(active, planned) == [active |-> active, plan |-> planned, written |-> TRUE]
PlanFault == planFaults < MaxPlanFaults /\ planFaults' = planFaults + 1

-----------------------------------------------------------------------------
\* activate, when the mode is off: keep the tools, narrow them, forget the plan.
Activated(t) ==
  /\ ~planActive
  /\ previous' = toolSet /\ toolSet' = "planning" /\ planActive' = TRUE /\ plan' = FALSE
  /\ persisting' = [persisting EXCEPT ![t] = PlanWritten(TRUE, FALSE)]

\* deactivate, when the mode is on and the tools are given back.
Deactivated(t) ==
  /\ planActive
  /\ toolSet' = IF previous = "none" THEN toolSet ELSE previous
  /\ previous' = "none" /\ planActive' = FALSE
  /\ persisting' = [persisting EXCEPT ![t] = PlanWritten(FALSE, plan)]

\* set_tools fails in deactivate: the former set was already taken.
TakenAndLost == planActive /\ previous # "none" /\ PlanFault /\ previous' = "none" /\ clean' = FALSE

PlanAt(t, from, to) == planPc[t] = from /\ planPc' = [planPc EXCEPT ![t] = to]

-----------------------------------------------------------------------------
\* plan_mode_start and /plan start.
StartPlan(t) ==
  \/ PlanAt(t, "idle", "persist") /\ Activated(t) /\ UNCHANGED <<planEntry, planHere, clean, planFaults>>
  \/ /\ PlanAt(t, "idle", "idle") /\ ~planActive /\ PlanFault
     /\ UNCHANGED <<planActive, plan, previous, toolSet, planEntry, planHere, persisting, clean>>

\* /plan <request>: activate, persist, then submit the request as a message.
RequestPlan ==
  \/ PlanAt("command", "idle", "persist_submit") /\ Activated("command")
     /\ UNCHANGED <<planEntry, planHere, clean, planFaults>>
  \/ /\ PlanAt("command", "idle", "submit") /\ planActive
     /\ UNCHANGED <<planActive, plan, previous, toolSet, planEntry, planHere, persisting, clean, planFaults>>

\* The message is sent, or the mode is left again.
Submit ==
  /\ \/ PlanAt("command", "submit", "idle") /\ UNCHANGED planFaults
     \/ PlanAt("command", "submit", "leave") /\ PlanFault
  /\ UNCHANGED <<planActive, plan, previous, toolSet, planEntry, planHere, persisting, clean>>

\* complete_plan looks at the mode and takes the lock again to store the plan.
CheckActive ==
  /\ PlanAt("tool", "idle", "store") /\ planActive
  /\ UNCHANGED <<planActive, plan, previous, toolSet, planEntry, planHere, persisting, clean, planFaults>>
StorePlan ==
  /\ PlanAt("tool", "store", "leave") /\ plan' = TRUE
  /\ UNCHANGED <<planActive, previous, toolSet, planEntry, planHere, persisting, clean, planFaults>>

\* deactivate, on the way out of complete_plan, of /plan exit or of a request.
Leave(t, from) ==
  \/ PlanAt(t, from, "persist") /\ Deactivated(t) /\ UNCHANGED <<plan, planEntry, planHere, clean, planFaults>>
  \/ /\ PlanAt(t, from, "idle") /\ ~planActive
     /\ UNCHANGED <<planActive, plan, previous, toolSet, planEntry, planHere, persisting, clean, planFaults>>
  \/ /\ PlanAt(t, from, "idle") /\ TakenAndLost
     /\ UNCHANGED <<planActive, plan, toolSet, planEntry, planHere, persisting>>

\* persist_state: the append's failure is dropped.
PersistState(t) ==
  /\ PlanAt(t, "persist", "idle") \/ PlanAt(t, "persist_submit", "submit")
  /\ \/ planEntry' = [planEntry EXCEPT ![planHere] = persisting[t]] /\ UNCHANGED planFaults
     \/ PlanFault /\ UNCHANGED planEntry
  /\ UNCHANGED <<planActive, plan, previous, toolSet, planHere, persisting, clean>>

\* restore_state on SessionStart and SessionTree: the mode and the plan come
\* from the branch's newest entry, the tools are left alone.
RestoreState(b) ==
  /\ planHere' = b
  /\ IF planEntry[b].written
     THEN planActive' = planEntry[b].active /\ plan' = planEntry[b].plan
     ELSE UNCHANGED <<planActive, plan>>
  /\ clean' = (clean /\ planActive' = planActive)
  /\ UNCHANGED <<previous, toolSet, planEntry, planPc, persisting, planFaults>>

-----------------------------------------------------------------------------
PlanInit ==
  /\ planActive = FALSE /\ plan = FALSE /\ previous = "none" /\ toolSet = "full"
  /\ planEntry = [b \in PlanBranches |-> NoEntry] /\ planHere \in PlanBranches
  /\ planPc = [t \in PlanThreads |-> "idle"] /\ persisting = [t \in PlanThreads |-> NoEntry]
  /\ clean = TRUE /\ planFaults = 0

PlanNext ==
  \/ \E t \in PlanThreads : StartPlan(t) \/ Leave(t, "leave") \/ PersistState(t)
  \/ RequestPlan \/ Submit \/ CheckActive \/ StorePlan \/ Leave("command", "idle")
  \/ \E b \in PlanBranches : RestoreState(b)

-----------------------------------------------------------------------------
\* Whatever the two threads do between each other's steps, the tools are the
\* narrow set exactly while the mode is on (activate and deactivate hold the
\* lock over set_tools), until a restore of the tools failed or a reload
\* changed the mode.
ToolsFollowMode == clean => (planActive <=> toolSet = "planning")
===============================================================================
