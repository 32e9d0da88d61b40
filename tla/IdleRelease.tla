------------------------------ MODULE IdleRelease ------------------------------
(***************************************************************************)
(* release_idle_resources, resource_project_fence and manage_resources of  *)
(* service/resources.rs over several hosts, with the idle proof, the       *)
(* retirement and the exit of host/resources.rs.                           *)
(*                                                                         *)
(* The owner holds the service's lifecycle lock and works on one host      *)
(* after the other: fence and verify all, capture the settings of all,     *)
(* retire all, then await their exits in turn.  Runs and settings change   *)
(* on every host that is not fenced; exits pass their deadline.            *)
(***************************************************************************)
EXTENDS Naturals, FiniteSets

CONSTANTS
  Sess,           \* the service's sessions
  ProjectSess,    \* those of the project a release is asked for
  Workers,        \* permits of resource_workers
  MaxExitFaults   \* bound on exits that miss their deadline

ASSUME ReleaseConstants ==
  ProjectSess \subseteq Sess /\ Workers \in Nat /\ MaxExitFaults \in Nat

VARIABLES
  waiting,    \* admitted owners that wait for the lifecycle lock
  lockOwner,  \* the owner that has it: step, scope and the hosts of the step
  picked,     \* hosts selected so far
  fences,     \* hosts whose command gate and run lease are held
  entry,      \* sessions with a host in the service's map
  alive,      \* native children alive, per session
  ready,      \* hosts whose status is "ready"
  gone,       \* hosts retired for resource changes
  busy,       \* hosts with a run or pending work
  setting,    \* native session settings of the live child
  captured,   \* settings saved with the session's record
  storageFailed,  \* resource_storage_failed: sessions refused until a restart
  exitFaults

relVars == <<waiting, lockOwner, picked, fences, entry, alive, ready, gone, busy,
             setting, captured, storageFailed, exitFaults>>
hostVars == <<entry, alive, ready, gone, busy, setting, captured, storageFailed>>

NoOwner == [step |-> "free", scope |-> "project", todo |-> {}]
InScope(scope) == IF scope = "global" THEN entry ELSE entry \cap ProjectSess

-----------------------------------------------------------------------------
(* Users of a host that is not fenced.                                      *)

RunBegins(s) ==
  /\ s \in entry \cap ready /\ s \notin gone \cup fences \cup busy
  /\ busy' = busy \cup {s}
  /\ UNCHANGED <<waiting, lockOwner, picked, fences, entry, alive, ready, gone, setting,
                 captured, storageFailed, exitFaults>>

RunEnds(s) ==
  /\ s \in busy /\ busy' = busy \ {s}
  /\ UNCHANGED <<waiting, lockOwner, picked, fences, entry, alive, ready, gone, setting,
                 captured, storageFailed, exitFaults>>

SettingChanges(s) ==
  /\ s \in entry \cap ready /\ s \notin gone \cup fences
  /\ setting' = [setting EXCEPT ![s] = 1 - @]
  /\ UNCHANGED <<waiting, lockOwner, picked, fences, entry, alive, ready, gone, busy,
                 captured, storageFailed, exitFaults>>

ChildDies(s) ==
  /\ s \in entry \cap ready /\ alive[s] = 1
  /\ alive' = [alive EXCEPT ![s] = 0] /\ ready' = ready \ {s} /\ busy' = busy \ {s}
  /\ UNCHANGED <<waiting, lockOwner, picked, fences, entry, gone, setting, captured,
                 storageFailed, exitFaults>>

\* open_session_owned: a host that is not closed is answered as it is, a
\* closed one is replaced once its exit is confirmed, unless the record of its
\* resources could not be saved.
OpenSession(s) ==
  /\ lockOwner = NoOwner /\ s \notin storageFailed
  /\ s \in entry => s \notin ready
  /\ alive' = [alive EXCEPT ![s] = IF s \in entry THEN 1 ELSE @ + 1]
  /\ entry' = entry \cup {s} /\ ready' = ready \cup {s} /\ gone' = gone \ {s}
  /\ setting' = [setting EXCEPT ![s] = captured[s]]
  /\ UNCHANGED <<waiting, lockOwner, picked, fences, busy, captured, storageFailed, exitFaults>>

-----------------------------------------------------------------------------
(* The owners.                                                              *)

\* A permit is taken at once or the request is refused; the owner then waits
\* for the lifecycle lock whether or not its client stays.
Admitted(kindOf) ==
  /\ Cardinality({k \in {"release", "manage"} : waiting[k]}) < Workers
  /\ ~waiting[kindOf] /\ waiting' = [waiting EXCEPT ![kindOf] = TRUE]
  /\ UNCHANGED <<lockOwner, picked, fences, hostVars, exitFaults>>

ReleaseBegins(scope) ==
  /\ waiting["release"] /\ lockOwner = NoOwner
  /\ lockOwner' = [step |-> "fence", scope |-> scope, todo |-> InScope(scope)]
  /\ picked' = {}
  /\ UNCHANGED <<waiting, fences, hostVars, exitFaults>>

\* The fence lives as long as the owner's selection.
ReleaseEnds == /\ lockOwner' = NoOwner /\ fences' = {} /\ picked' = {}
               /\ waiting' = [waiting EXCEPT !["release"] = FALSE]

\* resource_fence: the command gate, then the run lease, neither waited for.
Fenceable(s) == s \notin gone \cup busy
\* verify_fenced_idle: nothing executing, queued or waiting on a dialog.
ProvenIdle(s) == s \in ready \ busy

FenceNext(s) ==
  /\ lockOwner.step = "fence" /\ s \in lockOwner.todo
  /\ IF Fenceable(s) /\ ProvenIdle(s)
     THEN /\ picked' = picked \cup {s} /\ fences' = fences \cup {s}
          /\ lockOwner' = [lockOwner EXCEPT !.todo = @ \ {s}] /\ UNCHANGED waiting
     ELSE ReleaseEnds
  /\ UNCHANGED <<hostVars, exitFaults>>

AllFenced ==
  /\ lockOwner.step = "fence" /\ lockOwner.todo = {}
  /\ lockOwner' = [lockOwner EXCEPT !.step = "capture", !.todo = picked]
  /\ UNCHANGED <<waiting, picked, fences, hostVars, exitFaults>>

\* capture_idle_settings_for_stop: the proof again, then the record is saved.
CaptureNext(s) ==
  /\ lockOwner.step = "capture" /\ s \in lockOwner.todo
  /\ IF ProvenIdle(s)
     THEN /\ captured' = [captured EXCEPT ![s] = setting[s]]
          /\ lockOwner' = [lockOwner EXCEPT !.todo = @ \ {s}]
          /\ UNCHANGED <<waiting, picked, fences>>
     ELSE ReleaseEnds /\ UNCHANGED captured
  /\ UNCHANGED <<entry, alive, ready, gone, busy, setting, storageFailed, exitFaults>>

\* A probe of the native fails: the release ends with every host still usable.
CaptureFails ==
  /\ lockOwner.step = "capture" /\ lockOwner.todo # {} /\ ReleaseEnds
  /\ UNCHANGED <<hostVars, exitFaults>>

\* publish_record fails: the release ends, and the host of that session alone
\* stays retired, whether or not the record reached the disk.
CaptureUnsaved(s) ==
  /\ lockOwner.step = "capture" /\ s \in lockOwner.todo /\ ProvenIdle(s)
  /\ storageFailed' = storageFailed \cup {s} /\ gone' = gone \cup {s}
  /\ captured' \in {captured, [captured EXCEPT ![s] = setting[s]]}
  /\ ReleaseEnds /\ UNCHANGED <<entry, alive, ready, busy, setting, exitFaults>>

RetireAll ==
  /\ lockOwner.step = "capture" /\ lockOwner.todo = {}
  /\ gone' = gone \cup picked
  /\ lockOwner' = [lockOwner EXCEPT !.step = "exit", !.todo = picked]
  /\ UNCHANGED <<waiting, picked, fences, entry, alive, ready, busy, setting, captured,
                 storageFailed, exitFaults>>

\* await_resource_exit misses its deadline: the release ends with an error;
\* the host stays in the map, retired.
ExitMissed(s) ==
  /\ lockOwner.step = "exit" /\ s \in lockOwner.todo /\ alive[s] = 1
  /\ exitFaults < MaxExitFaults /\ exitFaults' = exitFaults + 1
  /\ ReleaseEnds /\ UNCHANGED hostVars

\* The exit is confirmed and the host leaves the map.
ExitConfirmed(s) ==
  /\ lockOwner.step = "exit" /\ s \in lockOwner.todo
  /\ alive' = [alive EXCEPT ![s] = 0]
  /\ entry' = entry \ {s} /\ ready' = ready \ {s} /\ gone' = gone \ {s}
  /\ lockOwner' = [lockOwner EXCEPT !.todo = @ \ {s}]
  /\ UNCHANGED <<waiting, picked, fences, busy, setting, captured, storageFailed, exitFaults>>

\* Answered with the released sessions; the lock goes with the answer.
Released ==
  /\ lockOwner.step = "exit" /\ lockOwner.todo = {} /\ ReleaseEnds
  /\ UNCHANGED <<hostVars, exitFaults>>

\* manage_resources: the native CLI runs under the lifecycle lock, within its
\* own deadline, whatever its outcome.
ManageBegins ==
  /\ waiting["manage"] /\ lockOwner = NoOwner
  /\ lockOwner' = [NoOwner EXCEPT !.step = "cli"]
  /\ UNCHANGED <<waiting, picked, fences, hostVars, exitFaults>>
ManageEnds ==
  /\ lockOwner.step = "cli" /\ lockOwner' = NoOwner
  /\ waiting' = [waiting EXCEPT !["manage"] = FALSE]
  /\ UNCHANGED <<picked, fences, hostVars, exitFaults>>

\* resource_project_fence: the lock is tried, the project's hosts are fenced
\* and proved idle, and the guard keeps both until it is dropped.
ProjectFenced ==
  /\ lockOwner = NoOwner
  /\ \A s \in InScope("project") : Fenceable(s) /\ ProvenIdle(s)
  /\ lockOwner' = [NoOwner EXCEPT !.step = "guard"] /\ fences' = InScope("project")
  /\ UNCHANGED <<waiting, picked, hostVars, exitFaults>>
GuardDropped ==
  /\ lockOwner.step = "guard" /\ lockOwner' = NoOwner /\ fences' = {}
  /\ UNCHANGED <<waiting, picked, hostVars, exitFaults>>

-----------------------------------------------------------------------------
ReleaseInit ==
  /\ waiting = [k \in {"release", "manage"} |-> FALSE]
  /\ lockOwner = NoOwner /\ picked = {} /\ fences = {}
  /\ entry = Sess /\ ready = Sess /\ gone = {} /\ busy = {}
  /\ alive = [s \in Sess |-> 1]
  /\ setting = [s \in Sess |-> 0] /\ captured = [s \in Sess |-> 0] /\ storageFailed = {}
  /\ exitFaults = 0

ReleaseOwner ==
  \/ \E scope \in {"project", "global"} : ReleaseBegins(scope)
  \/ \E s \in Sess : FenceNext(s) \/ CaptureNext(s) \/ CaptureUnsaved(s) \/ ExitMissed(s)
                       \/ ExitConfirmed(s)
  \/ AllFenced \/ CaptureFails \/ RetireAll \/ Released \/ ManageBegins \/ ManageEnds
  \/ GuardDropped

ReleaseNext ==
  \/ ReleaseOwner \/ ProjectFenced
  \/ \E k \in {"release", "manage"} : Admitted(k)
  \/ \E s \in Sess : RunBegins(s) \/ RunEnds(s) \/ SettingChanges(s) \/ ChildDies(s)
                       \/ OpenSession(s)

\* Fairness: an owner's task runs on, a guard is dropped, and the lifecycle
\* lock, which is first come first served, reaches every waiting owner.
ReleaseSteps ==
  \/ \E s \in Sess : FenceNext(s) \/ CaptureNext(s) \/ ExitMissed(s) \/ ExitConfirmed(s)
  \/ AllFenced \/ RetireAll \/ Released \/ ManageEnds \/ GuardDropped
SomeRelease == \E scope \in {"project", "global"} : ReleaseBegins(scope)

ReleaseSpec == /\ ReleaseInit /\ [][ReleaseNext]_relVars /\ WF_relVars(ReleaseSteps)
               /\ SF_relVars(SomeRelease) /\ SF_relVars(ManageBegins)

-----------------------------------------------------------------------------
\* A host is retired only with what its settings were when it stopped: no
\* change slips in between the proof of idleness, the capture and the exit,
\* and one whose capture could not be saved stays retired.
CaptureIsLast ==
  /\ \A s \in gone : s \notin busy /\ (captured[s] = setting[s] \/ s \in storageFailed)
  /\ storageFailed \subseteq gone

\* Neither a missed deadline nor a partial release lets a second native child
\* write the same session.
OneChildPerSession == \A s \in Sess : alive[s] <= 1

\* A release that is answered with success leaves no native child in its
\* scope: no session of it was opened meanwhile.
ReleaseComplete ==
  [][Released => \A s \in (IF lockOwner.scope = "global" THEN Sess ELSE ProjectSess) :
                    alive[s] = 0 /\ s \notin entry]_relVars

\* An admitted owner ends and gives its permit back.
OwnerOwed(k) == waiting[k]
OwnerMet(k) == ~waiting[k]
===============================================================================
