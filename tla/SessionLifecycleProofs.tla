----------------------- MODULE SessionLifecycleProofs -----------------------
(* What holds of the sessions a service owns, for every set of sessions, host *)
(* slots and workers, whatever fails and however often it is restarted: first *)
(* the sessions' types and owners, then what the registry, the session map and *)
(* the tasks say about each other and about the files of a session, with what *)
(* follows for deletion and for the sessions clients reach.                   *)
EXTENDS SessionLifecycle, FiniteSetTheorems, TLAPS

-----------------------------------------------------------------------------
(* Types, and who holds what.                                                *)

Pcs == {"idle", "lock", "exit", "configure", "spawn", "start", "publish", "close", "prefs",
        "stopall", "down", "prepare", "begin", "relock", "verify", "unlink", "forget"}
Tasks == [pc : Pcs, op : Ops \cup {"none", "reap"}, id : Ids \cup {NoId},
          host : Hosts \cup {NoHost}, plan : Fingerprints, at : Nat]
Slots == [id: Ids \cup {NoId}, status: {"live", "closed", "orphan"},
          child: {"down", "starting", "up"}]

\* A worker past the lock and not yet at its end.
InLock(w) == work[w].pc \notin {"idle", "lock", "down"}

Types ==
  /\ lifecycle \in Workers \cup {Nobody} /\ closing \in BOOLEAN
  /\ sessions \in [Ids -> Hosts \cup {NoHost}]
  /\ durable \in [Ids -> Hosts \cup {NoHost}]
  /\ latched \subseteq Configured /\ command \in Ids \cup {NoId}
  /\ host \in [Hosts -> Slots]
  /\ mem \in Registry /\ disk \in Registry /\ temp \in BOOLEAN
  /\ files \in [Ids -> Fingerprints] /\ writes \in [Ids -> 0..MaxWrites]
  /\ lock \in [Ids -> Workers \cup Hosts \cup {Outsider, Nobody}]
  /\ forgotten \subseteq Ids /\ crashes \in 0..MaxCrashes
  /\ work \in [Workers -> Tasks]

\* Whoever is past the lock holds it, works on a session, and has the host
\* its step needs.
Serial ==
  \A w \in Workers :
    /\ InLock(w) => lifecycle = w
    /\ lifecycle = w => InLock(w)
    /\ InLock(w) \/ At(w, "lock") => work[w].id \in Ids
    /\ At(w, "start") \/ At(w, "publish") => work[w].host \in Hosts
    /\ At(w, "exit") \/ At(w, "close") => sessions[work[w].id] # NoHost
    /\ At(w, "unlink") => work[w].at >= 1

\* A worker holds a native lock while it deletes, that of its session; a
\* child, while it is up, that of its own.
Locked ==
  /\ \A w \in Workers, i \in Ids : lock[i] = w => work[w].pc \in Deleting /\ work[w].id = i
  /\ \A w \in Workers : work[w].pc \in Deleting => lock[work[w].id] = w
  /\ \A h \in Hosts, i \in Ids : lock[i] = h => host[h].child = "up" /\ host[h].id = i

TypeInv == Types /\ Serial /\ Locked

(* The primary transcript is one of the kinds of file. *)
LEMMA KindFacts == /\ Primary \in KindSet
                   /\ \A n \in Nat : n >= 1 /\ n <= Len(Kinds) => Kinds[n] \in KindSet
                   /\ Len(Kinds) \in Nat
<1>1. Kinds \in Seq(KindSet) /\ Kinds # << >>
  BY LifecycleConstants
<1>2. Len(Kinds) \in Nat /\ Len(Kinds) >= 1
  BY <1>1
<1>3. 1 \in 1..Len(Kinds) /\ \A n \in Nat : n >= 1 /\ n <= Len(Kinds) => n \in 1..Len(Kinds)
  BY <1>2
<1> QED
  BY <1>2, <1>3 DEF KindSet, Primary

(* The initial state is well typed and unlocked. *)
LEMMA TypeInit == Init => TypeInv
<1> SUFFICES ASSUME Init PROVE TypeInv
  OBVIOUS
<1>1. NoPlan \in Fingerprints /\ Primary \in KindSet
  BY KindFacts, LifecycleConstants DEF NoPlan, Fingerprints
<1>2. files \in [Ids -> Fingerprints]
  BY <1>1, LifecycleConstants DEF Init, Fingerprints
<1>3. work \in [Workers -> Tasks]
  BY <1>1 DEF Init, Idle, Tasks, Pcs
<1>4. mem \in Registry /\ disk \in Registry
  BY <1>1, LifecycleConstants DEF Init, Registry
<1>5. writes \in [Ids -> 0..MaxWrites] /\ crashes \in 0..MaxCrashes
  BY LifecycleConstants DEF Init
<1>6. host \in [Hosts -> Slots]
  BY DEF Init, NoChild, Slots
<1>7. closing \in BOOLEAN /\ temp \in BOOLEAN
  BY Zenon DEF Init
<1>8. Types
  BY <1>2, <1>3, <1>4, <1>5, <1>6, <1>7 DEF Init, Types
<1>9. Serial /\ Locked
  BY LifecycleConstants DEF Init, Serial, Locked, InLock, At, Idle, Deleting
<1> QED
  BY <1>8, <1>9 DEF TypeInv

(* An idle task is a task. *)
LEMMA IdleTask == Idle \in Tasks
<1>1. NoPlan \in Fingerprints
  BY LifecycleConstants DEF NoPlan, Fingerprints
<1> QED
  BY <1>1 DEF Idle, Tasks, Pcs

(* Workers but w keep their tasks, and w's becomes the one described. *)
Becomes(w, pc, op, id, h, plan, at) ==
  /\ work' \in [Workers -> Tasks]
  /\ \A v \in Workers : v # w => work'[v] = work[v]
  /\ work'[w].pc = pc /\ work'[w].op = op /\ work'[w].id = id
  /\ work'[w].host = h /\ work'[w].plan = plan /\ work'[w].at = at

(* The fields of a task. *)
LEMMA TaskFields ==
  ASSUME work \in [Workers -> Tasks], NEW w \in Workers
  PROVE  /\ work[w] \in Tasks /\ work[w].pc \in Pcs /\ work[w].op \in Ops \cup {"none", "reap"}
         /\ work[w].id \in Ids \cup {NoId} /\ work[w].host \in Hosts \cup {NoHost}
         /\ work[w].plan \in Fingerprints /\ work[w].at \in Nat
BY DEF Tasks

(* Each EXCEPT on a task changes the field it names and no other. *)
LEMMA PcMoves ==
  ASSUME work \in [Workers -> Tasks], NEW w \in Workers, NEW pc \in Pcs,
         work' = [work EXCEPT ![w].pc = pc]
  PROVE  Becomes(w, pc, work[w].op, work[w].id, work[w].host, work[w].plan, work[w].at)
BY DEF Becomes, Tasks

LEMMA IdMoves ==
  ASSUME work \in [Workers -> Tasks], NEW w \in Workers, NEW pc \in Pcs, NEW i \in Ids,
         work' = [work EXCEPT ![w].pc = pc, ![w].id = i]
  PROVE  Becomes(w, pc, work[w].op, i, work[w].host, work[w].plan, work[w].at)
BY DEF Becomes, Tasks

LEMMA HostMoves ==
  ASSUME work \in [Workers -> Tasks], NEW w \in Workers, NEW pc \in Pcs, NEW h \in Hosts,
         work' = [work EXCEPT ![w].pc = pc, ![w].host = h]
  PROVE  Becomes(w, pc, work[w].op, work[w].id, h, work[w].plan, work[w].at)
BY DEF Becomes, Tasks

LEMMA PlanMoves ==
  ASSUME work \in [Workers -> Tasks], NEW w \in Workers, NEW pc \in Pcs, NEW f \in Fingerprints,
         work' = [work EXCEPT ![w].pc = pc, ![w].plan = f]
  PROVE  Becomes(w, pc, work[w].op, work[w].id, work[w].host, f, work[w].at)
BY DEF Becomes, Tasks

LEMMA AtMoves ==
  ASSUME work \in [Workers -> Tasks], NEW w \in Workers, NEW pc \in Pcs, NEW n \in Nat,
         work' = [work EXCEPT ![w].pc = pc, ![w].at = n]
  PROVE  Becomes(w, pc, work[w].op, work[w].id, work[w].host, work[w].plan, n)
BY DEF Becomes, Tasks

(* A task that finishes is idle. *)
LEMMA TaskEnds ==
  ASSUME work \in [Workers -> Tasks], NEW w \in Workers, work' = [work EXCEPT ![w] = Idle]
  PROVE  Becomes(w, "idle", "none", NoId, NoHost, NoPlan, 0)
BY IdleTask DEF Becomes, Tasks, Idle

Leaves(w) == Becomes(w, "idle", "none", NoId, NoHost, NoPlan, 0)
Stays(w, pc) ==
  Becomes(w, pc, work[w].op, work[w].id, work[w].host, work[w].plan, work[w].at)

(* What the program counters do. *)
LEMMA Control ==
  ASSUME work \in [Workers -> Tasks], NEW w \in Workers
  PROVE  /\ Finish(w) => Leaves(w) /\ lifecycle' = Nobody
         /\ Refuse(w) => Leaves(w) /\ lifecycle' = lifecycle
         /\ \A pc \in Pcs : Goto(w, pc) => Stays(w, pc) /\ lifecycle' = lifecycle
         /\ \A pc \in Pcs : Enter(w, pc) => Stays(w, pc) /\ lifecycle' = w
         /\ \A id \in Ids : New(w, id) =>
              /\ \E pc \in {"configure", "spawn"} :
                   Becomes(w, pc, work[w].op, id, work[w].host, work[w].plan, work[w].at)
              /\ lifecycle' = w /\ Fresh(id)
<1>1. Finish(w) => Leaves(w) /\ lifecycle' = Nobody
  BY TaskEnds DEF Finish, Leaves
<1>2. Refuse(w) => Leaves(w) /\ lifecycle' = lifecycle
  BY TaskEnds DEF Refuse, Leaves
<1>3. ASSUME NEW pc \in Pcs, Goto(w, pc) PROVE Stays(w, pc) /\ lifecycle' = lifecycle
  BY <1>3, PcMoves DEF Goto, Stays
<1>4. ASSUME NEW pc \in Pcs, Enter(w, pc) PROVE Stays(w, pc) /\ lifecycle' = w
  BY <1>4, PcMoves DEF Enter, Stays
<1>5. ASSUME NEW id \in Ids, New(w, id)
      PROVE  /\ \E pc \in {"configure", "spawn"} :
                  Becomes(w, pc, work[w].op, id, work[w].host, work[w].plan, work[w].at)
             /\ lifecycle' = w /\ Fresh(id)
  <2>1. PICK pc \in {"configure", "spawn"} : work' = [work EXCEPT ![w].pc = pc, ![w].id = id]
    <3>1. work' = [work EXCEPT ![w].id = id, ![w].pc =
                     IF work[w].op = "create" /\ id \in Configured THEN "configure" ELSE "spawn"]
      BY <1>5 DEF New
    <3> QED
      BY <3>1
  <2>2. pc \in Pcs
    BY DEF Pcs
  <2>3. Becomes(w, pc, work[w].op, id, work[w].host, work[w].plan, work[w].at)
    BY <2>1, <2>2, IdMoves
  <2> QED
    BY <1>5, <2>3 DEF New
<1> QED
  BY <1>1, <1>2, <1>3, <1>4, <1>5

-----------------------------------------------------------------------------
(* Hosts, their children and the native locks.                               *)

HostType == host \in [Hosts -> Slots] /\ lock \in [Ids -> Workers \cup Hosts \cup {Outsider, Nobody}]

\* Of the hosts only h changes, to what is described.
Turns(h, id, status, child) ==
  /\ host' \in [Hosts -> Slots]
  /\ \A g \in Hosts : g # h => host'[g] = host[g]
  /\ host'[h].id = id /\ host'[h].status = status /\ host'[h].child = child

\* The locks of h are free, the others as they were.
Releases(h) ==
  /\ lock' \in [Ids -> Workers \cup Hosts \cup {Outsider, Nobody}]
  /\ \A i \in Ids : lock'[i] = IF lock[i] = h THEN Nobody ELSE lock[i]

(* A confirmed stop ends one child and frees its lock. *)
LEMMA StopEffect ==
  ASSUME HostType, NEW h \in Hosts, Stopped(h)
  PROVE  Turns(h, host[h].id, "closed", "down") /\ Releases(h)
<1>1. Turns(h, host[h].id, "closed", "down")
  BY DEF HostType, Slots, Stopped, Turns
<1>2. Releases(h)
  BY DEF HostType, Stopped, Unlocked, Releases
<1> QED
  BY <1>1, <1>2

LEMMA UnconfirmedEffect ==
  ASSUME HostType, NEW h \in Hosts, Unconfirmed(h)
  PROVE  Turns(h, host[h].id, "closed", host[h].child) /\ host[h].child # "down" /\ lock' = lock
BY DEF HostType, Slots, Unconfirmed, Turns

LEMMA SpawnEffect ==
  ASSUME HostType, NEW h \in Hosts, NEW id \in Ids, Spawned(h, id)
  PROVE  Turns(h, id, "live", "starting") /\ host[h].child = "down" /\ ~Used(h)
BY DEF HostType, Slots, Spawned, Turns

LEMMA ExitEffect ==
  ASSUME HostType, NEW h \in Hosts, NativeExit(h)
  PROVE  Turns(h, host[h].id, host[h].status, "down") /\ Releases(h)
<1>1. Turns(h, host[h].id, host[h].status, "down")
  BY DEF HostType, Slots, NativeExit, Turns
<1>2. Releases(h)
  BY DEF HostType, NativeExit, Unlocked, Releases
<1> QED
  BY <1>1, <1>2

LEMMA ReadyEffect ==
  ASSUME HostType, NEW h \in Hosts, NativeReady(h)
  PROVE  /\ Turns(h, host[h].id, host[h].status, "up")
         /\ lock' \in [Ids -> Workers \cup Hosts \cup {Outsider, Nobody}]
         /\ \A i \in Ids : lock'[i] = IF i = host[h].id THEN h ELSE lock[i]
<1>1. Turns(h, host[h].id, host[h].status, "up")
  BY DEF HostType, Slots, NativeReady, Turns
<1>2. /\ lock' \in [Ids -> Workers \cup Hosts \cup {Outsider, Nobody}]
      /\ \A i \in Ids : lock'[i] = IF i = host[h].id THEN h ELSE lock[i]
  BY DEF HostType, NativeReady
<1> QED
  BY <1>1, <1>2

LEMMA ClosedEffect ==
  ASSUME HostType, NEW h \in Hosts, HostClosed(h)
  PROVE  Turns(h, host[h].id, "closed", host[h].child) /\ lock' = lock
BY DEF HostType, Slots, HostClosed, Turns, native

LEMMA ShutdownEffect ==
  ASSUME HostType, NEW w \in Workers, ShutdownAll(w)
  PROVE  \E gone \in SUBSET {h \in Hosts : \E i \in Ids : sessions[i] = h} :
           /\ ~StopUnconfirmed => gone = {h \in Hosts : \E i \in Ids : sessions[i] = h}
           /\ HostType'
           /\ \A g \in Hosts :
                /\ host'[g].id = host[g].id
                /\ host'[g].status \in {host[g].status, "closed"}
                /\ host'[g].child = IF g \in gone THEN "down" ELSE host[g].child
           /\ \A i \in Ids : lock'[i] = IF lock[i] \in gone THEN Nobody ELSE lock[i]
<1> DEFINE mapped == {h \in Hosts : \E i \in Ids : sessions[i] = h}
<1>1. PICK gone \in SUBSET mapped :
        /\ ~StopUnconfirmed => gone = mapped
        /\ host' = [h \in Hosts |->
             IF h \in gone THEN [host[h] EXCEPT !.status = "closed", !.child = "down"]
             ELSE IF h \in mapped THEN [host[h] EXCEPT !.status = "closed"] ELSE host[h]]
        /\ lock' = [i \in Ids |-> IF lock[i] \in gone THEN Nobody ELSE lock[i]]
  BY DEF ShutdownAll
<1> HIDE DEF mapped
<1>2. /\ host' \in [Hosts -> Slots]
      /\ \A g \in Hosts :
           /\ host'[g].id = host[g].id
           /\ host'[g].status \in {host[g].status, "closed"}
           /\ host'[g].child = IF g \in gone THEN "down" ELSE host[g].child
  BY <1>1 DEF HostType, Slots
<1>3. /\ lock' \in [Ids -> Workers \cup Hosts \cup {Outsider, Nobody}]
      /\ \A i \in Ids : lock'[i] = IF lock[i] \in gone THEN Nobody ELSE lock[i]
  BY <1>1 DEF HostType
<1> QED
  BY <1>1, <1>2, <1>3 DEF mapped, HostType

(* A restart makes every host slot an orphan's and frees the workers' locks. *)
LEMMA RestartEffect ==
  ASSUME HostType, NEW found, NEW left, Restart(found, left)
  PROVE  /\ HostType'
         /\ \A g \in Hosts : host'[g].id = host[g].id /\ host'[g].status = "orphan" /\ host'[g].child = host[g].child
         /\ \A i \in Ids : lock'[i] = IF lock[i] \in Workers THEN Nobody ELSE lock[i]
<1>1. /\ host' \in [Hosts -> Slots]
      /\ \A g \in Hosts : host'[g].id = host[g].id /\ host'[g].status = "orphan" /\ host'[g].child = host[g].child
  BY DEF Restart, HostType, Slots
<1>2. /\ lock' \in [Ids -> Workers \cup Hosts \cup {Outsider, Nobody}]
      /\ \A i \in Ids : lock'[i] = IF lock[i] \in Workers THEN Nobody ELSE lock[i]
  BY DEF Restart, HostType
<1> QED
  BY <1>1, <1>2 DEF HostType

-----------------------------------------------------------------------------
(* The registry.                                                             *)

StorageType == mem \in Registry /\ disk \in Registry /\ temp \in BOOLEAN

(* The fields of a registry. *)
LEMMA RegistryFields ==
  ASSUME NEW r \in Registry
  PROVE  /\ r.known \subseteq Ids /\ r.archived \subseteq Ids
         /\ r.deletions \in [Ids -> Fingerprints]
BY DEF Registry

(* Registries with equal fields are equal. *)
LEMMA SameRegistry ==
  ASSUME NEW r \in Registry, NEW s \in Registry, r.known = s.known, r.archived = s.archived,
         \A i \in Ids : r.deletions[i] = s.deletions[i]
  PROVE  r = s
<1>1. r.deletions = s.deletions
  BY DEF Registry
<1> QED
  BY <1>1 DEF Registry

(* No plan is the plan that captured nothing. *)
LEMMA NoPlanType == NoPlan \in Fingerprints
BY LifecycleConstants DEF NoPlan, Fingerprints

(* What each change of the registry gives. *)
LEMMA RememberedFields ==
  ASSUME mem \in Registry, NEW id \in Ids
  PROVE  /\ Remembered(id) \in Registry
         /\ Remembered(id).known = mem.known \cup {id}
         /\ Remembered(id).archived = mem.archived
         /\ Remembered(id).deletions = mem.deletions
BY DEF Registry, Remembered

LEMMA WithArchivedFields ==
  ASSUME mem \in Registry, NEW id \in Ids, NEW b \in BOOLEAN
  PROVE  /\ WithArchived(id, b) \in Registry
         /\ WithArchived(id, b).known = mem.known
         /\ b => WithArchived(id, b).archived = mem.archived \cup {id}
         /\ ~b => WithArchived(id, b).archived = mem.archived \ {id}
         /\ WithArchived(id, b).deletions = mem.deletions
BY DEF Registry, WithArchived

LEMMA WithPlanFields ==
  ASSUME mem \in Registry, NEW id \in Ids, NEW p \in Fingerprints
  PROVE  /\ WithPlan(id, p) \in Registry
         /\ WithPlan(id, p).known = mem.known
         /\ WithPlan(id, p).archived = mem.archived
         /\ WithPlan(id, p).deletions[id] = p
         /\ \A i \in Ids : i # id => WithPlan(id, p).deletions[i] = mem.deletions[i]
BY DEF Registry, WithPlan

LEMMA RemovedFields ==
  ASSUME mem \in Registry, NEW id \in Ids
  PROVE  /\ Removed(id) \in Registry
         /\ Removed(id).known = mem.known \ {id}
         /\ Removed(id).archived = mem.archived \ {id}
         /\ Removed(id).deletions[id] = NoPlan
         /\ \A i \in Ids : i # id => Removed(id).deletions[i] = mem.deletions[i]
BY NoPlanType DEF Registry, Removed

(* A save that succeeds puts the new registry in memory and on disk. *)
LEMMA SavedEffect ==
  ASSUME StorageType, NEW new \in Registry, Saved(new)
  PROVE  StorageType' /\ mem' = new /\ disk' = new /\ temp' = temp
BY DEF StorageType, Saved

(* A save that fails leaves memory, and the old or the new file on disk. *)
LEMMA SaveFailedEffect ==
  ASSUME StorageType, NEW new \in Registry, SaveFailed(new)
  PROVE  StorageType' /\ mem' = mem /\ temp' = temp /\ disk' \in {disk, new}
BY DEF StorageType, SaveFailed

(* A configured session is remembered before its host is started, or the *)
(* request ends. *)
LEMMA ConfigureTask ==
  ASSUME work \in [Workers -> Tasks], StorageType, Serial, NEW w \in Workers, Configure(w)
  PROVE  /\ At(w, "configure") /\ work[w].id \in Ids
         /\ \/ /\ Stays(w, "spawn") /\ lifecycle' = lifecycle
               /\ mem' = Remembered(work[w].id) /\ disk' = mem'
            \/ /\ Leaves(w) /\ lifecycle' = Nobody /\ mem' = mem
               /\ disk' \in {disk, Remembered(work[w].id)}
         /\ StorageType'
         /\ UNCHANGED <<closing, sessions, durable, latched, command, host, lock, files, writes,
                        forgotten, crashes>>
<1>1. At(w, "configure") /\ work[w].id \in Ids
  BY DEF Configure, Serial, InLock, At
<1> DEFINE new == Remembered(work[w].id)
<1>2. new \in Registry
  BY <1>1, RememberedFields DEF StorageType
<1>3. \/ Saved(new) /\ Goto(w, "spawn")
      \/ (SaveFailed(new) \/ UNCHANGED storage) /\ Finish(w)
  BY DEF Configure
<1> HIDE DEF new
<1>4. UNCHANGED <<closing, sessions, durable, latched, command, host, lock, files, writes,
                  forgotten, crashes>>
  BY DEF Configure, native
<1>5. /\ \/ /\ Stays(w, "spawn") /\ lifecycle' = lifecycle
            /\ mem' = new /\ disk' = mem'
         \/ /\ Leaves(w) /\ lifecycle' = Nobody /\ mem' = mem
            /\ disk' \in {disk, new}
      /\ StorageType'
  BY <1>2, <1>3, SavedEffect, SaveFailedEffect, Control DEF storage, StorageType, Pcs
<1> QED
  BY <1>1, <1>4, <1>5 DEF new

(* What a crash may leave half saved. *)
LEMMA SavingIs ==
  ASSUME NEW w, NEW new \in Saving(w)
  PROVE  \/ /\ At(w, "configure") \/ (At(w, "publish") /\ MayPublish(w))
            /\ new = Remembered(work[w].id)
         \/ At(w, "prefs") /\ new = Preferences(w)
         \/ At(w, "begin") /\ MayBegin(work[w].id) /\ new = WithPlan(work[w].id, work[w].plan)
         \/ At(w, "forget") /\ new = Removed(work[w].id)
<1>1. CASE At(w, "configure") \/ (At(w, "publish") /\ MayPublish(w))
  BY <1>1 DEF Saving, At
<1>2. CASE At(w, "prefs")
  BY <1>2 DEF Saving, At
<1>3. CASE At(w, "begin") /\ MayBegin(work[w].id)
  BY <1>3 DEF Saving, At
<1>4. CASE At(w, "forget")
  BY <1>4 DEF Saving, At
<1>5. CASE ~At(w, "configure") /\ ~(At(w, "publish") /\ MayPublish(w)) /\ ~At(w, "prefs") /\ ~(At(w, "begin") /\ MayBegin(work[w].id)) /\ ~At(w, "forget")
  <2>1. Saving(w) = {}
    BY <1>5 DEF Saving
  <2> QED
    BY <2>1
<1> QED
  BY <1>1, <1>2, <1>3, <1>4, <1>5

(* A crash in the middle of a save leaves the old or the new file. *)
LEMMA CrashSavingIs ==
  ASSUME CrashSaving
  PROVE  \E new, left :
           /\ Restart(new, left) /\ left \in BOOLEAN
           /\ \/ new = disk
              \/ new = mem
              \/ \E w \in Workers : new \in Saving(w)
<1> DEFINE Begun == UNION {Saving(w) : w \in Workers}
           Titled == {mem : x \in {command} \cap mem.known}
<1>0. \E new \in Begun \cup Titled : Restart(disk, TRUE) \/ Restart(new, FALSE)
  BY Zenon DEF CrashSaving
<1> HIDE DEF Begun, Titled
<1>1. PICK new : (new \in Begun \/ new \in Titled) /\ (Restart(disk, TRUE) \/ Restart(new, FALSE))
  BY <1>0, Zenon
<1>2. \/ new = mem
      \/ \E w \in Workers : new \in Saving(w)
  <2>2. ASSUME new \in Begun PROVE \E w \in Workers : new \in Saving(w)
    BY <2>2, Zenon DEF Begun
  <2>3. ASSUME new \in Titled PROVE new = mem
    BY <2>3, Zenon DEF Titled
  <2> QED
    BY <1>1, <2>2, <2>3, Zenon
<1>3. ASSUME Restart(disk, TRUE)
      PROVE  \E found, left : Restart(found, left) /\ left \in BOOLEAN /\ found = disk
  BY <1>3, Zenon
<1>4. ASSUME Restart(new, FALSE)
      PROVE  \E found, left : Restart(found, left) /\ left \in BOOLEAN /\ found = new
  BY <1>4, Zenon
<1> QED
  BY <1>1, <1>2, <1>3, <1>4

(* A restart loads memory from the disk. *)
LEMMA RestartStorage ==
  ASSUME NEW found, NEW left, Restart(found, left)
  PROVE  /\ mem' = found /\ disk' = found /\ temp' = left
         /\ work' = [w \in Workers |-> Idle] /\ lifecycle' = Nobody
         /\ sessions' = [i \in Ids |-> NoHost] /\ durable' = [i \in Ids |-> NoHost]
         /\ closing' = FALSE /\ command' = NoId /\ latched' = {}
         /\ crashes < MaxCrashes /\ crashes' = crashes + 1
         /\ files' = files /\ writes' = writes /\ forgotten' = forgotten
BY Zenon DEF Restart

-----------------------------------------------------------------------------
(* The steps that change a task and more, field by field.                   *)

SessionsType ==
  sessions \in [Ids -> Hosts \cup {NoHost}] /\ durable \in [Ids -> Hosts \cup {NoHost}]

(* What the invariant says of each group of variables. *)
LEMMA TypeFacts ==
  ASSUME TypeInv
  PROVE  /\ work \in [Workers -> Tasks] /\ HostType /\ StorageType /\ SessionsType
         /\ files \in [Ids -> Fingerprints] /\ writes \in [Ids -> 0..MaxWrites]
         /\ Serial /\ Locked
BY DEF TypeInv, Types, HostType, StorageType, SessionsType

\* The session of a worker is in the host slot, if any, of its own and no other.
Detached(w) ==
  /\ sessions' \in [Ids -> Hosts \cup {NoHost}] /\ durable' \in [Ids -> Hosts \cup {NoHost}]
  /\ sessions'[work[w].id] = NoHost /\ durable'[work[w].id] = NoHost
  /\ \A i \in Ids : i # work[w].id => sessions'[i] = sessions[i] /\ durable'[i] = durable[i]

(* A request puts an idle worker in line for the mutex. *)
LEMMA RequestEffect ==
  ASSUME TypeInv, NEW w \in Workers, NEW id \in Ids, NEW op \in Ops, Request(w, op, id)
  PROVE  /\ At(w, "idle") /\ Becomes(w, "lock", op, id, NoHost, NoPlan, 0)
         /\ closing' = (closing \/ op = "shutdown")
         /\ UNCHANGED <<lifecycle, sessions, durable, latched, command, mem, disk, temp,
                        files, writes, lock, host, forgotten, crashes>>
<1> DEFINE t == [Idle EXCEPT !.pc = "lock", !.op = op, !.id = id]
<1>1. work \in [Workers -> Tasks] /\ NoPlan \in Fingerprints
  BY NoPlanType, TypeFacts
<1>2. /\ t \in Tasks /\ t.pc = "lock" /\ t.op = op /\ t.id = id
      /\ t.host = NoHost /\ t.plan = NoPlan /\ t.at = 0
  BY <1>1 DEF Idle, Tasks, Pcs
<1>3. work' = [work EXCEPT ![w] = t]
  BY DEF Request
<1> HIDE DEF t
<1>4. Becomes(w, "lock", op, id, NoHost, NoPlan, 0)
  BY <1>1, <1>2, <1>3 DEF Becomes
<1> QED
  BY <1>4 DEF Request, storage, native

LEMMA ReapEffect ==
  ASSUME TypeInv, NEW w \in Workers, NEW id \in Ids, ReapBegin(w, id)
  PROVE  /\ At(w, "idle") /\ lifecycle = Nobody /\ ~closing /\ sessions[id] # NoHost
         /\ Becomes(w, "close", "reap", id, NoHost, NoPlan, 0) /\ lifecycle' = w
         /\ ServiceStep
<1> DEFINE t == [Idle EXCEPT !.pc = "close", !.op = "reap", !.id = id]
<1>1. work \in [Workers -> Tasks] /\ NoPlan \in Fingerprints
  BY NoPlanType, TypeFacts
<1>2. /\ t \in Tasks /\ t.pc = "close" /\ t.op = "reap" /\ t.id = id
      /\ t.host = NoHost /\ t.plan = NoPlan /\ t.at = 0
  BY <1>1 DEF Idle, Tasks, Pcs
<1>3. work' = [work EXCEPT ![w] = t]
  BY DEF ReapBegin
<1> HIDE DEF t
<1>4. Becomes(w, "close", "reap", id, NoHost, NoPlan, 0)
  BY <1>1, <1>2, <1>3 DEF Becomes
<1> QED
  BY <1>4 DEF ReapBegin, LockFree

(* A spawn hands the worker its host slot. *)
LEMMA SpawnTask ==
  ASSUME TypeInv, NEW w \in Workers, NEW h \in Hosts, Spawn(w, h)
  PROVE  /\ At(w, "spawn") /\ work[w].id \in Ids /\ Spawned(h, work[w].id)
         /\ Becomes(w, "start", work[w].op, work[w].id, h, work[w].plan, work[w].at)
         /\ UNCHANGED <<lifecycle, closing, sessions, durable, latched, command, mem, disk, temp,
                        files, writes, lock, forgotten, crashes>>
<1>1. work \in [Workers -> Tasks] /\ Serial /\ "start" \in Pcs
  BY TypeFacts DEF Pcs
<1>2. work' = [work EXCEPT ![w].pc = "start", ![w].host = h]
  BY DEF Spawn
<1>3. Becomes(w, "start", work[w].op, work[w].id, h, work[w].plan, work[w].at)
  BY <1>1, <1>2, HostMoves
<1> QED
  BY <1>1, <1>3 DEF Spawn, Serial, InLock, At, storage, native

LEMMA OpenExitEffect ==
  ASSUME TypeInv, NEW w \in Workers, OpenExit(w)
  PROVE  /\ At(w, "exit") /\ work[w].id \in Ids /\ sessions[work[w].id] \in Hosts
         /\ \/ Stopped(sessions[work[w].id]) /\ Goto(w, "spawn") /\ Detached(w)
            \/ Unconfirmed(sessions[work[w].id]) /\ Finish(w) /\ UNCHANGED <<sessions, durable>>
         /\ UNCHANGED <<closing, latched, command, mem, disk, temp, files, writes, forgotten, crashes>>
<1>1. SessionsType /\ Serial
  BY TypeFacts
<1>2. At(w, "exit") /\ work[w].id \in Ids /\ sessions[work[w].id] \in Hosts
  BY <1>1 DEF OpenExit, Serial, InLock, At, SessionsType
<1>3. ASSUME sessions' = [sessions EXCEPT ![work[w].id] = NoHost],
             durable' = [durable EXCEPT ![work[w].id] = NoHost]
      PROVE  Detached(w)
  BY <1>1, <1>2, <1>3 DEF Detached, SessionsType
<1> QED
  BY <1>2, <1>3 DEF OpenExit, storage

LEMMA CloseEffect ==
  ASSUME TypeInv, NEW w \in Workers, Close(w)
  PROVE  /\ At(w, "close") /\ work[w].id \in Ids /\ sessions[work[w].id] \in Hosts
         /\ \/ /\ Stopped(sessions[work[w].id]) /\ Detached(w)
               /\ \/ work[w].op = "delete" /\ Goto(w, "prepare")
                  \/ work[w].op = "archive" /\ Goto(w, "prefs")
                  \/ work[w].op \notin {"delete", "archive"} /\ Finish(w)
            \/ Finish(w) /\ UNCHANGED <<sessions, durable, host, lock>>
            \/ Unconfirmed(sessions[work[w].id]) /\ Finish(w) /\ UNCHANGED <<sessions, durable>>
         /\ UNCHANGED <<closing, latched, command, mem, disk, temp, files, writes, forgotten, crashes>>
<1>1. SessionsType /\ Serial
  BY TypeFacts
<1>2. At(w, "close") /\ work[w].id \in Ids /\ sessions[work[w].id] \in Hosts
  BY <1>1 DEF Close, Serial, InLock, At, SessionsType
<1>3. ASSUME sessions' = [sessions EXCEPT ![work[w].id] = NoHost],
             durable' = [durable EXCEPT ![work[w].id] = NoHost]
      PROVE  Detached(w)
  BY <1>1, <1>2, <1>3 DEF Detached, SessionsType
<1>4. ASSUME AfterClose(w)
      PROVE  \/ work[w].op = "delete" /\ Goto(w, "prepare")
             \/ work[w].op = "archive" /\ Goto(w, "prefs")
             \/ work[w].op \notin {"delete", "archive"} /\ Finish(w)
  BY <1>4 DEF AfterClose
<1> QED
  BY <1>2, <1>3, <1>4 DEF Close, CloseDone, storage

LEMMA ShutdownTask ==
  ASSUME TypeInv, NEW w \in Workers, ShutdownAll(w)
  PROVE  /\ At(w, "stopall") /\ Becomes(w, "down", "none", NoId, NoHost, NoPlan, 0)
         /\ lifecycle' = Nobody /\ durable' = [i \in Ids |-> NoHost]
         /\ UNCHANGED <<closing, sessions, latched, command, mem, disk, temp,
                        files, writes, forgotten, crashes>>
<1> DEFINE t == [Idle EXCEPT !.pc = "down"]
<1>1. work \in [Workers -> Tasks] /\ NoPlan \in Fingerprints
  BY NoPlanType, TypeFacts
<1>2. /\ t \in Tasks /\ t.pc = "down" /\ t.op = "none" /\ t.id = NoId
      /\ t.host = NoHost /\ t.plan = NoPlan /\ t.at = 0
  BY <1>1 DEF Idle, Tasks, Pcs
<1>3. work' = [work EXCEPT ![w] = t]
  BY DEF ShutdownAll
<1> HIDE DEF t
<1>4. Becomes(w, "down", "none", NoId, NoHost, NoPlan, 0)
  BY <1>1, <1>2, <1>3 DEF Becomes
<1> QED
  BY <1>4 DEF ShutdownAll, storage

\* The native lock of the worker's session is taken by it.
Takes(w) ==
  /\ lock[work[w].id] = Nobody
  /\ lock' \in [Ids -> Workers \cup Hosts \cup {Outsider, Nobody}]
  /\ lock'[work[w].id] = w /\ \A i \in Ids : i # work[w].id => lock'[i] = lock[i]

(* TakeLock and Unlock move the native lock of one session. *)
LEMMA LockEffect ==
  ASSUME HostType, NEW w \in Workers, work[w].id \in Ids
  PROVE  /\ TakeLock(w, work[w].id) => Takes(w)
         /\ Unlock(w) => Releases(w)
<1>1. ASSUME TakeLock(w, work[w].id) PROVE Takes(w)
  BY <1>1 DEF TakeLock, Takes, HostType
<1>2. ASSUME Unlock(w) PROVE Releases(w)
  BY <1>2 DEF Unlock, Releases, HostType
<1> QED
  BY <1>1, <1>2

LEMMA PrepareEffect ==
  ASSUME TypeInv, NEW w \in Workers, Prepare(w)
  PROVE  /\ At(w, "prepare") /\ work[w].id \in Ids
         /\ \/ /\ Discovered(work[w].id) /\ Takes(w) /\ UNCHANGED lifecycle
               /\ Becomes(w, "begin", work[w].op, work[w].id, work[w].host, files[work[w].id], work[w].at)
            \/ Leaves(w) /\ lifecycle' = Nobody /\ UNCHANGED lock
         /\ UNCHANGED <<closing, sessions, durable, latched, command, mem, disk, temp, host,
                        files, writes, forgotten, crashes>>
<1>1. work \in [Workers -> Tasks] /\ Serial /\ HostType /\ files \in [Ids -> Fingerprints]
  BY TypeFacts
<1>2. At(w, "prepare") /\ work[w].id \in Ids
  BY <1>1 DEF Prepare, Serial, InLock, At
<1>3. files[work[w].id] \in Fingerprints /\ "begin" \in Pcs
  BY <1>1, <1>2 DEF Pcs
<1>4. ASSUME work' = [work EXCEPT ![w].pc = "begin", ![w].plan = files[work[w].id]]
      PROVE  Becomes(w, "begin", work[w].op, work[w].id, work[w].host, files[work[w].id], work[w].at)
  BY <1>1, <1>3, <1>4, PlanMoves
<1>5. Finish(w) => Leaves(w) /\ lifecycle' = Nobody
  BY <1>1, Control
<1>6. TakeLock(w, work[w].id) => Takes(w)
  BY <1>1, <1>2, LockEffect
<1> QED
  BY <1>2, <1>4, <1>5, <1>6 DEF Prepare, storage

LEMMA RelockEffect ==
  ASSUME TypeInv, NEW w \in Workers, Relock(w)
  PROVE  /\ At(w, "relock") /\ work[w].id \in Ids /\ Takes(w)
         /\ Becomes(w, "verify", work[w].op, work[w].id, work[w].host, mem.deletions[work[w].id], work[w].at)
         /\ UNCHANGED <<lifecycle, files>> /\ Executing
<1>1. work \in [Workers -> Tasks] /\ Serial /\ HostType /\ StorageType
  BY TypeFacts
<1>2. At(w, "relock") /\ work[w].id \in Ids
  BY <1>1 DEF Relock, Serial, InLock, At
<1>3. mem.deletions[work[w].id] \in Fingerprints /\ "verify" \in Pcs
  BY <1>1, <1>2, RegistryFields DEF Pcs, StorageType
<1>4. Becomes(w, "verify", work[w].op, work[w].id, work[w].host, mem.deletions[work[w].id], work[w].at)
  <2>1. work' = [work EXCEPT ![w].pc = "verify", ![w].plan = mem.deletions[work[w].id]]
    BY DEF Relock
  <2> QED
    BY <2>1, <1>1, <1>3, PlanMoves
<1>5. Takes(w)
  BY <1>1, <1>2, LockEffect DEF Relock
<1> QED
  BY <1>2, <1>4, <1>5 DEF Relock

LEMMA VerifyEffect ==
  ASSUME TypeInv, NEW w \in Workers, Verify(w)
  PROVE  /\ At(w, "verify") /\ work[w].id \in Ids /\ \A k \in KindSet : Matches(w, k)
         /\ Becomes(w, "unlink", work[w].op, work[w].id, work[w].host, work[w].plan, 1)
         /\ UNCHANGED <<lifecycle, lock, files>> /\ Executing
<1>1. work \in [Workers -> Tasks] /\ Serial /\ "unlink" \in Pcs
  BY TypeFacts DEF Pcs
<1>2. work' = [work EXCEPT ![w].pc = "unlink", ![w].at = 1]
  BY DEF Verify
<1>3. Becomes(w, "unlink", work[w].op, work[w].id, work[w].host, work[w].plan, 1)
  BY <1>1, <1>2, AtMoves
<1> QED
  BY <1>1, <1>3 DEF Verify, Serial, InLock, At

(* An unlink erases one file of one session. *)
LEMMA ErasedEffect ==
  ASSUME files \in [Ids -> Fingerprints], NEW id \in Ids, NEW k \in KindSet,
         files' = [files EXCEPT ![id][k] = 0]
  PROVE  /\ files' \in [Ids -> Fingerprints] /\ files'[id][k] = 0
         /\ \A i \in Ids, f \in KindSet : i # id \/ f # k => files'[i][f] = files[i][f]
<1>1. 0 \in 0..MaxWrites
  BY LifecycleConstants
<1> QED
  BY <1>1 DEF Fingerprints

LEMMA UnlinkEffect ==
  ASSUME TypeInv, NEW w \in Workers, Unlink(w)
  PROVE  /\ At(w, "unlink") /\ work[w].id \in Ids
         /\ Becomes(w, "unlink", work[w].op, work[w].id, work[w].host, work[w].plan, work[w].at + 1)
         /\ files' \in [Ids -> Fingerprints]
         /\ \/ files' = files
            \/ \E k \in KindSet :
                 /\ work[w].plan[k] # 0 /\ files[work[w].id][k] \in {0, work[w].plan[k]}
                 /\ files'[work[w].id][k] = 0
                 /\ \A i \in Ids, f \in KindSet : i # work[w].id \/ f # k => files'[i][f] = files[i][f]
         /\ UNCHANGED <<lifecycle, lock>> /\ Executing
<1>1. work \in [Workers -> Tasks] /\ Serial /\ files \in [Ids -> Fingerprints]
  BY TypeFacts
<1>2. At(w, "unlink") /\ work[w].id \in Ids /\ work[w].at \in Nat /\ work[w].at >= 1
  BY <1>1, TaskFields DEF Unlink, Serial, InLock, At
<1>3. Kinds[work[w].at] \in KindSet
  BY <1>2, KindFacts DEF Unlink
<1>4. Becomes(w, "unlink", work[w].op, work[w].id, work[w].host, work[w].plan, work[w].at + 1)
  <2>1. work' = [work EXCEPT ![w].at = @ + 1]
    BY DEF Unlink
  <2> QED
    BY <2>1, <1>1, <1>2 DEF Becomes, Tasks, At
<1>5. \/ files' = files
      \/ /\ work[w].plan[Kinds[work[w].at]] # 0
         /\ files[work[w].id][Kinds[work[w].at]] \in {0, work[w].plan[Kinds[work[w].at]]}
         /\ files' = [files EXCEPT ![work[w].id][Kinds[work[w].at]] = 0]
  BY DEF Unlink, Matches
<1>6. /\ files' \in [Ids -> Fingerprints]
      /\ \/ files' = files
         \/ \E k \in KindSet :
              /\ work[w].plan[k] # 0 /\ files[work[w].id][k] \in {0, work[w].plan[k]}
              /\ files'[work[w].id][k] = 0
              /\ \A i \in Ids, f \in KindSet : i # work[w].id \/ f # k => files'[i][f] = files[i][f]
  BY <1>1, <1>2, <1>3, <1>5, ErasedEffect
<1> QED
  BY <1>2, <1>4, <1>6 DEF Unlink

(* A restart leaves no task. *)
LEMMA RestartTasks ==
  ASSUME NEW found, NEW left, Restart(found, left)
  PROVE  /\ work' \in [Workers -> Tasks]
         /\ \A w \in Workers : work'[w].pc = "idle" /\ work'[w].id = NoId /\ work'[w].host = NoHost
         /\ lifecycle' = Nobody
         /\ \A i \in Ids : sessions'[i] = NoHost /\ durable'[i] = NoHost
<1>1. /\ work' = [w \in Workers |-> Idle] /\ lifecycle' = Nobody
      /\ sessions' = [i \in Ids |-> NoHost] /\ durable' = [i \in Ids |-> NoHost]
  BY RestartStorage, Zenon
<1> QED
  BY <1>1, IdleTask DEF Idle

(* Every crash, also one in the middle of a save, is a restart. *)
LEMMA CrashIs ==
  ASSUME Crash \/ CrashSaving
  PROVE  \E found, left : Restart(found, left)
<1>1. Crash => \E found, left : Restart(found, left)
  BY Zenon DEF Crash
<1> QED
  BY <1>1, CrashSavingIs

(* The end of a child leaves the locks of the others, and of the workers, alone. *)
LEMMA ChildGone ==
  ASSUME Serial, Locked, NEW h \in Hosts, NEW status,
         Turns(h, host[h].id, status, "down"), Releases(h),
         \A v \in Workers : work'[v].pc \in Deleting \/ work[v].pc \in Deleting => work'[v] = work[v]
  PROVE  Locked'
<1>1. \A v \in Workers, i \in Ids : lock'[i] = v => work'[v].pc \in Deleting /\ work'[v].id = i
  BY LifecycleConstants DEF Locked, Releases
<1>2. ASSUME NEW v \in Workers, work'[v].pc \in Deleting PROVE lock'[work'[v].id] = v
  <2>1. work'[v] = work[v] /\ lock[work[v].id] = v
    BY <1>2 DEF Locked
  <2>2. work[v].id \in Ids
    BY <1>2, <2>1 DEF Serial, InLock, At, Deleting
  <2> QED
    BY <2>1, <2>2, LifecycleConstants DEF Releases
<1>3. \A g \in Hosts, i \in Ids : lock'[i] = g => host'[g].child = "up" /\ host'[g].id = i
  BY LifecycleConstants DEF Locked, Turns, Releases
<1> QED
  BY <1>1, <1>2, <1>3 DEF Locked

\* Of the service's own state only a command and the registry may change.
Bystanding ==
  UNCHANGED <<lifecycle, closing, work, sessions, durable, latched, forgotten, crashes>>

(* Every step is a worker's, a request, a crash, or leaves tasks and mutex alone. *)
LEMMA Bystanders ==
  ASSUME [Next]_vars
  PROVE  \/ \E w \in Workers : WorkerStep(w)
         \/ \E w \in Workers, i \in Ids : ReapBegin(w, i) \/ \E op \in Ops : Request(w, op, i)
         \/ Crash \/ CrashSaving \/ Bystanding
<1>1. ASSUME \E i \in Ids : CommandBegin(i) \/ Rename(i) PROVE Bystanding
  BY <1>1 DEF CommandBegin, Rename, Bystanding, service
<1>2. ASSUME CommandTitle \/ CommandSend \/ OwnerClearsTemp \/ UNCHANGED vars PROVE Bystanding
  BY <1>2 DEF CommandTitle, CommandSend, OwnerClearsTemp, Bystanding, service, vars
<1>3. ASSUME NativeStep PROVE Bystanding
  BY <1>3 DEF NativeStep, NativeReady, NativeExit, HostClosed, NativeWrite, OutsideOpen, OutsideClose,
              OutsideWrite, Bystanding, service
<1> QED
  BY <1>1, <1>2, <1>3 DEF Next

-----------------------------------------------------------------------------
(* Every step keeps the types and the owners.                               *)

(* Who writes the registry. *)
LEMMA StorageMoves ==
  ASSUME [Next]_vars
  PROVE  \/ UNCHANGED <<mem, disk, temp>>
         \/ \E w \in Workers : Publish(w) \/ PublishFailed(w) \/ UpdatePreferences(w)
              \/ Configure(w) \/ BeginDeletion(w) \/ Forget(w)
         \/ \E i \in Ids : Rename(i)
         \/ CommandTitle \/ Crash \/ CrashSaving \/ OwnerClearsTemp
<1>1. ASSUME NEW w \in Workers, OpenBegin(w) \/ OpenExit(w) \/ CreateBegin(w)
              \/ ForkBegin(w) \/ SpawnFailed(w) \/ Attach(w) \/ StartFailed(w)
              \/ MetadataBegin(w) \/ Close(w) \/ ShutdownBegin(w) \/ ShutdownAll(w)
              \/ DeleteBegin(w) \/ Prepare(w) \/ Relock(w) \/ Verify(w) \/ Unlink(w)
              \/ Unlinked(w) \/ ExecuteFails(w) \/ \E h \in Hosts : Spawn(w, h)
      PROVE  UNCHANGED <<mem, disk, temp>>
  BY <1>1 DEF OpenBegin, OpenExit, CreateBegin, ForkBegin, SpawnFailed, Attach, StartFailed,
      MetadataBegin, Close, ShutdownBegin, ShutdownAll, DeleteBegin, Prepare, Relock, Verify,
      Unlink, Unlinked, ExecuteFails, Spawn, ServiceStep, Executing, storage
<1>2. ASSUME (\E w \in Workers, i \in Ids : ReapBegin(w, i))
              \/ (\E w \in Workers, i \in Ids, op \in Ops : Request(w, op, i))
              \/ (\E i \in Ids : CommandBegin(i)) \/ CommandSend
              \/ (\E h \in Hosts : NativeReady(h)) \/ (\E h \in Hosts : NativeExit(h))
              \/ (\E h \in Hosts : HostClosed(h))
              \/ (\E h \in Hosts, k \in KindSet : NativeWrite(h, k))
              \/ (\E i \in Ids : OutsideOpen(i)) \/ (\E i \in Ids : OutsideClose(i))
              \/ (\E i \in Ids, k \in KindSet : OutsideWrite(i, k)) \/ UNCHANGED vars
      PROVE  UNCHANGED <<mem, disk, temp>>
  BY <1>2 DEF ReapBegin, Request, CommandBegin, CommandSend, NativeReady, NativeExit,
      HostClosed, NativeWrite, OutsideOpen, OutsideClose, OutsideWrite, vars, ServiceStep,
      storage
<1> QED
  BY <1>1, <1>2 DEF Next, WorkerStep, NativeStep

(* Who writes and removes files. *)
LEMMA FilesMoves ==
  ASSUME [Next]_vars
  PROVE  \/ UNCHANGED <<files, writes>>
         \/ \E w \in Workers : Unlink(w)
         \/ \E h \in Hosts, k \in KindSet : NativeWrite(h, k)
         \/ \E i \in Ids, k \in KindSet : OutsideWrite(i, k)
<1>1. ASSUME NEW w \in Workers, OpenBegin(w) \/ OpenExit(w) \/ CreateBegin(w)
              \/ ForkBegin(w) \/ SpawnFailed(w) \/ Attach(w) \/ StartFailed(w) \/ Publish(w)
              \/ PublishFailed(w) \/ MetadataBegin(w) \/ Close(w) \/ UpdatePreferences(w) \/ Configure(w)
              \/ ShutdownBegin(w) \/ ShutdownAll(w) \/ DeleteBegin(w) \/ Prepare(w)
              \/ BeginDeletion(w) \/ Relock(w) \/ Verify(w) \/ Unlinked(w)
              \/ ExecuteFails(w) \/ Forget(w) \/ \E h \in Hosts : Spawn(w, h)
      PROVE  UNCHANGED <<files, writes>>
  BY <1>1 DEF OpenBegin, OpenExit, CreateBegin, ForkBegin, SpawnFailed, Attach, StartFailed,
      Publish, PublishFailed, MetadataBegin, Close, UpdatePreferences, Configure, ShutdownBegin,
      ShutdownAll, DeleteBegin, Prepare, BeginDeletion, Relock, Verify, Unlinked, ExecuteFails,
      Forget, Spawn, ServiceStep, Executing, native
<1>2. ASSUME (\E w \in Workers, i \in Ids : ReapBegin(w, i))
              \/ (\E w \in Workers, i \in Ids, op \in Ops : Request(w, op, i))
              \/ (\E i \in Ids : CommandBegin(i)) \/ (\E i \in Ids : Rename(i))
              \/ CommandTitle \/ CommandSend \/ (\E h \in Hosts : NativeReady(h))
              \/ (\E h \in Hosts : NativeExit(h)) \/ (\E h \in Hosts : HostClosed(h))
              \/ (\E i \in Ids : OutsideOpen(i)) \/ (\E i \in Ids : OutsideClose(i))
              \/ OwnerClearsTemp \/ UNCHANGED vars
      PROVE  UNCHANGED <<files, writes>>
  BY <1>2 DEF ReapBegin, Request, CommandBegin, Rename, CommandTitle, CommandSend, NativeReady,
      NativeExit, HostClosed, OutsideOpen, OutsideClose, OwnerClearsTemp, vars, ServiceStep,
      native
<1>3. ASSUME Crash \/ CrashSaving PROVE UNCHANGED <<files, writes>>
  BY <1>3, CrashIs, RestartStorage
<1> QED
  BY <1>1, <1>2, <1>3 DEF Next, WorkerStep, NativeStep

(* Who maps sessions and attaches projections. *)
LEMMA SessionsMoves ==
  ASSUME [Next]_vars
  PROVE  \/ UNCHANGED <<sessions, durable>>
         \/ \E w \in Workers : OpenExit(w) \/ Attach(w) \/ StartFailed(w) \/ Publish(w)
              \/ PublishFailed(w) \/ Close(w) \/ ShutdownAll(w)
         \/ Crash \/ CrashSaving
<1>1. ASSUME NEW w \in Workers, OpenBegin(w) \/ CreateBegin(w) \/ ForkBegin(w)
              \/ SpawnFailed(w) \/ MetadataBegin(w) \/ UpdatePreferences(w) \/ Configure(w)
              \/ ShutdownBegin(w) \/ DeleteBegin(w) \/ Prepare(w) \/ BeginDeletion(w)
              \/ Relock(w) \/ Verify(w) \/ Unlink(w) \/ Unlinked(w) \/ ExecuteFails(w)
              \/ Forget(w) \/ \E h \in Hosts : Spawn(w, h)
      PROVE  UNCHANGED <<sessions, durable>>
  BY <1>1 DEF OpenBegin, CreateBegin, ForkBegin, SpawnFailed, MetadataBegin, UpdatePreferences, Configure,
      ShutdownBegin, DeleteBegin, Prepare, BeginDeletion, Relock, Verify, Unlink, Unlinked,
      ExecuteFails, Forget, Spawn, ServiceStep, Executing, service
<1>2. ASSUME (\E w \in Workers, i \in Ids : ReapBegin(w, i))
              \/ (\E w \in Workers, i \in Ids, op \in Ops : Request(w, op, i))
              \/ (\E i \in Ids : CommandBegin(i)) \/ (\E i \in Ids : Rename(i))
              \/ CommandTitle \/ CommandSend \/ (\E h \in Hosts : NativeReady(h))
              \/ (\E h \in Hosts : NativeExit(h)) \/ (\E h \in Hosts : HostClosed(h))
              \/ (\E h \in Hosts, k \in KindSet : NativeWrite(h, k))
              \/ (\E i \in Ids : OutsideOpen(i)) \/ (\E i \in Ids : OutsideClose(i))
              \/ (\E i \in Ids, k \in KindSet : OutsideWrite(i, k)) \/ OwnerClearsTemp
              \/ UNCHANGED vars
      PROVE  UNCHANGED <<sessions, durable>>
  BY <1>2 DEF ReapBegin, Request, CommandBegin, Rename, CommandTitle, CommandSend, NativeReady,
      NativeExit, HostClosed, NativeWrite, OutsideOpen, OutsideClose, OutsideWrite,
      OwnerClearsTemp, vars, ServiceStep, service
<1> QED
  BY <1>1, <1>2 DEF Next, WorkerStep, NativeStep

(* Who starts, stops and marks hosts, and holds native locks. *)
LEMMA HostsMoves ==
  ASSUME [Next]_vars
  PROVE  \/ UNCHANGED <<host, lock>>
         \/ \E w \in Workers : OpenExit(w) \/ StartFailed(w) \/ PublishFailed(w) \/ Close(w)
              \/ ShutdownAll(w) \/ Prepare(w) \/ BeginDeletion(w) \/ Relock(w)
              \/ Unlinked(w) \/ ExecuteFails(w) \/ \E h \in Hosts : Spawn(w, h)
         \/ \E h \in Hosts : NativeReady(h) \/ NativeExit(h) \/ HostClosed(h)
         \/ \E i \in Ids : OutsideOpen(i) \/ OutsideClose(i)
         \/ Crash \/ CrashSaving
<1>1. ASSUME NEW w \in Workers, OpenBegin(w) \/ CreateBegin(w) \/ ForkBegin(w)
              \/ SpawnFailed(w) \/ Attach(w) \/ Publish(w) \/ MetadataBegin(w)
              \/ UpdatePreferences(w) \/ Configure(w) \/ ShutdownBegin(w) \/ DeleteBegin(w) \/ Verify(w)
              \/ Unlink(w) \/ Forget(w)
      PROVE  UNCHANGED <<host, lock>>
  BY <1>1 DEF OpenBegin, CreateBegin, ForkBegin, SpawnFailed, Attach, Publish, MetadataBegin,
      UpdatePreferences, Configure, ShutdownBegin, DeleteBegin, Verify, Unlink, Forget, ServiceStep,
      Executing, native
<1>2. ASSUME (\E w \in Workers, i \in Ids : ReapBegin(w, i))
              \/ (\E w \in Workers, i \in Ids, op \in Ops : Request(w, op, i))
              \/ (\E i \in Ids : CommandBegin(i)) \/ (\E i \in Ids : Rename(i))
              \/ CommandTitle \/ CommandSend
              \/ (\E h \in Hosts, k \in KindSet : NativeWrite(h, k))
              \/ (\E i \in Ids, k \in KindSet : OutsideWrite(i, k)) \/ OwnerClearsTemp
              \/ UNCHANGED vars
      PROVE  UNCHANGED <<host, lock>>
  BY <1>2 DEF ReapBegin, Request, CommandBegin, Rename, CommandTitle, CommandSend, NativeWrite,
      OutsideWrite, OwnerClearsTemp, vars, ServiceStep, native
<1> QED
  BY <1>1, <1>2 DEF Next, WorkerStep, NativeStep

(* A step leaves every worker a task. *)
LEMMA TaskStep ==
  ASSUME TypeInv,
         [Next]_vars
  PROVE  work' \in [Workers -> Tasks]
<1>0. work \in [Workers -> Tasks]
  BY TypeFacts
<1>1. ASSUME NEW w \in Workers, OpenBegin(w) PROVE work' \in [Workers -> Tasks]
  BY <1>1, <1>0, Control DEF OpenBegin, At, LockFree, ServiceStep, Waiting, native, storage,
      Leaves, Stays, Becomes, Pcs
<1>2. ASSUME NEW w \in Workers, OpenExit(w) PROVE work' \in [Workers -> Tasks]
  BY <1>2, <1>0, OpenExitEffect, Control DEF Leaves, Stays, Becomes, Pcs
<1>3. ASSUME NEW w \in Workers, CreateBegin(w) PROVE work' \in [Workers -> Tasks]
  BY <1>3, <1>0, Control DEF CreateBegin, At, LockFree, ServiceStep, Waiting, native, storage,
      Leaves, Stays, Becomes, Pcs
<1>4. ASSUME NEW w \in Workers, ForkBegin(w) PROVE work' \in [Workers -> Tasks]
  BY <1>4, <1>0, Control DEF ForkBegin, At, LockFree, ServiceStep, Waiting, native, storage,
      Leaves, Stays, Becomes, Pcs
<1>5. ASSUME NEW w \in Workers, NEW h \in Hosts, Spawn(w, h)
     PROVE  work' \in [Workers -> Tasks]
  BY <1>5, SpawnTask DEF Becomes
<1>6. ASSUME NEW w \in Workers, SpawnFailed(w) PROVE work' \in [Workers -> Tasks]
  BY <1>6, <1>0, Control DEF SpawnFailed, At, ServiceStep, native, storage, Leaves, Stays, Becomes,
      Pcs
<1>7. ASSUME NEW w \in Workers, Attach(w) PROVE work' \in [Workers -> Tasks]
  BY <1>7, <1>0, Control DEF Attach, At, native, storage, Leaves, Stays, Becomes, Pcs
<1>8. ASSUME NEW w \in Workers, StartFailed(w) PROVE work' \in [Workers -> Tasks]
  BY <1>8, <1>0, Control DEF StartFailed, At, ShutDown, storage, Leaves, Stays, Becomes, Pcs
<1>9. ASSUME NEW w \in Workers, Publish(w) PROVE work' \in [Workers -> Tasks]
  BY <1>9, <1>0, Control DEF Publish, At, native, Leaves, Stays, Becomes, Pcs
<1>10. ASSUME NEW w \in Workers, PublishFailed(w) PROVE work' \in [Workers -> Tasks]
  BY <1>10, <1>0, Control DEF PublishFailed, At, ShutDown, storage, Leaves, Stays, Becomes, Pcs
<1>11. ASSUME NEW w \in Workers, MetadataBegin(w) PROVE work' \in [Workers -> Tasks]
  BY <1>11, <1>0, Control DEF MetadataBegin, At, LockFree, ServiceStep, Waiting, native, storage,
      Leaves, Stays, Becomes, Pcs
<1>12. ASSUME NEW w \in Workers, Close(w) PROVE work' \in [Workers -> Tasks]
  BY <1>12, <1>0, CloseEffect, Control DEF Leaves, Stays, Becomes, Pcs
<1>13. ASSUME NEW w \in Workers, UpdatePreferences(w) PROVE work' \in [Workers -> Tasks]
  BY <1>13, <1>0, Control DEF UpdatePreferences, At, native, Leaves, Stays, Becomes, Pcs
<1>13c. ASSUME NEW w \in Workers, Configure(w) PROVE work' \in [Workers -> Tasks]
  BY <1>13c, <1>0, TypeFacts, ConfigureTask DEF Leaves, Stays, Becomes
<1>14. ASSUME NEW w \in Workers, ShutdownBegin(w) PROVE work' \in [Workers -> Tasks]
  BY <1>14, <1>0, Control DEF ShutdownBegin, At, LockFree, ServiceStep, Waiting, native, storage,
      Leaves, Stays, Becomes, Pcs
<1>15. ASSUME NEW w \in Workers, ShutdownAll(w) PROVE work' \in [Workers -> Tasks]
  BY <1>15, ShutdownTask DEF Becomes
<1>16. ASSUME NEW w \in Workers, DeleteBegin(w) PROVE work' \in [Workers -> Tasks]
  BY <1>16, <1>0, Control DEF DeleteBegin, At, LockFree, ServiceStep, Waiting, native, storage,
      Leaves, Stays, Becomes, Pcs
<1>17. ASSUME NEW w \in Workers, Prepare(w) PROVE work' \in [Workers -> Tasks]
  BY <1>17, PrepareEffect DEF Leaves, Becomes
<1>18. ASSUME NEW w \in Workers, BeginDeletion(w) PROVE work' \in [Workers -> Tasks]
  BY <1>18, <1>0, Control, LockEffect DEF BeginDeletion, At, storage, Leaves, Stays, Becomes, Pcs,
      Releases
<1>19. ASSUME NEW w \in Workers, Relock(w) PROVE work' \in [Workers -> Tasks]
  BY <1>19, RelockEffect DEF Becomes
<1>20. ASSUME NEW w \in Workers, Verify(w) PROVE work' \in [Workers -> Tasks]
  BY <1>20, VerifyEffect DEF Becomes
<1>21. ASSUME NEW w \in Workers, Unlink(w) PROVE work' \in [Workers -> Tasks]
  BY <1>21, UnlinkEffect DEF Becomes
<1>22. ASSUME NEW w \in Workers, Unlinked(w) PROVE work' \in [Workers -> Tasks]
  BY <1>22, <1>0, Control, LockEffect DEF Unlinked, At, Executing, storage, Leaves, Stays, Becomes,
      Pcs, Releases
<1>23. ASSUME NEW w \in Workers, ExecuteFails(w) PROVE work' \in [Workers -> Tasks]
  BY <1>23, <1>0, Control, LockEffect DEF ExecuteFails, At, Executing, storage, Leaves, Stays,
      Becomes, Pcs, Releases
<1>24. ASSUME NEW w \in Workers, Forget(w) PROVE work' \in [Workers -> Tasks]
  BY <1>24, <1>0, Control DEF Forget, At, native, Leaves, Stays, Becomes, Pcs
<1>25. ASSUME NEW w \in Workers, NEW i \in Ids, ReapBegin(w, i)
     PROVE  work' \in [Workers -> Tasks]
  BY <1>25, ReapEffect DEF Becomes
<1>26. ASSUME NEW w \in Workers, NEW i \in Ids, NEW op \in Ops, Request(w, op, i)
     PROVE  work' \in [Workers -> Tasks]
  BY <1>26, RequestEffect DEF Becomes
<1>27. ASSUME Crash PROVE work' \in [Workers -> Tasks]
  BY <1>27, CrashIs, RestartTasks
<1>28. ASSUME CrashSaving PROVE work' \in [Workers -> Tasks]
  BY <1>28, CrashIs, RestartTasks
<1>29. ASSUME Bystanding PROVE work' \in [Workers -> Tasks]
  BY <1>29, <1>0 DEF Bystanding
<1> QED
  BY <1>1, <1>2, <1>3, <1>4, <1>5, <1>6, <1>7, <1>8, <1>9, <1>10, <1>11, <1>12, <1>13, <1>13c, <1>14,
      <1>15, <1>16, <1>17, <1>18, <1>19, <1>20, <1>21, <1>22, <1>23, <1>24, <1>25, <1>26, <1>27,
      <1>28, <1>29, Bystanders DEF WorkerStep

(* A step leaves hosts and locks typed. *)
LEMMA HostStep ==
  ASSUME TypeInv,
         [Next]_vars
  PROVE  HostType'
<1>0. HostType /\ Serial
  BY TypeFacts
<1>1. ASSUME NEW w \in Workers, OpenExit(w) PROVE HostType'
  BY <1>1, <1>0, OpenExitEffect, StopEffect, UnconfirmedEffect DEF HostType, Turns, Releases
<1>2. ASSUME NEW w \in Workers, NEW h \in Hosts, Spawn(w, h) PROVE HostType'
  BY <1>2, <1>0, SpawnTask, SpawnEffect DEF HostType, Turns
<1>3. ASSUME NEW w \in Workers, StartFailed(w) PROVE HostType'
  <2>1. work[w].host \in Hosts
    BY <1>3, <1>0 DEF StartFailed, Serial, At
  <2> QED
    BY <1>3, <2>1, <1>0, StopEffect, UnconfirmedEffect DEF StartFailed, ShutDown, HostType, Turns,
      Releases
<1>4. ASSUME NEW w \in Workers, PublishFailed(w) PROVE HostType'
  <2>1. work[w].host \in Hosts
    BY <1>4, <1>0 DEF PublishFailed, Serial, At
  <2>2. ShutDown(work[w].host)
    BY <1>4 DEF PublishFailed
  <2> QED
    BY <2>1, <2>2, <1>0, StopEffect, UnconfirmedEffect DEF ShutDown, HostType, Turns, Releases
<1>5. ASSUME NEW w \in Workers, Close(w) PROVE HostType'
  BY <1>5, <1>0, CloseEffect, StopEffect, UnconfirmedEffect DEF HostType, Turns, Releases
<1>6. ASSUME NEW w \in Workers, ShutdownAll(w) PROVE HostType'
  BY <1>6, <1>0, ShutdownEffect
<1>7. ASSUME NEW w \in Workers, Prepare(w) PROVE HostType'
  BY <1>7, <1>0, PrepareEffect DEF Takes, HostType
<1>8. ASSUME NEW w \in Workers, BeginDeletion(w) PROVE HostType'
  <2>1. work[w].id \in Ids /\ host' = host /\ (lock' = lock \/ Unlock(w))
    BY <1>8, <1>0 DEF BeginDeletion, Serial, InLock, At
  <2> QED
    BY <2>1, <1>0, LockEffect DEF HostType, Releases
<1>9. ASSUME NEW w \in Workers, Relock(w) PROVE HostType'
  BY <1>9, <1>0, RelockEffect DEF Takes, Executing, HostType
<1>10. ASSUME NEW w \in Workers, Unlinked(w) PROVE HostType'
  <2>1. work[w].id \in Ids /\ host' = host /\ Unlock(w)
    BY <1>10, <1>0 DEF Unlinked, Executing, Serial, InLock, At
  <2> QED
    BY <2>1, <1>0, LockEffect DEF HostType, Releases
<1>11. ASSUME NEW w \in Workers, ExecuteFails(w) PROVE HostType'
  <2>1. work[w].id \in Ids /\ host' = host /\ Unlock(w)
    BY <1>11, <1>0 DEF ExecuteFails, Executing, Serial, InLock, At
  <2> QED
    BY <2>1, <1>0, LockEffect DEF HostType, Releases
<1>12. ASSUME NEW h \in Hosts, NativeReady(h) PROVE HostType'
  BY <1>12, <1>0, ReadyEffect DEF Turns, HostType
<1>13. ASSUME NEW h \in Hosts, NativeExit(h) PROVE HostType'
  BY <1>13, <1>0, ExitEffect DEF Turns, Releases, HostType
<1>14. ASSUME NEW h \in Hosts, HostClosed(h) PROVE HostType'
  BY <1>14, <1>0, ClosedEffect DEF Turns, HostType
<1>15. ASSUME NEW i \in Ids, OutsideOpen(i) PROVE HostType'
  BY <1>15, <1>0 DEF OutsideOpen, HostType
<1>16. ASSUME NEW i \in Ids, OutsideClose(i) PROVE HostType'
  BY <1>16, <1>0 DEF OutsideClose, HostType
<1>17. ASSUME Crash PROVE HostType'
  BY <1>17, <1>0, CrashIs, RestartEffect
<1>18. ASSUME CrashSaving PROVE HostType'
  BY <1>18, <1>0, CrashIs, RestartEffect
<1>19. ASSUME UNCHANGED <<host, lock>> PROVE HostType'
  BY <1>19, <1>0 DEF HostType
<1> QED
  BY <1>1, <1>2, <1>3, <1>4, <1>5, <1>6, <1>7, <1>8, <1>9, <1>10, <1>11, <1>12, <1>13, <1>14,
      <1>15, <1>16, <1>17, <1>18, <1>19, HostsMoves

(* A step leaves the registry, in memory and on disk, a registry. *)
LEMMA StorageStep ==
  ASSUME TypeInv,
         [Next]_vars
  PROVE  StorageType'
<1>0. StorageType /\ Serial
  BY DEF TypeInv, Types, StorageType
<1>t. \A w \in Workers : work[w].plan \in Fingerprints
  BY TaskFields DEF TypeInv, Types
<1>1. ASSUME NEW w \in Workers, Publish(w) PROVE StorageType'
  BY <1>1, <1>0, RememberedFields, SavedEffect DEF Publish, StorageType, Serial, InLock, At,
      Preferences
<1>2. ASSUME NEW w \in Workers, PublishFailed(w) PROVE StorageType'
  <2>1. work[w].id \in Ids /\ mem \in Registry
    BY <1>2, <1>0 DEF PublishFailed, Serial, InLock, At, StorageType
  <2>2. SaveFailed(Remembered(work[w].id)) \/ UNCHANGED <<mem, disk, temp>>
    BY <1>2 DEF PublishFailed, storage
  <2> QED
    BY <2>1, <2>2, <1>0, RememberedFields, SaveFailedEffect DEF StorageType
<1>3. ASSUME NEW w \in Workers, UpdatePreferences(w) PROVE StorageType'
  BY <1>3, <1>0, WithArchivedFields, SavedEffect, SaveFailedEffect DEF UpdatePreferences,
      StorageType, Serial, InLock, At, Preferences
<1>3c. ASSUME NEW w \in Workers, Configure(w) PROVE StorageType'
  BY <1>3c, TypeFacts, ConfigureTask
<1>4. ASSUME NEW w \in Workers, BeginDeletion(w) PROVE StorageType'
  <2>1. work[w].id \in Ids /\ mem \in Registry
    BY <1>4, <1>0 DEF BeginDeletion, Serial, InLock, At, StorageType
  <2>2. Saved(WithPlan(work[w].id, work[w].plan)) \/ SaveFailed(WithPlan(work[w].id, work[w].plan))
      \/ UNCHANGED <<mem, disk, temp>>
    BY <1>4 DEF BeginDeletion, storage
  <2> QED
    BY <2>1, <2>2, <1>0, <1>t, WithPlanFields, SavedEffect, SaveFailedEffect DEF StorageType
<1>5. ASSUME NEW w \in Workers, Forget(w) PROVE StorageType'
  BY <1>5, <1>0, RemovedFields, SavedEffect, SaveFailedEffect DEF Forget, StorageType, Serial,
      InLock, At, Preferences
<1>6. ASSUME NEW i \in Ids, Rename(i) PROVE StorageType'
  BY <1>6, <1>0, SavedEffect, SaveFailedEffect DEF Rename, StorageType
<1>7. ASSUME CommandTitle PROVE StorageType'
  <2>1. command \in Ids
    BY <1>7 DEF CommandTitle, TypeInv, Types
  <2>2. Saved(Remembered(command)) \/ SaveFailed(Remembered(command))
    BY <1>7 DEF CommandTitle
  <2> QED
    BY <2>1, <2>2, <1>0, RememberedFields, SavedEffect, SaveFailedEffect DEF StorageType
<1>8. ASSUME Crash PROVE StorageType'
  BY <1>8, <1>0, RestartStorage DEF Crash, StorageType
<1>9. ASSUME CrashSaving PROVE StorageType'
  <2>1. ASSUME NEW w \in Workers, NEW new \in Saving(w) PROVE new \in Registry
    <3>1. /\ At(w, "configure") \/ At(w, "publish") => work[w].id \in Ids
          /\ At(w, "prefs") => work[w].id \in Ids
          /\ At(w, "begin") => work[w].id \in Ids
          /\ At(w, "forget") => work[w].id \in Ids
      BY <1>0 DEF Serial, InLock, At
    <3> QED
      <4>1. ASSUME At(w, "configure") \/ At(w, "publish"), new = Remembered(work[w].id)
            PROVE  new \in Registry
        BY <4>1, <3>1, <1>0, RememberedFields DEF StorageType
      <4>2. ASSUME At(w, "prefs"), new = Preferences(w) PROVE new \in Registry
        BY <4>2, <3>1, <1>0, WithArchivedFields DEF Preferences, StorageType
      <4>3. ASSUME At(w, "begin"), new = WithPlan(work[w].id, work[w].plan) PROVE new \in Registry
        BY <4>3, <3>1, <1>0, <1>t, WithPlanFields DEF StorageType
      <4>4. ASSUME At(w, "forget"), new = Removed(work[w].id) PROVE new \in Registry
        BY <4>4, <3>1, <1>0, RemovedFields DEF StorageType
      <4> QED
        BY <2>1, <4>1, <4>2, <4>3, <4>4, SavingIs
  <2>2. PICK new, left : /\ Restart(new, left) /\ left \in BOOLEAN
                         /\ new = disk \/ new = mem \/ \E w \in Workers : new \in Saving(w)
    BY <1>9, CrashSavingIs
  <2>3. new \in Registry
    BY <2>1, <2>2, <1>0 DEF StorageType
  <2>4. mem' \in Registry /\ disk' \in Registry
    BY <2>2, <2>3, RestartStorage
  <2>5. temp' \in BOOLEAN
    BY <2>2, RestartStorage, Zenon
  <2> QED
    BY <2>4, <2>5 DEF StorageType
<1>10. ASSUME OwnerClearsTemp PROVE StorageType'
  BY <1>10, <1>0 DEF OwnerClearsTemp, StorageType
<1>11. ASSUME UNCHANGED <<mem, disk, temp>> PROVE StorageType'
  BY <1>11, <1>0 DEF StorageType
<1> QED
  BY <1>1, <1>2, <1>3, <1>3c, <1>4, <1>5, <1>6, <1>7, <1>8, <1>9, <1>10, <1>11, StorageMoves

FilesType == files \in [Ids -> Fingerprints] /\ writes \in [Ids -> 0..MaxWrites]

(* A write gives one file the next number. *)
LEMMA WrittenEffect ==
  ASSUME FilesType, NEW id \in Ids, NEW k \in KindSet, Written(id, k)
  PROVE  /\ FilesType'
         /\ writes'[id] = writes[id] + 1 /\ \A i \in Ids : i # id => writes'[i] = writes[i]
         /\ files'[id][k] = writes[id] + 1
         /\ \A i \in Ids, f \in KindSet : i # id \/ f # k => files'[i][f] = files[i][f]
<1>1. writes[id] + 1 \in 0..MaxWrites /\ writes[id] + 1 \in Nat
  BY LifecycleConstants DEF FilesType, Written
<1>2. /\ writes' \in [Ids -> 0..MaxWrites]
      /\ writes'[id] = writes[id] + 1 /\ \A i \in Ids : i # id => writes'[i] = writes[i]
  BY <1>1 DEF FilesType, Written
<1>3. /\ files' \in [Ids -> Fingerprints]
      /\ files'[id][k] = writes[id] + 1
      /\ \A i \in Ids, f \in KindSet : i # id \/ f # k => files'[i][f] = files[i][f]
  BY <1>1 DEF FilesType, Written, Fingerprints
<1> QED
  BY <1>2, <1>3 DEF FilesType

(* A step leaves every fingerprint the number of a write. *)
LEMMA FilesStep ==
  ASSUME TypeInv,
         [Next]_vars
  PROVE  FilesType'
<1>0. FilesType /\ HostType
  BY TypeFacts DEF FilesType
<1>1. ASSUME NEW w \in Workers, Unlink(w) PROVE FilesType'
  BY <1>1, <1>0, UnlinkEffect DEF Executing, FilesType
<1>2. ASSUME NEW h \in Hosts, NEW k \in KindSet, NativeWrite(h, k) PROVE FilesType'
  <2>1. host[h].id \in Ids \cup {NoId} /\ Written(host[h].id, k)
    BY <1>2, <1>0 DEF NativeWrite, HostType, Slots
  <2>2. host[h].id = NoId => FilesType'
    BY <2>1, <1>0, LifecycleConstants DEF Written, FilesType
  <2>3. host[h].id \in Ids => FilesType'
    BY <2>1, <1>0, WrittenEffect DEF FilesType
  <2> QED
    BY <2>1, <2>2, <2>3
<1>3. ASSUME NEW i \in Ids, NEW k \in KindSet, OutsideWrite(i, k) PROVE FilesType'
  BY <1>3, <1>0, WrittenEffect DEF OutsideWrite, FilesType
<1>4. ASSUME UNCHANGED <<files, writes>> PROVE FilesType'
  BY <1>4, <1>0 DEF FilesType
<1> QED
  BY <1>1, <1>2, <1>3, <1>4, FilesMoves

(* A step leaves every session without a host or with one, and so its projection. *)
LEMMA SessionsStep ==
  ASSUME TypeInv,
         [Next]_vars
  PROVE  SessionsType'
<1>0. SessionsType /\ Serial
  BY TypeFacts
<1>t. \A w \in Workers : work[w].host \in Hosts \cup {NoHost}
  BY TypeFacts, TaskFields
<1>1. ASSUME NEW w \in Workers, OpenExit(w) PROVE SessionsType'
  BY <1>1, <1>0, OpenExitEffect DEF SessionsType, Detached
<1>2. ASSUME NEW w \in Workers, Attach(w) PROVE SessionsType'
  BY <1>2, <1>0, <1>t DEF Attach, SessionsType
<1>3. ASSUME NEW w \in Workers, StartFailed(w) PROVE SessionsType'
  BY <1>3, <1>0 DEF StartFailed, SessionsType
<1>4. ASSUME NEW w \in Workers, Publish(w) PROVE SessionsType'
  BY <1>4, <1>0, <1>t DEF Publish, SessionsType
<1>5. ASSUME NEW w \in Workers, PublishFailed(w) PROVE SessionsType'
  BY <1>5, <1>0 DEF PublishFailed, SessionsType
<1>6. ASSUME NEW w \in Workers, Close(w) PROVE SessionsType'
  BY <1>6, <1>0, CloseEffect DEF SessionsType, Detached
<1>7. ASSUME NEW w \in Workers, ShutdownAll(w) PROVE SessionsType'
  BY <1>7, <1>0, ShutdownTask DEF SessionsType
<1>8. ASSUME Crash PROVE SessionsType'
  BY <1>8, CrashIs, RestartStorage DEF SessionsType
<1>9. ASSUME CrashSaving PROVE SessionsType'
  BY <1>9, CrashIs, RestartStorage DEF SessionsType
<1>10. ASSUME UNCHANGED <<sessions, durable>> PROVE SessionsType'
  BY <1>10, <1>0 DEF SessionsType
<1> QED
  BY <1>1, <1>2, <1>3, <1>4, <1>5, <1>6, <1>7, <1>8, <1>9, <1>10, SessionsMoves

RestType ==
  /\ lifecycle \in Workers \cup {Nobody} /\ closing \in BOOLEAN
  /\ latched \subseteq Configured /\ command \in Ids \cup {NoId}
  /\ forgotten \subseteq Ids /\ crashes \in 0..MaxCrashes

(* A restart keeps the rest typed and counts one crash. *)
LEMMA RestartRest ==
  ASSUME RestType, NEW found, NEW left, Restart(found, left)
  PROVE  RestType'
<1>0. crashes < MaxCrashes /\ crashes' = crashes + 1
  BY RestartStorage, Zenon
<1>1. crashes' \in 0..MaxCrashes
  BY <1>0, LifecycleConstants DEF RestType
<1>2. lifecycle' \in Workers \cup {Nobody} /\ closing' \in BOOLEAN /\ latched' \subseteq Configured
  BY RestartStorage, Zenon
<1>3. command' \in Ids \cup {NoId} /\ forgotten' \subseteq Ids
  BY RestartStorage, Zenon DEF RestType
<1> QED
  BY <1>1, <1>2, <1>3 DEF RestType

(* What else a step may change keeps its type. *)
LEMMA RestStep ==
  ASSUME TypeInv,
         [Next]_vars
  PROVE  RestType'
<1>0. RestType /\ Serial
  BY DEF TypeInv, Types, RestType
<1>1. ASSUME NEW w \in Workers, OpenBegin(w) \/ CreateBegin(w) \/ ForkBegin(w) \/ MetadataBegin(w) \/ DeleteBegin(w) \/ ShutdownBegin(w)
     PROVE  RestType'
  BY <1>1, <1>0 DEF OpenBegin, CreateBegin, ForkBegin, MetadataBegin, DeleteBegin, ShutdownBegin,
      New, Refuse, Enter, Waiting, LockFree, ServiceStep, RestType
<1>2. ASSUME NEW w \in Workers, OpenExit(w) \/ SpawnFailed(w) \/ Attach(w) \/ StartFailed(w) \/ Publish(w) \/ PublishFailed(w) \/ Close(w)
              \/ UpdatePreferences(w) \/ Configure(w) \/ ShutdownAll(w) \/ \E h \in Hosts : Spawn(w, h)
     PROVE  RestType'
  BY <1>2, <1>0 DEF OpenExit, SpawnFailed, Attach, StartFailed, Publish, PublishFailed, Close,
      AfterClose, UpdatePreferences, Configure, ShutdownAll, Spawn, Finish, Goto, ServiceStep, RestType
<1>3. ASSUME NEW w \in Workers, Prepare(w) \/ BeginDeletion(w) \/ Relock(w) \/ Verify(w) \/ Unlink(w) \/ Unlinked(w) \/ ExecuteFails(w)
     PROVE  RestType'
  BY <1>3, <1>0 DEF Prepare, BeginDeletion, Relock, Verify, Unlink, Unlinked, ExecuteFails, Finish,
      Goto, Executing, RestType
<1>4. ASSUME NEW w \in Workers, Forget(w)
     PROVE  RestType'
  BY <1>4, <1>0 DEF Forget, Finish, Serial, InLock, At, RestType
<1>5. ASSUME NEW w \in Workers, NEW i \in Ids, ReapBegin(w, i) PROVE RestType'
  BY <1>5, <1>0, ReapEffect DEF ServiceStep, RestType
<1>6. ASSUME NEW w \in Workers, NEW i \in Ids, NEW op \in Ops, Request(w, op, i) PROVE RestType'
  BY <1>6, <1>0, RequestEffect DEF RestType
<1>7. ASSUME (\E i \in Ids : CommandBegin(i) \/ Rename(i)) \/ CommandTitle \/ CommandSend \/ OwnerClearsTemp \/ UNCHANGED vars
     PROVE  RestType'
  BY <1>7, <1>0 DEF CommandBegin, Rename, CommandTitle, CommandSend, OwnerClearsTemp, vars,
      service, RestType
<1>8. ASSUME NativeStep PROVE RestType'
  BY <1>8, <1>0 DEF NativeStep, NativeReady, NativeExit, HostClosed, NativeWrite, OutsideOpen,
      OutsideClose, OutsideWrite, service, RestType
<1>9. ASSUME Crash \/ CrashSaving PROVE RestType'
  BY <1>9, <1>0, CrashIs, RestartRest
<1> QED
  BY <1>1, <1>2, <1>3, <1>4, <1>5, <1>6, <1>7, <1>8, <1>9 DEF Next, WorkerStep

(* session_lifecycle serialises the requests. *)
LEMMA SerialStep ==
  ASSUME TypeInv,
         [Next]_vars
  PROVE  Serial'
<1>0. work \in [Workers -> Tasks] /\ Serial /\ SessionsType
  BY TypeFacts
<1>1. ASSUME NEW w \in Workers, OpenBegin(w) PROVE Serial'
  BY <1>1, <1>0, LifecycleConstants, Control DEF OpenBegin, At, LockFree, ServiceStep, Waiting,
      native, storage, Serial, InLock, Leaves, Stays, Becomes, Pcs
<1>2. ASSUME NEW w \in Workers, OpenExit(w) PROVE Serial'
  BY <1>2, <1>0, LifecycleConstants, OpenExitEffect, Control DEF Serial, InLock, At, Leaves, Stays,
      Becomes, Pcs, Detached
<1>3. ASSUME NEW w \in Workers, CreateBegin(w) PROVE Serial'
  BY <1>3, <1>0, LifecycleConstants, Control DEF CreateBegin, At, LockFree, ServiceStep, Waiting,
      native, storage, Serial, InLock, Leaves, Stays, Becomes, Pcs
<1>4. ASSUME NEW w \in Workers, ForkBegin(w) PROVE Serial'
  BY <1>4, <1>0, LifecycleConstants, Control DEF ForkBegin, At, LockFree, ServiceStep, Waiting,
      native, storage, Serial, InLock, Leaves, Stays, Becomes, Pcs
<1>5. ASSUME NEW w \in Workers, NEW h \in Hosts, Spawn(w, h) PROVE Serial'
  BY <1>5, <1>0, LifecycleConstants, SpawnTask DEF Serial, InLock, At, Becomes
<1>6. ASSUME NEW w \in Workers, SpawnFailed(w) PROVE Serial'
  BY <1>6, <1>0, LifecycleConstants, Control DEF SpawnFailed, At, ServiceStep, native, storage,
      Serial, InLock, Leaves, Stays, Becomes, Pcs
<1>7. ASSUME NEW w \in Workers, Attach(w) PROVE Serial'
  BY <1>7, <1>0, LifecycleConstants, Control DEF Attach, At, native, storage, Serial, InLock,
      Leaves, Stays, Becomes, Pcs
<1>8. ASSUME NEW w \in Workers, StartFailed(w) PROVE Serial'
  BY <1>8, <1>0, LifecycleConstants, Control DEF StartFailed, At, ShutDown, storage, Serial,
      InLock, Leaves, Stays, Becomes, Pcs
<1>9. ASSUME NEW w \in Workers, Publish(w) PROVE Serial'
  BY <1>9, <1>0, LifecycleConstants, Control DEF Publish, At, native, Serial, InLock, Leaves,
      Stays, Becomes, Pcs
<1>10. ASSUME NEW w \in Workers, PublishFailed(w) PROVE Serial'
  BY <1>10, <1>0, LifecycleConstants, Control DEF PublishFailed, At, ShutDown, storage, Serial,
      InLock, Leaves, Stays, Becomes, Pcs
<1>11. ASSUME NEW w \in Workers, MetadataBegin(w) PROVE Serial'
  BY <1>11, <1>0, LifecycleConstants, Control DEF MetadataBegin, At, LockFree, ServiceStep,
      Waiting, native, storage, Serial, InLock, Leaves, Stays, Becomes, Pcs
<1>12. ASSUME NEW w \in Workers, Close(w) PROVE Serial'
  BY <1>12, <1>0, LifecycleConstants, CloseEffect, Control DEF Serial, InLock, At, Leaves, Stays,
      Becomes, Pcs, Detached
<1>13. ASSUME NEW w \in Workers, UpdatePreferences(w) PROVE Serial'
  BY <1>13, <1>0, LifecycleConstants, Control DEF UpdatePreferences, At, native, Serial, InLock,
      Leaves, Stays, Becomes, Pcs
<1>13c. ASSUME NEW w \in Workers, Configure(w) PROVE Serial'
  BY <1>13c, <1>0, TypeFacts, LifecycleConstants, ConfigureTask DEF Serial, InLock, At, Leaves, Stays, Becomes
<1>14. ASSUME NEW w \in Workers, ShutdownBegin(w) PROVE Serial'
  BY <1>14, <1>0, LifecycleConstants, Control DEF ShutdownBegin, At, LockFree, ServiceStep,
      Waiting, native, storage, Serial, InLock, Leaves, Stays, Becomes, Pcs
<1>15. ASSUME NEW w \in Workers, ShutdownAll(w) PROVE Serial'
  BY <1>15, <1>0, LifecycleConstants, ShutdownTask DEF Serial, InLock, At, Becomes
<1>16. ASSUME NEW w \in Workers, DeleteBegin(w) PROVE Serial'
  BY <1>16, <1>0, LifecycleConstants, Control DEF DeleteBegin, At, LockFree, ServiceStep, Waiting,
      native, storage, Serial, InLock, Leaves, Stays, Becomes, Pcs
<1>17. ASSUME NEW w \in Workers, Prepare(w) PROVE Serial'
  BY <1>17, <1>0, LifecycleConstants, PrepareEffect DEF Serial, InLock, At, Leaves, Becomes, Takes
<1>18. ASSUME NEW w \in Workers, BeginDeletion(w) PROVE Serial'
  BY <1>18, <1>0, LifecycleConstants, Control, LockEffect DEF BeginDeletion, At, storage, Serial,
      InLock, Leaves, Stays, Becomes, Pcs, Releases
<1>19. ASSUME NEW w \in Workers, Relock(w) PROVE Serial'
  BY <1>19, <1>0, LifecycleConstants, RelockEffect DEF Serial, InLock, At, Becomes, Takes, Executing
<1>20. ASSUME NEW w \in Workers, Verify(w) PROVE Serial'
  BY <1>20, <1>0, LifecycleConstants, VerifyEffect DEF Serial, InLock, At, Becomes, Executing
<1>21. ASSUME NEW w \in Workers, Unlink(w) PROVE Serial'
  BY <1>21, <1>0, LifecycleConstants, UnlinkEffect, TaskFields DEF Serial, InLock, At, Becomes,
      Executing
<1>22. ASSUME NEW w \in Workers, Unlinked(w) PROVE Serial'
  BY <1>22, <1>0, LifecycleConstants, Control, LockEffect DEF Unlinked, At, Executing, storage,
      Serial, InLock, Leaves, Stays, Becomes, Pcs, Releases
<1>23. ASSUME NEW w \in Workers, ExecuteFails(w) PROVE Serial'
  BY <1>23, <1>0, LifecycleConstants, Control, LockEffect DEF ExecuteFails, At, Executing, storage,
      Serial, InLock, Leaves, Stays, Becomes, Pcs, Releases
<1>24. ASSUME NEW w \in Workers, Forget(w) PROVE Serial'
  BY <1>24, <1>0, LifecycleConstants, Control DEF Forget, At, native, Serial, InLock, Leaves,
      Stays, Becomes, Pcs
<1>25. ASSUME NEW w \in Workers, NEW i \in Ids, ReapBegin(w, i) PROVE Serial'
  BY <1>25, <1>0, LifecycleConstants, ReapEffect DEF Serial, InLock, At, Becomes, ServiceStep
<1>26. ASSUME NEW w \in Workers, NEW i \in Ids, NEW op \in Ops, Request(w, op, i)
     PROVE  Serial'
  BY <1>26, <1>0, LifecycleConstants, RequestEffect DEF Serial, InLock, At, Becomes
<1>27. ASSUME Crash PROVE Serial'
  BY <1>27, <1>0, LifecycleConstants, CrashIs, RestartTasks, RestartStorage DEF Serial, InLock, At
<1>28. ASSUME CrashSaving PROVE Serial'
  BY <1>28, <1>0, LifecycleConstants, CrashIs, RestartTasks, RestartStorage DEF Serial, InLock, At
<1>29. ASSUME Bystanding PROVE Serial'
  BY <1>29, <1>0, LifecycleConstants DEF Serial, InLock, At, Bystanding
<1> QED
  BY <1>1, <1>2, <1>3, <1>4, <1>5, <1>6, <1>7, <1>8, <1>9, <1>10, <1>11, <1>12, <1>13, <1>13c, <1>14,
      <1>15, <1>16, <1>17, <1>18, <1>19, <1>20, <1>21, <1>22, <1>23, <1>24, <1>25, <1>26, <1>27,
      <1>28, <1>29, Bystanders DEF WorkerStep

(* The native locks are with whom they belong to. *)
LEMMA LockedStep ==
  ASSUME TypeInv,
         [Next]_vars
  PROVE  Locked'
<1>0. work \in [Workers -> Tasks] /\ Serial /\ SessionsType /\ HostType /\ Locked
  BY TypeFacts
<1>t. \A w \in Workers : work[w].host \in Hosts \cup {NoHost}
  BY TypeFacts, TaskFields
<1>1. ASSUME NEW w \in Workers, OpenBegin(w) PROVE Locked'
  BY <1>1, <1>0, LifecycleConstants, Control DEF OpenBegin, At, LockFree, ServiceStep, Waiting,
      native, storage, Locked, Deleting, Serial, InLock, Leaves, Stays, Becomes, Pcs
<1>2. ASSUME NEW w \in Workers, OpenExit(w) PROVE Locked'
  <2> DEFINE h == sessions[work[w].id]
  <2>1. h \in Hosts /\ At(w, "exit") /\ work[w].id \in Ids
    BY <1>2, OpenExitEffect
  <2>2. /\ \A v \in Workers : v # w => work'[v] = work[v]
        /\ work'[w].pc \notin Deleting
    BY <1>2, <1>0, OpenExitEffect, Control DEF Leaves, Stays, Becomes, Pcs, Deleting
  <2>3. \/ Turns(h, host[h].id, "closed", "down") /\ Releases(h)
        \/ Turns(h, host[h].id, "closed", host[h].child) /\ lock' = lock
    BY <1>2, <1>0, OpenExitEffect, StopEffect, UnconfirmedEffect
  <2> HIDE DEF h
  <2>4. ASSUME Turns(h, host[h].id, "closed", "down") /\ Releases(h) PROVE Locked'
    BY <1>0, <2>1, <2>2, <2>4, ChildGone DEF At, Deleting
  <2>5. ASSUME Turns(h, host[h].id, "closed", host[h].child) /\ lock' = lock PROVE Locked'
    BY <1>0, <2>1, <2>2, <2>5, LifecycleConstants DEF Locked, Deleting, Turns, At
  <2> QED
    BY <2>3, <2>4, <2>5
<1>3. ASSUME NEW w \in Workers, CreateBegin(w) PROVE Locked'
  BY <1>3, <1>0, LifecycleConstants, Control DEF CreateBegin, At, LockFree, ServiceStep, Waiting,
      native, storage, Locked, Deleting, Serial, InLock, Leaves, Stays, Becomes, Pcs
<1>4. ASSUME NEW w \in Workers, ForkBegin(w) PROVE Locked'
  BY <1>4, <1>0, LifecycleConstants, Control DEF ForkBegin, At, LockFree, ServiceStep, Waiting,
      native, storage, Locked, Deleting, Serial, InLock, Leaves, Stays, Becomes, Pcs
<1>5. ASSUME NEW w \in Workers, NEW h \in Hosts, Spawn(w, h) PROVE Locked'
  BY <1>5, <1>0, LifecycleConstants, SpawnTask, SpawnEffect DEF Locked, Deleting, Serial, InLock,
      At, Becomes, Turns
<1>6. ASSUME NEW w \in Workers, SpawnFailed(w) PROVE Locked'
  BY <1>6, <1>0, LifecycleConstants, Control DEF SpawnFailed, At, ServiceStep, native, storage,
      Locked, Deleting, Serial, InLock, Leaves, Stays, Becomes, Pcs
<1>7. ASSUME NEW w \in Workers, Attach(w) PROVE Locked'
  BY <1>7, <1>0, LifecycleConstants, Control DEF Attach, At, native, storage, Locked, Deleting,
      Serial, InLock, Leaves, Stays, Becomes, Pcs
<1>8. ASSUME NEW w \in Workers, StartFailed(w) PROVE Locked'
  BY <1>8, <1>0, LifecycleConstants, Control, StopEffect, UnconfirmedEffect DEF StartFailed, At,
      ShutDown, storage, Locked, Deleting, Serial, InLock, Leaves, Stays, Becomes, Pcs, Turns,
      Releases
<1>9. ASSUME NEW w \in Workers, Publish(w) PROVE Locked'
  BY <1>9, <1>0, LifecycleConstants, Control DEF Publish, At, native, Locked, Deleting, Serial,
      InLock, Leaves, Stays, Becomes, Pcs
<1>10. ASSUME NEW w \in Workers, PublishFailed(w) PROVE Locked'
  BY <1>10, <1>0, LifecycleConstants, Control, StopEffect, UnconfirmedEffect DEF PublishFailed, At,
      ShutDown, storage, Locked, Deleting, Serial, InLock, Leaves, Stays, Becomes, Pcs, Turns,
      Releases
<1>11. ASSUME NEW w \in Workers, MetadataBegin(w) PROVE Locked'
  BY <1>11, <1>0, LifecycleConstants, Control DEF MetadataBegin, At, LockFree, ServiceStep,
      Waiting, native, storage, Locked, Deleting, Serial, InLock, Leaves, Stays, Becomes, Pcs
<1>12. ASSUME NEW w \in Workers, Close(w) PROVE Locked'
  <2> DEFINE h == sessions[work[w].id]
  <2>1. h \in Hosts /\ At(w, "close") /\ work[w].id \in Ids
    BY <1>12, CloseEffect
  <2>2. /\ \A v \in Workers : v # w => work'[v] = work[v]
        /\ work'[w].pc \notin Deleting
    BY <1>12, <1>0, CloseEffect, Control DEF Leaves, Stays, Becomes, Pcs, Deleting
  <2>3. \/ Turns(h, host[h].id, "closed", "down") /\ Releases(h)
        \/ Turns(h, host[h].id, "closed", host[h].child) /\ lock' = lock
        \/ host' = host /\ lock' = lock
    BY <1>12, <1>0, CloseEffect, StopEffect, UnconfirmedEffect
  <2> HIDE DEF h
  <2>4. ASSUME Turns(h, host[h].id, "closed", "down") /\ Releases(h) PROVE Locked'
    BY <1>0, <2>1, <2>2, <2>4, ChildGone DEF At, Deleting
  <2>5. ASSUME Turns(h, host[h].id, "closed", host[h].child) /\ lock' = lock PROVE Locked'
    BY <1>0, <2>1, <2>2, <2>5, LifecycleConstants DEF Locked, Deleting, Turns, At
  <2>6. ASSUME host' = host /\ lock' = lock PROVE Locked'
    BY <1>0, <2>1, <2>2, <2>6 DEF Locked, Deleting, At
  <2> QED
    BY <2>3, <2>4, <2>5, <2>6
<1>13. ASSUME NEW w \in Workers, UpdatePreferences(w) PROVE Locked'
  BY <1>13, <1>0, LifecycleConstants, Control DEF UpdatePreferences, At, native, Locked, Deleting,
      Serial, InLock, Leaves, Stays, Becomes, Pcs
<1>13c. ASSUME NEW w \in Workers, Configure(w) PROVE Locked'
  <2>1. /\ host' = host /\ lock' = lock /\ work[w].pc \notin Deleting /\ work'[w].pc \notin Deleting
        /\ \A v \in Workers : v # w => work'[v] = work[v]
    BY <1>13c, <1>0, TypeFacts, ConfigureTask DEF Deleting, At, Leaves, Stays, Becomes
  <2> QED
    BY <1>0, <2>1 DEF Locked
<1>14. ASSUME NEW w \in Workers, ShutdownBegin(w) PROVE Locked'
  BY <1>14, <1>0, LifecycleConstants, Control DEF ShutdownBegin, At, LockFree, ServiceStep,
      Waiting, native, storage, Locked, Deleting, Serial, InLock, Leaves, Stays, Becomes, Pcs
<1>15. ASSUME NEW w \in Workers, ShutdownAll(w) PROVE Locked'
  BY <1>15, <1>0, LifecycleConstants, ShutdownTask, ShutdownEffect DEF Locked, Deleting, Serial,
      InLock, At, Becomes
<1>16. ASSUME NEW w \in Workers, DeleteBegin(w) PROVE Locked'
  BY <1>16, <1>0, LifecycleConstants, Control DEF DeleteBegin, At, LockFree, ServiceStep, Waiting,
      native, storage, Locked, Deleting, Serial, InLock, Leaves, Stays, Becomes, Pcs
<1>17. ASSUME NEW w \in Workers, Prepare(w) PROVE Locked'
  BY <1>17, <1>0, LifecycleConstants, PrepareEffect DEF Locked, Deleting, Serial, InLock, At,
      Leaves, Becomes, Takes
<1>18. ASSUME NEW w \in Workers, BeginDeletion(w) PROVE Locked'
  BY <1>18, <1>0, LifecycleConstants, Control, LockEffect DEF BeginDeletion, At, storage, Locked,
      Deleting, Serial, InLock, Leaves, Stays, Becomes, Pcs, Releases
<1>19. ASSUME NEW w \in Workers, Relock(w) PROVE Locked'
  BY <1>19, <1>0, LifecycleConstants, RelockEffect DEF Locked, Deleting, Serial, InLock, At,
      Becomes, Takes, Executing
<1>20. ASSUME NEW w \in Workers, Verify(w) PROVE Locked'
  BY <1>20, <1>0, LifecycleConstants, VerifyEffect DEF Locked, Deleting, Serial, InLock, At,
      Becomes, Executing
<1>21. ASSUME NEW w \in Workers, Unlink(w) PROVE Locked'
  BY <1>21, <1>0, LifecycleConstants, UnlinkEffect DEF Locked, Deleting, Serial, InLock, At,
      Becomes, Executing
<1>22. ASSUME NEW w \in Workers, Unlinked(w) PROVE Locked'
  BY <1>22, <1>0, LifecycleConstants, Control, LockEffect DEF Unlinked, At, Executing, storage,
      Locked, Deleting, Serial, InLock, Leaves, Stays, Becomes, Pcs, Releases
<1>23. ASSUME NEW w \in Workers, ExecuteFails(w) PROVE Locked'
  BY <1>23, <1>0, LifecycleConstants, Control, LockEffect DEF ExecuteFails, At, Executing, storage,
      Locked, Deleting, Serial, InLock, Leaves, Stays, Becomes, Pcs, Releases
<1>24. ASSUME NEW w \in Workers, Forget(w) PROVE Locked'
  BY <1>24, <1>0, LifecycleConstants, Control DEF Forget, At, native, Locked, Deleting, Serial,
      InLock, Leaves, Stays, Becomes, Pcs
<1>25. ASSUME NEW w \in Workers, NEW i \in Ids, ReapBegin(w, i) PROVE Locked'
  BY <1>25, <1>0, LifecycleConstants, ReapEffect DEF Locked, Deleting, Serial, InLock, At, Becomes,
      ServiceStep, native
<1>26. ASSUME NEW w \in Workers, NEW i \in Ids, NEW op \in Ops, Request(w, op, i)
     PROVE  Locked'
  BY <1>26, <1>0, LifecycleConstants, RequestEffect DEF Locked, Deleting, Serial, InLock, At,
      Becomes
<1>27. ASSUME NEW i \in Ids, CommandBegin(i) PROVE Locked'
  BY <1>27, <1>0, LifecycleConstants DEF CommandBegin, native, storage, Locked, Deleting, Serial,
      InLock, At
<1>28. ASSUME NEW i \in Ids, Rename(i) PROVE Locked'
  BY <1>28, <1>0, LifecycleConstants DEF Rename, LockFree, native, service, Locked, Deleting,
      Serial, InLock, At
<1>29. ASSUME CommandTitle PROVE Locked'
  BY <1>29, <1>0, LifecycleConstants DEF CommandTitle, native, Locked, Deleting, Serial, InLock, At
<1>30. ASSUME CommandSend PROVE Locked'
  BY <1>30, <1>0, LifecycleConstants DEF CommandSend, native, storage, Locked, Deleting, Serial,
      InLock, At
<1>31. ASSUME NEW h \in Hosts, NativeReady(h) PROVE Locked'
  <2>1. /\ host[h].child = "starting" /\ lock[host[h].id] = Nobody
        /\ work' = work
    BY <1>31 DEF NativeReady, service
  <2>2. \A v \in Workers, i \in Ids : lock'[i] = v => work'[v].pc \in Deleting /\ work'[v].id = i
    BY <1>31, <1>0, <2>1, ReadyEffect, LifecycleConstants DEF Locked
  <2>3. \A v \in Workers : work'[v].pc \in Deleting => lock'[work'[v].id] = v
    BY <1>31, <1>0, <2>1, ReadyEffect, LifecycleConstants DEF Locked, Serial, InLock, Deleting
  <2>4. \A g \in Hosts, i \in Ids : lock'[i] = g => host'[g].child = "up" /\ host'[g].id = i
    BY <1>31, <1>0, <2>1, ReadyEffect, LifecycleConstants DEF Locked, Turns
  <2> QED
    BY <2>2, <2>3, <2>4 DEF Locked
<1>32. ASSUME NEW h \in Hosts, NativeExit(h) PROVE Locked'
  <2>1. work' = work
    BY <1>32 DEF NativeExit, service
  <2> QED
    BY <1>32, <2>1, <1>0, ExitEffect, ChildGone
<1>33. ASSUME NEW h \in Hosts, HostClosed(h) PROVE Locked'
  BY <1>33, <1>0, LifecycleConstants, ClosedEffect DEF HostClosed, native, service, storage,
      Locked, Deleting, Serial, InLock, At, Turns
<1>34. ASSUME NEW h \in Hosts, NEW k \in KindSet, NativeWrite(h, k) PROVE Locked'
  BY <1>34, <1>0, LifecycleConstants DEF NativeWrite, service, storage, Locked, Deleting, Serial,
      InLock, At
<1>35. ASSUME NEW i \in Ids, OutsideOpen(i) PROVE Locked'
  BY <1>35, <1>0, LifecycleConstants DEF OutsideOpen, service, storage, Locked, Deleting, Serial,
      InLock, At
<1>36. ASSUME NEW i \in Ids, OutsideClose(i) PROVE Locked'
  BY <1>36, <1>0, LifecycleConstants DEF OutsideClose, service, storage, Locked, Deleting, Serial,
      InLock, At
<1>37. ASSUME NEW i \in Ids, NEW k \in KindSet, OutsideWrite(i, k) PROVE Locked'
  BY <1>37, <1>0, LifecycleConstants DEF OutsideWrite, service, storage, Locked, Deleting, Serial,
      InLock, At
<1>38. ASSUME Crash PROVE Locked'
  BY <1>38, <1>0, LifecycleConstants, CrashIs, RestartTasks, RestartStorage,
      RestartEffect DEF Locked, Deleting, Serial, InLock, At
<1>39. ASSUME CrashSaving PROVE Locked'
  BY <1>39, <1>0, LifecycleConstants, CrashIs, RestartTasks, RestartStorage,
      RestartEffect DEF Locked, Deleting, Serial, InLock, At
<1>40. ASSUME OwnerClearsTemp PROVE Locked'
  BY <1>40, <1>0, LifecycleConstants DEF OwnerClearsTemp, native, service, Locked, Deleting,
      Serial, InLock, At
<1>41. ASSUME UNCHANGED vars PROVE Locked'
  BY <1>41, <1>0, LifecycleConstants DEF vars, native, service, storage, Locked, Deleting, Serial,
      InLock, At
<1> QED
  BY <1>1, <1>2, <1>3, <1>4, <1>5, <1>6, <1>7, <1>8, <1>9, <1>10, <1>11, <1>12, <1>13, <1>13c, <1>14,
      <1>15, <1>16, <1>17, <1>18, <1>19, <1>20, <1>21, <1>22, <1>23, <1>24, <1>25, <1>26, <1>27,
      <1>28, <1>29, <1>30, <1>31, <1>32, <1>33, <1>34, <1>35, <1>36, <1>37, <1>38, <1>39, <1>40,
      <1>41 DEF Next, WorkerStep, NativeStep

(* Every step keeps the type invariant. *)
LEMMA TypeStep ==
  ASSUME TypeInv, [Next]_vars
  PROVE  TypeInv'
<1>1. work' \in [Workers -> Tasks] /\ HostType' /\ StorageType' /\ FilesType' /\ SessionsType' /\ RestType'
  BY TaskStep, HostStep, StorageStep, FilesStep, SessionsStep, RestStep
<1>2. Types'
  BY <1>1, Zenon DEF Types, HostType, StorageType, FilesType, SessionsType, RestType
<1> QED
  BY <1>2, SerialStep, LockedStep DEF TypeInv

(* It holds in every reachable state. *)
LEMMA TypeInvariant == Spec => []TypeInv
<1>1. TypeInv /\ UNCHANGED vars => TypeInv'
  BY TypeStep
<1> QED
  BY TypeInit, TypeStep, PTL DEF Spec

(* The types of every variable, and of the native locks: a worker holds one   *)
(* exactly while it deletes, a child only its own session's and while it is   *)
(* up; whatever fails, and over every restart.                                *)
THEOREM TypeCorrect == Spec => []TypeOK
<1>1. TypeInv => TypeOK
  <2> SUFFICES ASSUME TypeInv PROVE TypeOK
    OBVIOUS
  <2>1. \A w \in Workers : work[w].pc \in Deleting <=> \E i \in Ids : lock[i] = w /\ work[w].id = i
    BY DEF TypeInv, Serial, Locked, InLock, At, Deleting
  <2>2. \A h \in Hosts, i \in Ids : lock[i] = h => host[h].child = "up" /\ host[h].id = i
    BY DEF TypeInv, Locked
  <2>3. Types
    BY DEF TypeInv
  <2> QED
    BY <2>1, <2>2, <2>3, Zenon DEF Types, TypeOK, Slots
<1> QED
  BY <1>1, TypeInvariant, PTL

-----------------------------------------------------------------------------
(* Deletion: the invariant.                                                   *)

PendingIn(r) == {i \in Ids : r.deletions[i] # NoPlan}

\* What Registry::load accepts.
Sound(r) ==
  /\ r.archived \subseteq r.known /\ PendingIn(r) \subseteq r.known
  /\ IsFiniteSet(PendingIn(r)) /\ Cardinality(PendingIn(r)) <= MaxDeletions

\* Something a deletion captured is still there as it was.
Left(i) == \E k \in KindSet : files[i][k] # 0 /\ files[i][k] = mem.deletions[i][k]

\* The registries one request may write next: the disk is never further ahead
\* of the memory than that, which is why a save that fails after its rename, or
\* a restart, is harmless.
Change(r) ==
  \/ r = mem
  \/ \E i \in Ids : i \notin forgotten /\ Admitted(i) /\ r = Remembered(i)
  \/ \E i \in Ids, b \in BOOLEAN : i \in mem.known /\ ~Pending(i) /\ r = WithArchived(i, b)
  \/ \E i \in Ids, p \in Fingerprints :
       /\ MayBegin(i) /\ p # NoPlan /\ \A k \in KindSet : p[k] <= writes[i]
       /\ r = WithPlan(i, p)
  \/ \E i \in Ids : Pending(i) /\ ~Left(i) /\ r = Removed(i)

\* Fingerprints are numbers of writes made.
Numbered == \A i \in Ids, k \in KindSet :
  files[i][k] <= writes[i] /\ mem.deletions[i][k] <= writes[i]

\* A session clients reach is remembered, admitted, and that of its host.
Live == \A i \in Ids : sessions[i] # NoHost =>
  i \in mem.known /\ Admitted(i) /\ host[sessions[i]].id = i

\* A deleted session is neither remembered nor reached.
Final == \A i \in forgotten : i \notin mem.known /\ sessions[i] = NoHost

\* What a worker knows of its session at each step.
Cand(w) ==
  LET id == work[w].id IN
  /\ work[w].pc \in {"exit", "configure", "spawn", "start", "publish"} =>
       Admitted(id) /\ id \notin forgotten
  /\ work[w].pc \in {"configure", "spawn", "start", "publish", "prepare", "begin", "relock", "verify", "unlink", "forget"} =>
       sessions[id] = NoHost
  /\ work[w].pc \in {"start", "publish"} =>
       host[work[w].host].id = id /\ \A i \in Ids : sessions[i] # work[w].host
  /\ work[w].pc = "prefs" =>
       id \in mem.known /\ ~Pending(id) /\ (work[w].op = "archive" => sessions[id] = NoHost)
  /\ work[w].pc = "relock" => Pending(id)
  /\ work[w].pc = "begin" => work[w].plan # NoPlan /\ \A k \in KindSet : work[w].plan[k] <= writes[id]
  /\ work[w].pc \in {"verify", "unlink", "forget"} =>
       mem.deletions[id] = work[w].plan /\ work[w].plan # NoPlan
  /\ work[w].pc = "forget" => ~Left(id)

\* A projection is that of the host clients reach, or of a host about to be.
Projected == \A i \in Ids : durable[i] # NoHost =>
  \/ sessions[i] = durable[i]
  \/ \E w \in Workers : At(w, "publish") /\ work[w].id = i /\ work[w].host = durable[i]

SessionInv ==
  /\ Sound(mem) /\ Change(disk) /\ Numbered /\ Live /\ Final /\ Projected
  /\ \A w \in Workers : Cand(w)

(* It holds when the service starts. *)
LEMMA SessionInit == Init => SessionInv
<1> SUFFICES ASSUME Init PROVE SessionInv
  OBVIOUS
<1>1. \A i \in Ids : ~Pending(i)
  BY DEF Init, Pending
<1>2. PendingIn(mem) = {}
  BY <1>1 DEF PendingIn, Pending
<1>3. Sound(mem)
  <2>1. mem.archived = {} /\ MaxDeletions >= 0 /\ IsFiniteSet({}) /\ Cardinality({}) = 0
    BY FS_EmptySet, LifecycleConstants DEF Init
  <2> QED
    BY <1>2, <2>1 DEF Sound
<1>4. Numbered
  BY LifecycleConstants DEF Numbered, Init, NoPlan
<1>5. Change(disk)
  BY DEF Change, Init
<1>6. Live /\ Final /\ Projected /\ \A w \in Workers : Cand(w)
  BY DEF Live, Final, Projected, Cand, Init, Idle
<1> QED
  BY <1>3, <1>4, <1>5, <1>6 DEF SessionInv

-----------------------------------------------------------------------------
(* Changes of the registry.                                                  *)

(* What a worker saves, or was saving when the service died, is such a change. *)
LEMMA SavingChanges ==
  ASSUME TypeInv, NEW w \in Workers, Cand(w), NEW new \in Saving(w)
  PROVE  new \in Registry /\ Change(new)
<1>1. /\ work[w].plan \in Fingerprints /\ mem \in Registry
      /\ InLock(w) => work[w].id \in Ids
  BY TypeFacts, TaskFields DEF StorageType, Serial
<1>2. ASSUME At(w, "configure") \/ At(w, "publish"), new = Remembered(work[w].id)
      PROVE  new \in Registry /\ Change(new)
  BY <1>1, <1>2, RememberedFields DEF Cand, At, InLock, Change
<1>3. ASSUME At(w, "prefs"), new = Preferences(w) PROVE new \in Registry /\ Change(new)
  BY <1>1, <1>3, WithArchivedFields DEF Cand, At, InLock, Change, Preferences
<1>4. ASSUME At(w, "begin"), MayBegin(work[w].id), new = WithPlan(work[w].id, work[w].plan)
      PROVE  new \in Registry /\ Change(new)
  BY <1>1, <1>4, WithPlanFields DEF Cand, At, InLock, Change
<1>5. ASSUME At(w, "forget"), new = Removed(work[w].id) PROVE new \in Registry /\ Change(new)
  BY <1>1, <1>5, RemovedFields DEF Cand, At, InLock, Change, Pending
<1> QED
  BY <1>2, <1>3, <1>4, <1>5, SavingIs

(* Every change keeps what Registry::load asks for. *)
LEMMA ChangeSound ==
  ASSUME mem \in Registry, Sound(mem), NEW r, Change(r)
  PROVE  r \in Registry /\ Sound(r)
<1>0. /\ PendingIn(mem) \subseteq mem.known /\ mem.archived \subseteq mem.known
      /\ IsFiniteSet(PendingIn(mem)) /\ Cardinality(PendingIn(mem)) <= MaxDeletions
      /\ Cardinality(PendingIn(mem)) \in Nat /\ MaxDeletions \in Nat
  BY LifecycleConstants, FS_CardinalityType DEF Sound
<1>1. CASE r = mem
  BY <1>1
<1>2. ASSUME NEW i \in Ids, r = Remembered(i) PROVE r \in Registry /\ Sound(r)
  <2>1. PendingIn(r) = PendingIn(mem)
    BY <1>2, RememberedFields DEF PendingIn
  <2> QED
    BY <1>0, <1>2, <2>1, RememberedFields DEF Sound
<1>3. ASSUME NEW i \in Ids, NEW b \in BOOLEAN, i \in mem.known, r = WithArchived(i, b)
      PROVE  r \in Registry /\ Sound(r)
  <2>1. PendingIn(r) = PendingIn(mem)
    BY <1>3, WithArchivedFields DEF PendingIn
  <2>2. r.archived \subseteq r.known /\ r.known = mem.known /\ r \in Registry
    BY <1>0, <1>3, WithArchivedFields
  <2> QED
    BY <1>0, <2>1, <2>2 DEF Sound
<1>4. ASSUME NEW i \in Ids, NEW p \in Fingerprints, MayBegin(i), p # NoPlan, r = WithPlan(i, p)
      PROVE  r \in Registry /\ Sound(r)
  <2>1. /\ r \in Registry /\ r.known = mem.known /\ r.archived = mem.archived /\ r.deletions[i] = p
        /\ \A j \in Ids : j # i => r.deletions[j] = mem.deletions[j]
    BY <1>4, WithPlanFields
  <2>2. PendingIn(r) = PendingIn(mem) \cup {i}
    BY <1>4, <2>1 DEF PendingIn
  <2>3. i \in mem.known /\ i \notin PendingIn(mem) /\ Cardinality(PendingIn(mem)) < MaxDeletions
    BY <1>4 DEF MayBegin, PendingIn, Pending
  <2>4. IsFiniteSet(PendingIn(r)) /\ Cardinality(PendingIn(r)) = Cardinality(PendingIn(mem)) + 1
    BY <1>0, <2>2, <2>3, FS_AddElement
  <2> QED
    BY <1>0, <2>1, <2>2, <2>3, <2>4 DEF Sound
<1>5. ASSUME NEW i \in Ids, r = Removed(i) PROVE r \in Registry /\ Sound(r)
  <2>1. /\ r \in Registry /\ r.known = mem.known \ {i} /\ r.archived = mem.archived \ {i}
        /\ r.deletions[i] = NoPlan /\ \A j \in Ids : j # i => r.deletions[j] = mem.deletions[j]
    BY <1>5, RemovedFields
  <2>2. PendingIn(r) = PendingIn(mem) \ {i}
    BY <2>1 DEF PendingIn
  <2>3. IsFiniteSet(PendingIn(r)) /\ Cardinality(PendingIn(r)) <= Cardinality(PendingIn(mem))
    BY <1>0, <2>2, FS_Subset
  <2>4. Cardinality(PendingIn(r)) <= MaxDeletions
    BY <1>0, <2>3, FS_CardinalityType
  <2> QED
    BY <1>0, <2>1, <2>2, <2>3, <2>4 DEF Sound
<1> QED
  BY <1>1, <1>2, <1>3, <1>4, <1>5 DEF Change

-----------------------------------------------------------------------------
(* What steps do to the parts the invariant relates.                         *)

\* Hosts keep their sessions, children are not started, orphans stay orphans.
HostsFollow == \A h \in Hosts :
  /\ host'[h].id = host[h].id
  /\ host'[h].child # "down" => host[h].child # "down"
  /\ host'[h].status = host[h].status \/ host[h].status = "live"

(* The steps that leave the tasks alone only touch the disk, and what they    *)
(* save is what the memory holds.                                             *)
LEMMA BystandStep ==
  ASSUME TypeInv, [Next]_vars
  PROVE  \/ \E w \in Workers : WorkerStep(w)
         \/ \E w \in Workers, i \in Ids : ReapBegin(w, i) \/ \E op \in Ops : Request(w, op, i)
         \/ \E found, left : /\ Restart(found, left)
                             /\ \/ found = disk \/ found = mem
                                \/ \E w \in Workers : found \in Saving(w)
         \/ Bystanding /\ mem' = mem /\ disk' \in {disk, mem} /\ HostsFollow
<1> DEFINE Aside == Bystanding /\ mem' = mem /\ disk' \in {disk, mem} /\ HostsFollow
<1>0. HostType /\ StorageType /\ command \in Ids \cup {NoId}
  BY TypeFacts DEF TypeInv, Types
<1>1. ASSUME \E i \in Ids : CommandBegin(i) PROVE Aside
  BY <1>1 DEF CommandBegin, Bystanding, HostsFollow, service, storage
<1>2. ASSUME NEW i \in Ids, Rename(i) PROVE Aside
  <2>1. Saved(mem) \/ SaveFailed(mem)
    BY <1>2 DEF Rename
  <2>2. mem' = mem /\ disk' \in {disk, mem}
    BY <1>0, <2>1, SavedEffect, SaveFailedEffect DEF StorageType
  <2> QED
    BY <1>2, <2>2 DEF Rename, Bystanding, HostsFollow, service
<1>3. ASSUME CommandTitle PROVE Aside
  <2>1. command \in Ids /\ command \in mem.known
    BY <1>0, <1>3 DEF CommandTitle, HasEntry
  <2>2. Remembered(command) = mem
    <3> DEFINE r == Remembered(command)
    <3>1. /\ r \in Registry /\ mem \in Registry /\ r.known = mem.known /\ r.archived = mem.archived
          /\ \A i \in Ids : r.deletions[i] = mem.deletions[i]
      BY <1>0, <2>1, RememberedFields, ZenonT(60) DEF StorageType
    <3> HIDE DEF r
    <3>2. r = mem
      BY <3>1, SameRegistry
    <3> QED
      BY <3>2 DEF r
  <2>3. Saved(Remembered(command)) \/ SaveFailed(Remembered(command))
    BY <1>3 DEF CommandTitle
  <2>4. Saved(mem) \/ SaveFailed(mem)
    BY <2>2, <2>3
  <2>5. mem' = mem /\ disk' \in {disk, mem}
    BY <1>0, <2>4, SavedEffect, SaveFailedEffect DEF StorageType
  <2> QED
    BY <1>3, <2>5 DEF CommandTitle, Bystanding, HostsFollow, service
<1>4. ASSUME CommandSend \/ OwnerClearsTemp \/ UNCHANGED vars PROVE Aside
  BY <1>4 DEF CommandSend, OwnerClearsTemp, Bystanding, HostsFollow, service, storage, vars
<1>5. ASSUME NativeStep PROVE Aside
  <2>1. Bystanding /\ mem' = mem /\ disk' = disk
    BY <1>5 DEF NativeStep, NativeReady, NativeExit, HostClosed, NativeWrite, OutsideOpen, OutsideClose,
                OutsideWrite, Bystanding, service, storage
  <2>2. ASSUME NEW h \in Hosts, NativeReady(h) \/ NativeExit(h) \/ HostClosed(h)
        PROVE  HostsFollow
    <3>1. CASE NativeReady(h)
      <4>1. host[h].child = "starting"
        BY <3>1 DEF NativeReady
      <4> QED
        BY <1>0, <3>1, <4>1, ReadyEffect DEF Turns, HostsFollow
    <3>2. CASE NativeExit(h)
      BY <1>0, <3>2, ExitEffect DEF Turns, HostsFollow
    <3>3. CASE HostClosed(h)
      <4>1. host[h].status = "live"
        BY <3>3 DEF HostClosed
      <4> QED
        BY <1>0, <3>3, <4>1, ClosedEffect DEF Turns, HostsFollow
    <3> QED
      BY <2>2, <3>1, <3>2, <3>3
  <2>3. ASSUME \/ \E h \in Hosts, k \in KindSet : NativeWrite(h, k)
               \/ \E i \in Ids : OutsideOpen(i) \/ OutsideClose(i)
               \/ \E i \in Ids, k \in KindSet : OutsideWrite(i, k)
        PROVE  HostsFollow
    BY <2>3 DEF NativeWrite, OutsideOpen, OutsideClose, OutsideWrite, HostsFollow
  <2> QED
    BY <1>5, <2>1, <2>2, <2>3 DEF NativeStep
<1>6. ASSUME Crash \/ CrashSaving
      PROVE  \E found, left : /\ Restart(found, left)
                              /\ \/ found = disk \/ found = mem
                                 \/ \E w \in Workers : found \in Saving(w)
  <2>1. Crash => Restart(disk, temp)
    BY DEF Crash
  <2> QED
    BY <1>6, <2>1, CrashSavingIs
<1> HIDE DEF Aside
<1>7. \/ \E w \in Workers : WorkerStep(w)
      \/ \E w \in Workers, i \in Ids : ReapBegin(w, i) \/ \E op \in Ops : Request(w, op, i)
      \/ \E i \in Ids : CommandBegin(i)
      \/ \E i \in Ids : Rename(i)
      \/ CommandTitle \/ CommandSend \/ NativeStep \/ Crash \/ CrashSaving \/ OwnerClearsTemp
      \/ UNCHANGED vars
  BY DEF Next
<1>8. Aside \/ (\E w \in Workers : WorkerStep(w))
      \/ (\E w \in Workers, i \in Ids : ReapBegin(w, i) \/ \E op \in Ops : Request(w, op, i))
      \/ Crash \/ CrashSaving
  BY <1>1, <1>2, <1>3, <1>4, <1>5, <1>7
<1> QED
  BY <1>6, <1>8 DEF Aside

(* A file keeps its fingerprint, goes, or gets a new one. *)
LEMMA FilesFollow ==
  ASSUME TypeInv, [Next]_vars, NEW i \in Ids
  PROVE  /\ writes[i] \in Nat /\ writes'[i] \in Nat /\ writes[i] <= writes'[i]
         /\ \A k \in KindSet :
              /\ files[i][k] \in Nat /\ files'[i][k] \in Nat
              /\ \/ files'[i][k] = files[i][k] \/ files'[i][k] = 0
                 \/ files'[i][k] = writes[i] + 1 /\ writes'[i] = writes[i] + 1
<1>0. FilesType /\ FilesType' /\ HostType
  BY TypeFacts, FilesStep DEF FilesType
<1>1. /\ writes[i] \in Nat /\ writes'[i] \in Nat
      /\ \A k \in KindSet : files[i][k] \in Nat /\ files'[i][k] \in Nat
  BY <1>0, LifecycleConstants DEF FilesType, Fingerprints
<1>2. ASSUME NEW j \in Ids, NEW k \in KindSet, Written(j, k)
      PROVE  /\ writes[i] <= writes'[i]
             /\ \A f \in KindSet : \/ files'[i][f] = files[i][f]
                                   \/ files'[i][f] = writes[i] + 1 /\ writes'[i] = writes[i] + 1
  BY <1>0, <1>1, <1>2, WrittenEffect
<1>3. ASSUME NEW w \in Workers, Unlink(w)
      PROVE  /\ writes'[i] = writes[i]
             /\ \A f \in KindSet : files'[i][f] = files[i][f] \/ files'[i][f] = 0
  BY <1>3, UnlinkEffect DEF Executing
<1>4. ASSUME NEW h \in Hosts, NEW k \in KindSet, NativeWrite(h, k)
      PROVE  /\ writes[i] <= writes'[i]
             /\ \A f \in KindSet : \/ files'[i][f] = files[i][f]
                                   \/ files'[i][f] = writes[i] + 1 /\ writes'[i] = writes[i] + 1
  <2>1. host[h].id \in Ids \cup {NoId} /\ Written(host[h].id, k)
    BY <1>0, <1>4 DEF NativeWrite, HostType, Slots
  <2>2. CASE host[h].id = NoId
    BY <1>0, <1>1, <2>1, <2>2, LifecycleConstants DEF Written, FilesType
  <2>3. CASE host[h].id \in Ids
    BY <1>2, <2>1, <2>3
  <2> QED
    BY <2>1, <2>2, <2>3
<1>5. ASSUME NEW j \in Ids, NEW k \in KindSet, OutsideWrite(j, k)
      PROVE  /\ writes[i] <= writes'[i]
             /\ \A f \in KindSet : \/ files'[i][f] = files[i][f]
                                   \/ files'[i][f] = writes[i] + 1 /\ writes'[i] = writes[i] + 1
  BY <1>2, <1>5 DEF OutsideWrite
<1> QED
  BY <1>1, <1>3, <1>4, <1>5, FilesMoves

(* What is gone of a captured history stays gone: a new write has a new number. *)
LEMMA LeftGone ==
  ASSUME TypeInv, [Next]_vars, Numbered, NEW i \in Ids, mem'.deletions[i] = mem.deletions[i]
  PROVE  /\ ~Left(i) => ~Left(i)'
         /\ \A k \in KindSet : files'[i][k] # 0 /\ files'[i][k] = mem.deletions[i][k] => files[i][k] = files'[i][k]
<1>1. ASSUME NEW k \in KindSet, files'[i][k] # 0, files'[i][k] = mem.deletions[i][k]
      PROVE  files[i][k] = files'[i][k]
  <2>1. mem.deletions[i][k] <= writes[i] /\ mem.deletions[i][k] \in Nat
    BY <1>1, FilesFollow DEF Numbered
  <2> QED
    BY <1>1, <2>1, FilesFollow
<1> QED
  BY <1>1 DEF Left

-----------------------------------------------------------------------------
(* The five steps that save the registry, field by field.                    *)

(* prepare_create remembers a configured session, or fails and changes at most the disk. *)
LEMMA ConfigureEffect ==
  ASSUME TypeInv, NEW w \in Workers, Configure(w)
  PROVE  /\ At(w, "configure") /\ work[w].id \in Ids
         /\ \/ /\ Stays(w, "spawn") /\ lifecycle' = lifecycle
               /\ disk' = mem' /\ mem' \in Saving(w)
               /\ mem'.known = mem.known \cup {work[w].id} /\ mem'.archived = mem.archived
               /\ mem'.deletions = mem.deletions
            \/ /\ Leaves(w) /\ lifecycle' = Nobody
               /\ mem' = mem /\ \E new \in Saving(w) \cup {disk} : disk' = new
         /\ UNCHANGED <<closing, sessions, durable, host, files, writes, lock, forgotten>>
<1>0. work \in [Workers -> Tasks] /\ Serial /\ StorageType
  BY TypeFacts
<1>1. At(w, "configure") /\ work[w].id \in Ids
  BY <1>0, ConfigureTask
<1>2. Remembered(work[w].id) \in Saving(w)
  BY <1>1 DEF Saving, At
<1> QED
  BY <1>0, <1>1, <1>2, ConfigureTask, RememberedFields DEF StorageType

(* Publishing a host remembers its session, then maps it to the host. *)
LEMMA PublishEffect ==
  ASSUME TypeInv, NEW w \in Workers, Publish(w)
  PROVE  /\ At(w, "publish") /\ work[w].id \in Ids /\ work[w].host \in Hosts
         /\ Leaves(w) /\ lifecycle' = Nobody
         /\ sessions'[work[w].id] = work[w].host
         /\ \A i \in Ids : i # work[w].id => sessions'[i] = sessions[i]
         /\ mem'.known = mem.known \cup {work[w].id} /\ mem'.archived = mem.archived
         /\ mem'.deletions = mem.deletions /\ disk' = mem' /\ mem' \in Saving(w)
         /\ UNCHANGED <<durable, host, files, writes, lock, forgotten>>
<1>0. work \in [Workers -> Tasks] /\ Serial /\ SessionsType /\ StorageType
  BY TypeFacts
<1>1. At(w, "publish") /\ work[w].id \in Ids /\ work[w].host \in Hosts
  BY <1>0 DEF Publish, Serial, InLock, At
<1>2. mem' = Remembered(work[w].id) /\ disk' = mem' /\ MayPublish(w)
  BY <1>0, <1>1, RememberedFields, SavedEffect DEF Publish, StorageType
<1>3. mem' \in Saving(w)
  BY <1>1, <1>2 DEF Saving, At
<1>4. Leaves(w) /\ lifecycle' = Nobody
  BY <1>0, Control DEF Publish
<1>5. sessions' = [sessions EXCEPT ![work[w].id] = work[w].host]
  BY DEF Publish
<1>6. UNCHANGED <<durable, host, files, writes, lock, forgotten>>
  BY DEF Publish, native
<1> QED
  BY <1>0, <1>1, <1>2, <1>3, <1>4, <1>5, <1>6, RememberedFields DEF SessionsType, StorageType

(* A publication that fails detaches the projection and shuts its host down. *)
LEMMA PublishFailedEffect ==
  ASSUME TypeInv, NEW w \in Workers, PublishFailed(w)
  PROVE  /\ At(w, "publish") /\ work[w].id \in Ids /\ work[w].host \in Hosts
         /\ Leaves(w) /\ lifecycle' = Nobody
         /\ durable'[work[w].id] = NoHost /\ \A i \in Ids : i # work[w].id => durable'[i] = durable[i]
         /\ mem' = mem /\ \E new \in Saving(w) \cup {disk} : disk' = new
         /\ ShutDown(work[w].host)
         /\ UNCHANGED <<sessions, files, writes, forgotten>>
<1>0. work \in [Workers -> Tasks] /\ Serial /\ SessionsType /\ StorageType
  BY TypeFacts
<1>1. At(w, "publish") /\ work[w].id \in Ids /\ work[w].host \in Hosts
  BY <1>0 DEF PublishFailed, Serial, InLock, At
<1>2. (MayPublish(w) /\ SaveFailed(Remembered(work[w].id))) \/ UNCHANGED <<mem, disk, temp>>
  BY DEF PublishFailed, storage
<1>3. mem' = mem /\ (disk' = disk \/ (MayPublish(w) /\ disk' = Remembered(work[w].id)))
  BY <1>0, <1>1, <1>2, RememberedFields, SaveFailedEffect DEF StorageType
<1>4. \E new \in Saving(w) \cup {disk} : disk' = new
  BY <1>1, <1>3 DEF Saving, At
<1>5. Leaves(w) /\ lifecycle' = Nobody
  BY <1>0, Control DEF PublishFailed
<1>6. durable' = [durable EXCEPT ![work[w].id] = NoHost]
  BY DEF PublishFailed
<1>7. UNCHANGED <<sessions, files, writes, forgotten>> /\ ShutDown(work[w].host)
  BY DEF PublishFailed
<1>8. durable'[work[w].id] = NoHost /\ \A i \in Ids : i # work[w].id => durable'[i] = durable[i]
  BY <1>0, <1>1, <1>6 DEF SessionsType
<1> QED
  BY <1>1, <1>3, <1>4, <1>5, <1>7, <1>8

(* Archiving and restoring change one preference, or fail and change at most the disk. *)
LEMMA PreferencesEffect ==
  ASSUME TypeInv, NEW w \in Workers, UpdatePreferences(w)
  PROVE  /\ At(w, "prefs") /\ work[w].id \in Ids /\ Leaves(w) /\ lifecycle' = Nobody
         /\ \/ /\ disk' = mem' /\ mem' \in Saving(w)
               /\ mem'.known = mem.known /\ mem'.deletions = mem.deletions
               /\ work[w].op = "archive" => mem'.archived = mem.archived \cup {work[w].id}
               /\ work[w].op # "archive" => mem'.archived = mem.archived \ {work[w].id}
            \/ mem' = mem /\ \E new \in Saving(w) \cup {disk} : disk' = new
         /\ UNCHANGED <<sessions, durable, host, files, writes, lock, forgotten>>
<1>0. work \in [Workers -> Tasks] /\ Serial /\ StorageType
  BY TypeFacts
<1>1. At(w, "prefs") /\ work[w].id \in Ids
  BY <1>0 DEF UpdatePreferences, Serial, InLock, At
<1>2. Preferences(w) \in Saving(w) /\ Preferences(w) \in Registry
  BY <1>0, <1>1, WithArchivedFields DEF Saving, At, Preferences, StorageType
<1>3. \/ mem' = Preferences(w) /\ disk' = mem'
      \/ mem' = mem /\ disk' \in {disk, Preferences(w)}
  BY <1>0, <1>2, SavedEffect, SaveFailedEffect DEF UpdatePreferences
<1>4. Leaves(w) /\ lifecycle' = Nobody
  BY <1>0, Control DEF UpdatePreferences
<1>5. UNCHANGED <<sessions, durable, host, files, writes, lock, forgotten>>
  BY DEF UpdatePreferences, native
<1>6. ASSUME mem' = Preferences(w)
      PROVE  /\ mem'.known = mem.known /\ mem'.deletions = mem.deletions
             /\ work[w].op = "archive" => mem'.archived = mem.archived \cup {work[w].id}
             /\ work[w].op # "archive" => mem'.archived = mem.archived \ {work[w].id}
  BY <1>0, <1>1, <1>6, WithArchivedFields DEF Preferences, StorageType
<1> QED
  BY <1>1, <1>2, <1>3, <1>4, <1>5, <1>6

(* begin_deletion saves the captured plan, or fails and rolls memory back. *)
LEMMA BeginEffect ==
  ASSUME TypeInv, NEW w \in Workers, BeginDeletion(w)
  PROVE  /\ At(w, "begin") /\ work[w].id \in Ids
         /\ \/ /\ Stays(w, "verify") /\ lifecycle' = lifecycle /\ lock' = lock
               /\ disk' = mem' /\ mem' \in Saving(w) /\ MayBegin(work[w].id)
               /\ mem'.known = mem.known /\ mem'.archived = mem.archived
               /\ mem'.deletions[work[w].id] = work[w].plan
               /\ \A i \in Ids : i # work[w].id => mem'.deletions[i] = mem.deletions[i]
            \/ /\ Leaves(w) /\ lifecycle' = Nobody /\ Unlock(w)
               /\ mem' = mem /\ \E new \in Saving(w) \cup {disk} : disk' = new
         /\ UNCHANGED <<sessions, durable, host, files, writes, forgotten>>
<1>0. work \in [Workers -> Tasks] /\ Serial /\ StorageType /\ work[w].plan \in Fingerprints
  BY TypeFacts, TaskFields
<1>1. At(w, "begin") /\ work[w].id \in Ids /\ mem \in Registry
  BY <1>0 DEF BeginDeletion, Serial, InLock, At, StorageType
<1> DEFINE new == WithPlan(work[w].id, work[w].plan)
<1>2. new \in Registry /\ (MayBegin(work[w].id) => new \in Saving(w))
  BY <1>0, <1>1, WithPlanFields DEF Saving, At
<1>3. \/ MayBegin(work[w].id) /\ Saved(new) /\ Goto(w, "verify") /\ UNCHANGED lock
      \/ /\ (MayBegin(work[w].id) /\ SaveFailed(new)) \/ UNCHANGED <<mem, disk, temp>>
         /\ Finish(w) /\ Unlock(w)
  BY DEF BeginDeletion, storage
<1>4. ASSUME mem' = new
      PROVE  /\ mem'.known = mem.known /\ mem'.archived = mem.archived
             /\ mem'.deletions[work[w].id] = work[w].plan
             /\ \A i \in Ids : i # work[w].id => mem'.deletions[i] = mem.deletions[i]
  BY <1>0, <1>1, <1>4, WithPlanFields
<1> HIDE DEF new
<1>5. CASE MayBegin(work[w].id) /\ Saved(new) /\ Goto(w, "verify") /\ UNCHANGED lock
  <2>1. mem' = new /\ disk' = new
    BY <1>0, <1>2, <1>5, SavedEffect
  <2>2. Stays(w, "verify") /\ lifecycle' = lifecycle
    BY <1>0, <1>5, Control DEF Pcs
  <2> QED
    BY <1>1, <1>2, <1>4, <1>5, <2>1, <2>2 DEF BeginDeletion
<1>6. CASE /\ (MayBegin(work[w].id) /\ SaveFailed(new)) \/ UNCHANGED <<mem, disk, temp>>
           /\ Finish(w) /\ Unlock(w)
  <2>1. mem' = mem /\ (disk' = disk \/ (MayBegin(work[w].id) /\ disk' = new))
    BY <1>0, <1>2, <1>6, SaveFailedEffect
  <2>2. Leaves(w) /\ lifecycle' = Nobody
    BY <1>0, <1>6, Control
  <2> QED
    BY <1>1, <1>2, <1>6, <2>1, <2>2 DEF BeginDeletion
<1> QED
  BY <1>3, <1>5, <1>6

(* Registry::remove forgets the session, or fails and keeps it pending. *)
LEMMA ForgetEffect ==
  ASSUME TypeInv, NEW w \in Workers, Forget(w)
  PROVE  /\ At(w, "forget") /\ work[w].id \in Ids /\ Leaves(w) /\ lifecycle' = Nobody
         /\ \/ /\ disk' = mem' /\ mem' \in Saving(w) /\ forgotten' = forgotten \cup {work[w].id}
               /\ mem'.known = mem.known \ {work[w].id} /\ mem'.archived = mem.archived \ {work[w].id}
               /\ mem'.deletions[work[w].id] = NoPlan
               /\ \A i \in Ids : i # work[w].id => mem'.deletions[i] = mem.deletions[i]
            \/ mem' = mem /\ forgotten' = forgotten /\ \E new \in Saving(w) \cup {disk} : disk' = new
         /\ UNCHANGED <<sessions, durable, host, files, writes, lock>>
<1>0. work \in [Workers -> Tasks] /\ Serial /\ StorageType
  BY TypeFacts
<1>1. At(w, "forget") /\ work[w].id \in Ids /\ mem \in Registry
  BY <1>0 DEF Forget, Serial, InLock, At, StorageType
<1> DEFINE new == Removed(work[w].id)
<1>2. new \in Registry /\ new \in Saving(w)
  BY <1>0, <1>1, RemovedFields DEF Saving, At
<1>3. \/ Saved(new) /\ forgotten' = forgotten \cup {work[w].id}
      \/ SaveFailed(new) /\ forgotten' = forgotten
  BY DEF Forget
<1>4. ASSUME mem' = new
      PROVE  /\ mem'.known = mem.known \ {work[w].id} /\ mem'.archived = mem.archived \ {work[w].id}
             /\ mem'.deletions[work[w].id] = NoPlan
             /\ \A i \in Ids : i # work[w].id => mem'.deletions[i] = mem.deletions[i]
  BY <1>1, <1>4, RemovedFields
<1> HIDE DEF new
<1>5. Leaves(w) /\ lifecycle' = Nobody
  BY <1>0, Control DEF Forget
<1>6. UNCHANGED <<sessions, durable, host, files, writes, lock>>
  BY DEF Forget, native
<1>7. \/ mem' = new /\ disk' = new /\ forgotten' = forgotten \cup {work[w].id}
      \/ mem' = mem /\ disk' \in {disk, new} /\ forgotten' = forgotten
  BY <1>0, <1>2, <1>3, SavedEffect, SaveFailedEffect
<1> QED
  BY <1>1, <1>2, <1>4, <1>5, <1>6, <1>7

(* How memory and disk move: one save, failed or not, or a restart. *)
LEMMA RegistryStep ==
  ASSUME TypeInv, [Next]_vars
  PROVE  \/ mem' = mem /\ (disk' = disk \/ disk' = mem \/ \E w \in Workers : disk' \in Saving(w))
         \/ mem' = disk' /\ (mem' = disk \/ mem' = mem \/ \E w \in Workers : mem' \in Saving(w))
<1> DEFINE Goal ==
      \/ mem' = mem /\ (disk' = disk \/ disk' = mem \/ \E w \in Workers : disk' \in Saving(w))
      \/ mem' = disk' /\ (mem' = disk \/ mem' = mem \/ \E w \in Workers : mem' \in Saving(w))
<1>1. ASSUME NEW w \in Workers, WorkerStep(w) PROVE Goal
  <2>1. CASE Publish(w)
    BY <2>1, PublishEffect
  <2>2. CASE PublishFailed(w)
    BY <2>2, PublishFailedEffect
  <2>3. CASE UpdatePreferences(w)
    BY <2>3, PreferencesEffect
  <2>3c. CASE Configure(w)
    BY <2>3c, ConfigureEffect
  <2>4. CASE BeginDeletion(w)
    BY <2>4, BeginEffect
  <2>5. CASE Forget(w)
    BY <2>5, ForgetEffect
  <2>6. ASSUME \/ OpenBegin(w) \/ OpenExit(w) \/ CreateBegin(w) \/ ForkBegin(w)
               \/ \E h \in Hosts : Spawn(w, h)
               \/ SpawnFailed(w) \/ Attach(w) \/ StartFailed(w) \/ MetadataBegin(w) \/ Close(w)
               \/ ShutdownBegin(w) \/ ShutdownAll(w)
               \/ DeleteBegin(w) \/ Prepare(w) \/ Relock(w)
               \/ Verify(w) \/ Unlink(w) \/ Unlinked(w) \/ ExecuteFails(w)
        PROVE  mem' = mem /\ disk' = disk
    BY <2>6 DEF OpenBegin, OpenExit, CreateBegin, ForkBegin, Spawn, SpawnFailed, Attach, StartFailed,
                MetadataBegin, Close, ShutdownBegin, ShutdownAll, DeleteBegin, Prepare, Relock,
                Verify, Unlink, Unlinked, ExecuteFails, ServiceStep, Executing, storage
  <2> QED
    BY <1>1, <2>1, <2>2, <2>3, <2>3c, <2>4, <2>5, <2>6 DEF WorkerStep
<1>2. ASSUME NEW w \in Workers, NEW i \in Ids, ReapBegin(w, i) \/ \E op \in Ops : Request(w, op, i)
      PROVE  mem' = mem /\ disk' = disk
  BY <1>2 DEF ReapBegin, Request, ServiceStep, storage
<1>3. ASSUME NEW found, NEW left, Restart(found, left),
             \/ found = disk \/ found = mem \/ \E w \in Workers : found \in Saving(w)
      PROVE  Goal
  <2>1. mem' = found /\ disk' = found
    BY <1>3, RestartStorage
  <2> QED
    BY <1>3, <2>1
<1> QED
  BY <1>1, <1>2, <1>3, BystandStep

(* The registries the next request may write stay the same, or fewer, unless   *)
(* the memory changes.                                                         *)
LEMMA ChangeStays ==
  ASSUME TypeInv, [Next]_vars, Numbered, mem' = mem, forgotten' = forgotten, NEW r, Change(r)
  PROVE  Change(r)'
<1>0. \A i \in Ids : ~Left(i) => ~Left(i)'
  BY LeftGone
<1>1. CASE r = mem
  BY <1>1 DEF Change
<1>2. ASSUME NEW i \in Ids, i \notin forgotten, Admitted(i), r = Remembered(i) PROVE Change(r)'
  BY <1>2 DEF Change, Remembered, Admitted, Pending
<1>3. ASSUME NEW i \in Ids, NEW b \in BOOLEAN, i \in mem.known, ~Pending(i), r = WithArchived(i, b)
      PROVE  Change(r)'
  BY <1>3 DEF Change, WithArchived, Pending
<1>4. ASSUME NEW i \in Ids, NEW p \in Fingerprints, MayBegin(i), p # NoPlan,
             \A k \in KindSet : p[k] <= writes[i], r = WithPlan(i, p)
      PROVE  Change(r)'
  <2>1. \A k \in KindSet : p[k] <= writes'[i]
    BY <1>4, FilesFollow, LifecycleConstants DEF Fingerprints
  <2>2. MayBegin(i)' /\ r = WithPlan(i, p)'
    BY <1>4 DEF MayBegin, Pending, WithPlan
  <2> QED
    BY <1>4, <2>1, <2>2 DEF Change
<1>5. ASSUME NEW i \in Ids, Pending(i), ~Left(i), r = Removed(i) PROVE Change(r)'
  <2>1. Pending(i)' /\ r = Removed(i)' /\ ~Left(i)'
    BY <1>0, <1>5 DEF Pending, Removed
  <2> QED
    BY <2>1 DEF Change
<1> QED
  BY <1>1, <1>2, <1>3, <1>4, <1>5 DEF Change

(* Only a successful removal adds to the deleted sessions. *)
LEMMA ForgottenMoves ==
  ASSUME TypeInv, [Next]_vars
  PROVE  \/ forgotten' = forgotten
         \/ \E w \in Workers : /\ Forget(w) /\ forgotten' = forgotten \cup {work[w].id}
                               /\ disk' = mem' /\ sessions' = sessions
                               /\ mem'.known = mem.known \ {work[w].id}
<1>1. ASSUME NEW w \in Workers, WorkerStep(w), ~Forget(w) PROVE forgotten' = forgotten
  <2>1. ASSUME \/ OpenBegin(w) \/ OpenExit(w) \/ CreateBegin(w) \/ ForkBegin(w)
               \/ \E h \in Hosts : Spawn(w, h)
               \/ SpawnFailed(w) \/ Attach(w) \/ StartFailed(w) \/ Publish(w) \/ PublishFailed(w)
               \/ MetadataBegin(w) \/ Close(w) \/ UpdatePreferences(w) \/ Configure(w)
               \/ ShutdownBegin(w) \/ ShutdownAll(w)
               \/ DeleteBegin(w) \/ Prepare(w) \/ BeginDeletion(w) \/ Relock(w)
               \/ Verify(w) \/ Unlink(w) \/ Unlinked(w) \/ ExecuteFails(w)
        PROVE  forgotten' = forgotten
    BY <2>1 DEF OpenBegin, OpenExit, CreateBegin, ForkBegin, Spawn, SpawnFailed, Attach, StartFailed,
                Publish, PublishFailed, MetadataBegin, Close, UpdatePreferences, Configure, ShutdownBegin,
                ShutdownAll, DeleteBegin, Prepare, BeginDeletion, Relock, Verify, Unlink, Unlinked,
                ExecuteFails, ServiceStep, Executing
  <2> QED
    BY <1>1, <2>1 DEF WorkerStep
<1>2. ASSUME NEW w \in Workers, NEW i \in Ids, ReapBegin(w, i) \/ \E op \in Ops : Request(w, op, i)
      PROVE  forgotten' = forgotten
  BY <1>2 DEF ReapBegin, Request, ServiceStep
<1>3. ASSUME NEW found, NEW left, Restart(found, left) PROVE forgotten' = forgotten
  BY <1>3, RestartStorage
<1>4. Bystanding => forgotten' = forgotten
  BY DEF Bystanding
<1>5. ASSUME NEW w \in Workers, Forget(w)
      PROVE  \/ forgotten' = forgotten
             \/ /\ Forget(w) /\ forgotten' = forgotten \cup {work[w].id}
                /\ disk' = mem' /\ sessions' = sessions
                /\ mem'.known = mem.known \ {work[w].id}
  BY <1>5, ForgetEffect
<1> QED
  BY <1>1, <1>2, <1>3, <1>4, <1>5, BystandStep

(* Memory stays sound and the disk stays one change of it. *)
LEMMA RegistryKept ==
  ASSUME TypeInv, SessionInv, [Next]_vars
  PROVE  Sound(mem)' /\ Change(disk)'
<1>0. Sound(mem) /\ mem \in Registry /\ Change(disk) /\ Numbered
  BY TypeFacts DEF SessionInv, StorageType
<1>1. \A w \in Workers : \A new \in Saving(w) : Change(new)
  BY SavingChanges DEF SessionInv
<1>2. CASE mem' = mem /\ (disk' = disk \/ disk' = mem \/ \E w \in Workers : disk' \in Saving(w))
  <2>1. Change(disk')
    BY <1>0, <1>1, <1>2 DEF Change
  <2>2. CASE forgotten' = forgotten
    <3>1. \A r : Change(r) => Change(r)'
      BY <1>0, <1>2, <2>2, ChangeStays
    <3>2. PICK d : d = disk'
      OBVIOUS
    <3>3. Change(d)'
      BY <2>1, <3>1, <3>2
    <3> QED
      BY <1>0, <1>2, <3>2, <3>3 DEF Change, Sound, PendingIn
  <2>3. CASE disk' = mem'
    BY <1>0, <1>2, <2>3 DEF Change, Sound, PendingIn
  <2> QED
    BY <2>2, <2>3, ForgottenMoves
<1>3. CASE mem' = disk' /\ (mem' = disk \/ mem' = mem \/ \E w \in Workers : mem' \in Saving(w))
  <2>1. Change(mem')
    BY <1>0, <1>1, <1>3 DEF Change
  <2>2. Sound(mem')
    BY <1>0, <2>1, ChangeSound
  <2> QED
    BY <1>3, <2>2 DEF Change, Sound, PendingIn
<1> QED
  BY <1>2, <1>3, RegistryStep

(* Fingerprints stay numbers of writes made. *)
LEMMA NumberedKept ==
  ASSUME TypeInv, SessionInv, [Next]_vars
  PROVE  Numbered'
<1>0. /\ Numbered /\ Change(disk) /\ mem \in Registry
      /\ \A w \in Workers : \A new \in Saving(w) : Change(new)
  BY TypeFacts, SavingChanges DEF SessionInv, StorageType
<1>1. ASSUME NEW r, Change(r), NEW i \in Ids, NEW k \in KindSet
      PROVE  r.deletions[i][k] <= writes[i]
  <2>1. mem.deletions[i][k] <= writes[i] /\ NoPlan[k] = 0 /\ writes[i] \in Nat
    BY <1>0, FilesFollow DEF Numbered, NoPlan
  <2>2. CASE r = mem
    BY <2>1, <2>2
  <2>3. ASSUME NEW j \in Ids, r = Remembered(j) PROVE r.deletions[i][k] <= writes[i]
    BY <1>0, <2>1, <2>3, RememberedFields
  <2>4. ASSUME NEW j \in Ids, NEW b \in BOOLEAN, r = WithArchived(j, b) PROVE r.deletions[i][k] <= writes[i]
    BY <1>0, <2>1, <2>4, WithArchivedFields
  <2>5. ASSUME NEW j \in Ids, NEW p \in Fingerprints, \A f \in KindSet : p[f] <= writes[j],
               r = WithPlan(j, p)
        PROVE  r.deletions[i][k] <= writes[i]
    BY <1>0, <2>1, <2>5, WithPlanFields
  <2>6. ASSUME NEW j \in Ids, r = Removed(j) PROVE r.deletions[i][k] <= writes[i]
    BY <1>0, <2>1, <2>6, RemovedFields
  <2> QED
    BY <1>1, <2>2, <2>3, <2>4, <2>5, <2>6 DEF Change
<1>2. Change(mem')
  BY <1>0, RegistryStep DEF Change
<1>3. ASSUME NEW i \in Ids, NEW k \in KindSet
      PROVE  files'[i][k] <= writes'[i] /\ mem'.deletions[i][k] <= writes'[i]
  <2>1. files[i][k] <= writes[i]
    BY <1>0 DEF Numbered
  <2>2. files'[i][k] <= writes'[i]
    BY <2>1, FilesFollow
  <2>3. mem'.deletions[i][k] <= writes[i] /\ mem'.deletions[i][k] \in Nat
    <3>1. mem' \in Registry
      BY StorageStep DEF StorageType
    <3>2. mem'.deletions[i][k] \in 0..MaxWrites
      BY <3>1 DEF Registry, Fingerprints
    <3> QED
      BY <1>1, <1>2, <3>2, LifecycleConstants
  <2> QED
    BY <2>2, <2>3, FilesFollow
<1> QED
  BY <1>3 DEF Numbered

(* The map of sessions: one request at a time adds or removes one. *)
LEMMA MapStep ==
  ASSUME TypeInv, [Next]_vars
  PROVE  \/ sessions' = sessions
         \/ \E w \in Workers : Publish(w)
         \/ \A i \in Ids : sessions'[i] \in {sessions[i], NoHost}
<1>0. SessionsType
  BY TypeFacts
<1>1. ASSUME NEW w \in Workers, OpenExit(w) PROVE \A i \in Ids : sessions'[i] \in {sessions[i], NoHost}
  BY <1>1, OpenExitEffect DEF Detached
<1>2. ASSUME NEW w \in Workers, Close(w) PROVE \A i \in Ids : sessions'[i] \in {sessions[i], NoHost}
  BY <1>2, CloseEffect DEF Detached
<1>3. ASSUME NEW w \in Workers, Attach(w) \/ StartFailed(w) \/ PublishFailed(w) \/ ShutdownAll(w)
      PROVE  sessions' = sessions
  BY <1>3 DEF Attach, StartFailed, PublishFailed, ShutdownAll
<1>4. ASSUME Crash \/ CrashSaving PROVE \A i \in Ids : sessions'[i] = NoHost
  BY <1>4, CrashIs, RestartTasks
<1> QED
  BY <1>1, <1>2, <1>3, <1>4, SessionsMoves

(* What is forgotten is neither remembered nor mapped again. *)
LEMMA FinalKept ==
  ASSUME TypeInv, SessionInv, [Next]_vars
  PROVE  Final'
<1>0. /\ Final /\ Change(disk) /\ mem \in Registry /\ forgotten \subseteq Ids
      /\ \A w \in Workers : Cand(w)
      /\ \A w \in Workers : \A new \in Saving(w) : Change(new)
  BY TypeFacts, SavingChanges DEF SessionInv, StorageType, TypeInv, Types
<1>1. ASSUME NEW r, Change(r), NEW i \in forgotten PROVE i \notin r.known
  <2>1. i \notin mem.known
    BY <1>0 DEF Final
  <2>2. CASE r = mem
    BY <2>1, <2>2
  <2>3. ASSUME NEW j \in Ids, j \notin forgotten, r = Remembered(j) PROVE i \notin r.known
    BY <1>0, <2>1, <2>3, RememberedFields
  <2>4. ASSUME NEW j \in Ids, NEW b \in BOOLEAN, r = WithArchived(j, b) PROVE i \notin r.known
    BY <1>0, <2>1, <2>4, WithArchivedFields
  <2>5. ASSUME NEW j \in Ids, NEW p \in Fingerprints, r = WithPlan(j, p) PROVE i \notin r.known
    BY <1>0, <2>1, <2>5, WithPlanFields
  <2>6. ASSUME NEW j \in Ids, r = Removed(j) PROVE i \notin r.known
    BY <1>0, <2>1, <2>6, RemovedFields
  <2> QED
    BY <1>1, <2>2, <2>3, <2>4, <2>5, <2>6 DEF Change
<1>2. Change(mem')
  BY <1>0, RegistryStep DEF Change
<1>3. ASSUME NEW i \in forgotten PROVE i \notin mem'.known /\ sessions'[i] = NoHost
  <2>1. i \notin mem'.known
    BY <1>1, <1>2
  <2>2. ASSUME NEW w \in Workers, Publish(w) PROVE sessions'[i] = NoHost
    <3>1. work[w].id # i /\ i \in Ids
      BY <1>0, <2>2, PublishEffect DEF Cand, At
    <3> QED
      BY <1>0, <2>2, <3>1, PublishEffect DEF Final
  <2> QED
    BY <1>0, <2>1, <2>2, MapStep DEF Final
<1>4. ASSUME NEW w \in Workers, Forget(w), sessions' = sessions, mem'.known = mem.known \ {work[w].id}
      PROVE  work[w].id \notin mem'.known /\ sessions'[work[w].id] = NoHost
  BY <1>0, <1>4, ForgetEffect DEF Cand, At
<1> QED
  BY <1>3, <1>4, ForgottenMoves DEF Final

-----------------------------------------------------------------------------
(* The tasks.                                                                *)

(* Only a spawn gives a host slot another session. *)
LEMMA HostIds ==
  ASSUME TypeInv, [Next]_vars
  PROVE  \/ \A h \in Hosts : host'[h].id = host[h].id
         \/ \E w \in Workers, h \in Hosts : Spawn(w, h)
<1>0. HostType /\ Serial
  BY TypeFacts
<1>1. ASSUME NEW w \in Workers, OpenExit(w) PROVE \A h \in Hosts : host'[h].id = host[h].id
  BY <1>0, <1>1, OpenExitEffect, StopEffect, UnconfirmedEffect DEF Turns
<1>2. ASSUME NEW w \in Workers, Close(w) PROVE \A h \in Hosts : host'[h].id = host[h].id
  BY <1>0, <1>2, CloseEffect, StopEffect, UnconfirmedEffect DEF Turns
<1>3. ASSUME NEW w \in Workers, StartFailed(w) \/ PublishFailed(w) PROVE \A h \in Hosts : host'[h].id = host[h].id
  <2>1. work[w].host \in Hosts /\ ShutDown(work[w].host)
    BY <1>0, <1>3 DEF StartFailed, PublishFailed, Serial, At
  <2> QED
    BY <1>0, <2>1, StopEffect, UnconfirmedEffect DEF Turns, ShutDown
<1>4. ASSUME NEW w \in Workers, ShutdownAll(w) PROVE \A h \in Hosts : host'[h].id = host[h].id
  BY <1>0, <1>4, ShutdownEffect
<1>5. ASSUME NEW h \in Hosts, NativeReady(h) \/ NativeExit(h) \/ HostClosed(h)
      PROVE  \A g \in Hosts : host'[g].id = host[g].id
  BY <1>0, <1>5, ReadyEffect, ExitEffect, ClosedEffect DEF Turns
<1>6. ASSUME Crash \/ CrashSaving PROVE \A h \in Hosts : host'[h].id = host[h].id
  BY <1>0, <1>6, CrashIs, RestartEffect
<1>7. ASSUME \/ \E w \in Workers : Prepare(w) \/ BeginDeletion(w) \/ Relock(w) \/ Unlinked(w) \/ ExecuteFails(w)
             \/ \E i \in Ids : OutsideOpen(i) \/ OutsideClose(i)
      PROVE  host' = host
  BY <1>7 DEF Prepare, BeginDeletion, Relock, Unlinked, ExecuteFails, OutsideOpen, OutsideClose, Executing
<1> QED
  BY <1>1, <1>2, <1>3, <1>4, <1>5, <1>6, <1>7, HostsMoves

(* A worker acts with the lock in its hands, or takes it: the others wait. *)
LEMMA Alone ==
  ASSUME TypeInv, NEW w \in Workers,
         WorkerStep(w) \/ \E i \in Ids : ReapBegin(w, i)
  PROVE  \A v \in Workers : v # w => ~InLock(v) /\ work'[v] = work[v]
<1>0. work \in [Workers -> Tasks] /\ Serial
  BY TypeFacts
<1>1. InLock(w) \/ lifecycle = Nobody
  BY DEF WorkerStep, OpenBegin, OpenExit, CreateBegin, ForkBegin, Spawn, SpawnFailed, Attach, StartFailed,
         Publish, PublishFailed, MetadataBegin, Close, UpdatePreferences, Configure, ShutdownBegin, ShutdownAll,
         DeleteBegin, Prepare, BeginDeletion, Relock, Verify, Unlink, Unlinked, ExecuteFails, Forget,
         ReapBegin, Waiting, LockFree, At, InLock
<1>2. \A v \in Workers : v # w => ~InLock(v)
  BY <1>0, <1>1, LifecycleConstants DEF Serial
<1>3. \A v \in Workers : v # w => work'[v] = work[v]
  <2>1. ASSUME OpenBegin(w) \/ CreateBegin(w) \/ ForkBegin(w) \/ MetadataBegin(w) \/ ShutdownBegin(w) \/ DeleteBegin(w)
        PROVE  \A v \in Workers : v # w => work'[v] = work[v]
    BY <1>0, <2>1 DEF OpenBegin, CreateBegin, ForkBegin, MetadataBegin, ShutdownBegin, DeleteBegin,
                      Refuse, Enter, New
  <2>2. ASSUME \/ OpenExit(w) \/ SpawnFailed(w) \/ Attach(w) \/ StartFailed(w)
               \/ Publish(w) \/ PublishFailed(w) \/ Close(w) \/ UpdatePreferences(w) \/ Configure(w)
               \/ ShutdownAll(w)
        PROVE  \A v \in Workers : v # w => work'[v] = work[v]
    BY <1>0, <2>2 DEF OpenExit, SpawnFailed, Attach, StartFailed, Publish, PublishFailed, Close,
                      AfterClose, UpdatePreferences, Configure, ShutdownAll, Goto, Finish
  <2>3. ASSUME \/ Prepare(w) \/ BeginDeletion(w) \/ Relock(w) \/ Verify(w) \/ Unlink(w) \/ Unlinked(w)
               \/ ExecuteFails(w) \/ Forget(w) \/ \E h \in Hosts : Spawn(w, h)
               \/ \E i \in Ids : ReapBegin(w, i)
        PROVE  \A v \in Workers : v # w => work'[v] = work[v]
    BY <1>0, <2>3 DEF Prepare, BeginDeletion, Relock, Verify, Unlink, Unlinked, ExecuteFails, Forget,
                      Spawn, ReapBegin, Goto, Finish
  <2> QED
    BY <2>1, <2>2, <2>3 DEF WorkerStep
<1> QED
  BY <1>2, <1>3

(* A mapped session stays remembered, admitted and that of its host. *)
LEMMA LiveKept ==
  ASSUME TypeInv, SessionInv, [Next]_vars
  PROVE  Live'
<1>0. Live /\ (\A w \in Workers : Cand(w)) /\ SessionsType /\ StorageType /\ SessionsType'
  BY TypeFacts, SessionsStep DEF SessionInv
<1>1. ASSUME NEW w \in Workers, Publish(w) PROVE Live'
  <2>1. /\ Admitted(work[w].id) /\ host[work[w].host].id = work[w].id
    BY <1>0, <1>1, PublishEffect DEF Cand, At
  <2> QED
    BY <1>0, <1>1, <2>1, PublishEffect DEF Live, Admitted, Pending
<1>2. ASSUME NEW w \in Workers, UpdatePreferences(w) PROVE Live'
  <2>1. work[w].op = "archive" => sessions[work[w].id] = NoHost
    BY <1>0, <1>2, PreferencesEffect DEF Cand, At
  <2> QED
    BY <1>0, <1>2, <2>1, PreferencesEffect DEF Live, Admitted, Pending
<1>2c. ASSUME NEW w \in Workers, Configure(w) PROVE Live'
  BY <1>0, <1>2c, ConfigureEffect DEF Live, Admitted, Pending
<1>3. ASSUME NEW w \in Workers, BeginDeletion(w) PROVE Live'
  <2>1. sessions[work[w].id] = NoHost
    BY <1>0, <1>3, BeginEffect DEF Cand, At
  <2> QED
    BY <1>0, <1>3, <2>1, BeginEffect DEF Live, Admitted, Pending
<1>4. ASSUME NEW w \in Workers, Forget(w) PROVE Live'
  <2>1. sessions[work[w].id] = NoHost
    BY <1>0, <1>4, ForgetEffect DEF Cand, At
  <2> QED
    BY <1>0, <1>4, <2>1, ForgetEffect DEF Live, Admitted, Pending
<1>5. ASSUME NEW w \in Workers, NEW h \in Hosts, Spawn(w, h) PROVE Live'
  <2>1. /\ \A g \in Hosts : g # h => host'[g] = host[g]
        /\ \A i \in Ids : sessions[i] # h
        /\ mem' = mem /\ sessions' = sessions
    BY <1>0, <1>5, SpawnTask, SpawnEffect, TypeFacts DEF Used, Turns
  <2> QED
    BY <1>0, <2>1 DEF Live, Admitted, Pending, SessionsType
<1>6. ASSUME mem' = mem, \A h \in Hosts : host'[h].id = host[h].id,
             \A i \in Ids : sessions'[i] \in {sessions[i], NoHost}
      PROVE  Live'
  BY <1>0, <1>6 DEF Live, Admitted, Pending, SessionsType
<1>7. ASSUME NEW w \in Workers, PublishFailed(w) PROVE mem' = mem
  BY <1>7, PublishFailedEffect
<1>8. ASSUME NEW w \in Workers,
             \/ OpenBegin(w) \/ OpenExit(w) \/ CreateBegin(w) \/ ForkBegin(w)
             \/ SpawnFailed(w) \/ Attach(w) \/ StartFailed(w) \/ MetadataBegin(w) \/ Close(w)
             \/ ShutdownBegin(w) \/ ShutdownAll(w)
             \/ DeleteBegin(w) \/ Prepare(w) \/ Relock(w)
             \/ Verify(w) \/ Unlink(w) \/ Unlinked(w) \/ ExecuteFails(w)
      PROVE  mem' = mem
  BY <1>8 DEF OpenBegin, OpenExit, CreateBegin, ForkBegin, SpawnFailed, Attach, StartFailed,
              MetadataBegin, Close, ShutdownBegin, ShutdownAll, DeleteBegin, Prepare, Relock,
              Verify, Unlink, Unlinked, ExecuteFails, ServiceStep, Executing, storage
<1>9. ASSUME NEW w \in Workers, NEW i \in Ids, ReapBegin(w, i) \/ \E op \in Ops : Request(w, op, i)
      PROVE  mem' = mem
  BY <1>9 DEF ReapBegin, Request, ServiceStep, storage
<1>10. ASSUME NEW found, NEW left, Restart(found, left) PROVE Live'
  BY <1>10, RestartTasks DEF Live
<1>11. \/ Live'
       \/ mem' = mem
  BY <1>1, <1>2, <1>2c, <1>3, <1>4, <1>5, <1>7, <1>8, <1>9, <1>10, BystandStep DEF WorkerStep
<1>12. \/ Live'
       \/ \A h \in Hosts : host'[h].id = host[h].id
  BY <1>5, HostIds
<1>13. \/ Live'
       \/ \A i \in Ids : sessions'[i] \in {sessions[i], NoHost}
  BY <1>0, <1>1, MapStep DEF SessionsType
<1> QED
  BY <1>6, <1>11, <1>12, <1>13

(* attach_durable points the projection at the host being started. *)
LEMMA AttachEffect ==
  ASSUME TypeInv, NEW w \in Workers, Attach(w)
  PROVE  /\ At(w, "start") /\ work[w].id \in Ids /\ work[w].host \in Hosts
         /\ host[work[w].host].child = "up"
         /\ Stays(w, "publish") /\ lifecycle' = lifecycle
         /\ durable'[work[w].id] \in {work[w].host, NoHost}
         /\ \A i \in Ids : i # work[w].id => durable'[i] = durable[i]
         /\ UNCHANGED <<sessions, mem, disk, host, lock, files, writes, forgotten, closing>>
<1>0. work \in [Workers -> Tasks] /\ Serial /\ SessionsType
  BY TypeFacts
<1>1. At(w, "start") /\ work[w].id \in Ids /\ work[w].host \in Hosts
  BY <1>0 DEF Attach, Serial, InLock, At
<1>2. Stays(w, "publish") /\ lifecycle' = lifecycle
  BY <1>0, Control DEF Attach, Pcs
<1>3. \E x \in {work[w].host, NoHost} : durable' = [durable EXCEPT ![work[w].id] = x]
  BY DEF Attach
<1>4. /\ durable'[work[w].id] \in {work[w].host, NoHost}
      /\ \A i \in Ids : i # work[w].id => durable'[i] = durable[i]
  BY <1>0, <1>1, <1>3 DEF SessionsType
<1> QED
  BY <1>1, <1>2, <1>4 DEF Attach, storage, native

(* A start that fails leaves no projection attached to its host. *)
LEMMA StartFailedEffect ==
  ASSUME TypeInv, NEW w \in Workers, StartFailed(w)
  PROVE  /\ At(w, "start") /\ work[w].id \in Ids /\ work[w].host \in Hosts
         /\ Leaves(w) /\ lifecycle' = Nobody /\ ShutDown(work[w].host)
         /\ durable'[work[w].id] = NoHost
         /\ \A i \in Ids : i # work[w].id => durable'[i] = durable[i]
         /\ UNCHANGED <<sessions, mem, disk, files, writes, forgotten, closing>>
<1>0. work \in [Workers -> Tasks] /\ Serial /\ SessionsType
  BY TypeFacts
<1>1. At(w, "start") /\ work[w].id \in Ids /\ work[w].host \in Hosts
  BY <1>0 DEF StartFailed, Serial, InLock, At
<1>2. Leaves(w) /\ lifecycle' = Nobody
  BY <1>0, Control DEF StartFailed
<1>3. durable' = [durable EXCEPT ![work[w].id] = NoHost]
  BY DEF StartFailed
<1>4. durable'[work[w].id] = NoHost /\ \A i \in Ids : i # work[w].id => durable'[i] = durable[i]
  BY <1>0, <1>1, <1>3 DEF SessionsType
<1> QED
  BY <1>1, <1>2, <1>4 DEF StartFailed, storage

(* A projection stays that of the mapped host, or of the one about to be. *)
LEMMA ProjectedKept ==
  ASSUME TypeInv, SessionInv, [Next]_vars
  PROVE  Projected'
<1>0. /\ Projected /\ (\A w \in Workers : Cand(w)) /\ SessionsType /\ StorageType /\ SessionsType'
      /\ work \in [Workers -> Tasks]
  BY TypeFacts, SessionsStep DEF SessionInv
<1>1. ASSUME NEW w \in Workers, WorkerStep(w) \/ \E i \in Ids : ReapBegin(w, i),
             NEW i \in Ids, durable[i] # NoHost, sessions[i] # durable[i]
      PROVE  At(w, "publish") /\ work[w].id = i /\ work[w].host = durable[i]
  <2>1. PICK v \in Workers : At(v, "publish") /\ work[v].id = i /\ work[v].host = durable[i]
    BY <1>0, <1>1 DEF Projected
  <2>2. v = w
    BY <1>1, <2>1, Alone DEF InLock, At
  <2> QED
    BY <2>1, <2>2
<1>2. ASSUME NEW w \in Workers, WorkerStep(w), OpenExit(w) \/ Close(w) PROVE Projected'
  <2>1. \/ Detached(w)
        \/ UNCHANGED <<sessions, durable>>
    BY <1>2, OpenExitEffect, CloseEffect
  <2>2. ~At(w, "publish")
    BY <1>2, OpenExitEffect, CloseEffect DEF At
  <2> QED
    BY <1>1, <1>2, <2>1, <2>2 DEF Projected, Detached
<1>3. ASSUME NEW w \in Workers, WorkerStep(w), Attach(w) PROVE Projected'
  <2>1. ~At(w, "publish")
    BY <1>3, AttachEffect DEF At
  <2>2. At(w, "publish")' /\ work'[w].id = work[w].id /\ work'[w].host = work[w].host
    BY <1>3, AttachEffect DEF At, Stays, Becomes
  <2> QED
    BY <1>1, <1>3, <2>1, <2>2, AttachEffect DEF Projected
<1>4. ASSUME NEW w \in Workers, WorkerStep(w), StartFailed(w) PROVE Projected'
  <2>1. ~At(w, "publish")
    BY <1>4, StartFailedEffect DEF At
  <2> QED
    BY <1>1, <1>4, <2>1, StartFailedEffect DEF Projected
<1>5. ASSUME NEW w \in Workers, WorkerStep(w), Publish(w) PROVE Projected'
  BY <1>0, <1>1, <1>5, PublishEffect DEF Projected, Cand, At
<1>6. ASSUME NEW w \in Workers, WorkerStep(w), PublishFailed(w) PROVE Projected'
  BY <1>1, <1>6, PublishFailedEffect DEF Projected
<1>7. ASSUME NEW w \in Workers, ShutdownAll(w) PROVE Projected'
  BY <1>7, ShutdownTask DEF Projected
<1>8. ASSUME NEW found, NEW left, Restart(found, left) PROVE Projected'
  BY <1>8, RestartTasks DEF Projected
<1>9. ASSUME Bystanding PROVE Projected'
  BY <1>0, <1>9 DEF Projected, Bystanding, At
<1>10. ASSUME NEW w \in Workers, NEW i \in Ids, ReapBegin(w, i) PROVE Projected'
  <2>1. ~At(w, "publish") /\ sessions' = sessions /\ durable' = durable
    BY <1>10, ReapEffect DEF At, ServiceStep
  <2> QED
    BY <1>1, <1>10, <2>1 DEF Projected
<1>11. ASSUME NEW w \in Workers, NEW i \in Ids, NEW op \in Ops, Request(w, op, i) PROVE Projected'
  <2>1. /\ ~At(w, "publish") /\ sessions' = sessions /\ durable' = durable
        /\ \A v \in Workers : v # w => work'[v] = work[v]
    BY <1>11, RequestEffect DEF At, Becomes
  <2> QED
    BY <1>0, <2>1 DEF Projected, At
<1>12. ASSUME NEW w \in Workers, WorkerStep(w),
              \/ OpenBegin(w) \/ CreateBegin(w) \/ ForkBegin(w) \/ MetadataBegin(w) \/ ShutdownBegin(w)
              \/ DeleteBegin(w) \/ SpawnFailed(w) \/ UpdatePreferences(w) \/ Configure(w)
              \/ \E h \in Hosts : Spawn(w, h)
              \/ Prepare(w) \/ BeginDeletion(w) \/ Relock(w) \/ Verify(w) \/ Unlink(w) \/ Unlinked(w)
              \/ ExecuteFails(w) \/ Forget(w)
      PROVE  Projected'
  <2>1. ~At(w, "publish") /\ sessions' = sessions /\ durable' = durable
    BY <1>12 DEF OpenBegin, CreateBegin, ForkBegin, MetadataBegin, ShutdownBegin, DeleteBegin, SpawnFailed,
                 UpdatePreferences, Configure, Spawn, Prepare, BeginDeletion, Relock, Verify, Unlink, Unlinked,
                 ExecuteFails, Forget, ServiceStep, Executing, Waiting, At
  <2> QED
    BY <1>1, <1>12, <2>1 DEF Projected
<1>13. ASSUME NEW w \in Workers, WorkerStep(w) PROVE Projected'
  BY <1>2, <1>3, <1>4, <1>5, <1>6, <1>7, <1>12, <1>13 DEF WorkerStep
<1> QED
  BY <1>8, <1>9, <1>10, <1>11, <1>13, BystandStep

(* What a worker knows of its session is true at its next step, too. *)
LEMMA CandStep ==
  ASSUME TypeInv, SessionInv, [Next]_vars, NEW w \in Workers,
         WorkerStep(w) \/ \E i \in Ids : ReapBegin(w, i)
  PROVE  Cand(w)'
<1>0. /\ work \in [Workers -> Tasks] /\ Serial /\ SessionsType /\ StorageType /\ HostType
      /\ Sound(mem) /\ Live /\ Final /\ Cand(w) /\ Numbered
  BY TypeFacts DEF SessionInv
<1>i. Idle.pc = "idle"
  BY DEF Idle
<1>1. ASSUME ~InLock(w)' PROVE Cand(w)'
  BY <1>1 DEF InLock, Cand
<1>2. ASSUME Leaves(w) PROVE Cand(w)'
  BY <1>2, <1>1 DEF Leaves, Becomes, InLock
<1>3. CASE OpenBegin(w)
  <2> DEFINE id == work[w].id
  <2>1. id \in Ids /\ UNCHANGED <<mem, sessions, forgotten>>
    BY <1>0, <1>3 DEF OpenBegin, Waiting, Serial, At, ServiceStep, storage
  <2>2. \/ Refuse(w)
        \/ ~OpenRefused(id) /\ sessions[id] # NoHost /\ Enter(w, "exit")
        \/ ~OpenRefused(id) /\ sessions[id] = NoHost /\ Enter(w, "spawn")
    BY <1>3 DEF OpenBegin
  <2>3. ~OpenRefused(id) => Admitted(id) /\ id \notin forgotten
    BY <1>0, <2>1 DEF OpenRefused, Final
  <2>4. ASSUME ~OpenRefused(id), sessions[id] # NoHost, Enter(w, "exit") PROVE Cand(w)'
    <3>1. Stays(w, "exit")
      BY <1>0, <2>4, Control DEF Pcs
    <3> QED
      BY <2>1, <2>3, <2>4, <3>1 DEF Stays, Becomes, Cand, Admitted, Pending
  <2>5. ASSUME ~OpenRefused(id), sessions[id] = NoHost, Enter(w, "spawn") PROVE Cand(w)'
    <3>1. Stays(w, "spawn")
      BY <1>0, <2>5, Control DEF Pcs
    <3> QED
      BY <2>1, <2>3, <2>5, <3>1 DEF Stays, Becomes, Cand, Admitted, Pending
  <2> QED
    BY <1>0, <1>2, <2>2, <2>4, <2>5, Control
<1>4. CASE OpenExit(w)
  <2>1. CASE Goto(w, "spawn") /\ Detached(w)
    <3>1. Stays(w, "spawn")
      BY <1>0, <2>1, Control DEF Pcs
    <3> QED
      BY <1>0, <1>4, <2>1, <3>1, OpenExitEffect DEF Stays, Becomes, Detached, Cand, Admitted, Pending, At
  <2>2. CASE Finish(w)
    BY <1>0, <1>2, <2>2, Control
  <2> QED
    BY <1>4, <2>1, <2>2, OpenExitEffect
<1>5. CASE CreateBegin(w) \/ ForkBegin(w)
  <2>1. UNCHANGED <<mem, sessions, forgotten>>
    BY <1>5 DEF CreateBegin, ForkBegin, ServiceStep, storage
  <2>2. Refuse(w) \/ \E i \in Ids : New(w, i)
    BY <1>5 DEF CreateBegin, ForkBegin
  <2>3. ASSUME NEW i \in Ids, New(w, i) PROVE Cand(w)'
    <3>1. work'[w].pc \in {"configure", "spawn"} /\ work'[w].id = i /\ Fresh(i)
      BY <1>0, <2>3, Control DEF Becomes
    <3>2. i \notin mem.known /\ i \notin forgotten /\ sessions[i] = NoHost
      BY <3>1 DEF Fresh
    <3>3. Admitted(i)
      BY <1>0, <3>2 DEF Sound, PendingIn, Admitted, Pending
    <3> QED
      BY <2>1, <3>1, <3>2, <3>3 DEF Cand, Admitted, Pending
  <2> QED
    BY <1>0, <1>2, <2>2, <2>3, Control
<1>5c. CASE Configure(w)
  <2>1. CASE Leaves(w)
    BY <1>2, <2>1
  <2>2. ASSUME Stays(w, "spawn"), mem'.archived = mem.archived, mem'.deletions = mem.deletions
        PROVE  Cand(w)'
    BY <1>0, <1>5c, <2>2, ConfigureEffect DEF Stays, Becomes, Cand, Admitted, Pending, At
  <2> QED
    BY <1>5c, <2>1, <2>2, ConfigureEffect
<1>6. ASSUME NEW h \in Hosts, Spawn(w, h) PROVE Cand(w)'
  <2>1. /\ host'[h].id = work[w].id /\ \A i \in Ids : sessions[i] # h
        /\ At(w, "spawn") /\ UNCHANGED <<mem, sessions, forgotten>>
        /\ work'[w].pc = "start" /\ work'[w].id = work[w].id /\ work'[w].host = h
    BY <1>0, <1>6, SpawnTask, SpawnEffect DEF Turns, Used, Becomes
  <2> QED
    BY <1>0, <2>1 DEF Cand, Admitted, Pending, At
<1>7. CASE Attach(w)
  <2>1. /\ At(w, "start") /\ UNCHANGED <<mem, sessions, forgotten, host>>
        /\ work'[w].pc = "publish" /\ work'[w].id = work[w].id /\ work'[w].host = work[w].host
    BY <1>7, AttachEffect DEF Stays, Becomes
  <2> QED
    BY <1>0, <2>1 DEF Cand, Admitted, Pending, At
<1>8. CASE SpawnFailed(w) \/ StartFailed(w) \/ Publish(w) \/ PublishFailed(w) \/ UpdatePreferences(w)
           \/ ExecuteFails(w) \/ Forget(w)
  <2>1. Finish(w)
    BY <1>8 DEF SpawnFailed, StartFailed, Publish, PublishFailed, UpdatePreferences, ExecuteFails, Forget
  <2> QED
    BY <1>0, <1>2, <2>1, Control
<1>9. CASE ShutdownAll(w)
  BY <1>1, <1>9, ShutdownTask DEF Becomes, InLock
<1>10. CASE MetadataBegin(w)
  <2> DEFINE id == work[w].id
  <2>1. id \in Ids /\ UNCHANGED <<mem, sessions, forgotten>>
    BY <1>0, <1>10 DEF MetadataBegin, Waiting, Serial, At, ServiceStep, storage
  <2>2. \/ Refuse(w)
        \/ Enter(w, "close")
        \/ /\ id \in mem.known /\ ~Pending(id) /\ (work[w].op = "archive" => sessions[id] = NoHost)
           /\ Enter(w, "prefs")
    BY <1>10 DEF MetadataBegin
  <2>3. ASSUME Enter(w, "close") PROVE Cand(w)'
    <3>1. Stays(w, "close")
      BY <1>0, <2>3, Control DEF Pcs
    <3> QED
      BY <3>1 DEF Stays, Becomes, Cand
  <2>4. ASSUME id \in mem.known, ~Pending(id), work[w].op = "archive" => sessions[id] = NoHost, Enter(w, "prefs")
        PROVE  Cand(w)'
    <3>1. Stays(w, "prefs")
      BY <1>0, <2>4, Control DEF Pcs
    <3> QED
      BY <2>1, <2>4, <3>1 DEF Stays, Becomes, Cand, Pending
  <2> QED
    BY <1>0, <1>2, <2>2, <2>3, <2>4, Control
<1>11. CASE Close(w)
  <2>1. Live /\ work[w].id \in Ids /\ sessions[work[w].id] # NoHost /\ UNCHANGED mem
    BY <1>0, <1>11, CloseEffect, LifecycleConstants
  <2>2. work[w].id \in mem.known /\ ~Pending(work[w].id)
    BY <2>1 DEF Live, Admitted
  <2>3. CASE Detached(w) /\ work[w].op = "delete" /\ Goto(w, "prepare")
    <3>1. Stays(w, "prepare")
      BY <1>0, <2>3, Control DEF Pcs
    <3> QED
      BY <2>3, <3>1 DEF Stays, Becomes, Detached, Cand
  <2>4. CASE Detached(w) /\ work[w].op = "archive" /\ Goto(w, "prefs")
    <3>1. Stays(w, "prefs")
      BY <1>0, <2>4, Control DEF Pcs
    <3> QED
      BY <2>1, <2>2, <2>4, <3>1 DEF Stays, Becomes, Detached, Cand, Pending
  <2>5. CASE Finish(w)
    BY <1>0, <1>2, <2>5, Control
  <2> QED
    BY <1>11, <2>3, <2>4, <2>5, CloseEffect
<1>12. CASE ShutdownBegin(w)
  <2>1. Stays(w, "stopall")
    BY <1>0, <1>12, Control DEF ShutdownBegin, Pcs
  <2> QED
    BY <2>1 DEF Stays, Becomes, Cand
<1>13. CASE DeleteBegin(w)
  <2> DEFINE id == work[w].id
  <2>1. id \in Ids /\ UNCHANGED <<mem, sessions, forgotten>>
    BY <1>0, <1>13 DEF DeleteBegin, Waiting, Serial, At, ServiceStep, storage
  <2>2. \/ Refuse(w)
        \/ Pending(id) /\ Enter(w, "relock")
        \/ Enter(w, "close")
        \/ sessions[id] = NoHost /\ Enter(w, "prepare")
    BY <1>13 DEF DeleteBegin
  <2>3. ASSUME Enter(w, "close") PROVE Cand(w)'
    <3>1. Stays(w, "close")
      BY <1>0, <2>3, Control DEF Pcs
    <3> QED
      BY <3>1 DEF Stays, Becomes, Cand
  <2>4. ASSUME Pending(id), Enter(w, "relock") PROVE Cand(w)'
    <3>1. Stays(w, "relock")
      BY <1>0, <2>4, Control DEF Pcs
    <3>2. sessions[id] = NoHost
      BY <1>0, <2>1, <2>4 DEF Live, Admitted
    <3> QED
      BY <2>1, <2>4, <3>1, <3>2 DEF Stays, Becomes, Cand, Pending
  <2>5. ASSUME sessions[id] = NoHost, Enter(w, "prepare") PROVE Cand(w)'
    <3>1. Stays(w, "prepare")
      BY <1>0, <2>5, Control DEF Pcs
    <3> QED
      BY <2>1, <2>5, <3>1 DEF Stays, Becomes, Cand
  <2> QED
    BY <1>0, <1>2, <2>2, <2>3, <2>4, <2>5, Control
<1>14. CASE Prepare(w)
  <2>1. ASSUME Discovered(work[w].id),
               Becomes(w, "begin", work[w].op, work[w].id, work[w].host, files[work[w].id], work[w].at)
        PROVE  Cand(w)'
    <3>1. At(w, "prepare") /\ work[w].id \in Ids /\ UNCHANGED <<sessions, writes>>
      BY <1>14, PrepareEffect
    <3>2. files[work[w].id] # NoPlan
      BY <2>1, KindFacts DEF Discovered, NoPlan
    <3>3. \A k \in KindSet : files[work[w].id][k] <= writes[work[w].id]
      BY <1>0, <3>1 DEF Numbered
    <3> QED
      BY <1>0, <2>1, <3>1, <3>2, <3>3 DEF Becomes, Cand, At
  <2> QED
    BY <1>2, <1>14, <2>1, PrepareEffect
<1>15. CASE BeginDeletion(w)
  <2>1. ASSUME Stays(w, "verify"), mem'.deletions[work[w].id] = work[w].plan PROVE Cand(w)'
    BY <1>0, <1>15, <2>1, BeginEffect DEF Stays, Becomes, Cand, At
  <2> QED
    BY <1>2, <1>15, <2>1, BeginEffect
<1>16. CASE Relock(w)
  <2>1. UNCHANGED <<mem, sessions>>
    BY <1>16 DEF Relock, Executing, storage
  <2> QED
    BY <1>0, <1>16, <2>1, RelockEffect DEF Becomes, Cand, At, Pending
<1>17. CASE Verify(w)
  <2>1. UNCHANGED <<mem, sessions>>
    BY <1>17 DEF Verify, Executing, storage
  <2> QED
    BY <1>0, <1>17, <2>1, VerifyEffect DEF Becomes, Cand, At
<1>18. CASE Unlink(w)
  <2>1. UNCHANGED <<mem, sessions>>
    BY <1>18 DEF Unlink, Executing, storage
  <2> QED
    BY <1>0, <1>18, <2>1, UnlinkEffect DEF Becomes, Cand, At
<1>19. CASE Unlinked(w)
  <2>1. /\ UNCHANGED <<mem, sessions, files>> /\ At(w, "unlink") /\ files[work[w].id] = NoPlan
        /\ Goto(w, "forget")
    BY <1>19 DEF Unlinked, Executing, storage
  <2>2. Stays(w, "forget")
    BY <1>0, <2>1, Control DEF Pcs
  <2>3. ~Left(work[w].id)'
    BY <2>1, <2>2 DEF Left, NoPlan, Stays, Becomes
  <2> QED
    BY <1>0, <2>1, <2>2, <2>3 DEF Stays, Becomes, Cand, At, Left
<1>20. ASSUME NEW i \in Ids, ReapBegin(w, i) PROVE Cand(w)'
  BY <1>20, ReapEffect DEF Becomes, Cand
<1> QED
  BY <1>3, <1>4, <1>5, <1>5c, <1>6, <1>7, <1>8, <1>9, <1>10, <1>11, <1>12, <1>13, <1>14, <1>15, <1>16, <1>17,
     <1>18, <1>19, <1>20 DEF WorkerStep

(* A worker's knowledge survives every step, its own or another's. *)
LEMMA CandKept ==
  ASSUME TypeInv, SessionInv, [Next]_vars, NEW w \in Workers
  PROVE  Cand(w)'
<1>0. /\ work \in [Workers -> Tasks] /\ Serial /\ Numbered /\ Cand(w) /\ HostType
  BY TypeFacts DEF SessionInv
<1>1. ASSUME NEW v \in Workers, v # w, WorkerStep(v) \/ \E i \in Ids : ReapBegin(v, i) PROVE Cand(w)'
  <2>1. ~InLock(w) /\ work'[w] = work[w]
    BY <1>1, Alone
  <2> QED
    BY <2>1 DEF InLock, Cand
<1>2. ASSUME NEW found, NEW left, Restart(found, left) PROVE Cand(w)'
  BY <1>2, RestartTasks DEF Cand
<1>3. ASSUME work'[w] = work[w], UNCHANGED <<mem, sessions, forgotten>>,
             \A h \in Hosts : host'[h].id = host[h].id
      PROVE  Cand(w)'
  <2>1. InLock(w) => work[w].id \in Ids
    BY <1>0 DEF Serial
  <2>2. work[w].pc \in {"start", "publish"} => work[w].host \in Hosts
    BY <1>0 DEF Serial, At
  <2>3. work[w].pc = "forget" => ~Left(work[w].id)'
    BY <1>0, <1>3, <2>1, LeftGone DEF Cand, InLock
  <2>4. work[w].pc = "begin" => \A k \in KindSet : work[w].plan[k] <= writes'[work[w].id]
    <3>1. work[w].pc = "begin" =>
            \A k \in KindSet : work[w].plan[k] \in 0..MaxWrites /\ work[w].plan[k] <= writes[work[w].id]
      BY <1>0, TaskFields DEF Cand, Fingerprints
    <3> QED
      BY <2>1, <3>1, FilesFollow, LifecycleConstants DEF InLock
  <2> QED
    BY <1>0, <1>3, <2>1, <2>2, <2>3, <2>4 DEF Cand, InLock, Admitted, Pending, Left
<1>4. CASE Bystanding /\ mem' = mem /\ HostsFollow
  BY <1>3, <1>4 DEF Bystanding, HostsFollow
<1>5. ASSUME NEW v \in Workers, NEW i \in Ids, NEW op \in Ops, Request(v, op, i) PROVE Cand(w)'
  <2>1. CASE v = w
    BY <1>5, <2>1, RequestEffect DEF Becomes, Cand
  <2>2. CASE v # w
    BY <1>3, <1>5, <2>2, RequestEffect DEF Becomes
  <2> QED
    BY <2>1, <2>2
<1> QED
  BY <1>1, <1>2, <1>4, <1>5, CandStep, BystandStep

(* The parts of the invariant are kept together. *)
LEMMA SessionStep ==
  ASSUME TypeInv, SessionInv, [Next]_vars
  PROVE  SessionInv'
<1>1. Sound(mem)' /\ Change(disk)' /\ Numbered' /\ Live' /\ Final' /\ Projected'
  BY RegistryKept, NumberedKept, LiveKept, FinalKept, ProjectedKept
<1>2. \A w \in Workers : Cand(w)'
  BY CandKept
<1> QED
  BY <1>1, <1>2 DEF SessionInv

(* The invariant holds in every reachable state. *)
LEMMA SessionInvariant == Spec => [](TypeInv /\ SessionInv)
<1>1. TypeInv /\ SessionInv /\ [Next]_vars => (TypeInv /\ SessionInv)'
  BY TypeStep, SessionStep
<1> QED
  BY <1>1, TypeInit, SessionInit, PTL DEF Spec

-----------------------------------------------------------------------------
(* What follows.                                                             *)

(* What the disk holds is no less than what the service remembers, but for    *)
(* the session whose removal is being saved, and admits no deleted one.       *)
LEMMA DiskFacts ==
  ASSUME TypeInv, SessionInv
  PROVE  /\ Sound(disk)
         /\ \A i \in forgotten : i \notin disk.known
         /\ \A i \in mem.known : ~Pending(i) => i \in disk.known
         /\ \A i \in Ids, k \in KindSet :
              files[i][k] # 0 /\ files[i][k] = mem.deletions[i][k] => disk.deletions[i] = mem.deletions[i]
         /\ \A i \in Ids : Pending(i) /\ disk.deletions[i] = NoPlan => ~Left(i)
<1>0. Sound(mem) /\ Change(disk) /\ Final /\ mem \in Registry /\ mem.known \subseteq Ids
  BY TypeFacts, RegistryFields DEF SessionInv, StorageType
<1>1. Sound(disk)
  BY <1>0, ChangeSound
<1> DEFINE Goal ==
      /\ \A i \in forgotten : i \notin disk.known
      /\ \A i \in mem.known : ~Pending(i) => i \in disk.known
      /\ \A i \in Ids, k \in KindSet :
           files[i][k] # 0 /\ files[i][k] = mem.deletions[i][k] => disk.deletions[i] = mem.deletions[i]
      /\ \A i \in Ids : Pending(i) /\ disk.deletions[i] = NoPlan => ~Left(i)
<1>2. CASE disk = mem
  BY <1>0, <1>2 DEF Final, Pending
<1>3. ASSUME NEW j \in Ids, j \notin forgotten, disk = Remembered(j) PROVE Goal
  BY <1>0, <1>3, RememberedFields DEF Final, Pending
<1>4. ASSUME NEW j \in Ids, NEW b \in BOOLEAN, disk = WithArchived(j, b) PROVE Goal
  BY <1>0, <1>4, WithArchivedFields DEF Final, Pending
<1>5. ASSUME NEW j \in Ids, NEW p \in Fingerprints, MayBegin(j), p # NoPlan, disk = WithPlan(j, p) PROVE Goal
  <2>1. /\ disk.known = mem.known /\ disk.deletions[j] = p
        /\ \A i \in Ids : i # j => disk.deletions[i] = mem.deletions[i]
    BY <1>0, <1>5, WithPlanFields
  <2>2. \A k \in KindSet : mem.deletions[j][k] = 0
    BY <1>5 DEF MayBegin, Pending, NoPlan
  <2> QED
    BY <1>0, <1>5, <2>1, <2>2 DEF Final, Pending
<1>6. ASSUME NEW j \in Ids, Pending(j), ~Left(j), disk = Removed(j) PROVE Goal
  <2>1. /\ disk.known = mem.known \ {j}
        /\ \A i \in Ids : i # j => disk.deletions[i] = mem.deletions[i]
    BY <1>0, <1>6, RemovedFields
  <2> QED
    BY <1>0, <1>6, <2>1 DEF Final, Pending, Left
<1>7. Goal
  BY <1>0, <1>2, <1>3, <1>4, <1>5, <1>6 DEF Change
<1> QED
  BY <1>1, <1>7

(* A session whose DELETE answered success is never remembered again: not by *)
(* a command that was under way, not by a restart.                           *)
THEOREM DeletedForGood == Spec => []DeletionFinal
<1>1. TypeInv /\ SessionInv => DeletionFinal
  BY DiskFacts DEF SessionInv, Final, DeletionFinal
<1> QED
  BY <1>1, SessionInvariant, PTL

(* A session clients can reach survives a crash: it is on disk.               *)
THEOREM ReachableRemembered == Spec => []LiveRemembered
<1>1. TypeInv /\ SessionInv => LiveRemembered
  BY DiskFacts DEF SessionInv, Live, Admitted, LiveRemembered
<1> QED
  BY <1>1, SessionInvariant, PTL

(* No failure path leaves the projection of a host nobody reaches attached.   *)
THEOREM ProjectionFollows == Spec => []DurableFollows
<1>1. TypeInv /\ SessionInv => DurableFollows
  <2> SUFFICES ASSUME TypeInv, SessionInv, lifecycle = Nobody, NEW i \in Ids, durable[i] # NoHost
               PROVE  sessions[i] = durable[i]
    BY DEF DurableFollows
  <2>1. \A w \in Workers : ~At(w, "publish")
    BY TypeFacts, LifecycleConstants DEF Serial, InLock, At
  <2> QED
    BY <2>1 DEF SessionInv, Projected
<1> QED
  BY <1>1, SessionInvariant, PTL

(* Registry::load accepts whatever the service may leave on disk.             *)
THEOREM RestartLoads == Spec => []LoadAccepts
<1>1. TypeInv /\ SessionInv => LoadAccepts
  BY DiskFacts DEF Sound, PendingIn, LoadAccepts
<1> QED
  BY <1>1, SessionInvariant, PTL

(* Every unlink finds its intent on disk, whatever was being saved meanwhile. *)
THEOREM IntentBeforeUnlink == Spec => IntentFirst
<1> DEFINE Unlinking == \A id \in Ids, k \in KindSet :
      files[id][k] # 0 /\ files'[id][k] = 0 => disk.deletions[id][k] = files[id][k]
<1>1. ASSUME TypeInv, SessionInv, [Next]_vars PROVE Unlinking
  <2> SUFFICES ASSUME NEW id \in Ids, NEW k \in KindSet, files[id][k] # 0, files'[id][k] = 0
               PROVE  disk.deletions[id][k] = files[id][k]
    OBVIOUS
  <2>1. PICK w \in Workers : Unlink(w)
    <3>1. ASSUME files' = files PROVE FALSE
      BY <3>1
    <3>2. ASSUME NEW i \in Ids, NEW f \in KindSet, Written(i, f) PROVE FALSE
      BY <1>1, <3>2, TypeFacts, WrittenEffect, FilesFollow DEF FilesType
    <3>3. ASSUME NEW h \in Hosts, NEW f \in KindSet, NativeWrite(h, f) PROVE FALSE
      <4>1. host[h].id \in Ids \cup {NoId} /\ Written(host[h].id, f)
        BY <1>1, <3>3, TypeFacts DEF NativeWrite, HostType, Slots
      <4>2. host[h].id = NoId => files' = files
        BY <1>1, <4>1, TypeFacts, LifecycleConstants DEF Written, FilesType
      <4> QED
        BY <3>1, <3>2, <4>1, <4>2
    <3> QED
      BY <1>1, <3>1, <3>2, <3>3, FilesMoves DEF OutsideWrite
  <2>2. /\ At(w, "unlink") /\ work[w].id = id /\ files[id][k] = work[w].plan[k]
    BY <1>1, <2>1, UnlinkEffect
  <2>3. mem.deletions[id] = work[w].plan
    BY <1>1, <2>2 DEF SessionInv, Cand, At
  <2> QED
    BY <1>1, <2>2, <2>3, DiskFacts
<1>2. TypeInv /\ SessionInv /\ [Next]_vars => [Unlinking]_vars
  BY <1>1
<1> QED
  BY <1>2, SessionInvariant, PTL DEF Spec, IntentFirst

(* An intent is given up, by the service or by a crash, only when nothing it  *)
(* captured is left.                                                          *)
THEOREM IntentRetained == Spec => RetainedUntilGone
<1> DEFINE Retained == \A id \in Ids : Pending(id) /\ ~Pending(id)' =>
      \A k \in KindSet : files[id][k] = 0 \/ files[id][k] # mem.deletions[id][k]
<1>1. ASSUME TypeInv, SessionInv, [Next]_vars PROVE Retained
  <2> SUFFICES ASSUME NEW id \in Ids, Pending(id), ~Pending(id)'
               PROVE  ~Left(id)
    BY DEF Left
  <2>0. mem \in Registry /\ \A w \in Workers : \A new \in Saving(w) : Change(new)
    BY <1>1, TypeFacts, SavingChanges DEF SessionInv, StorageType
  <2>1. Change(mem')
    BY <1>1, <2>0, RegistryStep DEF Change, SessionInv
  <2>2. mem'.deletions[id] = NoPlan /\ mem.deletions[id] # NoPlan
    BY DEF Pending
  <2>3. CASE mem' = mem
    BY <2>2, <2>3
  <2>4. ASSUME NEW j \in Ids, mem' = Remembered(j) PROVE FALSE
    BY <2>0, <2>2, <2>4, RememberedFields
  <2>5. ASSUME NEW j \in Ids, NEW b \in BOOLEAN, mem' = WithArchived(j, b) PROVE FALSE
    BY <2>0, <2>2, <2>5, WithArchivedFields
  <2>6. ASSUME NEW j \in Ids, NEW p \in Fingerprints, p # NoPlan, mem' = WithPlan(j, p) PROVE FALSE
    BY <2>0, <2>2, <2>6, WithPlanFields
  <2>7. ASSUME NEW j \in Ids, ~Left(j), mem' = Removed(j) PROVE ~Left(id)
    BY <2>0, <2>2, <2>7, RemovedFields
  <2> QED
    BY <2>1, <2>3, <2>4, <2>5, <2>6, <2>7 DEF Change
<1>2. TypeInv /\ SessionInv /\ [Next]_vars => [Retained]_vars
  BY <1>1
<1> QED
  BY <1>2, SessionInvariant, PTL DEF Spec, RetainedUntilGone

-----------------------------------------------------------------------------
(* The promise of SessionRetention.                                          *)

Phases  == [i \in Ids |-> Phase(i)]
Present == [i \in Ids |-> {k \in KindSet : files[i][k] # 0}]
Owed    == [i \in Ids |-> {k \in KindSet : files[i][k] # 0 /\ files[i][k] = mem.deletions[i][k]}]

(* The phase of a session in SessionRetention, by what memory says of it. *)
LEMMA PhaseIs ==
  ASSUME Sound(mem), NEW i \in Ids
  PROVE  /\ Pending(i) => Phase(i) = "deleting"
         /\ ~Pending(i) /\ i \in mem.archived => Phase(i) = "archived"
         /\ ~Pending(i) /\ i \notin mem.archived /\ i \in mem.known => Phase(i) = "kept"
         /\ i \notin mem.known => Phase(i) = "absent"
         /\ Phase(i) = "deleting" => Pending(i)
<1>1. i \notin mem.known => ~Pending(i) /\ i \notin mem.archived
  BY DEF Sound, PendingIn, Pending
<1>2. CASE Pending(i)
  BY <1>1, <1>2 DEF Phase, Admitted
<1>3. CASE ~Pending(i) /\ i \in mem.archived
  BY <1>1, <1>3 DEF Phase, Admitted
<1>4. CASE ~Pending(i) /\ i \notin mem.archived /\ i \in mem.known
  BY <1>4 DEF Phase, Admitted
<1>5. CASE ~Pending(i) /\ i \notin mem.archived /\ i \notin mem.known
  BY <1>5 DEF Phase, Admitted
<1> QED
  BY <1>1, <1>2, <1>3, <1>4, <1>5

(* The sessions a service starts with are an initial state of SessionRetention. *)
LEMMA PromiseInit == Init => Promise!Init
<1> SUFFICES ASSUME Init PROVE Promise!Init
  OBVIOUS
<1>1. Sound(mem) /\ \A i \in Ids : ~Pending(i) /\ i \notin mem.archived
  BY SessionInit DEF SessionInv, Init, Pending
<1>2. \A i \in Ids : Phase(i) \in {"absent", "kept"}
  BY <1>1, PhaseIs
<1>3. \A i \in Ids : {k \in KindSet : files[i][k] # 0 /\ files[i][k] = mem.deletions[i][k]} = {}
  BY <1>1 DEF Pending, NoPlan
<1> QED
  BY <1>2, <1>3 DEF Promise!Init

(* A step that leaves the files alone, and the registry but for one session.  *)
LEMMA OneTurns ==
  ASSUME Sound(mem), Sound(mem)', files' = files, NEW i \in Ids,
         \A j \in Ids : j # i => /\ mem'.deletions[j] = mem.deletions[j]
                                 /\ (j \in mem'.known) <=> (j \in mem.known)
                                 /\ (j \in mem'.archived) <=> (j \in mem.archived)
  PROVE  /\ Present' = Present
         /\ Phases' = [Phases EXCEPT ![i] = Phase(i)']
         /\ Owed' = [Owed EXCEPT ![i] =
              {k \in KindSet : files[i][k] # 0 /\ files[i][k] = mem'.deletions[i][k]}]
<1>1. ASSUME NEW j \in Ids, j # i PROVE Phase(j)' = Phase(j)
  BY <1>1 DEF Phase, Pending, Admitted
<1> QED
  BY <1>1 DEF Phases, Present, Owed

(* A change of memory is a step of SessionRetention, or none. *)
LEMMA PromiseMemory ==
  ASSUME TypeInv, SessionInv, Sound(mem)', files' = files, Change(mem')
  PROVE  [Promise!Next]_(Promise!vars)
<1>0. Sound(mem) /\ mem \in Registry
  BY TypeFacts DEF SessionInv, StorageType
<1>1. CASE mem' = mem
  <2>1. Phases' = Phases /\ Present' = Present /\ Owed' = Owed
    BY <1>1 DEF Phases, Present, Owed, Phase, Pending, Admitted
  <2> QED
    BY <2>1 DEF Promise!vars, Phases, Present, Owed
<1>2. ASSUME NEW i \in Ids, Admitted(i), mem' = Remembered(i) PROVE [Promise!Next]_(Promise!vars)
  <2>1. /\ mem'.known = mem.known \cup {i} /\ mem'.archived = mem.archived
        /\ mem'.deletions = mem.deletions
    BY <1>0, <1>2, RememberedFields
  <2>2. Phase(i) \in {"absent", "kept"} /\ Phase(i)' = "kept"
    BY <1>0, <1>2, <2>1, PhaseIs DEF Admitted, Phase, Pending
  <2>3. /\ Present' = Present /\ Owed' = Owed
        /\ Phases' = [Phases EXCEPT ![i] = "kept"]
    <3>1. Present' = Present /\ Phases' = [Phases EXCEPT ![i] = Phase(i)']
      BY <1>0, <2>1, OneTurns
    <3>2. Owed' = Owed
      BY <2>1 DEF Owed
    <3> QED
      BY <2>2, <3>1, <3>2
  <2>4. Promise!Remember(i) \/ UNCHANGED <<Phases, Present, Owed>>
    BY <2>2, <2>3 DEF Promise!Remember, Promise!Turn, Phases, Present, Owed
  <2> QED
    BY <2>4 DEF Promise!Next, Promise!vars, Phases, Present, Owed
<1>3. ASSUME NEW i \in Ids, NEW b \in BOOLEAN, i \in mem.known, ~Pending(i), mem' = WithArchived(i, b)
      PROVE  [Promise!Next]_(Promise!vars)
  <2>1. /\ mem'.known = mem.known /\ mem'.deletions = mem.deletions
        /\ b => mem'.archived = mem.archived \cup {i}
        /\ ~b => mem'.archived = mem.archived \ {i}
    BY <1>0, <1>3, WithArchivedFields
  <2>2. /\ Phase(i) = IF i \in mem.archived THEN "archived" ELSE "kept"
        /\ Phase(i)' = IF b THEN "archived" ELSE "kept"
    BY <1>0, <1>3, <2>1, PhaseIs DEF Phase, Pending, Admitted
  <2>3. /\ Present' = Present /\ Owed' = Owed
        /\ Phases' = [Phases EXCEPT ![i] = IF b THEN "archived" ELSE "kept"]
    <3>1. Present' = Present /\ Phases' = [Phases EXCEPT ![i] = Phase(i)']
      BY <1>0, <2>1, OneTurns
    <3>2. Owed' = Owed
      BY <2>1 DEF Owed
    <3> QED
      BY <2>2, <3>1, <3>2
  <2>4. Promise!Archive(i) \/ Promise!Restore(i) \/ UNCHANGED <<Phases, Present, Owed>>
    BY <2>2, <2>3 DEF Promise!Archive, Promise!Restore, Promise!Turn, Phases, Present, Owed
  <2> QED
    BY <2>4 DEF Promise!Next, Promise!vars, Phases, Present, Owed
<1>4. ASSUME NEW i \in Ids, NEW p \in Fingerprints, MayBegin(i), p # NoPlan, mem' = WithPlan(i, p)
      PROVE  [Promise!Next]_(Promise!vars)
  <2>1. /\ mem'.known = mem.known /\ mem'.archived = mem.archived /\ mem'.deletions[i] = p
        /\ \A j \in Ids : j # i => mem'.deletions[j] = mem.deletions[j]
    BY <1>0, <1>4, WithPlanFields
  <2>2. Phase(i) \in {"kept", "archived"} /\ Phase(i)' = "deleting"
    BY <1>0, <1>4, <2>1, PhaseIs DEF MayBegin, Phase, Pending, Admitted
  <2>3. /\ Present' = Present
        /\ Owed' = [Owed EXCEPT ![i] = {k \in KindSet : files[i][k] # 0 /\ files[i][k] = mem'.deletions[i][k]}]
        /\ Phases' = [Phases EXCEPT ![i] = "deleting"]
    BY <1>0, <2>1, <2>2, OneTurns
  <2>4. {k \in KindSet : files[i][k] # 0 /\ files[i][k] = mem'.deletions[i][k]} \in SUBSET Present[i]
    BY DEF Present
  <2>5. Promise!Begin(i)
    BY <2>2, <2>3, <2>4 DEF Promise!Begin, Promise!Turn, Phases, Present, Owed
  <2> QED
    BY <2>5 DEF Promise!Next
<1>5. ASSUME NEW i \in Ids, Pending(i), ~Left(i), mem' = Removed(i)
      PROVE  [Promise!Next]_(Promise!vars)
  <2>1. /\ mem'.known = mem.known \ {i} /\ mem'.archived = mem.archived \ {i} /\ mem'.deletions[i] = NoPlan
        /\ \A j \in Ids : j # i => mem'.deletions[j] = mem.deletions[j]
    BY <1>0, <1>5, RemovedFields
  <2>2. Phase(i) = "deleting" /\ Phase(i)' = "absent"
    BY <1>0, <1>5, <2>1, PhaseIs DEF Phase, Pending, Admitted
  <2>3. /\ Present' = Present
        /\ Owed' = [Owed EXCEPT ![i] = {k \in KindSet : files[i][k] # 0 /\ files[i][k] = mem'.deletions[i][k]}]
        /\ Phases' = [Phases EXCEPT ![i] = "absent"]
    BY <1>0, <2>1, <2>2, OneTurns
  <2>4. /\ Owed[i] = {} /\ Owed' = Owed
    <3>1. Owed[i] = {}
      BY <1>5 DEF Left, Owed
    <3>2. {k \in KindSet : files[i][k] # 0 /\ files[i][k] = mem'.deletions[i][k]} = {}
      BY <2>1 DEF NoPlan
    <3> QED
      BY <2>3, <3>1, <3>2 DEF Owed
  <2>5. Promise!Forget(i)
    BY <2>2, <2>3, <2>4 DEF Promise!Forget, Promise!Turn, Phases, Present, Owed
  <2> QED
    BY <2>5 DEF Promise!Next
<1> QED
  BY <1>1, <1>2, <1>3, <1>4, <1>5 DEF Change

(* A file is written, or erased by a deletion that owes it. *)
LEMMA PromiseFiles ==
  ASSUME TypeInv, SessionInv, [Next]_vars, mem' = mem
  PROVE  [Promise!Next]_(Promise!vars)
<1>0. Numbered /\ (\A w \in Workers : Cand(w)) /\ FilesType /\ HostType /\ Sound(mem)
  BY TypeFacts DEF SessionInv, FilesType
<1>1. Phases' = Phases
  BY DEF Phases, Phase, Pending, Admitted
<1>2. ASSUME NEW i \in Ids, NEW k \in KindSet, Written(i, k) PROVE [Promise!Next]_(Promise!vars)
  <2>1. /\ files'[i][k] = writes[i] + 1 /\ files'[i][k] # 0
        /\ \A j \in Ids, f \in KindSet : j # i \/ f # k => files'[j][f] = files[j][f]
    BY <1>0, <1>2, WrittenEffect, FilesFollow
  <2>2. files'[i][k] # mem.deletions[i][k]
    <3>1. mem.deletions[i][k] \in 0..MaxWrites
      BY TypeFacts DEF StorageType, Registry, Fingerprints
    <3> QED
      BY <1>0, <2>1, <3>1, FilesFollow, LifecycleConstants DEF Numbered
  <2>3. Present' = [Present EXCEPT ![i] = @ \cup {k}]
    <3>1. {f \in KindSet : files'[i][f] # 0} = {f \in KindSet : files[i][f] # 0} \cup {k}
      BY <2>1
    <3>2. ASSUME NEW j \in Ids, j # i
          PROVE  {f \in KindSet : files'[j][f] # 0} = {f \in KindSet : files[j][f] # 0}
      BY <2>1, <3>2
    <3> QED
      BY <3>1, <3>2 DEF Present
  <2>4. Owed' = [Owed EXCEPT ![i] = @ \ {k}]
    <3>1. {f \in KindSet : files'[i][f] # 0 /\ files'[i][f] = mem.deletions[i][f]} = {f \in KindSet : files[i][f] # 0 /\ files[i][f] = mem.deletions[i][f]} \ {k}
      BY <2>1, <2>2
    <3>2. ASSUME NEW j \in Ids, j # i
          PROVE  {f \in KindSet : files'[j][f] # 0 /\ files'[j][f] = mem.deletions[j][f]} = {f \in KindSet : files[j][f] # 0 /\ files[j][f] = mem.deletions[j][f]}
      BY <2>1, <2>2, <3>2
    <3> QED
      BY <3>1, <3>2 DEF Owed
  <2>5. Promise!Write(i, k)
    BY <1>1, <2>3, <2>4 DEF Promise!Write, Phases, Present, Owed
  <2> QED
    BY <2>5 DEF Promise!Next
<1>3. ASSUME files' = files PROVE [Promise!Next]_(Promise!vars)
  <2>1. Present' = Present /\ Owed' = Owed
    BY <1>3 DEF Present, Owed
  <2> QED
    BY <1>1, <2>1 DEF Promise!vars, Phases, Present, Owed
<1>4. ASSUME NEW w \in Workers, Unlink(w) PROVE [Promise!Next]_(Promise!vars)
  <2>0. PICK i \in Ids : i = work[w].id
    BY <1>4, UnlinkEffect
  <2>1. mem.deletions[i] = work[w].plan /\ Pending(i)
    BY <1>0, <1>4, <2>0, UnlinkEffect DEF Cand, At, Pending
  <2>2. ASSUME NEW k \in KindSet, work[w].plan[k] # 0, files[i][k] = work[w].plan[k], files'[i][k] = 0,
               \A j \in Ids, f \in KindSet : j # i \/ f # k => files'[j][f] = files[j][f]
        PROVE  Promise!Erase(i, k)
    <3>1. Phases[i] = "deleting" /\ k \in Owed[i]
      BY <1>0, <2>1, <2>2, PhaseIs DEF Phases, Owed
    <3>2. Present' = [Present EXCEPT ![i] = @ \ {k}]
      <4>1. {f \in KindSet : files'[i][f] # 0} = {f \in KindSet : files[i][f] # 0} \ {k}
        BY <2>1, <2>2
      <4>2. ASSUME NEW j \in Ids, j # i
            PROVE  {f \in KindSet : files'[j][f] # 0} = {f \in KindSet : files[j][f] # 0}
        BY <2>1, <2>2, <4>2
      <4> QED
        BY <4>1, <4>2 DEF Present
    <3>3. Owed' = [Owed EXCEPT ![i] = @ \ {k}]
      <4>1. {f \in KindSet : files'[i][f] # 0 /\ files'[i][f] = mem.deletions[i][f]} = {f \in KindSet : files[i][f] # 0 /\ files[i][f] = mem.deletions[i][f]} \ {k}
        BY <2>1, <2>2
      <4>2. ASSUME NEW j \in Ids, j # i
            PROVE  {f \in KindSet : files'[j][f] # 0 /\ files'[j][f] = mem.deletions[j][f]} = {f \in KindSet : files[j][f] # 0 /\ files[j][f] = mem.deletions[j][f]}
        BY <2>1, <2>2, <4>2
      <4> QED
        BY <4>1, <4>2 DEF Owed
    <3> QED
      BY <1>1, <3>1, <3>2, <3>3 DEF Promise!Erase, Phases, Present, Owed
  <2>3. ASSUME NEW k \in KindSet, files[i][k] = 0, files'[i][k] = 0,
               \A j \in Ids, f \in KindSet : j # i \/ f # k => files'[j][f] = files[j][f]
        PROVE  files' = files
    <3>1. \A j \in Ids, f \in KindSet : files'[j][f] = files[j][f]
      BY <2>3
    <3>2. \A j \in Ids : files[j] \in Fingerprints /\ files'[j] \in Fingerprints
      BY <1>0, FilesStep DEF FilesType
    <3>3. \A j \in Ids : files'[j] = files[j]
      BY <3>1, <3>2 DEF Fingerprints
    <3> QED
      BY <1>0, <3>3, FilesStep DEF FilesType
  <2>4. \/ files' = files
        \/ \E k \in KindSet :
             /\ work[w].plan[k] # 0 /\ files[i][k] \in {0, work[w].plan[k]}
             /\ files'[i][k] = 0
             /\ \A j \in Ids, f \in KindSet : j # i \/ f # k => files'[j][f] = files[j][f]
    BY <1>4, <2>0, UnlinkEffect
  <2>5. files' = files \/ \E k \in KindSet : Promise!Erase(i, k)
    BY <2>2, <2>3, <2>4
  <2>6. ASSUME NEW k \in KindSet, Promise!Erase(i, k) PROVE Promise!Next
    BY <2>6 DEF Promise!Next
  <2> QED
    BY <1>3, <2>5, <2>6
<1>5. ASSUME NEW h \in Hosts, NEW k \in KindSet, NativeWrite(h, k) PROVE [Promise!Next]_(Promise!vars)
  <2>1. host[h].id \in Ids \cup {NoId} /\ Written(host[h].id, k)
    BY <1>0, <1>5 DEF NativeWrite, HostType, Slots
  <2>2. host[h].id = NoId => files' = files
    BY <1>0, <2>1, LifecycleConstants DEF Written, FilesType
  <2> QED
    BY <1>2, <1>3, <2>1, <2>2
<1> QED
  BY <1>2, <1>3, <1>4, <1>5, FilesMoves DEF OutsideWrite

(* So is every step of the service. *)
LEMMA PromiseStep ==
  ASSUME TypeInv, SessionInv, [Next]_vars
  PROVE  [Promise!Next]_(Promise!vars)
<1>1. CASE mem' = mem
  BY <1>1, PromiseFiles
<1>2. CASE mem' # mem
  <2>1. files' = files
    <3>1. ASSUME NEW w \in Workers, Unlink(w) PROVE FALSE
      BY <1>2, <3>1 DEF Unlink, Executing, storage
    <3>2. ASSUME \/ \E h \in Hosts, k \in KindSet : NativeWrite(h, k)
                 \/ \E i \in Ids, k \in KindSet : OutsideWrite(i, k)
          PROVE  FALSE
      BY <1>2, <3>2 DEF NativeWrite, OutsideWrite, storage
    <3> QED
      BY <3>1, <3>2, FilesMoves
  <2>2. \A w \in Workers : \A new \in Saving(w) : Change(new)
    BY SavingChanges DEF SessionInv
  <2>3. Change(mem')
    BY <2>2, RegistryStep DEF Change, SessionInv
  <2> QED
    BY <2>1, <2>3, RegistryKept, PromiseMemory
<1> QED
  BY <1>1, <1>2

(* The service keeps the promise of SessionRetention over every failed save,  *)
(* failed removal, foreign write and restart.                                 *)
THEOREM Retention == Spec => KeepsPromise
<1>1. TypeInv /\ SessionInv /\ [Next]_vars => [Promise!Next]_(Promise!vars)
  BY PromiseStep
<1> QED
  BY <1>1, PromiseInit, SessionInvariant, PTL DEF Spec, KeepsPromise, Promise!Spec

-----------------------------------------------------------------------------
(* Writers: where stop_checked always sees its child go, every child of this  *)
(* service is that of a reachable session or of the one request under way.    *)

Candidate(w, h) == work[w].pc \in {"start", "publish"} /\ work[w].host = h

Owned == \A h \in Hosts : host[h].child # "down" /\ host[h].status # "orphan" =>
  /\ host[h].id \in Ids
  /\ sessions[host[h].id] = h \/ \E w \in Workers : Candidate(w, h)

\* closing is set before shutdown waits for the lock, and nothing is opened
\* under it: what shutdown stopped stays stopped.
Down ==
  /\ \A w \in Workers : work[w].pc = "lock" /\ work[w].op = "shutdown" => closing
  /\ \A w \in Workers : work[w].pc = "stopall" => closing
  /\ \A w \in Workers : work[w].pc = "down" =>
       /\ closing
       /\ \A v \in Workers : work[v].pc \notin {"exit", "configure", "spawn", "start", "publish"}
       /\ \A h \in Hosts : host[h].child # "down" => host[h].status = "orphan"

(* No child runs when the service starts. *)
LEMMA WritersInit == Init => Owned /\ Down
BY DEF Init, Owned, Down, Idle, NoChild

(* Where no stop is unconfirmed, shutdown ends every host of the map. *)
LEMMA ShutdownHosts ==
  ASSUME ~StopUnconfirmed, HostType, NEW w \in Workers, ShutdownAll(w), NEW h \in Hosts,
         host'[h].child # "down"
  PROVE  host'[h] = host[h] /\ \A i \in Ids : sessions[i] # h
<1> DEFINE mapped == {g \in Hosts : \E i \in Ids : sessions[i] = g}
<1>1. PICK gone \in SUBSET mapped :
        /\ ~StopUnconfirmed => gone = mapped
        /\ host' = [g \in Hosts |->
             IF g \in gone THEN [host[g] EXCEPT !.status = "closed", !.child = "down"]
             ELSE IF g \in mapped THEN [host[g] EXCEPT !.status = "closed"] ELSE host[g]]
  BY DEF ShutdownAll
<1>2. h \notin gone
  BY <1>1, ZenonT(60) DEF HostType, Slots
<1>3. gone = mapped
  BY <1>1
<1> QED
  BY <1>1, <1>2, <1>3

(* A child that is not an orphan stays owned by the map or by one request. *)
LEMMA OwnedStep ==
  ASSUME ~StopUnconfirmed, TypeInv, SessionInv, Owned, [Next]_vars
  PROVE  Owned'
<1>0. /\ work \in [Workers -> Tasks] /\ Serial /\ SessionsType /\ HostType
      /\ (\A w \in Workers : Cand(w)) /\ Live
  BY TypeFacts DEF SessionInv
<1>1. \A h \in Hosts : ~Unconfirmed(h)
  BY DEF Unconfirmed
\* the candidates of the others
<1>2. ASSUME NEW w \in Workers, WorkerStep(w) \/ \E i \in Ids : ReapBegin(w, i),
             NEW h \in Hosts, host[h].child # "down", host[h].status # "orphan"
      PROVE  /\ host[h].id \in Ids
             /\ sessions[host[h].id] = h \/ Candidate(w, h)
  <2>1. host[h].id \in Ids /\ (sessions[host[h].id] = h \/ \E v \in Workers : Candidate(v, h))
    BY <1>2 DEF Owned
  <2>2. \A v \in Workers : v # w => ~Candidate(v, h)
    BY <1>2, Alone DEF Candidate, InLock
  <2> QED
    BY <2>1, <2>2
<1>3. ASSUME NEW w \in Workers, WorkerStep(w), NEW h \in Hosts,
             Stopped(h), At(w, "exit") \/ At(w, "close"), h = sessions[work[w].id], work[w].id \in Ids, Detached(w)
      PROVE  Owned'
  <2>1. Turns(h, host[h].id, "closed", "down")
    BY <1>0, <1>3, StopEffect
  <2>2. ASSUME NEW g \in Hosts, host'[g].child # "down", host'[g].status # "orphan"
        PROVE  host'[g].id \in Ids /\ sessions'[host'[g].id] = g
    <3>1. g # h /\ host'[g] = host[g]
      BY <2>1, <2>2 DEF Turns
    <3>2. host[g].id \in Ids /\ sessions[host[g].id] = g
      BY <1>2, <1>3, <2>2, <3>1 DEF Candidate, At
    <3> QED
      BY <1>3, <3>1, <3>2 DEF Detached
  <2> QED
    BY <2>2 DEF Owned
<1>4. ASSUME NEW w \in Workers, WorkerStep(w), OpenExit(w) PROVE Owned'
  <2>1. /\ At(w, "exit") /\ sessions[work[w].id] \in Hosts /\ work[w].id \in Ids
        /\ Stopped(sessions[work[w].id]) /\ Detached(w)
    BY <1>1, <1>4, OpenExitEffect
  <2>2. PICK h \in Hosts : h = sessions[work[w].id]
    BY <2>1
  <2>3. Stopped(h)
    BY <2>1, <2>2 DEF Stopped, Unlocked
  <2> QED
    BY <1>3, <1>4, <2>1, <2>2, <2>3
<1>5. ASSUME NEW w \in Workers, WorkerStep(w), Close(w) PROVE Owned'
  <2>1. /\ At(w, "close") /\ sessions[work[w].id] \in Hosts /\ work[w].id \in Ids
        /\ \/ Stopped(sessions[work[w].id]) /\ Detached(w)
           \/ UNCHANGED <<sessions, host>>
    BY <1>1, <1>5, CloseEffect
  <2>2. PICK h \in Hosts : h = sessions[work[w].id]
    BY <2>1
  <2>3. Stopped(sessions[work[w].id]) => Stopped(h)
    BY <2>2 DEF Stopped, Unlocked
  <2>4. CASE UNCHANGED <<sessions, host>>
    BY <1>2, <1>5, <2>1, <2>4 DEF Owned, Candidate, At
  <2> QED
    BY <1>3, <1>5, <2>1, <2>2, <2>3, <2>4
<1>6. ASSUME NEW w \in Workers, WorkerStep(w), StartFailed(w) \/ PublishFailed(w) PROVE Owned'
  <2>1. work[w].host \in Hosts /\ ShutDown(work[w].host) /\ sessions' = sessions
        /\ work[w].pc \in {"start", "publish"}
    BY <1>6, StartFailedEffect, PublishFailedEffect DEF At
  <2>2. PICK h \in Hosts : h = work[w].host
    BY <2>1
  <2>3. Stopped(h)
    BY <1>1, <2>1, <2>2 DEF ShutDown, Stopped, Unlocked, Unconfirmed
  <2>4. Turns(h, host[h].id, "closed", "down")
    BY <1>0, <2>3, StopEffect
  <2>5. ASSUME NEW g \in Hosts, host'[g].child # "down", host'[g].status # "orphan"
        PROVE  host'[g].id \in Ids /\ sessions'[host'[g].id] = g
    BY <1>2, <1>6, <2>1, <2>2, <2>4, <2>5 DEF Turns, Candidate
  <2> QED
    BY <2>5 DEF Owned
<1>7. ASSUME NEW w \in Workers, WorkerStep(w), Publish(w) PROVE Owned'
  <2>1. /\ sessions[work[w].id] = NoHost /\ host[work[w].host].id = work[w].id
        /\ work[w].id \in Ids /\ sessions'[work[w].id] = work[w].host /\ host' = host
        /\ \A i \in Ids : i # work[w].id => sessions'[i] = sessions[i]
    BY <1>0, <1>7, PublishEffect DEF Cand, At
  <2>2. ASSUME NEW g \in Hosts, host[g].child # "down", host[g].status # "orphan"
        PROVE  host[g].id \in Ids /\ sessions'[host[g].id] = g
    BY <1>0, <1>2, <1>7, <2>1, <2>2, LifecycleConstants DEF Candidate
  <2> QED
    BY <2>1, <2>2 DEF Owned
<1>8. ASSUME NEW w \in Workers, WorkerStep(w), ShutdownAll(w) PROVE Owned'
  <2>1. At(w, "stopall")
    BY <1>8, ShutdownTask
  <2>2. ASSUME NEW h \in Hosts, host'[h].child # "down", host'[h].status # "orphan" PROVE FALSE
    <3>1. host'[h] = host[h] /\ \A i \in Ids : sessions[i] # h
      BY <1>0, <1>8, <2>2, ShutdownHosts
    <3> QED
      BY <1>2, <1>8, <2>1, <2>2, <3>1 DEF Candidate, At
  <2> QED
    BY <2>2 DEF Owned
<1>9. ASSUME NEW w \in Workers, WorkerStep(w), NEW h \in Hosts, Spawn(w, h) PROVE Owned'
  <2>1. /\ host'[h].id = work[w].id /\ work[w].id \in Ids /\ sessions' = sessions
        /\ At(w, "spawn") /\ Candidate(w, h)'
        /\ \A g \in Hosts : g # h => host'[g] = host[g]
    BY <1>0, <1>9, SpawnTask, SpawnEffect DEF Turns, Becomes, Candidate
  <2> QED
    BY <1>2, <1>9, <2>1 DEF Owned, Candidate, At
<1>10. ASSUME NEW w \in Workers, WorkerStep(w), Attach(w) PROVE Owned'
  <2>1. \A h \in Hosts : Candidate(w, h) => Candidate(w, h)'
    BY <1>10, AttachEffect DEF Stays, Becomes, Candidate
  <2> QED
    BY <1>2, <1>10, <2>1, AttachEffect DEF Owned
<1>11. ASSUME NEW w \in Workers, WorkerStep(w) \/ \E i \in Ids : ReapBegin(w, i),
              work[w].pc \notin {"start", "publish"}, UNCHANGED <<host, sessions>>
       PROVE  Owned'
  BY <1>2, <1>11 DEF Owned, Candidate
<1>12. ASSUME NEW w \in Workers, WorkerStep(w),
              \/ OpenBegin(w) \/ CreateBegin(w) \/ ForkBegin(w) \/ MetadataBegin(w) \/ ShutdownBegin(w)
              \/ DeleteBegin(w) \/ SpawnFailed(w) \/ UpdatePreferences(w) \/ Configure(w)
              \/ Prepare(w) \/ BeginDeletion(w) \/ Relock(w) \/ Verify(w) \/ Unlink(w) \/ Unlinked(w)
              \/ ExecuteFails(w) \/ Forget(w)
       PROVE  Owned'
  <2>1. work[w].pc \notin {"start", "publish"} /\ UNCHANGED <<host, sessions>>
    BY <1>12 DEF OpenBegin, CreateBegin, ForkBegin, MetadataBegin, ShutdownBegin, DeleteBegin, SpawnFailed,
                 UpdatePreferences, Configure, Prepare, BeginDeletion, Relock, Verify, Unlink, Unlinked,
                 ExecuteFails, Forget, ServiceStep, Executing, Waiting, At
  <2> QED
    BY <1>11, <1>12, <2>1
<1>13. ASSUME NEW w \in Workers, WorkerStep(w) PROVE Owned'
  BY <1>4, <1>5, <1>6, <1>7, <1>8, <1>9, <1>10, <1>12, <1>13 DEF WorkerStep
<1>14. ASSUME NEW w \in Workers, NEW i \in Ids, ReapBegin(w, i) PROVE Owned'
  BY <1>11, <1>14, ReapEffect DEF At, ServiceStep
<1>15. ASSUME NEW w \in Workers, NEW i \in Ids, NEW op \in Ops, Request(w, op, i) PROVE Owned'
  <2>1. /\ At(w, "idle") /\ UNCHANGED <<host, sessions>>
        /\ \A v \in Workers : v # w => work'[v] = work[v]
    BY <1>15, RequestEffect DEF Becomes
  <2> QED
    BY <2>1 DEF Owned, Candidate, At
<1>16. ASSUME NEW found, NEW left, Restart(found, left) PROVE Owned'
  BY <1>0, <1>16, RestartEffect DEF Owned
<1>17. ASSUME Bystanding, HostsFollow PROVE Owned'
  <2>1. work' = work /\ sessions' = sessions
    BY <1>17 DEF Bystanding
  <2> QED
    BY <1>17, <2>1 DEF Owned, Candidate, HostsFollow
<1> QED
  BY <1>13, <1>14, <1>15, <1>16, <1>17, BystandStep

Empty == \A h \in Hosts : host[h].child # "down" => host[h].status = "orphan"
Late(w) == work[w].pc \in {"exit", "configure", "spawn", "start", "publish"}

(* Nothing starts once shutdown has set closing and emptied the map. *)
LEMMA DownStep ==
  ASSUME ~StopUnconfirmed, TypeInv, SessionInv, Owned, Down, [Next]_vars
  PROVE  Down'
<1>0. work \in [Workers -> Tasks] /\ Serial /\ HostType
  BY TypeFacts
<1>s. \A v \in Workers : work[v].pc = "down" => closing /\ Empty /\ \A w \in Workers : ~Late(w)
  BY DEF Down, Empty, Late
\* the program counter of one worker
<1>1. ASSUME NEW w \in Workers, WorkerStep(w) \/ \E i \in Ids : ReapBegin(w, i), closing' = closing,
             work'[w].pc \notin {"lock", "stopall", "down"}, Late(w)' => ~closing \/ Late(w),
             Late(w) \/ (Empty => Empty')
      PROVE  Down'
  <2>1. \A v \in Workers : v # w => work'[v] = work[v]
    BY <1>1, Alone
  <2>2. ASSUME NEW v \in Workers, work'[v].pc = "down"
        PROVE  closing' /\ Empty' /\ \A u \in Workers : ~Late(u)'
    <3>1. v # w /\ work[v].pc = "down"
      BY <1>1, <2>1, <2>2
    <3>2. closing /\ Empty /\ \A u \in Workers : ~Late(u)
      BY <1>s, <3>1
    <3>3. ~Late(w)' /\ Empty'
      BY <1>1, <3>2
    <3> QED
      BY <1>1, <2>1, <3>2, <3>3 DEF Late
  <2> QED
    BY <1>1, <2>1, <2>2 DEF Down, Empty, Late
<1>2. ASSUME NEW w \in Workers, WorkerStep(w), closing' = closing, Leaves(w), Late(w) \/ (Empty => Empty')
      PROVE  Down'
  BY <1>1, <1>2 DEF Leaves, Becomes, Late
<1>3. ASSUME NEW w \in Workers, WorkerStep(w), OpenBegin(w) \/ CreateBegin(w) \/ ForkBegin(w) PROVE Down'
  <2>1. closing' = closing /\ (Empty => Empty')
    BY <1>3 DEF OpenBegin, CreateBegin, ForkBegin, ServiceStep, Empty
  <2>2. \/ Refuse(w)
        \/ ~closing /\ (Enter(w, "exit") \/ Enter(w, "spawn") \/ \E i \in Ids : New(w, i))
    BY <1>3 DEF OpenBegin, CreateBegin, ForkBegin, OpenRefused, ForkRefused
  <2>3. Leaves(w) \/ (~closing /\ work'[w].pc \in {"exit", "configure", "spawn"})
    BY <1>0, <2>2, Control DEF Stays, Becomes, Pcs
  <2> QED
    BY <1>1, <1>2, <1>3, <2>1, <2>3
<1>4. ASSUME NEW w \in Workers, WorkerStep(w), MetadataBegin(w) \/ DeleteBegin(w) PROVE Down'
  <2>1. closing' = closing /\ (Empty => Empty')
    BY <1>4 DEF MetadataBegin, DeleteBegin, ServiceStep, Empty
  <2>2. Refuse(w) \/ Enter(w, "close") \/ Enter(w, "prefs") \/ Enter(w, "relock") \/ Enter(w, "prepare")
    BY <1>4 DEF MetadataBegin, DeleteBegin
  <2>3. Leaves(w) \/ work'[w].pc \in {"close", "prefs", "relock", "prepare"}
    BY <1>0, <2>2, Control DEF Stays, Becomes, Pcs
  <2> QED
    BY <1>1, <1>2, <1>4, <2>1, <2>3 DEF Late
<1>5. ASSUME NEW w \in Workers, WorkerStep(w), ShutdownBegin(w) PROVE Down'
  <2>1. /\ At(w, "lock") /\ work[w].op = "shutdown" /\ closing' = closing /\ host' = host
        /\ Enter(w, "stopall")
    BY <1>5 DEF ShutdownBegin, Waiting, ServiceStep
  <2>2. work'[w].pc = "stopall" /\ \A v \in Workers : v # w => work'[v] = work[v]
    BY <1>0, <2>1, Control DEF Stays, Becomes, Pcs
  <2> QED
    BY <2>1, <2>2 DEF Down, At
<1>5c. ASSUME NEW w \in Workers, WorkerStep(w), Configure(w) PROVE Down'
  <2>1. /\ closing' = closing /\ host' = host /\ Late(w)
        /\ Leaves(w) \/ work'[w].pc = "spawn"
    BY <1>5c, ConfigureEffect DEF Stays, Becomes, Late, At
  <2> QED
    BY <1>1, <1>2, <1>5c, <2>1
<1>6. ASSUME NEW w \in Workers, WorkerStep(w),
             \/ SpawnFailed(w) \/ StartFailed(w) \/ Publish(w) \/ PublishFailed(w) \/ UpdatePreferences(w)
             \/ ExecuteFails(w) \/ Forget(w)
      PROVE  Down'
  <2>1. closing' = closing /\ Finish(w)
    BY <1>6 DEF SpawnFailed, StartFailed, Publish, PublishFailed, UpdatePreferences, ExecuteFails, Forget,
                ServiceStep, Executing
  <2>2. Late(w) \/ (Empty => Empty')
    BY <1>6 DEF SpawnFailed, StartFailed, Publish, PublishFailed, UpdatePreferences, ExecuteFails, Forget,
                ServiceStep, Executing, At, Late, Empty
  <2> QED
    BY <1>0, <1>2, <1>6, <2>1, <2>2, Control
<1>7. ASSUME NEW w \in Workers, WorkerStep(w), OpenExit(w) \/ Attach(w) \/ \E h \in Hosts : Spawn(w, h) PROVE Down'
  <2>1. closing' = closing /\ Late(w)
    BY <1>7 DEF OpenExit, Attach, Spawn, Late, At
  <2>2. Leaves(w) \/ work'[w].pc \in {"spawn", "publish", "start"}
    <3>1. CASE OpenExit(w)
      BY <1>0, <3>1, OpenExitEffect, Control DEF Stays, Becomes, Pcs
    <3>2. CASE Attach(w)
      BY <3>2, AttachEffect DEF Stays, Becomes
    <3>3. CASE \E h \in Hosts : Spawn(w, h)
      BY <3>3, SpawnTask DEF Becomes
    <3> QED
      BY <1>7, <3>1, <3>2, <3>3
  <2> QED
    BY <1>1, <1>2, <1>7, <2>1, <2>2
<1>8. ASSUME NEW w \in Workers, WorkerStep(w), Close(w) PROVE Down'
  <2>1. closing' = closing /\ sessions[work[w].id] \in Hosts
    BY <1>8, CloseEffect
  <2>2. Leaves(w) \/ work'[w].pc \in {"prepare", "prefs"}
    BY <1>0, <1>8, CloseEffect, Control DEF Stays, Becomes, Pcs
  <2>3. Empty => Empty'
    <3>1. PICK h \in Hosts : h = sessions[work[w].id]
      BY <2>1
    <3>2. Stopped(sessions[work[w].id]) => Stopped(h)
      BY <3>1 DEF Stopped, Unlocked
    <3>3. Stopped(h) \/ host' = host
      BY <1>8, <3>2, CloseEffect DEF Unconfirmed
    <3>4. Stopped(h) => Turns(h, host[h].id, "closed", "down")
      BY <1>0, StopEffect
    <3> QED
      BY <3>3, <3>4 DEF Turns, Empty
  <2> QED
    BY <1>1, <1>2, <1>8, <2>1, <2>2, <2>3 DEF Late
<1>9. ASSUME NEW w \in Workers, WorkerStep(w), ShutdownAll(w) PROVE Down'
  <2>1. At(w, "stopall") /\ closing' = closing /\ work'[w].pc = "down"
    BY <1>9, ShutdownTask DEF Becomes
  <2>2. ASSUME NEW h \in Hosts, host'[h].child # "down", host'[h].status # "orphan" PROVE FALSE
    <3>1. host'[h] = host[h] /\ \A i \in Ids : sessions[i] # h
      BY <1>0, <1>9, <2>2, ShutdownHosts
    <3>2. PICK v \in Workers : Candidate(v, h)
      BY <2>2, <3>1 DEF Owned
    <3> QED
      BY <1>9, <2>1, <3>2, Alone DEF Candidate, InLock, At
  <2>3. \A v \in Workers : v # w => ~InLock(v) /\ work'[v] = work[v]
    BY <1>9, Alone
  <2>4. closing
    BY <2>1 DEF Down, At
  <2> QED
    BY <2>1, <2>2, <2>3, <2>4 DEF Down, InLock
<1>10. ASSUME NEW w \in Workers, WorkerStep(w),
              \/ Prepare(w) \/ BeginDeletion(w) \/ Relock(w) \/ Verify(w) \/ Unlink(w) \/ Unlinked(w)
       PROVE  Down'
  <2>1. closing' = closing /\ (Empty => Empty')
    BY <1>10 DEF Prepare, BeginDeletion, Relock, Verify, Unlink, Unlinked, Executing, Empty
  <2>2. Leaves(w) \/ work'[w].pc \in {"begin", "verify", "unlink", "forget"}
    <3>1. CASE Unlinked(w)
      BY <1>0, <3>1, Control DEF Unlinked, Stays, Becomes, Pcs
    <3> QED
      BY <1>10, <3>1, PrepareEffect, BeginEffect, RelockEffect, VerifyEffect, UnlinkEffect DEF Stays, Becomes
  <2> QED
    BY <1>1, <1>2, <1>10, <2>1, <2>2 DEF Late
<1>11. ASSUME NEW w \in Workers, WorkerStep(w) PROVE Down'
  BY <1>3, <1>4, <1>5, <1>5c, <1>6, <1>7, <1>8, <1>9, <1>10, <1>11 DEF WorkerStep
<1>12. ASSUME NEW w \in Workers, NEW i \in Ids, ReapBegin(w, i) PROVE Down'
  <2>1. closing' = closing /\ (Empty => Empty') /\ work'[w].pc = "close"
    BY <1>12, ReapEffect DEF ServiceStep, Becomes, Empty
  <2> QED
    BY <1>1, <1>12, <2>1 DEF Late
<1>13. ASSUME NEW w \in Workers, NEW i \in Ids, NEW op \in Ops, Request(w, op, i) PROVE Down'
  <2>1. /\ closing' = (closing \/ op = "shutdown") /\ host' = host
        /\ work'[w].pc = "lock" /\ work'[w].op = op
        /\ \A v \in Workers : v # w => work'[v] = work[v]
    BY <1>13, RequestEffect DEF Becomes
  <2> QED
    BY <2>1 DEF Down
<1>14. ASSUME NEW found, NEW left, Restart(found, left) PROVE Down'
  BY <1>14, RestartTasks DEF Down
<1>15. ASSUME Bystanding, HostsFollow PROVE Down'
  <2>1. work' = work /\ closing' = closing
    BY <1>15 DEF Bystanding
  <2>2. Empty => Empty'
    BY <1>15 DEF HostsFollow, Empty
  <2> QED
    BY <2>1, <2>2 DEF Down, Empty
<1> QED
  BY <1>11, <1>12, <1>13, <1>14, <1>15, BystandStep

(* With confirmed stops both hold in every reachable state. *)
LEMMA WritersInvariant ==
  ASSUME ~StopUnconfirmed
  PROVE  Spec => [](TypeInv /\ SessionInv /\ Owned /\ Down)
<1>1. /\ TypeInv /\ SessionInv /\ Owned /\ Down /\ [Next]_vars
      => (TypeInv /\ SessionInv /\ Owned /\ Down)'
  BY TypeStep, SessionStep, OwnedStep, DownStep
<1> QED
  BY <1>1, TypeInit, SessionInit, WritersInit, PTL DEF Spec

(* Never two native writers for one transcript: the child of the request      *)
(* under way and that of a reachable session exclude each other.              *)
THEOREM OneWriter ==
  ASSUME ~StopUnconfirmed
  PROVE  Spec => []SingleWriter
<1>1. TypeInv /\ SessionInv /\ Owned => SingleWriter
  <2> SUFFICES ASSUME TypeInv, SessionInv, Owned, NEW id \in Ids
               PROVE  Cardinality(Children(id)) <= 1
    BY DEF SingleWriter
  <2>0. Serial /\ Live /\ \A w \in Workers : Cand(w)
    BY TypeFacts DEF SessionInv
  <2>1. ASSUME NEW g \in Children(id), NEW h \in Children(id) PROVE g = h
    <3>1. /\ g \in Hosts /\ host[g].id = id /\ (sessions[id] = g \/ \E w \in Workers : Candidate(w, g))
          /\ h \in Hosts /\ host[h].id = id /\ (sessions[id] = h \/ \E w \in Workers : Candidate(w, h))
      BY <2>1 DEF Children, Owned
    <3>2. ASSUME NEW v \in Workers, NEW w \in Workers, NEW x \in Hosts, NEW y \in Hosts,
                 Candidate(v, x), Candidate(w, y)
          PROVE  x = y
      BY <2>0, <3>2 DEF Serial, InLock, Candidate
    <3>3. ASSUME NEW w \in Workers, NEW x \in Hosts, Candidate(w, x), host[x].id = id
          PROVE  sessions[id] = NoHost
      BY <2>0, <3>3 DEF Cand, Candidate
    <3> QED
      BY <3>1, <3>2, <3>3, LifecycleConstants
  <2>2. CASE Children(id) = {}
    BY <2>2, FS_EmptySet
  <2>3. CASE Children(id) # {}
    <3>1. PICK h : h \in Children(id)
      BY <2>3
    <3>2. Children(id) = {h}
      BY <2>1, <3>1
    <3> QED
      BY <3>2, FS_Singleton
  <2> QED
    BY <2>2, <2>3
<1> QED
  BY <1>1, WritersInvariant, PTL

(* An archived session, or one whose deletion is pending, has no writer.      *)
THEOREM RetiredQuiet ==
  ASSUME ~StopUnconfirmed
  PROVE  Spec => []NoRetiredWriter
<1>1. TypeInv /\ SessionInv /\ Owned => NoRetiredWriter
  <2> SUFFICES ASSUME TypeInv, SessionInv, Owned, NEW id \in Ids, Pending(id) \/ id \in mem.archived
               PROVE  Children(id) = {} /\ sessions[id] = NoHost
    BY DEF NoRetiredWriter
  <2>0. Live /\ \A w \in Workers : Cand(w)
    BY DEF SessionInv
  <2>1. ~Admitted(id) /\ sessions[id] = NoHost
    BY <2>0 DEF Live, Admitted
  <2>2. ASSUME NEW h \in Children(id) PROVE FALSE
    <3>1. h \in Hosts /\ host[h].id = id /\ (sessions[id] = h \/ \E w \in Workers : Candidate(w, h))
      BY <2>2 DEF Children, Owned
    <3>2. \A w \in Workers : Candidate(w, h) => Admitted(id)
      BY <2>0, <3>1 DEF Cand, Candidate
    <3> QED
      BY <2>1, <3>1, <3>2, LifecycleConstants
  <2> QED
    BY <2>1, <2>2
<1> QED
  BY <1>1, WritersInvariant, PTL

(* After shutdown has returned no child of this service is left or started.   *)
THEOREM ShutdownComplete ==
  ASSUME ~StopUnconfirmed
  PROVE  Spec => []ShutdownLeavesNone
<1>1. Down => ShutdownLeavesNone
  BY DEF Down, ShutdownLeavesNone, Children, At
<1> QED
  BY <1>1, WritersInvariant, PTL
=============================================================================
