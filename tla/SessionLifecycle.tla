-------------------------- MODULE SessionLifecycle --------------------------
(***************************************************************************)
(* The owner of sessions in rpi-extcore: service.rs, service/retirement.rs *)
(* and publish_record, over the registry file (registry.rs) and the exact  *)
(* deletion of a native history (deletion.rs).                             *)
(*                                                                         *)
(* Requests are retained tasks (workers) serialised by session_lifecycle;  *)
(* commands take no such lock.  A host owns a native child, which writes   *)
(* the session's files while it holds their stable ".lock".  The registry  *)
(* is kept in memory and written whole to disk; the service may crash at   *)
(* any point and starts again from the disk, while the children it had may *)
(* outlive it.  A file is known by its fingerprint: the number of the      *)
(* write that produced it, 0 when it is absent.                            *)
(***************************************************************************)
EXTENDS Naturals, Sequences, FiniteSets

CONSTANTS
  Ids,              \* session identities
  Hosts,            \* host slots; a slot is reused once its child is gone
  Workers,          \* retained request tasks
  NoId, NoHost, Nobody,
  Outsider,         \* a native process this service did not start
  Kinds,            \* KINDS of deletion.rs, in removal order; the first is Primary
  Ops,              \* the requests clients make in this instance
  Initially,        \* sessions remembered, with a transcript, at the start
  Configured,       \* sessions whose record carries a resource configuration
  Outside,          \* an outsider may open a transcript
  SyncFails,        \* a registry write may fail after its rename
  StopUnconfirmed,  \* stop_checked may miss its deadline with the child alive
  MaxDeletions,     \* 128 in registry.rs
  MaxWrites,        \* bound on the writes to one session's files
  MaxCrashes        \* bound on crashes of the service

KindSet == {Kinds[i] : i \in 1..Len(Kinds)}
Primary == Kinds[1]

ASSUME LifecycleConstants ==
  /\ Initially \subseteq Ids /\ Configured \subseteq Ids
  /\ Kinds \in Seq(KindSet) \ {<< >>}
  /\ \A i, j \in 1..Len(Kinds) : Kinds[i] = Kinds[j] => i = j
  /\ MaxDeletions \in Nat /\ MaxWrites \in Nat \ {0} /\ MaxCrashes \in Nat
  /\ {Outside, SyncFails, StopUnconfirmed} \subseteq BOOLEAN
  /\ NoId \notin Ids /\ NoHost \notin Hosts
  /\ Nobody \notin Workers \cup Hosts \cup {Outsider}
  /\ Outsider \notin Workers \cup Hosts /\ Workers \cap Hosts = {}

VARIABLES
  lifecycle,  \* the worker that holds session_lifecycle
  closing,    \* Service.closing
  work,       \* what each retained task is doing
  sessions,   \* Service.sessions
  durable,    \* Service.durable: the host a projection is attached to
  latched,    \* Service.resource_storage_failed
  command,    \* the session of a command between its admission and its send
  host,       \* HostSession: identity, projected status, native child
  mem, disk,  \* the registry in memory and on disk
  temp,       \* a temporary registry file is left on disk
  files,      \* the fingerprint of every file of a session
  writes,     \* writes made to each session's files so far
  lock,       \* who holds the native ".lock" of a transcript
  forgotten,  \* sessions whose DELETE has answered success (history)
  crashes

service == <<lifecycle, closing, work, sessions, durable, latched, command>>
storage == <<mem, disk, temp>>
native  == <<files, writes, lock>>
vars    == <<service, storage, native, host, forgotten, crashes>>

Fingerprints == [KindSet -> 0..MaxWrites]
NoPlan  == [k \in KindSet |-> 0]     \* no file captured: no deletion pending
Idle    == [pc |-> "idle", op |-> "none", id |-> NoId, host |-> NoHost,
            plan |-> NoPlan, at |-> 0]
NoChild == [id |-> NoId, status |-> "closed", child |-> "down"]
Registry == [known: SUBSET Ids, archived: SUBSET Ids,
             deletions: [Ids -> Fingerprints]]

Init ==
  /\ lifecycle = Nobody /\ closing = FALSE /\ command = NoId
  /\ work = [w \in Workers |-> Idle]
  /\ sessions = [i \in Ids |-> NoHost] /\ durable = [i \in Ids |-> NoHost]
  /\ latched = {} /\ forgotten = {} /\ crashes = 0
  /\ host = [h \in Hosts |-> NoChild]
  /\ mem = [known |-> Initially, archived |-> {},
            deletions |-> [i \in Ids |-> NoPlan]]
  /\ disk = mem /\ temp = FALSE
  /\ files = [i \in Ids |-> [k \in KindSet |->
                IF i \in Initially /\ k = Primary THEN 1 ELSE 0]]
  /\ writes = [i \in Ids |-> IF i \in Initially THEN 1 ELSE 0]
  /\ lock = [i \in Ids |-> Nobody]

-----------------------------------------------------------------------------
(* The registry.  Every change is made in memory, saved as a whole and      *)
(* rolled back if the save fails.                                           *)

Remembered(id)  == [mem EXCEPT !.known = @ \cup {id}]
WithPlan(id, p) == [mem EXCEPT !.deletions[id] = p]
WithArchived(id, archived) ==
  [mem EXCEPT !.archived = IF archived THEN @ \cup {id} ELSE @ \ {id}]
Removed(id) == [mem EXCEPT !.known = @ \ {id}, !.archived = @ \ {id},
                           !.deletions[id] = NoPlan]

Pending(id)  == mem.deletions[id] # NoPlan
\* A mutated form of Admitted: only the deletion is looked at.
AdmittedArchived(id) == ~Pending(id)

\* check_session_admission: neither being deleted nor archived
Admitted(id) == ~Pending(id) /\ id \notin mem.archived

\* atomic_write_registry: a temporary file left by a crash refuses every
\* later write; an error after the rename leaves the new file on disk.
Saved(new) == ~temp /\ mem' = new /\ disk' = new /\ UNCHANGED temp
SaveFailed(new) ==
  /\ disk' \in {disk} \cup (IF SyncFails /\ ~temp THEN {new} ELSE {})
  /\ UNCHANGED <<mem, temp>>

-----------------------------------------------------------------------------
(* Hosts and native children.                                               *)

Unlocked(h) == [i \in Ids |-> IF lock[i] = h THEN Nobody ELSE lock[i]]
Used(h) == \/ \E i \in Ids : sessions[i] = h
           \/ \E w \in Workers : work[w].host = h

\* HostSession::spawn_options up to the ready frame: the child is started
Spawned(h, id) ==
  /\ ~Used(h) /\ host[h].child = "down"
  /\ host' = [host EXCEPT ![h] =
                [id |-> id, status |-> "live", child |-> "starting"]]

\* The child's exit is confirmed by its reaper.
Stopped(h) ==
  /\ host' = [host EXCEPT ![h].status = "closed", ![h].child = "down"]
  /\ lock' = Unlocked(h)

\* stop_checked passed its deadline, the child may still be there.
Unconfirmed(h) ==
  /\ StopUnconfirmed /\ host[h].child # "down"
  /\ host' = [host EXCEPT ![h].status = "closed"]
  /\ UNCHANGED lock

\* HostSession::shutdown ignores what stop_checked answers.
ShutDown(h) == Stopped(h) \/ Unconfirmed(h)

\* The native child becomes ready if it gets the transcript's lock.
NativeReady(h) ==
  /\ host[h].child = "starting" /\ lock[host[h].id] = Nobody
  /\ host' = [host EXCEPT ![h].child = "up"]
  /\ lock' = [lock EXCEPT ![host[h].id] = h]
  /\ UNCHANGED <<service, storage, files, writes, forgotten, crashes>>

\* A process that holds the lock writes a file of the session.
Written(id, k) ==
  /\ writes[id] < MaxWrites
  /\ k = Primary \/ files[id][Primary] # 0
  /\ writes' = [writes EXCEPT ![id] = @ + 1]
  /\ files' = [files EXCEPT ![id][k] = writes[id] + 1]

NativeWrite(h, k) ==
  /\ host[h].child = "up" /\ Written(host[h].id, k)
  /\ UNCHANGED <<service, storage, host, lock, forgotten, crashes>>

NativeExit(h) ==
  /\ host[h].child # "down"
  /\ host' = [host EXCEPT ![h].child = "down"]
  /\ lock' = Unlocked(h)
  /\ UNCHANGED <<service, storage, files, writes, forgotten, crashes>>

\* The reader saw the end of the stream, or the host failed closed.
HostClosed(h) ==
  /\ Used(h) /\ host[h].status = "live"
  /\ host' = [host EXCEPT ![h].status = "closed"]
  /\ UNCHANGED <<service, storage, native, forgotten, crashes>>

\* A native process outside the service opens, writes and closes a transcript.
OutsideOpen(id) ==
  /\ Outside /\ lock[id] = Nobody
  /\ lock' = [lock EXCEPT ![id] = Outsider]
  /\ UNCHANGED <<service, storage, host, files, writes, forgotten, crashes>>

OutsideWrite(id, k) ==
  /\ lock[id] = Outsider /\ Written(id, k)
  /\ UNCHANGED <<service, storage, host, lock, forgotten, crashes>>

OutsideClose(id) ==
  /\ lock[id] = Outsider
  /\ lock' = [lock EXCEPT ![id] = Nobody]
  /\ UNCHANGED <<service, storage, host, files, writes, forgotten, crashes>>

-----------------------------------------------------------------------------
(* Requests.  A worker waits for session_lifecycle and holds it to its end. *)

At(w, pc) == work[w].pc = pc
Goto(w, pc) == work' = [work EXCEPT ![w].pc = pc] /\ UNCHANGED lifecycle
Finish(w) == work' = [work EXCEPT ![w] = Idle] /\ lifecycle' = Nobody

Request(w, op, id) ==
  /\ At(w, "idle") /\ op \in Ops \ {"reap", "command", "rename"}
  /\ work' = [work EXCEPT ![w] = [Idle EXCEPT !.pc = "lock", !.op = op, !.id = id]]
  /\ closing' = (closing \/ op = "shutdown")
  /\ UNCHANGED <<lifecycle, sessions, durable, latched, command,
                 storage, native, host, forgotten, crashes>>

\* session_lifecycle.lock().await
LockFree == lifecycle = Nobody
Waiting(w, op) == At(w, "lock") /\ work[w].op = op /\ LockFree
Enter(w, pc) == work' = [work EXCEPT ![w].pc = pc] /\ lifecycle' = w
Refuse(w) == work' = [work EXCEPT ![w] = Idle] /\ UNCHANGED lifecycle
ServiceStep == UNCHANGED <<closing, latched, command, storage, native, host,
                           sessions, durable, forgotten, crashes>>

\* A live host is returned, a closed one is replaced, none is started for a
\* session that is unknown, archived, being deleted or latched, or while a resource
\* operation of a configured one is pending or blocked.
OpenRefused(id) ==
  \/ closing \/ ~Admitted(id) \/ id \in latched
  \/ IF sessions[id] # NoHost THEN host[sessions[id]].status # "closed"
                              ELSE id \notin mem.known

OpenBegin(w) ==
  /\ Waiting(w, "open")
  /\ LET id == work[w].id IN
       \/ (OpenRefused(id) \/ id \in Configured) /\ Refuse(w)
       \/ ~OpenRefused(id) /\ Enter(w, IF sessions[id] # NoHost THEN "exit" ELSE "spawn")
  /\ ServiceStep

\* A mutated form of OpenExit: the corpse is dropped with its child still there.
OpenExitUnchecked(w) ==
  LET id == work[w].id IN
  /\ At(w, "exit") /\ Goto(w, "spawn")
  /\ sessions' = [sessions EXCEPT ![id] = NoHost]
  /\ durable' = [durable EXCEPT ![id] = NoHost]
  /\ UNCHANGED <<closing, latched, command, storage, native, host, forgotten, crashes>>

\* await_resource_exit: the corpse is dropped once its child is known to be gone
OpenExit(w) ==
  LET id == work[w].id IN
  /\ At(w, "exit")
  /\ \/ /\ Stopped(sessions[id]) /\ Goto(w, "spawn")
        /\ sessions' = [sessions EXCEPT ![id] = NoHost]
        /\ durable' = [durable EXCEPT ![id] = NoHost]
     \/ /\ Unconfirmed(sessions[id]) /\ Finish(w)
        /\ UNCHANGED <<sessions, durable>>
  /\ UNCHANGED <<closing, latched, command, storage, files, writes, forgotten, crashes>>

\* create_session and fork_session give a new UUID; fork needs its source admitted
Fresh(id) ==
  /\ id \notin mem.known \cup disk.known \cup forgotten
  /\ sessions[id] = NoHost /\ writes[id] = 0
  /\ \A h \in Hosts : host[h].id # id

\* A session that is created with resources is saved before its host is started.
New(w, id) ==
  /\ Fresh(id) /\ lifecycle' = w
  /\ work' = [work EXCEPT ![w].id = id, ![w].pc =
       IF work[w].op = "create" /\ id \in Configured THEN "configure" ELSE "spawn"]

\* A mutated form of CreateBegin: closing is not looked at under the lock.
CreateWhileClosing(w) ==
  /\ Waiting(w, "create") /\ \E id \in Ids : New(w, id)
  /\ ServiceStep

CreateBegin(w) ==
  /\ Waiting(w, "create")
  /\ IF closing THEN Refuse(w) ELSE \E id \in Ids : New(w, id)
  /\ ServiceStep

\* prepare_create: a selection the executable does not offer, or a save that
\* fails, ends the request; a later failure leaves the session remembered.
Configure(w) ==
  LET new == Remembered(work[w].id) IN
  /\ At(w, "configure")
  /\ \/ Saved(new) /\ Goto(w, "spawn")
     \/ (SaveFailed(new) \/ UNCHANGED storage) /\ Finish(w)
  /\ UNCHANGED <<closing, sessions, durable, latched, command, native, host, forgotten, crashes>>

ForkRefused(source) ==
  \/ closing \/ ~Admitted(source) \/ source \in latched
  \/ source \notin mem.known /\ sessions[source] = NoHost

ForkBegin(w) ==
  /\ Waiting(w, "fork")
  /\ IF ForkRefused(work[w].id) THEN Refuse(w) ELSE \E id \in Ids : New(w, id)
  /\ ServiceStep

Spawn(w, h) ==
  /\ At(w, "spawn") /\ Spawned(h, work[w].id)
  /\ work' = [work EXCEPT ![w].pc = "start", ![w].host = h]
  /\ UNCHANGED <<lifecycle, closing, sessions, durable, latched, command,
                 storage, native, forgotten, crashes>>

\* No child was started: the project, the host's options or the spawn failed.
SpawnFailed(w) == At(w, "spawn") /\ Finish(w) /\ ServiceStep

\* The ready frame came and the durable projection is attached, if the
\* native offers one.
Attach(w) ==
  LET h == work[w].host IN
  /\ At(w, "start") /\ host[h].child = "up"
  /\ durable' \in {[durable EXCEPT ![work[w].id] = x] : x \in {h, NoHost}}
  /\ Goto(w, "publish")
  /\ UNCHANGED <<closing, sessions, latched, command, storage, native, host,
                 forgotten, crashes>>

\* The child did not become ready, its observation failed, or the projection
\* could not be attached: the candidate is shut down.
StartFailed(w) ==
  /\ At(w, "start") /\ ShutDown(work[w].host) /\ Finish(w)
  /\ durable' = [durable EXCEPT ![work[w].id] = NoHost]
  /\ UNCHANGED <<closing, sessions, latched, command, storage, files, writes,
                 forgotten, crashes>>

\* fork_session_owned looks at closing again before it publishes
MayPublish(w) == work[w].op = "fork" => ~closing

\* A mutated form of Publish: the host is published whether it was saved or not.
PublishUnsaved(w) ==
  LET id == work[w].id IN
  /\ At(w, "publish") /\ MayPublish(w)
  /\ Saved(Remembered(id)) \/ SaveFailed(Remembered(id))
  /\ sessions' = [sessions EXCEPT ![id] = work[w].host]
  /\ Finish(w)
  /\ UNCHANGED <<closing, durable, latched, command, native, host, forgotten, crashes>>

Publish(w) ==
  LET id == work[w].id IN
  /\ At(w, "publish") /\ MayPublish(w)
  /\ Saved(Remembered(id))
  /\ sessions' = [sessions EXCEPT ![id] = work[w].host]
  /\ Finish(w)
  /\ UNCHANGED <<closing, durable, latched, command, native, host, forgotten, crashes>>

\* A mutated form of PublishFailed: the projection stays attached.
PublishFailedAttached(w) ==
  LET id == work[w].id IN
  /\ At(w, "publish")
  /\ IF MayPublish(w) THEN SaveFailed(Remembered(id)) ELSE UNCHANGED storage
  /\ latched' = IF MayPublish(w) /\ id \in Configured THEN latched \cup {id}
                                                      ELSE latched
  /\ ShutDown(work[w].host) /\ Finish(w)
  /\ UNCHANGED <<closing, sessions, durable, command, files, writes, forgotten, crashes>>

PublishFailed(w) ==
  LET id == work[w].id IN
  /\ At(w, "publish")
  /\ IF MayPublish(w) THEN SaveFailed(Remembered(id)) ELSE UNCHANGED storage
  /\ latched' = IF MayPublish(w) /\ id \in Configured THEN latched \cup {id}
                                                      ELSE latched
  /\ durable' = [durable EXCEPT ![id] = NoHost]
  /\ ShutDown(work[w].host) /\ Finish(w)
  /\ UNCHANGED <<closing, sessions, command, files, writes, forgotten, crashes>>

-----------------------------------------------------------------------------
(* Retirement: idle close, archival, the reaper and shutdown.               *)

\* idle_close: a busy host, or one whose idleness is not confirmed, stays;
\* the host leaves the map only when its exit is confirmed.
CloseDone(w, h) ==
  /\ Stopped(h)
  /\ sessions' = [sessions EXCEPT ![work[w].id] = NoHost]
  /\ durable' = [durable EXCEPT ![work[w].id] = NoHost]

AfterClose(w) ==
  CASE work[w].op = "delete"  -> Goto(w, "prepare")
    [] work[w].op = "archive" -> Goto(w, "prefs")
    [] OTHER                  -> Finish(w)

Close(w) ==
  LET h == sessions[work[w].id] IN
  /\ At(w, "close")
  /\ \/ CloseDone(w, h) /\ AfterClose(w)
     \/ /\ host[h].status = "live"                   \* busy, or unknown
        /\ Finish(w) /\ UNCHANGED <<sessions, durable, host, lock>>
     \/ Unconfirmed(h) /\ Finish(w) /\ UNCHANGED <<sessions, durable>>
  /\ UNCHANGED <<closing, latched, command, storage, files, writes, forgotten, crashes>>

\* reap_idle never waits for the lock; which sessions have expired is left open.
ReapBegin(w, id) ==
  /\ "reap" \in Ops /\ At(w, "idle") /\ LockFree
  /\ ~closing /\ sessions[id] # NoHost
  /\ work' = [work EXCEPT ![w] = [Idle EXCEPT !.pc = "close", !.op = "reap", !.id = id]]
  /\ lifecycle' = w
  /\ ServiceStep

\* session_metadata with archived set
MetadataBegin(w) ==
  LET id == work[w].id IN
  /\ Waiting(w, "archive") \/ Waiting(w, "restore")
  /\ IF closing \/ id \notin mem.known \/ Pending(id) THEN Refuse(w)
     ELSE Enter(w, IF work[w].op = "archive" /\ sessions[id] # NoHost
                   THEN "close" ELSE "prefs")
  /\ ServiceStep

Preferences(w) == WithArchived(work[w].id, work[w].op = "archive")

UpdatePreferences(w) ==
  /\ At(w, "prefs")
  /\ Saved(Preferences(w)) \/ SaveFailed(Preferences(w))
  /\ Finish(w)
  /\ UNCHANGED <<closing, sessions, durable, latched, command, native, host,
                 forgotten, crashes>>

\* Service::shutdown, after closing is set: every host of the map is shut
\* down; the map itself is kept.
ShutdownBegin(w) ==
  /\ Waiting(w, "shutdown") /\ Enter(w, "stopall") /\ ServiceStep

ShutdownAll(w) ==
  LET mapped == {h \in Hosts : \E i \in Ids : sessions[i] = h} IN
  /\ At(w, "stopall")
  /\ \E gone \in SUBSET mapped :
       /\ ~StopUnconfirmed => gone = mapped
       /\ host' = [h \in Hosts |->
             IF h \in gone THEN [host[h] EXCEPT !.status = "closed", !.child = "down"]
             ELSE IF h \in mapped THEN [host[h] EXCEPT !.status = "closed"] ELSE host[h]]
       /\ lock' = [i \in Ids |-> IF lock[i] \in gone THEN Nobody ELSE lock[i]]
  /\ durable' = [i \in Ids |-> NoHost]
  /\ work' = [work EXCEPT ![w] = [Idle EXCEPT !.pc = "down"]] /\ lifecycle' = Nobody
  /\ UNCHANGED <<closing, sessions, latched, command, storage, files, writes,
                 forgotten, crashes>>

-----------------------------------------------------------------------------
(* Deletion.                                                                *)

\* A mutated form of DeleteBegin: a retry plans the deletion anew.
DeleteRediscovers(w) ==
  LET id == work[w].id IN
  /\ Waiting(w, "delete")
  /\ IF closing \/ (id \notin mem.known /\ sessions[id] = NoHost) THEN Refuse(w)
     ELSE Enter(w, IF sessions[id] # NoHost THEN "close" ELSE "prepare")
  /\ ServiceStep

DeleteBegin(w) ==
  LET id == work[w].id IN
  /\ Waiting(w, "delete")
  /\ IF closing \/ (id \notin mem.known /\ sessions[id] = NoHost) THEN Refuse(w)
     ELSE Enter(w, CASE Pending(id) -> "relock"
                     [] ~Pending(id) /\ sessions[id] # NoHost -> "close"
                     [] OTHER -> "prepare")
  /\ ServiceStep

\* discover: the one primary history of the session under the configured root
Discovered(id) == files[id][Primary] # 0
\* NativeLock: taken without waiting, dropped on every path
TakeLock(w, id) == lock[id] = Nobody /\ lock' = [lock EXCEPT ![id] = w]
Unlock(w) == lock' = [i \in Ids |-> IF lock[i] = w THEN Nobody ELSE lock[i]]

\* prepare_locked: the primary is found, its lock taken, then every
\* fingerprint captured.
Prepare(w) ==
  LET id == work[w].id IN
  /\ At(w, "prepare")
  /\ \/ /\ Discovered(id) /\ TakeLock(w, id)
        /\ work' = [work EXCEPT ![w].pc = "begin", ![w].plan = files[id]]
        /\ UNCHANGED lifecycle
     \/ Finish(w) /\ UNCHANGED lock
  /\ UNCHANGED <<closing, sessions, durable, latched, command, storage, host,
                 files, writes, forgotten, crashes>>

\* A mutated form of MayBegin: the limit on pending intents is off by one.
MayBeginOneMore(id) ==
  /\ id \in mem.known /\ ~Pending(id)
  /\ Cardinality({i \in Ids : Pending(i)}) <= MaxDeletions

\* begin_deletion: known, not pending, and room for one more intent
MayBegin(id) ==
  /\ id \in mem.known /\ ~Pending(id)
  /\ Cardinality({i \in Ids : Pending(i)}) < MaxDeletions

\* A mutated form of BeginDeletion: files are removed though it was not saved.
BeginDeletionUnsaved(w) ==
  LET id == work[w].id IN
  /\ At(w, "begin") /\ Goto(w, "verify")
  /\ \/ Saved(WithPlan(id, work[w].plan)) \/ SaveFailed(WithPlan(id, work[w].plan))
  /\ UNCHANGED <<lock, closing, sessions, durable, latched, command, host, files,
                 writes, forgotten, crashes>>

\* A mutated form of BeginDeletion: the native lock is kept when it fails.
BeginDeletionLeaks(w) ==
  LET id == work[w].id IN
  /\ At(w, "begin")
  /\ \/ MayBegin(id) /\ Saved(WithPlan(id, work[w].plan)) /\ Goto(w, "verify")
     \/ /\ IF MayBegin(id) THEN SaveFailed(WithPlan(id, work[w].plan))
                           ELSE UNCHANGED storage
        /\ Finish(w)
  /\ UNCHANGED <<lock, closing, sessions, durable, latched, command, host, files,
                 writes, forgotten, crashes>>

BeginDeletion(w) ==
  LET id == work[w].id IN
  /\ At(w, "begin")
  /\ \/ MayBegin(id) /\ Saved(WithPlan(id, work[w].plan))
        /\ Goto(w, "verify") /\ UNCHANGED lock
     \/ /\ IF MayBegin(id) THEN SaveFailed(WithPlan(id, work[w].plan))
                           ELSE UNCHANGED storage
        /\ Finish(w) /\ Unlock(w)
  /\ UNCHANGED <<closing, sessions, durable, latched, command, host, files,
                 writes, forgotten, crashes>>

Executing == UNCHANGED <<closing, sessions, durable, latched, command, storage,
                         host, writes, forgotten, crashes>>

\* execute: a retry takes the lock again and reads only the persisted plan
Relock(w) ==
  LET id == work[w].id IN
  /\ At(w, "relock") /\ TakeLock(w, id)
  /\ work' = [work EXCEPT ![w].pc = "verify", ![w].plan = mem.deletions[id]]
  /\ UNCHANGED <<lifecycle, files>> /\ Executing

\* A mutated form of Matches: a retry removes what it finds.
MatchesAnything(w, k) == TRUE

\* preflight: every file is as captured, or absent
Matches(w, k) == files[work[w].id][k] \in {0, work[w].plan[k]}

\* A mutated form of Verify: a missing primary is taken for a finished removal.
VerifyPrimary(w) ==
  /\ At(w, "verify")
  /\ \/ files[work[w].id][Primary] = 0 /\ Goto(w, "forget") /\ Unlock(w)
     \/ /\ \A k \in KindSet : Matches(w, k)
        /\ work' = [work EXCEPT ![w].pc = "unlink", ![w].at = 1]
        /\ UNCHANGED <<lifecycle, lock>>
  /\ UNCHANGED files /\ Executing

Verify(w) ==
  /\ At(w, "verify") /\ \A k \in KindSet : Matches(w, k)
  /\ work' = [work EXCEPT ![w].pc = "unlink", ![w].at = 1]
  /\ UNCHANGED <<lifecycle, lock, files>> /\ Executing

\* One kind of execute_locked: a captured file that is still there is checked
\* again and removed; what was not captured is left alone.
Unlink(w) ==
  LET id == work[w].id
      k  == Kinds[work[w].at] IN
  /\ At(w, "unlink") /\ work[w].at <= Len(Kinds)
  /\ IF work[w].plan[k] = 0 THEN UNCHANGED files
     ELSE Matches(w, k) /\ files' = [files EXCEPT ![id][k] = 0]
  /\ work' = [work EXCEPT ![w].at = @ + 1]
  /\ UNCHANGED <<lifecycle, lock>> /\ Executing

\* The last look of execute_locked: nothing is left.
Unlinked(w) ==
  /\ At(w, "unlink") /\ work[w].at > Len(Kinds)
  /\ files[work[w].id] = NoPlan
  /\ Goto(w, "forget") /\ Unlock(w)
  /\ UNCHANGED files /\ Executing

\* Any check or removal of the execution may fail, for I/O, a held lock or a
\* changed identity: the native lock is dropped, the intent stays.
ExecuteFails(w) ==
  /\ At(w, "relock") \/ At(w, "verify") \/ At(w, "unlink")
  /\ Finish(w) /\ Unlock(w)
  /\ UNCHANGED files /\ Executing

Forget(w) ==
  LET id == work[w].id IN
  /\ At(w, "forget")
  /\ \/ Saved(Removed(id)) /\ forgotten' = forgotten \cup {id}
     \/ SaveFailed(Removed(id)) /\ UNCHANGED forgotten
  /\ Finish(w)
  /\ UNCHANGED <<closing, sessions, durable, latched, command, native, host, crashes>>

-----------------------------------------------------------------------------
(* Commands take no lifecycle lock.                                         *)

CommandBegin(id) ==
  /\ "command" \in Ops /\ command = NoId
  /\ Admitted(id) /\ sessions[id] # NoHost
  /\ command' = id
  /\ UNCHANGED <<lifecycle, closing, work, sessions, durable, latched,
                 storage, native, host, forgotten, crashes>>

\* A mutated form of HasEntry: upsert also adds an entry that was removed.
HadEntry(id) == TRUE

\* The first prompt names its session, if the registry still has it; a save
\* that fails refuses the prompt.
HasEntry(id) == id \in mem.known
CommandTitle ==
  /\ command # NoId /\ HasEntry(command)
  /\ \/ Saved(Remembered(command)) /\ UNCHANGED command
     \/ SaveFailed(Remembered(command)) /\ command' = NoId
  /\ UNCHANGED <<lifecycle, closing, work, sessions, durable, latched,
                 native, host, forgotten, crashes>>

CommandSend ==
  /\ command # NoId
  /\ command' = NoId
  /\ UNCHANGED <<lifecycle, closing, work, sessions, durable, latched,
                 storage, native, host, forgotten, crashes>>

\* rename_session holds the lifecycle lock and never waits with it.
Rename(id) ==
  /\ "rename" \in Ops /\ LockFree /\ HasEntry(id) /\ ~Pending(id)
  /\ Saved(mem) \/ SaveFailed(mem)
  /\ UNCHANGED <<service, native, host, forgotten, crashes>>

-----------------------------------------------------------------------------
(* Crash and restart.  The new service reads the disk; its locks and tasks  *)
(* are gone, the children of the old one may not be.                        *)

\* What a worker, or a command, may have been writing when the service died.
Saving(w) ==
  CASE At(w, "configure") \/ (At(w, "publish") /\ MayPublish(w)) -> {Remembered(work[w].id)}
    [] At(w, "prefs")   -> {Preferences(w)}
    [] At(w, "begin") /\ MayBegin(work[w].id) -> {WithPlan(work[w].id, work[w].plan)}
    [] At(w, "forget")  -> {Removed(work[w].id)}
    [] OTHER            -> {}

Restart(found, left) ==
  /\ crashes < MaxCrashes /\ crashes' = crashes + 1
  /\ disk' = found /\ mem' = found /\ temp' = left
  /\ lifecycle' = Nobody /\ closing' = FALSE /\ command' = NoId
  /\ work' = [w \in Workers |-> Idle] /\ latched' = {}
  /\ sessions' = [i \in Ids |-> NoHost] /\ durable' = [i \in Ids |-> NoHost]
  /\ host' = [h \in Hosts |-> [host[h] EXCEPT !.status = "orphan"]]
  /\ lock' = [i \in Ids |-> IF lock[i] \in Workers THEN Nobody ELSE lock[i]]
  /\ UNCHANGED <<files, writes, forgotten>>

Crash == Restart(disk, temp)
CrashSaving ==
  /\ ~temp
  /\ \E new \in (UNION {Saving(w) : w \in Workers})
                 \cup {mem : x \in {command} \cap mem.known} :
       Restart(disk, TRUE) \/ Restart(new, FALSE)

\* "A crash-left temp needs deliberate owner inspection/removal."
OwnerClearsTemp ==
  /\ temp /\ temp' = FALSE
  /\ UNCHANGED <<service, mem, disk, native, host, forgotten, crashes>>

-----------------------------------------------------------------------------
WorkerStep(w) ==
  \/ OpenBegin(w) \/ OpenExit(w) \/ CreateBegin(w) \/ Configure(w) \/ ForkBegin(w)
  \/ \E h \in Hosts : Spawn(w, h)
  \/ SpawnFailed(w) \/ Attach(w) \/ StartFailed(w) \/ Publish(w) \/ PublishFailed(w)
  \/ MetadataBegin(w) \/ Close(w) \/ UpdatePreferences(w)
  \/ ShutdownBegin(w) \/ ShutdownAll(w)
  \/ DeleteBegin(w) \/ Prepare(w) \/ BeginDeletion(w) \/ Relock(w)
  \/ Verify(w) \/ Unlink(w) \/ Unlinked(w) \/ ExecuteFails(w) \/ Forget(w)

NativeStep ==
  \/ \E h \in Hosts : NativeReady(h) \/ NativeExit(h) \/ HostClosed(h)
  \/ \E h \in Hosts, k \in KindSet : NativeWrite(h, k)
  \/ \E i \in Ids : OutsideOpen(i) \/ OutsideClose(i)
  \/ \E i \in Ids, k \in KindSet : OutsideWrite(i, k)

Next ==
  \/ \E w \in Workers : WorkerStep(w)
  \/ \E w \in Workers, i \in Ids : ReapBegin(w, i) \/ \E op \in Ops : Request(w, op, i)
  \/ \E i \in Ids : CommandBegin(i) \/ Rename(i)
  \/ CommandTitle \/ CommandSend
  \/ NativeStep \/ Crash \/ CrashSaving \/ OwnerClearsTemp

Spec == Init /\ [][Next]_vars

\* Tasks run; child processes start, and end once they are told to stop (their
\* reaper owns them until then) or lose their parent; the owner clears a
\* left-over file; a client retries a pending DELETE, and no
\* step of its execution fails for ever.
Retry(w, id)   == Pending(id) /\ Request(w, "delete", id)
UnlinkAt(w, n) == work[w].at = n /\ Unlink(w)
ForgetOk(w)    == Forget(w) /\ forgotten' # forgotten
Fairness ==
  /\ \A w \in Workers :
       /\ WF_vars(WorkerStep(w))
       /\ SF_vars(Relock(w)) /\ SF_vars(Verify(w)) /\ SF_vars(Unlinked(w))
       /\ SF_vars(ForgetOk(w))
       /\ \A n \in 1..Len(Kinds) : SF_vars(UnlinkAt(w, n))
  /\ \A w \in Workers, i \in Ids : SF_vars(Retry(w, i))
  /\ \A h \in Hosts : /\ WF_vars(host[h].status # "live" /\ NativeExit(h))
                      /\ WF_vars(NativeReady(h))
  /\ WF_vars(OwnerClearsTemp)
FairSpec == Spec /\ Fairness

-----------------------------------------------------------------------------
(* Properties.                                                              *)

Deleting == {"begin", "verify", "unlink"}

\* The types, and the ownership of a native lock: a worker holds it exactly
\* from prepare_locked (or execute) to the end of the removal, on every error
\* path too; a child holds only its own session's.
TypeOK ==
  /\ lifecycle \in Workers \cup {Nobody} /\ closing \in BOOLEAN
  /\ sessions \in [Ids -> Hosts \cup {NoHost}]
  /\ durable \in [Ids -> Hosts \cup {NoHost}]
  /\ latched \subseteq Configured /\ command \in Ids \cup {NoId}
  /\ host \in [Hosts -> [id: Ids \cup {NoId}, status: {"live", "closed", "orphan"},
                         child: {"down", "starting", "up"}]]
  /\ mem \in Registry /\ disk \in Registry /\ temp \in BOOLEAN
  /\ files \in [Ids -> Fingerprints] /\ writes \in [Ids -> 0..MaxWrites]
  /\ lock \in [Ids -> Workers \cup Hosts \cup {Outsider, Nobody}]
  /\ forgotten \subseteq Ids /\ crashes \in 0..MaxCrashes
  /\ \A w \in Workers : work[w].pc \in Deleting <=>
                          \E i \in Ids : lock[i] = w /\ work[w].id = i
  /\ \A h \in Hosts, i \in Ids : lock[i] = h => host[h].child = "up" /\ host[h].id = i

\* The native children this service runs for a session (an orphan belongs to
\* a service that died).
Children(id) == {h \in Hosts : /\ host[h].id = id /\ host[h].child # "down"
                               /\ host[h].status # "orphan"}

\* "Concurrent tabs must not spawn two native writers for the same
\* transcript": at most one child of this service per session, whatever the
\* order of opens, closes, crashes of hosts and failed publications.
SingleWriter == \A id \in Ids : Cardinality(Children(id)) <= 1

\* An archived or deleting session has no native child of this service, and
\* none can be reached through the session map.
NoRetiredWriter ==
  \A id \in Ids : Pending(id) \/ id \in mem.archived =>
    Children(id) = {} /\ sessions[id] = NoHost

\* A session clients can reach is remembered, in memory and on disk: a crash
\* does not lose it.  (delete_owned's branch for a live session that is not
\* remembered is therefore never taken.)
LiveRemembered ==
  \A id \in Ids : sessions[id] # NoHost => id \in mem.known \cap disk.known

\* A durable projection that outlives its request is the one of the host
\* clients reach: every failure path detaches the candidate's.
DurableFollows ==
  \A id \in Ids : lifecycle = Nobody /\ durable[id] # NoHost => sessions[id] = durable[id]

\* When shutdown has returned no native child of this service is left and
\* none is started again.
ShutdownLeavesNone ==
  (\E w \in Workers : At(w, "down")) => \A id \in Ids : Children(id) = {}

\* "Persist before the first unlink": the service removes a file only while
\* the registry on disk holds an intent that captured exactly this file.
IntentFirst ==
  [][\A id \in Ids, k \in KindSet :
       files[id][k] # 0 /\ files'[id][k] = 0 => disk.deletions[id][k] = files[id][k]]_vars

\* "... and retain until all exact files are gone": an intent disappears,
\* also by a crash, only when none of the files it captured is left.
RetainedUntilGone ==
  [][\A id \in Ids : Pending(id) /\ ~Pending(id)' =>
       \A k \in KindSet : files[id][k] = 0 \/ files[id][k] # mem.deletions[id][k]]_vars

\* A session whose DELETE answered success is never remembered again: not by
\* a command that was under way, not by a restart.
DeletionFinal ==
  \A id \in forgotten : id \notin mem.known \cup disk.known

\* Registry::load accepts every file the service can leave behind: intents
\* refer to remembered sessions and there are not too many of them.
LoadAccepts ==
  LET pending == {i \in Ids : disk.deletions[i] # NoPlan} IN
  /\ pending \subseteq disk.known
  /\ Cardinality(pending) <= MaxDeletions

\* A deletion that is begun ends, if it is retried: after a failed removal, a
\* failed save or a restart the same manifest still leads to the end, unless
\* somebody changed a captured file or opens the session again and again.
Changed(id) == \E k \in KindSet : files[id][k] \notin {0, mem.deletions[id][k]}
DeletionEnds ==
  \A id \in Ids : <>[](lock[id] # Outsider) =>
    (Pending(id) ~> (~Pending(id) \/ Changed(id)))

\* The service implements the promise of SessionRetention: the phase of a
\* session as the registry in memory has it, its files, and those a pending
\* deletion captured and that are still as captured.
Phase(id) == CASE Pending(id) -> "deleting"
               [] ~Pending(id) /\ id \in mem.archived -> "archived"
               [] Admitted(id) /\ id \in mem.known -> "kept"
               [] OTHER -> "absent"
Promise == INSTANCE SessionRetention WITH
  Files   <- KindSet,
  phase   <- [id \in Ids |-> Phase(id)],
  present <- [id \in Ids |-> {k \in KindSet : files[id][k] # 0}],
  owed    <- [id \in Ids |-> {k \in KindSet : files[id][k] # 0
                                /\ files[id][k] = mem.deletions[id][k]}]
KeepsPromise == Promise!Spec
=============================================================================
