-------------------------- MODULE ResourceTransition --------------------------
(***************************************************************************)
(* Resource transitions of one configured session: apply_resources_owned   *)
(* and what it calls in service/resources.rs, its intent ledger (the       *)
(* records of resources.rs and intent.rs, saved whole by the registry) and *)
(* the fence, retirement and exit of the host in host/resources.rs.        *)
(*                                                                         *)
(* A transition is a saga over two stores.  The ledger on disk belongs to  *)
(* the service; the binding (the revision and operation that selected the  *)
(* loaded resources) belongs to the native session file and is changed by  *)
(* the native child that a Transition startup launches.  The service saves *)
(* the intent, retires and stops the old child, launches the candidate and *)
(* saves what it verified.  Saves fail before or after their rename, exits *)
(* time out, candidates die, and the service crashes between any two steps.*)
(***************************************************************************)
EXTENDS Naturals, Sequences, FiniteSets

CONSTANTS
  Operation, NoOperation,  \* operation identities clients choose
  Target,                  \* resource selections
  Generation,              \* native children: 1..n, in the order of their start
  MaxOperations,           \* MAX_OPERATIONS: 64 in resources.rs
  MaxFaults                \* bound on failures and crashes

ASSUME TransitionConstants ==
  /\ NoOperation \notin Operation
  /\ Generation # {} /\ Generation \subseteq Nat \ {0}
  /\ MaxOperations \in Nat \ {0} /\ MaxFaults \in Nat

VARIABLES
  known, stored,  \* the session's record in the registry's memory and on disk
  resLatch,          \* resource_storage_failed holds the session
  owner,          \* the retained task that holds session_lifecycle
  live, retired,  \* the host in Service.sessions (0: none) and its retired flag
  running,        \* the live host executes a command or a run
  child,          \* what each native child is doing, and its startup request
  resHolder,         \* the child that holds the native ".lock" (0: none)
  binding,        \* the binding in the native session file
  faults,         \* .n: failures so far; .linger: a child may outlive its
                  \* service, or a stop that gave up
  resCommitted,      \* operations the native ever committed (history)
  rejected        \* validate refused a record this service built (history)

resVars == <<known, stored, resLatch, owner, live, retired, running, child,
             resHolder, binding, faults, resCommitted, rejected>>

Unbound  == [rev |-> 0, op |-> NoOperation]
NoRecord == [rev |-> 0, sel |-> "none", obs |-> Unbound, ops |-> << >>]
OpFree     == [step |-> "free", op |-> NoOperation, sel |-> "none",
             sup |-> NoOperation, gen |-> 0, reading |-> FALSE]
NoChild  == [st |-> "none", op |-> NoOperation, exp |-> 0, sel |-> "none"]
Alive(g) == g \in Generation /\ child[g].st \in {"starting", "locked", "up"}

-----------------------------------------------------------------------------
(* The ledger.                                                              *)

Waiting(op) == op.status \in {"Pending", "Blocked"}
Blocked(r)  == \E i \in DOMAIN r.ops : Waiting(r.ops[i])
Position(r, id) == {i \in DOMAIN r.ops : r.ops[i].id = id}
Existing(r, id) == Position(r, id) # {}
OpAt(r, id)   == CHOOSE i \in Position(r, id) : TRUE
LastApplied(r) == {i \in DOMAIN r.ops : /\ r.ops[i].status = "Applied"
                     /\ \A j \in DOMAIN r.ops : j > i => r.ops[j].status # "Applied"}

\* The revision the operations before the i-th leave behind.
RevisionBefore(r, i) ==
  (IF r.ops = << >> THEN 1 ELSE r.ops[1].expected)
    + Cardinality({j \in 1..(i - 1) : r.ops[j].status = "Applied"})

\* ResourceConfiguration::validate, identities and revisions: one operation
\* may wait and only the last, every identity once, revisions in a row.
LedgerChain(r) ==
  \A i \in DOMAIN r.ops :
    /\ r.ops[1].expected <= 1
    /\ r.ops[i].expected = RevisionBefore(r, i)
    /\ Cardinality(Position(r, r.ops[i].id)) = 1
    /\ Waiting(r.ops[i]) => i = Len(r.ops)

\* The native CAS chain: each operation expects what the one before left.
BindingChain(r) ==
  \A i \in DOMAIN r.ops :
    /\ i > 1 => r.ops[i].native =
                  IF r.ops[i - 1].status = "Applied" THEN r.ops[i - 1].result.rev
                                                     ELSE r.ops[i - 1].native
    /\ r.ops[i].status = "Applied" =>
         r.ops[i].result = [rev |-> r.ops[i].native + 1, op |-> r.ops[i].id]
    /\ r.ops[i].status # "Applied" => r.ops[i].result = Unbound

\* A superseded operation and its replacement name each other.
SupersedeChain(r) ==
  \A i \in DOMAIN r.ops :
    /\ r.ops[i].sup # NoOperation =>
         i > 1 /\ r.ops[i - 1].status = "Superseded"
               /\ r.ops[i - 1].id = r.ops[i].sup
    /\ r.ops[i].status = "Superseded" =>
         i < Len(r.ops) /\ r.ops[i + 1].sup = r.ops[i].id

\* The current selection and binding are those of the last applied operation.
CurrentAgrees(r) ==
  /\ r.rev = RevisionBefore(r, Len(r.ops) + 1) \/ r = NoRecord
  /\ \A i \in LastApplied(r) : r.sel = r.ops[i].sel /\ r.obs = r.ops[i].result
  /\ LastApplied(r) = {} /\ r.ops # << >> =>
       /\ r.ops[1].native = r.obs.rev
       /\ r.obs = Unbound => r.rev = 0

Validate(r) == /\ Len(r.ops) <= MaxOperations
               /\ LedgerChain(r) /\ BindingChain(r)
               /\ SupersedeChain(r) /\ CurrentAgrees(r)

\* The binding a request's transition expects of the native.
Expected(req) ==
  LET from == IF Existing(known, req.op) THEN req.op ELSE req.sup
  IN  IF from # NoOperation THEN known.ops[OpAt(known, from)].native
                            ELSE known.obs.rev

\* planned_record: the intent appended as Pending, the one it replaces marked
Planned(req) ==
  LET base == IF known = NoRecord THEN [NoRecord EXCEPT !.sel = req.sel] ELSE known
      kept == [i \in DOMAIN base.ops |->
                 IF base.ops[i].id = req.sup
                 THEN [base.ops[i] EXCEPT !.status = "Superseded"] ELSE base.ops[i]]
  IN  [base EXCEPT !.ops = Append(kept,
         [id |-> req.op, sel |-> req.sel, sup |-> req.sup, expected |-> known.rev,
          native |-> Expected(req), status |-> "Pending", result |-> Unbound])]

\* The record of a verified candidate
AppliedRecord(req) ==
  LET i == OpAt(known, req.op)
  IN  [known EXCEPT !.rev = @ + 1, !.sel = req.sel, !.obs = binding,
                    !.ops[i].status = "Applied", !.ops[i].result = binding]

BlockedRecord(req) == [known EXCEPT !.ops[OpAt(known, req.op)].status = "Blocked"]

-----------------------------------------------------------------------------
(* Saving: publish_record over Registry::set_resource_configuration.        *)

Linger == faults.linger
Fault == faults.n < MaxFaults /\ faults' = [faults EXCEPT !.n = @ + 1]

SaveOk(r) ==
  /\ Validate(r) /\ known' = r /\ stored' = r
  /\ UNCHANGED <<resLatch, rejected, faults>>

\* A failed save rolls memory back, latches the session and retires the live
\* host; the disk may hold the new record already.
SaveFails(r) ==
  /\ \/ ~Validate(r) /\ rejected' = TRUE /\ UNCHANGED <<stored, faults>>
     \/ Validate(r) /\ Fault /\ stored' \in {stored, r} /\ UNCHANGED rejected
  /\ resLatch' = TRUE /\ UNCHANGED known

-----------------------------------------------------------------------------
(* Native children (external): startup claims the lock, checks the exact    *)
(* request and commits it in the session file.                              *)

Fresh == {g \in Generation : child[g].st = "none"}
NextGeneration == CHOOSE g \in Fresh : \A f \in Fresh : g <= f
HolderWithout(g) == IF resHolder = g THEN 0 ELSE resHolder

Start(g, op, exp, sel) ==
  child' = [child EXCEPT ![g] = [st |-> "starting", op |-> op, exp |-> exp, sel |-> sel]]

NativeLocks(g) ==
  /\ child[g].st = "starting" /\ resHolder = 0 /\ ~owner.reading
  /\ resHolder' = g /\ child' = [child EXCEPT ![g].st = "locked"]
  /\ UNCHANGED <<known, stored, resLatch, owner, live, retired, running, binding,
                 faults, resCommitted, rejected>>

\* A transition commits if the binding is the expected one, is accepted again
\* if it is the one it made, and is refused otherwise.  An exact startup binds
\* an unbound session and changes nothing else.
NativeStarts(g) ==
  LET c == child[g]
      mine == binding = [rev |-> c.exp + 1, op |-> c.op]
      ok == c.op = NoOperation \/ binding.rev = c.exp \/ mine
  IN /\ c.st = "locked"
     /\ child' = [child EXCEPT ![g].st = IF ok THEN "up" ELSE "gone"]
     /\ resHolder' = IF ok THEN resHolder ELSE 0
     /\ binding' = CASE c.op # NoOperation /\ ok -> [rev |-> c.exp + 1, op |-> c.op]
                     [] c.op = NoOperation /\ c.sel # "none" /\ binding.rev = 0 ->
                          [rev |-> 1, op |-> NoOperation]
                     [] OTHER -> binding
     /\ resCommitted' = IF c.op # NoOperation /\ ok THEN resCommitted \cup {c.op} ELSE resCommitted
     /\ UNCHANGED <<known, stored, resLatch, owner, live, retired, running, faults, rejected>>

NativeDies(g) ==
  /\ Alive(g) /\ Fault
  /\ child' = [child EXCEPT ![g].st = "gone"] /\ resHolder' = HolderWithout(g)
  /\ running' = (running /\ g # live)
  /\ UNCHANGED <<known, stored, resLatch, owner, live, retired, binding, resCommitted, rejected>>

\* A lingering child whose service is gone reads end of file and leaves.
NativeLeaves(g) ==
  /\ Alive(g) /\ g # live /\ g # owner.gen
  /\ child' = [child EXCEPT ![g].st = "gone"] /\ resHolder' = HolderWithout(g)
  /\ UNCHANGED <<known, stored, resLatch, owner, live, retired, running, binding,
                 faults, resCommitted, rejected>>

-----------------------------------------------------------------------------
(* The live host's own work, and the fence that excludes it.                *)

RunStarts ==
  /\ live # 0 /\ child[live].st = "up" /\ ~retired /\ ~running
  /\ owner.step \notin {"save", "exit"}
  /\ running' = TRUE
  /\ UNCHANGED <<known, stored, resLatch, owner, live, retired, child, resHolder,
                 binding, faults, resCommitted, rejected>>

RunSettles ==
  /\ running /\ running' = FALSE
  /\ UNCHANGED <<known, stored, resLatch, owner, live, retired, child, resHolder,
                 binding, faults, resCommitted, rejected>>

-----------------------------------------------------------------------------
(* apply_resources_owned.                                                   *)

OpClosed == live # 0 /\ child[live].st = "gone"
Superseding(req) == ~Existing(known, req.op) /\ req.sup # NoOperation

\* The record's part of the admission: an identity that is known must carry
\* the same payload and still wait; a new one expects the current revision
\* and, while an operation waits, replaces exactly that one.
Admissible(req) ==
  /\ ~resLatch /\ req.op # req.sup
  /\ IF Existing(known, req.op)
     THEN LET o == known.ops[OpAt(known, req.op)]
          IN  o.sel = req.sel /\ o.sup = req.sup /\ Waiting(o)
     ELSE /\ IF Blocked(known) THEN req.sup = known.ops[Len(known.ops)].id
                               ELSE req.sup = NoOperation
          /\ Len(known.ops) < MaxOperations

\* A new intent is planned and validated in whole before anything is stopped.
ApplyBegin(req) ==
  /\ owner.step = "free" /\ Admissible(req)
  /\ Existing(known, req.op) \/ Validate(Planned(req))
  /\ owner' = [step |-> "inspect", op |-> req.op, sel |-> req.sel,
               sup |-> req.sup, gen |-> 0, reading |-> FALSE]
  /\ UNCHANGED <<known, stored, resLatch, live, retired, running, child, resHolder,
                 binding, faults, resCommitted, rejected>>

\* Every refusal before the intent is saved: the fence is busy, the host is
\* not idle, the capability probe or the saved reader fails.
ApplyRefused ==
  /\ owner.step = "inspect"
  /\ owner' = OpFree
  /\ UNCHANGED <<known, stored, resLatch, live, retired, running, child, resHolder,
                 binding, faults, resCommitted, rejected>>

\* An idle live host proves the binding itself.
InspectLive ==
  /\ owner.step = "inspect" /\ live # 0 /\ ~retired /\ child[live].st = "up"
  /\ ~running /\ ~Superseding(owner) /\ ~Existing(known, owner.op)
  /\ owner' = IF binding.rev = Expected(owner) THEN [owner EXCEPT !.step = "save"] ELSE OpFree
  /\ UNCHANGED <<known, stored, resLatch, live, retired, running, child, resHolder,
                 binding, faults, resCommitted, rejected>>

\* Without one, a confirmed exit and a read of the saved session under the
\* native's lock, shared, kept until the intent is saved.
OriginalCommitted(req) ==
  Existing(known, req.op) /\ binding = [rev |-> Expected(req) + 1, op |-> req.op]

NativeAgrees(req) == binding.rev = Expected(req) \/ OriginalCommitted(req)

InspectOffline ==
  /\ owner.step = "inspect"
  /\ live = 0 \/ retired \/ OpClosed
       \/ (live # 0 /\ Existing(known, owner.op) /\ child[live].st = "up" /\ ~running)
  /\ LET exits == IF live = 0 THEN {} ELSE {live}
     IN /\ child' = [g \in Generation |-> IF g \in exits /\ Alive(g)
                                          THEN [child[g] EXCEPT !.st = "gone"] ELSE child[g]]
        /\ resHolder \in {0} \cup exits /\ resHolder' = 0
        /\ owner' = IF NativeAgrees(owner)
                    THEN [owner EXCEPT !.step = "save", !.reading = TRUE] ELSE OpFree
  /\ UNCHANGED <<known, stored, resLatch, live, retired, running, binding, faults,
                 resCommitted, rejected>>

\* A mutated form of SaveIntent: the intent is saved with the result, once
\* the candidate has been verified.
SaveIntentLate ==
  /\ owner.step = "save"
  /\ retired' = (live # 0)
  /\ owner' = [owner EXCEPT !.step = "exit", !.reading = FALSE]
  /\ known' = IF Existing(known, owner.op) THEN known ELSE Planned(owner)
  /\ UNCHANGED <<stored, resLatch, rejected, faults, live, running, child, resHolder, binding, resCommitted>>

\* The intent is on disk before the old host is retired for good.
SaveIntent ==
  /\ owner.step = "save"
  /\ \/ /\ \/ Existing(known, owner.op) /\ UNCHANGED <<known, stored, resLatch, rejected, faults>>
           \/ ~Existing(known, owner.op) /\ SaveOk(Planned(owner))
        /\ retired' = (live # 0)
        /\ owner' = [owner EXCEPT !.step = "exit", !.reading = FALSE]
     \/ /\ ~Existing(known, owner.op) /\ SaveFails(Planned(owner))
        /\ retired' = (live # 0) /\ owner' = OpFree
  /\ UNCHANGED <<live, running, child, resHolder, binding, resCommitted>>

\* await_resource_exit: without a confirmed exit nothing is started.
AwaitExit ==
  /\ owner.step = "exit"
  /\ \/ /\ child' = [g \in Generation |-> IF g = live /\ Alive(g)
                                          THEN [child[g] EXCEPT !.st = "gone"] ELSE child[g]]
        /\ resHolder' = HolderWithout(live) /\ live' = 0 /\ retired' = FALSE
        /\ owner' = [owner EXCEPT !.step = "spawn"] /\ UNCHANGED faults
     \/ /\ Alive(live) /\ Fault
        /\ owner' = [owner EXCEPT !.step = "failed"]
        /\ UNCHANGED <<child, resHolder, live, retired>>
  /\ UNCHANGED <<known, stored, resLatch, running, binding, resCommitted, rejected>>

\* The Transition startup of the candidate
SpawnCandidate ==
  /\ owner.step = "spawn" /\ Fresh # {}
  /\ Start(NextGeneration, owner.op, known.ops[OpAt(known, owner.op)].native, owner.sel)
  /\ owner' = [owner EXCEPT !.step = "verify", !.gen = NextGeneration]
  /\ UNCHANGED <<known, stored, resLatch, live, retired, running, resHolder, binding,
                 faults, resCommitted, rejected>>

\* candidate.shutdown drops what stop_checked answers.
ShutDown(g) ==
  \/ /\ child' = [child EXCEPT ![g].st = "gone"] /\ resHolder' = HolderWithout(g)
  \/ /\ Linger /\ Alive(g) /\ UNCHANGED <<child, resHolder>>

\* The candidate reports the target under this operation and the result is
\* saved before the host can be reached.
CandidateVerified ==
  /\ owner.step = "verify" /\ child[owner.gen].st = "up"
  /\ binding.op = owner.op
  /\ \/ /\ SaveOk(AppliedRecord(owner)) /\ live' = owner.gen /\ owner' = OpFree
        /\ UNCHANGED <<child, resHolder>>
     \/ /\ SaveFails(AppliedRecord(owner)) /\ ShutDown(owner.gen)
        /\ owner' = [owner EXCEPT !.step = "failed"] /\ UNCHANGED live
  /\ UNCHANGED <<retired, running, binding, resCommitted>>

\* The startup or the verification fails, or takes too long.
CandidateFails ==
  /\ owner.step = "verify"
  /\ \/ child[owner.gen].st = "gone" /\ UNCHANGED faults
     \/ Alive(owner.gen) /\ Fault
  /\ ShutDown(owner.gen)
  /\ owner' = [owner EXCEPT !.step = "failed"]
  /\ UNCHANGED <<known, stored, resLatch, live, retired, running, binding, resCommitted, rejected>>

\* The error is recorded on the intent as memory has it; a latched session
\* answers an error and keeps what the disk has.
RecordFailure ==
  /\ owner.step = "failed" /\ owner' = OpFree
  /\ \/ resLatch /\ UNCHANGED <<known, stored, resLatch, rejected, faults>>
     \/ ~resLatch /\ (SaveOk(BlockedRecord(owner)) \/ SaveFails(BlockedRecord(owner)))
  /\ UNCHANGED <<live, retired, running, child, resHolder, binding, resCommitted>>

-----------------------------------------------------------------------------
(* Opening a configured session, and crashes.                               *)

\* host_options: a latched or waiting session does not start.
OpenBegin ==
  /\ owner.step = "free" /\ ~resLatch /\ ~Blocked(known)
  /\ live = 0 \/ OpClosed
  /\ Fresh # {}
  /\ Start(NextGeneration, NoOperation, 0, known.sel)
  /\ live' = 0 /\ retired' = FALSE
  /\ owner' = [OpFree EXCEPT !.step = "open", !.gen = NextGeneration]
  /\ UNCHANGED <<known, stored, resLatch, running, resHolder, binding, faults,
                 resCommitted, rejected>>

\* prepare_open_observation, then publication; a session without a record is
\* published as it is.
OpenPublish ==
  LET seen == [known EXCEPT !.obs = binding]
  IN /\ owner.step = "open" /\ child[owner.gen].st = "up" /\ owner' = OpFree
     /\ \/ /\ known = NoRecord /\ UNCHANGED <<known, stored, resLatch, rejected, faults>>
           /\ live' = owner.gen /\ UNCHANGED <<child, resHolder>>
        \/ /\ known # NoRecord /\ SaveOk(seen)
           /\ live' = owner.gen /\ UNCHANGED <<child, resHolder>>
        \/ /\ known # NoRecord /\ SaveFails(seen)
           /\ ShutDown(owner.gen) /\ UNCHANGED live
     /\ UNCHANGED <<retired, running, binding, resCommitted>>

OpenFails ==
  /\ owner.step = "open"
  /\ \/ child[owner.gen].st = "gone" /\ UNCHANGED faults
     \/ Alive(owner.gen) /\ Fault
  /\ ShutDown(owner.gen) /\ owner' = OpFree
  /\ UNCHANGED <<known, stored, resLatch, live, retired, running, binding, resCommitted, rejected>>

\* The service dies and starts again from the disk.
CrashRestart ==
  /\ Fault
  /\ known' = stored /\ resLatch' = FALSE /\ owner' = OpFree
  /\ live' = 0 /\ retired' = FALSE /\ running' = FALSE
  /\ \/ /\ child' = [g \in Generation |-> IF Alive(g) THEN [child[g] EXCEPT !.st = "gone"]
                                                      ELSE child[g]]
        /\ resHolder' = 0
     \/ Linger /\ UNCHANGED <<child, resHolder>>
  /\ UNCHANGED <<stored, binding, resCommitted, rejected>>

-----------------------------------------------------------------------------
Request == [op: Operation, sel: Target, sup: Operation \cup {NoOperation}]

\* A session that was created with a selection, or a legacy one; no child yet.
Created(t) == [rev |-> 1, sel |-> t, obs |-> Unbound, ops |-> << >>]

ResInit ==
  /\ known \in {NoRecord} \cup {Created(t) : t \in Target} /\ stored = known
  /\ resLatch = FALSE /\ owner = OpFree /\ live = 0 /\ retired = FALSE /\ running = FALSE
  /\ child = [g \in Generation |-> NoChild] /\ resHolder = 0
  /\ binding = Unbound /\ faults \in [n: {0}, linger: BOOLEAN] /\ resCommitted = {} /\ rejected = FALSE

Apply == \/ \E req \in Request : ApplyBegin(req)
         \/ ApplyRefused \/ InspectLive \/ InspectOffline \/ SaveIntent
         \/ AwaitExit \/ SpawnCandidate \/ CandidateVerified \/ CandidateFails
         \/ RecordFailure
Native == \E g \in Generation : \/ NativeLocks(g) \/ NativeStarts(g)
                                \/ NativeDies(g) \/ NativeLeaves(g)
ResNext == \/ Apply \/ Native \/ RunStarts \/ RunSettles
           \/ OpenBegin \/ OpenPublish \/ OpenFails \/ CrashRestart

Retry == /\ Blocked(known)
         /\ LET o == known.ops[Len(known.ops)]
            IN  ApplyBegin([op |-> o.id, sel |-> o.sel, sup |-> o.sup])

\* Fairness: the owner's task runs on, the native starts or leaves, the client
\* repeats a waiting operation and is not refused for ever.
ResOwner == \/ InspectLive \/ SaveIntent \/ AwaitExit \/ SpawnCandidate
            \/ CandidateVerified \/ CandidateFails \/ RecordFailure
            \/ OpenPublish \/ OpenFails
ResReads(o) == owner.op = o /\ InspectOffline
ResChild == \E g \in Generation : NativeLocks(g) \/ NativeStarts(g)

ResSpec == /\ ResInit /\ [][ResNext]_resVars
           /\ WF_resVars(ResOwner) /\ WF_resVars(ResChild)
           /\ SF_resVars(Retry)
           /\ \A o \in Operation : SF_resVars(ResReads(o))

-----------------------------------------------------------------------------
\* Whatever the native has committed was an intent on disk before: an
\* operation that loaded its resources can be found and recovered after any
\* crash or failed save.
WriteAhead ==
  /\ \A o \in resCommitted : Existing(stored, o)
  /\ binding.op # NoOperation => binding.op \in resCommitted

\* The ledger on disk never runs ahead of the native: the binding of its last
\* applied operation is the native's own, unless a later intent is waiting: then
\* it may be that one's or, with children that linger, one it superseded.
AppliedIsBound ==
  \A i \in LastApplied(stored) :
    \/ binding = stored.ops[i].result
    \/ /\ Blocked(stored)
       /\ \E j \in (i + 1) .. Len(stored.ops) :
             binding.op = stored.ops[j].id /\ (Linger \/ j = Len(stored.ops))

\* An operation that was superseded after the noncommit proof never commits,
\* as long as no candidate survives the service or its own shutdown: the proof
\* excludes a child that holds the lock, not one that has yet to claim it.
SupersededUncommitted ==
  ~Linger => \A i \in DOMAIN stored.ops :
    stored.ops[i].status = "Superseded" => stored.ops[i].id \notin resCommitted

\* No record the service builds is refused by its own validation, which would
\* latch the session for good.
NeverRejected == ~rejected

\* A candidate is never started before the exit of the host it replaces is
\* established, and without lingering children there is only one at a time.
OneChild ==
  /\ Alive(live) /\ Alive(owner.gen) => live = owner.gen
  /\ ~Linger => \A g, k \in Generation : Alive(g) /\ Alive(k) => g = k

\* A waiting operation ends: repeated, it is applied or gives way to its
\* replacement, unless the storage is latched.
WaitingOwed == ~Linger /\ Blocked(stored)
WaitingMet == ~Blocked(stored) \/ resLatch
\* No command or run is executing on a host that has been retired or fenced.
RetiredIdle == running => ~retired /\ owner.step \notin {"save", "exit", "spawn"}
===============================================================================
