------------------------------ MODULE HostAdmission ------------------------------
(***************************************************************************)
(* One native session as rpi-extcore hosts it: the callers that submit     *)
(* commands (host.rs notify, send_timeout, begin_operation), the bounded   *)
(* command channel and its writer task (write_commands), the reader task   *)
(* that observes native frames, the execution admission of                 *)
(* host/admission.rs, and the idle retirement of shutdown_if_idle.         *)
(* The native agent at the other end of the two pipes is not part of the   *)
(* repository; its actions say what the host code expects of it.           *)
(*                                                                         *)
(* Each command identity is submitted at most once: request ids and        *)
(* tickets are fresh uuids in the code.                                    *)
(***************************************************************************)
EXTENDS Naturals, Sequences, FiniteSets

CONSTANTS
    Prompt,        \* execution commands the native answers, starts and settles
    Compact,       \* compactions: answered and settled, never started
    Steer,         \* awaited commands that only extend the native queue
    StateProbe,    \* get_state and get_history requests of shutdown_if_idle
    HistoryProbe,
    Spont,         \* runs the native begins by itself
    NoCmd,         \* no command, no run
    Retirer,       \* the owner of the run lease during a retirement
    QueueCap,      \* capacity of the command channel
    Workloads      \* sets of the commands and native-begun runs still to come
                   \* in one behaviour; those not in it are over and done with

Exec == Prompt \cup Compact
Probe == StateProbe \cup HistoryProbe
Cmd == Exec \cup Steer \cup Probe
Run == Exec \cup Spont

ASSUME ConstantsAssumption ==
    /\ Prompt \cap Compact = {} /\ Exec \cap (Steer \cup Probe) = {}
    /\ Steer \cap Probe = {} /\ StateProbe \cap HistoryProbe = {}
    /\ Spont \cap Cmd = {}
    /\ NoCmd \notin Cmd \cup Spont /\ Retirer \notin Cmd \cup {NoCmd}
    /\ QueueCap \in Nat \ {0}
    /\ Workloads \subseteq SUBSET (Cmd \cup Spont)

VARIABLES
    caller,     \* where the task that submits each command stands
    mode,       \* whether it awaits the reply ("send") or not ("notify")
    answer,     \* the reply left in its oneshot channel
    lease,      \* holder of run_gate
    pending,    \* requests registered for correlation
    queue,      \* the command channel
    hand,       \* the outbound the writer task holds
    handStep,   \* "publish": its ticket is still to be published; "write"
    writerUp,   \* the writer task runs, so the channel has a receiver
    intent,     \* ExecutionAdmission.current
    nativeUnsettled,
    nativeRun,
    inbox,      \* lines written to the native's stdin
    active,     \* the run the native executes
    responded,  \* the native answered the command of the active run
    started,    \* the native announced the active run
    steering,   \* the native's queue of steering messages
    begun,      \* the runs the native began by itself
    alive,      \* the native process runs
    out,        \* frames in the native's stdout
    reading,    \* the frame the reader observed and has not yet projected
    readerUp,
    status,     \* HostState.status
    closed,     \* closed_signal
    retire,     \* where shutdown_if_idle stands
    probing     \* the probe it awaits

callerVars == <<caller, mode, answer, lease>>
writerVars == <<queue, hand, handStep, writerUp>>
admissionVars == <<intent, nativeUnsettled, nativeRun>>
nativeVars == <<inbox, active, responded, started, steering, begun, alive>>
readerVars == <<reading, readerUp, status>>
retireVars == <<retire, probing>>
vars == <<callerVars, pending, writerVars, admissionVars, nativeVars, out,
          readerVars, closed, retireVars>>

CallerState == {"new", "admit", "gate", "registered", "wait", "drop", "ok", "err"}
RetireState == {"idle", "fenced", "snapshot1", "unsettled1", "state", "stateWait",
                "history", "historyWait", "snapshot2", "unsettled2", "close",
                "closing", "reaping", "fencedReaping", "retired"}

\* Frame types of the native protocol; NoFrame stands for an empty reader.
Frame == [type : {"response"}, id : Cmd, result : {"ok", "busy", "fail"}]
    \cup [type : {"agent_start", "agent_settled"}, id : Run, result : {"ok"}]
NoFrame == [type |-> "none", id |-> NoCmd, result |-> "ok"]
Response(c, r) == [type |-> "response", id |-> c, result |-> r]
Event(t, r) == [type |-> t, id |-> r, result |-> "ok"]

NoIntent == [cmd |-> NoCmd, published |-> FALSE, accepted |-> FALSE, run |-> NoCmd]
Intent == [cmd : Exec \cup {NoCmd}, published : BOOLEAN, accepted : BOOLEAN,
           run : Run \cup {NoCmd}]

FlagsOK ==
    /\ writerUp \in BOOLEAN /\ readerUp \in BOOLEAN /\ closed \in BOOLEAN
    /\ nativeUnsettled \in BOOLEAN
    /\ responded \in BOOLEAN /\ started \in BOOLEAN /\ alive \in BOOLEAN

CallersOK ==
    /\ caller \in [Cmd -> CallerState]
    /\ mode \in [Cmd -> {"send", "notify"}]
    /\ answer \in [Cmd -> {"none", "ok", "busy", "fail"}]
    /\ lease \in Exec \cup {NoCmd, Retirer}
    /\ pending \in SUBSET Cmd

PipesOK ==
    /\ queue \in Seq(Cmd) /\ Len(queue) <= QueueCap
    /\ hand \in Cmd \cup {NoCmd} /\ handStep \in {"publish", "write"}
    /\ inbox \in Seq(Cmd)
    /\ out \in Seq(Frame)
    /\ reading \in Frame \cup {NoFrame}

AdmissionOK ==
    /\ intent \in Intent
    /\ nativeRun \in Run \cup {NoCmd}
    /\ active \in Run \cup {NoCmd}
    /\ steering \in SUBSET Steer
    /\ begun \in SUBSET Spont
    /\ status \in {"ready", "running", "closed"}
    /\ retire \in RetireState
    /\ probing \in Probe \cup {NoCmd}

(* Every variable has its type, and the command channel keeps its capacity. *)
TypeOK == FlagsOK /\ CallersOK /\ PipesOK /\ AdmissionOK

Init ==
    /\ \E w \in Workloads : /\ caller = [c \in Cmd |-> IF c \in w THEN "new" ELSE "err"]
                           /\ begun = Spont \ w
    /\ mode = [c \in Cmd |-> "send"]
    /\ answer = [c \in Cmd |-> "none"]
    /\ lease = NoCmd
    /\ pending = {}
    /\ queue = <<>> /\ hand = NoCmd /\ handStep = "write" /\ writerUp = TRUE
    /\ intent = NoIntent /\ nativeUnsettled = FALSE /\ nativeRun = NoCmd
    /\ inbox = <<>> /\ active = NoCmd /\ responded = FALSE /\ started = FALSE
    /\ steering = {} /\ alive = TRUE
    /\ out = <<>>
    /\ reading = NoFrame /\ readerUp = TRUE /\ status = "ready"
    /\ closed = FALSE
    /\ retire = "idle" /\ probing = NoCmd

-----------------------------------------------------------------------------
(* Execution admission (host/admission.rs).                                *)

\* Mutated form: only what the native announced counts.
UnsettledNativeOnly == nativeUnsettled
Unsettled == intent # NoIntent \/ nativeUnsettled

\* Mutated form: a published intent is rolled back too.
RollbackPublished(cmds) == IF intent.cmd \in cmds THEN NoIntent ELSE intent
\* Drop of an ExecutionTicket of command c, or of every ticket in a set of commands.
Rollback(cmds) ==
    IF intent.cmd \in cmds /\ ~intent.published THEN NoIntent ELSE intent

MatchesRun(expected, run) == expected = NoCmd \/ expected = run

\* A correlated response: the rejection of an unaccepted intent, or its acceptance.
Answers(f, result) == f.type = "response" /\ f.id = intent.cmd /\ f.result = result
\* Mutated form: a rejection only settles what was not yet written.
RejectsUnpublished(f) == Answers(f, "fail") /\ ~intent.accepted /\ ~intent.published
Rejects(f) == Answers(f, "fail") /\ ~intent.accepted

\* agent_start names the run of a published intent.
\* Mutated form: only the first run seen is remembered.
StartedIntentOnce(f) ==
    IF intent.published /\ intent.run = NoCmd THEN [intent EXCEPT !.run = f.id] ELSE intent
StartedIntent(f) ==
    IF intent.published THEN [intent EXCEPT !.run = f.id] ELSE intent

\* agent_settled of the run the accepted intent is waiting for.
\* Mutated form: acceptance is not required.
SettlesUnaccepted(f) == f.type = "agent_settled" /\ MatchesRun(intent.run, f.id)
Settles(f) == f.type = "agent_settled" /\ intent.accepted /\ MatchesRun(intent.run, f.id)

\* ExecutionAdmission::observe, under the admission mutex.
Observe(f) ==
    /\ intent' = IF Rejects(f) \/ Settles(f) THEN NoIntent
                 ELSE IF Answers(f, "ok") THEN [intent EXCEPT !.accepted = TRUE]
                 ELSE IF f.type = "agent_start" THEN StartedIntent(f) ELSE intent
    /\ IF f.type = "agent_settled" /\ MatchesRun(nativeRun, f.id)
       THEN nativeUnsettled' = FALSE /\ nativeRun' = NoCmd
       ELSE /\ nativeUnsettled' = (nativeUnsettled \/ Answers(f, "ok") \/ f.type = "agent_start")
            /\ nativeRun' = IF Answers(f, "ok") THEN intent.run
                            ELSE IF f.type = "agent_start" THEN f.id ELSE nativeRun

-----------------------------------------------------------------------------
(* Callers.                                                                *)

\* Tasks that hold admission_gate for reading; the retirement holds it for writing.
\* Mutated form: the gate is only held while a reply is awaited.
ReadersWaiting == {c \in Cmd \ Probe : caller[c] \in {"wait", "drop"}}
Readers == {c \in Cmd \ Probe : caller[c] \in {"gate", "registered", "wait", "drop"}}
Fenced == retire \notin {"idle", "reaping", "retired"}

\* begin_operation: the run lease is taken without waiting, before notify.
BeginOperation(c) ==
    /\ c \in Exec /\ caller[c] = "new"
    /\ IF lease = NoCmd
       THEN lease' = c /\ caller' = [caller EXCEPT ![c] = "admit"]
       ELSE lease' = lease /\ caller' = [caller EXCEPT ![c] = "err"]
    /\ mode' = [mode EXCEPT ![c] = "notify"]
    /\ UNCHANGED <<answer, pending, writerVars, admissionVars, nativeVars, out, readerVars, closed, retireVars>>

\* A caller enters send_timeout.
Submit(c) ==
    /\ c \in Cmd \ Probe /\ caller[c] = "new"
    /\ caller' = [caller EXCEPT ![c] = "admit"]
    /\ mode' = [mode EXCEPT ![c] = "send"]
    /\ UNCHANGED <<answer, lease, pending, writerVars, admissionVars, nativeVars, out, readerVars, closed, retireVars>>

\* The lease goes with the guard of begin_operation when notify fails.
LeaseAfterError(c) == IF lease = c THEN NoCmd ELSE lease

\* admission_gate.read().await, then ensure_running.
Admit(c) ==
    /\ caller[c] = "admit" /\ ~Fenced
    /\ caller' = [caller EXCEPT ![c] = IF closed THEN "err" ELSE "gate"]
    /\ lease' = IF closed THEN LeaseAfterError(c) ELSE lease
    /\ UNCHANGED <<mode, answer, pending, writerVars, admissionVars, nativeVars, out, readerVars, closed, retireVars>>

\* ExecutionTicket::register, then insertion into the correlation map.
Register(c) ==
    /\ caller[c] = "gate"
    /\ IF c \in Exec /\ Unsettled
       THEN /\ caller' = [caller EXCEPT ![c] = "err"]
            /\ lease' = LeaseAfterError(c)
            /\ UNCHANGED <<intent, pending>>
       ELSE /\ caller' = [caller EXCEPT ![c] = "registered"]
            /\ intent' = IF c \in Exec THEN [NoIntent EXCEPT !.cmd = c] ELSE intent
            /\ pending' = IF mode[c] = "send" THEN pending \cup {c} ELSE pending
            /\ UNCHANGED lease
    /\ UNCHANGED <<mode, answer, writerVars, nativeUnsettled, nativeRun, nativeVars, out, readerVars, closed, retireVars>>

\* Room in the command channel. Mutated forms: off by one, either way.
RoomForOneMore == Len(queue) <= QueueCap
Room == Len(queue) < QueueCap

\* commands.send(..).await: waits for room, fails when the receiver is gone.
\* A notify keeps its intent alive through the queued ticket and returns.
Enqueue(c) ==
    /\ caller[c] = "registered"
    /\ writerUp => Room
    /\ IF writerUp
       THEN /\ queue' = Append(queue, c)
            /\ caller' = [caller EXCEPT ![c] = IF mode[c] = "send" THEN "wait" ELSE "ok"]
            /\ UNCHANGED pending
       ELSE /\ caller' = [caller EXCEPT ![c] = "drop"]
            /\ pending' = pending \ {c}
            /\ UNCHANGED queue
    /\ UNCHANGED <<mode, answer, lease, hand, handStep, writerUp, admissionVars, nativeVars, out, readerVars, closed, retireVars>>

\* The oneshot reply is received before the timeout, and the ticket dropped.
Receive(c) ==
    /\ caller[c] = "wait" /\ answer[c] # "none"
    /\ caller' = [caller EXCEPT ![c] = "ok"]
    /\ intent' = Rollback({c})
    /\ UNCHANGED <<mode, answer, lease, pending, writerVars, nativeUnsettled, nativeRun, nativeVars, out, readerVars, closed, retireVars>>

\* The response times out, the host closes (the biased select of
\* send_unadmitted), or the caller's own task is cancelled: the PendingRequest
\* guard removes the correlation entry.
GiveUp(c) ==
    /\ caller[c] \in {"admit", "gate", "registered", "wait"}
    /\ caller' = [caller EXCEPT ![c] = IF caller[c] = "admit" THEN "err" ELSE "drop"]
    /\ lease' = IF caller[c] = "admit" THEN LeaseAfterError(c) ELSE lease
    /\ pending' = pending \ {c}
    /\ UNCHANGED <<mode, answer, writerVars, admissionVars, nativeVars, out, readerVars, closed, retireVars>>

\* ... and then the caller's ticket is dropped, and with it the gate and the lease.
DropTicket(c) ==
    /\ caller[c] = "drop"
    /\ caller' = [caller EXCEPT ![c] = "err"]
    /\ intent' = Rollback({c})
    /\ lease' = LeaseAfterError(c)
    /\ UNCHANGED <<mode, answer, pending, writerVars, nativeUnsettled, nativeRun, nativeVars, out, readerVars, closed, retireVars>>

\* A PromptRun is dropped, after its outcome or because its adapter went away.
ReleaseLease(c) ==
    /\ lease = c /\ caller[c] = "ok"
    /\ lease' = NoCmd
    /\ UNCHANGED <<caller, mode, answer, pending, writerVars, admissionVars, nativeVars, out, readerVars, closed, retireVars>>

-----------------------------------------------------------------------------
(* The writer task (write_commands).                                       *)

\* Receive one outbound; a request whose caller is gone is dropped unwritten.
WriterTake ==
    /\ writerUp /\ hand = NoCmd /\ queue # <<>>
    /\ queue' = Tail(queue)
    /\ LET c == Head(queue) IN
       IF mode[c] = "send" /\ c \notin pending
       THEN /\ intent' = Rollback({c})
            /\ UNCHANGED <<hand, handStep>>
       ELSE /\ hand' = c
            /\ handStep' = IF c \in Exec THEN "publish" ELSE "write"
            /\ UNCHANGED intent
    /\ UNCHANGED <<callerVars, pending, writerUp, nativeUnsettled, nativeRun, nativeVars, out, readerVars, closed, retireVars>>

\* CommandControl::cancelled of an execution: publish the ticket under the
\* admission mutex, or drop the outbound when its intent was rolled back.
WriterPublish ==
    /\ writerUp /\ hand # NoCmd /\ handStep = "publish"
    /\ IF intent.cmd = hand
       THEN /\ intent' = [intent EXCEPT !.published = TRUE]
            /\ handStep' = "write"
            /\ UNCHANGED hand
       ELSE /\ hand' = NoCmd
            /\ handStep' = "write"
            /\ UNCHANGED intent
    /\ UNCHANGED <<callerVars, pending, queue, writerUp, nativeUnsettled, nativeRun, nativeVars, out, readerVars, closed, retireVars>>

\* write_all and flush. On an I/O error the task ends: the receiver and every
\* queued outbound are dropped with their tickets.
WriterWrite ==
    /\ writerUp /\ hand # NoCmd /\ handStep = "write"
    /\ hand' = NoCmd
    /\ \/ /\ alive
          /\ inbox' = Append(inbox, hand)
          /\ UNCHANGED <<queue, writerUp, intent>>
       \/ /\ ~alive
          /\ queue' = <<>>
          /\ writerUp' = FALSE
          /\ intent' = Rollback({queue[i] : i \in 1 .. Len(queue)})
          /\ UNCHANGED inbox
    /\ UNCHANGED <<callerVars, pending, handStep, nativeUnsettled, nativeRun, active, responded, started, steering, begun, alive, out, readerVars, closed, retireVars>>

\* The ending reader task aborts the writer.
WriterAbort ==
    /\ writerUp /\ ~readerUp
    /\ writerUp' = FALSE /\ queue' = <<>> /\ hand' = NoCmd /\ handStep' = "write"
    /\ intent' = Rollback({queue[i] : i \in 1 .. Len(queue)} \cup {hand})
    /\ UNCHANGED <<callerVars, pending, nativeUnsettled, nativeRun, nativeVars, out, readerVars, closed, retireVars>>

-----------------------------------------------------------------------------
(* The native agent (external).                                            *)

NativeIdle == active = NoCmd /\ steering = {}

\* Accept an execution while idle.
NativeAccept ==
    /\ alive /\ inbox # <<>> /\ Head(inbox) \in Exec /\ active = NoCmd
    /\ inbox' = Tail(inbox)
    /\ active' = Head(inbox) /\ responded' = FALSE /\ started' = FALSE
    /\ UNCHANGED <<callerVars, pending, writerVars, admissionVars, steering, begun, alive, out, readerVars, closed, retireVars>>

\* Reject an execution, always when another run is active.
NativeReject ==
    /\ alive /\ inbox # <<>> /\ Head(inbox) \in Exec
    /\ inbox' = Tail(inbox)
    /\ out' = Append(out, Response(Head(inbox), "fail"))
    /\ UNCHANGED <<callerVars, pending, writerVars, admissionVars, active, responded, started, steering, begun, alive, readerVars, closed, retireVars>>

\* Answer any other command: a steer is queued, a probe reports activity.
NativeAnswer ==
    /\ alive /\ inbox # <<>> /\ Head(inbox) \notin Exec
    /\ LET c == Head(inbox) IN
       /\ inbox' = Tail(inbox)
       /\ steering' = IF c \in Steer THEN steering \cup {c} ELSE steering
       /\ out' = Append(out, Response(c, IF c \in Probe /\ ~NativeIdle THEN "busy" ELSE "ok"))
    /\ UNCHANGED <<callerVars, pending, writerVars, admissionVars, active, responded, started, begun, alive, readerVars, closed, retireVars>>

\* The acceptance and the start of a run may be announced in either order.
NativeRespond ==
    /\ alive /\ active \in Exec /\ ~responded
    /\ responded' = TRUE
    /\ out' = Append(out, Response(active, "ok"))
    /\ UNCHANGED <<callerVars, pending, writerVars, admissionVars, inbox, active, started, steering, begun, alive, readerVars, closed, retireVars>>

NativeStart ==
    /\ alive /\ active # NoCmd /\ active \notin Compact /\ ~started
    /\ started' = TRUE
    /\ out' = Append(out, Event("agent_start", active))
    /\ UNCHANGED <<callerVars, pending, writerVars, admissionVars, inbox, active, responded, steering, begun, alive, readerVars, closed, retireVars>>

\* A run ends only after it was answered and, unless a compaction, started.
NativeSettle ==
    /\ alive /\ active # NoCmd /\ responded /\ (started \/ active \in Compact)
    /\ active' = NoCmd /\ steering' = {}
    /\ out' = Append(out, Event("agent_settled", active))
    /\ UNCHANGED <<callerVars, pending, writerVars, admissionVars, inbox, responded, started, begun, alive, readerVars, closed, retireVars>>

\* The native begins a run nobody asked for (a resumed goal, a native timer).
NativeSpontaneous(r) ==
    /\ alive /\ active = NoCmd /\ r \notin begun
    /\ begun' = begun \cup {r}
    /\ active' = r /\ responded' = TRUE /\ started' = FALSE
    /\ UNCHANGED <<callerVars, pending, writerVars, admissionVars, inbox, steering, alive, out, readerVars, closed, retireVars>>

\* The process ends, by itself or because the reaper stops its tree.
NativeExit ==
    /\ alive /\ alive' = FALSE
    /\ UNCHANGED <<callerVars, pending, writerVars, admissionVars, inbox, active, responded, started, steering, begun, out, readerVars, closed, retireVars>>

-----------------------------------------------------------------------------
(* The reader task.                                                        *)

\* One line: execution.observe under its mutex.
ReaderObserve ==
    /\ readerUp /\ reading = NoFrame /\ out # <<>>
    /\ reading' = Head(out)
    /\ out' = Tail(out)
    /\ Observe(Head(out))
    /\ UNCHANGED <<callerVars, pending, writerVars, nativeVars, readerUp, status, closed, retireVars>>

\* ... then the projected status, and the reply of a correlated response.
ReaderProject ==
    /\ readerUp /\ reading # NoFrame
    /\ reading' = NoFrame
    /\ status' = CASE reading.type = "response" /\ reading.id \in Exec /\ reading.result = "ok" -> "running"
                   [] reading.type = "agent_start" -> "running"
                   [] reading.type = "agent_settled" -> "ready"
                   [] OTHER -> status
    /\ IF reading.type = "response" /\ reading.id \in pending
       THEN /\ pending' = pending \ {reading.id}
            /\ answer' = [answer EXCEPT ![reading.id] = reading.result]
       ELSE UNCHANGED <<pending, answer>>
    /\ UNCHANGED <<caller, mode, lease, writerVars, admissionVars, nativeVars, out, readerUp, closed, retireVars>>

FailPending ==
    /\ pending' = {}
    /\ answer' = [c \in Cmd |-> IF c \in pending THEN "fail" ELSE answer[c]]

\* What ends the reader's loop: the closed signal, a writer failure, end of stdout.
\* Mutated form: only the closed signal.
LoopEndsOnClose == closed
LoopEnds == closed \/ ~writerUp \/ (~alive /\ out = <<>>)

\* After the loop: finish() closes the host and fails every correlated request.
ReaderStop ==
    /\ readerUp /\ reading = NoFrame
    /\ LoopEnds
    /\ readerUp' = FALSE
    /\ closed' = TRUE
    /\ status' = "closed"
    /\ FailPending
    /\ UNCHANGED <<caller, mode, lease, writerVars, admissionVars, nativeVars, out, reading, retireVars>>

\* fail_closed: a bridge or a configuration owner found the session unusable.
FailClosed ==
    /\ ~closed /\ closed' = TRUE
    /\ FailPending
    /\ UNCHANGED <<caller, mode, lease, writerVars, admissionVars, nativeVars, out, readerVars, retireVars>>

-----------------------------------------------------------------------------
(* shutdown_if_idle. Any refusal releases the gate and the lease.          *)

RetireRefused ==
    /\ retire' = "idle"
    /\ lease' = IF lease = Retirer THEN NoCmd ELSE lease

\* try_write on the admission gate, after a look at the closed signal. An
\* attempt on a live host uses up one identity of each probe.
RetireBegin ==
    /\ retire = "idle"
    /\ \/ closed /\ retire' = "reaping"
       \/ /\ ~closed /\ Readers = {}
          /\ \E p \in StateProbe : caller[p] = "new"
          /\ \E p \in HistoryProbe : caller[p] = "new"
          /\ retire' = "fenced"
    /\ UNCHANGED <<callerVars, pending, writerVars, admissionVars, nativeVars, out, readerVars, closed, probing>>

\* Closure can race acquisition; then the run lease, without waiting.
RetireLease ==
    /\ retire = "fenced"
    /\ IF closed
       THEN retire' = "fencedReaping" /\ UNCHANGED lease
       ELSE IF lease = NoCmd THEN retire' = "snapshot1" /\ lease' = Retirer
            ELSE RetireRefused
    /\ UNCHANGED <<caller, mode, answer, pending, writerVars, admissionVars, nativeVars, out, readerVars, closed, probing>>

\* check_idle_projection reads the status, then the execution admission.
RetireSnapshot ==
    /\ retire \in {"snapshot1", "snapshot2"}
    /\ IF status = "ready"
       THEN retire' = (IF retire = "snapshot1" THEN "unsettled1" ELSE "unsettled2") /\ UNCHANGED lease
       ELSE RetireRefused
    /\ UNCHANGED <<caller, mode, answer, pending, writerVars, admissionVars, nativeVars, out, readerVars, closed, probing>>

RetireUnsettled ==
    /\ retire \in {"unsettled1", "unsettled2"}
    /\ IF ~Unsettled
       THEN retire' = (IF retire = "unsettled1" THEN "state" ELSE "close") /\ UNCHANGED lease
       ELSE RetireRefused
    /\ UNCHANGED <<caller, mode, answer, pending, writerVars, admissionVars, nativeVars, out, readerVars, closed, probing>>

\* idle_close_probe: send_unadmitted, refused by ensure_running once closed.
RetireProbe(p) ==
    /\ \/ retire = "state" /\ p \in StateProbe
       \/ retire = "history" /\ p \in HistoryProbe
    /\ caller[p] = "new"
    /\ IF closed
       THEN RetireRefused /\ UNCHANGED <<caller, probing>>
       ELSE /\ caller' = [caller EXCEPT ![p] = "gate"]
            /\ probing' = p
            /\ retire' = IF retire = "state" THEN "stateWait" ELSE "historyWait"
            /\ UNCHANGED lease
    /\ UNCHANGED <<mode, answer, pending, writerVars, admissionVars, nativeVars, out, readerVars, closed>>

\* The probe returns: only an idle report lets the retirement proceed, after
\* get_state to get_history when the native supports it.
RetireProbed ==
    /\ retire \in {"stateWait", "historyWait"}
    /\ caller[probing] \in {"ok", "err"}
    /\ probing' = NoCmd
    /\ \/ /\ caller[probing] = "ok" /\ answer[probing] = "ok"
          /\ retire' \in (IF retire = "stateWait" THEN {"history", "snapshot2"} ELSE {"snapshot2"})
          /\ UNCHANGED lease
       \/ ~(caller[probing] = "ok" /\ answer[probing] = "ok") /\ RetireRefused
    /\ UNCHANGED <<caller, mode, answer, pending, writerVars, admissionVars, nativeVars, out, readerVars, closed>>

\* The closed signal is set for good; admission and lease stay held.
RetireClose ==
    /\ retire = "close"
    /\ closed' = TRUE
    /\ retire' = "closing"
    /\ UNCHANGED <<callerVars, pending, writerVars, admissionVars, nativeVars, out, readerVars, probing>>

\* shutdown_idle_child returns once the reaper confirms the exit.
RetireDone ==
    /\ retire \in {"closing", "reaping", "fencedReaping"}
    /\ ~readerUp /\ ~alive
    /\ retire' = "retired"
    /\ lease' = IF lease = Retirer THEN NoCmd ELSE lease
    /\ UNCHANGED <<caller, mode, answer, pending, writerVars, admissionVars, nativeVars, out, readerVars, closed, probing>>

-----------------------------------------------------------------------------
\* Nothing is left to do: the host is retired and every caller has returned.
Terminated ==
    /\ retire = "retired"
    /\ \A c \in Cmd : caller[c] \in {"new", "ok", "err"}
    /\ UNCHANGED vars

CallerStep(c) ==
    \/ BeginOperation(c) \/ Submit(c) \/ Admit(c) \/ Register(c) \/ Enqueue(c)
    \/ Receive(c) \/ GiveUp(c) \/ DropTicket(c) \/ ReleaseLease(c)
WriterStep == WriterTake \/ WriterPublish \/ WriterWrite \/ WriterAbort
NativeStep ==
    \/ NativeAccept \/ NativeReject \/ NativeAnswer \/ NativeRespond
    \/ NativeStart \/ NativeSettle \/ NativeExit
    \/ \E r \in Spont : NativeSpontaneous(r)
ReaderStep == ReaderObserve \/ ReaderProject \/ ReaderStop \/ FailClosed
RetireStep ==
    \/ RetireBegin \/ RetireLease \/ RetireSnapshot \/ RetireUnsettled
    \/ RetireProbed \/ RetireClose \/ RetireDone
    \/ \E p \in Probe : RetireProbe(p)

Next ==
    \/ \E c \in Cmd : CallerStep(c)
    \/ WriterStep \/ NativeStep \/ ReaderStep \/ RetireStep \/ Terminated

Spec == Init /\ [][Next]_vars

(***************************************************************************)
(* Fairness. The tasks of the host are scheduled by tokio, the reaper      *)
(* thread stops the child once the reader ended, and a native that lives   *)
(* keeps reading, answering and settling. Timeouts, cancellations, new     *)
(* commands, new retirements and closures need not happen.                 *)
(***************************************************************************)
CallerProgress(c) == Register(c) \/ Enqueue(c) \/ Receive(c) \/ DropTicket(c)
NativeProgress ==
    NativeAccept \/ NativeReject \/ NativeAnswer \/ NativeRespond \/ NativeStart \/ NativeSettle
RetireProgress ==
    \/ RetireLease \/ RetireSnapshot \/ RetireUnsettled \/ RetireProbed \/ RetireClose \/ RetireDone
    \/ \E p \in Probe : RetireProbe(p)

Fairness ==
    /\ \A c \in Cmd : /\ SF_vars(Admit(c)) /\ WF_vars(CallerProgress(c))
                      /\ WF_vars(closed /\ GiveUp(c))
    /\ WF_vars(WriterStep)
    /\ WF_vars(ReaderObserve \/ ReaderProject \/ ReaderStop)
    /\ WF_vars(NativeProgress)
    /\ WF_vars(~readerUp /\ NativeExit)
    /\ WF_vars(RetireProgress)

FairSpec == Spec /\ Fairness

-----------------------------------------------------------------------------
(* Properties.                                                             *)

InSeq(x, s) == \E i \in 1 .. Len(s) : s[i] = x

\* The native, or the pipe to or from it, still holds execution c.
Outstanding(c) ==
    \/ hand = c /\ handStep = "write"
    \/ InSeq(c, inbox)
    \/ active = c
    \/ \E i \in 1 .. Len(out) : out[i].id = c

(* An execution that has been, or is about to be, written and whose last frame  *)
(* has not been observed is covered by a published intent of its own: a caller   *)
(* that times out or disappears can neither roll back what the writer will send  *)
(* nor let a second execution in (admission.rs register, published and Drop,     *)
(* against write_commands and observe).                                          *)
ExecutionCovered ==
    \A c \in Exec : Outstanding(c) => intent.cmd = c /\ intent.published

(* A command notify has accepted is not lost: while it waits in the channel its  *)
(* intent stands, although the caller that registered it has returned            *)
(* (retain_queued leaves the rollback to the queued ticket).                     *)
NotifiedCovered ==
    \A c \in Exec : mode[c] = "notify" /\ caller[c] = "ok"
                        /\ (InSeq(c, queue) \/ (hand = c /\ handStep = "publish"))
                    => intent.cmd = c /\ ~intent.published

(* When shutdown_if_idle closes a session, no execution and no steering message  *)
(* admitted by this host is anywhere between its caller and its settlement, and  *)
(* no caller holds the gate: retirement never cuts off accepted work.            *)
RetiredQuiet ==
    retire = "closing" =>
        /\ Readers = {} /\ steering = {}
        /\ \A c \in Exec \cup Steer :
              ~InSeq(c, queue) /\ hand # c /\ ~InSeq(c, inbox) /\ active # c
        /\ \A c \in Exec : ~Outstanding(c)

(* A published intent is cleared by the rejection or the settlement of its own   *)
(* command. Only the intent of a compaction of which nothing is left can be      *)
(* cleared by another frame, the settlement of a run the native began by itself: *)
(* admission.rs:134 bound the intent to that run.                                *)
OnlyOwnFrameSettles ==
    [][\A c \in Exec : intent.cmd = c /\ intent.published /\ intent'.cmd # c
           => \/ reading' \in {Response(c, "fail"), Event("agent_settled", c)}
              \/ /\ c \in Compact /\ ~Outstanding(c)
                 /\ \E r \in Spont : reading' = Event("agent_settled", r)]_vars

(* What README.md:435-447 of rpi-extcore promises of prompts and compactions     *)
(* alike: the observed agent_settled of an execution releases its admission.     *)
(* It does not hold of a compaction beside a run the native began by itself.     *)
SettlementReleases ==
    \A c \in Exec : reading = Event("agent_settled", c) => intent.cmd # c

(* What the code does guarantee: an accepted intent is left over by an execution *)
(* that is settled, or of which nothing is left between the writer and the       *)
(* reader, only if it is a compaction's, bound to a run that was not its own.    *)
ReleasedUnlessMisbound ==
    \A c \in Exec :
        /\ intent.cmd = c
        /\ reading = Event("agent_settled", c) \/ (intent.accepted /\ ~Outstanding(c))
        => c \in Compact /\ intent.run \in Spont

(* Admission is never held for ever on a live host: every intent is settled,     *)
(* rolled back, or its host closes.                                              *)
IntentSettles == intent.cmd # NoCmd ~> (intent.cmd = NoCmd \/ closed)

(* Every call returns: a submitted command, whatever it waits for (the gate, a  *)
(* full channel, a reply that was failed before it was registered), and a        *)
(* shutdown_if_idle that has fenced admission, refused or retired.               *)
EveryCallReturns ==
    /\ \A c \in Cmd : caller[c] # "new" ~> caller[c] \in {"ok", "err"}
    /\ retire = "fenced" ~> retire \in {"idle", "retired"}

=============================================================================
