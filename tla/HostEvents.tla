------------------------------- MODULE HostEvents -------------------------------
(***************************************************************************)
(* The projected event feed of a hosted session: publish in host.rs numbers *)
(* an event, derives the session's status from it, keeps it in a bounded   *)
(* history and broadcasts it; events.rs lets a client replay the history   *)
(* and follow the broadcast; service.rs and tool_program_snapshot.rs give  *)
(* it a snapshot to start from. Two tasks publish: the reader of the       *)
(* native's frames, and the finalizer of finish, which publishes           *)
(* host_closed. A session that closed may be opened again on a new host,   *)
(* whose numbers start over.                                               *)
(*                                                                         *)
(* Events are their sequence numbers. What an event says is kept only as   *)
(* far as the status depends on it.                                        *)
(***************************************************************************)
EXTENDS Naturals, Sequences

CONSTANTS
    Client,        \* followers of the session, each a web page
    Dialog,        \* identities of UI dialogs the native asks for
    HistoryLimit,  \* events the history retains (512 in host.rs)
    LiveCap,       \* events the broadcast channel retains (512)
    Hosts,         \* bound: hosts the session is opened on, one after another
    MaxEvents,     \* bound: events the reader publishes on each
    Bridged        \* an external tool or file I/O bridge may fail the host closed

ASSUME EventsAssumption ==
    /\ HistoryLimit \in Nat \ {0} /\ LiveCap \in Nat \ {0}
    /\ Hosts \in Nat \ {0} /\ MaxEvents \in Nat
    /\ Bridged \in BOOLEAN

Host == 1 .. Hosts
Publisher == {"reader", "finisher"}

VARIABLES
    host,       \* the host in Service.sessions
    seq,        \* the sequence counter of each host
    lastSeq,    \* HostState.last_seq
    history,    \* the retained events, oldest first
    sent,       \* everything broadcast, of which the channel retains LiveCap
    status,     \* HostState.status of the current host
    dialogs,    \* HostState.pending_dialogs of the current host
    pub,        \* the publication each task is at
    reader,     \* "loop", "publishing", "ended" (awaits finish) or "off"
    finishing,  \* "no", "wanted", "publishing" or "done" (the closed flag)
    ending,     \* terminate: "no", "aborting" or "joined"
    at,         \* what each client is doing
    on,         \* the host it holds
    base,       \* the host and the sequence number its snapshot stands for
    got,        \* the events it was given since, as <<host, number>>
    cursor,     \* the number of the last of them
    pos,        \* how far its receiver read the broadcast
    retained    \* the copy of the history its subscription took

hostVars == <<host, seq, lastSeq, history, sent, status, dialogs>>
taskVars == <<pub, reader, finishing, ending>>
clientVars == <<at, on, base, got, cursor, pos, retained>>
vars == <<hostVars, taskVars, clientVars>>

\* What the status depends on; "message" is any other event.
Kind == [type : {"agent_start", "agent_settled", "message", "host_error",
                 "writer_failed"}]
    \cup [type : {"ui_dialog_request", "ui_dialog_closed"}, dialog : Dialog]
Closed == [type |-> "host_closed"]
Idle == [step |-> "idle", seq |-> 0, event |-> Closed]

HostOK ==
    /\ host \in Host
    /\ seq \in [Host -> Nat] /\ lastSeq \in [Host -> Nat]
    /\ history \in [Host -> Seq(Nat)] /\ sent \in [Host -> Seq(Nat)]
    /\ \A h \in Host : Len(history[h]) <= HistoryLimit
    /\ status \in {"ready", "running", "awaiting_input", "closed"}
    /\ dialogs \in SUBSET Dialog
    /\ pub \in [Publisher -> [step : {"idle", "state", "history", "send"},
                              seq : Nat, event : Kind \cup {Closed}]]
    /\ reader \in {"loop", "publishing", "ended", "off"}
    /\ finishing \in {"no", "wanted", "publishing", "done"}
    /\ ending \in {"no", "aborting", "joined"}

ClientOK ==
    /\ at \in [Client -> {"out", "snapshot", "child", "loaded", "attach",
                          "history", "live"}]
    /\ on \in [Client -> Host] /\ base \in [Client -> Host \X Nat]
    /\ got \in [Client -> Seq(Host \X Nat)]
    /\ cursor \in [Client -> Nat] /\ pos \in [Client -> Nat]
    /\ retained \in [Client -> Seq(Nat)]

(* Every variable has its type, and the history never outgrows its limit. *)
TypeOK == HostOK /\ ClientOK

Init ==
    /\ host = 1
    /\ seq = [h \in Host |-> 0] /\ lastSeq = [h \in Host |-> 0]
    /\ history = [h \in Host |-> <<>>] /\ sent = [h \in Host |-> <<>>]
    /\ status = "ready" /\ dialogs = {}
    /\ pub = [p \in Publisher |-> Idle]
    /\ reader = "loop" /\ finishing = "no" /\ ending = "no"
    /\ at = [c \in Client |-> "out"] /\ on = [c \in Client |-> 1]
    /\ base = [c \in Client |-> <<1, 0>>]
    /\ got = [c \in Client |-> <<>>] /\ cursor = [c \in Client |-> 0]
    /\ pos = [c \in Client |-> 0] /\ retained = [c \in Client |-> <<>>]

-----------------------------------------------------------------------------
(* Publication (publish in host.rs).                                       *)

First(s) == IF s = <<>> THEN 0 ELSE s[1]
Back(s) == IF s = <<>> THEN 0 ELSE s[Len(s)]

\* The counter is incremented before any lock is taken.
Number(p, event) ==
    /\ seq' = [seq EXCEPT ![host] = @ + 1]
    /\ pub' = [pub EXCEPT ![p] = [step |-> "state", seq |-> seq[host] + 1,
                                  event |-> event]]

DialogsAfter(event) ==
    IF event.type = "ui_dialog_request" THEN dialogs \cup {event.dialog}
    ELSE IF event.type = "ui_dialog_closed" THEN dialogs \ {event.dialog}
    ELSE IF event.type \in {"agent_settled", "host_closed"} THEN {}
    ELSE dialogs

\* A dialog that closes leaves the status as it was.
StatusAfterDialog(event) ==
    IF event.type = "agent_start" THEN "running"
    ELSE IF event.type = "ui_dialog_request" THEN "awaiting_input"
    ELSE IF event.type = "agent_settled" THEN "ready"
    ELSE IF event.type = "host_closed" THEN "closed"
    ELSE status

StatusAfter(event) ==
    IF event.type = "agent_start" THEN "running"
    ELSE IF event.type = "ui_dialog_request" THEN "awaiting_input"
    ELSE IF event.type = "agent_settled" THEN "ready"
    ELSE IF event.type = "host_closed" THEN "closed"
    ELSE IF /\ event.type = "ui_dialog_closed"
            /\ status = "awaiting_input" /\ dialogs \subseteq {event.dialog}
         THEN "running"
    ELSE status

Step(p, from, to) ==
    /\ pub[p].step = from
    /\ pub' = [pub EXCEPT ![p].step = to]

\* Under the write lock of HostState.
PublishState(p) ==
    /\ Step(p, "state", "history")
    /\ lastSeq' = [lastSeq EXCEPT ![host] = pub[p].seq]
    /\ status' = StatusAfter(pub[p].event)
    /\ dialogs' = DialogsAfter(pub[p].event)
    /\ UNCHANGED <<host, seq, history, sent, reader, finishing, ending, clientVars>>

EvictedLate(h) == Len(h) > HistoryLimit
Evicted(h) == Len(h) >= HistoryLimit

\* Under the history lock.
PublishHistory(p) ==
    /\ Step(p, "history", "send")
    /\ LET kept == IF Evicted(history[host]) THEN Tail(history[host])
                   ELSE history[host]
       IN history' = [history EXCEPT ![host] = Append(kept, pub[p].seq)]
    /\ UNCHANGED <<host, seq, lastSeq, sent, status, dialogs, reader, finishing,
                   ending, clientVars>>

Sent(p) ==
    /\ pub[p].step = "send"
    /\ sent' = [sent EXCEPT ![host] = Append(@, pub[p].seq)]
    /\ pub' = [pub EXCEPT ![p] = Idle]
    /\ UNCHANGED <<host, seq, lastSeq, history, status, dialogs, ending, clientVars>>

-----------------------------------------------------------------------------
(* The reader task and the finalizer.                                      *)

Want == IF finishing = "no" THEN "wanted" ELSE finishing

\* The select of the reader loop has no preference: a frame is taken even when
\* the closed signal is up.
ReaderTake(event) ==
    /\ reader = "loop" /\ seq[host] < MaxEvents
    /\ Number("reader", event)
    /\ reader' = "publishing"
    /\ UNCHANGED <<host, lastSeq, history, sent, status, dialogs, finishing,
                   ending, clientVars>>

ReaderSent ==
    /\ Sent("reader")
    /\ IF pub["reader"].event.type = "writer_failed"
       THEN reader' = "ended" /\ finishing' = Want
       ELSE reader' = "loop" /\ UNCHANGED finishing

\* End of the native's output, the closed signal, or a frame no bridge accepts.
ReaderBreak ==
    /\ reader = "loop"
    /\ reader' = "ended" /\ finishing' = Want
    /\ UNCHANGED <<hostVars, pub, ending, clientVars>>

ReaderExit ==
    /\ reader = "ended" /\ finishing = "done"
    /\ reader' = "off"
    /\ UNCHANGED <<hostVars, pub, finishing, ending, clientVars>>

\* fail_closed, from a bridge task: finish is spawned beside the reader.
FailClosed ==
    /\ Bridged /\ finishing = "no"
    /\ finishing' = "wanted"
    /\ UNCHANGED <<hostVars, pub, reader, ending, clientVars>>

\* The closed flag is set before host_closed is published.
FinishFlagFirst ==
    /\ finishing = "wanted"
    /\ finishing' = "done"
    /\ Number("finisher", Closed)
    /\ UNCHANGED <<host, lastSeq, history, sent, status, dialogs, reader, ending,
                   clientVars>>

\* The closed flag's lock lets one call of finish publish, and is held until it has.
FinishBegin ==
    /\ finishing = "wanted"
    /\ finishing' = "publishing"
    /\ Number("finisher", Closed)
    /\ UNCHANGED <<host, lastSeq, history, sent, status, dialogs, reader, ending,
                   clientVars>>

FinishSent == Sent("finisher") /\ finishing' = "done" /\ UNCHANGED reader

Terminate ==
    /\ ending = "no"
    /\ ending' = "aborting"
    /\ UNCHANGED <<hostVars, pub, reader, finishing, clientVars>>

\* An aborted task stops at an await: between frames, on one of the two locks of
\* publish, or while it awaits finish. The broadcast is not an await.
AbortPoint == reader # "off" /\ pub["reader"].step # "send"

ReaderAborted ==
    /\ ending = "aborting"
    /\ AbortPoint
    /\ reader' = "off"
    /\ pub' = [pub EXCEPT !["reader"] = Idle]
    /\ UNCHANGED <<hostVars, finishing, ending, clientVars>>

\* The aborted reader is trusted to have published host_closed.
TerminateOnly ==
    /\ ending = "aborting" /\ reader = "off"
    /\ ending' = "joined"
    /\ UNCHANGED <<hostVars, pub, reader, finishing, clientVars>>

TerminateFinish ==
    /\ ending = "aborting" /\ reader = "off"
    /\ ending' = "joined" /\ finishing' = Want
    /\ UNCHANGED <<hostVars, pub, reader, clientVars>>

Stopped == reader = "off" /\ finishing = "done"

\* open_session drops a host whose status is closed, once its task has ended.
Reopen ==
    /\ host < Hosts
    /\ status = "closed" /\ Stopped
    /\ host' = host + 1
    /\ status' = "ready" /\ dialogs' = {}
    /\ reader' = "loop" /\ finishing' = "no" /\ ending' = "no"
    /\ UNCHANGED <<seq, lastSeq, history, sent, pub, clientVars>>

-----------------------------------------------------------------------------
(* Snapshots: the ordinary one (snapshot_with_options) takes its boundary  *)
(* from HostState, the child snapshot from the history.                    *)
(* A snapshot is the number its events follow. The messages it also holds   *)
(* are asked of the native after that number is taken: they cover at least  *)
(* the events up to it, and may show some of those that are delivered again *)
(* past it, which only a client that knows messages by their ids can tell.  *)

\* The events of s past n, in their order: past[i] filters the first i of them.
After(s, n) ==
    LET past[i \in 0 .. Len(s)] ==
            IF i = 0 THEN <<>>
            ELSE IF s[i] > n THEN Append(past[i - 1], s[i]) ELSE past[i - 1]
    IN  past[Len(s)]

ReplayGap(after, first, latest) ==
    after > latest \/ (first # 0 /\ after + 1 < first)

Contiguous(s, n) == \A i \in 1 .. Len(s) : s[i] = n + i

HistoryBoundaryOfState(h) == Back(history[h]) = lastSeq[h]

\* history_boundary: no boundary while a publication is in flight.
HistoryBoundary(h) == Back(history[h]) = seq[h]

SnapshotBoundary(c) ==
    /\ at[c] = "out"
    /\ at' = [at EXCEPT ![c] = "snapshot"]
    /\ on' = [on EXCEPT ![c] = host]
    /\ base' = [base EXCEPT ![c] = <<host, lastSeq[host]>>]
    /\ UNCHANGED <<hostVars, taskVars, got, cursor, pos, retained>>

ChildBoundary(c) ==
    /\ at[c] = "out" /\ HistoryBoundary(host)
    /\ at' = [at EXCEPT ![c] = "child"]
    /\ on' = [on EXCEPT ![c] = host]
    /\ base' = [base EXCEPT ![c] = <<host, seq[host]>>]
    /\ UNCHANGED <<hostVars, taskVars, got, cursor, pos, retained>>

Deliver(c, events) ==
    got' = [got EXCEPT ![c] = @ \o [i \in 1 .. Len(events) |-> <<on[c], events[i]>>]]

\* The events past the boundary close the snapshot, unless some were evicted.
Snapshot(c, from, events, refused) ==
    /\ at[c] = from /\ ~refused
    /\ at' = [at EXCEPT ![c] = "loaded"]
    /\ Deliver(c, events)
    /\ cursor' = [cursor EXCEPT ![c] = IF events = <<>> THEN base[c][2] ELSE Back(events)]
    /\ UNCHANGED <<hostVars, taskVars, on, base, pos, retained>>

SnapshotEvents(c) ==
    LET events == After(history[on[c]], base[c][2])
    IN  Snapshot(c, "snapshot", events,
                 ReplayGap(base[c][2], First(events),
                           IF events = <<>> THEN base[c][2] ELSE Back(events)))

ChildEvents(c) ==
    LET events == After(history[on[c]], base[c][2])
    IN  Snapshot(c, "child", events,
                 \/ ReplayGap(base[c][2], First(history[on[c]]), Back(history[on[c]]))
                 \/ ~Contiguous(events, base[c][2]))

\* A client that is refused, fails or is told to resynchronise loads again.
Forget(c) ==
    /\ at' = [at EXCEPT ![c] = "out"]
    /\ got' = [got EXCEPT ![c] = <<>>]
    /\ cursor' = [cursor EXCEPT ![c] = 0]
    /\ pos' = [pos EXCEPT ![c] = 0]
    /\ base' = [base EXCEPT ![c] = <<1, 0>>]
    /\ on' = [on EXCEPT ![c] = 1]
    /\ retained' = [retained EXCEPT ![c] = <<>>]
    /\ UNCHANGED <<hostVars, taskVars>>

SnapshotFails(c) == at[c] \in {"snapshot", "child"} /\ Forget(c)

-----------------------------------------------------------------------------
(* Subscriptions (events.rs).                                              *)

\* The receiver first, so that nothing falls between it and the copy.
Subscribe(c) ==
    /\ at[c] = "loaded"
    /\ at' = [at EXCEPT ![c] = "attach"]
    /\ on' = [on EXCEPT ![c] = host]
    /\ pos' = [pos EXCEPT ![c] = Len(sent[host])]
    /\ UNCHANGED <<hostVars, taskVars, base, got, cursor, retained>>

CopyHistory(c) ==
    /\ at[c] = "attach"
    /\ at' = [at EXCEPT ![c] = "history"]
    /\ retained' = [retained EXCEPT ![c] = history[on[c]]]
    /\ UNCHANGED <<hostVars, taskVars, on, base, got, cursor, pos>>

Gap(c) == ReplayGap(cursor[c], First(retained[c]), lastSeq[on[c]])

\* The replay is delivered and the live cursor starts at its end.
Replay(c) ==
    LET events == After(retained[c], cursor[c])
    IN  /\ at[c] = "history" /\ ~Gap(c)
        /\ at' = [at EXCEPT ![c] = "live"]
        /\ Deliver(c, events)
        /\ cursor' = [cursor EXCEPT ![c] = IF Back(events) > @ THEN Back(events) ELSE @]
        /\ retained' = [retained EXCEPT ![c] = <<>>]
        /\ UNCHANGED <<hostVars, taskVars, on, base, pos>>

ReplayRefused(c) == at[c] = "history" /\ Gap(c) /\ Forget(c)

Behind(c) == Len(sent[on[c]]) - pos[c]

WindowShort(c) == Behind(c) \in 1 .. (LiveCap - 1)
Window(c) == Behind(c) \in 1 .. LiveCap

FreshOrEqual(c, n) == n >= cursor[c]
Fresh(c, n) == n > cursor[c]

Receive(c) ==
    LET n == sent[on[c]][pos[c] + 1]
    IN  /\ at[c] = "live" /\ Window(c)
        /\ pos' = [pos EXCEPT ![c] = @ + 1]
        /\ IF Fresh(c, n)
           THEN Deliver(c, <<n>>) /\ cursor' = [cursor EXCEPT ![c] = n]
           ELSE UNCHANGED <<got, cursor>>
        /\ UNCHANGED <<hostVars, taskVars, at, on, base, retained>>

\* A client that lags goes on with what the channel retains.
LaggedSilently(c) ==
    /\ at[c] = "live" /\ Behind(c) > LiveCap
    /\ pos' = [pos EXCEPT ![c] = Len(sent[on[c]]) - LiveCap]
    /\ UNCHANGED <<hostVars, taskVars, at, on, base, got, cursor, retained>>

\* RecvError::Lagged: resync_required.
Lagged(c) == at[c] = "live" /\ Behind(c) > LiveCap /\ Forget(c)

\* The connection breaks, or the host it follows is gone; the client comes back
\* with the number of the last event it saw.
Disconnect(c) ==
    /\ at[c] \in {"attach", "history", "live"}
    /\ at' = [at EXCEPT ![c] = "loaded"]
    /\ retained' = [retained EXCEPT ![c] = <<>>]
    /\ UNCHANGED <<hostVars, taskVars, on, base, got, cursor, pos>>

-----------------------------------------------------------------------------
Publish(p) == PublishState(p) \/ PublishHistory(p)

HostNext ==
    \/ \E event \in Kind : ReaderTake(event)
    \/ \E p \in Publisher : Publish(p)
    \/ ReaderSent \/ FinishSent
    \/ ReaderBreak \/ ReaderExit \/ FailClosed \/ FinishBegin
    \/ Terminate \/ ReaderAborted \/ TerminateFinish \/ Reopen

ClientNext(c) ==
    \/ SnapshotBoundary(c) \/ SnapshotEvents(c) \/ ChildBoundary(c)
    \/ ChildEvents(c) \/ SnapshotFails(c)
    \/ Subscribe(c) \/ CopyHistory(c) \/ Replay(c) \/ ReplayRefused(c)
    \/ Receive(c) \/ Lagged(c) \/ Disconnect(c)

Next == HostNext \/ \E c \in Client : ClientNext(c)

Spec == Init /\ [][Next]_vars

\* Tasks that can run are polled. A connection need not break, and nobody need
\* terminate the host.
Fairness ==
    /\ \A p \in Publisher : WF_vars(Publish(p))
    /\ WF_vars(ReaderSent) /\ WF_vars(FinishSent)
    /\ WF_vars(ReaderExit) /\ WF_vars(FinishBegin)
    /\ WF_vars(ReaderAborted) /\ WF_vars(TerminateFinish)
    /\ \A c \in Client : WF_vars(Receive(c) \/ Lagged(c))

FairSpec == Spec /\ Fairness

-----------------------------------------------------------------------------
(* A host that stopped is known to be closed: status, boundary, dialogs and *)
(* the end of the history all stand at host_closed, as the tests of host.rs *)
(* assert and as open_session needs to replace the host.                    *)
ClosedLast ==
    Stopped => /\ status = "closed" /\ dialogs = {}
               /\ lastSeq[host] = seq[host]
               /\ Back(history[host]) = seq[host]

(* A snapshot and the stream that follows it, across reconnections, leave   *)
(* nothing out: each event broadcast up to the client's cursor was covered  *)
(* by its snapshot or given to it (service.rs: "without a gap").            *)
NoGap ==
    \A c \in Client : at[c] = "live" =>
        \A i \in 1 .. Len(sent[on[c]]) :
            LET n == sent[on[c]][i] IN
            \/ n > cursor[c]
            \/ on[c] = base[c][1] /\ n <= base[c][2]
            \/ \E j \in 1 .. Len(got[c]) : got[c][j] = <<on[c], n>>

(* Nor is anything given twice or out of order ("or an overlap").           *)
NoOverlap ==
    \A c \in Client : \A i, j \in 1 .. Len(got[c]) :
        i < j /\ got[c][i][1] = got[c][j][1] => got[c][i][2] < got[c][j][2]

(* The boundary that history_boundary returns has no publication in flight  *)
(* below it: what is numbered is in the history.                            *)
BoundaryQuiet ==
    HistoryBoundary(host) =>
        \A p \in Publisher : pub[p].step \notin {"state", "history"}

(* The derived status agrees with the dialogs: input is awaited only while  *)
(* a dialog is open, and a settled or closed session has none left.         *)
DialogsAgree ==
    /\ status = "awaiting_input" => dialogs # {}
    /\ status \in {"ready", "closed"} => dialogs = {}

(* A host that is terminated, whatever its reader is doing, closes.         *)
TerminateCloses == (ending = "aborting") ~> (finishing = "done")

(* A live client is given what is broadcast, or told to resynchronise.      *)
CatchesUp ==
    \A c \in Client : \A n \in 1 .. (MaxEvents + 1) :
        (at[c] = "live" /\ \E i \in 1 .. Len(sent[on[c]]) : sent[on[c]][i] = n)
            ~> (at[c] # "live" \/ n <= cursor[c])
=============================================================================
