---------------------------- MODULE HostEventsProofs ----------------------------
(* Proofs about the event feed, for every number of clients, dialogs, events  *)
(* and hosts, and for every history and channel limit.                        *)
EXTENDS HostEvents, TLAPS, WellFoundedInduction

USE EventsAssumption

(* Every publication step leaves the host's part of the state well typed. *)
LEMMA HostTyped == ASSUME HostOK, [Next]_vars PROVE HostOK'
<1> USE DEF HostOK
<1>1. ASSUME NEW event \in Kind, ReaderTake(event) PROVE HostOK'
  <2>1. seq[host] + 1 \in Nat
    OBVIOUS
  <2>2. seq' \in [Host -> Nat]
    BY <1>1, <2>1 DEF ReaderTake, Number
  <2>3. pub' \in [Publisher -> [step : {"idle", "state", "history", "send"},
                               seq : Nat, event : Kind \cup {Closed}]]
    BY <1>1, <2>1 DEF ReaderTake, Number
  <2> QED BY <1>1, <2>2, <2>3 DEF ReaderTake
<1>2. ASSUME NEW p \in Publisher, PublishState(p) PROVE HostOK'
  <2>1. pub[p].event \in Kind \cup {Closed} /\ pub[p].seq \in Nat
    OBVIOUS
  <2>2. DialogsAfter(pub[p].event) \in SUBSET Dialog
    BY <2>1 DEF DialogsAfter, Kind, Closed
  <2>3. StatusAfter(pub[p].event) \in {"ready", "running", "awaiting_input", "closed"}
    BY DEF StatusAfter
  <2> QED BY <1>2, <2>1, <2>2, <2>3 DEF PublishState, Step
<1>3. ASSUME NEW p \in Publisher, PublishHistory(p) PROVE HostOK'
  <2> DEFINE kept == IF Evicted(history[host]) THEN Tail(history[host]) ELSE history[host]
  <2>1. kept \in Seq(Nat) /\ Len(kept) + 1 <= HistoryLimit
    BY DEF Evicted
  <2>2. Append(kept, pub[p].seq) \in Seq(Nat) /\ Len(Append(kept, pub[p].seq)) <= HistoryLimit
    BY <2>1
  <2> HIDE DEF kept
  <2>3. history' = [history EXCEPT ![host] = Append(kept, pub[p].seq)]
    BY <1>3 DEF PublishHistory, kept
  <2>4. history' \in [Host -> Seq(Nat)] /\ \A h \in Host : Len(history'[h]) <= HistoryLimit
    BY <2>2, <2>3
  <2>5. pub' \in [Publisher -> [step : {"idle", "state", "history", "send"},
                               seq : Nat, event : Kind \cup {Closed}]]
    BY <1>3 DEF PublishHistory, Step
  <2> QED BY <1>3, <2>4, <2>5 DEF PublishHistory
<1>4. ASSUME NEW p \in Publisher, Sent(p), ReaderSent \/ FinishSent PROVE HostOK'
  BY <1>4 DEF Sent, ReaderSent, FinishSent, Idle, Want
<1>5. ASSUME ReaderBreak \/ ReaderExit \/ FailClosed \/ Terminate \/ TerminateFinish
      PROVE HostOK'
  BY <1>5, ZenonT(30) DEF ReaderBreak, ReaderExit, FailClosed, Terminate,
              TerminateFinish, Want, hostVars
<1>5a. CASE ReaderAborted
  BY <1>5a DEF ReaderAborted, Idle, hostVars
<1>6. CASE FinishBegin
  BY <1>6 DEF FinishBegin, Number, Publisher
<1>7. CASE Reopen
  <2>1. host + 1 \in Host
    BY <1>7 DEF Reopen, Host
  <2> QED BY <1>7, <2>1 DEF Reopen
<1>8. ASSUME UNCHANGED <<hostVars, taskVars>> PROVE HostOK'
  BY <1>8 DEF hostVars, taskVars
<1>9. ASSUME NEW c \in Client, ClientNext(c) PROVE UNCHANGED <<hostVars, taskVars>>
  BY <1>9 DEF ClientNext, SnapshotBoundary, SnapshotEvents, ChildBoundary, ChildEvents,
              SnapshotFails, Subscribe, CopyHistory, Replay, ReplayRefused, Receive,
              Lagged, Disconnect, Snapshot, Forget
<1> QED
  BY <1>1, <1>2, <1>3, <1>4, <1>5, <1>5a, <1>6, <1>7, <1>8, <1>9
  DEF Next, HostNext, Publish, vars, ReaderSent, FinishSent, Publisher
-----------------------------------------------------------------------------
(* Without a bridge, host_closed is the last thing a host publishes. The      *)
(* argument: finish is wanted only once the reader has left its loop, so the  *)
(* two publications never overlap, and nothing is numbered after host_closed. *)

ReaderPub == reader = "publishing" <=> pub["reader"].step # "idle"
FinisherPub ==
    /\ finishing = "publishing" <=> pub["finisher"].step # "idle"
    /\ finishing = "publishing" => /\ pub["finisher"].seq = seq[host]
                                  /\ pub["finisher"].event = Closed
OnePublisher == finishing # "no" => reader \in {"ended", "off"}
Projected ==
    finishing = "done" \/ pub["finisher"].step \in {"history", "send"}
        => status = "closed" /\ dialogs = {} /\ lastSeq[host] = seq[host]
Recorded ==
    finishing = "done" \/ pub["finisher"].step = "send"
        => Back(history[host]) = seq[host]

CloseInv == HostOK /\ ReaderPub /\ FinisherPub /\ OnePublisher /\ Projected /\ Recorded

(* Every step keeps what is known of the end of the host. *)
LEMMA CloseStep ==
    ASSUME CloseInv, [Next]_vars, ~Bridged
    PROVE  CloseInv'
<1> USE DEF CloseInv, ReaderPub, FinisherPub, OnePublisher, Projected, Recorded
<1>0. HostOK'
  BY HostTyped
<1> DEFINE Rest == ReaderPub /\ FinisherPub /\ OnePublisher /\ Projected /\ Recorded
<1>p. /\ "reader" \in Publisher /\ "finisher" \in Publisher /\ "reader" # "finisher"
      /\ pub \in [Publisher -> [step : {"idle", "state", "history", "send"},
                               seq : Nat, event : Kind \cup {Closed}]]
      /\ host \in Host /\ seq \in [Host -> Nat] /\ lastSeq \in [Host -> Nat]
      /\ history \in [Host -> Seq(Nat)]
      /\ reader \in {"loop", "publishing", "ended", "off"}
      /\ finishing \in {"no", "wanted", "publishing", "done"}
  BY DEF HostOK, Publisher
<1>1. ASSUME NEW event \in Kind, ReaderTake(event) PROVE Rest'
  BY <1>1, <1>p DEF ReaderTake, Number
<1>2. ASSUME PublishState("reader") PROVE Rest'
  BY <1>2, <1>p DEF PublishState, Step
<1>3. ASSUME PublishState("finisher") PROVE Rest'
  <2>1. StatusAfter(Closed) = "closed" /\ DialogsAfter(Closed) = {}
    BY DEF StatusAfter, DialogsAfter, Closed
  <2> QED BY <1>3, <1>p, <2>1 DEF PublishState, Step
<1>4. ASSUME PublishHistory("reader") PROVE Rest'
  BY <1>4, <1>p DEF PublishHistory, Step
<1>5. ASSUME PublishHistory("finisher") PROVE Rest'
  <2> DEFINE kept == IF Evicted(history[host]) THEN Tail(history[host]) ELSE history[host]
  <2>1. kept \in Seq(Nat)
    BY <1>p DEF HostOK, Evicted
  <2>2. Back(Append(kept, pub["finisher"].seq)) = pub["finisher"].seq
    <3>1. Append(kept, pub["finisher"].seq) # <<>>
      <4>1. Len(Append(kept, pub["finisher"].seq)) = Len(kept) + 1
        BY <2>1, <1>p
      <4>2. Len(kept) \in Nat
        BY <2>1
      <4> QED BY <4>1, <4>2
    <3>2. Append(kept, pub["finisher"].seq)[Len(kept) + 1] = pub["finisher"].seq
      BY <2>1, <1>p
    <3> QED BY <2>1, <1>p, <3>1, <3>2 DEF Back
  <2>3. history' = [history EXCEPT ![host] = Append(kept, pub["finisher"].seq)]
    BY <1>5 DEF PublishHistory
  <2> HIDE DEF kept
  <2>4. Back(history'[host]) = seq[host]
    BY <1>5, <1>p, <2>2, <2>3 DEF PublishHistory, Step
  <2> QED BY <1>5, <1>p, <2>4 DEF PublishHistory, Step
<1>6. ASSUME ReaderSent PROVE Rest'
  BY <1>6, <1>p DEF ReaderSent, Sent, Idle, Want
<1>7. ASSUME FinishSent PROVE Rest'
  BY <1>7, <1>p DEF FinishSent, Sent, Idle
<1>8. ASSUME ReaderBreak PROVE Rest'
  BY <1>8, <1>p DEF ReaderBreak, Want, hostVars
<1>9. ASSUME ReaderExit PROVE Rest'
  BY <1>9, <1>p DEF ReaderExit, hostVars
<1>10. ASSUME FinishBegin PROVE Rest'
  BY <1>10, <1>p DEF FinishBegin, Number
<1>11. ASSUME Terminate PROVE Rest'
  BY <1>11, <1>p DEF Terminate, hostVars
<1>12. ASSUME ReaderAborted PROVE Rest'
  BY <1>12, <1>p DEF ReaderAborted, AbortPoint, Idle, hostVars
<1>13. ASSUME TerminateFinish PROVE Rest'
  BY <1>13, <1>p DEF TerminateFinish, Want, hostVars
<1>14. ASSUME Reopen PROVE Rest'
  BY <1>14, <1>p DEF Reopen, Stopped
<1>15. ASSUME UNCHANGED <<hostVars, taskVars>> PROVE Rest'
  BY <1>15 DEF hostVars, taskVars
<1>16. ASSUME NEW c \in Client, ClientNext(c) PROVE UNCHANGED <<hostVars, taskVars>>
  BY <1>16 DEF ClientNext, SnapshotBoundary, SnapshotEvents, ChildBoundary, ChildEvents,
               SnapshotFails, Subscribe, CopyHistory, Replay, ReplayRefused, Receive,
               Lagged, Disconnect, Snapshot, Forget
<1>17. Rest'
  <2> HIDE DEF Rest
  <2> QED
    BY <1>1, <1>2, <1>3, <1>4, <1>5, <1>6, <1>7, <1>8, <1>9, <1>10, <1>11, <1>12,
       <1>13, <1>14, <1>15, <1>16
    DEF Next, HostNext, Publish, vars, FailClosed, Publisher
<1> QED BY <1>0, <1>17

(* A host without an external tool or file I/O bridge ends closed: when its   *)
(* reader and finish are done, status, dialogs, boundary and history all say  *)
(* host_closed, so that open_session replaces it.                             *)
THEOREM HostEndsClosed ==
    ASSUME ~Bridged
    PROVE  Spec => []ClosedLast
<1>1. Init => CloseInv
  BY DEF Init, CloseInv, HostOK, Host, Idle, ReaderPub, FinisherPub, OnePublisher,
         Projected, Recorded, Publisher
<1>2. CloseInv /\ [Next]_vars => CloseInv'
  BY CloseStep
<1>3. CloseInv => ClosedLast
  BY DEF CloseInv, Projected, Recorded, ClosedLast, Stopped
<1> QED BY <1>1, <1>2, <1>3, PTL DEF Spec

-----------------------------------------------------------------------------
(* What is numbered and not yet in the history is the last number given out,  *)
(* and the history ends before it: with one publisher at a time a boundary    *)
(* that equals the counter has nothing in flight below it.                    *)
Numbered ==
    /\ \A h \in Host : Back(history[h]) <= seq[h]
    /\ \A p \in Publisher : pub[p].step \in {"state", "history"} =>
          pub[p].seq = seq[host] /\ Back(history[host]) < seq[host]

\* The two publications exclude each other.
OneAtATime == pub["reader"].step = "idle" \/ pub["finisher"].step = "idle"

(* The end of a sequence of numbers is a number.                              *)
LEMMA BackIsNat == ASSUME NEW s \in Seq(Nat) PROVE Back(s) \in Nat
<1>1. s # <<>> => Len(s) \in 1 .. Len(s)
  OBVIOUS
<1> QED BY <1>1 DEF Back
(* The end of a nonempty sequence of numbers, and of one with a number added. *)
LEMMA BackFacts ==
    ASSUME NEW s \in Seq(Nat), NEW n \in Nat
    PROVE  Back(s) \in Nat /\ Back(Append(s, n)) = n
<1>1. Back(s) \in Nat
  BY BackIsNat
<1>2. Append(s, n) # <<>> /\ Append(s, n)[Len(Append(s, n))] = n
  <2>1. Len(Append(s, n)) = Len(s) + 1 /\ Append(s, n)[Len(s) + 1] = n /\ Len(s) \in Nat
    OBVIOUS
  <2>2. Len(Append(s, n)) # 0
    BY <2>1
  <2>3. Append(s, n) # <<>>
    BY <2>2
  <2> QED BY <2>1, <2>3
<1> QED BY <1>1, <1>2 DEF Back

(* A publisher that enters the history does it with the number it was given.  *)
LEMMA HistoryBack ==
    ASSUME HostOK, NEW p \in Publisher, PublishHistory(p)
    PROVE  \A h \in Host : Back(history'[h]) = IF h = host THEN pub[p].seq ELSE Back(history[h])
<1> DEFINE kept == IF Evicted(history[host]) THEN Tail(history[host]) ELSE history[host]
<1>1. kept \in Seq(Nat) /\ pub[p].seq \in Nat
  BY DEF HostOK, Evicted
<1>2. history' = [history EXCEPT ![host] = Append(kept, pub[p].seq)]
  BY DEF PublishHistory
<1> HIDE DEF kept
<1>3. Back(Append(kept, pub[p].seq)) = pub[p].seq
  BY <1>1, BackFacts
<1> QED BY <1>2, <1>3 DEF HostOK

(* Every step keeps the numbers of the history below the counter. *)
LEMMA NumberedStep ==
    ASSUME CloseInv, OneAtATime, Numbered, [Next]_vars, ~Bridged
    PROVE  Numbered' /\ OneAtATime'
<1> USE DEF OneAtATime, Numbered
<1>0. HostOK /\ ReaderPub /\ FinisherPub /\ OnePublisher
  BY DEF CloseInv
<1>p. /\ Publisher = {"reader", "finisher"}
      /\ pub \in [Publisher -> [step : {"idle", "state", "history", "send"},
                               seq : Nat, event : Kind \cup {Closed}]]
      /\ host \in Host /\ seq \in [Host -> Nat]
      /\ \A h \in Host : Back(history[h]) \in Nat /\ seq[h] \in Nat
  BY <1>0, BackFacts DEF HostOK, Publisher
<1>1. ASSUME NEW p \in Publisher, NEW event, Number(p, event), history' = history, host' = host,
             \A q \in Publisher : pub[q].step = "idle"
      PROVE  Numbered' /\ OneAtATime'
  <2>1. seq' = [seq EXCEPT ![host] = seq[host] + 1]
        /\ pub' = [pub EXCEPT ![p] = [step |-> "state", seq |-> seq[host] + 1, event |-> event]]
    BY <1>1 DEF Number
  <2>2. \A h \in Host : Back(history[h]) <= seq'[h]
    BY <1>p, <2>1
  <2>3. seq'[host] = seq[host] + 1 /\ Back(history[host]) < seq'[host]
    BY <1>p, <2>1
  <2>4. \A q \in Publisher : IF q = p THEN pub'[q].seq = seq[host] + 1 ELSE pub'[q].step = "idle"
    BY <1>1, <1>p, <2>1
  <2>5. Numbered'
    BY <1>1, <2>2, <2>3, <2>4
  <2> QED BY <1>p, <2>4, <2>5
<1>2. ASSUME NEW event \in Kind, ReaderTake(event) PROVE Numbered' /\ OneAtATime'
  <2>1. reader = "loop"
    BY <1>2 DEF ReaderTake
  <2>2. \A q \in Publisher : pub[q].step = "idle"
    BY <1>0, <1>p, <2>1 DEF ReaderPub, FinisherPub, OnePublisher
  <2> QED BY <1>1, <1>2, <1>p, <2>2 DEF ReaderTake
<1>3. ASSUME FinishBegin PROVE Numbered' /\ OneAtATime'
  <2>1. finishing = "wanted" /\ reader \in {"ended", "off"}
    BY <1>0, <1>3 DEF FinishBegin, OnePublisher
  <2>2. \A q \in Publisher : pub[q].step = "idle"
    BY <1>0, <1>p, <2>1 DEF ReaderPub, FinisherPub
  <2> QED BY <1>1, <1>3, <1>p, <2>2 DEF FinishBegin
<1>4. ASSUME NEW p \in Publisher, PublishState(p) PROVE Numbered' /\ OneAtATime'
  BY <1>4, <1>p DEF PublishState, Step
<1>5. ASSUME NEW p \in Publisher, PublishHistory(p) PROVE Numbered' /\ OneAtATime'
  <2>1. /\ pub[p].step = "history" /\ pub[p].seq = seq[host] /\ seq' = seq /\ host' = host
        /\ pub' = [pub EXCEPT ![p].step = "send"]
    BY <1>5, <1>p DEF PublishHistory, Step
  <2>2. \A q \in Publisher : IF q = p THEN pub'[q].step = "send" ELSE pub'[q].step = "idle"
    BY <1>p, <2>1
  <2>3. \A h \in Host : Back(history'[h]) <= seq[h]
    BY <1>0, <1>5, <1>p, <2>1, HistoryBack
  <2> QED BY <1>p, <2>1, <2>2, <2>3
<1>6. ASSUME NEW p \in Publisher, Sent(p) PROVE Numbered' /\ OneAtATime'
  BY <1>6, <1>p DEF Sent, Idle
<1>7. ASSUME ReaderBreak \/ ReaderExit \/ Terminate \/ TerminateFinish PROVE Numbered' /\ OneAtATime'
  BY <1>7 DEF ReaderBreak, ReaderExit, Terminate, TerminateFinish, hostVars
<1>8. ASSUME ReaderAborted PROVE Numbered' /\ OneAtATime'
  BY <1>8, <1>p DEF ReaderAborted, Idle, hostVars
<1>9. ASSUME Reopen PROVE Numbered' /\ OneAtATime'
  <2>1. \A q \in Publisher : pub[q].step = "idle"
    BY <1>0, <1>9, <1>p DEF Reopen, Stopped, ReaderPub, FinisherPub
  <2> QED BY <1>9, <1>p, <2>1 DEF Reopen
<1>10. ASSUME UNCHANGED <<hostVars, taskVars>> PROVE Numbered' /\ OneAtATime'
  BY <1>10 DEF hostVars, taskVars
<1>11. ASSUME NEW c \in Client, ClientNext(c) PROVE UNCHANGED <<hostVars, taskVars>>
  BY <1>11 DEF ClientNext, SnapshotBoundary, SnapshotEvents, ChildBoundary, ChildEvents,
               SnapshotFails, Subscribe, CopyHistory, Replay, ReplayRefused, Receive,
               Lagged, Disconnect, Snapshot, Forget
<1> HIDE DEF Numbered, OneAtATime
<1> QED
  BY <1>2, <1>3, <1>4, <1>5, <1>6, <1>7, <1>8, <1>9, <1>10, <1>11, <1>p
  DEF Next, HostNext, Publish, vars, FailClosed, ReaderSent, FinishSent

(* history_boundary of a host without a bridge never stands above a           *)
(* publication that is still to enter the history: the child snapshot taken   *)
(* at it and the events after it are all there is.                            *)
THEOREM BoundaryIsQuiet ==
    ASSUME ~Bridged
    PROVE  Spec => []BoundaryQuiet
<1>1. Init => CloseInv /\ OneAtATime /\ Numbered
  BY DEF Init, CloseInv, HostOK, Host, Idle, ReaderPub, FinisherPub, OnePublisher,
         Projected, Recorded, Publisher, OneAtATime, Numbered, Back
<1>2. CloseInv /\ OneAtATime /\ Numbered /\ [Next]_vars => (CloseInv /\ OneAtATime /\ Numbered)'
  BY CloseStep, NumberedStep
<1>3. CloseInv /\ Numbered => BoundaryQuiet
  <2> SUFFICES ASSUME CloseInv, Numbered, HistoryBoundary(host), NEW p \in Publisher
               PROVE  pub[p].step \notin {"state", "history"}
    BY DEF BoundaryQuiet
  <2>1. Back(history[host]) \in Nat /\ seq[host] \in Nat
    BY BackFacts DEF CloseInv, HostOK
  <2> QED BY <2>1 DEF Numbered, HistoryBoundary
<1> QED BY <1>1, <1>2, <1>3, PTL DEF Spec

-----------------------------------------------------------------------------
(* The derived status agrees with the open dialogs, whatever two publishers   *)
(* interleave: both are written in one critical section.                      *)
THEOREM DialogsAlwaysAgree == Spec => []DialogsAgree
<1>1. Init => HostOK /\ DialogsAgree
  BY DEF Init, HostOK, Host, Idle, Publisher, DialogsAgree
<1>2. HostOK /\ DialogsAgree /\ [Next]_vars => (HostOK /\ DialogsAgree)'
  <2> SUFFICES ASSUME HostOK, DialogsAgree, [Next]_vars PROVE HostOK' /\ DialogsAgree'
    OBVIOUS
  <2>1. HostOK'
    BY HostTyped
  <2>2. ASSUME NEW p \in Publisher, PublishState(p) PROVE DialogsAgree'
    <3> DEFINE event == pub[p].event
    <3>1. status' = StatusAfter(event) /\ dialogs' = DialogsAfter(event)
      BY <2>2 DEF PublishState
    <3>2. CASE event.type = "ui_dialog_request"
      BY <3>1, <3>2 DEF StatusAfter, DialogsAfter, DialogsAgree
    <3>3. CASE event.type = "ui_dialog_closed"
      BY <3>1, <3>3 DEF StatusAfter, DialogsAfter, DialogsAgree
    <3>4. CASE event.type \notin {"ui_dialog_request", "ui_dialog_closed"}
      BY <3>1, <3>4 DEF StatusAfter, DialogsAfter, DialogsAgree
    <3> QED BY <3>2, <3>3, <3>4
  <2>3. ASSUME Reopen PROVE DialogsAgree'
    BY <2>3 DEF Reopen, DialogsAgree
  <2>4. ASSUME UNCHANGED <<status, dialogs>> PROVE DialogsAgree'
    BY <2>4 DEF DialogsAgree
  <2>5. ASSUME ~Reopen, ~PublishState("reader"), ~PublishState("finisher")
        PROVE  UNCHANGED <<status, dialogs>>
    BY <2>5 DEF Next, HostNext, Publish, Publisher, vars, hostVars, ReaderTake, PublishHistory,
                ReaderSent, FinishSent, Sent, ReaderBreak, ReaderExit, FailClosed, FinishBegin,
                Terminate, ReaderAborted, TerminateFinish, ClientNext, SnapshotBoundary,
                SnapshotEvents, ChildBoundary, ChildEvents, SnapshotFails, Subscribe, CopyHistory,
                Replay, ReplayRefused, Receive, Lagged, Disconnect, Snapshot, Forget
  <2> QED BY <2>1, <2>2, <2>3, <2>4, <2>5 DEF Publisher
<1> QED BY <1>1, <1>2, PTL DEF Spec
-----------------------------------------------------------------------------
(* Induction on the natural numbers, for a set of them. *)
LEMMA SetInduction ==
    ASSUME NEW S, 0 \in S, \A n \in Nat : n \in S => n + 1 \in S
    PROVE  Nat \subseteq S
<1> DEFINE R == {ss \in Nat \X Nat : ss[1] < ss[2]}
           T == Nat \ S
<1>1. IsWellFoundedOn(R, Nat)
  BY NatLessThanWellFounded DEF OpToRel
<1>2. SUFFICES ASSUME T # {} PROVE FALSE
  OBVIOUS
<1>3. T \subseteq Nat
  OBVIOUS
<1> HIDE DEF T, R
<1>4. PICK x \in T : \A y \in T : <<y, x>> \notin R
  BY <1>1, <1>2, <1>3, WFMin
<1>5. x \in Nat /\ x \notin S /\ x # 0
  BY DEF T
<1>6. x - 1 \in T /\ (x - 1) + 1 = x
  BY <1>5 DEF T
<1>7. <<x - 1, x>> \in R
  BY <1>5, <1>6 DEF R, T
<1> QED BY <1>4, <1>6, <1>7

\* The filter's first i events.
Filtered(past, s, n, m) ==
    past = [i \in 0 .. m |-> IF i = 0 THEN <<>>
                             ELSE IF s[i] > n THEN Append(past[i - 1], s[i]) ELSE past[i - 1]]

(* The recursion of After defines a function on 0 .. Len(s). *)
LEMMA FilterExists ==
    ASSUME NEW s \in Seq(Nat), NEW n \in Nat
    PROVE  \E past : Filtered(past, s, n, Len(s)) /\ After(s, n) = past[Len(s)]
<1> DEFINE S == {m \in Nat : \E past : Filtered(past, s, n, m)}
<1>1. 0 \in S
  <2>1. Filtered([i \in 0 .. 0 |-> <<>>], s, n, 0)
    BY DEF Filtered
  <2> QED BY <2>1
<1>2. ASSUME NEW m \in Nat, m \in S PROVE m + 1 \in S
  <2>1. PICK past : Filtered(past, s, n, m)
    BY <1>2
  <2> DEFINE more == [i \in 0 .. m + 1 |->
                        IF i <= m THEN past[i]
                        ELSE IF s[i] > n THEN Append(past[m], s[i]) ELSE past[m]]
             next == [i \in 0 .. m + 1 |-> IF i = 0 THEN <<>>
                             ELSE IF s[i] > n THEN Append(more[i - 1], s[i]) ELSE more[i - 1]]
  <2>2. ASSUME NEW i \in 0 .. m + 1 PROVE more[i] = next[i]
    <3>1. CASE i = 0
      BY <2>1, <3>1 DEF Filtered
    <3>2. CASE i \in 1 .. m
      <4>1. i \in 0 .. m /\ i - 1 \in 0 .. m /\ i # 0
        BY <3>2
      <4>2. past[i] = IF s[i] > n THEN Append(past[i - 1], s[i]) ELSE past[i - 1]
        BY <2>1, <4>1 DEF Filtered
      <4>3. more[i] = past[i] /\ more[i - 1] = past[i - 1]
        BY <4>1
      <4> QED BY <4>1, <4>2, <4>3
    <3>3. CASE i = m + 1
      <4>1. i - 1 = m /\ m \in 0 .. m + 1 /\ ~(m + 1 <= m) /\ m + 1 # 0 /\ m <= m /\ m + 1 \in 0 .. m + 1
        BY <3>3
      <4>2. more[m] = past[m]
        BY <4>1
      <4>3. more[m + 1] = IF s[m + 1] > n THEN Append(past[m], s[m + 1]) ELSE past[m]
        BY <4>1
      <4>4. next[m + 1] = IF s[m + 1] > n THEN Append(more[m], s[m + 1]) ELSE more[m]
        BY <4>1, <3>3
      <4> QED BY <3>3, <4>2, <4>3, <4>4
    <3> QED BY <3>1, <3>2, <3>3
  <2>3. more = next
    BY <2>2
  <2>4. Filtered(more, s, n, m + 1)
    BY <2>3 DEF Filtered
  <2> QED BY <2>4
<1>3. Nat \subseteq S
  <2> HIDE DEF S
  <2> QED BY <1>1, <1>2, SetInduction
<1>4. \E past : Filtered(past, s, n, Len(s))
  BY <1>3
<1> DEFINE chosen == CHOOSE past : Filtered(past, s, n, Len(s))
<1>5. Filtered(chosen, s, n, Len(s))
  BY <1>4
<1>6. After(s, n) = chosen[Len(s)]
  BY DEF After, Filtered
<1> QED BY <1>5, <1>6

Ascending(s) == \A i, j \in 1 .. Len(s) : i < j => s[i] < s[j]

\* What t, the filter of the first m events of s, contains.
Selects(t, s, n, m) ==
    /\ t \in Seq(Nat)
    /\ \A k \in 1 .. Len(t) : t[k] > n /\ \E i \in 1 .. m : t[k] = s[i]
    /\ \A i \in 1 .. m : s[i] > n => \E k \in 1 .. Len(t) : t[k] = s[i]
    /\ Ascending(s) => Ascending(t)

(* An event past n is appended to what the filter has. *)
LEMMA SelectMore ==
    ASSUME NEW s \in Seq(Nat), NEW n \in Nat, NEW m \in Nat, m + 1 \in 1 .. Len(s),
           NEW t, Selects(t, s, n, m), s[m + 1] > n
    PROVE  Selects(Append(t, s[m + 1]), s, n, m + 1)
<1> DEFINE u == Append(t, s[m + 1])
<1>1. t \in Seq(Nat) /\ s[m + 1] \in Nat
  BY DEF Selects
<1>2. u \in Seq(Nat) /\ Len(u) = Len(t) + 1 /\ Len(t) \in Nat /\ u[Len(t) + 1] = s[m + 1]
      /\ \A k \in 1 .. Len(t) : u[k] = t[k]
  BY <1>1
<1> HIDE DEF u
<1>3. ASSUME NEW k \in 1 .. Len(u) PROVE u[k] > n /\ \E i \in 1 .. m + 1 : u[k] = s[i]
  <2>1. CASE k = Len(t) + 1
    <3>1. m + 1 \in 1 .. m + 1
      OBVIOUS
    <3> QED BY <1>2, <2>1, <3>1
  <2>2. CASE k \in 1 .. Len(t)
    <3>1. PICK i \in 1 .. m : t[k] > n /\ t[k] = s[i]
      BY <2>2 DEF Selects
    <3>2. i \in 1 .. m + 1
      OBVIOUS
    <3>3. u[k] = t[k]
      BY <1>2, <2>2
    <3> QED BY <3>1, <3>2, <3>3
  <2> QED BY <1>2, <2>1, <2>2
<1>4. ASSUME NEW i \in 1 .. m + 1, s[i] > n PROVE \E k \in 1 .. Len(u) : u[k] = s[i]
  <2>1. CASE i = m + 1
    <3>1. Len(t) + 1 \in 1 .. Len(u)
      BY <1>2
    <3> QED BY <1>2, <2>1, <3>1
  <2>2. CASE i \in 1 .. m
    <3>1. PICK k \in 1 .. Len(t) : t[k] = s[i]
      BY <1>4, <2>2 DEF Selects
    <3> QED BY <1>2, <3>1
  <2> QED BY <2>1, <2>2
<1>5. ASSUME Ascending(s), NEW j \in 1 .. Len(u), NEW k \in 1 .. Len(u), j < k PROVE u[j] < u[k]
  <2>1. j \in 1 .. Len(t) /\ Ascending(t)
    BY <1>2, <1>5 DEF Selects
  <2>2. CASE k = Len(t) + 1
    <3>1. PICK i \in 1 .. m : t[j] = s[i]
      BY <2>1 DEF Selects
    <3>2. i \in 1 .. Len(s) /\ i < m + 1
      OBVIOUS
    <3>3. s[i] < s[m + 1]
      BY <1>5, <3>2 DEF Ascending
    <3> QED BY <1>2, <2>1, <2>2, <3>1, <3>3
  <2>3. CASE k \in 1 .. Len(t)
    BY <1>2, <1>5, <2>1, <2>3 DEF Ascending
  <2> QED BY <1>2, <2>2, <2>3
<1> QED BY <1>2, <1>3, <1>4, <1>5 DEF Selects, Ascending, u

(* An event that is not past n is left out. *)
LEMMA SelectSame ==
    ASSUME NEW s \in Seq(Nat), NEW n \in Nat, NEW m \in Nat, m + 1 \in 1 .. Len(s),
           NEW t, Selects(t, s, n, m), ~(s[m + 1] > n)
    PROVE  Selects(t, s, n, m + 1)
<1>1. \A i \in 1 .. m + 1 : s[i] > n => i \in 1 .. m
  OBVIOUS
<1>2. \A i \in 1 .. m : i \in 1 .. m + 1
  OBVIOUS
<1> QED BY <1>1, <1>2 DEF Selects

(* After is the filter of the whole sequence, in its order. *)
LEMMA AfterFacts ==
    ASSUME NEW s \in Seq(Nat), NEW n \in Nat
    PROVE  Selects(After(s, n), s, n, Len(s))
<1>1. PICK past : Filtered(past, s, n, Len(s)) /\ After(s, n) = past[Len(s)]
  BY FilterExists
<1>2. Len(s) \in Nat
  OBVIOUS
<1> DEFINE S == {m \in Nat : m <= Len(s) => Selects(past[m], s, n, m)}
<1>3. 0 \in S
  <2>1. past[0] = <<>>
    BY <1>1, <1>2 DEF Filtered
  <2>2. Selects(<<>>, s, n, 0)
    BY DEF Selects, Ascending
  <2> QED BY <2>1, <2>2
<1>4. ASSUME NEW m \in Nat, m \in S PROVE m + 1 \in S
  <2> SUFFICES ASSUME m + 1 <= Len(s) PROVE Selects(past[m + 1], s, n, m + 1)
    OBVIOUS
  <2>1. m + 1 \in 1 .. Len(s) /\ m + 1 \in 0 .. Len(s) /\ m + 1 # 0 /\ (m + 1) - 1 = m
    BY <1>2
  <2>2. Selects(past[m], s, n, m)
    BY <1>2, <1>4
  <2>3. past[m + 1] = IF s[m + 1] > n THEN Append(past[m], s[m + 1]) ELSE past[m]
    BY <1>1, <2>1 DEF Filtered
  <2> QED BY <2>1, <2>2, <2>3, SelectMore, SelectSame
<1>5. Len(s) \in S
  <2> HIDE DEF S
  <2> QED BY <1>2, <1>3, <1>4, SetInduction
<1> QED BY <1>1, <1>2, <1>5
-----------------------------------------------------------------------------
\* The state of a client's task.
ClientState == {"out", "snapshot", "child", "loaded", "attach", "history", "live"}

(* What a client is given are numbers of the host it holds.                   *)
LEMMA DeliverTyped ==
    ASSUME ClientOK, NEW c \in Client, NEW events \in Seq(Nat), Deliver(c, events)
    PROVE  got' \in [Client -> Seq(Host \X Nat)]
<1>1. got[c] \in Seq(Host \X Nat) /\ on[c] \in Host /\ got \in [Client -> Seq(Host \X Nat)]
  BY DEF ClientOK
<1>2. [i \in 1 .. Len(events) |-> <<on[c], events[i]>>] \in Seq(Host \X Nat)
  <2>1. Len(events) \in Nat /\ \A i \in 1 .. Len(events) : events[i] \in Nat
    OBVIOUS
  <2> QED BY <1>1, <2>1
<1>3. got[c] \o [i \in 1 .. Len(events) |-> <<on[c], events[i]>>] \in Seq(Host \X Nat)
  BY <1>1, <1>2
<1> QED BY <1>1, <1>3 DEF Deliver

(* After yields numbers. *)
LEMMA AfterTyped == ASSUME NEW s \in Seq(Nat), NEW n \in Nat PROVE After(s, n) \in Seq(Nat)
BY AfterFacts DEF Selects

(* A client in its snapshot, its replay or its stream keeps its state well    *)
(* typed.                                                                     *)
LEMMA ClientStepTyped ==
    ASSUME HostOK, ClientOK, NEW c \in Client, ClientNext(c)
    PROVE  ClientOK'
<1>p. /\ at \in [Client -> ClientState]
      /\ on \in [Client -> Host] /\ base \in [Client -> Host \X Nat]
      /\ got \in [Client -> Seq(Host \X Nat)]
      /\ cursor \in [Client -> Nat] /\ pos \in [Client -> Nat]
      /\ retained \in [Client -> Seq(Nat)]
      /\ host \in Host /\ 1 \in Host
      /\ seq \in [Host -> Nat] /\ lastSeq \in [Host -> Nat]
      /\ history \in [Host -> Seq(Nat)] /\ sent \in [Host -> Seq(Nat)]
  <2>1. 1 \in Host
    BY DEF Host
  <2> QED BY <2>1, Zenon DEF ClientOK, HostOK, ClientState
<1>q. /\ cursor \in [Client -> Nat] /\ pos \in [Client -> Nat]
      /\ at \in [Client -> ClientState]
  BY <1>p
<1>r. retained \in [Client -> Seq(Nat)]
  BY <1>p
<1>s. on \in [Client -> Host] /\ base \in [Client -> Host \X Nat]
  BY <1>p
<1>1. CASE SnapshotBoundary(c) \/ ChildBoundary(c)
  <2>1. lastSeq[host] \in Nat /\ seq[host] \in Nat /\ host \in Host
    BY <1>p
  <2>2. PICK n \in Nat, s \in {"snapshot", "child"} :
            /\ at' = [at EXCEPT ![c] = s] /\ on' = [on EXCEPT ![c] = host]
            /\ base' = [base EXCEPT ![c] = <<host, n>>]
            /\ UNCHANGED <<got, cursor, pos, retained>>
    BY <1>1, <2>1 DEF SnapshotBoundary, ChildBoundary
  <2>3. at' \in [Client -> ClientState] /\ on' \in [Client -> Host]
    BY <1>q, <1>s, <2>1, <2>2 DEF ClientState
  <2>4. base' \in [Client -> Host \X Nat]
    BY <1>s, <2>1, <2>2
  <2>5. /\ cursor' \in [Client -> Nat] /\ pos' \in [Client -> Nat]
        /\ got' \in [Client -> Seq(Host \X Nat)] /\ retained' \in [Client -> Seq(Nat)]
    BY <1>p, <2>2, Zenon
  <2> QED BY <2>3, <2>4, <2>5, Zenon DEF ClientOK, ClientState
<1>2. ASSUME NEW from, NEW events \in Seq(Nat), NEW refused, Snapshot(c, from, events, refused)
      PROVE  ClientOK'
  <2>1. got' \in [Client -> Seq(Host \X Nat)]
    BY <1>2, DeliverTyped DEF Snapshot
  <2>2. (IF events = <<>> THEN base[c][2] ELSE Back(events)) \in Nat
    BY <1>p, BackIsNat
  <2>3. cursor' \in [Client -> Nat]
    BY <1>2, <1>p, <2>2 DEF Snapshot
  <2>4. at' = [at EXCEPT ![c] = "loaded"] /\ UNCHANGED <<on, base, pos, retained>>
    BY <1>2 DEF Snapshot
  <2>5. at' \in [Client -> ClientState]
    BY <1>p, <2>4 DEF ClientState
  <2>6. /\ on' \in [Client -> Host] /\ base' \in [Client -> Host \X Nat]
        /\ pos' \in [Client -> Nat] /\ retained' \in [Client -> Seq(Nat)]
    BY <1>q, <1>r, <1>s, <2>4, Zenon
  <2> QED BY <2>1, <2>3, <2>5, <2>6, Zenon DEF ClientOK, ClientState
<1>3. After(history[on[c]], base[c][2]) \in Seq(Nat)
  BY <1>p, AfterTyped
<1>4. CASE SnapshotEvents(c) \/ ChildEvents(c)
  BY <1>2, <1>3, <1>4 DEF SnapshotEvents, ChildEvents
<1>5. ASSUME Forget(c) PROVE ClientOK'
  <2>1. <<1, 0>> \in Host \X Nat
    BY <1>p
  <2>2. <<>> \in Seq(Host \X Nat) /\ <<>> \in Seq(Nat)
    OBVIOUS
  <2>3. got' \in [Client -> Seq(Host \X Nat)] /\ base' \in [Client -> Host \X Nat]
        /\ retained' \in [Client -> Seq(Nat)]
    BY <1>5, <1>p, <2>1, <2>2 DEF Forget
  <2>4. at' \in [Client -> ClientState] /\ on' \in [Client -> Host]
        /\ cursor' \in [Client -> Nat] /\ pos' \in [Client -> Nat]
    BY <1>5, <1>p DEF Forget, ClientState
  <2> QED BY <2>3, <2>4 DEF ClientOK, ClientState
<1>6. CASE SnapshotFails(c) \/ ReplayRefused(c) \/ Lagged(c)
  BY <1>5, <1>6 DEF SnapshotFails, ReplayRefused, Lagged
<1>7. CASE Subscribe(c)
  <2>1. Len(sent[host]) \in Nat /\ host \in Host
    BY <1>p
  <2>2. at' \in [Client -> ClientState] /\ on' \in [Client -> Host] /\ pos' \in [Client -> Nat]
    BY <1>7, <1>q, <1>s, <2>1 DEF Subscribe, ClientState
  <2>3. UNCHANGED <<base, got, cursor, retained>>
    BY <1>7 DEF Subscribe
  <2> QED BY <1>p, <2>2, <2>3, Zenon DEF ClientOK, ClientState
<1>8. CASE CopyHistory(c)
  BY <1>8, <1>p DEF CopyHistory, ClientOK, ClientState
<1>9. CASE Replay(c)
  <2> DEFINE events == After(retained[c], cursor[c])
  <2>1. events \in Seq(Nat)
    BY <1>p, AfterTyped
  <2>2. Back(events) \in Nat
    BY <2>1, BackIsNat
  <2> HIDE DEF events
  <2>3. Deliver(c, events)
        /\ cursor' = [cursor EXCEPT ![c] = IF Back(events) > @ THEN Back(events) ELSE @]
        /\ at' = [at EXCEPT ![c] = "live"] /\ retained' = [retained EXCEPT ![c] = <<>>]
        /\ UNCHANGED <<on, base, pos>>
    BY <1>9 DEF Replay, events
  <2>4. got' \in [Client -> Seq(Host \X Nat)]
    BY <2>1, <2>3, DeliverTyped
  <2>5. cursor' \in [Client -> Nat]
    BY <1>p, <2>2, <2>3
  <2>6. at' \in [Client -> ClientState]
    BY <1>q, <2>3 DEF ClientState
  <2>7. retained' \in [Client -> Seq(Nat)]
    <3>1. <<>> \in Seq(Nat)
      OBVIOUS
    <3> QED BY <1>r, <2>3, <3>1
  <2>8. on' \in [Client -> Host] /\ base' \in [Client -> Host \X Nat] /\ pos' \in [Client -> Nat]
    BY <1>q, <1>s, <2>3, Zenon
  <2> QED BY <2>4, <2>5, <2>6, <2>7, <2>8, Zenon DEF ClientOK, ClientState
<1>10. CASE Receive(c)
  <2> DEFINE n == sent[on[c]][pos[c] + 1]
  <2>1. n \in Nat
    <3>1. Len(sent[on[c]]) - pos[c] \in 1 .. LiveCap
      BY <1>10 DEF Receive, Window, Behind
    <3>2. on[c] \in Host /\ pos[c] \in Nat /\ sent[on[c]] \in Seq(Nat) /\ LiveCap \in Nat
      BY <1>p DEF EventsAssumption
    <3>3. pos[c] + 1 \in 1 .. Len(sent[on[c]])
      BY <3>1, <3>2
    <3> QED BY <3>2, <3>3
  <2>2. <<n>> \in Seq(Nat)
    BY <2>1
  <2> HIDE DEF n
  <2>3. /\ pos' = [pos EXCEPT ![c] = @ + 1]
        /\ \/ Deliver(c, <<n>>) /\ cursor' = [cursor EXCEPT ![c] = n]
           \/ UNCHANGED <<got, cursor>>
        /\ UNCHANGED <<at, on, base, retained>>
    BY <1>10 DEF Receive, n
  <2>4. got' \in [Client -> Seq(Host \X Nat)]
    BY <1>p, <2>2, <2>3, DeliverTyped
  <2>5. cursor' \in [Client -> Nat]
    BY <1>p, <2>1, <2>3
  <2>6. pos' \in [Client -> Nat]
    <3>1. pos[c] + 1 \in Nat
      BY <1>q
    <3> QED BY <1>q, <2>3, <3>1
  <2>7. /\ on' \in [Client -> Host] /\ base' \in [Client -> Host \X Nat]
        /\ at' \in [Client -> ClientState] /\ retained' \in [Client -> Seq(Nat)]
    BY <1>q, <1>r, <1>s, <2>3, Zenon
  <2> QED BY <2>4, <2>5, <2>6, <2>7, Zenon DEF ClientOK, ClientState
<1>11. CASE Disconnect(c)
  <2>1. at' \in [Client -> ClientState] /\ retained' \in [Client -> Seq(Nat)]
    <3>1. <<>> \in Seq(Nat)
      OBVIOUS
    <3> QED BY <1>11, <1>q, <1>r, <3>1 DEF Disconnect, ClientState
  <2>2. UNCHANGED <<on, base, got, cursor, pos>>
    BY <1>11 DEF Disconnect
  <2> QED BY <1>p, <2>1, <2>2, Zenon DEF ClientOK, ClientState
<1> QED BY <1>1, <1>4, <1>6, <1>7, <1>8, <1>9, <1>10, <1>11 DEF ClientNext

(* Publishers and the host do not touch what a client has. *)
LEMMA HostStepsLeaveClients ==
    ASSUME HostNext PROVE UNCHANGED clientVars
BY DEF HostNext, ReaderTake, Number, Publish, PublishState, PublishHistory, ReaderSent, FinishSent,
       Sent, ReaderBreak, ReaderExit, FailClosed, FinishBegin, Terminate, ReaderAborted,
       TerminateFinish, Reopen, clientVars

(* The initial state is well typed. *)
LEMMA TypedInit == Init => TypeOK
<1> SUFFICES ASSUME Init PROVE TypeOK
  OBVIOUS
<1>1. HostOK
  BY DEF Init, HostOK, Host, Idle, Publisher
<1>2. 1 \in Host
  BY DEF Host
<1>3. ClientOK
  BY <1>2 DEF Init, ClientOK
<1> QED BY <1>1, <1>3 DEF TypeOK

(* Every step leaves the state well typed. *)
LEMMA TypedStep == TypeOK /\ [Next]_vars => TypeOK'
<1> SUFFICES ASSUME TypeOK, [Next]_vars PROVE TypeOK'
  OBVIOUS
<1>1. HostOK'
  BY HostTyped DEF TypeOK
<1>2. ASSUME UNCHANGED clientVars PROVE ClientOK'
  BY <1>2 DEF TypeOK, ClientOK, clientVars
<1>3. ASSUME NEW c \in Client, ClientNext(c) PROVE ClientOK'
  BY <1>3, ClientStepTyped DEF TypeOK
<1> QED BY <1>1, <1>2, <1>3, HostStepsLeaveClients DEF TypeOK, Next, vars

(* Every variable has its type on every host, and no history outgrows the     *)
(* limit, with bridges and without.                                           *)
THEOREM EventsTyped == Spec => []TypeOK
BY TypedInit, TypedStep, PTL DEF Spec
-----------------------------------------------------------------------------
(* No gap and no overlap. The argument: on a host without a bridge the numbers *)
(* of the events ascend in the history and in what is broadcast, and what was  *)
(* broadcast is in the history or older than all of it. So the copy a client   *)
(* replays joins what it had, unless the gap check refuses it, and the          *)
(* receiver it took before the copy joins the replay.                           *)

Has(s, n) == \E i \in 1 .. Len(s) : s[i] = n

\* n is in the retained events s, or was evicted from them.
Kept(n, s) == Has(s, n) \/ (s # <<>> /\ n < s[1])

\* Every number of s is below n.
Past(s, n) == \A i \in 1 .. Len(s) : s[i] < n

\* t is s with n at its end.
Extends(t, s, n) ==
    /\ t \in Seq(Nat) /\ Len(t) = Len(s) + 1 /\ t[Len(s) + 1] = n
    /\ \A i \in 1 .. Len(s) : t[i] = s[i]

\* r is s without its first number.
Shortened(r, s) ==
    /\ r \in Seq(Nat) /\ Len(s) >= 1 /\ Len(r) = Len(s) - 1
    /\ \A i \in 1 .. Len(r) : r[i] = s[i + 1]

\* Every number of s is positive; every number of s is kept by t.
Positive(s) == \A i \in 1 .. Len(s) : 1 <= s[i]
AllKept(s, t) == \A i \in 1 .. Len(s) : Kept(s[i], t)

FeedAt(h) ==
    /\ Ascending(history[h]) /\ Past(history[h], seq[h] + 1) /\ Positive(history[h])
    /\ Ascending(sent[h]) /\ Past(sent[h], seq[h] + 1) /\ AllKept(sent[h], history[h])
    /\ lastSeq[h] <= seq[h]

\* A publication under way has the last number, which is not broadcast yet.
InFlight(p) ==
    pub[p].step # "idle" =>
        /\ pub[p].seq = seq[host] /\ 1 <= pub[p].seq
        /\ Past(sent[host], pub[p].seq)
        /\ IF pub[p].step = "send" THEN Has(history[host], pub[p].seq)
           ELSE Past(history[host], pub[p].seq)

Feed == (\A h \in Host : FeedAt(h)) /\ \A p \in Publisher : InFlight(p)

(* What is below a number is below a greater one. *)
LEMMA PastMore ==
    ASSUME NEW s \in Seq(Nat), NEW n \in Nat, NEW m \in Nat, n <= m, Past(s, n)
    PROVE  Past(s, m)
BY DEF Past

(* Append and Tail, by what their results contain. *)
LEMMA AppendExtends ==
    ASSUME NEW s \in Seq(Nat), NEW n \in Nat
    PROVE  Extends(Append(s, n), s, n)
BY DEF Extends

LEMMA TailShortened ==
    ASSUME NEW s \in Seq(Nat), s # <<>>
    PROVE  Shortened(Tail(s), s)
BY DEF Shortened

(* A number past all of an ascending sequence extends it.                     *)
LEMMA AscendingAppend ==
    ASSUME NEW s \in Seq(Nat), NEW n \in Nat, Ascending(s), Past(s, n), NEW t, Extends(t, s, n)
    PROVE  /\ Ascending(t) /\ Has(t, n) /\ t # <<>> /\ Past(t, n + 1)
           /\ \A m \in Nat : Has(s, m) => Has(t, m)
           /\ \A m \in Nat : Has(t, m) => m = n \/ Has(s, m)
<1>1. /\ t \in Seq(Nat) /\ Len(t) = Len(s) + 1 /\ t[Len(s) + 1] = n /\ Len(s) \in Nat
      /\ \A i \in 1 .. Len(s) : t[i] = s[i] /\ i \in 1 .. Len(t)
  BY DEF Extends
<1>2. ASSUME NEW i \in 1 .. Len(t), NEW j \in 1 .. Len(t), i < j PROVE t[i] < t[j]
  <2>1. i \in 1 .. Len(s)
    BY <1>1, <1>2
  <2>2. CASE j = Len(s) + 1
    BY <1>1, <2>1, <2>2 DEF Past
  <2>3. CASE j \in 1 .. Len(s)
    BY <1>1, <1>2, <2>1, <2>3 DEF Ascending
  <2> QED BY <1>1, <2>2, <2>3
<1>3. Has(t, n)
  <2>1. Len(s) + 1 \in 1 .. Len(t)
    BY <1>1
  <2> QED BY <1>1, <2>1 DEF Has
<1>4. t # <<>>
  BY <1>1
<1>5. ASSUME NEW m \in Nat, Has(s, m) PROVE Has(t, m)
  BY <1>1, <1>5 DEF Has
<1>6. ASSUME NEW m \in Nat, Has(t, m), ~Has(s, m) PROVE m = n
  <2>1. PICK i \in 1 .. Len(t) : t[i] = m
    BY <1>6 DEF Has
  <2>2. i \notin 1 .. Len(s)
    BY <1>1, <1>6, <2>1 DEF Has
  <2> QED BY <1>1, <2>1, <2>2
<1>7. Past(t, n + 1)
  <2>1. ASSUME NEW i \in 1 .. Len(t) PROVE t[i] < n + 1
    <3>1. CASE i \in 1 .. Len(s)
      <4>1. t[i] = s[i] /\ s[i] \in Nat /\ s[i] < n
        BY <1>1, <3>1 DEF Past
      <4> QED BY <4>1
    <3>2. CASE i = Len(s) + 1
      BY <1>1, <3>2
    <3> QED BY <1>1, <3>1, <3>2
  <2> QED BY <2>1 DEF Past
<1> QED BY <1>2, <1>3, <1>4, <1>5, <1>6, <1>7 DEF Ascending

(* What the history retains stays retained or becomes older than all of it,   *)
(* when an event is added and when the oldest one is evicted.                 *)
LEMMA KeptExtended ==
    ASSUME NEW s \in Seq(Nat), NEW n \in Nat, Ascending(s), Past(s, n), NEW t, Extends(t, s, n),
           NEW m \in Nat, Kept(m, s)
    PROVE  Kept(m, t)
<1>1. CASE Has(s, m)
  BY <1>1, AscendingAppend, Zenon DEF Kept
<1>2. CASE s # <<>> /\ m < s[1]
  <2>1. 1 \in 1 .. Len(s)
    BY <1>2
  <2>2. t[1] = s[1] /\ t # <<>>
    BY <2>1, AscendingAppend DEF Extends
  <2> QED BY <1>2, <2>2 DEF Kept
<1> QED BY <1>1, <1>2 DEF Kept

(* An ascending sequence without its first number. *)
LEMMA ShortenedFacts ==
    ASSUME NEW s \in Seq(Nat), NEW n \in Nat, Ascending(s), Past(s, n), NEW r, Shortened(r, s)
    PROVE  /\ r \in Seq(Nat) /\ Ascending(r) /\ Past(r, n)
           /\ \A m \in Nat : Has(r, m) => Has(s, m)
           /\ \A m \in Nat : Has(s, m) => m = s[1] \/ Has(r, m)
           /\ s[1] \in Nat /\ s[1] < n /\ \A i \in 1 .. Len(r) : s[1] < r[i]
<1>1. /\ r \in Seq(Nat) /\ Len(s) \in Nat /\ Len(s) >= 1 /\ Len(r) = Len(s) - 1
      /\ \A i \in 1 .. Len(r) : r[i] = s[i + 1] /\ i + 1 \in 1 .. Len(s) /\ 1 < i + 1
      /\ 1 \in 1 .. Len(s)
  BY DEF Shortened
<1>2. Ascending(r)
  <2>1. ASSUME NEW i \in 1 .. Len(r), NEW j \in 1 .. Len(r), i < j PROVE r[i] < r[j]
    <3>1. i + 1 \in 1 .. Len(s) /\ j + 1 \in 1 .. Len(s) /\ i + 1 < j + 1
      BY <1>1, <2>1
    <3> QED BY <1>1, <3>1 DEF Ascending
  <2> QED BY <2>1 DEF Ascending
<1>3. Past(r, n) /\ s[1] \in Nat /\ s[1] < n
  <2>1. ASSUME NEW i \in 1 .. Len(r) PROVE r[i] < n
    <3>1. r[i] = s[i + 1] /\ i + 1 \in 1 .. Len(s)
      BY <1>1
    <3> QED BY <3>1 DEF Past
  <2>2. s[1] \in Nat /\ s[1] < n
    BY <1>1 DEF Past
  <2> QED BY <2>1, <2>2 DEF Past
<1>4. \A i \in 1 .. Len(r) : s[1] < r[i]
  BY <1>1 DEF Ascending
<1>5. ASSUME NEW m \in Nat, Has(r, m) PROVE Has(s, m)
  BY <1>1, <1>5 DEF Has
<1>6. ASSUME NEW m \in Nat, Has(s, m), m # s[1] PROVE Has(r, m)
  <2>1. PICK i \in 1 .. Len(s) : s[i] = m
    BY <1>6 DEF Has
  <2>2. i - 1 \in 1 .. Len(r) /\ (i - 1) + 1 = i
    BY <1>1, <1>6, <2>1
  <2>3. r[i - 1] = m
    BY <1>1, <2>1, <2>2
  <2> QED BY <2>2, <2>3 DEF Has
<1> QED BY <1>1, <1>2, <1>3, <1>4, <1>5, <1>6

(* Eviction of the oldest number while another is added. *)
LEMMA KeptEvicted ==
    ASSUME NEW s \in Seq(Nat), NEW n \in Nat, Ascending(s), Past(s, n), NEW r, Shortened(r, s),
           NEW t, Extends(t, r, n), NEW m \in Nat, Kept(m, s)
    PROVE  Kept(m, t)
<1>1. /\ r \in Seq(Nat) /\ Ascending(r) /\ Past(r, n)
      /\ \A k \in Nat : Has(s, k) => k = s[1] \/ Has(r, k)
      /\ s[1] \in Nat /\ s[1] < n /\ \A i \in 1 .. Len(r) : s[1] < r[i]
  BY ShortenedFacts, Zenon
<1>2. t # <<>> /\ \A k \in Nat : Has(r, k) => Has(t, k)
  BY <1>1, AscendingAppend, Zenon
<1>3. s[1] < t[1] /\ t[1] \in Nat
  <2>1. t \in Seq(Nat) /\ Len(r) \in Nat /\ 1 \in 1 .. Len(t) /\ Len(t) = Len(r) + 1
        /\ t[Len(r) + 1] = n
    BY <1>1 DEF Extends
  <2>2. CASE Len(r) = 0
    BY <1>1, <2>1, <2>2
  <2>3. CASE Len(r) # 0
    <3>1. 1 \in 1 .. Len(r)
      BY <2>1, <2>3
    <3>2. t[1] = r[1]
      BY <3>1 DEF Extends
    <3> QED BY <1>1, <2>1, <3>1, <3>2
  <2> QED BY <2>2, <2>3
<1>4. CASE Has(s, m)
  <2>1. CASE m = s[1]
    BY <1>2, <1>3, <2>1 DEF Kept
  <2>2. CASE Has(r, m)
    BY <1>2, <2>2 DEF Kept
  <2> QED BY <1>1, <1>4, <2>1, <2>2
<1>5. CASE s # <<>> /\ m < s[1]
  <2>1. m < t[1]
    BY <1>1, <1>3, <1>5
  <2> QED BY <1>2, <2>1 DEF Kept
<1> QED BY <1>4, <1>5 DEF Kept

\* The history s with n added, its oldest evicted when it is full.
Retaining(s, n) == Append(IF Evicted(s) THEN Tail(s) ELSE s, n)

(* What publish does to the history: it stays in order and keeps what it kept. *)
LEMMA Retain ==
    ASSUME NEW s \in Seq(Nat), NEW n \in Nat, Ascending(s), Past(s, n),
           NEW t, t = Retaining(s, n)
    PROVE  /\ t \in Seq(Nat) /\ Ascending(t) /\ Has(t, n) /\ Past(t, n + 1)
           /\ \A m \in Nat : Has(t, m) => m = n \/ Has(s, m)
           /\ \A m \in Nat : Kept(m, s) => Kept(m, t)
<1>1. CASE ~Evicted(s)
  <2>1. Extends(t, s, n)
    BY <1>1, AppendExtends DEF Retaining
  <2>2. t \in Seq(Nat)
    BY <2>1 DEF Extends
  <2>3. Ascending(t) /\ Has(t, n) /\ Past(t, n + 1) /\ \A m \in Nat : Has(t, m) => m = n \/ Has(s, m)
    BY <2>1, AscendingAppend, Zenon
  <2> QED BY <2>1, <2>2, <2>3, KeptExtended, Zenon
<1>2. CASE Evicted(s)
  <2>1. Len(s) # 0 /\ s # <<>>
    BY <1>2 DEF Evicted, EventsAssumption
  <2>2. PICK r : r = Tail(s)
    OBVIOUS
  <2>3. Shortened(r, s)
    BY <2>1, <2>2, TailShortened
  <2>4. /\ r \in Seq(Nat) /\ Ascending(r) /\ Past(r, n)
        /\ \A m \in Nat : Has(r, m) => Has(s, m)
    BY <2>3, ShortenedFacts, Zenon
  <2>5. Extends(t, r, n)
    BY <1>2, <2>2, <2>4, AppendExtends DEF Retaining
  <2>6. t \in Seq(Nat)
    BY <2>5 DEF Extends
  <2>7. Ascending(t) /\ Has(t, n) /\ Past(t, n + 1) /\ \A m \in Nat : Has(t, m) => m = n \/ Has(r, m)
    BY <2>4, <2>5, AscendingAppend, Zenon
  <2>8. \A m \in Nat : Kept(m, s) => Kept(m, t)
    BY <2>3, <2>5, KeptEvicted, Zenon
  <2> QED BY <2>4, <2>6, <2>7, <2>8, Zenon
<1> QED BY <1>1, <1>2

(* Numbers start at 1. *)
LEMMA RetainPositive ==
    ASSUME NEW s \in Seq(Nat), NEW t \in Seq(Nat), NEW n \in Nat, Positive(s), 1 <= n,
           \A m \in Nat : Has(t, m) => m = n \/ Has(s, m)
    PROVE  Positive(t)
BY DEF Positive, Has

(* A step of a publisher or of the host keeps the feed in order.              *)
LEMMA FeedStep ==
    ASSUME CloseInv, OneAtATime, Feed, [Next]_vars, ~Bridged
    PROVE  Feed'
<1>0. HostOK /\ ReaderPub /\ FinisherPub /\ OnePublisher
  BY DEF CloseInv
<1>p. /\ Publisher = {"reader", "finisher"}
      /\ pub \in [Publisher -> [step : {"idle", "state", "history", "send"},
                               seq : Nat, event : Kind \cup {Closed}]]
      /\ host \in Host
  BY <1>0 DEF HostOK, Publisher
<1>s. seq \in [Host -> Nat] /\ lastSeq \in [Host -> Nat]
  BY <1>0 DEF HostOK
<1>h. history \in [Host -> Seq(Nat)] /\ sent \in [Host -> Seq(Nat)]
  BY <1>0 DEF HostOK
<1>f. /\ \A h \in Host : FeedAt(h)
      /\ \A p \in Publisher : InFlight(p)
  BY DEF Feed
<1>1. ASSUME NEW p \in Publisher, NEW event, Number(p, event),
             UNCHANGED <<host, history, sent, lastSeq>>,
             \A q \in Publisher : pub[q].step = "idle"
      PROVE  Feed'
  <2>1. seq' = [seq EXCEPT ![host] = seq[host] + 1]
        /\ pub' = [pub EXCEPT ![p] = [step |-> "state", seq |-> seq[host] + 1, event |-> event]]
    BY <1>1 DEF Number
  <2>2. ASSUME NEW h \in Host PROVE FeedAt(h)'
    <3>1. seq[h] + 1 \in Nat /\ seq'[h] + 1 \in Nat /\ seq[h] + 1 <= seq'[h] + 1
          /\ lastSeq[h] <= seq'[h]
      BY <1>p, <1>s, <1>f, <2>1 DEF FeedAt
    <3>2. Past(history[h], seq'[h] + 1) /\ Past(sent[h], seq'[h] + 1)
      BY <1>f, <1>h, <3>1, PastMore DEF FeedAt
    <3> QED BY <1>1, <1>f, <3>1, <3>2 DEF FeedAt
  <2>3. ASSUME NEW q \in Publisher PROVE InFlight(q)'
    <3>1. CASE q = p
      <4>1. /\ pub'[p].step = "state" /\ pub'[p].seq = seq[host] + 1 /\ seq'[host] = seq[host] + 1
            /\ 1 <= seq[host] + 1
        BY <1>p, <1>s, <2>1
      <4>2. Past(history[host], seq[host] + 1) /\ Past(sent[host], seq[host] + 1)
        BY <1>p, <1>f DEF FeedAt
      <4> QED BY <1>1, <3>1, <4>1, <4>2 DEF InFlight
    <3>2. CASE q # p
      BY <1>1, <1>p, <2>1, <3>2 DEF InFlight
    <3> QED BY <3>1, <3>2
  <2> QED BY <2>2, <2>3 DEF Feed
<1>2. ASSUME NEW event \in Kind, ReaderTake(event) PROVE Feed'
  <2>1. reader = "loop"
    BY <1>2 DEF ReaderTake
  <2>2. \A q \in Publisher : pub[q].step = "idle"
    BY <1>0, <1>p, <2>1 DEF ReaderPub, FinisherPub, OnePublisher
  <2> QED BY <1>1, <1>2, <1>p, <2>2 DEF ReaderTake
<1>3. ASSUME FinishBegin PROVE Feed'
  <2>1. finishing = "wanted" /\ reader \in {"ended", "off"}
    BY <1>0, <1>3 DEF FinishBegin, OnePublisher
  <2>2. \A q \in Publisher : pub[q].step = "idle"
    BY <1>0, <1>p, <2>1 DEF ReaderPub, FinisherPub
  <2> QED BY <1>1, <1>3, <1>p, <2>2 DEF FinishBegin
<1>4. ASSUME NEW p \in Publisher, PublishState(p) PROVE Feed'
  <2>1. /\ pub[p].step = "state" /\ pub' = [pub EXCEPT ![p].step = "history"]
        /\ lastSeq' = [lastSeq EXCEPT ![host] = pub[p].seq]
        /\ UNCHANGED <<host, seq, history, sent>>
    BY <1>4 DEF PublishState, Step
  <2>2. ASSUME NEW h \in Host PROVE FeedAt(h)'
    <3>1. lastSeq'[h] <= seq[h]
      BY <1>p, <1>s, <1>f, <2>1 DEF FeedAt, InFlight
    <3> QED BY <1>f, <2>1, <3>1 DEF FeedAt
  <2>3. ASSUME NEW q \in Publisher PROVE InFlight(q)'
    <3>1. pub'[q].seq = pub[q].seq /\ (pub'[q].step = "send" <=> pub[q].step = "send")
          /\ (pub'[q].step = "idle" <=> pub[q].step = "idle")
      BY <1>p, <2>1
    <3> QED BY <1>f, <2>1, <3>1 DEF InFlight
  <2> QED BY <2>2, <2>3 DEF Feed
<1>5. ASSUME NEW p \in Publisher, PublishHistory(p) PROVE Feed'
  <2>1. /\ pub[p].step = "history" /\ pub' = [pub EXCEPT ![p].step = "send"]
        /\ UNCHANGED <<host, seq, lastSeq, sent>>
    BY <1>5 DEF PublishHistory, Step
  <2>2. PICK t : t = Retaining(history[host], pub[p].seq) /\ history' = [history EXCEPT ![host] = t]
    BY <1>5 DEF PublishHistory, Retaining
  <2>3. /\ pub[p].seq = seq[host] /\ 1 <= pub[p].seq /\ pub[p].seq \in Nat
        /\ Past(sent[host], pub[p].seq) /\ Past(history[host], pub[p].seq)
    BY <1>f, <1>p, <2>1 DEF InFlight
  <2>4. /\ history[host] \in Seq(Nat) /\ Ascending(history[host]) /\ Positive(history[host])
        /\ AllKept(sent[host], history[host]) /\ sent[host] \in Seq(Nat)
    BY <1>f, <1>h, <1>p DEF FeedAt
  <2>5. /\ t \in Seq(Nat) /\ Ascending(t) /\ Has(t, pub[p].seq) /\ Past(t, pub[p].seq + 1)
        /\ \A m \in Nat : Has(t, m) => m = pub[p].seq \/ Has(history[host], m)
        /\ \A m \in Nat : Kept(m, history[host]) => Kept(m, t)
    <3>1. \A s \in Seq(Nat), n \in Nat :
             Ascending(s) /\ Past(s, n) =>
               LET u == Retaining(s, n) IN
               /\ u \in Seq(Nat) /\ Ascending(u) /\ Has(u, n) /\ Past(u, n + 1)
               /\ \A m \in Nat : Has(u, m) => m = n \/ Has(s, m)
               /\ \A m \in Nat : Kept(m, s) => Kept(m, u)
      BY Retain, Zenon
    <3> QED BY <2>2, <2>3, <2>4, <3>1, Zenon
  <2>6. Positive(t)
    BY <2>3, <2>4, <2>5, RetainPositive, Zenon
  <2>7. AllKept(sent[host], t)
    <3> SUFFICES ASSUME NEW i \in 1 .. Len(sent[host])
                 PROVE  Kept(sent[host][i], t)
      BY Zenon DEF AllKept
    <3>1. Kept(sent[host][i], history[host])
      BY <2>4, Zenon DEF AllKept
    <3>2. sent[host][i] \in Nat
      BY <2>4
    <3> QED BY <2>5, <3>1, <3>2, Zenon
  <2>8. ASSUME NEW h \in Host PROVE FeedAt(h)'
    <3>1. CASE h = host
      <4>1. history'[host] = t
        BY <1>h, <1>p, <2>2, Zenon
      <4> QED BY <1>f, <1>p, <2>1, <2>3, <2>5, <2>6, <2>7, <3>1, <4>1, Zenon DEF FeedAt
    <3>2. CASE h # host
      <4>1. history'[h] = history[h]
        BY <1>h, <2>2, <3>2, Zenon
      <4> QED BY <1>f, <2>1, <4>1, Zenon DEF FeedAt
    <3> QED BY <3>1, <3>2
  <2>9. ASSUME NEW q \in Publisher PROVE InFlight(q)'
    <3>1. CASE q = p
      <4>1. pub'[p].step = "send" /\ pub'[p].seq = pub[p].seq
        BY <1>p, <2>1
      <4>2. history'[host] = t
        BY <1>h, <1>p, <2>2, Zenon
      <4> QED BY <2>1, <2>3, <2>5, <3>1, <4>1, <4>2 DEF InFlight
    <3>2. CASE q # p
      <4>1. pub'[q].step = "idle"
        BY <1>p, <2>1, <3>2 DEF OneAtATime
      <4> QED BY <4>1 DEF InFlight
    <3> QED BY <3>1, <3>2
  <2> QED BY <2>8, <2>9 DEF Feed
<1>6. ASSUME NEW p \in Publisher, Sent(p) PROVE Feed'
  <2>1. /\ pub[p].step = "send" /\ pub' = [pub EXCEPT ![p] = Idle]
        /\ UNCHANGED <<host, seq, lastSeq, history>>
    BY <1>6 DEF Sent
  <2>2. PICK t : t = Append(sent[host], pub[p].seq) /\ sent' = [sent EXCEPT ![host] = t]
    BY <1>6 DEF Sent
  <2>3. /\ pub[p].seq = seq[host] /\ pub[p].seq \in Nat
        /\ Past(sent[host], pub[p].seq) /\ Has(history[host], pub[p].seq)
    BY <1>f, <1>p, <2>1 DEF InFlight
  <2>4. /\ sent[host] \in Seq(Nat) /\ Ascending(sent[host]) /\ AllKept(sent[host], history[host])
    BY <1>f, <1>h, <1>p DEF FeedAt
  <2>5. Extends(t, sent[host], pub[p].seq)
    BY <2>2, <2>3, <2>4, AppendExtends
  <2>6. Ascending(t) /\ Past(t, pub[p].seq + 1)
    BY <2>3, <2>4, <2>5, AscendingAppend, Zenon
  <2>7. AllKept(t, history[host])
    <3>1. ASSUME NEW i \in 1 .. Len(t) PROVE Kept(t[i], history[host])
      <4>1. CASE i \in 1 .. Len(sent[host])
        BY <2>4, <2>5, <4>1 DEF AllKept, Extends
      <4>2. CASE i = Len(sent[host]) + 1
        BY <2>3, <2>5, <4>2 DEF Kept, Extends
      <4> QED BY <2>4, <2>5, <4>1, <4>2 DEF Extends
    <3> QED BY <3>1 DEF AllKept
  <2>8. ASSUME NEW h \in Host PROVE FeedAt(h)'
    <3>1. CASE h = host
      <4>1. sent'[host] = t
        BY <1>h, <1>p, <2>2, Zenon
      <4> QED BY <1>f, <1>p, <2>1, <2>3, <2>6, <2>7, <3>1, <4>1, Zenon DEF FeedAt
    <3>2. CASE h # host
      <4>1. sent'[h] = sent[h]
        BY <1>h, <2>2, <3>2, Zenon
      <4> QED BY <1>f, <2>1, <4>1, Zenon DEF FeedAt
    <3> QED BY <3>1, <3>2
  <2>9. ASSUME NEW q \in Publisher PROVE InFlight(q)'
    <3>1. pub'[q].step = "idle"
      BY <1>p, <2>1 DEF OneAtATime, Idle
    <3> QED BY <3>1 DEF InFlight
  <2> QED BY <2>8, <2>9 DEF Feed
<1>7. ASSUME UNCHANGED <<host, seq, lastSeq, history, sent, pub>> PROVE Feed'
  BY <1>7, <1>f DEF Feed, FeedAt, InFlight
<1>8. ASSUME ReaderBreak \/ ReaderExit \/ Terminate \/ TerminateFinish PROVE Feed'
  BY <1>7, <1>8 DEF ReaderBreak, ReaderExit, Terminate, TerminateFinish, hostVars
<1>9. ASSUME ReaderAborted PROVE Feed'
  <2>1. UNCHANGED hostVars /\ pub' = [pub EXCEPT !["reader"] = Idle]
    BY <1>9 DEF ReaderAborted
  <2>2. \A q \in Publisher : pub'[q].step = "idle" \/ pub'[q] = pub[q]
    BY <1>p, <2>1 DEF Idle
  <2> QED BY <1>f, <2>1, <2>2 DEF Feed, FeedAt, InFlight, hostVars
<1>10. ASSUME Reopen PROVE Feed'
  <2>1. \A q \in Publisher : pub[q].step = "idle"
    BY <1>0, <1>10, <1>p DEF Reopen, Stopped, ReaderPub, FinisherPub
  <2>2. UNCHANGED <<seq, lastSeq, history, sent, pub>>
    BY <1>10 DEF Reopen
  <2> QED BY <1>f, <2>1, <2>2 DEF Feed, FeedAt, InFlight
<1>11. ASSUME NEW c \in Client, ClientNext(c) PROVE UNCHANGED <<hostVars, taskVars>>
  BY <1>11 DEF ClientNext, SnapshotBoundary, SnapshotEvents, ChildBoundary, ChildEvents,
               SnapshotFails, Subscribe, CopyHistory, Replay, ReplayRefused, Receive,
               Lagged, Disconnect, Snapshot, Forget
<1> QED
  BY <1>2, <1>3, <1>4, <1>5, <1>6, <1>7, <1>8, <1>9, <1>10, <1>11, <1>p
  DEF Next, HostNext, Publish, vars, hostVars, taskVars, FailClosed, ReaderSent, FinishSent

\* n was broadcast on host h, or is the number of a publication under way there.
Known(h, n) ==
    \/ Has(sent[h], n)
    \/ h = host /\ \E p \in Publisher : pub[p].step # "idle" /\ pub[p].seq = n

\* A client holds the host of its snapshot or a later one.
Where(c) ==
    /\ base[c][1] <= on[c] /\ on[c] <= host /\ base[c][2] <= seq[base[c][1]]
    /\ at[c] \in {"out", "snapshot", "child"} => got[c] = <<>> /\ on[c] = base[c][1]

\* What it was given ascends on each host, and the cursor is past all of it.
OrderedTo(g, h, n) ==
    /\ \A i, j \in 1 .. Len(g) : i < j /\ g[i][1] = g[j][1] => g[i][2] < g[j][2]
    /\ \A j \in 1 .. Len(g) : g[j][1] <= h /\ (g[j][1] = h => g[j][2] <= n)
Ordered(c) == OrderedTo(got[c], on[c], cursor[c])

WasGiven(c, n) == \E j \in 1 .. Len(got[c]) : got[c][j] = <<on[c], n>>

\* Up to its cursor, it was given all that its snapshot does not cover.
Given(c) ==
    at[c] \in {"loaded", "attach", "history", "live"} /\ on[c] = base[c][1] =>
        /\ cursor[c] <= seq[on[c]]
        /\ \A n \in Nat : Known(on[c], n) /\ n <= cursor[c] => n <= base[c][2] \/ WasGiven(c, n)

\* The copy of the history leaves out only what is older or newer than all of it.
Copied(c) ==
    at[c] = "history" =>
        /\ Ascending(retained[c]) /\ Positive(retained[c]) /\ Past(retained[c], seq[on[c]] + 1)
        /\ \A n \in Nat : Known(on[c], n) => Kept(n, retained[c]) \/ Past(retained[c], n)
        /\ \A i \in 1 .. pos[c] : Kept(sent[on[c]][i], retained[c])

\* The receiver is behind the broadcast, and the cursor of a live client past it.
Attached(c) ==
    /\ at[c] \in {"attach", "history", "live"} => pos[c] <= Len(sent[on[c]])
    /\ at[c] = "live" => \A i \in 1 .. pos[c] : sent[on[c]][i] <= cursor[c]

Follows(c) == Where(c) /\ Ordered(c) /\ Given(c) /\ Copied(c) /\ Attached(c)

(* What a step of a publisher or of the host does to what clients rely on.    *)
Forward ==
    /\ host \in Host /\ host' \in Host /\ host <= host'
    /\ \A h \in Host :
          /\ seq[h] \in Nat /\ seq'[h] \in Nat /\ seq[h] <= seq'[h]
          /\ Len(sent[h]) \in Nat /\ Len(sent'[h]) \in Nat /\ Len(sent[h]) <= Len(sent'[h])
          /\ \A i \in 1 .. Len(sent[h]) : sent'[h][i] = sent[h][i]
          /\ \A n \in Nat : Known(h, n)' => Known(h, n) \/ seq[h] < n

(* A number is known because it was before, or because it was just given out. *)
LEMMA KnownForward ==
    ASSUME NEW h \in Host, NEW n \in Nat, Known(h, n)', host' = host,
           Has(sent'[h], n) => Known(h, n),
           \A p \in Publisher : \/ pub'[p].step = "idle"
                                \/ pub[p].step # "idle" /\ pub'[p].seq = pub[p].seq
                                \/ seq[host] < pub'[p].seq
    PROVE  Known(h, n) \/ seq[h] < n
<1>1. CASE Has(sent'[h], n)
  BY <1>1
<1>2. CASE h = host' /\ \E p \in Publisher : pub'[p].step # "idle" /\ pub'[p].seq = n
  BY <1>2 DEF Known
<1> QED BY <1>1, <1>2 DEF Known

(* No step of a publisher or of the host takes back what clients rely on. *)
LEMMA HostForward ==
    ASSUME CloseInv, HostOK', HostNext, ~Bridged
    PROVE  Forward
<1>0. HostOK /\ ReaderPub /\ FinisherPub /\ OnePublisher
  BY DEF CloseInv
<1>p. /\ host \in Host /\ host' \in Host /\ Host \subseteq Nat
      /\ pub \in [Publisher -> [step : {"idle", "state", "history", "send"},
                               seq : Nat, event : Kind \cup {Closed}]]
      /\ Publisher = {"reader", "finisher"}
  BY <1>0 DEF HostOK, Host, Publisher
<1>s. seq \in [Host -> Nat] /\ seq' \in [Host -> Nat]
  BY <1>0 DEF HostOK
<1>h. sent \in [Host -> Seq(Nat)] /\ sent' \in [Host -> Seq(Nat)]
  BY <1>0 DEF HostOK
<1>l. \A h \in Host : seq[h] \in Nat /\ seq'[h] \in Nat /\ Len(sent[h]) \in Nat /\ Len(sent'[h]) \in Nat
  BY <1>s, <1>h
<1> DEFINE PubForward ==
             \A p \in Publisher : \/ pub'[p].step = "idle"
                                  \/ pub[p].step # "idle" /\ pub'[p].seq = pub[p].seq
                                  \/ seq[host] < pub'[p].seq
<1>1. ASSUME UNCHANGED <<host, sent>>, PubForward, \A h \in Host : seq[h] <= seq'[h] PROVE Forward
  <2>1. ASSUME NEW h \in Host, NEW n \in Nat, Known(h, n)' PROVE Known(h, n) \/ seq[h] < n
    <3>1. Has(sent'[h], n) => Known(h, n)
      BY <1>1 DEF Known
    <3> QED BY <1>1, <2>1, <3>1, KnownForward
  <2> QED BY <1>1, <1>p, <1>l, <2>1 DEF Forward
<1>2. ASSUME NEW p \in Publisher, NEW event, Number(p, event), UNCHANGED <<host, sent>> PROVE Forward
  <2>1. seq' = [seq EXCEPT ![host] = seq[host] + 1]
        /\ pub' = [pub EXCEPT ![p] = [step |-> "state", seq |-> seq[host] + 1, event |-> event]]
    BY <1>2 DEF Number
  <2>2. \A h \in Host : seq[h] <= seq'[h]
    BY <1>p, <1>s, <2>1
  <2>3. PubForward
    <3>1. \A q \in Publisher : IF q = p THEN pub'[q].seq = seq[host] + 1 ELSE pub'[q] = pub[q]
      BY <1>p, <2>1
    <3>2. seq[host] < seq[host] + 1
      BY <1>p, <1>l
    <3> QED
      <4>1. ASSUME NEW q \in Publisher
            PROVE  \/ pub'[q].step = "idle"
                   \/ pub[q].step # "idle" /\ pub'[q].seq = pub[q].seq
                   \/ seq[host] < pub'[q].seq
        BY <3>1, <3>2
      <4> QED BY <4>1
  <2> QED BY <1>1, <1>2, <2>2, <2>3
<1>3. ASSUME NEW p \in Publisher, Publish(p) PROVE Forward
  <2>1. /\ pub[p].step # "idle" /\ UNCHANGED <<host, sent, seq>>
        /\ \E to \in {"history", "send"} : pub' = [pub EXCEPT ![p].step = to]
    BY <1>3 DEF Publish, PublishState, PublishHistory, Step
  <2>2. \A q \in Publisher : pub'[q].seq = pub[q].seq /\ (q # p => pub'[q] = pub[q])
    BY <1>p, <2>1
  <2>3. PubForward
    BY <2>1, <2>2, Zenon
  <2>4. \A h \in Host : seq[h] <= seq'[h]
    BY <1>l, <2>1
  <2> QED BY <1>1, <2>1, <2>3, <2>4
<1>4. ASSUME NEW p \in Publisher, Sent(p) PROVE Forward
  <2>1. /\ pub[p].step = "send" /\ pub' = [pub EXCEPT ![p] = Idle]
        /\ UNCHANGED <<host, seq>>
    BY <1>4 DEF Sent
  <2>2. PICK t : t = Append(sent[host], pub[p].seq) /\ sent' = [sent EXCEPT ![host] = t]
    BY <1>4 DEF Sent
  <2>3. sent[host] \in Seq(Nat) /\ pub[p].seq \in Nat
    BY <1>h, <1>p
  <2>4. Extends(t, sent[host], pub[p].seq)
    BY <2>2, <2>3, AppendExtends
  <2>5. PubForward
    <3>1. ASSUME NEW q \in Publisher PROVE pub'[q].step = "idle" \/ pub'[q] = pub[q]
      BY <1>p, <2>1 DEF Idle
    <3> QED BY <3>1, Zenon
  <2>6. ASSUME NEW h \in Host
        PROVE  /\ Len(sent[h]) <= Len(sent'[h])
               /\ \A i \in 1 .. Len(sent[h]) : sent'[h][i] = sent[h][i]
               /\ \A n \in Nat : Has(sent'[h], n) => Known(h, n)
    <3>1. CASE h # host
      <4>1. sent'[h] = sent[h]
        BY <1>h, <2>2, <3>1, Zenon
      <4> QED BY <1>l, <4>1 DEF Known
    <3>2. CASE h = host
      <4>1. sent'[h] = t
        BY <1>h, <2>2, <3>2, Zenon
      <4>2. ASSUME NEW n \in Nat, Has(t, n) PROVE Known(h, n)
        <5>1. PICK i \in 1 .. Len(t) : t[i] = n
          BY <4>2 DEF Has
        <5>2. CASE i \in 1 .. Len(sent[host])
          <6>1. sent[host][i] = n
            BY <2>4, <5>1, <5>2 DEF Extends
          <6> QED BY <3>2, <5>2, <6>1 DEF Known, Has
        <5>3. CASE i = Len(sent[host]) + 1
          <6>1. pub[p].seq = n
            BY <2>4, <5>1, <5>3 DEF Extends
          <6> QED BY <2>1, <3>2, <6>1 DEF Known
        <5>4. Len(t) = Len(sent[host]) + 1 /\ Len(sent[host]) \in Nat
          BY <1>l, <1>p, <2>4 DEF Extends
        <5> QED BY <5>2, <5>3, <5>4
      <4> QED BY <1>l, <1>p, <2>4, <3>2, <4>1, <4>2 DEF Extends
    <3> QED BY <3>1, <3>2
  <2>7. ASSUME NEW h \in Host, NEW n \in Nat, Known(h, n)' PROVE Known(h, n) \/ seq[h] < n
    BY <2>1, <2>5, <2>6, <2>7, KnownForward
  <2>8. \A h \in Host : seq[h] <= seq'[h]
    BY <1>l, <2>1
  <2> QED BY <1>l, <1>p, <2>1, <2>6, <2>7, <2>8 DEF Forward
<1>5. ASSUME ReaderBreak \/ ReaderExit \/ Terminate \/ TerminateFinish PROVE Forward
  <2>1. UNCHANGED <<host, sent, seq, pub>>
    BY <1>5 DEF ReaderBreak, ReaderExit, Terminate, TerminateFinish, hostVars
  <2> QED BY <1>1, <1>l, <2>1
<1>6. ASSUME ReaderAborted PROVE Forward
  <2>1. UNCHANGED <<host, sent, seq>> /\ pub' = [pub EXCEPT !["reader"] = Idle]
    BY <1>6 DEF ReaderAborted, hostVars
  <2>2. \A q \in Publisher : pub'[q].step = "idle" \/ pub'[q] = pub[q]
    BY <1>p, <2>1 DEF Idle
  <2>3. PubForward
    BY <2>2, Zenon
  <2> QED BY <1>1, <1>l, <2>1, <2>3
<1>7. ASSUME Reopen PROVE Forward
  <2>1. \A q \in Publisher : pub[q].step = "idle"
    BY <1>0, <1>7, <1>p DEF Reopen, Stopped, ReaderPub, FinisherPub
  <2>2. UNCHANGED <<seq, sent, pub>> /\ host' = host + 1
    BY <1>7 DEF Reopen
  <2>5. \A h \in Host : seq[h] <= seq'[h] /\ Len(sent[h]) <= Len(sent'[h])
    BY <1>l, <2>2
  <2>3. ASSUME NEW h \in Host, NEW n \in Nat, Known(h, n)' PROVE Known(h, n)
    BY <2>1, <2>2, <2>3 DEF Known
  <2>4. host <= host'
    <3>1. host \in Nat
      BY <1>p
    <3> QED BY <2>2, <3>1
  <2> QED BY <1>l, <1>p, <2>2, <2>3, <2>4, <2>5 DEF Forward
<1>8. ASSUME NEW event \in Kind, ReaderTake(event) PROVE Forward
  BY <1>2, <1>8, <1>p DEF ReaderTake
<1>9. ASSUME FinishBegin PROVE Forward
  BY <1>2, <1>9, <1>p DEF FinishBegin
<1> QED
  BY <1>3, <1>4, <1>5, <1>6, <1>7, <1>8, <1>9, <1>p
  DEF HostNext, FailClosed, ReaderSent, FinishSent

(* What a client relies on survives every step that leaves the client alone.  *)
LEMMA FollowsForward ==
    ASSUME ClientOK, NEW c \in Client, Follows(c), Forward, UNCHANGED clientVars
    PROVE  Follows(c)'
<1>p. /\ on[c] \in Host /\ base[c] \in Host \X Nat /\ cursor[c] \in Nat /\ pos[c] \in Nat
      /\ retained[c] \in Seq(Nat) /\ Host \subseteq Nat
  BY DEF ClientOK, Host
<1>u. UNCHANGED <<at, on, base, got, cursor, pos, retained>>
  BY DEF clientVars
<1>f. /\ host \in Host /\ host' \in Host /\ host <= host'
      /\ \A h \in Host :
          /\ seq[h] \in Nat /\ seq'[h] \in Nat /\ seq[h] <= seq'[h]
          /\ Len(sent[h]) \in Nat /\ Len(sent'[h]) \in Nat /\ Len(sent[h]) <= Len(sent'[h])
          /\ \A i \in 1 .. Len(sent[h]) : sent'[h][i] = sent[h][i]
  BY DEF Forward
<1>k. \A n \in Nat : Known(on[c], n)' => Known(on[c], n) \/ seq[on[c]] < n
  BY <1>p, <1>u DEF Forward
<1>n. /\ seq[on[c]] \in Nat /\ seq'[on[c]] \in Nat /\ seq[on[c]] <= seq'[on[c]]
      /\ Len(sent[on[c]]) \in Nat /\ Len(sent'[on[c]]) \in Nat
      /\ Len(sent[on[c]]) <= Len(sent'[on[c]])
      /\ \A i \in 1 .. Len(sent[on[c]]) : sent'[on[c]][i] = sent[on[c]][i]
      /\ on[c] \in Nat /\ host \in Nat /\ host' \in Nat /\ host <= host'
  BY <1>p, <1>f
<1>1. Where(c)'
  <2>1. base[c][1] \in Host /\ base[c][2] \in Nat
    BY <1>p
  <2>2. base[c][1] <= on[c] /\ on[c] <= host /\ base[c][2] <= seq[base[c][1]]
    BY DEF Follows, Where
  <2>3. on[c] <= host' /\ base[c][2] <= seq'[base[c][1]]
    <3>1. seq[base[c][1]] \in Nat /\ seq'[base[c][1]] \in Nat /\ seq[base[c][1]] <= seq'[base[c][1]]
      BY <1>f, <2>1
    <3> QED BY <1>n, <2>1, <2>2, <3>1
  <2> QED BY <1>u, <2>2, <2>3 DEF Follows, Where
<1>2. Ordered(c)'
  BY <1>u DEF Follows, Ordered
<1>3. Given(c)'
  <2> SUFFICES ASSUME at[c] \in {"loaded", "attach", "history", "live"}, on[c] = base[c][1]
               PROVE  /\ cursor[c] <= seq'[on[c]]
                      /\ \A n \in Nat : Known(on[c], n)' /\ n <= cursor[c] => n <= base[c][2] \/ WasGiven(c, n)
    BY <1>u DEF Given, WasGiven
  <2>1. /\ cursor[c] <= seq[on[c]]
        /\ \A n \in Nat : Known(on[c], n) /\ n <= cursor[c] => n <= base[c][2] \/ WasGiven(c, n)
    BY DEF Follows, Given
  <2>2. cursor[c] <= seq'[on[c]]
    BY <1>p, <1>n, <2>1
  <2>3. ASSUME NEW n \in Nat, Known(on[c], n)', n <= cursor[c] PROVE n <= base[c][2] \/ WasGiven(c, n)
    <3>1. ~(seq[on[c]] < n)
      BY <1>p, <1>n, <2>1, <2>3
    <3>2. Known(on[c], n)
      BY <1>k, <2>3, <3>1
    <3> QED BY <2>1, <2>3, <3>2
  <2> QED BY <2>2, <2>3
<1>4. Copied(c)'
  <2> SUFFICES ASSUME at[c] = "history"
               PROVE  /\ Ascending(retained[c]) /\ Positive(retained[c]) /\ Past(retained[c], seq'[on[c]] + 1)
                      /\ \A n \in Nat : Known(on[c], n)' => Kept(n, retained[c]) \/ Past(retained[c], n)
                      /\ \A i \in 1 .. pos[c] : Kept(sent'[on[c]][i], retained[c])
    BY <1>u DEF Copied
  <2>1. /\ Ascending(retained[c]) /\ Positive(retained[c]) /\ Past(retained[c], seq[on[c]] + 1)
        /\ \A n \in Nat : Known(on[c], n) => Kept(n, retained[c]) \/ Past(retained[c], n)
        /\ \A i \in 1 .. pos[c] : Kept(sent[on[c]][i], retained[c])
    BY DEF Follows, Copied
  <2>2. seq[on[c]] + 1 \in Nat /\ seq'[on[c]] + 1 \in Nat /\ seq[on[c]] + 1 <= seq'[on[c]] + 1
    BY <1>n
  <2>3. Past(retained[c], seq'[on[c]] + 1)
    BY <1>p, <2>1, <2>2, PastMore
  <2>4. ASSUME NEW n \in Nat, Known(on[c], n)' PROVE Kept(n, retained[c]) \/ Past(retained[c], n)
    <3>1. CASE seq[on[c]] < n
      <4>1. seq[on[c]] + 1 <= n
        BY <1>n, <3>1
      <4> QED BY <1>p, <2>1, <2>2, <4>1, PastMore
    <3> QED BY <1>k, <2>1, <2>4, <3>1
  <2>5. pos[c] <= Len(sent[on[c]])
    BY DEF Follows, Attached
  <2>6. \A i \in 1 .. pos[c] : i \in 1 .. Len(sent[on[c]])
    BY <1>p, <1>n, <2>5
  <2>7. \A i \in 1 .. pos[c] : sent'[on[c]][i] = sent[on[c]][i]
    BY <1>p, <1>n, <2>6
  <2> QED BY <2>1, <2>3, <2>4, <2>7
<1>5. Attached(c)'
  <2> SUFFICES ASSUME at[c] \in {"attach", "history", "live"}
               PROVE  /\ pos[c] <= Len(sent'[on[c]])
                      /\ at[c] = "live" => \A i \in 1 .. pos[c] : sent'[on[c]][i] <= cursor[c]
    BY <1>u DEF Attached
  <2>1. pos[c] <= Len(sent[on[c]]) /\ (at[c] = "live" => \A i \in 1 .. pos[c] : sent[on[c]][i] <= cursor[c])
    BY DEF Follows, Attached
  <2>2. \A i \in 1 .. pos[c] : i \in 1 .. Len(sent[on[c]])
    BY <1>p, <1>n, <2>1
  <2>3. \A i \in 1 .. pos[c] : sent'[on[c]][i] = sent[on[c]][i]
    BY <1>p, <1>n, <2>2
  <2> QED BY <1>p, <1>n, <2>1, <2>3
<1> QED BY <1>1, <1>2, <1>3, <1>4, <1>5 DEF Follows

(* The filter in terms of what it contains.                                   *)
LEMMA AfterSelects ==
    ASSUME NEW s \in Seq(Nat), NEW n \in Nat, Ascending(s)
    PROVE  /\ After(s, n) \in Seq(Nat) /\ Ascending(After(s, n))
           /\ \A m \in Nat : Has(After(s, n), m) <=> n < m /\ Has(s, m)
<1> DEFINE e == After(s, n)
<1>1. Selects(e, s, n, Len(s))
  BY AfterFacts
<1> HIDE DEF e
<1>2. e \in Seq(Nat) /\ Ascending(e)
  BY <1>1 DEF Selects
<1>3. ASSUME NEW m \in Nat, Has(e, m) PROVE n < m /\ Has(s, m)
  <2>1. PICK k \in 1 .. Len(e) : e[k] = m
    BY <1>3 DEF Has
  <2>2. e[k] > n /\ \E i \in 1 .. Len(s) : e[k] = s[i]
    BY <1>1 DEF Selects
  <2> QED BY <2>1, <2>2 DEF Has
<1>4. ASSUME NEW m \in Nat, n < m, Has(s, m) PROVE Has(e, m)
  <2>1. PICK i \in 1 .. Len(s) : s[i] = m
    BY <1>4 DEF Has
  <2>2. \E k \in 1 .. Len(e) : e[k] = s[i]
    BY <1>1, <1>4, <2>1 DEF Selects
  <2> QED BY <2>1, <2>2 DEF Has
<1> QED BY <1>2, <1>3, <1>4 DEF e

(* The last number of an ascending sequence is its greatest. *)
LEMMA AscendingBack ==
    ASSUME NEW s \in Seq(Nat), Ascending(s), s # <<>>
    PROVE  Back(s) \in Nat /\ Has(s, Back(s)) /\ \A m \in Nat : Has(s, m) => m <= Back(s)
<1>1. Len(s) \in 1 .. Len(s) /\ Back(s) = s[Len(s)] /\ s[Len(s)] \in Nat
  BY DEF Back
<1>2. ASSUME NEW m \in Nat, Has(s, m) PROVE m <= s[Len(s)]
  <2>1. PICK i \in 1 .. Len(s) : s[i] = m
    BY <1>2 DEF Has
  <2>2. i = Len(s) \/ i < Len(s)
    OBVIOUS
  <2> QED BY <1>1, <2>1, <2>2 DEF Ascending
<1> QED BY <1>1, <1>2 DEF Has

\* Where a reader of s that stands at n stands after what s has past n.
Reached(s, n) == IF After(s, n) = <<>> THEN n ELSE Back(After(s, n))

\* The retained events s begin no later than after n.
Joins(s, n) == s # <<>> => s[1] <= n + 1

(* A reader at n that the retained events join is given all they keep past n, *)
(* and stops at the last of them.                                             *)
LEMMA ReplayJoins ==
    ASSUME NEW s \in Seq(Nat), NEW n \in Nat, Ascending(s), Joins(s, n)
    PROVE  /\ Reached(s, n) \in Nat /\ n <= Reached(s, n)
           /\ \A x \in Nat : Has(After(s, n), x) => n < x /\ x <= Reached(s, n)
           /\ \A x \in Nat : Kept(x, s) /\ n < x => Has(After(s, n), x)
           /\ \A x \in Nat : Past(s, x) /\ n < x => Reached(s, n) < x
<1> DEFINE e == After(s, n)
           r == Reached(s, n)
<1>1. /\ e \in Seq(Nat) /\ Ascending(e)
      /\ \A m \in Nat : Has(e, m) <=> n < m /\ Has(s, m)
  BY AfterSelects
<1>2. r = IF e = <<>> THEN n ELSE Back(e)
  BY DEF Reached
<1> HIDE DEF e, r
<1>3. e # <<>> => Back(e) \in Nat /\ Has(e, Back(e)) /\ \A m \in Nat : Has(e, m) => m <= Back(e)
  BY <1>1, AscendingBack, Zenon
<1>4. r \in Nat /\ n <= r
  BY <1>1, <1>2, <1>3
<1>5. ASSUME NEW x \in Nat, Has(e, x) PROVE n < x /\ x <= r
  <2>1. e # <<>>
    BY <1>5 DEF Has
  <2> QED BY <1>1, <1>2, <1>3, <1>5, <2>1
<1>6. ASSUME NEW x \in Nat, Kept(x, s), n < x PROVE Has(e, x)
  <2>1. CASE Has(s, x)
    BY <1>1, <1>6, <2>1
  <2>2. CASE s # <<>> /\ x < s[1]
    <3>1. 1 \in 1 .. Len(s)
      BY <2>2
    <3>2. s[1] \in Nat /\ s[1] <= n + 1
      BY <2>2, <3>1 DEF Joins
    <3> QED BY <1>6, <2>2, <3>2
  <2> QED BY <1>6, <2>1, <2>2 DEF Kept
<1>7. ASSUME NEW x \in Nat, Past(s, x), n < x PROVE r < x
  <2>1. CASE e = <<>>
    BY <1>2, <1>7, <2>1
  <2>2. CASE e # <<>>
    <3>1. Has(s, Back(e)) /\ Back(e) \in Nat
      BY <1>1, <1>3, <2>2
    <3>2. Back(e) < x
      BY <1>7, <3>1 DEF Has, Past
    <3> QED BY <1>2, <2>2, <3>2
  <2> QED BY <2>1, <2>2
<1> QED BY <1>4, <1>5, <1>6, <1>7 DEF e, r

\* t is what the client had, g, and then the events e of host h.
Joined(t, g, h, e) ==
    /\ t \in Seq(Host \X Nat) /\ Len(t) = Len(g) + Len(e)
    /\ \A j \in 1 .. Len(g) : t[j] = g[j]
    /\ \A k \in 1 .. Len(e) : t[Len(g) + k] = <<h, e[k]>>

(* Deliver puts the events behind what the client had. *)
LEMMA DeliverJoins ==
    ASSUME ClientOK, NEW c \in Client, NEW e \in Seq(Nat), Deliver(c, e)
    PROVE  Joined(got'[c], got[c], on[c], e)
<1>1. got[c] \in Seq(Host \X Nat) /\ on[c] \in Host /\ got \in [Client -> Seq(Host \X Nat)]
  BY DEF ClientOK
<1> DEFINE d == [i \in 1 .. Len(e) |-> <<on[c], e[i]>>]
<1>2. d \in Seq(Host \X Nat) /\ Len(d) = Len(e) /\ \A k \in 1 .. Len(e) : d[k] = <<on[c], e[k]>>
  <2>1. Len(e) \in Nat /\ \A i \in 1 .. Len(e) : e[i] \in Nat
    OBVIOUS
  <2> QED BY <1>1, <2>1
<1>3. got'[c] = got[c] \o d
  BY <1>1 DEF Deliver
<1> HIDE DEF d
<1>4. got[c] \o d \in Seq(Host \X Nat) /\ Len(got[c] \o d) = Len(got[c]) + Len(d)
  <2>1. \A S : \A p, q \in Seq(S) : p \o q \in Seq(S) /\ Len(p \o q) = Len(p) + Len(q)
    OBVIOUS
  <2> QED BY <1>1, <1>2, <2>1, Zenon
<1>5. \A j \in 1 .. Len(got[c]) : (got[c] \o d)[j] = got[c][j]
  BY <1>1, <1>2
<1>6. \A k \in 1 .. Len(e) : (got[c] \o d)[Len(got[c]) + k] = d[k]
  BY <1>1, <1>2
<1> QED BY <1>2, <1>3, <1>4, <1>5, <1>6 DEF Joined

\* t has all that g has, and the events e of host h.
Keeps(t, g) == \A x : (\E j \in 1 .. Len(g) : g[j] = x) => \E j \in 1 .. Len(t) : t[j] = x
Gives(t, h, e) == \A x \in Nat : Has(e, x) => \E j \in 1 .. Len(t) : t[j] = <<h, x>>

(* Nothing of either part is lost. *)
LEMMA JoinedFacts ==
    ASSUME NEW g \in Seq(Host \X Nat), NEW h \in Host, NEW e \in Seq(Nat), NEW t,
           Joined(t, g, h, e)
    PROVE  Keeps(t, g) /\ Gives(t, h, e)
<1>1. Len(g) \in Nat /\ Len(e) \in Nat /\ Len(t) = Len(g) + Len(e)
  BY DEF Joined
<1>2. ASSUME NEW x, NEW j \in 1 .. Len(g), g[j] = x PROVE \E i \in 1 .. Len(t) : t[i] = x
  BY <1>1, <1>2 DEF Joined
<1>3. ASSUME NEW n \in Nat, Has(e, n) PROVE \E j \in 1 .. Len(t) : t[j] = <<h, n>>
  <2>1. PICK k \in 1 .. Len(e) : e[k] = n
    BY <1>3 DEF Has
  <2>2. Len(g) + k \in 1 .. Len(t)
    BY <1>1
  <2> QED BY <2>1, <2>2 DEF Joined
<1> QED BY <1>2, <1>3 DEF Keeps, Gives

(* What ascends, and is past all the client had, leaves it ordered. *)
LEMMA OrderedMore ==
    ASSUME NEW g \in Seq(Host \X Nat), NEW h \in Host, NEW e \in Seq(Nat), NEW t, Joined(t, g, h, e),
           NEW m \in Nat, NEW n \in Nat, m <= n, OrderedTo(g, h, m), Ascending(e),
           \A k \in 1 .. Len(e) : m < e[k] /\ e[k] <= n
    PROVE  OrderedTo(t, h, n)
<1>1. /\ Len(g) \in Nat /\ Len(e) \in Nat /\ Len(t) = Len(g) + Len(e) /\ h \in Nat
      /\ \A j \in 1 .. Len(g) : g[j][1] \in Nat /\ g[j][2] \in Nat
      /\ \A k \in 1 .. Len(e) : e[k] \in Nat
  <2>1. ASSUME NEW j \in 1 .. Len(g) PROVE g[j][1] \in Nat /\ g[j][2] \in Nat
    <3>1. g[j] \in Host \X Nat
      OBVIOUS
    <3>2. g[j][1] \in Host /\ g[j][2] \in Nat
      BY <3>1
    <3> QED BY <3>2 DEF Host
  <2>2. h \in Nat
    BY DEF Host
  <2>3. Len(g) \in Nat /\ Len(e) \in Nat /\ \A k \in 1 .. Len(e) : e[k] \in Nat
    OBVIOUS
  <2> QED BY <2>1, <2>2, <2>3 DEF Joined
<1>2. ASSUME NEW j \in 1 .. Len(t)
      PROVE  \/ j \in 1 .. Len(g) /\ t[j] = g[j]
             \/ /\ j - Len(g) \in 1 .. Len(e) /\ j > Len(g)
                /\ t[j][1] = h /\ t[j][2] = e[j - Len(g)]
  <2>1. CASE j \in 1 .. Len(g)
    BY <2>1 DEF Joined
  <2>2. CASE j \notin 1 .. Len(g)
    <3>1. j - Len(g) \in 1 .. Len(e) /\ Len(g) + (j - Len(g)) = j /\ j > Len(g)
      BY <1>1, <2>2
    <3>2. t[j] = <<h, e[j - Len(g)]>>
      BY <3>1 DEF Joined
    <3> QED BY <3>1, <3>2
  <2> QED BY <2>1, <2>2
<1>3. ASSUME NEW j \in 1 .. Len(t) PROVE t[j][1] <= h /\ (t[j][1] = h => t[j][2] <= n)
  <2>1. CASE j \in 1 .. Len(g) /\ t[j] = g[j]
    BY <1>1, <2>1 DEF OrderedTo
  <2>2. CASE /\ j - Len(g) \in 1 .. Len(e) /\ j > Len(g)
             /\ t[j][1] = h /\ t[j][2] = e[j - Len(g)]
    BY <1>1, <2>2
  <2> QED BY <1>2, <2>1, <2>2
<1>4. ASSUME NEW i \in 1 .. Len(t), NEW j \in 1 .. Len(t), i < j, t[i][1] = t[j][1]
      PROVE  t[i][2] < t[j][2]
  <2>1. CASE j \in 1 .. Len(g) /\ t[j] = g[j]
    <3>1. i \in 1 .. Len(g) /\ t[i] = g[i]
      BY <1>1, <1>2, <1>4, <2>1
    <3> QED BY <1>4, <2>1, <3>1 DEF OrderedTo
  <2>2. CASE /\ j - Len(g) \in 1 .. Len(e) /\ j > Len(g)
             /\ t[j][1] = h /\ t[j][2] = e[j - Len(g)]
    <3>1. CASE i \in 1 .. Len(g) /\ t[i] = g[i]
      <4>1. g[i][2] <= m
        BY <1>1, <1>4, <2>2, <3>1 DEF OrderedTo
      <4>2. m < e[j - Len(g)]
        BY <2>2
      <4>3. g[i][2] \in Nat /\ e[j - Len(g)] \in Nat
        BY <1>1, <2>2, <3>1
      <4>4. \A a, b \in Nat : a <= m /\ m < b => a < b
        OBVIOUS
      <4>5. g[i][2] < e[j - Len(g)]
        BY <4>1, <4>2, <4>3, <4>4, Zenon
      <4> QED BY <2>2, <3>1, <4>5
    <3>2. CASE i - Len(g) \in 1 .. Len(e) /\ t[i][2] = e[i - Len(g)]
      <4>1. i - Len(g) < j - Len(g)
        BY <1>1, <1>4
      <4>2. e[i - Len(g)] < e[j - Len(g)]
        BY <2>2, <3>2, <4>1 DEF Ascending
      <4> QED BY <2>2, <3>2, <4>2
    <3> QED BY <1>2, <3>1, <3>2
  <2> QED BY <1>2, <2>1, <2>2
<1> QED BY <1>3, <1>4 DEF OrderedTo

(* What the feed says of a number known on a host, and its types.             *)
LEMMA KnownKept ==
    ASSUME HostOK, Feed, NEW h \in Host, NEW n \in Nat, Known(h, n)
    PROVE  Kept(n, history[h]) \/ Past(history[h], n)
<1>1. CASE Has(sent[h], n)
  BY <1>1 DEF Feed, FeedAt, AllKept, Has
<1>2. ASSUME h = host, NEW p \in Publisher, pub[p].step # "idle", pub[p].seq = n
      PROVE  Kept(n, history[h]) \/ Past(history[h], n)
  BY <1>2 DEF Feed, InFlight, Kept
<1> QED BY <1>1, <1>2 DEF Known

(* The facts about one host. *)
LEMMA FeedFacts ==
    ASSUME HostOK, Feed, NEW h \in Host
    PROVE  /\ history[h] \in Seq(Nat) /\ Ascending(history[h]) /\ Positive(history[h])
           /\ Past(history[h], seq[h] + 1) /\ seq[h] \in Nat
           /\ sent[h] \in Seq(Nat) /\ Ascending(sent[h]) /\ Past(sent[h], seq[h] + 1)
           /\ AllKept(sent[h], history[h]) /\ lastSeq[h] <= seq[h] /\ lastSeq[h] \in Nat
BY DEF HostOK, Feed, FeedAt

(* The types of what one client holds. *)
LEMMA ClientFacts ==
    ASSUME HostOK, ClientOK, NEW c \in Client
    PROVE  /\ host \in Host /\ on[c] \in Host /\ host \in Nat /\ on[c] \in Nat
           /\ base[c][1] \in Host /\ base[c][1] \in Nat /\ base[c][2] \in Nat
           /\ got[c] \in Seq(Host \X Nat) /\ cursor[c] \in Nat /\ pos[c] \in Nat
           /\ retained[c] \in Seq(Nat)
<1>1. host \in Host /\ on[c] \in Host /\ base[c] \in Host \X Nat
  BY DEF HostOK, ClientOK
<1>2. \A h \in Host : h \in Nat
  BY DEF Host
<1> QED BY <1>1, <1>2 DEF ClientOK

(* A boundary is taken of the current host, before anything is given. *)
LEMMA BoundaryFollows ==
    ASSUME HostOK, ClientOK, Feed, NEW c \in Client, Follows(c),
           SnapshotBoundary(c) \/ ChildBoundary(c)
    PROVE  Follows(c)'
<1>1. /\ at'[c] \in {"snapshot", "child"} /\ on'[c] = host /\ base'[c][1] = host
      /\ base'[c][2] \in {lastSeq[host], seq[host]}
      /\ UNCHANGED <<host, seq, got>> /\ at[c] = "out"
  BY DEF SnapshotBoundary, ChildBoundary, ClientOK, hostVars
<1>2. host \in Host /\ host \in Nat /\ lastSeq[host] <= seq[host] /\ seq[host] \in Nat
  BY ClientFacts, FeedFacts
<1>3. got[c] = <<>>
  BY <1>1 DEF Follows, Where
<1>4. Where(c)'
  <2>1. base'[c][2] <= seq[host]
    BY <1>1, <1>2
  <2> QED BY <1>1, <1>2, <1>3, <2>1 DEF Where
<1>5. Ordered(c)'
  BY <1>1, <1>3 DEF Ordered, OrderedTo
<1>6. Given(c)' /\ Copied(c)' /\ Attached(c)'
  BY <1>1 DEF Given, Copied, Attached
<1> QED BY <1>4, <1>5, <1>6 DEF Follows

(* A client that starts over relies on nothing. *)
LEMMA ForgetFollows ==
    ASSUME HostOK, ClientOK, Feed, NEW c \in Client, Forget(c)
    PROVE  Follows(c)'
<1>1. /\ at'[c] = "out" /\ on'[c] = 1 /\ base'[c] = <<1, 0>> /\ got'[c] = <<>>
      /\ UNCHANGED <<host, seq>>
  BY DEF Forget, ClientOK, hostVars
<1>2. 1 \in Host /\ 1 <= host /\ seq[1] \in Nat
  BY ClientFacts DEF Host, HostOK, EventsAssumption
<1>3. Where(c)'
  BY <1>1, <1>2 DEF Where
<1>4. Ordered(c)'
  BY <1>1 DEF Ordered, OrderedTo
<1>5. Given(c)' /\ Copied(c)' /\ Attached(c)'
  BY <1>1 DEF Given, Copied, Attached
<1> QED BY <1>3, <1>4, <1>5 DEF Follows

(* A snapshot that is not refused is closed: its boundary and the events      *)
(* after it leave out nothing up to the cursor.                               *)
LEMMA SnapshotFollows ==
    ASSUME HostOK, ClientOK, Feed, NEW c \in Client, Follows(c),
           NEW from \in {"snapshot", "child"}, NEW refused,
           Snapshot(c, from, After(history[on[c]], base[c][2]), refused),
           ~refused => Joins(history[on[c]], base[c][2])
    PROVE  Follows(c)'
<1>1. PICK s : s = history[on[c]]
  OBVIOUS
<1>2. PICK h : h = on[c]
  OBVIOUS
<1>3. PICK n : n = base[c][2]
  OBVIOUS
<1>t. /\ h \in Host /\ h \in Nat /\ n \in Nat /\ cursor[c] \in Nat
      /\ got[c] \in Seq(Host \X Nat)
  BY <1>2, <1>3, ClientFacts
<1>f. /\ s \in Seq(Nat) /\ Ascending(s) /\ Past(s, seq[h] + 1) /\ seq[h] \in Nat
  BY <1>1, <1>2, <1>t, FeedFacts
<1>j. Joins(s, n)
  BY <1>1, <1>3 DEF Snapshot
<1> DEFINE e == After(s, n)
           r == Reached(s, n)
<1>a. e \in Seq(Nat) /\ Ascending(e)
  BY <1>f, <1>t, AfterSelects
<1>4. /\ r \in Nat /\ n <= r
      /\ \A x \in Nat : Has(e, x) => n < x /\ x <= r
      /\ \A x \in Nat : Kept(x, s) /\ n < x => Has(e, x)
      /\ \A x \in Nat : Past(s, x) /\ n < x => r < x
  BY <1>f, <1>t, <1>j, ReplayJoins, Zenon
<1>5. /\ Deliver(c, e) /\ cursor' = [cursor EXCEPT ![c] = r]
      /\ at[c] = from /\ at' = [at EXCEPT ![c] = "loaded"]
      /\ UNCHANGED <<host, seq, sent, pub, on, base>>
  BY <1>1, <1>3, Zenon DEF Snapshot, Reached, hostVars, taskVars
<1> HIDE DEF e, r
<1>6. cursor'[c] = r /\ at'[c] = "loaded"
  BY <1>5 DEF ClientOK
<1>7. got[c] = <<>> /\ h = base[c][1] /\ n <= seq[h] /\ base[c][1] <= on[c] /\ on[c] <= host
  BY <1>2, <1>3, <1>5 DEF Follows, Where
<1>8. Joined(got'[c], got[c], h, e)
  BY <1>2, <1>5, <1>a, DeliverJoins
<1>9. Where(c)'
  BY <1>2, <1>3, <1>5, <1>6, <1>7 DEF Where
<1>10. Ordered(c)'
  <2>1. OrderedTo(got[c], h, n)
    BY <1>7 DEF OrderedTo
  <2>2. \A k \in 1 .. Len(e) : n < e[k] /\ e[k] <= r
    <3>1. \A k \in 1 .. Len(e) : e[k] \in Nat /\ Has(e, e[k])
      BY <1>a DEF Has
    <3> QED BY <1>4, <3>1
  <2>3. OrderedTo(got'[c], h, r)
    BY <1>4, <1>8, <1>a, <1>t, <2>1, <2>2, OrderedMore
  <2> QED BY <1>2, <1>5, <1>6, <2>3 DEF Ordered
<1>11. Given(c)'
  <2>1. r <= seq[h]
    <3>1. seq[h] + 1 \in Nat /\ n < seq[h] + 1
      BY <1>f, <1>t, <1>7
    <3>2. r < seq[h] + 1
      BY <1>4, <1>f, <3>1
    <3> QED BY <1>4, <1>f, <3>2
  <2>2. ASSUME NEW x \in Nat, Known(h, x), x <= r, ~(x <= n)
        PROVE  \E j \in 1 .. Len(got'[c]) : got'[c][j] = <<h, x>>
    <3>1. Kept(x, s) \/ Past(s, x)
      BY <1>1, <1>2, <1>t, <2>2, KnownKept
    <3>2. n < x /\ ~(r < x)
      BY <1>4, <1>t, <2>2
    <3>3. Has(e, x)
      BY <1>4, <3>1, <3>2
    <3>4. Gives(got'[c], h, e)
      BY <1>8, <1>a, <1>t, JoinedFacts
    <3> QED BY <3>3, <3>4 DEF Gives
  <2>3. \A x \in Nat : Known(on[c], x)' => Known(h, x)
    BY <1>2, <1>5 DEF Known
  <2> QED BY <1>2, <1>3, <1>5, <1>6, <2>1, <2>2, <2>3 DEF Given, WasGiven
<1>12. Copied(c)' /\ Attached(c)'
  BY <1>6 DEF Copied, Attached
<1> QED BY <1>9, <1>10, <1>11, <1>12 DEF Follows

(* The gap check of the ordinary snapshot, which sees only the events past the boundary. *)
LEMMA SnapshotJoins ==
    ASSUME NEW s \in Seq(Nat), NEW n \in Nat, Ascending(s), Positive(s),
           ~ReplayGap(n, First(After(s, n)),
                      IF After(s, n) = <<>> THEN n ELSE Back(After(s, n)))
    PROVE  Joins(s, n)
<1> DEFINE e == After(s, n)
<1>1. e \in Seq(Nat) /\ \A m \in Nat : Has(e, m) <=> n < m /\ Has(s, m)
  BY AfterSelects
<1>2. ~(First(e) # 0 /\ n + 1 < First(e))
  BY DEF ReplayGap
<1> HIDE DEF e
<1> SUFFICES ASSUME s # <<>> PROVE s[1] <= n + 1
  BY DEF Joins
<1>3. 1 \in 1 .. Len(s) /\ s[1] \in Nat
  OBVIOUS
<1>4. CASE s[1] <= n
  BY <1>3, <1>4
<1>5. CASE n < s[1]
  <2>1. Has(e, s[1])
    BY <1>1, <1>3, <1>5 DEF Has
  <2>2. 1 \in 1 .. Len(e) /\ e # <<>>
    BY <1>1, <2>1 DEF Has
  <2>3. e[1] \in Nat /\ Has(e, e[1])
    BY <1>1, <2>2 DEF Has
  <2>4. n < e[1] /\ Has(s, e[1])
    BY <1>1, <2>3
  <2>5. s[1] <= e[1]
    <3>1. PICK i \in 1 .. Len(s) : s[i] = e[1]
      BY <2>4 DEF Has
    <3>2. i = 1 \/ 1 < i
      OBVIOUS
    <3> QED BY <1>3, <3>1, <3>2 DEF Ascending
  <2>6. First(e) = e[1]
    BY <2>2 DEF First
  <2> QED BY <1>2, <1>3, <2>3, <2>4, <2>5, <2>6
<1> QED BY <1>3, <1>4, <1>5

(* The gap check against the oldest retained event. *)
LEMMA FirstJoins ==
    ASSUME NEW s \in Seq(Nat), NEW n \in Nat, Positive(s), NEW l, ~ReplayGap(n, First(s), l)
    PROVE  Joins(s, n)
<1> SUFFICES ASSUME s # <<>> PROVE s[1] <= n + 1
  BY DEF Joins
<1>1. 1 \in 1 .. Len(s) /\ s[1] \in Nat /\ First(s) = s[1] /\ 1 <= s[1]
  BY DEF Positive, First
<1> QED BY <1>1 DEF ReplayGap

(* Both snapshots check for a gap before they give events. *)
LEMMA SnapshotEventsFollow ==
    ASSUME HostOK, ClientOK, Feed, NEW c \in Client, Follows(c),
           SnapshotEvents(c) \/ ChildEvents(c)
    PROVE  Follows(c)'
<1>1. on[c] \in Host /\ base[c][2] \in Nat
  BY ClientFacts
<1>2. history[on[c]] \in Seq(Nat) /\ Ascending(history[on[c]]) /\ Positive(history[on[c]])
  BY <1>1, FeedFacts
<1>3. CASE SnapshotEvents(c)
  <2>1. PICK refused :
           /\ Snapshot(c, "snapshot", After(history[on[c]], base[c][2]), refused)
           /\ refused = ReplayGap(base[c][2], First(After(history[on[c]], base[c][2])),
                IF After(history[on[c]], base[c][2]) = <<>> THEN base[c][2]
                ELSE Back(After(history[on[c]], base[c][2])))
    BY <1>3 DEF SnapshotEvents
  <2>2. ~refused => Joins(history[on[c]], base[c][2])
    BY <1>1, <1>2, <2>1, SnapshotJoins
  <2> QED BY <2>1, <2>2, SnapshotFollows
<1>4. CASE ChildEvents(c)
  <2>1. PICK refused :
           /\ Snapshot(c, "child", After(history[on[c]], base[c][2]), refused)
           /\ ~refused => ~ReplayGap(base[c][2], First(history[on[c]]), Back(history[on[c]]))
    BY <1>4 DEF ChildEvents
  <2>2. ~refused => Joins(history[on[c]], base[c][2])
    BY <1>1, <1>2, <2>1, FirstJoins
  <2> QED BY <2>1, <2>2, SnapshotFollows
<1> QED BY <1>3, <1>4

(* A subscription takes the host of the moment: a client that changes hosts   *)
(* leaves the one its snapshot stands for for good.                           *)
LEMMA SubscribeFollows ==
    ASSUME HostOK, ClientOK, Feed, NEW c \in Client, Follows(c), Subscribe(c)
    PROVE  Follows(c)'
<1>1. /\ at[c] = "loaded" /\ at'[c] = "attach" /\ on'[c] = host /\ pos'[c] = Len(sent[host])
      /\ UNCHANGED <<host, seq, sent, pub, base, got, cursor>>
  BY DEF Subscribe, ClientOK, hostVars, taskVars
<1>t. /\ on[c] \in Nat /\ host \in Host /\ host \in Nat /\ base[c][1] \in Nat /\ cursor[c] \in Nat
      /\ got[c] \in Seq(Host \X Nat)
  BY ClientFacts
<1>2. base[c][1] <= on[c] /\ on[c] <= host /\ base[c][2] <= seq[base[c][1]]
  BY DEF Follows, Where
<1>3. Where(c)'
  BY <1>1, <1>2, <1>t DEF Where
<1>4. Ordered(c)'
  <2>1. OrderedTo(got[c], on[c], cursor[c])
    BY DEF Follows, Ordered
  <2>2. ASSUME NEW j \in 1 .. Len(got[c])
        PROVE  got[c][j][1] <= host /\ (got[c][j][1] = host => got[c][j][2] <= cursor[c])
    <3>1. got[c][j] \in Host \X Nat
      BY <1>t
    <3>2. got[c][j][1] \in Nat
      BY <3>1 DEF Host
    <3>3. got[c][j][1] <= on[c] /\ (got[c][j][1] = on[c] => got[c][j][2] <= cursor[c])
      BY <2>1 DEF OrderedTo
    <3> QED BY <1>2, <1>t, <3>2, <3>3
  <2>3. OrderedTo(got[c], host, cursor[c])
    BY <2>1, <2>2 DEF OrderedTo
  <2> QED BY <1>1, <2>3 DEF Ordered
<1>5. Given(c)'
  <2>1. CASE host # base[c][1]
    BY <1>1, <2>1 DEF Given
  <2>2. CASE host = base[c][1]
    <3>1. on[c] = host
      BY <1>2, <1>t, <2>2
    <3> QED BY <1>1, <3>1 DEF Follows, Given, Known, WasGiven
  <2> QED BY <2>1, <2>2
<1>6. Copied(c)'
  BY <1>1 DEF Copied
<1>7. Attached(c)'
  <2>1. Len(sent[host]) \in Nat
    BY <1>t, FeedFacts
  <2> QED BY <1>1, <2>1 DEF Attached
<1> QED BY <1>3, <1>4, <1>5, <1>6, <1>7 DEF Follows

(* What the receiver skipped is in the copy, or older than all of it. *)
LEMMA CopyFollows ==
    ASSUME HostOK, ClientOK, Feed, NEW c \in Client, Follows(c), CopyHistory(c)
    PROVE  Follows(c)'
<1>1. /\ at[c] = "attach" /\ at'[c] = "history" /\ retained'[c] = history[on[c]]
      /\ UNCHANGED <<host, seq, sent, pub, on, base, got, cursor, pos>>
  BY DEF CopyHistory, ClientOK, hostVars, taskVars
<1>2. PICK h : h = on[c]
  OBVIOUS
<1>t. h \in Host /\ pos[c] \in Nat
  BY <1>2, ClientFacts
<1>f. /\ Ascending(history[h]) /\ Positive(history[h]) /\ Past(history[h], seq[h] + 1)
      /\ sent[h] \in Seq(Nat) /\ AllKept(sent[h], history[h])
  BY <1>t, FeedFacts
<1>3. Where(c)' /\ Ordered(c)' /\ Attached(c)'
  BY <1>1 DEF Follows, Where, Ordered, Attached
<1>4. Given(c)'
  BY <1>1 DEF Follows, Given, Known, WasGiven
<1>5. Copied(c)'
  <2>1. \A n \in Nat : Known(h, n) => Kept(n, history[h]) \/ Past(history[h], n)
    BY <1>t, KnownKept
  <2>2. pos[c] <= Len(sent[h])
    BY <1>1, <1>2 DEF Follows, Attached
  <2>3. \A i \in 1 .. pos[c] : Kept(sent[h][i], history[h])
    BY <1>f, <1>t, <2>2 DEF AllKept
  <2>4. \A n \in Nat : Known(on[c], n)' => Known(h, n)
    BY <1>1, <1>2 DEF Known
  <2>5. retained'[c] = history[h] /\ on'[c] = h /\ seq' = seq /\ sent' = sent /\ pos' = pos
    BY <1>1, <1>2
  <2> QED BY <1>f, <2>1, <2>3, <2>4, <2>5 DEF Copied
<1> QED BY <1>3, <1>4, <1>5 DEF Follows

(* A client that reconnects keeps its cursor. *)
LEMMA DisconnectFollows ==
    ASSUME ClientOK, NEW c \in Client, Follows(c), Disconnect(c)
    PROVE  Follows(c)'
<1>1. /\ at[c] \in {"attach", "history", "live"} /\ at'[c] = "loaded"
      /\ UNCHANGED <<host, seq, sent, pub, on, base, got, cursor>>
  BY DEF Disconnect, ClientOK, hostVars, taskVars
<1>2. Where(c)' /\ Ordered(c)' /\ Attached(c)' /\ Copied(c)'
  BY <1>1 DEF Follows, Where, Ordered, Attached, Copied
<1>3. Given(c)'
  BY <1>1 DEF Follows, Given, Known, WasGiven
<1> QED BY <1>2, <1>3 DEF Follows

(* A replay that the gap check lets through joins what the client had, and    *)
(* ends past all that its receiver has skipped.                               *)
LEMMA ReplayFollows ==
    ASSUME HostOK, ClientOK, Feed, NEW c \in Client, Follows(c), Replay(c)
    PROVE  Follows(c)'
<1>1. PICK s : s = retained[c]
  OBVIOUS
<1>2. PICK h : h = on[c]
  OBVIOUS
<1>3. PICK n : n = cursor[c]
  OBVIOUS
<1>t. /\ h \in Host /\ h \in Nat /\ n \in Nat /\ s \in Seq(Nat) /\ pos[c] \in Nat
      /\ got[c] \in Seq(Host \X Nat)
  BY <1>1, <1>2, <1>3, ClientFacts
<1>h. seq[h] \in Nat /\ sent[h] \in Seq(Nat)
  BY <1>t, FeedFacts
<1>4. at[c] = "history" /\ ~Gap(c)
  BY DEF Replay
<1>f. /\ Ascending(s) /\ Positive(s) /\ Past(s, seq[h] + 1)
      /\ \A x \in Nat : Known(h, x) => Kept(x, s) \/ Past(s, x)
      /\ \A i \in 1 .. pos[c] : Kept(sent[h][i], s)
      /\ pos[c] <= Len(sent[h])
  BY <1>1, <1>2, <1>4 DEF Follows, Copied, Attached
<1>j. Joins(s, n)
  BY <1>1, <1>3, <1>4, <1>f, <1>t, FirstJoins DEF Gap
<1> DEFINE e == After(s, n)
           r == Reached(s, n)
<1>a. /\ e \in Seq(Nat) /\ Ascending(e)
      /\ \A m \in Nat : Has(e, m) <=> n < m /\ Has(s, m)
  BY <1>f, <1>t, AfterSelects
<1>5. /\ r \in Nat /\ n <= r
      /\ \A x \in Nat : Has(e, x) => n < x /\ x <= r
      /\ \A x \in Nat : Kept(x, s) /\ n < x => Has(e, x)
      /\ \A x \in Nat : Past(s, x) /\ n < x => r < x
  BY <1>f, <1>t, <1>j, ReplayJoins, Zenon
<1>6. (IF Back(e) > n THEN Back(e) ELSE n) = r
  <2>1. CASE e = <<>>
    BY <1>t, <2>1 DEF Reached, Back
  <2>2. CASE e # <<>>
    <3>1. Back(e) \in Nat /\ Has(e, Back(e))
      BY <1>a, <2>2, AscendingBack
    <3>2. n < Back(e)
      BY <1>a, <3>1
    <3> QED BY <1>t, <2>2, <3>1, <3>2 DEF Reached
  <2> QED BY <2>1, <2>2
<1>7. /\ Deliver(c, e) /\ at' = [at EXCEPT ![c] = "live"]
      /\ cursor' = [cursor EXCEPT ![c] = IF Back(e) > cursor[c] THEN Back(e) ELSE cursor[c]]
      /\ UNCHANGED <<host, seq, sent, pub, on, base, pos>>
  BY <1>1, <1>3, Zenon DEF Replay, hostVars, taskVars
<1> HIDE DEF e, r
<1>8. cursor'[c] = r /\ at'[c] = "live"
  BY <1>3, <1>6, <1>7 DEF ClientOK
<1>9. Joined(got'[c], got[c], h, e)
  BY <1>2, <1>7, <1>a, DeliverJoins
<1>10. Where(c)'
  BY <1>4, <1>7, <1>8 DEF Follows, Where
<1>11. Ordered(c)'
  <2>1. OrderedTo(got[c], h, n)
    BY <1>2, <1>3 DEF Follows, Ordered
  <2>2. \A k \in 1 .. Len(e) : n < e[k] /\ e[k] <= r
    <3>1. \A k \in 1 .. Len(e) : e[k] \in Nat /\ Has(e, e[k])
      BY <1>a DEF Has
    <3> QED BY <1>5, <3>1
  <2>3. OrderedTo(got'[c], h, r)
    BY <1>5, <1>9, <1>a, <1>t, <2>1, <2>2, OrderedMore
  <2> QED BY <1>2, <1>7, <1>8, <2>3 DEF Ordered
<1>12. Given(c)'
  <2> SUFFICES ASSUME h = base[c][1]
               PROVE  /\ r <= seq[h]
                      /\ \A x \in Nat : Known(h, x) /\ x <= r =>
                            x <= base[c][2] \/ \E j \in 1 .. Len(got'[c]) : got'[c][j] = <<h, x>>
    <3>1. \A x \in Nat : Known(on[c], x)' => Known(h, x)
      BY <1>2, <1>7 DEF Known
    <3> QED BY <1>2, <1>7, <1>8, <3>1 DEF Given, WasGiven
  <2>1. /\ n <= seq[h]
        /\ \A x \in Nat : Known(h, x) /\ x <= n =>
              x <= base[c][2] \/ \E j \in 1 .. Len(got[c]) : got[c][j] = <<h, x>>
    BY <1>2, <1>3, <1>4 DEF Follows, Given, WasGiven
  <2>2. r <= seq[h]
    <3>1. seq[h] + 1 \in Nat /\ n < seq[h] + 1
      BY <1>h, <1>t, <2>1
    <3>2. r < seq[h] + 1
      BY <1>5, <1>f, <3>1
    <3> QED BY <1>5, <1>h, <3>2
  <2>3. ASSUME NEW x \in Nat, Known(h, x), x <= r, ~(x <= base[c][2])
        PROVE  \E j \in 1 .. Len(got'[c]) : got'[c][j] = <<h, x>>
    <3>1. CASE x <= n
      <4>1. \E j \in 1 .. Len(got[c]) : got[c][j] = <<h, x>>
        BY <2>1, <2>3, <3>1
      <4>2. Keeps(got'[c], got[c])
        BY <1>9, <1>a, <1>t, JoinedFacts
      <4> QED BY <4>1, <4>2 DEF Keeps
    <3>2. CASE ~(x <= n)
      <4>1. n < x /\ ~(r < x)
        BY <1>5, <1>t, <2>3, <3>2
      <4>2. Has(e, x)
        BY <1>5, <1>f, <2>3, <4>1
      <4>3. Gives(got'[c], h, e)
        BY <1>9, <1>a, <1>t, JoinedFacts
      <4> QED BY <4>2, <4>3 DEF Gives
    <3> QED BY <3>1, <3>2
  <2> QED BY <2>2, <2>3
<1>13. Copied(c)'
  BY <1>8 DEF Copied
<1>14. Attached(c)'
  <2>1. ASSUME NEW i \in 1 .. pos[c] PROVE sent[h][i] <= r
    <3>1. sent[h][i] \in Nat /\ Kept(sent[h][i], s)
      <4>1. i \in 1 .. Len(sent[h])
        BY <1>f, <1>h, <1>t
      <4> QED BY <1>f, <1>h, <4>1
    <3>2. CASE n < sent[h][i]
      <4>1. Has(e, sent[h][i])
        BY <1>5, <3>1, <3>2
      <4> QED BY <1>5, <3>1, <4>1
    <3>3. CASE ~(n < sent[h][i])
      BY <1>5, <1>t, <3>1, <3>3
    <3> QED BY <3>2, <3>3
  <2> QED BY <1>2, <1>7, <1>8, <1>f, <2>1 DEF Attached
<1> QED BY <1>10, <1>11, <1>12, <1>13, <1>14 DEF Follows

(* An event that is received is the next one broadcast: what is known of its  *)
(* host and not past it was received before it.                               *)
LEMMA NextIsLast ==
    ASSUME HostOK, ClientOK, Feed, NEW c \in Client, Follows(c), at[c] = "live",
           pos[c] + 1 \in 1 .. Len(sent[on[c]]),
           NEW x \in Nat, Known(on[c], x), x <= sent[on[c]][pos[c] + 1], cursor[c] < x
    PROVE  x = sent[on[c]][pos[c] + 1]
<1>1. PICK h : h = on[c]
  OBVIOUS
<1>2. PICK s : s = sent[h]
  OBVIOUS
<1>3. PICK p : p = pos[c]
  OBVIOUS
<1>4. /\ h \in Host /\ p \in Nat /\ cursor[c] \in Nat /\ s \in Seq(Nat) /\ Ascending(s)
  BY <1>1, <1>2, <1>3, ClientFacts, FeedFacts
<1>5. p + 1 \in 1 .. Len(s) /\ s[p + 1] \in Nat /\ x <= s[p + 1]
  BY <1>1, <1>2, <1>3, <1>4
<1>6. \A i \in 1 .. p : s[i] <= cursor[c]
  BY <1>1, <1>2, <1>3 DEF Follows, Attached
<1>7. CASE Has(s, x)
  <2>1. PICK i \in 1 .. Len(s) : s[i] = x
    BY <1>7 DEF Has
  <2>2. i \notin 1 .. p
    BY <1>4, <1>6, <2>1
  <2>3. ~(p + 1 < i)
    BY <1>4, <1>5, <2>1 DEF Ascending
  <2>4. i = p + 1
    BY <1>4, <1>5, <2>1, <2>2, <2>3
  <2> QED BY <1>1, <1>2, <1>3, <2>1, <2>4
<1>8. ASSUME h = host, NEW q \in Publisher, pub[q].step # "idle", pub[q].seq = x PROVE FALSE
  <2>1. Past(s, x)
    BY <1>2, <1>8 DEF Feed, InFlight
  <2>2. s[p + 1] < x
    BY <1>5, <2>1 DEF Past
  <2> QED BY <1>5, <2>2
<1> QED BY <1>1, <1>2, <1>7, <1>8 DEF Known

(* An event the replay already gave is skipped, a fresh one is the next. *)
LEMMA ReceiveFollows ==
    ASSUME HostOK, ClientOK, Feed, NEW c \in Client, Follows(c), Receive(c)
    PROVE  Follows(c)'
<1>1. PICK h : h = on[c]
  OBVIOUS
<1>2. PICK n : n = cursor[c]
  OBVIOUS
<1>3. PICK q : q = sent[h][pos[c] + 1]
  OBVIOUS
<1>t. /\ h \in Host /\ h \in Nat /\ n \in Nat /\ pos[c] \in Nat /\ got[c] \in Seq(Host \X Nat)
      /\ cursor \in [Client -> Nat] /\ pos \in [Client -> Nat]
  BY <1>1, <1>2, ClientFacts DEF ClientOK
<1>h. seq[h] \in Nat /\ sent[h] \in Seq(Nat) /\ Past(sent[h], seq[h] + 1)
  BY <1>t, FeedFacts
<1>4. /\ at[c] = "live" /\ Len(sent[h]) - pos[c] \in 1 .. LiveCap
      /\ pos' = [pos EXCEPT ![c] = pos[c] + 1]
      /\ UNCHANGED <<host, seq, sent, pub, at, on, base>>
  BY <1>1 DEF Receive, Window, Behind, hostVars, taskVars
<1>5. pos[c] + 1 \in 1 .. Len(sent[h])
  <2>1. Len(sent[h]) \in Nat
    BY ONLY <1>h
  <2>2. LiveCap \in Nat /\ pos[c] \in Nat /\ Len(sent[h]) - pos[c] \in 1 .. LiveCap
    BY <1>4, <1>t DEF EventsAssumption
  <2> QED BY ONLY <2>1, <2>2
<1>6. q \in Nat /\ pos'[c] = pos[c] + 1 /\ q <= seq[h]
  <2>1. q \in Nat /\ q < seq[h] + 1
    BY <1>3, <1>5, <1>h DEF Past
  <2> QED BY <1>4, <1>h, <1>t, <2>1
<1>7. \/ q > n /\ Deliver(c, <<q>>) /\ cursor' = [cursor EXCEPT ![c] = q]
      \/ ~(q > n) /\ UNCHANGED <<got, cursor>>
  BY <1>1, <1>2, <1>3 DEF Receive, Fresh
<1>8. Where(c)'
  BY <1>4 DEF Follows, Where
<1>9. Copied(c)'
  BY <1>4 DEF Copied
<1>10. \A i \in 1 .. pos[c] : sent[h][i] \in Nat /\ sent[h][i] <= n
  <2>1. \A i \in 1 .. pos[c] : sent[h][i] <= n
    BY <1>1, <1>2, <1>4 DEF Follows, Attached
  <2>2. \A i \in 1 .. pos[c] : i \in 1 .. Len(sent[h])
    BY <1>5, <1>h, <1>t
  <2> QED BY <1>h, <2>1, <2>2
<1>11. ASSUME NEW m \in Nat, m = cursor'[c], n <= m, q <= m PROVE Attached(c)'
  <2>1. pos'[c] <= Len(sent'[on'[c]])
    BY <1>1, <1>4, <1>5, <1>6, <1>h, <1>t
  <2>2. ASSUME NEW i \in 1 .. pos[c] + 1 PROVE sent[h][i] <= m
    <3>1. CASE i = pos[c] + 1
      BY <1>3, <1>11, <3>1
    <3>2. CASE i # pos[c] + 1
      <4>1. i \in 1 .. pos[c]
        BY <1>t, <3>2
      <4> QED BY <1>10, <1>11, <1>t, <4>1
    <3> QED BY <3>1, <3>2
  <2> QED BY <1>1, <1>4, <1>6, <1>11, <2>1, <2>2 DEF Attached
<1>12. CASE ~(q > n) /\ UNCHANGED <<got, cursor>>
  <2>1. Ordered(c)'
    BY <1>4, <1>12 DEF Follows, Ordered
  <2>2. Given(c)'
    BY <1>4, <1>12 DEF Follows, Given, Known, WasGiven
  <2>3. Attached(c)'
    BY <1>2, <1>6, <1>11, <1>12, <1>t
  <2> QED BY <1>8, <1>9, <2>1, <2>2, <2>3 DEF Follows
<1>13. CASE q > n /\ Deliver(c, <<q>>) /\ cursor' = [cursor EXCEPT ![c] = q]
  <2>1. PICK e : e = <<q>>
    OBVIOUS
  <2>2. e \in Seq(Nat) /\ Ascending(e) /\ Has(e, q) /\ \A k \in 1 .. Len(e) : e[k] = q
    BY <1>6, <2>1 DEF Ascending, Has
  <2>3. Joined(got'[c], got[c], h, e)
    BY <1>1, <1>13, <2>1, <2>2, DeliverJoins
  <2>4. cursor'[c] = q /\ n < q
    BY <1>6, <1>13, <1>t
  <2>5. Ordered(c)'
    <3>1. OrderedTo(got[c], h, n)
      BY <1>1, <1>2 DEF Follows, Ordered
    <3>2. \A k \in 1 .. Len(e) : n < e[k] /\ e[k] <= q
      BY <1>6, <2>2, <2>4
    <3>3. n <= q
      BY <1>6, <1>t, <2>4
    <3>4. OrderedTo(got'[c], h, q)
      BY <1>6, <1>t, <2>2, <2>3, <3>1, <3>2, <3>3, OrderedMore
    <3> QED BY <1>1, <1>4, <2>4, <3>4 DEF Ordered
  <2>6. Given(c)'
    <3> SUFFICES ASSUME h = base[c][1], NEW x \in Nat, Known(h, x), x <= q, ~(x <= base[c][2])
                 PROVE  \E j \in 1 .. Len(got'[c]) : got'[c][j] = <<h, x>>
      <4>1. \A x \in Nat : Known(on[c], x)' => Known(h, x)
        BY <1>1, <1>4 DEF Known
      <4> QED BY <1>1, <1>4, <1>6, <2>4, <4>1 DEF Given, WasGiven
    <3>1. Keeps(got'[c], got[c]) /\ Gives(got'[c], h, e)
      BY <1>t, <2>2, <2>3, JoinedFacts
    <3>2. CASE x <= n
      <4>1. \E j \in 1 .. Len(got[c]) : got[c][j] = <<h, x>>
        BY <1>1, <1>2, <1>4, <3>2 DEF Follows, Given, WasGiven
      <4> QED BY <3>1, <4>1 DEF Keeps
    <3>3. CASE ~(x <= n)
      <4>1. n < x
        BY <1>t, <3>3
      <4>2. x = q
        BY <1>1, <1>2, <1>3, <1>4, <1>5, <4>1, NextIsLast
      <4> QED BY <2>2, <3>1, <4>2 DEF Gives
    <3> QED BY <3>2, <3>3
  <2>7. Attached(c)'
    BY <1>6, <1>11, <1>t, <2>4
  <2> QED BY <1>8, <1>9, <2>5, <2>6, <2>7 DEF Follows
<1> QED BY <1>7, <1>12, <1>13

(* Every step of a client keeps what it relies on. *)
LEMMA ClientFollows ==
    ASSUME HostOK, ClientOK, Feed, NEW c \in Client, Follows(c), ClientNext(c)
    PROVE  Follows(c)'
<1>1. CASE SnapshotFails(c) \/ ReplayRefused(c) \/ Lagged(c)
  BY <1>1, ForgetFollows DEF SnapshotFails, ReplayRefused, Lagged
<1> QED
  BY <1>1, BoundaryFollows, SnapshotEventsFollow, SubscribeFollows, CopyFollows, ReplayFollows,
     ReceiveFollows, DisconnectFollows DEF ClientNext

\* What is another client's is not c's.
Apart(d) ==
    \A c \in Client \ {d} :
        /\ at'[c] = at[c] /\ on'[c] = on[c] /\ base'[c] = base[c] /\ got'[c] = got[c]
        /\ cursor'[c] = cursor[c] /\ pos'[c] = pos[c] /\ retained'[c] = retained[c]

(* A client changes nothing of the host or of another client. *)
LEMMA ClientsApart ==
    ASSUME ClientOK, NEW d \in Client, ClientNext(d)
    PROVE  Apart(d) /\ UNCHANGED <<hostVars, taskVars>>
<1>1. CASE SnapshotBoundary(d) \/ ChildBoundary(d)
  BY <1>1 DEF SnapshotBoundary, ChildBoundary, ClientOK, Apart
<1>2. ASSUME NEW from, NEW events, NEW refused, Snapshot(d, from, events, refused)
      PROVE  Apart(d) /\ UNCHANGED <<hostVars, taskVars>>
  BY <1>2 DEF Snapshot, Deliver, ClientOK, Apart
<1>3. CASE Forget(d)
  BY <1>3 DEF Forget, ClientOK, Apart
<1>4. CASE Subscribe(d) \/ CopyHistory(d) \/ Disconnect(d)
  BY <1>4 DEF Subscribe, CopyHistory, Disconnect, ClientOK, Apart
<1>5. CASE Replay(d)
  BY <1>5 DEF Replay, Deliver, ClientOK, Apart
<1>6. CASE Receive(d)
  BY <1>6 DEF Receive, Deliver, ClientOK, Apart
<1> QED
  BY <1>1, <1>2, <1>3, <1>4, <1>5, <1>6
  DEF ClientNext, SnapshotEvents, ChildEvents, SnapshotFails, ReplayRefused, Lagged

(* So the others are left with what they relied on. *)
LEMMA OthersFollow ==
    ASSUME ClientOK, NEW d \in Client, ClientNext(d), NEW c \in Client \ {d}, Follows(c)
    PROVE  Follows(c)'
<1>1. /\ at'[c] = at[c] /\ on'[c] = on[c] /\ base'[c] = base[c] /\ got'[c] = got[c]
      /\ cursor'[c] = cursor[c] /\ pos'[c] = pos[c] /\ retained'[c] = retained[c]
      /\ UNCHANGED <<host, seq, sent, pub>>
  BY ClientsApart DEF Apart, hostVars, taskVars
<1>2. Where(c)' /\ Ordered(c)' /\ Attached(c)'
  BY <1>1 DEF Follows, Where, Ordered, Attached
<1>3. Given(c)' /\ Copied(c)'
  BY <1>1 DEF Follows, Given, Copied, Known, WasGiven
<1> QED BY <1>2, <1>3 DEF Follows

(* The inductive invariant of the feed and its followers: the numbers of the  *)
(* host, its end, and what each client relies on.                             *)
FollowInv ==
    /\ TypeOK /\ CloseInv /\ OneAtATime /\ Numbered /\ Feed
    /\ \A c \in Client : Follows(c)

(* It holds initially, *)
LEMMA FollowInit == Init => FollowInv
<1> SUFFICES ASSUME Init PROVE FollowInv
  OBVIOUS
<1>1. TypeOK
  BY TypedInit
<1>2. CloseInv /\ OneAtATime /\ Numbered
  BY DEF Init, CloseInv, HostOK, Host, Idle, ReaderPub, FinisherPub, OnePublisher,
         Projected, Recorded, Publisher, OneAtATime, Numbered, Back
<1>3. Feed
  BY DEF Init, Idle, Feed, FeedAt, InFlight, Ascending, Past, Positive, AllKept
<1>4. ASSUME NEW c \in Client PROVE Follows(c)
  <2>1. 1 \in Host
    BY DEF Host, EventsAssumption
  <2>2. /\ at[c] = "out" /\ on[c] = 1 /\ base[c] = <<1, 0>> /\ got[c] = <<>> /\ host = 1
        /\ seq[1] = 0
    BY <2>1 DEF Init
  <2>3. Where(c)
    BY <2>2 DEF Where
  <2>4. Ordered(c)
    BY <2>2 DEF Ordered, OrderedTo
  <2>5. Given(c) /\ Copied(c) /\ Attached(c)
    BY <2>2 DEF Given, Copied, Attached
  <2> QED BY <2>3, <2>4, <2>5 DEF Follows
<1> QED BY <1>1, <1>2, <1>3, <1>4 DEF FollowInv

(* and every step keeps it. *)
LEMMA FollowStep ==
    ASSUME FollowInv, [Next]_vars, ~Bridged
    PROVE  FollowInv'
<1>1. HostOK /\ ClientOK /\ CloseInv /\ OneAtATime /\ Numbered /\ Feed /\ \A c \in Client : Follows(c)
  BY DEF FollowInv, TypeOK
<1>2. TypeOK'
  BY TypedStep DEF FollowInv
<1>3. CloseInv' /\ Numbered' /\ OneAtATime' /\ Feed'
  BY <1>1, CloseStep, NumberedStep, FeedStep
<1>4. ASSUME NEW c \in Client, HostNext PROVE Follows(c)'
  <2>1. HostOK'
    BY <1>2 DEF TypeOK
  <2>2. Forward
    BY <1>1, <1>4, <2>1, HostForward
  <2> QED BY <1>1, <1>4, <2>2, HostStepsLeaveClients, FollowsForward
<1>5. ASSUME NEW c \in Client, NEW d \in Client, ClientNext(d) PROVE Follows(c)'
  <2>1. CASE c = d
    BY <1>1, <1>5, <2>1, ClientFollows
  <2>2. CASE c # d
    BY <1>1, <1>5, <2>2, OthersFollow
  <2> QED BY <2>1, <2>2
<1>6. ASSUME NEW c \in Client, UNCHANGED vars PROVE Follows(c)'
  <2>1. UNCHANGED <<host, seq, sent, pub, at, on, base, got, cursor, pos, retained>>
    BY <1>6 DEF vars, hostVars, taskVars, clientVars
  <2>2. Where(c)' /\ Ordered(c)' /\ Attached(c)'
    BY <1>1, <2>1 DEF Follows, Where, Ordered, Attached
  <2>3. Given(c)' /\ Copied(c)'
    BY <1>1, <2>1 DEF Follows, Given, Copied, Known, WasGiven
  <2> QED BY <2>2, <2>3 DEF Follows
<1>7. \A c \in Client : Follows(c)'
  BY <1>4, <1>5, <1>6 DEF Next
<1> QED BY <1>2, <1>3, <1>7 DEF FollowInv

(* So it is an invariant of a host without a bridge. *)
LEMMA FollowAlways ==
    ASSUME ~Bridged PROVE Spec => []FollowInv
<1>1. FollowInv /\ [Next]_vars => FollowInv'
  BY FollowStep
<1> QED BY FollowInit, <1>1, PTL DEF Spec

(* The snapshot and the stream that follows it "without a gap or an overlap": *)
(* of a host without a bridge no client is given an event twice or out of     *)
(* order, whatever number of hosts, clients, publications and reconnections   *)
(* there are.                                                                 *)
THEOREM EventsComeInOrder ==
    ASSUME ~Bridged PROVE Spec => []NoOverlap
<1>1. FollowInv => NoOverlap
  BY DEF FollowInv, Follows, Ordered, OrderedTo, NoOverlap
<1> QED BY <1>1, FollowAlways, PTL

\* NoGap, for the clients that still follow the host their snapshot stands for.
NoGapOnHost ==
    \A c \in Client : at[c] = "live" /\ on[c] = base[c][1] =>
        \A i \in 1 .. Len(sent[on[c]]) :
            LET n == sent[on[c]][i] IN
            n > cursor[c] \/ n <= base[c][2] \/ WasGiven(c, n)

(* The invariant says it of every event broadcast. *)
LEMMA FollowedHost == FollowInv => NoGapOnHost
<1> SUFFICES ASSUME FollowInv, NEW c \in Client, at[c] = "live", on[c] = base[c][1],
                    NEW i \in 1 .. Len(sent[on[c]]), ~(sent[on[c]][i] > cursor[c])
             PROVE  sent[on[c]][i] <= base[c][2] \/ WasGiven(c, sent[on[c]][i])
  BY DEF NoGapOnHost
<1>1. HostOK /\ ClientOK /\ Feed /\ Given(c)
  BY DEF FollowInv, TypeOK, Follows
<1>2. sent[on[c]] \in Seq(Nat) /\ cursor[c] \in Nat
  BY <1>1, ClientFacts, FeedFacts
<1>3. sent[on[c]][i] \in Nat /\ sent[on[c]][i] <= cursor[c] /\ Known(on[c], sent[on[c]][i])
  BY <1>2 DEF Known, Has
<1> QED BY <1>1, <1>3 DEF Given

(* While a client follows the host its snapshot stands for, nothing broadcast *)
(* there up to its cursor is missing, across any number of reconnections.     *)
THEOREM NothingIsMissing ==
    ASSUME ~Bridged PROVE Spec => []NoGapOnHost
BY FollowAlways, FollowedHost, PTL

(* In particular a session that is not opened on a second host is followed    *)
(* without a gap.                                                             *)
THEOREM OneHostHasNoGap ==
    ASSUME ~Bridged, Hosts = 1 PROVE Spec => []NoGap
<1>1. FollowInv => NoGap
  <2> SUFFICES ASSUME FollowInv, NEW c \in Client, at[c] = "live",
                      NEW i \in 1 .. Len(sent[on[c]])
               PROVE  LET n == sent[on[c]][i] IN
                      \/ n > cursor[c]
                      \/ on[c] = base[c][1] /\ n <= base[c][2]
                      \/ \E j \in 1 .. Len(got[c]) : got[c][j] = <<on[c], n>>
    BY DEF NoGap
  <2>1. on[c] \in Host /\ base[c][1] \in Host
    BY ClientFacts DEF FollowInv, TypeOK
  <2>2. on[c] = base[c][1]
    BY <2>1 DEF Host
  <2> QED BY <2>2, FollowedHost DEF NoGapOnHost, WasGiven
<1> QED BY <1>1, FollowAlways, PTL

=============================================================================
