----------------------------- MODULE ChildStream -----------------------------
(* rpi-extcore: a live subscription to the tool-program children of a session. *)
(* The native journals a child's begin and phases on a branch and announces    *)
(* each commit later; the subscriber takes a bounded snapshot, replays what it *)
(* overlaps and then proves every incoming event against the branch it was     *)
(* attached to, read by read, while the native goes on.                        *)
EXTENDS Integers, Sequences, SequencesExt, FiniteSets, FiniteSetsExt

CONSTANTS
  ProgramChild,   \* children of tool programs
  WindowSize,     \* children the subscriber asked for (at most 8)
  HeadSize,       \* children a proof reads (8)
  PhaseLimit,     \* phases of a child the snapshot asks for (at most 8)
  EventBuffer,    \* events the broadcast and the replay history keep
  MaxEntries,     \* bound: journal entries
  MaxTroubles     \* bound: navigations, commits skipped, closings and dropped calls

ASSUME StreamBound == WindowSize \in 1..HeadSize /\ PhaseLimit \in Nat \ {0}

VARIABLES
  branches,  \* the journal of every lane generation; the last is current
  entrySeq,  \* the last native entry sequence
  unsaid,    \* commits not announced yet
  announced, \* the host's events; a core sequence is a position
  troubles,  \* counter for the bound
  childStream     \* the subscription

nativeVars == <<branches, entrySeq, unsaid, announced>>
childVars == <<nativeVars, troubles, childStream>>

ChildGeneration == Len(branches)
Current == Last(branches)
Of(entries, c) == {e \in entries : e.child = c}
Phases(entries, c) == {e \in Of(entries, c) : e.phase # "begin"}
Begins(entries) == {e \in entries : e.phase = "begin"}
Newest(entries, n) == {e \in entries : Cardinality({f \in entries : f.seq > e.seq}) < n}
Kids(entries) == {e.child : e \in entries}
NoEvent == [what |-> "none"]

ChildInit ==
  /\ branches = <<<<>>>> /\ entrySeq = 0 /\ unsaid = <<>> /\ announced = <<>>
  /\ troubles = 0
  /\ childStream = [at |-> "start", generation |-> 0, begins |-> {}, leaf |-> <<>>, from |-> 0, got |-> 0,
               lastSeq |-> 0, cursor |-> 0, pending |-> NoEvent, known |-> {}, cut |-> FALSE,
               working |-> [c \in {} |-> {}], togo |-> {}, high |-> 0, uncertain |-> FALSE,
               reason |-> "none"]

(***************************************************************************)
(* The native: it commits before it announces, in the order of commits,    *)
(* and says that it skipped what it could not announce.                    *)
(***************************************************************************)
NextPhases(c) ==
  LET mine == Of(ToSet(Current), c) IN
  IF mine = {} THEN IF \E g \in DOMAIN branches : Of(ToSet(branches[g]), c) # {} THEN {} ELSE {"begin"}
  ELSE CASE (CHOOSE e \in mine : \A f \in mine : f.seq <= e.seq).phase = "begin" -> {"requested"}
         [] (CHOOSE e \in mine : \A f \in mine : f.seq <= e.seq).phase \in {"requested", "update"} -> {"update", "final"}
         [] (CHOOSE e \in mine : \A f \in mine : f.seq <= e.seq).phase = "final" -> {"closed"}
         [] OTHER -> {}

HostOpen == \A k \in DOMAIN announced : announced[k].what # "closed"

Commits(c) ==
  /\ entrySeq < MaxEntries /\ HostOpen
  /\ \E p \in NextPhases(c) :
       LET e == [seq |-> entrySeq + 1, child |-> c, phase |-> p, index |-> Cardinality(Of(ToSet(Current), c)) - 1]
       IN /\ branches' = [branches EXCEPT ![ChildGeneration] = Append(@, e)]
          /\ unsaid' = Append(unsaid, e)
  /\ entrySeq' = entrySeq + 1
  /\ UNCHANGED announced

Announces ==
  /\ unsaid # <<>> /\ HostOpen
  /\ announced' = Append(announced, [what |-> "child", entry |-> Head(unsaid)]) /\ unsaid' = Tail(unsaid)
  /\ UNCHANGED <<branches, entrySeq>>

SkipsCommit ==
  /\ unsaid # <<>> /\ HostOpen
  /\ announced' = Append(announced, [what |-> "resync"]) /\ unsaid' = Tail(unsaid)
  /\ UNCHANGED <<branches, entrySeq>>

HostCloses ==
  /\ HostOpen /\ childStream.at # "start"
  /\ announced' = Append(announced, [what |-> "closed"]) /\ UNCHANGED <<branches, entrySeq, unsaid>>

\* The user goes to an earlier entry of this or of an older branch: a new
\* generation, whatever the path it lies on.
Navigates ==
  /\ HostOpen
  /\ \E g \in DOMAIN branches : \E n \in 0..Len(branches[g]) :
       branches' = Append(branches, SubSeq(branches[g], 1, n))
  /\ UNCHANGED <<entrySeq, unsaid, announced>>

Trouble == troubles < MaxTroubles /\ troubles' = troubles + 1
NativeGoesOn ==
  /\ childStream.at # "over" /\ UNCHANGED childStream
  /\ \/ (Announces \/ \E c \in ProgramChild : Commits(c)) /\ UNCHANGED troubles
     \/ Trouble /\ (SkipsCommit \/ HostCloses \/ Navigates)

(***************************************************************************)
(* Facts and their order (Identities, merge).                              *)
(***************************************************************************)
\* Two different entries with one id or one sequence contradict each other.
Contradicts(known, e) == \E k \in known : k # e /\ k.seq = e.seq

Latest(phases) == CHOOSE p \in phases : \A q \in phases : q.seq <= p.seq
Disposition(phases, e) ==
  IF e \in phases THEN "duplicate"
  ELSE IF phases = {} THEN "applied"
  ELSE IF e.seq < Latest(phases).seq THEN "outside"
  ELSE IF e.index # Latest(phases).index + 1 THEN "resync" ELSE "applied"

\* What merge keeps must be a lifecycle: rising, nothing after closed, only closed
\* after final.
Lifecycle(phases) ==
  \A p, q \in phases : p.seq < q.seq =>
    /\ p.index < q.index /\ p.phase # "closed" /\ (p.phase = "final" => q.phase = "closed")
    /\ (p.phase = q.phase => p.phase = "update")

(***************************************************************************)
(* Attachment: subscribe, then the snapshot, each read an await of its own *)
(* (subscription_inner, snapshot_inner).                                   *)
(***************************************************************************)
ToPhase(at) == childStream' = [childStream EXCEPT !.at = at]
Fails == ToPhase("over")
OnBranch(leaf) == IsPrefix(leaf, Current)
\* A read pinned to a leaf that has left the branch may be refused.
Refusal(leaf) == ~OnBranch(leaf) /\ Fails

Subscribes ==
  /\ childStream.at = "start"
  /\ childStream' = [childStream EXCEPT !.at = "boundary", !.generation = ChildGeneration, !.got = Len(announced)]

TakesBoundary ==
  childStream.at = "boundary" /\ childStream' = [childStream EXCEPT !.at = "summaries", !.from = Len(announced)]

ReadsSummaries ==
  /\ childStream.at = "summaries"
  /\ LET begins == Newest(Begins(ToSet(Current)), WindowSize) IN
       childStream' = [childStream EXCEPT !.at = "phases", !.begins = begins, !.leaf = Current, !.togo = Kids(begins),
                                !.known = begins, !.working = [c \in Kids(begins) |-> {}],
                                !.high = Max({0} \cup {e.seq : e \in begins})]

ReadsPhases(c) ==
  /\ childStream.at = "phases" /\ c \in childStream.togo
  /\ \/ Refusal(childStream.leaf)
     \/ LET all == Phases(ToSet(childStream.leaf), c)
            page == Newest(all, PhaseLimit) IN
          childStream' = [childStream EXCEPT !.togo = @ \ {c}, !.known = @ \cup page, !.working[c] = page,
                                   !.cut = @ \/ page # all, !.high = Max({@} \cup {e.seq : e \in page})]

Rechecks ==
  /\ childStream.at = "phases" /\ childStream.togo = {}
  /\ \/ Refusal(childStream.leaf)
     \/ ToPhase("replay")

\* map_history under the history lock: every event after the boundary, in order.
Overlap == [k \in 1..(Len(announced) - childStream.from) |-> announced[childStream.from + k]]
Replayed(s, ev) ==
  IF ev.what # "child" THEN [s EXCEPT !.uncertain = TRUE]
  ELSE IF s.at = "over" \/ Contradicts(s.known, ev.entry) THEN [s EXCEPT !.at = "over"]
  ELSE LET e == ev.entry
           noted == [s EXCEPT !.known = @ \cup {e}, !.high = Max({@, e.seq})] IN
       IF e.child \notin DOMAIN s.working THEN [s EXCEPT !.uncertain = TRUE, !.known = @ \cup {e}]
       ELSE IF e.phase = "begin" THEN IF e \in s.begins THEN noted ELSE [s EXCEPT !.at = "over"]
       ELSE IF ~Lifecycle(s.working[e.child] \cup {e}) THEN [s EXCEPT !.at = "over"]
       ELSE [noted EXCEPT !.working[e.child] = @ \cup {e},
                          !.uncertain = @ \/ Disposition(s.working[e.child], e) = "resync"]

ReplaysOverlap ==
  /\ childStream.at = "replay"
  /\ IF Len(announced) - childStream.from > EventBuffer THEN Fails
     ELSE childStream' = FoldLeft(Replayed, [childStream EXCEPT !.at = "attached", !.lastSeq = Len(announced),
                                                      !.cursor = Len(announced)], Overlap)

AttachEnds ==
  /\ childStream.at = "attached"
  /\ childStream' = [childStream EXCEPT !.at = IF ChildGeneration = childStream.generation /\ ~childStream.uncertain THEN "next" ELSE "over",
                              !.reason = IF ChildGeneration # childStream.generation THEN "branch"
                                         ELSE IF childStream.uncertain THEN "uncertain" ELSE "none"]

(***************************************************************************)
(* next: one event, proved, then applied.                                  *)
(***************************************************************************)
StopFor(why) == childStream' = [childStream EXCEPT !.at = "over", !.reason = why, !.pending = NoEvent]

ChildReceives ==
       /\ childStream.at = "next" /\ childStream.pending = NoEvent
       /\ IF Len(announced) - childStream.got > EventBuffer THEN StopFor("lagged")
          ELSE /\ childStream.got < Len(announced)
               /\ childStream' = [childStream EXCEPT !.pending = announced[childStream.got + 1], !.got = @ + 1]

StopReason(ev) ==
  IF childStream.got # childStream.cursor + 1 THEN "gap"
  ELSE IF ev.what # "child" THEN ev.what
  ELSE LET e == ev.entry IN
       IF e.child \notin DOMAIN childStream.working THEN "outside"
       ELSE IF Contradicts(childStream.known, e) THEN "identity"
       ELSE IF e \notin childStream.known /\ e.seq <= childStream.high THEN "old" ELSE "none"

\* Events the snapshot covers are skipped; the rest is checked against what is known.
Preflight ==
  /\ childStream.at = "next" /\ childStream.pending # NoEvent
  /\ IF childStream.got <= childStream.lastSeq THEN childStream' = [childStream EXCEPT !.pending = NoEvent]
     ELSE IF StopReason(childStream.pending) # "none" THEN StopFor(StopReason(childStream.pending))
     ELSE ToPhase("before")

SameBranch == ChildGeneration = childStream.generation
ProofBefore == childStream.at = "before" /\ IF SameBranch THEN ToPhase("head") ELSE StopFor("branch")

HeadAgrees == Newest(Begins(ToSet(Current)), HeadSize) = childStream.begins
ProofHead ==
  /\ childStream.at = "head"
  /\ IF HeadAgrees
     THEN childStream' = [childStream EXCEPT !.at = "facts", !.leaf = Current, !.togo = DOMAIN childStream.working]
     ELSE StopFor("branch")

ProofFacts(c) ==
  /\ childStream.at = "facts" /\ c \in childStream.togo
  /\ \/ ~OnBranch(childStream.leaf) /\ StopFor("branch")
     \/ IF Phases(Of({childStream.pending.entry}, c), c) \cup childStream.working[c] \subseteq ToSet(childStream.leaf)
        THEN childStream' = [childStream EXCEPT !.togo = @ \ {c}, !.at = IF childStream.togo = {c} THEN "check" ELSE @]
        ELSE StopFor("branch")

ProofCheck == childStream.at = "check" /\ IF HeadAgrees THEN ToPhase("after") ELSE StopFor("branch")

ProofAfter == childStream.at = "after" /\ IF SameBranch THEN ToPhase("apply") ELSE StopFor("branch")

\* No await from here to the update that the caller gets.
Applies ==
  /\ childStream.at = "apply"
  /\ LET e == childStream.pending.entry
         taken == [childStream EXCEPT !.at = "next", !.pending = NoEvent, !.cursor = childStream.got,
                                 !.known = @ \cup {e}, !.high = Max({@, e.seq})] IN
     IF e \in childStream.known THEN childStream' = taken
     ELSE IF e.phase = "begin" \/ ~Lifecycle(childStream.working[e.child] \cup {e}) THEN StopFor("identity")
     ELSE IF Disposition(childStream.working[e.child], e) # "applied" THEN StopFor("discontinuity")
     ELSE childStream' = [taken EXCEPT !.working[e.child] = @ \cup {e}]

\* The caller drops the future at an await and asks again: the frame is kept and its
\* proof starts afresh.
Restarted == [childStream EXCEPT !.at = "next"]
DropsNext ==
  /\ Trouble /\ childStream.at \in {"before", "head", "facts", "check", "after"}
  /\ childStream' = Restarted /\ UNCHANGED nativeVars

ProofSteps == ProofBefore \/ ProofHead \/ ProofCheck \/ ProofAfter \/ \E c \in ProgramChild : ProofFacts(c)
AttachSteps == \/ Subscribes \/ TakesBoundary \/ ReadsSummaries \/ Rechecks \/ ReplaysOverlap \/ AttachEnds
               \/ \E c \in ProgramChild : ReadsPhases(c)

ChildNext == \/ NativeGoesOn \/ DropsNext
             \/ (AttachSteps \/ ChildReceives \/ Preflight \/ ProofSteps \/ Applies) /\ UNCHANGED <<nativeVars, troubles>>

(***************************************************************************)
(* Properties                                                              *)
(***************************************************************************)
StreamLive == childStream.at \in {"next", "before", "head", "facts", "check", "after", "apply"}

\* When an update is handed out, it and every fact held beside it were journalled on
\* the generation the subscription was attached to, however the user navigated
\* between the reads of the proof, there and back included.
UpdateOfTheBranch ==
  childStream.at = "apply" => \A c \in DOMAIN childStream.working :
    childStream.working[c] \cup childStream.begins \cup {childStream.pending.entry} \subseteq ToSet(branches[childStream.generation])

\* A live subscription holds every phase its cursor has passed since the snapshot, and
\* no hole below what it holds unless the phase window it asked for was too short.
NoPhaseSkipped ==
  StreamLive => \A c \in DOMAIN childStream.working, e \in ToSet(branches[childStream.generation]) :
    e \in Phases({e}, c) =>
      LET At == {k \in 1..childStream.cursor : announced[k] = [what |-> "child", entry |-> e]} IN
      /\ (\E k \in At : k > childStream.lastSeq) => e \in childStream.working[c]
      /\ (At # {} \/ \E f \in childStream.working[c] : f.seq > e.seq) => (childStream.cut \/ e \in childStream.working[c])

\* The subscriber is told to start over only when there is a reason: the user
\* has navigated, a child lies outside the window, an older phase does, the native
\* skipped a commit, the reader was too slow, or the host closed.  Never because a
\* proof was dropped half way or a commit was read before it was announced.
Navigated == ChildGeneration > 1
OutsideWindow == Kids(Begins(ToSet(Current))) \ Kids(childStream.begins) # {}
ResyncHasCause ==
  childStream.at = "over" =>
    CASE childStream.reason \in {"branch", "outside"} -> Navigated \/ OutsideWindow
      [] childStream.reason = "old" -> Navigated \/ childStream.cut
      [] OTHER -> childStream.reason \notin {"gap", "identity", "discontinuity"}
==============================================================================
