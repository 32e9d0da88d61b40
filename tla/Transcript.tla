---------------------------- MODULE Transcript ----------------------------
(* What a client sees of a conversation: the history of a session, prepared  *)
(* in bounded pages, and the text of a message while it is written.          *)
EXTENDS Integers, Sequences, FiniteSets, SequencesExt

-----------------------------------------------------------------------------
(* The bounded preparation of a session's history (history/page.rs), which   *)
(* the ACP adapter replays on session/load (rpi-acp history.rs): pages read  *)
(* newest first and stacked on disk, or the saved transcript of a host that  *)
(* has no page command, then validated and popped oldest first - all under   *)
(* the run lease, while the native goes on by itself.                        *)

CONSTANTS
  MaxTree,        \* entries the native creates
  Marks,          \* the entries that are no messages (labels, model changes)
  Big,            \* the messages of two units of bytes; the others have one
  PageLimit,      \* MAX_PAGE_MESSAGES
  PageBytes,      \* MAX_PAGE_BYTES
  MaxForeign,     \* changes the native makes outside a prompt of this host
  MaxLies         \* inconsistent page replies

ASSUME HistoryAssumption ==
  /\ {MaxTree, PageLimit, PageBytes} \subseteq Nat \ {0} /\ {MaxForeign, MaxLies} \subseteq Nat
  /\ Marks \subseteq 1..MaxTree /\ Big \subseteq 1..MaxTree

VARIABLES
  parents,        \* the entry tree: the parent of each entry, 0 for a root
  leaf,           \* the entry the native's branch ends with, 0 for none
  historyAnnounced,      \* [due, seq, kept]: events to come, numbered, and in history
  prompting,      \* a prompt of this host holds the run lease
  paged,          \* the native advertises get_messages
  historyReader,         \* the HistoryRead and its spool
  transcript,     \* the messages the client has been shown
  strays          \* [foreign, lies] counted

historyVars == <<parents, leaf, historyAnnounced, prompting, paged, historyReader, transcript, strays>>

NoPage == [leaf |-> -1, total |-> 0]   \* no page was read yet
NoReader == [at |-> "none", boundary |-> 0, before |-> 0, anchor |-> NoPage, seen |-> {},
             line |-> 1, end |-> 0, spool |-> <<>>, walk |-> 0, cancelled |-> FALSE]

HistoryInit ==
  /\ parents \in UNION {[1..n -> 0..0] : n \in 0..1} /\ leaf = Len(parents)
  /\ historyAnnounced = [due |-> 0, seq |-> 0, kept |-> 0]
  /\ prompting = FALSE /\ paged \in BOOLEAN
  /\ historyReader = NoReader /\ transcript = <<>> /\ strays = [foreign |-> 0, lies |-> 0]

-----------------------------------------------------------------------------
\* The branch that ends with an entry, oldest first (branch_messages_from_entries):
\* the entries above it in the tree that are messages.
Branch(l) ==
  LET up[e \in 0..Len(parents)] == IF e = 0 THEN <<>> ELSE Append(up[parents[e]], e)
  IN SelectSeq(up[l], LAMBDA e : e \notin Marks)

Size(messages) == Len(messages) + Cardinality({i \in DOMAIN messages : messages[i] \in Big})

\* What the native answers to get_messages: at most `limit` messages before a cursor.
NativePage(before, limit) ==
  LET all == Branch(leaf)
      upto == IF before = 0 THEN Len(all) ELSE SelectInSeq(all, LAMBDA e : e = before) - 1
      from == IF upto > limit THEN upto - limit + 1 ELSE 1
  IN [messages |-> SubSeq(all, from, upto), leaf |-> leaf, total |-> Len(all), before |-> before,
      more |-> from > 1]
KnowsCursor(before) == before = 0 \/ Contains(Branch(leaf), before)

\* Replies a native may give that do not belong together.
Lies(before, limit) ==
  LET page == NativePage(before, limit) IN
  {[page EXCEPT !.more = ~ @], [page EXCEPT !.total = @ + 1]}
    \cup {[page EXCEPT !.messages = s] : s \in [DOMAIN page.messages -> 1..Len(parents)]}

\* validate_page: what one reply must satisfy by itself and towards the anchor.
ValidPage(page, before, limit, anchor) ==
  LET n == Len(page.messages) IN
  /\ Size(page.messages) <= PageBytes
  /\ page.total > 0 => page.leaf # 0
  /\ anchor # NoPage => anchor = [leaf |-> page.leaf, total |-> page.total]
  /\ page.before = before
  /\ n <= limit /\ n <= page.total
  /\ before # 0 => n < page.total
  /\ page.more => n = limit /\ n < page.total
  /\ before = 0 /\ ~ page.more => n = page.total
  /\ ~ Contains(page.messages, before) /\ IsInjective(page.messages)

-----------------------------------------------------------------------------
\* The native adds an entry below its leaf and will announce it.
Grows ==
  /\ Len(parents) < MaxTree
  /\ parents' = Append(parents, leaf) /\ leaf' = Len(parents) + 1
  /\ historyAnnounced' = [historyAnnounced EXCEPT !.due = @ + 1]

Reading == {"page", "last", "state", "file", "window", "recheck", "verify", "validate", "emit"}
\* The run lease is held by a prompt or by the whole of a read.
LeaseOfReplay == Reading
LeaseHeld == prompting \/ historyReader.at \in LeaseOfReplay

\* A prompt of this host: it holds the lease, and its messages are shown live.
PromptBegins ==
  /\ ~ LeaseHeld /\ Len(parents) < MaxTree
  /\ prompting' = TRUE
  /\ UNCHANGED <<parents, leaf, historyAnnounced, paged, historyReader, transcript, strays>>
PromptAdds ==
  /\ prompting /\ Grows
  /\ transcript' = IF leaf' \in Marks THEN transcript ELSE Append(transcript, leaf')
  /\ UNCHANGED <<prompting, paged, historyReader, strays>>
PromptEnds ==
  /\ prompting /\ historyAnnounced.due = 0 /\ prompting' = FALSE
  /\ UNCHANGED <<parents, leaf, historyAnnounced, paged, historyReader, transcript, strays>>

\* The native changes its branch by itself: an extension adds an entry, a
\* command of another client navigates.
NativeMoves ==
  /\ strays.foreign < MaxForeign /\ strays' = [strays EXCEPT !.foreign = @ + 1]
  /\ \/ Grows
     \/ \E e \in 0..Len(parents) :
          /\ e # leaf /\ leaf' = e /\ historyAnnounced' = [historyAnnounced EXCEPT !.due = @ + 1]
          /\ UNCHANGED parents
  /\ UNCHANGED <<prompting, paged, historyReader, transcript>>

\* The host numbers an event and then keeps it in its history.
Numbers ==
  /\ historyAnnounced.due > 0 /\ historyAnnounced.seq = historyAnnounced.kept
  /\ historyAnnounced' = [historyAnnounced EXCEPT !.due = @ - 1, !.seq = @ + 1]
  /\ UNCHANGED <<parents, leaf, prompting, paged, historyReader, transcript, strays>>
Keeps ==
  /\ historyAnnounced.kept < historyAnnounced.seq
  /\ historyAnnounced' = [historyAnnounced EXCEPT !.kept = @ + 1]
  /\ UNCHANGED <<parents, leaf, prompting, paged, historyReader, transcript, strays>>

NativeSteps == PromptBegins \/ PromptAdds \/ PromptEnds \/ NativeMoves \/ Numbers \/ Keeps

-----------------------------------------------------------------------------
NativeSame == UNCHANGED <<parents, leaf, historyAnnounced, prompting, paged>>
Quiet == NativeSame /\ UNCHANGED <<transcript, strays>>

\* An error drops the read and its spool; the client has what it was shown.
Fail == historyReader' = [NoReader EXCEPT !.at = "failed"]

\* HistoryRead::begin: the lease, the cancellation receiver, and the boundary,
\* which is refused while a publication is in flight.
ReadBegins ==
  /\ historyReader.at \notin Reading /\ ~ LeaseHeld
  /\ IF historyAnnounced.kept # historyAnnounced.seq THEN Fail
     ELSE historyReader' = [NoReader EXCEPT !.at = IF paged THEN "page" ELSE "state",
                                            !.boundary = historyAnnounced.seq]
  /\ transcript' = <<>> /\ NativeSame /\ UNCHANGED strays

\* session/cancel, and whatever else raises the host's cancellation generation.
ReadCancelled ==
  /\ historyReader.at \in Reading /\ ~ historyReader.cancelled
  /\ historyReader' = [historyReader EXCEPT !.cancelled = TRUE] /\ Quiet
\* ensure_active notices it; a deadline, a budget or an unreadable line end
\* the preparation in the same way.
ReadFails ==
  /\ historyReader.at \in Reading /\ (historyReader.cancelled \/ historyReader.at # "emit")
  /\ Fail /\ Quiet

Active(at) == historyReader.at = at /\ ~ historyReader.cancelled

\* A page is new when none of its messages was seen, and the count moves on.
Progress(page, seen) ==
  LET count == Cardinality(seen \cup ToSet(page.messages)) IN
  /\ ToSet(page.messages) \cap seen = {}
  /\ count <= page.total /\ (page.more => count < page.total)
Complete(page, seen) == Cardinality(seen) = page.total

\* The loop of `prepare`: the next older page is read, checked and pushed.
Pages(page) ==
  LET seen == historyReader.seen \cup ToSet(page.messages) IN
  IF \/ ~ ValidPage(page, historyReader.before, PageLimit, historyReader.anchor)
     \/ ~ Progress(page, historyReader.seen)
     \/ ~ page.more /\ ~ Complete(page, seen)
  THEN Fail
  ELSE historyReader' = [historyReader EXCEPT
                !.at = IF page.more THEN "page" ELSE "last", !.seen = seen,
                !.before = IF page.more THEN page.messages[1] ELSE 0,
                !.anchor = [leaf |-> page.leaf, total |-> page.total],
                !.spool = Append(@, page.messages)]
ReadsPage ==
  /\ Active("page")
  /\ IF ~ KnowsCursor(historyReader.before) THEN Fail ELSE Pages(NativePage(historyReader.before, PageLimit))
  /\ Quiet

\* The branch is asked once more, for its newest message and its anchor.
LastAnchor == historyReader.anchor
HistoryRechecks(page) ==
         IF ValidPage(page, 0, 1, LastAnchor) THEN historyReader' = [historyReader EXCEPT !.at = "verify"] ELSE Fail
ReadsLast == Active("last") /\ HistoryRechecks(NativePage(0, 1)) /\ Quiet

ReadsLie ==
  /\ strays.lies < MaxLies /\ strays' = [strays EXCEPT !.lies = @ + 1]
  /\ \/ /\ Active("page") /\ KnowsCursor(historyReader.before)
        /\ \E page \in Lies(historyReader.before, PageLimit) : Pages(page)
     \/ Active("last") /\ \E page \in Lies(0, 1) : HistoryRechecks(page)
  /\ NativeSame /\ UNCHANGED transcript

\* A host without the page command: its leaf, the saved file line by line, the
\* windows of the branch newest first, and the leaf again.
ReadsState ==
  /\ Active("state")
  /\ historyReader' = [historyReader EXCEPT !.at = "file", !.anchor = [leaf |-> leaf, total |-> 0]] /\ Quiet
ReadsLine ==
  /\ Active("file")
  /\ IF historyReader.line <= Len(parents) THEN historyReader' = [historyReader EXCEPT !.line = @ + 1]
     ELSE historyReader' = [historyReader EXCEPT !.at = "window", !.end = Len(Branch(historyReader.anchor.leaf))]
  /\ Quiet
WindowStart(messages, end) ==
  CHOOSE s \in 1..(end + 1) :
    LET fits(t) == end - t + 1 <= PageLimit /\ Size(SubSeq(messages, t, end)) <= PageBytes
    IN \A t \in s..end : fits(t) /\ (s = 1 \/ ~ fits(s - 1))
PushesWindow ==
  /\ Active("window") /\ historyReader.end > 0
  /\ LET messages == Branch(historyReader.anchor.leaf)
         start == WindowStart(messages, historyReader.end)
     IN IF start > historyReader.end THEN Fail
        ELSE historyReader' = [historyReader EXCEPT !.end = start - 1,
                                                    !.spool = Append(@, SubSeq(messages, start, historyReader.end))]
  /\ Quiet
WindowsEnd == Active("window") /\ historyReader.end = 0 /\ historyReader' = [historyReader EXCEPT !.at = "recheck"] /\ Quiet
SameLeaf(l) == l = historyReader.anchor.leaf
ReadsLeaf ==
  /\ Active("recheck")
  /\ IF SameLeaf(leaf) THEN historyReader' = [historyReader EXCEPT !.at = "verify"] ELSE Fail
  /\ Quiet

\* verify_boundary: no event was numbered since the read began.
SameBoundary == historyAnnounced.kept = historyAnnounced.seq /\ historyAnnounced.seq = historyReader.boundary
Verifies ==
  /\ Active("verify")
  /\ IF SameBoundary THEN historyReader' = [historyReader EXCEPT !.at = "validate", !.walk = Len(historyReader.spool)]
     ELSE Fail
  /\ Quiet

\* HistorySpool::validate walks the pages in replay order and takes none away.
Walks ==
  /\ Active("validate")
  /\ historyReader' = IF historyReader.walk > 0 THEN [historyReader EXCEPT !.walk = @ - 1]
                      ELSE [historyReader EXCEPT !.at = "emit"]
  /\ Quiet

\* Replay::emit pops page after page and shows its messages.
Popped == Len(historyReader.spool)
PopsPage ==
  /\ Active("emit") /\ historyReader.spool # <<>>
  /\ transcript' = transcript \o historyReader.spool[Popped]
  /\ historyReader' = [historyReader EXCEPT !.spool = RemoveAt(@, Popped)]
  /\ NativeSame /\ UNCHANGED strays
\* The load is answered and the lease let go.
LoadEnds ==
  /\ historyReader.at = "emit" /\ historyReader.spool = <<>>
  /\ historyReader' = [NoReader EXCEPT !.at = "done"] /\ Quiet

ReaderSteps ==
  \/ ReadBegins \/ ReadFails \/ ReadsPage \/ ReadsLast \/ ReadsLie \/ ReadsState \/ ReadsLine
  \/ PushesWindow \/ WindowsEnd \/ ReadsLeaf \/ Verifies \/ Walks \/ PopsPage \/ LoadEnds
HistoryNext == NativeSteps \/ ReaderSteps \/ ReadCancelled

-----------------------------------------------------------------------------
Exposed == FlattenSeq(Reverse(historyReader.spool))

\* What is verified is the branch the native has at that moment, whole, oldest
\* first and each message once, however the branch moved between two replies.
PreparedIsBranch ==
  [][strays.lies = 0 /\ historyReader.at \in {"last", "recheck"} /\ historyReader'.at = "verify"
       => Exposed = Branch(leaf)]_historyVars

\* A page reply that does not fit the others never puts a message twice, or a
\* part of a branch, before the client.
NeverTwice ==
  historyReader.at \in {"verify", "validate"} /\ paged
           => IsInjective(Exposed) /\ Len(Exposed) = historyReader.anchor.total

\* A client that loaded a session and then followed its prompts shows the
\* native's branch, unless the native moved it by itself.
TranscriptFollows ==
  historyReader.at = "done" /\ strays.foreign = 0 /\ strays.lies = 0 => transcript = Branch(leaf)

-----------------------------------------------------------------------------
(* How the text of an assistant message reaches a client: MessageProjection   *)
(* turns deltas and cumulative snapshots into chunks, repairs what a lost      *)
(* delta left out, and RunTracker ends the run with the final text.            *)
(* LiveMessageProjection keeps one whole message for clients that want         *)
(* snapshots.  Text and thinking are treated alike, so one of them is modelled.*)

CONSTANTS
  Chars,        \* what texts are made of
  MaxText,      \* bound: length of a message
  MaxMessages,  \* bound: messages in a run
  MaxOdd        \* bound: lost deltas, delayed frames, corrections

ASSUME TextBounds == {MaxText, MaxMessages, MaxOdd} \subseteq Nat

VARIABLES
  withIds,    \* the host names its messages and requires the names
  message,    \* number of the native's current message, 0 before the first
  text,       \* its text in the native
  sent,       \* MessageProjection: the text it believes the client has; the client
              \* appends the chunks it gets to the same message
  shown,      \* what the client has of the current message
  textLive,       \* LiveMessageProjection: <<>> or <<the whole text>>
  liveShown,  \* the snapshot the last projected event carried, <<>> if it had none
  poisoned,   \* RunTracker::stream_error
  lostDelta, corrected,   \* the native's current message had one
  tail,       \* the end of the message, or the settlement, carried the whole text
  runOutcome, odd

messageVars == <<withIds, message, text, sent, shown, textLive, liveShown, poisoned, lostDelta,
                 corrected, tail, runOutcome, odd>>

Texts == BoundedSeq(Chars, MaxText)

TextInit ==
  /\ withIds \in BOOLEAN /\ message = 0 /\ text = <<>> /\ sent = <<>> /\ shown = <<>>
  /\ textLive = <<>> /\ liveShown = <<>> /\ poisoned = FALSE /\ lostDelta = FALSE /\ corrected = FALSE
  /\ tail = FALSE /\ runOutcome = "" /\ odd = 0

Odd == odd < MaxOdd /\ odd' = odd + 1
Suffix(whole, part) == SubSeq(whole, Len(part) + 1, Len(whole))

\* append_snapshot: the text that is missing, nothing for a snapshot that is
\* behind, an error for one that differs.
Fits(known, whole) == IsPrefix(known, whole) \/ IsPrefix(whole, known)
Extended(known, whole) == IF IsPrefix(known, whole) THEN whole ELSE known

\* The projection and the client see a snapshot or a delta, unless the stream
\* is poisoned; the client only ever appends.
SeesSnapshot(known, had, whole) ==
  IF poisoned THEN UNCHANGED <<sent, shown, poisoned>>
  ELSE IF Fits(known, whole)
  THEN /\ sent' = Extended(known, whole) /\ shown' = had \o Suffix(Extended(known, whole), known)
       /\ UNCHANGED poisoned
  ELSE poisoned' = TRUE /\ sent' = known /\ shown' = had

SeesDelta(c) ==
  IF poisoned THEN UNCHANGED <<sent, shown, poisoned>>
  ELSE sent' = Append(sent, c) /\ shown' = Append(shown, c) /\ UNCHANGED poisoned

\* A message_start empties both projections; its content may not be empty.
NativeStartsMessage(initial) ==
  /\ runOutcome = "" /\ message < MaxMessages
  /\ message' = message + 1 /\ text' = initial
  /\ SeesSnapshot(<<>>, <<>>, initial)
  /\ textLive' = <<initial>> /\ liveShown' = <<initial>>
  /\ lostDelta' = FALSE /\ corrected' = FALSE /\ tail' = FALSE
  /\ UNCHANGED <<withIds, runOutcome, odd>>

\* An update carries a delta and, from some hosts, the whole message as well:
\* the snapshot then decides and the delta is not appended again.
UpdateSnapshot(c) == Append(text, c)

NativeAppends(c, whole) ==
  /\ runOutcome = "" /\ message > 0 /\ ~tail /\ Len(text) < MaxText /\ text' = Append(text, c)
  /\ IF whole THEN SeesSnapshot(sent, shown, UpdateSnapshot(c)) ELSE SeesDelta(c)
  /\ textLive' = IF whole THEN <<text'>> ELSE IF textLive = <<>> THEN <<>> ELSE <<Append(textLive[1], c)>>
  /\ liveShown' = textLive'
  /\ UNCHANGED <<withIds, message, lostDelta, corrected, tail, runOutcome, odd>>

\* The provider's delta never reaches the stream.
DeltaLost(c) ==
  /\ runOutcome = "" /\ message > 0 /\ ~tail /\ Len(text) < MaxText /\ text' = Append(text, c) /\ Odd
  /\ lostDelta' = TRUE
  /\ UNCHANGED <<withIds, message, sent, shown, textLive, liveShown, poisoned, corrected, tail,
                 runOutcome>>

\* A structural snapshot, perhaps of an earlier moment of the message.
SnapshotArrives(n) ==
  /\ runOutcome = "" /\ message > 0 /\ ~tail /\ n \in 0..Len(text)
  /\ SeesSnapshot(sent, shown, SubSeq(text, 1, n))
  /\ IF n = Len(text) THEN UNCHANGED odd ELSE Odd
  /\ textLive' = <<SubSeq(text, 1, n)>> /\ liveShown' = textLive'
  /\ corrected' = (corrected \/ n < Len(text))
  /\ UNCHANGED <<withIds, message, text, lostDelta, tail, runOutcome>>

\* A frame of an earlier message comes late.  With names, MessageProjection
\* fails the stream and LiveMessageProjection ignores the frame; without them
\* the native's order is all there is, and no such frame is sent.
LiveIgnores == UNCHANGED textLive
LateFrame ==
  /\ runOutcome = "" /\ message > 1 /\ withIds /\ ~tail /\ Odd
  /\ poisoned' = TRUE /\ LiveIgnores /\ liveShown' = <<>>
  /\ UNCHANGED <<withIds, message, text, sent, shown, lostDelta, corrected, tail, runOutcome>>

\* message_end: the final message, which may correct what was streamed, or no
\* content at all from an older host.
MessageEnds(final, whole) ==
  /\ runOutcome = "" /\ message > 0 /\ ~tail
  /\ IF final = text THEN UNCHANGED <<odd, corrected>> ELSE whole /\ Odd /\ corrected' = TRUE
  /\ text' = final /\ tail' = whole
  /\ IF whole THEN SeesSnapshot(sent, shown, final) ELSE UNCHANGED <<sent, shown, poisoned>>
  /\ textLive' = <<>> /\ liveShown' = IF whole THEN <<final>> ELSE <<>>
  /\ UNCHANGED <<withIds, message, lostDelta, runOutcome>>

\* agent_settled, with the final text or without it.  A poisoned stream fails.
Settled(whole) ==
  IF poisoned \/ (whole /\ ~Fits(sent, text)) \/ (whole /\ withIds /\ text # <<>> /\ message = 0)
  THEN "error" ELSE "end_turn"

TextRunSettles(whole) ==
      /\ runOutcome = "" /\ message > 0
      /\ runOutcome' = Settled(whole) /\ tail' = (tail \/ whole)
      /\ IF whole THEN SeesSnapshot(sent, shown, text) ELSE UNCHANGED <<sent, shown, poisoned>>
      /\ textLive' = <<>> /\ liveShown' = <<>>
      /\ UNCHANGED <<withIds, message, text, lostDelta, corrected, odd>>

TextNext ==
  \/ \E t \in Texts : NativeStartsMessage(t)
  \/ \E c \in Chars : DeltaLost(c) \/ \E whole \in BOOLEAN : NativeAppends(c, whole)
  \/ \E n \in 0..MaxText : SnapshotArrives(n)
  \/ LateFrame
  \/ \E final \in Texts, whole \in BOOLEAN : MessageEnds(final, whole)
  \/ \E whole \in BOOLEAN : TextRunSettles(whole)

(***************************************************************************)
(* Properties.                                                             *)
(***************************************************************************)

\* A prompt that ends well has shown the whole reply: what the native says at
\* the end is at least a prefix of what the client has (append_snapshot,
\* RunTracker::observe).
ReplyIsWhole == runOutcome = "end_turn" /\ tail => IsPrefix(text, shown)

\* No delta is lost or appended twice on the way: without a loss or a correction
\* the client has exactly the text of the native, whatever mixture of deltas and
\* snapshots the host sends.
ReplyIsExact == ~lostDelta /\ ~corrected /\ ~poisoned => shown = text

\* A snapshot shown to a client is the message as the native has it, never one
\* with a frame of another message in it (LiveMessageProjection::project).
LiveIsMessage == ~lostDelta /\ ~corrected /\ liveShown # <<>> => liveShown = <<text>>

=============================================================================
