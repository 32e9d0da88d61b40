--------------------------- MODULE DurableProjection ---------------------------
(***************************************************************************)
(* extcore's projection of the durable journal.  The package commits       *)
(* entries on the branch, the host moves the branch, and both are noticed  *)
(* by events or by the service itself, which re-reads the branch and       *)
(* publishes what changed to streams of subscribers.  A state is the       *)
(* sequence of the entries it came from; its revision is its length.       *)
(***************************************************************************)
EXTENDS Naturals, Sequences, FiniteSets, SequencesExt

CONSTANTS
  MaxCommits,    \* bound on journal entries
  MaxBranchMoves,\* bound on navigations
  MaxDrops,      \* bound on lost connections
  HistorySize    \* MAX_CHANGE_ENTRIES, of the ring and of the channel

ASSUME ProjectionConstants ==
  MaxCommits \in Nat /\ MaxBranchMoves \in Nat /\ MaxDrops \in Nat /\ HistorySize \in Nat \ {0}

VARIABLES
  entries,     \* the branch
  commits,     \* entries ever committed
  moves,
  notices,     \* session_entry_committed events the watcher has not taken
  missed,      \* the watcher's channel overflowed: it will be told Lagged
  refresh,     \* per refresher: [at, next]
  refreshLock, \* refresh_lock: its holder
  projection,
  ring,        \* history
  client,      \* a subscriber: [at, after, inbox, lagged, cursor, top, view, told]
  drops

projVars == <<entries, commits, moves, notices, missed, refresh, refreshLock, projection, ring, client, drops>>

Refreshers == {"watcher", "service"}
Resting == [at |-> "idle", next |-> <<>>]
\* after: the client's Last-Event-ID; top: the highest revision it was sent;
\* view: the last state it was sent; told: it was told to resynchronise.
NoClient == [at |-> "away", after |-> -1, inbox |-> <<>>, lagged |-> FALSE, cursor |-> 0, top |-> 0, view |-> <<>>, told |-> FALSE]

-----------------------------------------------------------------------------
\* The package's commit, and the event that reports it.
CommitEntry ==
  /\ commits < MaxCommits /\ commits' = commits + 1
  /\ entries' = Append(entries, commits + 1) /\ notices' = notices + 1
  /\ UNCHANGED <<moves, missed, refresh, refreshLock, projection, ring, client, drops>>

\* Other events of the session push them out of the channel.
LoseNotices ==
  /\ notices > 0 /\ notices' = 0 /\ missed' = TRUE
  /\ UNCHANGED <<entries, commits, moves, refresh, refreshLock, projection, ring, client, drops>>

\* A lag refreshes as an event does.
WatcherTakes ==
  /\ IF missed THEN missed' = FALSE /\ UNCHANGED notices
     ELSE notices > 0 /\ notices' = notices - 1 /\ UNCHANGED missed
  /\ refresh' = [refresh EXCEPT !["watcher"].at = "waiting"]

\* refresh_branch: one at a time.  A commit event starts the watcher's, a
\* navigation or a mutation the service's own.
StartRefresh(r) ==
  /\ refresh[r].at = "idle"
  /\ IF r = "watcher" THEN WatcherTakes ELSE UNCHANGED <<notices, missed>> /\ refresh' = [refresh EXCEPT ![r].at = "waiting"]
  /\ UNCHANGED <<entries, commits, moves, refreshLock, projection, ring, client, drops>>

Navigate(length) ==
  /\ moves < MaxBranchMoves /\ length < Len(entries) /\ refresh["service"].at = "idle"
  /\ moves' = moves + 1 /\ entries' = SubSeq(entries, 1, length)
  /\ refresh' = [refresh EXCEPT !["service"].at = "waiting"]
  /\ UNCHANGED <<commits, notices, missed, refreshLock, projection, ring, client, drops>>

MayRefresh(r) == refresh[r].at = "waiting" /\ refreshLock = "none"

LockRefresh(r) ==
  /\ MayRefresh(r) /\ refreshLock' = r /\ refresh' = [refresh EXCEPT ![r].at = "locked"]
  /\ UNCHANGED <<entries, commits, moves, notices, missed, projection, ring, client, drops>>

\* The native answers with the branch as it is.
ReadBranch(r) ==
  /\ refresh[r].at = "locked" /\ refresh' = [refresh EXCEPT ![r] = [at |-> "read", next |-> entries]]
  /\ UNCHANGED <<entries, commits, moves, notices, missed, refreshLock, projection, ring, client, drops>>

Project(r) ==
  /\ refresh[r].at = "read" /\ projection' = refresh[r].next
  /\ IF projection = refresh[r].next
     THEN refresh' = [refresh EXCEPT ![r] = Resting] /\ refreshLock' = "none"
     ELSE refresh' = [refresh EXCEPT ![r].at = "projected"] /\ UNCHANGED refreshLock
  /\ UNCHANGED <<entries, commits, moves, notices, missed, ring, client, drops>>

\* publish: the ring first, then the channel; a state without entries is not
\* published.
Ring(s) == LET all == Append(ring, s) IN IF Len(all) > HistorySize THEN Tail(all) ELSE all
PublishRing(r) ==
  /\ refresh[r].at = "projected" /\ refresh' = [refresh EXCEPT ![r].at = "ringed"]
  /\ ring' = IF refresh[r].next = <<>> THEN ring ELSE Ring(refresh[r].next)
  /\ UNCHANGED <<entries, commits, moves, notices, missed, refreshLock, projection, client, drops>>

Received(c, s) ==
  IF c.at = "away" THEN c
  ELSE IF Len(c.inbox) = HistorySize THEN [c EXCEPT !.inbox = Append(Tail(@), s), !.lagged = TRUE]
  ELSE [c EXCEPT !.inbox = Append(@, s)]
PublishSend(r) ==
  /\ refresh[r].at = "ringed" /\ refresh' = [refresh EXCEPT ![r] = Resting] /\ refreshLock' = "none"
  /\ client' = IF refresh[r].next = <<>> THEN client ELSE Received(client, refresh[r].next)
  /\ UNCHANGED <<entries, commits, moves, notices, missed, projection, ring, drops>>

-----------------------------------------------------------------------------
(* A subscriber's stream.                                                   *)
\* subscribe_changes: the receiver first.
Subscribe ==
  /\ client.at = "away"
  /\ client' = [client EXCEPT !.at = "receiving", !.inbox = <<>>, !.lagged = FALSE]
  /\ UNCHANGED <<entries, commits, moves, notices, missed, refresh, refreshLock, projection, ring, drops>>

TakeReady ==
  /\ client.at = "receiving" /\ client' = [client EXCEPT !.at = "ready", !.view = IF client.after = -1 THEN projection ELSE @,
                                                          !.top = IF client.after = -1 THEN Len(projection) ELSE @,
                                                          !.cursor = Len(projection)]
  /\ UNCHANGED <<entries, commits, moves, notices, missed, refresh, refreshLock, projection, ring, drops>>

\* Where the channel is taken up when nothing is replayed: the client's id, or
\* else the state it was sent first.
StreamCursor == IF client.after = -1 THEN client.cursor ELSE client.after

\* A client that reconnects is told when the ring no longer reaches its id.
Gap(after, latest) == after < latest /\ (ring = <<>> \/ after + 1 < Len(ring[1]))

\* The ring's states after its id are replayed, and skipped in the channel.
TakeReplay ==
  /\ client.at = "ready"
  /\ LET replayed == SelectSeq(ring, LAMBDA s : client.after = -1 \/ Len(s) > client.after)
         last == IF replayed = <<>> THEN 0 ELSE Len(Last(replayed)) IN
     client' = [client EXCEPT !.at = "live", !.told = @ \/ (client.after # -1 /\ Gap(client.after, client.cursor)),
                              !.view = IF replayed = <<>> THEN @ ELSE Last(replayed),
                              !.top = Max({@, last} \cup {Len(replayed[i]) : i \in DOMAIN replayed}),
                              !.cursor = Max({last, StreamCursor})]
  /\ UNCHANGED <<entries, commits, moves, notices, missed, refresh, refreshLock, projection, ring, drops>>

\* replay_changes: a lag is told, then what is above the cursor is sent on.
TakeChange ==
  /\ client.at = "live" /\ client.inbox # <<>>
  /\ client' = IF client.lagged THEN [client EXCEPT !.lagged = FALSE, !.told = TRUE]
               ELSE IF Len(Head(client.inbox)) <= client.cursor THEN [client EXCEPT !.inbox = Tail(@)]
               ELSE [client EXCEPT !.inbox = Tail(@), !.cursor = Len(Head(client.inbox)), !.view = Head(client.inbox),
                                   !.top = Max({@, Len(Head(client.inbox))})]
  /\ UNCHANGED <<entries, commits, moves, notices, missed, refresh, refreshLock, projection, ring, drops>>

\* The connection is lost; the client comes back with the last id it has.
DropStream ==
  /\ client.at = "live" /\ drops < MaxDrops /\ drops' = drops + 1
  /\ client' = [client EXCEPT !.at = "away", !.after = IF client.view = <<>> THEN 0 ELSE Len(client.view), !.inbox = <<>>, !.lagged = FALSE]
  /\ UNCHANGED <<entries, commits, moves, notices, missed, refresh, refreshLock, projection, ring>>

ProjectionInit ==
  /\ \E n \in 0..1 : n <= MaxCommits /\ entries = [i \in 1..n |-> i] /\ commits = n
  /\ moves = 0 /\ notices = 0 /\ missed = FALSE
  /\ refresh = [r \in Refreshers |-> Resting] /\ refreshLock = "none"
  /\ projection = entries /\ ring = <<>> /\ client \in {[NoClient EXCEPT !.after = a] : a \in {-1, 0}} /\ drops = 0

RefreshSteps(r) == LockRefresh(r) \/ ReadBranch(r) \/ Project(r) \/ PublishRing(r) \/ PublishSend(r)
ClientSteps == Subscribe \/ TakeReady \/ TakeReplay \/ TakeChange
ProjectionNext ==
  \/ CommitEntry \/ LoseNotices \/ \E length \in 0..MaxCommits : Navigate(length)
  \/ \E r \in Refreshers : StartRefresh(r) \/ RefreshSteps(r)
  \/ ClientSteps \/ DropStream

\* The runtime runs what is ready: each refresh, and the watcher's next.
WatcherSteps == StartRefresh("watcher") \/ RefreshSteps("watcher")
-----------------------------------------------------------------------------
AtRest == notices = 0 /\ ~missed /\ \A r \in Refreshers : refresh[r].at = "idle"
Caught == AtRest /\ client.at = "live" /\ client.inbox = <<>> /\ ~client.told

\* While the branch only grows, a subscriber that has taken all it was sent
\* has the newest state, wherever between the ring and the channel it joined
\* and however often it came back, unless it was told to resynchronise.
NothingMissed == moves = 0 /\ Caught => client.top = Len(entries)

\* Refreshes do not overtake one another: the projection only moves back when
\* the branch was moved.
ProjectionForward == [][moves = 0 => IsPrefix(projection, projection')]_projVars

\* The projection comes to what the branch says, although commit events may be
\* lost: a lag is as good as an event.
CommitOwed == projection # entries
CommitMet == projection = entries
===============================================================================
