----------------------------- MODULE RunTimings -----------------------------
(* Run timings (run_timing.rs): a bounded scan of a session's native         *)
(* transcript, continued from query to query under one cursor while the      *)
(* native appends to the file, crashes and starts again, and while the file  *)
(* may be replaced. A line is two pieces long, so a query can end within it. *)
EXTENDS Integers, Sequences, FiniteSets, SequencesExt

CONSTANTS
  TimedLane,      \* lanes of the session
  PieceBudget,    \* BYTE_BUDGET
  RecordBudget,   \* RECORD_BUDGET
  AnchorSize,     \* how far back a continuation compares what it has read
  MaxRecords, MaxReplaced, MaxTimingQueries   \* bounds of the model

ASSUME TimingAssumption ==
  {PieceBudget, RecordBudget, AnchorSize, MaxRecords, MaxReplaced, MaxTimingQueries} \subseteq Nat

VARIABLES
  transcriptFile, \* [inode, pieces]: the file at the session's path
  lanes,          \* the run each lane may still finish; 0 for none
  written,        \* [records, replaced]: counted, and so distinct
  scan,           \* the session's Scan in the RunTimingCache
  asked,          \* the query at work: the file it opened and its metadata
  timingClient          \* [cursor, timings]: what the client was last told

timingVars == <<transcriptFile, lanes, written, scan, asked, timingClient>>

NoScan == [generation |-> 0, inode |-> 0, length |-> 0, stamp |-> 0, offset |-> 0,
           pending |-> <<>>, anchor |-> <<>>, active |-> <<>>, timings |-> {}]
NoQuery == [at |-> "none", total |-> 0, stamp |-> 0]
TimingNoPage == [cursor |-> 0, timings |-> {}, complete |-> FALSE]

\* A record is written in two pieces; its number tells it from every other.
Halves(record) == <<[record |-> record, half |-> 1], [record |-> record, half |-> 2]>>

TimingInit ==
  /\ transcriptFile = [inode |-> 1, pieces |-> <<>>, stamp |-> 0]
  /\ lanes = [l \in TimedLane |-> 0] /\ written = [records |-> 0, replaced |-> 0, generations |-> 0, queries |-> 0]
  /\ scan = NoScan /\ asked = NoQuery /\ timingClient = TimingNoPage

-----------------------------------------------------------------------------
Pieces == transcriptFile.pieces
Torn == Pieces # <<>> /\ Pieces[Len(Pieces)].half = 1
\* A write changes the file's length, or its time if it is as long as before.
Put(pieces) ==
  transcriptFile' = [transcriptFile EXCEPT !.pieces = pieces,
                       !.stamp = IF Len(pieces) > Len(Pieces) THEN @ ELSE @ + 1]

\* The native begins a line with one of the records that matter here.
TimingBegins(l, kind) ==
        /\ ~ Torn /\ written.records < MaxRecords
        /\ kind = "finish" => lanes[l] # 0
        /\ LET n == written.records + 1
               record == [id |-> n, lane |-> l, kind |-> kind,
                          run |-> IF kind = "run" THEN n ELSE IF kind = "finish" THEN lanes[l] ELSE 0]
           IN /\ Put(Append(Pieces, Halves(record)[1]))
              /\ lanes' = [lanes EXCEPT ![l] = CASE kind = "run" -> n [] kind = "finish" -> 0 [] OTHER -> @]
        /\ written' = [written EXCEPT !.records = @ + 1]
        /\ UNCHANGED <<scan, asked, timingClient>>
EndsLine ==
  /\ Torn /\ Put(Append(Pieces, Halves(Pieces[Len(Pieces)].record)[2]))
  /\ UNCHANGED <<lanes, written, scan, asked, timingClient>>
\* It crashes in the middle of a line, and starts again with that line gone.
NativeCrashes ==
  /\ Torn /\ written.replaced < MaxReplaced /\ written' = [written EXCEPT !.replaced = @ + 1] /\ asked = NoQuery
  /\ Put(Front(Pieces))
  /\ UNCHANGED <<lanes, scan, asked, timingClient>>
\* Another file takes the path, with only the older part of the transcript, or
\* the file is cut to that part where it is.
Replaced ==
  /\ written.replaced < MaxReplaced /\ written' = [written EXCEPT !.replaced = @ + 1] /\ asked = NoQuery
  /\ \E keep \in 0..(Len(Pieces) - 1), moved \in BOOLEAN :
       /\ keep % 2 = 0
       /\ transcriptFile' = [inode |-> IF moved THEN transcriptFile.inode + 1 ELSE transcriptFile.inode,
                             pieces |-> SubSeq(Pieces, 1, keep), stamp |-> transcriptFile.stamp + 1]
  /\ lanes' = [l \in TimedLane |-> 0]
  /\ UNCHANGED <<scan, asked, timingClient>>

NativeWrites ==
  \/ \E l \in TimedLane, kind \in {"run", "other", "message", "finish"} : TimingBegins(l, kind)
  \/ EndsLine \/ NativeCrashes \/ Replaced

-----------------------------------------------------------------------------
Conflict ==
  /\ scan' = NoScan /\ asked' = NoQuery /\ timingClient' = TimingNoPage

\* A file that is the one scanned so far: the same inode, not shorter, not
\* changed at the same length, and with the same bytes before the offset.
SameFile(s) ==
  /\ transcriptFile.inode = s.inode
  /\ Len(Pieces) >= s.length
  /\ Len(Pieces) = s.length => transcriptFile.stamp = s.stamp
  /\ s.anchor = SubSeq(Pieces, s.offset - Len(s.anchor) + 1, s.offset)

NewScan(generation) ==
  [NoScan EXCEPT !.generation = generation, !.inode = transcriptFile.inode,
                 !.length = Len(Pieces), !.stamp = transcriptFile.stamp]
\* A changed file ends the scan, and its cursor.
Opened(s) == IF SameFile(s) THEN s ELSE NoScan

\* RunTimingCache::query: the cached scan, which the cursor must name, or a new one.
TimingAsks ==
        /\ asked.at = "none" /\ written.queries < MaxTimingQueries
        /\ written' = [written EXCEPT !.queries = @ + 1,
                                      !.generations = IF scan.generation = 0 THEN @ + 1 ELSE @]
        /\ \E cursor \in {0, timingClient.cursor} :
             IF cursor # 0 /\ cursor # scan.generation
             THEN timingClient' = TimingNoPage /\ UNCHANGED <<scan, asked>>
             ELSE LET s == IF scan.generation # 0 THEN scan
                           ELSE NewScan(written.generations + 1)
                  IN IF Opened(s) # NoScan
                     THEN /\ scan' = Opened(s)
                          /\ asked' = [at |-> "open", total |-> Len(Pieces), stamp |-> transcriptFile.stamp]
                          /\ timingClient' = IF cursor = 0 THEN TimingNoPage ELSE timingClient
                     ELSE Conflict
        /\ UNCHANGED <<transcriptFile, lanes>>

\* Scan::record: an operation of any kind ends what its lane was timing.
ClearsLane(record) == record.kind \in {"run", "other"}
TimingActive(s, l) == {i \in DOMAIN s.active : s.active[i].lane = l}
Recorded(s, record) ==
  LET mine == TimingActive(s, record.lane)
      rest == SelectSeq(s.active, LAMBDA a : a.lane # record.lane)
      a == s.active[CHOOSE i \in mine : TRUE]
  IN CASE record.kind = "run" -> [s EXCEPT !.active = Append(rest, [lane |-> record.lane, run |-> record.id, last |-> 0])]
       [] record.kind = "other" -> IF ClearsLane(record) THEN [s EXCEPT !.active = rest] ELSE s
       [] record.kind = "message" /\ mine # {} -> [s EXCEPT !.active = Append(rest, [a EXCEPT !.last = record.id])]
       [] record.kind = "finish" /\ mine # {} /\ a.run = record.run ->
            [s EXCEPT !.active = rest,
                      !.timings = IF a.last = 0 THEN @ ELSE
                        @ \cup {[run |-> a.run, last |-> a.last, from |-> a.run, to |-> record.id]}]
       [] OTHER -> s

\* One piece after the other, up to the length found when the file was opened;
\* a whole line is a record. Lines put together from two are not JSON.
Whole(pending) == Len(pending) = 2 /\ pending = Halves(pending[1].record)
Reads(s, total) ==
  LET step[i \in 0..PieceBudget] ==
        IF i = 0 THEN [scan |-> s, records |-> 0, bad |-> FALSE]
        ELSE LET p == step[i - 1]
                 piece == Pieces[p.scan.offset + 1]
                 pending == Append(p.scan.pending, piece)
                 on == [p.scan EXCEPT !.offset = @ + 1, !.pending = IF piece.half = 2 THEN <<>> ELSE pending]
             IN IF p.scan.offset >= total \/ p.records >= RecordBudget \/ p.bad THEN p
                ELSE IF piece.half = 1 THEN [p EXCEPT !.scan = on]
                ELSE IF ~ Whole(pending) THEN [p EXCEPT !.bad = TRUE]
                ELSE [scan |-> Recorded(on, piece.record), records |-> p.records + 1, bad |-> FALSE]
  IN step[PieceBudget]
Anchored(s) ==
  SubSeq(Pieces, IF s.offset > AnchorSize THEN s.offset - AnchorSize + 1 ELSE 1, s.offset)
Answers ==
  /\ asked.at = "open"
  /\ LET read == Reads(scan, asked.total)
         s == read.scan
     IN IF read.bad THEN Conflict
        ELSE /\ scan' = [s EXCEPT !.anchor = Anchored(s), !.length = asked.total, !.stamp = asked.stamp]
             /\ timingClient' = [cursor |-> s.generation, timings |-> s.timings,
                                 complete |-> s.offset = asked.total /\ s.pending = <<>>]
             /\ asked' = NoQuery
  /\ UNCHANGED <<transcriptFile, lanes, written>>

\* The request is dropped: its worker goes on and keeps what it read.
AnswersNobody ==
  /\ asked.at = "open"
  /\ LET read == Reads(scan, asked.total) IN
     scan' = IF read.bad THEN NoScan
             ELSE [read.scan EXCEPT !.anchor = Anchored(read.scan), !.length = asked.total, !.stamp = asked.stamp]
  /\ asked' = NoQuery /\ UNCHANGED <<transcriptFile, lanes, written, timingClient>>
\* Another session's scans push this one out of the cache.
Evicted ==
  /\ asked.at = "none" /\ scan # NoScan /\ scan' = NoScan
  /\ UNCHANGED <<transcriptFile, lanes, written, asked, timingClient>>

TimingNext == NativeWrites \/ TimingAsks \/ Answers \/ AnswersNobody \/ Evicted

-----------------------------------------------------------------------------
\* The timings of a transcript, by definition: a run that a lane started and
\* finished with no other operation between, and the last visible message in it.
Timings(records) ==
  LET runs == {p \in (DOMAIN records) \X (DOMAIN records) :
        /\ p[1] < p[2] /\ records[p[1]].kind = "run"
        /\ records[p[2]].kind = "finish" /\ records[p[2]].run = records[p[1]].id
        /\ \A k \in (p[1] + 1)..(p[2] - 1) :
             records[k].lane = records[p[1]].lane => records[k].kind \notin {"run", "other", "finish"}}
      shown(p) == {k \in p[1]..p[2] : records[k].lane = records[p[1]].lane /\ records[k].kind = "message"}
  IN {[run |-> records[p[1]].id, from |-> records[p[1]].id, to |-> records[p[2]].id,
       last |-> records[CHOOSE k \in shown(p) : \A j \in shown(p) : j <= k].id] :
      p \in {q \in runs : shown(q) # {}}}
Lines(pieces) == [i \in 1..(Len(pieces) \div 2) |-> pieces[2 * i].record]

\* A page has the timings of the lines read so far, wherever the earlier pages
\* ended; a complete one, those of the whole file as it was opened.
TimingsExact ==
  [][timingClient' # timingClient /\ timingClient'.cursor # 0 =>
             /\ timingClient'.timings = Timings(Lines(SubSeq(Pieces, 1, scan'.offset)))
             /\ timingClient'.complete => scan'.offset = asked.total /\ timingClient'.timings = Timings(Lines(SubSeq(Pieces, 1, asked.total)))]_timingVars

\* The pages of one cursor are of one transcript: nothing told under it is taken
\* back, and every timing told is of lines that the file still holds.
OneTranscript ==
  [][timingClient.cursor # 0 /\ timingClient'.cursor = timingClient.cursor => timingClient.timings \subseteq timingClient'.timings]_timingVars
=============================================================================
