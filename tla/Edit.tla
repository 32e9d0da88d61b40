------------------------------- MODULE Edit -------------------------------
(* The edit tool (rpi-edit-diagnostics): how edits are matched and applied,  *)
(* the diff it shows, and how the new text gets onto the disk.               *)
EXTENDS Naturals, Sequences, FiniteSets, SequencesExt

-----------------------------------------------------------------------------
(* Matching and applying of the edit tool of rpi-edit-diagnostics: every      *)
(* edit of a call is matched against the original text, exactly or after      *)
(* normalisation, mapped back onto the original characters and spliced only   *)
(* if all of them resolve. A text is a sequence of characters, of which the   *)
(* ones normalisation tells apart are kept: a plain letter, a ligature that   *)
(* expands to two letters, a mark that composes with the letter before it, a  *)
(* typographic quote, a space, a line feed, a carriage return and the byte    *)
(* order mark. Offsets count characters, from 0, as the code's count bytes.   *)

CONSTANTS
    EditContents,   \* the files: sequences of characters
    EditRequests    \* the calls: sequences of [old, new, all]

VARIABLES
    raw,      \* the file before the call
    request,  \* the edits of the call, <<>> before it
    verdict   \* what the call did: [code |-> "none" | "ok" | "invalid" | "notfound"
              \* | "spans", file |-> the file after it]

matchVars == <<raw, request, verdict>>

(* -------------------------------------------------------------- texts ----- *)
Feed == "\n"
Empty == <<>>
Slice(text, start, end) == SubSeq(text, start + 1, end)
Matches(text, needle, i) == i + Len(needle) <= Len(text) /\ Slice(text, i, i + Len(needle)) = needle
LineOf(text, i) == Cardinality({j \in 1..i : text[j] = Feed})
LineStart(text, line) == CHOOSE i \in 0..Len(text) : LineOf(text, i) = line
                            /\ (i = 0 \/ text[i] = Feed)
LineEnd(text, line) == CHOOSE i \in 0..Len(text) : LineOf(text, i) = line
                          /\ (i = Len(text) \/ text[i + 1] = Feed)

Bom(text) == IF text # Empty /\ Head(text) = "bom" THEN <<"bom">> ELSE Empty
AfterBom(text) == Slice(text, Len(Bom(text)), Len(text))
\* normalize_to_lf: a pair, and a carriage return of its own, become a line feed
ToFeeds(text) ==
    LET kept == SelectSeq([i \in 1..Len(text) |-> i],
                          LAMBDA i : ~(text[i] = Feed /\ i > 1 /\ text[i - 1] = "\r"))
    IN [k \in 1..Len(kept) |-> IF text[kept[k]] = "\r" THEN Feed ELSE text[kept[k]]]
\* detect_line_ending: the style of the first line feed
WithReturns(text) ==
    \E i \in 1..Len(text) : /\ text[i] = Feed
                            /\ \A j \in 1..(i - 1) : text[j] # Feed
                            /\ i > 1 /\ text[i - 1] = "\r"
Restored(text, returns) ==
    IF returns THEN FlattenSeq([i \in 1..Len(text) |->
                                   IF text[i] = Feed THEN <<"\r", Feed>> ELSE <<text[i]>>])
    ELSE text

(* ------------------------------------------------------ normalisation ----- *)
\* The compatibility form of one character, before its typographic folding.
Expanded(c) == IF c = "ligature" THEN <<"b", "a">> ELSE <<c>>
Plain(c) == IF c = "curly" THEN "quote" ELSE c
\* A mark composes with the letter before it.
Composed(text) ==
    FoldLeft(LAMBDA done, c : IF c = "mark" /\ done # Empty /\ Last(done) = "a"
                              THEN Append(Front(done), "accented") ELSE Append(done, c),
             Empty, text)
\* The whitespace at the end of its line.
Trailing(text, i) ==
    /\ text[i] = " "
    /\ \E j \in i..Len(text) : /\ j = Len(text) \/ text[j + 1] = Feed
                               /\ \A k \in i..j : text[k] = " "
Trimmed(text) ==
    LET kept == SelectSeq([i \in 1..Len(text) |-> i], LAMBDA i : ~Trailing(text, i))
    IN [k \in 1..Len(kept) |-> text[kept[k]]]
Folded(text) == [i \in 1..Len(text) |-> Plain(text[i])]
Normal(text) == Folded(Trimmed(Composed(FlattenSeq([i \in 1..Len(text) |-> Expanded(text[i])]))))

\* The normalised text and, per character of it, the original one it came from;
\* no sources when normalising one by one gives another text.
ViewOf(text, normal, units) ==
    LET chars == [k \in 1..Len(units) |-> units[k][1]]
        kept == SelectSeq([k \in 1..Len(units) |-> k], LAMBDA k : ~Trailing(chars, k))
    IN [text |-> normal, original |-> text,
        known |-> [k \in 1..Len(kept) |-> chars[kept[k]]] = normal,
        sources |-> [k \in 1..Len(kept) |-> units[kept[k]][2]]]
View(text) ==
    ViewOf(text, Normal(text),
           FlattenSeq([i \in 1..Len(text) |->
               [u \in 1..Len(Expanded(text[i])) |-> <<Plain(Expanded(text[i])[u]), i>>]]))

(* ------------------------------------------------------------ matching ---- *)
\* find_all_spans: the occurrences from left to right, none within another.
MatchSpans(text, needle) ==
         LET from[i \in 0..Len(text)] ==
                 IF needle = Empty \/ i = Len(text) THEN <<>>
                 ELSE IF Matches(text, needle, i)
                      THEN <<[start |-> i, end |-> i + Len(needle)]>> \o from[i + Len(needle)]
                      ELSE from[i + 1]
         IN from[0]

\* The original characters of a normalised match: exactly the ones it covers, or
\* its whole lines when it begins or ends inside the expansion of one.
OriginalSpan(view, match) ==
    LET clean == /\ view.known
                 /\ \/ match.start = 0
                    \/ view.sources[match.start] # view.sources[match.start + 1]
                 /\ \/ match.end = Len(view.sources)
                    \/ view.sources[match.end + 1] # view.sources[match.end]
        first == LineOf(view.text, match.start)
        last == LineOf(view.text, match.end)
    IN IF clean
       THEN [start |-> view.sources[match.start + 1] - 1, end |-> view.sources[match.end],
             from |-> match.start, to |-> match.end, of |-> <<match>>]
       ELSE [start |-> LineStart(view.original, first), end |-> LineEnd(view.original, last),
             from |-> LineStart(view.text, first), to |-> LineEnd(view.text, last), of |-> <<match>>]

Lower(x, y) == IF x <= y THEN x ELSE y
Higher(x, y) == IF x <= y THEN y ELSE x
\* A rebuilt line takes every match it overlaps with it.
Merged(groups, span) ==
    LET apart == SelectSeq(groups, LAMBDA g : g.end <= span.start)
        over == SelectSeq(groups, LAMBDA g : g.end > span.start)
    IN Append(apart, FoldLeft(LAMBDA s, g : [start |-> Lower(s.start, g.start), end |-> Higher(s.end, g.end),
                                             from |-> Lower(s.from, g.from), to |-> Higher(s.to, g.to),
                                             of |-> s.of],
                              [span EXCEPT !.of = FlattenSeq([i \in 1..Len(over) |-> over[i].of]) \o @], over))

\* The normalised text from..to with each of its matches replaced.
Rebuilt(text, group, new) ==
    LET ends == <<group.from>> \o [i \in 1..Len(group.of) |-> group.of[i].end]
        starts == [i \in 1..Len(group.of) |-> group.of[i].start] \o <<group.to>>
    IN FlattenSeq([i \in 1..Len(ends) |->
                      Slice(text, ends[i], starts[i]) \o IF i = Len(ends) THEN <<>> ELSE new])

RebuiltGroups(view, groups, new) ==
    [g \in 1..Len(groups) |-> [start |-> groups[g].start, end |-> groups[g].end,
                               text |-> Rebuilt(view.text, groups[g], new)]]
OriginalReplacements(view, matches, new) ==
    RebuiltGroups(view, FoldLeft(Merged, <<>>, [i \in 1..Len(matches) |-> OriginalSpan(view, matches[i])]), new)

(* ------------------------------------------------------------- one edit --- *)
Lf(edit) == [edit EXCEPT !.old = ToFeeds(@), !.new = ToFeeds(@)]
Exact(text, old) == \E i \in 0..Len(text) : Matches(text, old, i)
\* fuzzy_find_text: as written, or else both sides normalised; within the
\* normalised text an edit is again looked for as written first.
FoundIn(text, old, normal, plain) ==
    IF ~Exact(text, old) /\ Exact(normal, plain)
    THEN [byNormal |-> TRUE, text |-> normal,
          spans |-> MatchSpans(normal, IF Exact(normal, old) THEN old ELSE plain)]
    ELSE [byNormal |-> FALSE, text |-> text, spans |-> MatchSpans(text, old)]
Found(text, edit) == FoundIn(text, edit.old, Normal(text), Normal(edit.old))

Replaced(text, edit, found) ==
    IF found.byNormal THEN OriginalReplacements(View(text), found.spans, edit.new)
    ELSE [i \in 1..Len(found.spans) |->
             [start |-> found.spans[i].start, end |-> found.spans[i].end, text |-> edit.new]]

NothingChanges(text, spans) ==
    \A i \in 1..Len(spans) : Slice(text, spans[i].start, spans[i].end) = spans[i].text

Unresolved(code) == [code |-> code, spans |-> <<>>]
Changing(text, spans) ==
    IF NothingChanges(text, spans) THEN Unresolved("invalid") ELSE [code |-> "ok", spans |-> spans]
Resolving(text, edit, found) ==
    IF found.spans = <<>> THEN Unresolved("notfound")
    ELSE IF ~edit.all /\ Len(found.spans) > 1 THEN Unresolved("invalid")
    ELSE Changing(text, Replaced(text, edit, found))
Resolved(text, edit) ==
    IF edit.old = Empty \/ edit.old = edit.new THEN Unresolved("invalid")
    ELSE Resolving(text, edit, Found(text, edit))

(* ------------------------------------------------------------ all edits --- *)
ByStart(spans) == SortSeq(spans, LAMBDA s, t : s.start < t.start)
AllSpans(plans) == FlattenSeq([i \in 1..Len(plans) |-> plans[i].spans])
\* overlap_failure: two spans that follow each other, of two edits.
Overlaps(plans) ==
    LET marked == FlattenSeq([i \in 1..Len(plans) |->
                      [k \in 1..Len(plans[i].spans) |->
                          [plan |-> i, start |-> plans[i].spans[k].start, end |-> plans[i].spans[k].end]]])
        sorted == ByStart(marked)
    IN \E i \in 1..(Len(sorted) - 1) : /\ sorted[i].plan # sorted[i + 1].plan
                                       /\ sorted[i].end > sorted[i + 1].start

Spliceable(text, spans) ==
    \A i \in 1..Len(spans) : /\ spans[i].start <= spans[i].end /\ spans[i].end <= Len(text)
                             /\ i > 1 => spans[i - 1].end <= spans[i].start
Spliced(text, spans) ==
    LET ends == <<0>> \o [i \in 1..Len(spans) |-> spans[i].end]
        starts == [i \in 1..Len(spans) |-> spans[i].start] \o <<Len(text)>>
    IN FlattenSeq([i \in 1..Len(ends) |->
                      Slice(text, ends[i], starts[i]) \o IF i = Len(ends) THEN <<>> ELSE spans[i].text])

\* apply_edits: [code, text], the text as it was unless the code is "ok".
Splicing(text, spans) ==
    IF ~Spliceable(text, spans) THEN [code |-> "spans", text |-> text]
    ELSE IF Spliced(text, spans) = text THEN [code |-> "invalid", text |-> text]
    ELSE [code |-> "ok", text |-> Spliced(text, spans)]
Applying(text, plans) ==
    LET failed == {plans[i].code : i \in 1..Len(plans)} \ {"ok"}
    IN IF failed # {}
       THEN [code |-> IF "notfound" \in failed THEN "notfound" ELSE "invalid", text |-> text]
       ELSE IF Overlaps(plans) THEN [code |-> "invalid", text |-> text]
       ELSE Splicing(text, ByStart(AllSpans(plans)))
MatchApplied(text, edits) == Applying(text, [i \in 1..Len(edits) |-> Resolved(text, edits[i])])

\* run_tool: what becomes of the file.
Answering(file, body, done) ==
    [code |-> done.code,
     file |-> IF done.code # "ok" THEN file ELSE Bom(file) \o Restored(done.text, WithReturns(body))]
MatchOutcome(file, edits) ==
    LET body == AfterBom(file)
    IN Answering(file, body, MatchApplied(ToFeeds(body), [i \in 1..Len(edits) |-> Lf(edits[i])]))

MatchInit == raw \in EditContents /\ request = <<>> /\ verdict = [code |-> "none", file |-> raw]

Edit(edits) ==
    /\ request = <<>>
    /\ request' = edits
    /\ verdict' = MatchOutcome(raw, edits)
    /\ UNCHANGED raw

MatchNext == \E edits \in EditRequests : Edit(edits)
(* ---------------------------------------------------------- properties ---- *)
Before == ToFeeds(AfterBom(raw))
After == ToFeeds(AfterBom(verdict.file))
Done == verdict.code = "ok"
Visible(text) == SelectSeq(text, LAMBDA c : c # " ")

PlainlyReplaced(found, new) ==
    Spliced(found.text, [i \in 1..Len(found.spans) |->
        [start |-> found.spans[i].start, end |-> found.spans[i].end, text |-> new]])

\* What the reader sees after one applied edit is the old text, written plainly,
\* with the found text replaced: mapping the match back onto the original
\* characters (ligatures half covered, lines rebuilt, spaces kept) neither loses
\* nor repeats anything (NormalizedView, original_replacements).
ReplacedIsWhatMatched ==
    Done /\ Len(request) = 1 =>
        LET edit == Lf(request[1])
        IN Visible(Normal(After)) = Visible(Normal(PlainlyReplaced(Found(Before, edit), edit.new)))

LinesOf(found) ==
    UNION {LineOf(found.text, found.spans[k].start)..LineOf(found.text, found.spans[k].end) :
              k \in 1..Len(found.spans)}
KeptAround(before, after, touched) ==
    /\ IsPrefix(Slice(before, 0, LineStart(before, CHOOSE l \in touched : \A m \in touched : l <= m)), after)
    /\ IsSuffix(Slice(before, LineEnd(before, CHOOSE l \in touched : \A m \in touched : l >= m), Len(before)), after)

\* The lines before the first and after the last line an edit found its text in
\* keep every character, those that normalisation would change included
\* (original_span and its fallback to whole lines).
UntouchedLinesKept ==
    Done => KeptAround(Before, After, UNION {LinesOf(Found(Before, Lf(request[i]))) : i \in 1..Len(request)})

\* The order of the edits in a call changes neither its file nor whether it is
\* applied: each one is matched against the original text and two that touch the
\* same characters are refused, in every order (apply_edits, overlap_failure).
OrderIrrelevant == verdict.code # "none" => MatchOutcome(raw, Reverse(request)) = verdict

\* The spans of edits that passed every check are ascending and apart, so the
\* splicer's own refusal is never reached: lines rebuilt for several matches are
\* merged first (splice, original_replacements).
SpansAreApart == verdict.code # "spans"

-----------------------------------------------------------------------------
(* The display diff the edit tool returns (generate_diff_string): the old and *)
(* the new text are compared line by line into blocks, equal ones and changed *)
(* ones in turn, and the blocks are listed with line numbers, of equal blocks *)
(* only the lines close to a change. The comparison itself is a library's:    *)
(* any list of blocks in which equal and changed ones alternate.              *)

CONSTANTS
    LineText,      \* the lines: "" is a blank one
    MaxLines,      \* lines in one side of a block
    MaxBlocks,     \* blocks of a comparison
    ContextLines   \* equal lines listed next to a change

ASSUME DiffAssumption == MaxBlocks \in Nat /\ MaxLines \in Nat /\ ContextLines \in Nat

VARIABLES
    blocks,   \* the comparison: sequence of [old, new], equal where the two are
    listing   \* [rows, first]: rows of [sign, number, line]; first changed line, 0 for none

diffVars == <<blocks, listing>>

Side == UNION {[1..n -> LineText] : n \in 0..MaxLines}
Same(block) == block.old = block.new
Alternate(list) == \A i \in 1..(Len(list) - 1) : Same(list[i]) # Same(list[i + 1])
NoListing == [rows |-> <<>>, first |-> 0]

\* The lines of a block, without a blank one at its end.
Lines(side) == IF side # <<>> /\ Last(side) = "" THEN Front(side) ELSE side
Row(sign, from, side) == [i \in 1..Len(side) |-> [sign |-> sign, number |-> from + i - 1, line |-> side[i]]]

\* A block that changes: the old lines, then the new ones.
Changed(at, block) ==
    [rows |-> at.rows \o Row("-", at.old, Lines(block.old)) \o Row("+", at.new, Lines(block.new)),
     old |-> at.old + Len(Lines(block.old)), new |-> at.new + Len(Lines(block.new)),
     first |-> IF at.first = 0 THEN at.new ELSE at.first]

\* The lines of an equal block that are listed: those next to a change before it,
\* those next to a change after it, all of them when the two meet.
Listed(count, before, after) ==
    {i \in 1..count : (before /\ i <= ContextLines) \/ (after /\ i > count - ContextLines)}
DiffUnchanged(at, block, before, after) ==
        LET lines == Lines(block.old)
            kept == SelectSeq(Row(" ", at.old, lines),
                              LAMBDA row : row.number - at.old + 1 \in Listed(Len(lines), before, after))
        IN [at EXCEPT !.rows = @ \o kept, !.old = @ + Len(lines), !.new = @ + Len(lines)]

Rendered(list) ==
    LET at[i \in 0..Len(list)] ==
            IF i = 0 THEN [rows |-> <<>>, old |-> 1, new |-> 1, first |-> 0]
            ELSE IF Same(list[i]) THEN DiffUnchanged(at[i - 1], list[i], i > 1, i < Len(list))
            ELSE Changed(at[i - 1], list[i])
    IN [rows |-> at[Len(list)].rows, first |-> at[Len(list)].first]

DiffInit == blocks = <<>> /\ listing = NoListing

Compares ==
    /\ Len(blocks) < MaxBlocks
    /\ \E old, new \in Side :
        /\ blocks' = Append(blocks, [old |-> old, new |-> new])
        /\ <<old, new>> # <<<<>>, <<>>>> /\ Alternate(blocks')
    /\ listing' = Rendered(blocks')

DiffNext == Compares
(* ---------------------------------------------------------- properties ---- *)
Text(list, old) == FlattenSeq([i \in 1..Len(list) |-> IF old THEN list[i].old ELSE list[i].new])
RowIsTrue(row) ==
    LET text == Text(blocks, row.sign # "+")
    IN row.number \in 1..Len(text) /\ text[row.number] = row.line

\* Every row carries the number its line has in the old text, an added one in the
\* new text, over the context that is skipped between changes, as long as no block
\* ends on a blank line (generate_diff_string).
NumbersAreTrueWithoutBlanks ==
    (\A i \in 1..Len(blocks) : Lines(blocks[i].old) = blocks[i].old /\ Lines(blocks[i].new) = blocks[i].new)
    => \A i \in 1..Len(listing.rows) : RowIsTrue(listing.rows[i])

-----------------------------------------------------------------------------
(* How an edit call of rpi-edit-diagnostics gets its new text onto the disk:  *)
(* calls take the lock of the canonical target, read, match, and either       *)
(* replace the file through a temporary one or, when it has other hard links, *)
(* write it in place, each time after checking that the bytes they read are   *)
(* still there. Other processes write and link the files meanwhile, and the   *)
(* process may end at any point. A text is the set of edits it holds.         *)

CONSTANTS
    EditCall,      \* the calls
    EditName,      \* directory entries a call's path resolves to
    MaxOutside,    \* writes and links of other processes
    MaxEditFaults  \* failures of the file system, and ends of the process

VARIABLES
    inode,    \* name -> the file it is an entry of (numbers)
    texts,    \* file -> [edits, whole]: not whole while it is being written in place
    locks,    \* name -> the lock its map entry points at, NoLock
    drive,    \* call -> its progress; temp: "none", "staged", or "stuck" when the
              \* disk did not let the clean-up remove it
    outside,  \* what other processes did: writes, and the ones no call could notice
    linked,   \* names that ever had another hard link
    editFaults

editVars == <<inode, texts, locks, drive, outside, linked, editFaults>>

NoLock == "none"
NoText == [edits |-> {}, whole |-> TRUE]
NoDrive == [at |-> "created", name |-> "none", lock |-> NoLock, read |-> NoText, temp |-> "none", result |-> "none"]
Others(n) == {m \in EditName \ {n} : inode[m] = inode[n]}
File(n) == texts[inode[n]]

EditInit ==
    /\ inode \in [EditName -> 1..Cardinality(EditName)]
    /\ \E n \in EditName : inode[n] = 1
    /\ texts = [i \in 1..(Cardinality(EditName) + Cardinality(EditCall)) |-> NoText]
    /\ locks = [n \in EditName |-> NoLock]
    /\ drive = [c \in EditCall |-> NoDrive]
    /\ outside = [writes |-> {}, unseen |-> {}, count |-> 0]
    /\ linked = {n \in EditName : Others(n) # {}}
    /\ editFaults = 0

(* --------------------------------------------------------------- locks ---- *)
\* A lock lives as long as a call has it; the map does not keep it alive.
Users(l) == {c \in EditCall : drive[c].lock = l}
Held(l) == \E c \in Users(l) : drive[c].at \notin {"created", "waiting", "done"}
LiveLock(n) == IF locks[n] # NoLock /\ Users(locks[n]) # {} THEN locks[n] ELSE NoLock
TargetLock(c, n) == IF LiveLock(n) = NoLock THEN c ELSE LiveLock(n)

(* ---------------------------------------------------------------- calls --- *)
At(c, at) == drive[c].at = at
Moves(c, at) == drive' = [drive EXCEPT ![c].at = at]
Settles(c, result) == drive' = [drive EXCEPT ![c].at = "done", ![c].result = result, ![c].lock = NoLock]
OnDisk == <<inode, texts, outside, linked>>

\* Before the first poll; a poll that has begun does not look again.
CancelEdit(c) == /\ At(c, "created") /\ Settles(c, "cancelled")
                 /\ UNCHANGED <<OnDisk, locks, editFaults>>

\* The path is resolved, links followed; the target's lock is found or made, and
\* entries nobody uses any more leave the map.
Resolves(c, n) ==
    /\ At(c, "created")
    /\ drive' = [drive EXCEPT ![c].at = "waiting", ![c].name = n, ![c].lock = TargetLock(c, n)]
    /\ locks' = [m \in EditName |-> IF m = n THEN TargetLock(c, n) ELSE LiveLock(m)]
    /\ UNCHANGED <<OnDisk, editFaults>>

Locks(c) == /\ At(c, "waiting") /\ ~Held(drive[c].lock) /\ Moves(c, "locked")
            /\ UNCHANGED <<OnDisk, locks, editFaults>>

\* What is read is what the edits are matched against; they may not match.
ReadsFile(c) ==
    /\ At(c, "locked")
    /\ \/ drive' = [drive EXCEPT ![c].at = "matched", ![c].read = File(drive[c].name)]
       \/ Settles(c, "failed")
    /\ UNCHANGED <<OnDisk, locks, editFaults>>

\* With another hard link the file is written in place, else through a temporary
\* one, which is on the disk from here on.
Chooses(c) ==
    /\ At(c, "matched")
    /\ drive' = [drive EXCEPT ![c].at = IF Others(drive[c].name) # {} THEN "inPlace" ELSE "staged",
                             ![c].temp = IF Others(drive[c].name) # {} THEN "none" ELSE "staged"]
    /\ UNCHANGED <<OnDisk, locks, editFaults>>

\* check_snapshot: the bytes that were read are still there.
Snapshot(c) == File(drive[c].name) = drive[c].read
\* Mutant: the temporary file stays when the check or the rename fails.
FailingLeaves(c, faults) ==
    /\ editFaults + faults <= MaxEditFaults /\ editFaults' = editFaults + faults
    /\ Settles(c, "failed")
\* A failed call takes its temporary file with it; that the removal fails as well
\* is a fault of its own, which is ignored.
Failing(c, faults) ==
    \E refused \in IF drive[c].temp = "staged" THEN 0..1 ELSE {0} :
        /\ editFaults + faults + refused <= MaxEditFaults
        /\ editFaults' = editFaults + faults + refused
        /\ drive' = [drive EXCEPT ![c].at = "done", ![c].result = "failed", ![c].lock = NoLock,
                                 ![c].temp = IF refused = 1 THEN "stuck" ELSE "none"]
Checks(c) ==
    /\ At(c, "inPlace") \/ At(c, "staged")
    /\ \/ /\ Snapshot(c) /\ Moves(c, IF At(c, "staged") THEN "renaming" ELSE "writing")
          /\ UNCHANGED editFaults
       \/ ~Snapshot(c) /\ Failing(c, 0)
    /\ UNCHANGED <<OnDisk, locks>>

NewText(c) == [drive[c].read EXCEPT !.edits = @ \cup {c}]
FreshFile == CHOOSE i \in DOMAIN texts : \A n \in EditName : inode[n] # i
Renames(c) ==
    /\ At(c, "renaming")
    /\ inode' = [inode EXCEPT ![drive[c].name] = FreshFile]
    /\ texts' = [texts EXCEPT ![FreshFile] = NewText(c)]
    /\ drive' = [drive EXCEPT ![c].at = "done", ![c].result = "ok", ![c].lock = NoLock, ![c].temp = "none"]
    /\ UNCHANGED <<locks, outside, linked, editFaults>>

\* Writing in place empties the file first.
Truncates(c) ==
    /\ At(c, "writing") /\ Moves(c, "filling")
    /\ texts' = [texts EXCEPT ![inode[drive[c].name]] = [edits |-> {}, whole |-> FALSE]]
    /\ UNCHANGED <<inode, locks, outside, linked, editFaults>>
Fills(c) ==
    /\ At(c, "filling") /\ Settles(c, "ok")
    /\ texts' = [texts EXCEPT ![inode[drive[c].name]] = NewText(c)]
    /\ UNCHANGED <<inode, locks, outside, linked, editFaults>>

\* Any of these may fail: staging, renaming, writing.
FileFails(c) ==
    /\ drive[c].at \in {"matched", "staged", "renaming", "writing", "filling"}
    /\ Failing(c, 1)
    /\ UNCHANGED <<OnDisk, locks>>

(* -------------------------------------------------- what others do -------- *)
\* A call is past its last look at the file.
PastCheck(n) == \E c \in EditCall : drive[c].at \in {"renaming", "writing", "filling"}
                                   /\ inode[drive[c].name] = inode[n]
\* Another process adds something to a file.
OutsideWrites(n) ==
    /\ outside.count < MaxOutside
    /\ LET w == outside.count + 1 IN
       /\ texts' = [texts EXCEPT ![inode[n]].edits = @ \cup {w}]
       /\ outside' = [writes |-> outside.writes \cup {[mark |-> w, name |-> n]}, count |-> w,
                      unseen |-> IF PastCheck(n) THEN outside.unseen \cup {w} ELSE outside.unseen]
    /\ UNCHANGED <<inode, locks, drive, linked, editFaults>>
\* It replaces one name by a hard link to another's file.
OutsideLinks(n, m) ==
    /\ outside.count < MaxOutside /\ inode[n] # inode[m] /\ Others(m) = {}
    /\ inode' = [inode EXCEPT ![m] = inode[n]]
    /\ linked' = linked \cup {n, m}
    /\ outside' = [outside EXCEPT !.count = @ + 1]
    /\ UNCHANGED <<texts, locks, drive, editFaults>>

\* The process ends: nothing cleans up after it.
ProcessEnds ==
    /\ editFaults < MaxEditFaults /\ editFaults' = editFaults + 1
    /\ drive' = [c \in EditCall |-> IF At(c, "done") THEN drive[c]
                                    ELSE [drive[c] EXCEPT !.at = "done", !.result = "lost", !.lock = NoLock]]
    /\ locks' = [n \in EditName |-> NoLock]
    /\ UNCHANGED OnDisk

CallSteps(c) ==
    \/ \E n \in EditName : Resolves(c, n)
    \/ CancelEdit(c) \/ Locks(c) \/ ReadsFile(c) \/ Chooses(c) \/ Checks(c)
    \/ Renames(c) \/ Truncates(c) \/ Fills(c) \/ FileFails(c)

EditNext ==
    \/ \E c \in EditCall : CallSteps(c)
    \/ \E n \in EditName : OutsideWrites(n) \/ \E m \in EditName : OutsideLinks(n, m)
    \/ ProcessEnds

(* ---------------------------------------------------------- properties ---- *)
Reported(c) == drive[c].result = "ok"

\* What a call reported as edited is in the file, however many calls edit the same
\* file by whatever paths, as long as it has no second hard link: they take turns
\* from reading to writing (target_lock keeps one lock while anyone waits for it).
NoEditIsLost ==
    \A c \in EditCall : Reported(c) /\ drive[c].name \notin linked => c \in File(drive[c].name).edits

\* What another process wrote is lost only when it wrote after the call's last look
\* at the file (check_snapshot: "not a filesystem CAS").
OutsideLostOnlyUnseen ==
    \A w \in outside.writes : w.name \notin linked /\ w.mark \notin outside.unseen
                               => w.mark \in File(w.name).edits

\* A file without other hard links is the old or the new one and never in between,
\* whenever the process ends or the disk fails (write_atomically).
NeverPartial == \A n \in EditName \ linked : File(n).whole

\* A call that returned leaves no temporary file behind but one that the disk would
\* not remove, whichever of its steps failed (write_atomically).
NoTempLeft == \A c \in EditCall : At(c, "done") /\ drive[c].temp = "staged" => drive[c].result = "lost"

=============================================================================
