----------------------------- MODULE Catalogs -----------------------------
(* The catalogs of the service: the pages of saved sessions and the          *)
(* projects.                                                                 *)
EXTENDS Integers, Sequences, FiniteSets, SequencesExt, Naturals

-----------------------------------------------------------------------------
(* The catalog of saved sessions (session_catalog_impl.rs): each page is     *)
(* worked out by a blocking worker on a generation - a scan of the session   *)
(* root done in bounded steps, then a frozen sorted list cut into pages by   *)
(* cursor. Callers drop their calls, generations expire or are evicted, and  *)
(* shutdown waits for every worker.                                          *)

CONSTANTS
  ListCaller,     \* clients that page through the catalog
  SavedFile,      \* session files, numbered in the order pages list them
  InProject,       \* those that the cwd filter selects
  StepEntries,    \* limits.step_entries
  ListLimit,      \* query.limit
  MaxWorkers, MaxGenerations,   \* limits.max_workers, limits.max_generations
  MaxPageCalls, MaxFileChanges  \* bounds of the model

ASSUME CatalogAssumption ==
  /\ SavedFile \subseteq Nat /\ InProject \subseteq SavedFile
  /\ {StepEntries, ListLimit, MaxWorkers, MaxGenerations} \subseteq Nat \ {0}
  /\ {MaxPageCalls, MaxFileChanges} \subseteq Nat

VARIABLES
  files,          \* the session files in the root
  state,          \* State: the generations oldest first, and the serial
  workers,        \* Worker, by number; each until its thread has ended
  listCalls,          \* the page future of each caller, and what it was given
  listShutdown,       \* [stop, at, notified]: the owner's stop flag and listShutdown()
  listCounts      \* [calls, changes]

catalogVars == <<files, state, workers, listCalls, listShutdown, listCounts>>

NoCursor == [key |-> 0, position |-> 0]
NoCall == [at |-> "idle", worker |-> 0, query |-> NoCursor, fits |-> TRUE,
           cursor |-> NoCursor, shown |-> <<>>]
NoData == [scan |-> FALSE, seen |-> {}, stable |-> {}, steps |-> 0, list |-> <<>>]
Gone == [at |-> "ended", cancelled |-> TRUE, key |-> 0]
ListWaiting == [reply |-> "none", sessions |-> <<>>, next |-> NoCursor]

CatalogInit ==
  /\ files = SavedFile /\ workers = <<>>
  /\ state = [generations |-> <<>>, serial |-> 0, active |-> 0]
  /\ listCalls = [c \in ListCaller |-> NoCall]
  /\ listShutdown = [stop |-> FALSE, at |-> "no", notified |-> FALSE]
  /\ listCounts = [calls |-> 0, changes |-> 0]

Ended(w) == workers[w].at = "ended"
Retained == {w \in DOMAIN workers : ~ Ended(w)}   \* handles that are not finished
Keys == {state.generations[i].key : i \in DOMAIN state.generations}
SlotOf(key) == CHOOSE i \in DOMAIN state.generations : state.generations[i].key = key

-----------------------------------------------------------------------------
\* A session is saved or deleted: whatever a running scan has not promised.
FileChanges ==
  /\ listCounts.changes < MaxFileChanges /\ listCounts' = [listCounts EXCEPT !.changes = @ + 1]
  /\ \E f \in SavedFile : files' = (files \ {f}) \cup ({f} \ files)
  /\ LET still(d) == [d EXCEPT !.stable = @ \cap files'] IN
     /\ state' = [state EXCEPT !.generations = [i \in DOMAIN @ |-> [@[i] EXCEPT !.data = still(@)]]]
     /\ workers' = [w \in DOMAIN workers |->
          IF Ended(w) THEN workers[w] ELSE [workers[w] EXCEPT !.data = still(@)]]
  /\ UNCHANGED <<listCalls, listShutdown>>

\* A caller asks for the first page, or for the one its cursor names, perhaps
\* with another limit than the cursor's.
ListAsks(c) ==
      /\ listCalls[c].at = "idle" /\ listCounts.calls < MaxPageCalls /\ ~ listShutdown.stop
      /\ listCounts' = [listCounts EXCEPT !.calls = @ + 1]
      /\ \E query \in {NoCursor, listCalls[c].cursor}, fits \in BOOLEAN :
           /\ query = NoCursor => fits
           /\ listCalls' = [listCalls EXCEPT ![c] = [@ EXCEPT
                                  !.at = "called", !.query = query, !.fits = fits,
                                  !.cursor = query, !.shown = IF query = NoCursor THEN <<>> ELSE @]]
      /\ UNCHANGED <<files, state, workers, listShutdown>>

ListRefused(c, error) ==
      listCalls' = [listCalls EXCEPT ![c] = [@ EXCEPT !.at = "idle", !.query = NoCursor, !.fits = TRUE,
                          !.worker = 0, !.cursor = IF error = "InvalidCursor" /\ listCalls[c].fits THEN NoCursor ELSE @]]

ListStopSeen == listShutdown.stop
WorkersFull == Cardinality(Retained) >= MaxWorkers

\* `page` under the state's lock: idle generations may have expired; the slot of
\* the cursor is found, or a new one made, by evicting the least recently used
\* idle one if there is no room; the worker takes the slot's data with it.
Admits(c) ==
  /\ listCalls[c].at = "called"
  /\ \E expired \in SUBSET {i \in DOMAIN state.generations : ~ state.generations[i].busy} :
       LET kept == SelectSeq(state.generations, LAMBDA s :
                     \A i \in expired : s.key # state.generations[i].key)
           mine == {i \in DOMAIN kept : listCalls[c].query \in kept[i].tokens}
           idle == {i \in DOMAIN kept : ~ kept[i].busy}
           evict == CHOOSE i \in idle : \A j \in idle : i <= j
           room == IF Len(kept) < MaxGenerations THEN kept ELSE RemoveAt(kept, evict)
           fresh == Append(room, [key |-> state.serial + 1, busy |-> FALSE, data |-> NoData, tokens |-> {}])
           refuse(error) == ListRefused(c, error) /\ state' = [state EXCEPT !.generations = kept]
                            /\ UNCHANGED workers
           start(slots, i) ==
             /\ workers' = Append(workers, [at |-> "work", cancelled |-> FALSE,
                  key |-> slots[i].key, data |-> slots[i].data, tokens |-> slots[i].tokens,
                  query |-> listCalls[c].query, fits |-> listCalls[c].fits, result |-> ListWaiting])
             /\ state' = [state EXCEPT !.active = @ + 1, !.serial = IF slots[i].key > @ THEN @ + 1 ELSE @,
                  !.generations = [slots EXCEPT ![i] = [@ EXCEPT !.busy = TRUE, !.data = NoData]]]
             /\ listCalls' = [listCalls EXCEPT ![c] = [@ EXCEPT !.at = "waiting", !.worker = Len(workers) + 1]]
       IN IF ListStopSeen THEN expired = {} /\ ListRefused(c, "Cancelled") /\ UNCHANGED <<state, workers>>
          ELSE IF listCalls[c].query # NoCursor
          THEN IF mine = {} THEN refuse("InvalidCursor")
               ELSE LET i == CHOOSE i \in mine : TRUE IN
                    IF kept[i].busy \/ WorkersFull THEN refuse("Conflict") ELSE start(kept, i)
          ELSE IF WorkersFull \/ (Len(kept) >= MaxGenerations /\ idle = {}) THEN refuse("Conflict")
               ELSE start(fresh, Len(fresh))
  /\ UNCHANGED <<files, listShutdown, listCounts>>

\* Dropping the page future cancels its worker, which keeps its slot and place.
Drops(c) ==
  /\ listCalls[c].at \in {"called", "waiting", "joining"}
  /\ listCalls' = [listCalls EXCEPT ![c] = [@ EXCEPT !.at = "idle", !.query = NoCursor, !.fits = TRUE, !.worker = 0]]
  /\ workers' = IF listCalls[c].at = "called" THEN workers
                ELSE IF Ended(listCalls[c].worker) THEN [workers EXCEPT ![listCalls[c].worker] = Gone]
                ELSE [workers EXCEPT ![listCalls[c].worker].cancelled = TRUE]
  /\ UNCHANGED <<files, state, listShutdown, listCounts>>

-----------------------------------------------------------------------------
\* The page of a frozen list that starts after a position; the cursor of the
\* next one stays valid as long as the generation does.
Cut(w, data, tokens, position) ==
  LET end == IF position + ListLimit < Len(data.list) THEN position + ListLimit ELSE Len(data.list)
      next == [key |-> workers[w].key, position |-> end]
      more == end < Len(data.list)
  IN [workers[w] EXCEPT !.at = "worked", !.data = data,
        !.tokens = IF more THEN tokens \cup {next} ELSE tokens,
        !.result = [reply |-> "page", sessions |-> SubSeq(data.list, position + 1, end),
                    next |-> IF more THEN next ELSE NoCursor]]

\* Each header read says whether its session is in the directory asked for.
FilterSelects(found) == found \cap InProject

\* The scan, started with the first page, reads StepEntries entries a step; the
\* cursor of a step is good for one use (its entries stand for the bytes and the
\* time of a step, which end it as well). A file that is there throughout is
\* read; one that comes or goes may be.
StepIsFull(batch) == Cardinality(batch) = StepEntries
Scans(w) ==
  LET old == IF workers[w].query = NoCursor
             THEN [NoData EXCEPT !.scan = TRUE, !.stable = files] ELSE workers[w].data
      rest == workers[w].tokens \ {workers[w].query}
  IN \E batch \in SUBSET (files \ old.seen) :
       LET read == [old EXCEPT !.seen = @ \cup batch, !.steps = @ + 1]
           next == [key |-> workers[w].key, position |-> -(old.steps + 1)]
           list == SetToSortSeq(FilterSelects(read.seen), <)
       IN /\ Cardinality(batch) <= StepEntries
          /\ \/ Cardinality(batch) = StepEntries
             \/ old.stable \subseteq read.seen
          /\ workers' = [workers EXCEPT ![w] =
               IF StepIsFull(batch)
               THEN [@ EXCEPT !.at = "worked", !.data = read, !.tokens = rest \cup {next},
                              !.result = [reply |-> "page", sessions |-> <<>>, next |-> next]]
               ELSE Cut(w, [read EXCEPT !.scan = FALSE, !.list = list], rest, 0)]

\* `work` ends with an error: cancelled or stopped, a file system error, a
\* budget; or with InvalidCursor, the generation untouched.
WorkFails(w, error) ==
  workers' = [workers EXCEPT ![w].at = "worked", ![w].result = [ListWaiting EXCEPT !.reply = error]]
Works(w) ==
  /\ workers[w].at = "work"
  /\ IF workers[w].cancelled \/ listShutdown.stop THEN WorkFails(w, "Cancelled")
     ELSE IF ~ workers[w].fits THEN WorkFails(w, "InvalidCursor")
     ELSE \/ WorkFails(w, "Failed")
          \/ /\ workers[w].query = NoCursor \/ workers[w].data.scan
             /\ Scans(w)
          \/ /\ workers[w].query # NoCursor /\ ~ workers[w].data.scan
             /\ workers' = [workers EXCEPT ![w] = Cut(w, @.data, @.tokens, @.query.position)]
  /\ UNCHANGED <<files, state, listCalls, listShutdown, listCounts>>

\* The worker looks at its control once more after the work. Under the lock
\* again, the generation goes back into its slot, as the most
\* recently used if the page was made, or is forgotten.
Preserves(worker) == worker.result.reply \in {"page", "InvalidCursor"} /\ ~ listShutdown.stop
\* A failed page leaves its slot busy.
Returned(worker) ==
  LET i == SlotOf(worker.key)
      slot == [state.generations[i] EXCEPT !.busy = FALSE, !.data = worker.data, !.tokens = worker.tokens]
      others == RemoveAt(state.generations, i)
  IN IF ~ Preserves(worker) THEN others
     ELSE IF worker.result.reply = "page" THEN Append(others, slot)
     ELSE [state.generations EXCEPT ![i] = slot]
ListCommits(w) ==
      /\ workers[w].at = "worked"
      /\ \E late \in BOOLEAN :
           LET worker == IF late THEN [workers[w] EXCEPT !.result = [ListWaiting EXCEPT !.reply = "Cancelled"]]
                         ELSE workers[w]
           IN /\ late => workers[w].cancelled
              /\ state' = [state EXCEPT !.active = @ - 1, !.generations = Returned(worker)]
              /\ workers' = [workers EXCEPT ![w] = [worker EXCEPT !.at = "tail", !.data = NoData, !.tokens = {},
                                                  !.query = NoCursor, !.cancelled = TRUE, !.key = 0]]
      /\ listShutdown' = [listShutdown EXCEPT !.notified = @ \/ listShutdown.at \in {"armed", "wait"}]
      /\ UNCHANGED <<files, listCalls, listCounts>>
ListThreadEnds(w) ==
      /\ workers[w].at = "tail"
      /\ workers' = [workers EXCEPT ![w] =
           IF \E c \in ListCaller : listCalls[c].worker = w THEN [@ EXCEPT !.at = "ended"] ELSE Gone]
      /\ UNCHANGED <<files, state, listCalls, listShutdown, listCounts>>

\* The page future takes the result and then waits for the thread to end.
ListReceives(c) ==
      /\ listCalls[c].at = "waiting" /\ workers[listCalls[c].worker].at \in {"tail", "ended"}
      /\ listCalls' = [listCalls EXCEPT ![c].at = "joining"]
      /\ UNCHANGED <<files, state, workers, listShutdown, listCounts>>
ListDelivers(c) ==
      /\ listCalls[c].at = "joining" /\ Ended(listCalls[c].worker)
      /\ LET result == workers[listCalls[c].worker].result IN
         IF result.reply = "page"
         THEN listCalls' = [listCalls EXCEPT ![c] = [@ EXCEPT !.at = "idle", !.query = NoCursor,
                                  !.worker = 0, !.cursor = result.next, !.shown = @ \o result.sessions]]
         ELSE ListRefused(c, result.reply)
      /\ workers' = [workers EXCEPT ![listCalls[c].worker] = Gone]
      /\ UNCHANGED <<files, state, listShutdown, listCounts>>

-----------------------------------------------------------------------------
\* listShutdown(): the flag, then a loop that arms the notification before it looks.
ListStops ==
      /\ listShutdown.at = "no" /\ listShutdown' = [listShutdown EXCEPT !.stop = TRUE, !.at = "loop"]
      /\ UNCHANGED <<files, state, workers, listCalls, listCounts>>
Arms ==
  /\ listShutdown.at = "loop" /\ listShutdown' = [listShutdown EXCEPT !.at = "armed", !.notified = FALSE]
  /\ UNCHANGED <<files, state, workers, listCalls, listCounts>>
Looks ==
  /\ listShutdown.at = "armed"
  /\ IF Retained = {}
     THEN /\ listShutdown' = [listShutdown EXCEPT !.at = "done"]
          /\ state' = [state EXCEPT !.generations = <<>>]
     ELSE /\ listShutdown' = [listShutdown EXCEPT !.at = IF state.active = 0 THEN "sleep" ELSE "wait"]
          /\ UNCHANGED state
  /\ UNCHANGED <<files, workers, listCalls, listCounts>>
WakesFor == listShutdown.at = "sleep" \/ listShutdown.notified
Wakes ==
  /\ listShutdown.at \in {"sleep", "wait"} /\ WakesFor
  /\ listShutdown' = [listShutdown EXCEPT !.at = "loop"]
  /\ UNCHANGED <<files, state, workers, listCalls, listCounts>>

ListWorkerSteps(w) == Works(w) \/ ListCommits(w) \/ ListThreadEnds(w)
ShutdownSteps == Arms \/ Looks \/ Wakes
CatalogNext ==
  \/ FileChanges \/ ListStops \/ ShutdownSteps
  \/ \E c \in ListCaller : ListAsks(c) \/ Admits(c) \/ Drops(c) \/ ListReceives(c) \/ ListDelivers(c)
  \/ \E w \in DOMAIN workers : ListWorkerSteps(w)

-----------------------------------------------------------------------------
\* The blocking threads never exceed their limit, those of dropped calls and the
\* tails of finished ones included.
ThreadsBounded == Cardinality(Retained) <= MaxWorkers

\* A busy generation has a worker that will give it back.
BusyHasWorker ==
  \A i \in DOMAIN state.generations : state.generations[i].busy =>
    \E w \in DOMAIN workers :
      workers[w].at \in {"work", "worked"} /\ workers[w].key = state.generations[i].key

\* Following the cursors, whatever is dropped and asked again, shows the
\* selected sessions in order and none twice; the end of the list is reached
\* only when every session that was there throughout the scan has been shown.
ListedInOrder ==
  \A c \in ListCaller :
    /\ \A i, j \in DOMAIN listCalls[c].shown : i < j => listCalls[c].shown[i] < listCalls[c].shown[j]
    /\ \A i \in DOMAIN state.generations :
         LET slot == state.generations[i] IN
         /\ listCalls[c].cursor.position > 0 /\ listCalls[c].cursor \in slot.tokens /\ ~ slot.busy
                  => listCalls[c].shown = SubSeq(slot.data.list, 1, listCalls[c].cursor.position)
         /\ ~ slot.busy /\ slot.data.steps > 0 /\ ~ slot.data.scan
              => slot.data.stable \cap InProject \subseteq ToSet(slot.data.list)

\* After shutdown no thread reads the file system and no directory is open.
ShutdownIsClean ==
  listShutdown.at = "done" => Retained = {} /\ Keys = {}

\* Shutdown returns although every caller has gone.
CatalogCloseOwed == listShutdown.stop
CatalogCloseMet == listShutdown.at = "done"
-----------------------------------------------------------------------------
(* The project catalog (projects.rs): the projects the service was configured *)
(* with and those a client added below the managed root, with the names and    *)
(* archive marks a client gave them, kept in one file that is replaced whole.  *)
(* Operations run one at a time, under the catalog's write lock.               *)

CONSTANTS
    Folder,           \* directories below the managed root
    Configured,       \* projects the service is configured with
    ProjectName,      \* display names
    MaxProjectOps,    \* operations, removals and restarts
    MaxSaveFaults     \* saves that fail

ASSUME ProjectAssumption == MaxProjectOps \in Nat /\ MaxSaveFaults \in Nat

VARIABLES
    folders,      \* the directories that exist below the root
    projectEntries,      \* project -> [name, archived]: what clients see
    savedItems,        \* the items [path, name, archived] the next save writes
    catalogFile,  \* the items in the catalog file
    adding,       \* [folder, name, new]: an add that has its directory
    emptied,      \* directories somebody removed from outside
    projectOps, saveFaults

projectVars == <<folders, projectEntries, savedItems, catalogFile, adding, emptied, projectOps, saveFaults>>

NoAdd == [folder |-> "none", name |-> "none", new |-> FALSE]
Item(p, shown) == [path |-> p, name |-> shown.name, archived |-> shown.archived]
Unarchived(name) == [name |-> name, archived |-> FALSE]
ProjectOf(items, p) == {i \in DOMAIN items : items[i].path = p}

\* load: an item counts while its directory exists below the root; of two items
\* for one directory the later one decides.
Loaded(items) ==
    LET managed == {p \in folders : ProjectOf(items, p) # {}}
        last(p) == items[CHOOSE i \in ProjectOf(items, p) : \A j \in ProjectOf(items, p) : j <= i]
    IN [p \in Configured \cup managed |->
           IF p \in managed THEN [name |-> last(p).name, archived |-> last(p).archived]
           ELSE Unarchived("own")]

ProjectsInit ==
    /\ folders \in {F \in SUBSET Folder : Folder \cap Configured \subseteq F}
    /\ savedItems = <<>> /\ catalogFile = <<>> /\ projectEntries = Loaded(<<>>)
    /\ adding = NoAdd /\ emptied = {} /\ projectOps = 0 /\ saveFaults = 0

ProjectCounted == projectOps < MaxProjectOps /\ projectOps' = projectOps + 1

\* save, then what the operation makes of its result: one that fails leaves
\* everything as it was before the operation.
TakenBack(items) == savedItems
Saves(p, shown, items) ==
    \/ /\ savedItems' = items /\ catalogFile' = items
       /\ projectEntries' = [q \in DOMAIN projectEntries \cup {p} |-> IF q = p THEN shown ELSE projectEntries[q]]
       /\ UNCHANGED saveFaults
    \/ /\ saveFaults < MaxSaveFaults /\ saveFaults' = saveFaults + 1
       /\ savedItems' = TakenBack(items) /\ UNCHANGED <<catalogFile, projectEntries>>

\* A new directory must not exist, an existing one must be below the root; a
\* project that is in the workspace is refused (the directory stays).
AddBegins(f, name, new) ==
    /\ adding = NoAdd /\ ProjectCounted
    /\ new <=> f \notin folders
    /\ folders' = folders \cup {f}
    /\ adding' = IF f \in DOMAIN projectEntries THEN NoAdd ELSE [folder |-> f, name |-> name, new |-> new]
    /\ UNCHANGED <<projectEntries, savedItems, catalogFile, emptied, saveFaults>>
\* git init of a new directory may fail or time out: it stays, uncatalogued.
GitFails ==
    /\ adding.new /\ adding' = NoAdd
    /\ UNCHANGED <<folders, projectEntries, savedItems, catalogFile, emptied, projectOps, saveFaults>>
AddEnds ==
    /\ adding # NoAdd /\ adding' = NoAdd
    /\ Saves(adding.folder, Unarchived(adding.name),
             Append(savedItems, Item(adding.folder, Unarchived(adding.name))))
    /\ UNCHANGED <<folders, emptied, projectOps>>

\* rename and set_archived change the first item of the directory; without one
\* they append what clients now see.
Changed(p, shown) ==
    IF ProjectOf(savedItems, p) = {} THEN Append(savedItems, Item(p, shown))
    ELSE LET first == CHOOSE i \in ProjectOf(savedItems, p) : \A j \in ProjectOf(savedItems, p) : i <= j
         IN [savedItems EXCEPT ![first] = Item(p, shown)]
Renamed(p, name) == [projectEntries[p] EXCEPT !.name = name]
Rename(p, name) ==
    LET shown == Renamed(p, name)
    IN /\ adding = NoAdd /\ ProjectCounted
       /\ Saves(p, shown, Changed(p, shown)) /\ UNCHANGED <<folders, adding, emptied>>
SetArchived(p, archived) ==
    LET shown == [projectEntries[p] EXCEPT !.archived = archived]
    IN /\ adding = NoAdd /\ ProjectCounted
       /\ Saves(p, shown, Changed(p, shown)) /\ UNCHANGED <<folders, adding, emptied>>

\* The service starts again, also in the middle of an add.
Restart ==
    /\ ProjectCounted
    /\ projectEntries' = Loaded(catalogFile) /\ savedItems' = catalogFile /\ adding' = NoAdd
    /\ UNCHANGED <<folders, catalogFile, emptied, saveFaults>>
\* Somebody removes a directory that the service is not configured with.
FolderRemoved(f) ==
    /\ f \in folders \ Configured /\ adding = NoAdd /\ ProjectCounted
    /\ folders' = folders \ {f} /\ emptied' = emptied \cup {f}
    /\ UNCHANGED <<projectEntries, savedItems, catalogFile, adding, saveFaults>>

ProjectsNext ==
    \/ \E f \in Folder, name \in ProjectName, new \in BOOLEAN : AddBegins(f, name, new)
    \/ GitFails \/ AddEnds \/ Restart
    \/ \E f \in Folder : FolderRemoved(f)
    \/ \E p \in DOMAIN projectEntries : \/ \E n \in ProjectName : Rename(p, n)
                                      \/ \E a \in BOOLEAN : SetArchived(p, a)

(* ---------------------------------------------------------- properties ---- *)
\* What clients see of the projects below the root is what a restart shows, after
\* every operation, saved or failed, of any of them: nothing that failed comes
\* back, nothing that was answered goes (Projects::save, add, rename,
\* set_archived). A directory that was removed from outside and added again has
\* two items and is outside of this: its changes reach the first, load takes the
\* last.
CatalogIsDurable ==
    \A p \in folders \ emptied :
        /\ p \in DOMAIN projectEntries <=> p \in DOMAIN Loaded(catalogFile)
        /\ p \in DOMAIN projectEntries => projectEntries[p] = Loaded(catalogFile)[p]

\* A project that a client archived stays archived until a client restores it: no
\* rename, failed save, operation on another project or restart brings it back.
ArchiveIsKept ==
    [][\A p \in (folders \ emptied) \cap DOMAIN projectEntries :
          projectEntries[p].archived =>
                     p \in DOMAIN projectEntries' /\ (projectEntries'[p].archived \/ SetArchived(p, FALSE))]_projectVars

=============================================================================
