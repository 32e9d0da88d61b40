------------------------------ MODULE CodeMode ------------------------------
(* One run of the code mode tool (rpi-codemode engine.rs, engine/references.rs *)
(* and the job around it in lib.rs). A JavaScript program starts native tools  *)
(* through the bridge; the worker thread alternates between the program's jobs *)
(* and polling the started calls. A finished call leaves its result stored by  *)
(* the native until it is released, or handed over as the run's own output.    *)
EXTENDS Integers, Sequences, FiniteSets, SequencesExt

CONSTANTS
  MaxCodeCalls,        \* MAX_CALLS
  MaxActive,       \* MAX_ACTIVE
  MaxReceipts,     \* references.len() limit
  MaxParts,        \* output_parts limit
  MaxTroubles      \* bound: failed native operations, cancellation, expiry, memory

ASSUME CodeAssumption ==
  /\ {MaxCodeCalls, MaxActive, MaxReceipts, MaxParts} \subseteq Nat \ {0}
  /\ MaxTroubles \in Nat

VARIABLES
  codeWorker,    \* the worker thread: where it is, and the program it runs
  bridge,    \* Bridge
  codeStored,    \* the native's side of each started call
  signals,   \* cancelled, the deadline and memory_failed
  summary    \* what the run answers

codeVars == <<codeWorker, bridge, codeStored, signals, summary>>

Call == 1..MaxCodeCalls
Unstarted == [at |-> "no", kind |-> "small", disposed |-> 0, released |-> 0]
NoSummary == [status |-> "none", reference |-> 0, parts |-> <<>>]

CodeInit ==
  /\ codeWorker = [at |-> "catalog", cursor |-> 0, reading |-> 0, ready |-> FALSE,
                   runnable |-> TRUE, promise |-> "pending", error |-> FALSE]
  /\ bridge = [pending |-> <<>>, started |-> 0, fatal |-> FALSE, live |-> TRUE, unclean |-> FALSE,
               receipts |-> {}, parts |-> <<>>, result |-> FALSE, selected |-> 0, terminal |-> 0,
               emitted |-> {}]
  /\ codeStored = [c \in Call |-> Unstarted]
  /\ signals = [cancelled |-> FALSE, late |-> FALSE, memory |-> FALSE, expired |-> FALSE, faults |-> 0]
  /\ summary = NoSummary

-----------------------------------------------------------------------------
\* The native fails every operation of an invocation that has expired, and now
\* and then one of a live invocation.
Faulted(ok) ==
  /\ ok => ~ signals.expired
  /\ ~ ok /\ ~ signals.expired => signals.faults < MaxTroubles
  /\ signals' = [signals EXCEPT !.faults = IF ok \/ signals.expired THEN @ ELSE @ + 1]

\* A started call finishes, with a small or a large result, with one that ends
\* the run, or it fails.
NativeFinishes(c) ==
  /\ codeStored[c].at = "running" /\ codeStored[c].disposed = 0
  /\ \E kind \in {"small", "large", "last", "failed"} :
       codeStored' = [codeStored EXCEPT ![c].at = "finished", ![c].kind = kind]
  /\ UNCHANGED <<codeWorker, bridge, signals, summary>>

Raises(signal) ==
  /\ codeWorker.at # "ended" /\ ~ signals[signal] /\ signals.faults < MaxTroubles
  /\ signals' = [signals EXCEPT ![signal] = TRUE, !.faults = @ + 1]
  /\ UNCHANGED <<codeWorker, bridge, codeStored, summary>>
Cancels == Raises("cancelled")
DeadlinePasses ==
  /\ summary.status = "none" /\ ~ signals.late
  /\ signals' = [signals EXCEPT !.late = TRUE]
  /\ UNCHANGED <<codeWorker, bridge, codeStored, summary>>
Expires == Raises("expired")

\* `check`
CheckFails == signals.cancelled \/ signals.late \/ signals.memory \/ bridge.fatal
Over(error) == [codeWorker EXCEPT !.at = "over", !.error = error]

-----------------------------------------------------------------------------
\* The program's catalog, by pages of the native.
ListsCatalog ==
  /\ codeWorker.at = "catalog"
  /\ \E ok \in BOOLEAN :
       /\ Faulted(ok)
       /\ bridge' = [bridge EXCEPT !.live = @ /\ ok]
       /\ codeWorker' = IF ok /\ ~ CheckFails THEN [codeWorker EXCEPT !.at = "jobs"] ELSE Over(TRUE)
  /\ UNCHANGED <<codeStored, summary>>

\* `execute_pending_job`, up to 64 times: the program calls the bridge, awaits,
\* ends, or is interrupted. A failed operation throws; what the program makes of
\* the exception is its own affair, but the failure stays.
InJob == codeWorker.at = "jobs" /\ codeWorker.runnable /\ ~ CheckFails
Stays == UNCHANGED <<codeWorker, summary>>

ProgramAwaits ==
  /\ codeWorker.at = "jobs" /\ codeWorker.runnable
  /\ \/ codeWorker' = [codeWorker EXCEPT !.runnable = FALSE]
     \/ /\ codeWorker.promise = "pending"
        /\ \E end \in {"value", "content", "threw"} :
             codeWorker' = [codeWorker EXCEPT !.runnable = FALSE, !.promise = end]
  /\ UNCHANGED <<bridge, codeStored, signals, summary>>

MemoryFails ==
  InJob /\ Raises("memory")

\* `start`: an uncertain start is not repeated.
BudgetSpent == bridge.started >= MaxCodeCalls \/ Len(bridge.pending) >= MaxActive
CodeStarts ==
      /\ InJob
      /\ IF BudgetSpent THEN bridge' = [bridge EXCEPT !.fatal = TRUE] /\ UNCHANGED <<codeStored, signals>>
         ELSE LET c == bridge.started + 1 IN
              \/ /\ Faulted(TRUE)
                 /\ \E valid \in BOOLEAN :         \* the reply says "running"
                      /\ bridge' = [bridge EXCEPT !.started = c, !.pending = Append(@, c), !.fatal = ~ valid]
                      /\ ~ valid => signals.faults < MaxTroubles
                 /\ codeStored' = [codeStored EXCEPT ![c].at = "running"]
              \/ /\ Faulted(FALSE) /\ UNCHANGED codeStored
                 /\ bridge' = [bridge EXCEPT !.started = c, !.fatal = TRUE, !.live = FALSE]
      /\ Stays

\* `emit` of inline content (emitting stands at a receipt of 0) and
\* `emit_reference`, which measures the receipt's content.
Selected == bridge.result \/ bridge.selected # 0
CodeEmits(c) ==
      /\ InJob
      /\ \E ok \in BOOLEAN :
           /\ IF c = 0 \/ Selected \/ c \notin bridge.receipts THEN ok /\ UNCHANGED signals ELSE Faulted(ok)
           /\ bridge' = IF Selected \/ (c # 0 /\ c \notin bridge.receipts) \/ ~ ok \/ Len(bridge.parts) >= MaxParts
                        THEN [bridge EXCEPT !.fatal = TRUE, !.live = @ /\ ok]
                        ELSE [bridge EXCEPT !.parts = Append(@, c), !.emitted = @ \cup ({c} \ {0})]
      /\ Stays /\ UNCHANGED codeStored

\* `select_result` of a materialized result and `select_reference`.
Selects(c) ==
  /\ InJob
  /\ bridge' = IF Selected \/ bridge.parts # <<>> \/ (c # 0 /\ c \notin bridge.receipts)
               THEN [bridge EXCEPT !.fatal = TRUE]
               ELSE IF c = 0 THEN [bridge EXCEPT !.result = TRUE] ELSE [bridge EXCEPT !.selected = c]
  /\ Stays /\ UNCHANGED <<codeStored, signals>>

\* `release_reference`: neither a selected receipt nor an emitted one; a failed
\* release is not repeated and no output is handed over any more.
KeepsEmitted(c) == c = bridge.selected \/ c \in bridge.emitted
Releasing(c) == codeStored' = [codeStored EXCEPT ![c].released = @ + 1]
ReleasesReceipt(c) ==
  IF c \notin bridge.receipts \/ KeepsEmitted(c)
  THEN bridge' = [bridge EXCEPT !.fatal = TRUE] /\ UNCHANGED <<codeStored, signals>>
  ELSE \E ok \in BOOLEAN :
         /\ Faulted(ok) /\ Releasing(c)
         /\ bridge' = [bridge EXCEPT !.receipts = @ \ {c}, !.live = @ /\ ok,
                                     !.unclean = @ \/ ~ ok, !.fatal = ~ ok]
Releases(c) == InJob /\ ReleasesReceipt(c) /\ Stays

\* `read_reference`, by chunks.
Reads(c) ==
  \E ok \in BOOLEAN :
    /\ IF c \notin bridge.receipts THEN ~ ok /\ UNCHANGED signals ELSE Faulted(ok)
    /\ bridge' = [bridge EXCEPT !.fatal = ~ ok, !.live = IF c \in bridge.receipts THEN @ /\ ok ELSE @]
    /\ Stays /\ UNCHANGED codeStored

ProgramCalls ==
  \/ CodeStarts
  \/ \E c \in {0} \cup 1..bridge.started : CodeEmits(c) \/ Selects(c)
  \/ \E c \in 1..bridge.started : Releases(c) \/ (InJob /\ Reads(c))

\* No job is left, or 64 were run: a settled program ends the run, otherwise the
\* calls are polled, the newest first.
JobsEnd ==
  /\ codeWorker.at = "jobs"
  /\ codeWorker' = IF CheckFails THEN Over(TRUE)
                   ELSE IF codeWorker.promise # "pending" THEN Over(codeWorker.promise = "threw")
                   ELSE [codeWorker EXCEPT !.at = "poll", !.cursor = Len(bridge.pending), !.ready = FALSE]
  /\ UNCHANGED <<bridge, codeStored, signals, summary>>

-----------------------------------------------------------------------------
\* One call is polled; finished, its result is retained, unless there are too
\* many, and the call disposed. A result that terminates ends the run at once.
Polls ==
  /\ codeWorker.at = "poll" /\ codeWorker.reading = 0 /\ codeWorker.cursor > 0
  /\ LET c == bridge.pending[codeWorker.cursor]
         kind == codeStored[c].kind
         rest == RemoveAt(bridge.pending, codeWorker.cursor)
         retained == [bridge EXCEPT !.receipts = @ \cup {c}, !.pending = rest]
         next == [codeWorker EXCEPT !.cursor = @ - 1]
     IN \/ /\ Faulted(FALSE)                  \* the poll fails
           /\ bridge' = [bridge EXCEPT !.live = FALSE]
           /\ codeWorker' = Over(TRUE) /\ UNCHANGED codeStored
        \/ /\ ~ signals.expired /\ codeStored[c].at = "running"
           /\ codeWorker' = next /\ UNCHANGED <<bridge, codeStored, signals>>
        \/ /\ ~ signals.expired /\ codeStored[c].at = "finished" /\ kind # "failed"
           /\ Cardinality(bridge.receipts) >= MaxReceipts
           /\ bridge' = [bridge EXCEPT !.fatal = TRUE]
           /\ codeWorker' = Over(TRUE) /\ UNCHANGED <<codeStored, signals>>
        \/ /\ ~ signals.expired /\ codeStored[c].at = "finished"
           /\ kind = "failed" \/ Cardinality(bridge.receipts) < MaxReceipts
           /\ codeStored' = [codeStored EXCEPT ![c].disposed = @ + 1]
           /\ \E ok \in BOOLEAN :             \* the disposal
                /\ Faulted(ok)
                /\ bridge' = [(IF kind = "failed" THEN [bridge EXCEPT !.pending = rest] ELSE retained)
                    EXCEPT !.live = @ /\ ok /\ kind # "failed",
                           !.terminal = IF ok /\ kind = "last" THEN c ELSE @]
                /\ codeWorker' = CASE ~ ok \/ kind = "failed" -> Over(TRUE)
                                   [] kind = "last"           -> Over(FALSE)
                                   [] kind = "small"          -> [next EXCEPT !.reading = c, !.ready = TRUE]
                                   [] kind = "large"          -> [next EXCEPT !.ready = TRUE]
  /\ UNCHANGED summary

\* A small result is read and released before the program gets it.
Materializes ==
  /\ codeWorker.at = "poll" /\ codeWorker.reading # 0
  /\ IF CheckFails THEN /\ codeWorker' = [Over(TRUE) EXCEPT !.reading = 0]
                        /\ bridge' = [bridge EXCEPT !.fatal = TRUE] /\ UNCHANGED <<codeStored, signals, summary>>
     ELSE \/ /\ Faulted(FALSE)
             /\ bridge' = [bridge EXCEPT !.fatal = TRUE, !.live = FALSE]
             /\ codeWorker' = [Over(TRUE) EXCEPT !.reading = 0] /\ UNCHANGED <<codeStored, summary>>
          \/ /\ ~ signals.expired /\ ReleasesReceipt(codeWorker.reading) /\ UNCHANGED summary
             /\ codeWorker' = [(IF bridge'.fatal THEN Over(TRUE) ELSE codeWorker) EXCEPT !.reading = 0]

\* The program's promises are settled; with no call and no job left, a promise
\* that is still pending will stay so.
PollsEnd ==
  /\ codeWorker.at = "poll" /\ codeWorker.reading = 0 /\ codeWorker.cursor = 0
  /\ LET runnable == codeWorker.runnable \/ codeWorker.ready IN
     codeWorker' = IF bridge.pending = <<>> /\ ~ runnable THEN Over(TRUE)
                   ELSE [codeWorker EXCEPT !.at = "jobs", !.runnable = runnable, !.ready = FALSE]
  /\ UNCHANGED <<bridge, codeStored, signals, summary>>

-----------------------------------------------------------------------------
\* `cleanup`: every call still open is cancelled, disposed and released; only
\* the answer to the release is of no account.
Cleans ==
  /\ codeWorker.at = "over" /\ bridge.pending # <<>>
  /\ LET c == Head(bridge.pending) IN
     /\ codeStored' = [codeStored EXCEPT ![c].disposed = @ + 1, ![c].released = @ + 1]
     /\ \E ok \in BOOLEAN :
          Faulted(ok) /\ bridge' = [bridge EXCEPT !.pending = Tail(@), !.live = @ /\ ok]
  /\ UNCHANGED <<codeWorker, summary>>

Status == CASE bridge.terminal # 0 -> "terminated"
            [] bridge.terminal = 0 /\ signals.cancelled -> "cancelled"
            [] bridge.terminal = 0 /\ ~ signals.cancelled /\ signals.late -> "timed_out"
            [] OTHER -> IF signals.memory \/ bridge.fatal \/ codeWorker.error
                           \/ (codeWorker.promise = "content" /\ Selected) THEN "error" ELSE "completed"
Handoff(status) == CASE status = "terminated" -> bridge.terminal
                     [] status = "completed"  -> bridge.selected
                     [] OTHER -> 0
\* Emitted receipts may be handed over: no result was selected, none terminated.
MayKeepEmits(status) ==
  /\ bridge.emitted # {} /\ Handoff(status) = 0 /\ ~ (status = "completed" /\ bridge.result)
  /\ bridge.selected = 0 /\ bridge.terminal = 0 /\ ~ signals.cancelled

\* The status is decided after the cleanup; content in the returned value is one
\* more part of the output.
Decides ==
  /\ codeWorker.at = "over" /\ bridge.pending = <<>>
  /\ summary' = [summary EXCEPT !.status = Status, !.reference = Handoff(Status)]
  /\ bridge' = IF Status = "completed" /\ codeWorker.promise = "content"
               THEN [bridge EXCEPT !.parts = Append(@, 0)] ELSE bridge
  /\ codeWorker' = [codeWorker EXCEPT !.at = IF MayKeepEmits(Status) THEN "prepare" ELSE "release"]
  /\ UNCHANGED <<codeStored, signals>>

\* `prepare_emitted_handoff` releases the receipts that were not emitted.
ReleasesUnselected ==
  /\ codeWorker.at = "prepare" /\ ~ signals.cancelled
  /\ \E c \in bridge.receipts \ bridge.emitted, ok \in BOOLEAN :
       /\ Faulted(ok) /\ Releasing(c)
       /\ bridge' = [bridge EXCEPT !.receipts = @ \ {c}, !.unclean = @ \/ ~ ok]
  /\ UNCHANGED <<codeWorker, summary>>

\* An operation that failed may have been a budget error: only if every emitted
\* receipt is still known to the native may they be handed over. The receipts
\* handed over are the native's from here on.
Clean == ~ bridge.unclean
Prepares ==
  /\ codeWorker.at = "prepare" /\ (signals.cancelled \/ bridge.receipts \subseteq bridge.emitted)
  /\ codeWorker' = [codeWorker EXCEPT !.at = "release"]
  /\ \E probed \in BOOLEAN :
       /\ IF bridge.live \/ signals.cancelled \/ ~ Clean THEN probed /\ UNCHANGED signals ELSE Faulted(probed)
       /\ LET keep == ~ signals.cancelled /\ Clean /\ probed IN
          /\ bridge' = [bridge EXCEPT !.live = IF Clean /\ ~ signals.cancelled THEN probed ELSE @ /\ Clean,
                                      !.receipts = IF keep THEN {} ELSE @]
          /\ summary' = [summary EXCEPT !.parts = IF keep THEN bridge.parts ELSE <<>>,
                                        !.status = IF keep THEN @ ELSE "unattached"]
  /\ UNCHANGED codeStored

\* `cleanup_references`: what was not handed over is released.
HandedOver == {summary.reference}
ReleasesRest ==
  /\ codeWorker.at = "release"
  /\ \E c \in bridge.receipts \ HandedOver, ok \in BOOLEAN :
       /\ Faulted(ok) /\ Releasing(c)
       /\ bridge' = [bridge EXCEPT !.receipts = @ \ {c}, !.live = @ /\ ok]
  /\ UNCHANGED <<codeWorker, summary>>

\* Nothing is attached if the run was cancelled, or the owner lost, meanwhile.
AttachmentLive == ~ signals.cancelled /\ bridge.live
CodeAnswers ==
      /\ codeWorker.at = "release" /\ bridge.receipts \subseteq HandedOver
      /\ codeWorker' = [codeWorker EXCEPT !.at = "ended"]
      /\ summary' = IF summary.status = "unattached" \/ (summary.parts # <<>> /\ ~ AttachmentLive)
                    THEN [summary EXCEPT !.status = "error", !.parts = <<>>] ELSE summary
      /\ UNCHANGED <<bridge, codeStored, signals>>

\* `tool_result`: what the native finds in the tool's answer, the reference of a
\* run that went well or else the parts, and owns from then on.
ToolResult == IF summary.status \in {"completed", "terminated"} /\ summary.reference # 0
              THEN {summary.reference} ELSE Range(summary.parts) \ {0}

WorkerSteps == ListsCatalog \/ ProgramAwaits \/ JobsEnd \/ Polls \/ Materializes \/ PollsEnd
  \/ Cleans \/ Decides \/ ReleasesUnselected \/ Prepares \/ ReleasesRest \/ CodeAnswers
CodeFinished == codeWorker.at = "ended" /\ UNCHANGED codeVars
CodeNext ==
  \/ WorkerSteps \/ ProgramCalls \/ MemoryFails
  \/ \E c \in Call : NativeFinishes(c)
  \/ Cancels \/ DeadlinePasses \/ Expires \/ CodeFinished
-----------------------------------------------------------------------------
\* What the native stores for the run is given back exactly once: a call that
\* started is disposed once, and its result is released once or handed over,
\* whatever failed on the way (engine.rs `cleanup`, references.rs).
StorageAccounted ==
  /\ \A c \in Call : codeStored[c].released <= 1 /\ codeStored[c].disposed <= 1
  /\ codeWorker.at = "ended" => \A c \in ToolResult : codeStored[c].released = 0
  /\ codeWorker.at = "ended" => \A c \in Call : codeStored[c].at # "no" =>
           /\ codeStored[c].disposed = 1
           /\ \/ codeStored[c].released = 1 \/ c \in ToolResult
              \/ codeStored[c].kind = "failed"
              \/ signals.cancelled /\ c \in bridge.emitted

\* Receipts reach the native's decoding as content parts only from a run none of
\* whose own receipts it failed to release, and that no child terminated
\* ("a known retained-reference cleanup failure remains fail-closed").
AttachedIsClean ==
  codeWorker.at = "ended" /\ summary.parts # <<>> =>
        /\ ~ bridge.unclean /\ bridge.live /\ bridge.terminal = 0 /\ bridge.selected = 0
        /\ summary.parts = bridge.parts

\* The run ends, also if the program never does, once its
\* deadline passes.
CodeOwed == codeWorker.at # "ended"
CodeMet == codeWorker.at = "ended"
=============================================================================
