-------------------------------- MODULE AskUser --------------------------------
(***************************************************************************)
(* rpi-ask-user: a tool call that shows one to three questions to the      *)
(* user, one dialog of the host at a time, and parks in poll until each is *)
(* answered.  The driver polls, another thread may cancel the call, the    *)
(* user answers or dismisses a dialog, and a question may have a deadline. *)
(***************************************************************************)
EXTENDS Naturals, Sequences

CONSTANTS
  MaxAskItems,     \* questions of one call (3 in the code)
  MaxAskFaults  \* bound on host calls that fail

ASSUME AskConstants == MaxAskItems \in Nat \ {0} /\ MaxAskFaults \in Nat

VARIABLES
  askParams,  \* the call's arguments: defaults and items
  driver,     \* the driver: "new", "polling", "parked", "locked" or an end
  remaining,  \* Drive.remaining
  askPending,    \* Drive.pending: the open dialog, 0 for none
  dialogs,    \* the host's dialogs, in order of opening: [question, status]
  answers,    \* Drive.answers: [question, confirmed]
  cancelFlag, \* the handle's cancelled flag
  canceller,  \* the cancelling thread: "idle", "flagged" or "done"
  started,    \* Drive.started
  askFaults

askVars == <<askParams, driver, remaining, askPending, dialogs, answers, cancelFlag,
             canceller, started, askFaults>>

-----------------------------------------------------------------------------
(* Normalization: an item has a text ("ok", "long" or blank), a timeout    *)
(* (0 is not allowed), and its number of options ("many" is past 20).      *)
Blank == "blank"
AskItems == [text : {"ok", "long", Blank}, timeout : {"none", "zero", "some"}, options : {"none", "some", "many"}]

BareItem == [text |-> Blank, timeout |-> "none", options |-> "some"]
TimedItem == [BareItem EXCEPT !.timeout = "some"]

\* An item falls back to the call's own text and timeout, never to its options.
Inherited(item, defaults) ==
  [text |-> IF item.text = Blank THEN defaults.text ELSE item.text,
   timeout |-> IF item.timeout = "none" THEN defaults.timeout ELSE item.timeout,
   options |-> item.options]

\* normalize_question and parse_options refuse what is left after inheriting.
RefusedQuestion(item, defaults) ==
  LET q == Inherited(item, defaults) IN q.text # "ok" \/ q.timeout = "zero" \/ q.options = "many"

ConfirmQuestion == [text |-> "ok", timeout |-> "none", options |-> "some"]

\* ask: the call is refused as a whole, or has a plan.
Items(params) == IF params.items = <<>> THEN <<params.defaults>> ELSE params.items
AskRefused(params) ==
  IF params.type = "confirm" THEN params.defaults.text = Blank
  ELSE Len(params.items) > MaxAskItems \/ \E i \in DOMAIN Items(params) : RefusedQuestion(Items(params)[i], params.defaults)
Ask(params) ==
  IF params.type = "confirm" THEN <<ConfirmQuestion>>
  ELSE [i \in DOMAIN Items(params) |-> Inherited(Items(params)[i], params.defaults)]

-----------------------------------------------------------------------------
AskFault == askFaults < MaxAskFaults /\ askFaults' = askFaults + 1
EndsAs(outcome) == driver' = outcome

\* cancel_ui_dialog: an answered dialog stays answered.
Closed(ds, d) == IF d # 0 /\ ds[d].status = "pending" THEN [ds EXCEPT ![d].status = "cancelled"] ELSE ds

\* open_next: the next question gets a dialog, when the host has a UI.
OpenNext(rest) ==
  \/ /\ rest # <<>>
     /\ dialogs' = Append(dialogs, [question |-> Head(rest), status |-> "pending"])
     /\ askPending' = Len(dialogs) + 1 /\ remaining' = Tail(rest) /\ EndsAs("parked") /\ UNCHANGED askFaults
  \/ rest # <<>> /\ AskFault /\ remaining' = Tail(rest) /\ askPending' = 0 /\ EndsAs("error") /\ UNCHANGED dialogs
  \/ rest = <<>> /\ remaining' = rest /\ askPending' = 0 /\ EndsAs("done") /\ UNCHANGED <<dialogs, askFaults>>

\* poll takes the handle's lock and looks at the flag.
PollBegins ==
  /\ driver \in {"new", "parked"}
  /\ IF cancelFlag
     THEN EndsAs("cancelled") /\ dialogs' = Closed(dialogs, askPending)
     ELSE EndsAs("locked") /\ UNCHANGED dialogs
  /\ UNCHANGED <<askParams, remaining, askPending, answers, cancelFlag, canceller, started, askFaults>>

\* start_drive.
StartDrive ==
  /\ driver = "locked" /\ ~started /\ started' = TRUE
  /\ \/ AskRefused(askParams) /\ EndsAs("error") /\ UNCHANGED <<remaining, askPending, dialogs, askFaults>>
     \/ ~AskRefused(askParams) /\ OpenNext(Ask(askParams))
  /\ UNCHANGED <<askParams, answers, cancelFlag, canceller>>

AnswerTaken(d) == Append(answers, [question |-> d.question, said |-> d.said])

\* poll_open_question: past the deadline, answered, cancelled, or still waiting.
PollOpenQuestion ==
  /\ driver = "locked" /\ started
  /\ \/ /\ dialogs[askPending].question.timeout = "some"
        /\ dialogs' = Closed(dialogs, askPending) /\ askPending' = 0 /\ EndsAs("error")
        /\ UNCHANGED <<remaining, answers, askFaults>>
     \/ /\ AskFault /\ EndsAs("error") /\ UNCHANGED <<remaining, askPending, dialogs, answers>>
     \/ /\ dialogs[askPending].status = "answered"
        /\ answers' = AnswerTaken(dialogs[askPending]) /\ OpenNext(remaining)
     \/ /\ dialogs[askPending].status = "cancelled" /\ EndsAs("error")
        /\ UNCHANGED <<remaining, askPending, dialogs, answers, askFaults>>
     \/ /\ dialogs[askPending].status = "pending" /\ EndsAs("parked")
        /\ UNCHANGED <<remaining, askPending, dialogs, answers, askFaults>>
  /\ UNCHANGED <<askParams, cancelFlag, canceller, started>>

\* cancel signals first and takes the lock to close the open dialog.
CancelSignals ==
  /\ canceller = "idle" /\ canceller' = "flagged" /\ cancelFlag' = TRUE
  /\ UNCHANGED <<askParams, driver, remaining, askPending, dialogs, answers, started, askFaults>>

CancelCloses ==
  /\ canceller = "flagged" /\ driver # "locked" /\ canceller' = "done"
  /\ dialogs' = Closed(dialogs, askPending)
  /\ UNCHANGED <<askParams, driver, remaining, askPending, answers, cancelFlag, started, askFaults>>

\* The user, through the host.
UserActs ==
  /\ \E d \in DOMAIN dialogs :
       /\ dialogs[d].status = "pending"
       /\ \/ dialogs' = [dialogs EXCEPT ![d] = [question |-> @.question, status |-> "answered", said |-> Len(answers) + 1]]
          \/ dialogs' = [dialogs EXCEPT ![d].status = "cancelled"]
  /\ UNCHANGED <<askParams, driver, remaining, askPending, answers, cancelFlag, canceller, started, askFaults>>

-----------------------------------------------------------------------------
AskInit ==
  /\ askParams \in {[type |-> t, defaults |-> d, items |-> is] :
        t \in {"question", "confirm"}, d \in AskItems,
        is \in UNION {[1..n -> AskItems] : n \in 0..1} \cup {[i \in 1..n |-> IF i = 1 THEN TimedItem ELSE BareItem] : n \in 2..(MaxAskItems + 1)}}
  /\ driver = "new" /\ remaining = <<>> /\ askPending = 0 /\ dialogs = <<>> /\ answers = <<>>
  /\ cancelFlag = FALSE /\ canceller = "idle" /\ started = FALSE /\ askFaults = 0

AskNext == PollBegins \/ StartDrive \/ PollOpenQuestion \/ CancelSignals \/ CancelCloses \/ UserActs

-----------------------------------------------------------------------------
\* A dialog the user sees has a text of 1 to 500 characters, a deadline that
\* can be met and at most 20 options, whichever of its parts it inherited.
AskedValid ==
  \A d \in DOMAIN dialogs :
    LET q == dialogs[d].question IN q.text = "ok" /\ q.timeout # "zero" /\ q.options # "many"

\* Once cancel has returned, no dialog of the call is left open in front of
\* the user and none will be opened, even when poll was opening one meanwhile
\* and is never called again.
NoDialogLeft ==
  canceller = "done" => \A d \in DOMAIN dialogs : dialogs[d].status # "pending"

\* A call that ends well has one answer for every question of its plan, each
\* under the question the user was shown: never one that was made up.
NoMadeUpAnswer ==
  driver = "done" =>
    /\ [i \in DOMAIN answers |-> answers[i].question] = Ask(askParams)
    /\ \A i \in DOMAIN answers : dialogs[i].status = "answered" /\ answers[i].said = dialogs[i].said
=============================================================================
