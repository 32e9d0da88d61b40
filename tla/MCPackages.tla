----------------------------- MODULE MCPackages -----------------------------
(* The agent's packages (message adapter, goal, plan, todo, questions,        *)
(* tracing, voice, durable workflows, code mode, orchestrator, edit,          *)
(* permissions), each on a small instance. They share no state with one       *)
(* another here, so one run checks them side by side: every behaviour is one  *)
(* component's.                                                               *)
EXTENDS ImMessage, Goal, Todo, PlanMode, AskUser, Langfuse, Voice, Durable,
        CodeMode, Orchestrator, Edit, Permissions

VARIABLE active   \* the component whose steps this behaviour is made of

Components == {"im", "imsessions", "goal", "todo", "plan", "ask", "langfuse",
               "talk", "speech", "durable", "code",
               "orchestrator", "match", "diff", "edit", "glob",
               "permissions", "gate", "recorder"}

\* A component that does not run starts in one of its initial states only.
Init ==
  /\ active \in Components
  /\ ImInit
  /\ ImSessionInit
  /\ GoalInit
  /\ active = "goal" \/ (~subagent)
  /\ IF active = "todo" THEN TRUE ELSE here = "main" /\ snapshot = [b \in TodoBranches |-> EmptyTodos]
  /\ TodoInit
  /\ IF active = "plan" THEN TRUE ELSE planHere = "main"
  /\ PlanInit
  /\ IF active = "ask" THEN TRUE ELSE askParams = [type |-> "question", defaults |-> BareItem, items |-> <<>>]
  /\ AskInit
  /\ LangfuseInit
  /\ VoiceInit
  /\ StreamInit
  /\ IF active = "durable" THEN TRUE ELSE topic = "run"
  /\ DurableInit
  /\ CodeInit
  /\ GraphInit
  /\ active = "orchestrator" \/ (graph.session = CHOOSE s \in GraphSession : TRUE)
  /\ IF active = "match" THEN TRUE ELSE raw = <<>>
  /\ MatchInit
  /\ DiffInit
  /\ EditInit
  /\ active = "edit" \/ (inode["x"] = 1 /\ inode["y"] = 2)
  /\ IF active = "glob" THEN TRUE ELSE pattern = <<>> /\ target = <<>>
  /\ GlobInit
  /\ IF active = "permissions" THEN TRUE ELSE policy = Rules({}, {})
  /\ RulesInit
  /\ GateInit
  /\ active = "gate" \/ (~gate.bypass /\ ~gate.enabled)
  /\ IF active = "recorder" THEN TRUE ELSE warmup = 0
  /\ RecorderInit

OthersRest ==
  /\ UNCHANGED active
  /\ IF active = "im" THEN TRUE ELSE UNCHANGED imVars
  /\ IF active = "imsessions" THEN TRUE ELSE UNCHANGED imSessionVars
  /\ IF active = "goal" THEN TRUE ELSE UNCHANGED goalVars
  /\ IF active = "todo" THEN TRUE ELSE UNCHANGED todoVars
  /\ IF active = "plan" THEN TRUE ELSE UNCHANGED planVars
  /\ IF active = "ask" THEN TRUE ELSE UNCHANGED askVars
  /\ IF active = "langfuse" THEN TRUE ELSE UNCHANGED langfuseVars
  /\ IF active = "talk" THEN TRUE ELSE UNCHANGED voiceVars
  /\ IF active = "speech" THEN TRUE ELSE UNCHANGED streamVars
  /\ IF active = "durable" THEN TRUE ELSE UNCHANGED durableVars
  /\ IF active = "code" THEN TRUE ELSE UNCHANGED codeVars
  /\ IF active = "orchestrator" THEN TRUE ELSE UNCHANGED graphVars
  /\ IF active = "match" THEN TRUE ELSE UNCHANGED matchVars
  /\ IF active = "diff" THEN TRUE ELSE UNCHANGED diffVars
  /\ IF active = "edit" THEN TRUE ELSE UNCHANGED editVars
  /\ IF active = "glob" THEN TRUE ELSE UNCHANGED globVars
  /\ IF active = "permissions" THEN TRUE ELSE UNCHANGED ruleVars
  /\ IF active = "gate" THEN TRUE ELSE UNCHANGED gateVars
  /\ IF active = "recorder" THEN TRUE ELSE UNCHANGED recorderVars

Next ==
  /\ \/ active = "im" /\ ImNext
     \/ active = "imsessions" /\ ImSessionNext
     \/ active = "goal" /\ GoalNext
     \/ active = "todo" /\ TodoNext
     \/ active = "plan" /\ PlanNext
     \/ active = "ask" /\ AskNext
     \/ active = "langfuse" /\ LangfuseNext
     \/ active = "talk" /\ VoiceNext
     \/ active = "speech" /\ StreamNext
     \/ active = "durable" /\ DurableNext
     \/ active = "code" /\ CodeNext
     \/ active = "orchestrator" /\ GraphNext
     \/ active = "match" /\ MatchNext
     \/ active = "diff" /\ DiffNext
     \/ active = "edit" /\ EditNext
     \/ active = "glob" /\ GlobNext
     \/ active = "permissions" /\ RulesNext
     \/ active = "gate" /\ GateNext
     \/ active = "recorder" /\ RecorderNext
  /\ OthersRest

\* Files with what the fuzzy view rewrites: ligatures, quotes, combining marks,
\* trailing blanks, a byte order mark and both line endings.
ContentChars == {"a", "ligature", "curly", "mark", " ", "\n"}
EditedTexts ==
  UNION {[1..n -> ContentChars] : n \in 0..3}
    \cup [1..4 -> {"ligature", " "}]
    \cup {<<"bom", "a", "\r", "\n", "b">>, <<"a", "\n", "b", "\r", "\n", "curly">>}
OldTexts == {<<"a">>, <<"b">>, <<"quote">>, <<"a", "\n">>, <<"\n", "a">>, <<"accented">>,
             <<"quote", "a">>, <<"a", " ">>}
EditOf(old, new, all) == [old |-> old, new |-> new, all |-> all]
EditRequestsTried ==
  {<<EditOf(o, n, r)>> : o \in OldTexts, n \in {<<>>, <<"b">>, <<"\n">>}, r \in BOOLEAN}
    \cup {<<EditOf(o, <<"b">>, TRUE), EditOf(p, n, TRUE)>> :
            o \in {<<"a">>, <<"quote">>, <<"quote", "a">>},
            p \in {<<"b">>, <<"accented">>, <<"quote">>, <<"a", "\n">>}, n \in {<<>>, <<"a">>}}

\* Short patterns and values, of letters and the star itself.
GlobTexts(n) == UNION {[1..k -> {"a", "b", "*"}] : k \in 0..n}
GlobPatterns == GlobTexts(4)
GlobTargets == GlobTexts(3) \cup [1..4 -> {"a", "b"}]


\* What a package keeps, what it persists and what it tells agree: goals,
\* tasks, plan modes and questions with their branch and dialogs, spans with
\* their export, the floor and the reply with what is recorded and spoken,
\* journals with the state they rebuild, stored results with what a program
\* may use, a chat's replies with its own session and their tools, graph nodes
\* with the wave that runs them.
StateIsOneStory ==
  /\ active = "im" => /\ ScopeIsOwn
                      /\ OneMessagePerTool
                      /\ ReplyComesLast
                      /\ StoppedIsIdle
  /\ active = "imsessions" => /\ NewIsKept
                              /\ RepliesInOwnSession
  /\ active = "goal" => PendingIsNewest
  /\ active = "todo" => TodoIdsUnique
  /\ active = "plan" => ToolsFollowMode
  /\ active = "ask" => /\ AskedValid
                       /\ NoDialogLeft
                       /\ NoMadeUpAnswer
  /\ active = "langfuse" => /\ ExportedOnce
                            /\ RootLast
                            /\ ChildrenEndFirst
                            /\ UsageAddsUp
  /\ active = "talk" => /\ PressRemembered
                        /\ SentWasReleased
                        /\ NoRunawayMic
  /\ active = "speech" => SpokenInOrder
  /\ active = "durable" => /\ JournalReadable
                           /\ JournalIsState
                           /\ CoreAgrees
  /\ active = "code" => /\ StorageAccounted
                        /\ AttachedIsClean
  /\ active = "orchestrator" => /\ RunningHasWave
                                /\ ResultIsOwn
  /\ active = "recorder" => /\ WaitIsWhole
                            /\ PauseIsWhole
                            /\ BurstIsNoUtterance
                            /\ SpeakerIsHeard

\* Edits and permissions: an edit replaces what it matched and nothing else,
\* whatever its order, edits of concurrent calls are not lost, a file is never
\* partial; a rule matches what its wildcards say, the rule store is whole
\* with one effect per call, and a held tool call runs only when the user
\* allowed this one.
FilesAndRulesHold ==
  /\ active = "match" => /\ ReplacedIsWhatMatched
                         /\ UntouchedLinesKept
                         /\ OrderIrrelevant
                         /\ SpansAreApart
  /\ active = "diff" => NumbersAreTrueWithoutBlanks
  /\ active = "edit" => /\ NoEditIsLost
                        /\ OutsideLostOnlyUnseen
                        /\ NeverPartial
                        /\ NoTempLeft
  /\ active = "glob" => GlobIsWildcardOnPlain
  /\ active = "permissions" => /\ StoreIsWhole
                               /\ OneEffect
                               /\ FallbackRulesKept
  /\ active = "gate" => RunsOnlyWhenAllowed

\* What a step may never do: answer with tasks of another branch, leave a
\* reply unspoken when it ends, or end a wave with the graph unchanged.
StepsKeepTheirWord ==
  /\ AnswersBranch
  /\ SpokenToTheEnd
  /\ WaveLeavesProgress
=============================================================================
