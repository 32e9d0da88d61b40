---------------------------- MODULE ServiceProofs ----------------------------
(* Theorems about the parts of the session service beside the host: the       *)
(* native command line, the release of idle hosts, the two call bridges and   *)
(* the resource transitions, each for every value of its constants.           *)
EXTENDS ResourceTransition, CallBridge, IdleRelease, NativeCli,
        TLAPS, FiniteSetTheorems, NaturalsInduction,
        WellFoundedInduction

-----------------------------------------------------------------------------
(* The native command line.                                                   *)

CliJobs == [kind : {"read", "manage"}, run : {"help", "profile", "work"},
            at : {"idle", "spawns", "waits", "stops", "reads", "parses",
                  "locks", "leased"},
            locked : BOOLEAN, bytes : Nat, page : Nat]

CliTrees == [leader : {"none", "runs", "exited"}, rest : BOOLEAN]
CliAnswers == [ok : BOOLEAN, page : Nat]
CliHistories == [version : Nat, writer : BOOLEAN, lockFile : BOOLEAN]

CliTyped ==
    /\ cliJob \in CliJobs /\ tree \in CliTrees /\ answer \in CliAnswers
    /\ history \in CliHistories
    /\ spool \in Nat /\ cliJobs \in Nat

\* A process of the program exists only between its start and the stop of its
\* tree.
TreeOwned ==
    /\ cliJob.at \notin {"waits", "stops"} => tree = NoTree
    /\ cliJob.at = "waits" => tree.leader \in {"runs", "exited"}
    /\ cliJob.at = "stops" => tree.leader = "exited"

\* The lock a saved read holds keeps writers out, from before the program runs
\* on the session's file.
LockHeld ==
    /\ cliJob.locked => ~history.writer
    /\ cliJob.at = "leased" \/ (cliJob.kind = "read" /\ cliJob.run = "work"
                                /\ cliJob.at # "locks") => cliJob.locked

\* What the program said under the lock is still so.
AnswerCurrent ==
    /\ /\ cliJob.locked
       /\ \/ cliJob.at = "waits" /\ tree.leader = "exited"
          \/ cliJob.at \in {"stops", "reads", "parses"}
       => answer.page = history.version
    /\ LeaseIsCurrent

CliInv == /\ CliTyped /\ TreeOwned /\ LockHeld /\ AnswerCurrent
          /\ NoJobLeftBehind /\ AnswerIsWhole

LEMMA CliStarts == CliInit => CliInv
<1> SUFFICES ASSUME CliInit PROVE CliInv
  OBVIOUS
<1>1. cliJob \in CliJobs
  BY DEF CliInit, CliJobs, NoJob
<1>2. history \in CliHistories
  <2>1. \A V, W, L : \A h \in [version : V, writer : W, lockFile : L] :
            /\ h = [version |-> h.version, writer |-> h.writer, lockFile |-> h.lockFile]
            /\ h.version \in V /\ h.writer \in W /\ h.lockFile \in L
    OBVIOUS
  <2>2. \A b \in BOOLEAN :
            [version |-> 0, writer |-> FALSE, lockFile |-> b] \in CliHistories
    BY DEF CliHistories
  <2>3. history \in [version : {0}, writer : {FALSE}, lockFile : BOOLEAN]
    BY DEF CliInit
  <2>4. /\ history = [version |-> history.version, writer |-> history.writer,
                      lockFile |-> history.lockFile]
        /\ history.version \in {0} /\ history.writer \in {FALSE}
        /\ history.lockFile \in BOOLEAN
    BY <2>1, <2>3
  <2> QED BY <2>2, <2>4
<1>3. tree \in CliTrees /\ answer \in CliAnswers
  BY DEF CliInit, CliTrees, CliAnswers, NoTree, CliNoAnswer
<1>4. CliTyped
  BY <1>1, <1>2, <1>3 DEF CliInit, CliTyped
<1>5. TreeOwned /\ LockHeld /\ AnswerCurrent /\ NoJobLeftBehind /\ AnswerIsWhole
  BY DEF CliInit, TreeOwned, LockHeld, AnswerCurrent,
         NoJobLeftBehind, AnswerIsWhole, LeaseIsCurrent, NoJob
<1> QED BY <1>4, <1>5 DEF CliInv

LEMMA CliStays == CliInv /\ [CliNext]_cliVars => CliInv'
<1> SUFFICES ASSUME CliInv, [CliNext]_cliVars PROVE CliInv'
  OBVIOUS
<1> DEFINE Rest == TreeOwned /\ LockHeld /\ AnswerCurrent /\ NoJobLeftBehind /\ AnswerIsWhole
<1>a. CliTyped /\ Rest
  BY DEF CliInv
<1> USE DEF TreeOwned, LockHeld, AnswerCurrent, NoJobLeftBehind, AnswerIsWhole,
            LeaseIsCurrent, NoTree
<1>1. CASE GivesBack /\ UNCHANGED <<history, cliJobs>>
  <2>1. cliJob' \in CliJobs
    BY <1>a, <1>1 DEF CliTyped, CliJobs, GivesBack, NoJob
  <2>2. tree' \in CliTrees /\ answer' \in CliAnswers
    BY <1>a, <1>1 DEF CliTyped, CliTrees, CliAnswers, CliHistories, GivesBack, NoJob, CliNoAnswer
  <2>3. history' \in CliHistories
    BY <1>a, <1>1 DEF CliTyped, CliHistories, GivesBack, NoJob
  <2>4. CliTyped'
    BY <1>a, <1>1, <2>1, <2>2, <2>3 DEF CliTyped, GivesBack, NoJob
  <2>5. Rest'
    BY <1>a, <1>1 DEF CliTyped, CliJobs, CliTrees, CliAnswers, CliHistories, GivesBack, NoJob, CliNoAnswer
  <2> QED BY <2>4, <2>5 DEF CliInv
<1>2. CASE \E k \in {"read", "manage"} : JobBegins(k)
  <2>1. cliJob' \in CliJobs
    <3>1. PICK k \in {"read", "manage"} : JobBegins(k)
      BY <1>2
    <3>2. cliJob' = [kind |-> k, run |-> "help", at |-> "spawns", locked |-> FALSE,
                     bytes |-> 0, page |-> 0]
      BY <3>1 DEF JobBegins, NoJob
    <3> QED BY <3>2 DEF CliJobs
  <2>2. tree' \in CliTrees /\ answer' \in CliAnswers
    BY <1>a, <1>2 DEF CliTyped, CliTrees, CliAnswers, CliHistories, JobBegins, NoJob
  <2>3. history' \in CliHistories
    BY <1>a, <1>2 DEF CliTyped, CliHistories, JobBegins, NoJob
  <2>4. CliTyped'
    BY <1>a, <1>2, <2>1, <2>2, <2>3 DEF CliTyped, JobBegins, NoJob
  <2>5. Rest'
    BY <1>a, <1>2 DEF CliTyped, CliJobs, CliTrees, CliAnswers, CliHistories, JobBegins, NoJob
  <2> QED BY <2>4, <2>5 DEF CliInv
<1>3. CASE Spawns /\ ~GivesBack
  <2>1. cliJob' \in CliJobs
    BY <1>a, <1>3 DEF CliTyped, CliJobs, Spawns, CliStep
  <2>a. tree' = [leader |-> "runs", rest |-> FALSE] /\ answer' = CliNoAnswer
    BY <1>3 DEF Spawns
  <2>2. tree' \in CliTrees /\ answer' \in CliAnswers
    BY <2>a DEF CliTrees, CliAnswers, CliNoAnswer
  <2>3. history' \in CliHistories
    BY <1>a, <1>3 DEF CliTyped, CliHistories, Spawns, CliStep
  <2>4. CliTyped'
    BY <1>a, <1>3, <2>1, <2>2, <2>3 DEF CliTyped, Spawns, CliStep
  <2>5. Rest'
    BY <1>a, <1>3 DEF CliTyped, CliJobs, CliTrees, CliAnswers, CliHistories, Spawns, CliStep, CliNoAnswer
  <2> QED BY <2>4, <2>5 DEF CliInv
<1>4. CASE ProgramWrites
  <2>1. cliJob' \in CliJobs
    BY <1>a, <1>4 DEF CliTyped, CliJobs, ProgramWrites
  <2>2. tree' \in CliTrees /\ answer' \in CliAnswers
    BY <1>a, <1>4 DEF CliTyped, CliTrees, CliAnswers, CliHistories, ProgramWrites
  <2>3. history' \in CliHistories
    BY <1>a, <1>4 DEF CliTyped, CliHistories, ProgramWrites
  <2>4. CliTyped'
    BY <1>a, <1>4, <2>1, <2>2, <2>3 DEF CliTyped, ProgramWrites
  <2>5. Rest'
    BY <1>a, <1>4 DEF CliTyped, CliJobs, CliTrees, CliAnswers, CliHistories, ProgramWrites
  <2> QED BY <2>4, <2>5 DEF CliInv
<1>5. CASE ProgramForks
  <2>1. cliJob' \in CliJobs
    BY <1>a, <1>5 DEF CliTyped, CliJobs, ProgramForks
  <2>2. tree' \in CliTrees /\ answer' \in CliAnswers
    BY <1>a, <1>5 DEF CliTyped, CliTrees, CliAnswers, CliHistories, ProgramForks
  <2>3. history' \in CliHistories
    BY <1>a, <1>5 DEF CliTyped, CliHistories, ProgramForks
  <2>4. CliTyped'
    BY <1>a, <1>5, <2>1, <2>2, <2>3 DEF CliTyped, ProgramForks
  <2>5. Rest'
    BY <1>a, <1>5 DEF CliTyped, CliJobs, CliTrees, CliAnswers, CliHistories, ProgramForks
  <2> QED BY <2>4, <2>5 DEF CliInv
<1>6. CASE \E ok \in BOOLEAN : ProgramExits(ok)
  <2>1. cliJob' \in CliJobs
    BY <1>a, <1>6 DEF CliTyped, CliJobs, ProgramExits
  <2>2. tree' \in CliTrees /\ answer' \in CliAnswers
    BY <1>a, <1>6 DEF CliTyped, CliTrees, CliAnswers, CliHistories, ProgramExits
  <2>3. history' \in CliHistories
    BY <1>a, <1>6 DEF CliTyped, CliHistories, ProgramExits
  <2>4. CliTyped'
    BY <1>a, <1>6, <2>1, <2>2, <2>3 DEF CliTyped, ProgramExits
  <2>5. Rest'
    BY <1>a, <1>6 DEF CliTyped, CliJobs, CliTrees, CliAnswers, CliHistories, ProgramExits
  <2> QED BY <2>4, <2>5 DEF CliInv
<1>7. CASE SeesExit
  <2>1. cliJob' \in CliJobs
    BY <1>a, <1>7 DEF CliTyped, CliJobs, SeesExit, CliStep
  <2>2. tree' \in CliTrees /\ answer' \in CliAnswers
    BY <1>a, <1>7 DEF CliTyped, CliTrees, CliAnswers, CliHistories, SeesExit, CliStep
  <2>3. history' \in CliHistories
    BY <1>a, <1>7 DEF CliTyped, CliHistories, SeesExit, CliStep
  <2>4. CliTyped'
    BY <1>a, <1>7, <2>1, <2>2, <2>3 DEF CliTyped, SeesExit, CliStep
  <2>5. Rest'
    BY <1>a, <1>7 DEF CliTyped, CliJobs, CliTrees, CliAnswers, CliHistories, SeesExit, CliStep
  <2> QED BY <2>4, <2>5 DEF CliInv
<1>8. CASE StopsTree
  <2>1. cliJob' \in CliJobs
    BY <1>a, <1>8 DEF CliTyped, CliJobs, StopsTree, CliStep, TreeAfterStop
  <2>2. tree' \in CliTrees /\ answer' \in CliAnswers
    BY <1>a, <1>8 DEF CliTyped, CliTrees, CliAnswers, CliHistories, StopsTree, CliStep, TreeAfterStop
  <2>3. history' \in CliHistories
    BY <1>a, <1>8 DEF CliTyped, CliHistories, StopsTree, CliStep, TreeAfterStop
  <2>4. CliTyped'
    BY <1>a, <1>8, <2>1, <2>2, <2>3 DEF CliTyped, StopsTree, CliStep, TreeAfterStop
  <2>5. Rest'
    BY <1>a, <1>8 DEF CliTyped, CliJobs, CliTrees, CliAnswers, CliHistories, StopsTree, CliStep, TreeAfterStop
  <2> QED BY <2>4, <2>5 DEF CliInv
<1>9. CASE ReadsBack
  <2>1. cliJob' \in CliJobs
    BY <1>a, <1>9, CliAssumption DEF CliTyped, CliJobs, ReadsBack, Limit
  <2>2. tree' \in CliTrees /\ answer' \in CliAnswers
    BY <1>a, <1>9 DEF CliTyped, CliTrees, CliAnswers, CliHistories, ReadsBack, Limit
  <2>3. history' \in CliHistories
    BY <1>a, <1>9 DEF CliTyped, CliHistories, ReadsBack, Limit
  <2>4. CliTyped'
    BY <1>a, <1>9, <2>1, <2>2, <2>3 DEF CliTyped, ReadsBack, Limit
  <2>5. Rest'
    BY <1>a, <1>9, CliAssumption DEF CliTyped, CliJobs, CliTrees, CliAnswers, CliHistories, ReadsBack, Limit
  <2> QED BY <2>4, <2>5 DEF CliInv
<1>10. CASE Negotiated /\ ~GivesBack
  <2>1. cliJob' \in CliJobs
    BY <1>a, <1>10 DEF CliTyped, CliJobs, Negotiated
  <2>2. tree' \in CliTrees /\ answer' \in CliAnswers
    BY <1>a, <1>10 DEF CliTyped, CliTrees, CliAnswers, CliHistories, Negotiated
  <2>3. history' \in CliHistories
    BY <1>a, <1>10 DEF CliTyped, CliHistories, Negotiated
  <2>4. CliTyped'
    BY <1>a, <1>10, <2>1, <2>2, <2>3 DEF CliTyped, Negotiated
  <2>5. Rest'
    BY <1>a, <1>10, ZenonT(60) DEF CliTyped, CliJobs, CliTrees, CliAnswers, CliHistories, Negotiated
  <2> QED BY <2>4, <2>5 DEF CliInv
<1>11. CASE Locks /\ ~GivesBack
  <2>1. cliJob' \in CliJobs
    BY <1>a, <1>11, ZenonT(60) DEF CliTyped, CliJobs, Locks
  <2>2. tree' \in CliTrees /\ answer' \in CliAnswers
    BY <1>a, <1>11 DEF CliTyped, CliTrees, CliAnswers, CliHistories, Locks
  <2>3. history' \in CliHistories
    BY <1>a, <1>11 DEF CliTyped, CliHistories, Locks
  <2>4. CliTyped'
    BY <1>a, <1>11, <2>1, <2>2, <2>3 DEF CliTyped, Locks
  <2>5. Rest'
    BY <1>a, <1>11, ZenonT(60) DEF CliTyped, CliJobs, CliTrees, CliAnswers, CliHistories, Locks
  <2> QED BY <2>4, <2>5 DEF CliInv
<1>12. CASE SavedAnswered /\ ~GivesBack
  <2>a. cliJob' = CliLeased /\ tree' = tree /\ answer' = CliNoAnswer
    BY <1>12 DEF SavedAnswered
  <2>1. cliJob' \in CliJobs
    BY <1>a, <2>a DEF CliTyped, CliJobs, CliLeased, CliAnswers
  <2>2. tree' \in CliTrees /\ answer' \in CliAnswers
    BY <1>a, <2>a DEF CliTyped, CliAnswers, CliNoAnswer
  <2>3. history' \in CliHistories
    BY <1>a, <1>12 DEF CliTyped, CliHistories, SavedAnswered, CliLeased
  <2>4. CliTyped'
    BY <1>a, <1>12, <2>1, <2>2, <2>3 DEF CliTyped, SavedAnswered, CliLeased
  <2>5. Rest'
    BY <1>a, <1>12 DEF CliTyped, CliJobs, CliTrees, CliAnswers, CliHistories, SavedAnswered, CliLeased, CliNoAnswer
  <2> QED BY <2>4, <2>5 DEF CliInv
<1>13. CASE WriterOpens \/ WriterWrites \/ WriterCloses
  <2>1. cliJob' \in CliJobs
    BY <1>a, <1>13 DEF CliTyped, CliJobs, WriterOpens, WriterWrites, WriterCloses
  <2>2. tree' \in CliTrees /\ answer' \in CliAnswers
    BY <1>a, <1>13 DEF CliTyped, CliTrees, CliAnswers, CliHistories, WriterOpens, WriterWrites, WriterCloses
  <2>3. history' \in CliHistories
    <3>1. CASE WriterOpens
      BY <1>a, <3>1 DEF CliTyped, CliHistories, WriterOpens
    <3>2. CASE WriterWrites
      BY <1>a, <3>2 DEF CliTyped, CliHistories, WriterWrites
    <3>3. CASE WriterCloses
      BY <1>a, <3>3 DEF CliTyped, CliHistories, WriterCloses
    <3> QED BY <1>13, <3>1, <3>2, <3>3
  <2>4. CliTyped'
    BY <1>a, <1>13, <2>1, <2>2, <2>3 DEF CliTyped, WriterOpens, WriterWrites, WriterCloses
  <2>5. Rest'
    BY <1>a, <1>13 DEF CliTyped, CliJobs, CliTrees, CliAnswers, CliHistories, WriterOpens, WriterWrites, WriterCloses
  <2> QED BY <2>4, <2>5 DEF CliInv
<1>14. CASE UNCHANGED cliVars
  <2>1. cliJob' \in CliJobs
    BY <1>a, <1>14 DEF CliTyped, CliJobs, cliVars
  <2>2. tree' \in CliTrees /\ answer' \in CliAnswers
    BY <1>a, <1>14 DEF CliTyped, CliTrees, CliAnswers, CliHistories, cliVars
  <2>3. history' \in CliHistories
    BY <1>a, <1>14 DEF CliTyped, CliHistories, cliVars
  <2>4. CliTyped'
    BY <1>a, <1>14, <2>1, <2>2, <2>3 DEF CliTyped, cliVars
  <2>5. Rest'
    BY <1>a, <1>14 DEF CliTyped, CliJobs, CliTrees, CliAnswers, CliHistories, cliVars
  <2> QED BY <2>4, <2>5 DEF CliInv
<1> QED
  BY <1>1, <1>2, <1>3, <1>4, <1>5, <1>6, <1>7, <1>8, <1>9, <1>10, <1>11, <1>12, <1>13, <1>14
     DEF CliNext, CliSteps, Spawns, OverLimit, CliDeadlinePasses, Negotiated, Locks,
         SavedAnswered, ManagementAnswered, LeaseDropped

-----------------------------------------------------------------------------
(* The release of idle hosts.                                                 *)

Owners == [step : {"free", "fence", "capture", "exit", "cli", "guard"},
           scope : {"project", "global"}, todo : SUBSET Sess]

RelTyped ==
    /\ lockOwner \in Owners
    /\ picked \subseteq Sess /\ fences \subseteq Sess /\ entry \subseteq Sess
    /\ ready \subseteq entry /\ gone \subseteq entry /\ busy \subseteq ready
    /\ alive \in [Sess -> {0, 1}]
    /\ setting \in [Sess -> {0, 1}] /\ captured \in [Sess -> {0, 1}]
    /\ storageFailed \subseteq Sess

\* A host that left the map has no child; one that is retired no run, and its
\* settings are in the record.
HostsKnown ==
    /\ \A s \in Sess \ entry : alive[s] = 0
    /\ CaptureIsLast

\* What each step of a release has left to do, and has established of the rest.
OwnerKnows ==
    /\ lockOwner.step = "free" => lockOwner = NoOwner
    /\ lockOwner.step \in {"fence", "capture", "exit"} =>
         /\ picked \subseteq fences
         /\ InScope(lockOwner.scope) \subseteq picked \cup lockOwner.todo
    /\ lockOwner.step \in {"capture", "exit"} =>
         /\ InScope(lockOwner.scope) \subseteq picked
         /\ lockOwner.todo \subseteq picked
         /\ \A s \in picked \ lockOwner.todo : captured[s] = setting[s] /\ s \notin busy
    /\ lockOwner.step \in {"fence", "capture"} => picked \subseteq entry /\ picked \cap gone = {}
    /\ lockOwner.step = "exit" => /\ lockOwner.todo \subseteq gone
                                 /\ InScope(lockOwner.scope) \subseteq lockOwner.todo
                                 /\ lockOwner.todo \cap storageFailed = {}

RelInv == RelTyped /\ HostsKnown /\ OwnerKnows

LEMMA ReleaseStarts == ReleaseInit => RelInv
<1> SUFFICES ASSUME ReleaseInit PROVE RelInv
  OBVIOUS
<1>1. lockOwner \in Owners
  BY DEF ReleaseInit, Owners, NoOwner
<1> QED
  BY <1>1 DEF ReleaseInit, RelInv, RelTyped, HostsKnown, CaptureIsLast, OwnerKnows, NoOwner

LEMMA ReleaseStays == RelInv /\ [ReleaseNext]_relVars => RelInv'
<1> SUFFICES ASSUME RelInv, [ReleaseNext]_relVars PROVE RelInv'
  OBVIOUS
<1>a. RelTyped /\ HostsKnown /\ OwnerKnows
  BY DEF RelInv
<1>1. ASSUME NEW s \in Sess, RunBegins(s) PROVE RelInv'
  <2>1. lockOwner' \in Owners
    BY <1>a, <1>1 DEF RelTyped, Owners, NoOwner, InScope, hostVars, RunBegins
  <2>2. RelTyped'
    BY <1>a, <1>1, <2>1 DEF RelTyped, hostVars, RunBegins
  <2>3. HostsKnown'
    BY <1>a, <1>1 DEF RelTyped, HostsKnown, CaptureIsLast, OwnerKnows, Owners, hostVars, RunBegins
  <2>4. OwnerKnows'
    BY <1>a, <1>1 DEF RelTyped, OwnerKnows, Owners, NoOwner, InScope, hostVars, RunBegins
  <2> QED BY <2>2, <2>3, <2>4 DEF RelInv
<1>2. ASSUME NEW s \in Sess, RunEnds(s) PROVE RelInv'
  <2>1. lockOwner' \in Owners
    BY <1>a, <1>2 DEF RelTyped, Owners, NoOwner, InScope, hostVars, RunEnds
  <2>2. RelTyped'
    BY <1>a, <1>2, <2>1 DEF RelTyped, hostVars, RunEnds
  <2>3. HostsKnown'
    BY <1>a, <1>2 DEF RelTyped, HostsKnown, CaptureIsLast, OwnerKnows, Owners, hostVars, RunEnds
  <2>4. OwnerKnows'
    BY <1>a, <1>2 DEF RelTyped, OwnerKnows, Owners, NoOwner, InScope, hostVars, RunEnds
  <2> QED BY <2>2, <2>3, <2>4 DEF RelInv
<1>3. ASSUME NEW s \in Sess, SettingChanges(s) PROVE RelInv'
  <2>1. lockOwner' \in Owners
    BY <1>a, <1>3 DEF RelTyped, Owners, NoOwner, InScope, hostVars, SettingChanges
  <2>2. RelTyped'
    BY <1>a, <1>3, <2>1 DEF RelTyped, hostVars, SettingChanges
  <2>3. HostsKnown'
    BY <1>a, <1>3 DEF RelTyped, HostsKnown, CaptureIsLast, OwnerKnows, Owners, hostVars, SettingChanges
  <2>4. OwnerKnows'
    BY <1>a, <1>3 DEF RelTyped, OwnerKnows, Owners, NoOwner, InScope, hostVars, SettingChanges
  <2> QED BY <2>2, <2>3, <2>4 DEF RelInv
<1>4. ASSUME NEW s \in Sess, ChildDies(s) PROVE RelInv'
  <2>1. lockOwner' \in Owners
    BY <1>a, <1>4 DEF RelTyped, Owners, NoOwner, InScope, hostVars, ChildDies
  <2>2. RelTyped'
    BY <1>a, <1>4, <2>1 DEF RelTyped, hostVars, ChildDies
  <2>3. HostsKnown'
    BY <1>a, <1>4 DEF RelTyped, HostsKnown, CaptureIsLast, OwnerKnows, Owners, hostVars, ChildDies
  <2>4. OwnerKnows'
    BY <1>a, <1>4 DEF RelTyped, OwnerKnows, Owners, NoOwner, InScope, hostVars, ChildDies
  <2> QED BY <2>2, <2>3, <2>4 DEF RelInv
<1>5. ASSUME NEW s \in Sess, OpenSession(s) PROVE RelInv'
  <2>1. lockOwner' \in Owners
    BY <1>a, <1>5 DEF RelTyped, Owners, NoOwner, InScope, hostVars, OpenSession
  <2>2. RelTyped'
    BY <1>a, <1>5, <2>1 DEF RelTyped, HostsKnown, CaptureIsLast, OwnerKnows, Owners, hostVars, OpenSession
  <2>3. HostsKnown'
    BY <1>a, <1>5 DEF RelTyped, HostsKnown, CaptureIsLast, OwnerKnows, Owners, hostVars, OpenSession
  <2>4. OwnerKnows'
    BY <1>a, <1>5 DEF RelTyped, OwnerKnows, Owners, NoOwner, InScope, hostVars, OpenSession
  <2> QED BY <2>2, <2>3, <2>4 DEF RelInv
<1>6. ASSUME NEW s \in Sess, FenceNext(s) PROVE RelInv'
  <2>1. lockOwner' \in Owners
    BY <1>a, <1>6 DEF RelTyped, Owners, NoOwner, InScope, hostVars, FenceNext, Fenceable, ProvenIdle, ReleaseEnds
  <2>2. RelTyped'
    BY <1>a, <1>6, <2>1 DEF RelTyped, hostVars, FenceNext, Fenceable, ProvenIdle, ReleaseEnds
  <2>3. HostsKnown'
    BY <1>a, <1>6 DEF RelTyped, HostsKnown, CaptureIsLast, OwnerKnows, Owners, hostVars, FenceNext, Fenceable, ProvenIdle, ReleaseEnds
  <2>4. OwnerKnows'
    BY <1>a, <1>6 DEF RelTyped, OwnerKnows, Owners, NoOwner, InScope, hostVars, FenceNext, Fenceable, ProvenIdle, ReleaseEnds
  <2> QED BY <2>2, <2>3, <2>4 DEF RelInv
<1>7. ASSUME NEW s \in Sess, CaptureNext(s) PROVE RelInv'
  <2>1. lockOwner' \in Owners
    BY <1>a, <1>7 DEF RelTyped, Owners, NoOwner, InScope, hostVars, CaptureNext, ProvenIdle, ReleaseEnds
  <2>2. RelTyped'
    BY <1>a, <1>7, <2>1 DEF RelTyped, hostVars, CaptureNext, ProvenIdle, ReleaseEnds
  <2>3. HostsKnown'
    BY <1>a, <1>7 DEF RelTyped, HostsKnown, CaptureIsLast, OwnerKnows, Owners, hostVars, CaptureNext, ProvenIdle, ReleaseEnds
  <2>4. OwnerKnows'
    BY <1>a, <1>7 DEF RelTyped, OwnerKnows, Owners, NoOwner, InScope, hostVars, CaptureNext, ProvenIdle, ReleaseEnds
  <2> QED BY <2>2, <2>3, <2>4 DEF RelInv
<1>8. ASSUME NEW s \in Sess, ExitMissed(s) PROVE RelInv'
  <2>1. lockOwner' \in Owners
    BY <1>a, <1>8 DEF RelTyped, Owners, NoOwner, InScope, hostVars, ExitMissed, ReleaseEnds
  <2>2. RelTyped'
    BY <1>a, <1>8, <2>1 DEF RelTyped, hostVars, ExitMissed, ReleaseEnds
  <2>3. HostsKnown'
    BY <1>a, <1>8 DEF RelTyped, HostsKnown, CaptureIsLast, OwnerKnows, Owners, hostVars, ExitMissed, ReleaseEnds
  <2>4. OwnerKnows'
    BY <1>a, <1>8 DEF RelTyped, OwnerKnows, Owners, NoOwner, InScope, hostVars, ExitMissed, ReleaseEnds
  <2> QED BY <2>2, <2>3, <2>4 DEF RelInv
<1>9. ASSUME NEW s \in Sess, ExitConfirmed(s) PROVE RelInv'
  <2>1. lockOwner' \in Owners
    BY <1>a, <1>9 DEF RelTyped, Owners, NoOwner, InScope, hostVars, ExitConfirmed
  <2>2. RelTyped'
    BY <1>a, <1>9, <2>1 DEF RelTyped, HostsKnown, CaptureIsLast, OwnerKnows, Owners, hostVars, ExitConfirmed
  <2>3. HostsKnown'
    BY <1>a, <1>9 DEF RelTyped, HostsKnown, CaptureIsLast, OwnerKnows, Owners, hostVars, ExitConfirmed
  <2>4. OwnerKnows'
    <3>1. /\ lockOwner.step = "exit" /\ lockOwner'.step = "exit"
          /\ lockOwner'.scope = lockOwner.scope
          /\ lockOwner'.todo = lockOwner.todo \ {s}
      BY <1>a, <1>9 DEF RelTyped, Owners, ExitConfirmed
    <3>2. /\ entry' = entry \ {s} /\ gone' = gone \ {s}
          /\ UNCHANGED <<picked, fences, busy, setting, captured, storageFailed>>
      BY <1>9 DEF ExitConfirmed
    <3>3. InScope(lockOwner.scope)' = InScope(lockOwner.scope) \ {s}
      BY <3>1, <3>2 DEF InScope
    <3>4. s \in gone /\ captured[s] = setting[s] /\ s \notin busy
          /\ lockOwner.todo \cap storageFailed = {}
      BY <1>a, <1>9 DEF ExitConfirmed, OwnerKnows, HostsKnown, CaptureIsLast
    <3>5. /\ picked \subseteq fences /\ lockOwner.todo \subseteq picked
          /\ InScope(lockOwner.scope) \subseteq picked
          /\ lockOwner.todo \subseteq gone
          /\ InScope(lockOwner.scope) \subseteq lockOwner.todo
          /\ \A t \in picked \ lockOwner.todo : captured[t] = setting[t] /\ t \notin busy
      BY <1>a, <3>1 DEF OwnerKnows
    <3> QED
      BY <3>1, <3>2, <3>3, <3>4, <3>5 DEF OwnerKnows
  <2> QED BY <2>2, <2>3, <2>4 DEF RelInv
<1>10. CASE \E k \in {"release", "manage"} : Admitted(k)
  <2>1. lockOwner' \in Owners
    BY <1>a, <1>10 DEF RelTyped, Owners, NoOwner, InScope, hostVars, Admitted
  <2>2. RelTyped'
    BY <1>a, <1>10, <2>1 DEF RelTyped, hostVars, Admitted
  <2>3. HostsKnown'
    BY <1>a, <1>10 DEF RelTyped, HostsKnown, CaptureIsLast, OwnerKnows, Owners, hostVars, Admitted
  <2>4. OwnerKnows'
    BY <1>a, <1>10 DEF RelTyped, OwnerKnows, Owners, NoOwner, InScope, hostVars, Admitted
  <2> QED BY <2>2, <2>3, <2>4 DEF RelInv
<1>11. CASE \E scope \in {"project", "global"} : ReleaseBegins(scope)
  <2>1. lockOwner' \in Owners
    BY <1>a, <1>11 DEF RelTyped, Owners, NoOwner, InScope, hostVars, ReleaseBegins
  <2>2. RelTyped'
    BY <1>a, <1>11, <2>1 DEF RelTyped, hostVars, ReleaseBegins
  <2>3. HostsKnown'
    BY <1>a, <1>11 DEF RelTyped, HostsKnown, CaptureIsLast, OwnerKnows, Owners, hostVars, ReleaseBegins
  <2>4. OwnerKnows'
    BY <1>a, <1>11 DEF RelTyped, OwnerKnows, Owners, NoOwner, InScope, hostVars, ReleaseBegins
  <2> QED BY <2>2, <2>3, <2>4 DEF RelInv
<1>12. CASE AllFenced
  <2>1. lockOwner' \in Owners
    BY <1>a, <1>12 DEF RelTyped, Owners, NoOwner, InScope, hostVars, AllFenced
  <2>2. RelTyped'
    BY <1>a, <1>12, <2>1 DEF RelTyped, hostVars, AllFenced
  <2>3. HostsKnown'
    BY <1>a, <1>12 DEF RelTyped, HostsKnown, CaptureIsLast, OwnerKnows, Owners, hostVars, AllFenced
  <2>4. OwnerKnows'
    BY <1>a, <1>12 DEF RelTyped, OwnerKnows, Owners, NoOwner, InScope, hostVars, AllFenced
  <2> QED BY <2>2, <2>3, <2>4 DEF RelInv
<1>13. CASE CaptureFails
  <2>1. lockOwner' \in Owners
    BY <1>a, <1>13 DEF RelTyped, Owners, NoOwner, InScope, hostVars, CaptureFails, ReleaseEnds
  <2>2. RelTyped'
    BY <1>a, <1>13, <2>1 DEF RelTyped, hostVars, CaptureFails, ReleaseEnds
  <2>3. HostsKnown'
    BY <1>a, <1>13 DEF RelTyped, HostsKnown, CaptureIsLast, OwnerKnows, Owners, hostVars, CaptureFails, ReleaseEnds
  <2>4. OwnerKnows'
    BY <1>a, <1>13 DEF RelTyped, OwnerKnows, Owners, NoOwner, InScope, hostVars, CaptureFails, ReleaseEnds
  <2> QED BY <2>2, <2>3, <2>4 DEF RelInv
<1>14. CASE RetireAll
  <2>1. lockOwner' \in Owners
    BY <1>a, <1>14 DEF RelTyped, Owners, NoOwner, InScope, hostVars, RetireAll
  <2>2. RelTyped'
    BY <1>a, <1>14, <2>1 DEF RelTyped, HostsKnown, CaptureIsLast, OwnerKnows, Owners, hostVars, RetireAll
  <2>3. HostsKnown'
    BY <1>a, <1>14 DEF RelTyped, HostsKnown, CaptureIsLast, OwnerKnows, Owners, hostVars, RetireAll
  <2>4. OwnerKnows'
    BY <1>a, <1>14 DEF RelTyped, HostsKnown, CaptureIsLast, OwnerKnows, Owners, NoOwner, InScope, hostVars, RetireAll
  <2> QED BY <2>2, <2>3, <2>4 DEF RelInv
<1>15. CASE Released
  <2>1. lockOwner' \in Owners
    BY <1>a, <1>15 DEF RelTyped, Owners, NoOwner, InScope, hostVars, Released, ReleaseEnds
  <2>2. RelTyped'
    BY <1>a, <1>15, <2>1 DEF RelTyped, hostVars, Released, ReleaseEnds
  <2>3. HostsKnown'
    BY <1>a, <1>15 DEF RelTyped, HostsKnown, CaptureIsLast, OwnerKnows, Owners, hostVars, Released, ReleaseEnds
  <2>4. OwnerKnows'
    BY <1>a, <1>15 DEF RelTyped, OwnerKnows, Owners, NoOwner, InScope, hostVars, Released, ReleaseEnds
  <2> QED BY <2>2, <2>3, <2>4 DEF RelInv
<1>16. CASE ManageBegins
  <2>1. lockOwner' \in Owners
    BY <1>a, <1>16 DEF RelTyped, Owners, NoOwner, InScope, hostVars, ManageBegins
  <2>2. RelTyped'
    BY <1>a, <1>16, <2>1 DEF RelTyped, hostVars, ManageBegins
  <2>3. HostsKnown'
    BY <1>a, <1>16 DEF RelTyped, HostsKnown, CaptureIsLast, OwnerKnows, Owners, hostVars, ManageBegins
  <2>4. OwnerKnows'
    BY <1>a, <1>16 DEF RelTyped, OwnerKnows, Owners, NoOwner, InScope, hostVars, ManageBegins
  <2> QED BY <2>2, <2>3, <2>4 DEF RelInv
<1>17. CASE ManageEnds
  <2>1. lockOwner' \in Owners
    BY <1>a, <1>17 DEF RelTyped, Owners, NoOwner, InScope, hostVars, ManageEnds
  <2>2. RelTyped'
    BY <1>a, <1>17, <2>1 DEF RelTyped, hostVars, ManageEnds
  <2>3. HostsKnown'
    BY <1>a, <1>17 DEF RelTyped, HostsKnown, CaptureIsLast, OwnerKnows, Owners, hostVars, ManageEnds
  <2>4. OwnerKnows'
    BY <1>a, <1>17 DEF RelTyped, OwnerKnows, Owners, NoOwner, InScope, hostVars, ManageEnds
  <2> QED BY <2>2, <2>3, <2>4 DEF RelInv
<1>18. CASE ProjectFenced
  <2>1. lockOwner' \in Owners
    BY <1>a, <1>18 DEF RelTyped, Owners, NoOwner, InScope, hostVars, ProjectFenced, Fenceable, ProvenIdle
  <2>2. RelTyped'
    BY <1>a, <1>18, <2>1 DEF RelTyped, hostVars, ProjectFenced, Fenceable, ProvenIdle
  <2>3. HostsKnown'
    BY <1>a, <1>18 DEF RelTyped, HostsKnown, CaptureIsLast, OwnerKnows, Owners, hostVars, ProjectFenced, Fenceable, ProvenIdle
  <2>4. OwnerKnows'
    BY <1>a, <1>18 DEF RelTyped, OwnerKnows, Owners, NoOwner, InScope, hostVars, ProjectFenced, Fenceable, ProvenIdle
  <2> QED BY <2>2, <2>3, <2>4 DEF RelInv
<1>19. CASE GuardDropped
  <2>1. lockOwner' \in Owners
    BY <1>a, <1>19 DEF RelTyped, Owners, NoOwner, InScope, hostVars, GuardDropped
  <2>2. RelTyped'
    BY <1>a, <1>19, <2>1 DEF RelTyped, hostVars, GuardDropped
  <2>3. HostsKnown'
    BY <1>a, <1>19 DEF RelTyped, HostsKnown, CaptureIsLast, OwnerKnows, Owners, hostVars, GuardDropped
  <2>4. OwnerKnows'
    BY <1>a, <1>19 DEF RelTyped, OwnerKnows, Owners, NoOwner, InScope, hostVars, GuardDropped
  <2> QED BY <2>2, <2>3, <2>4 DEF RelInv
<1>20. CASE UNCHANGED relVars
  <2>1. lockOwner' \in Owners
    BY <1>a, <1>20 DEF RelTyped, Owners, NoOwner, InScope, hostVars, relVars
  <2>2. RelTyped'
    BY <1>a, <1>20, <2>1 DEF RelTyped, hostVars, relVars
  <2>3. HostsKnown'
    BY <1>a, <1>20 DEF RelTyped, HostsKnown, CaptureIsLast, OwnerKnows, Owners, hostVars, relVars
  <2>4. OwnerKnows'
    BY <1>a, <1>20 DEF RelTyped, OwnerKnows, Owners, NoOwner, InScope, hostVars, relVars
  <2> QED BY <2>2, <2>3, <2>4 DEF RelInv
<1>21. ASSUME NEW s \in Sess, CaptureUnsaved(s) PROVE RelInv'
  <2>1. lockOwner' \in Owners
    BY <1>a, <1>21 DEF RelTyped, Owners, NoOwner, InScope, hostVars, CaptureUnsaved, ProvenIdle, ReleaseEnds
  <2>2. RelTyped'
    BY <1>a, <1>21, <2>1 DEF RelTyped, hostVars, CaptureUnsaved, ProvenIdle, ReleaseEnds
  <2>3. HostsKnown'
    BY <1>a, <1>21 DEF RelTyped, HostsKnown, CaptureIsLast, OwnerKnows, Owners, hostVars, CaptureUnsaved, ProvenIdle, ReleaseEnds
  <2>4. OwnerKnows'
    BY <1>a, <1>21 DEF RelTyped, OwnerKnows, Owners, NoOwner, InScope, hostVars, CaptureUnsaved, ProvenIdle, ReleaseEnds
  <2> QED BY <2>2, <2>3, <2>4 DEF RelInv
<1> QED
  BY <1>1, <1>2, <1>3, <1>4, <1>5, <1>6, <1>7, <1>8, <1>9, <1>10, <1>11, <1>12, <1>13, <1>14, <1>15, <1>16, <1>17, <1>18, <1>19, <1>20,
     <1>21
     DEF ReleaseNext, ReleaseOwner

\* A release that is answered has nothing left in its scope.
LEMMA ReleaseAnswers ==
  ASSUME RelInv, Released,
         NEW s \in (IF lockOwner.scope = "global" THEN Sess ELSE ProjectSess)
  PROVE  alive[s] = 0 /\ s \notin entry
<1>1. InScope(lockOwner.scope) = {}
  BY DEF RelInv, OwnerKnows, Released
<1>2. s \notin entry
  BY <1>1 DEF InScope
<1> QED
  BY <1>2, ReleaseConstants DEF RelInv, HostsKnown

-----------------------------------------------------------------------------
(* The bridges.                                                               *)

BridgeFrames == [of : Instance, closed : BOOLEAN]

BridgeTyped ==
    /\ kind \in {"tools", "files"}
    /\ config \in {"idle", "discover", "sent", "acked", "done", "failed"}
    /\ defined \in BOOLEAN /\ closedSig \in BOOLEAN
    /\ routed \in BOOLEAN /\ stopped \in BOOLEAN /\ stop \in BOOLEAN
    /\ super \in {"none", "loop", "failing", "drain", "join", "done"}
    /\ calls \in [RequestId -> {0} \cup Instance]
    /\ native \in [RequestId -> {0} \cup Instance]
    /\ ident \in [Instance -> RequestId \cup {CHOOSE r \in RequestId : TRUE}]
    /\ phase \in [Instance -> {"new", "queued", "run", "joining", "answer", "out",
                               "exit", "panicked", "end", "lost"}]
    /\ bridgeQueue \in Seq(Instance)
    /\ bridgePipe \in Seq(BridgeFrames)
    /\ cancelled \subseteq Instance
    /\ lastReq \in {0} \cup Instance

\* The definitions of the native have an owner, or the host is closed.
Owned == /\ DefinitionsOwned
         /\ defined => config \notin {"idle", "discover"}

\* The table and the native name a request by the identity it came with.
Named ==
    /\ \A r \in RequestId : calls[r] # 0 => ident[calls[r]] = r /\ calls[r] <= lastReq
    /\ \A r \in RequestId : native[r] # 0 => ident[native[r]] = r /\ native[r] <= lastReq
    /\ \A i \in Instance : i <= lastReq => ident[i] \in RequestId
    /\ \A i \in Instance : i > lastReq => phase[i] = "new"

\* The queue holds, once each, the invocations that wait to be started, and
\* none after the supervisor has drained it.
QueueHolds ==
    /\ \A n \in DOMAIN bridgeQueue : phase[bridgeQueue[n]] = "queued"
    /\ \A n, k \in DOMAIN bridgeQueue : bridgeQueue[n] = bridgeQueue[k] => n = k
    /\ \A i \in Instance : phase[i] = "queued" => \E n \in DOMAIN bridgeQueue : bridgeQueue[n] = i
    /\ super \in {"join", "done"} => stopped /\ bridgeQueue = << >>

\* The native has the request open, or its closure is still to be routed.
OpenOrOnItsWay(i, nat, id, pipe) == nat[id[i]] = i \/ OnItsWay(i, pipe)

\* A request in the pipe is a fresh one, there once, and open or closed behind
\* it.
PipeHolds ==
    /\ \A n \in DOMAIN bridgePipe : bridgePipe[n].of <= lastReq
    /\ \A n \in DOMAIN bridgePipe : ~bridgePipe[n].closed =>
          /\ phase[bridgePipe[n].of] = "new"
          /\ OpenOrOnItsWay(bridgePipe[n].of, native, ident, bridgePipe)
    /\ \A n, k \in DOMAIN bridgePipe :
          ~bridgePipe[n].closed /\ ~bridgePipe[k].closed /\ bridgePipe[n].of = bridgePipe[k].of
          => n = k
    /\ \A n, k \in DOMAIN bridgePipe :
          ~bridgePipe[n].closed /\ bridgePipe[k].closed /\ bridgePipe[n].of = bridgePipe[k].of
          => n < k

Unanswered == {"queued", "run", "joining", "answer", "out"}

\* What is not cancelled is in the table, and open for the native as far as the
\* host has read.
StillOpen ==
    \A i \in Instance : phase[i] \in Unanswered /\ i \notin cancelled
        => routed /\ calls[ident[i]] = i /\ OpenOrOnItsWay(i, native, ident, bridgePipe)

\* A file request keeps its entry until its worker has ended.
FilesKept ==
    kind = "files" => \A i \in Instance :
        phase[i] \in Unanswered \cup {"exit", "panicked"} => calls[ident[i]] = i

\* The bridge is stopped before its supervisor is told, and before the file
\* supervisor closes its receiver.
StoppedFirst ==
    /\ stop => stopped
    /\ kind = "files" /\ super = "drain" /\ routed => stopped

BridgeInv == /\ BridgeTyped /\ Owned /\ Named /\ QueueHolds /\ PipeHolds /\ StillOpen
             /\ FilesKept /\ StoppedFirst /\ FilesNeverOverflow

LEMMA BridgeStarts == BridgeInit => BridgeInv
<1> SUFFICES ASSUME BridgeInit PROVE BridgeInv
  OBVIOUS
<1>1. BridgeTyped
  <2>1. phase \in [Instance -> {"new", "queued", "run", "joining", "answer", "out",
                               "exit", "end", "lost"}]
    BY DEF BridgeInit
  <2>2. ident \in [Instance -> RequestId \cup {CHOOSE r \in RequestId : TRUE}]
    BY DEF BridgeInit
  <2>3. calls \in [RequestId -> {0} \cup Instance] /\ native \in [RequestId -> {0} \cup Instance]
    BY DEF BridgeInit
  <2>4. bridgeQueue \in Seq(Instance)
    BY DEF BridgeInit
  <2>5. bridgePipe \in Seq(BridgeFrames)
    BY DEF BridgeInit
  <2> HIDE DEF Instance
  <2> QED BY <2>1, <2>2, <2>3, <2>4, <2>5 DEF BridgeInit, BridgeTyped
<1>2. Owned /\ Named /\ QueueHolds /\ StillOpen /\ FilesKept /\ FilesNeverOverflow
  BY BridgeConstants
     DEF BridgeInit, Owned, DefinitionsOwned, Named, QueueHolds, StillOpen, FilesKept,
         FilesNeverOverflow, Unanswered, Instance
<1>3. PipeHolds /\ StoppedFirst
  BY DEF BridgeInit, PipeHolds, StoppedFirst
<1> QED BY <1>1, <1>2, <1>3 DEF BridgeInv

\* What is sent stays in the pipe behind what was there.
LEMMA FrameSent ==
  ASSUME NEW q \in Seq(BridgeFrames), NEW f \in BridgeFrames
  PROVE  /\ Append(q, f) \in Seq(BridgeFrames) /\ Len(q) \in Nat
         /\ DOMAIN q = 1 .. Len(q) /\ DOMAIN Append(q, f) = 1 .. (Len(q) + 1)
         /\ \A n \in DOMAIN q : Append(q, f)[n] = q[n] /\ q[n] \in BridgeFrames
         /\ Append(q, f)[Len(q) + 1] = f
         /\ \A j : OnItsWay(j, q) => OnItsWay(j, Append(q, f))
<1>1. /\ Append(q, f) \in Seq(BridgeFrames) /\ Len(q) \in Nat
      /\ DOMAIN q = 1 .. Len(q) /\ DOMAIN Append(q, f) = 1 .. (Len(q) + 1)
      /\ \A n \in DOMAIN q : Append(q, f)[n] = q[n] /\ q[n] \in BridgeFrames
      /\ Append(q, f)[Len(q) + 1] = f
  OBVIOUS
<1>2. \A n \in DOMAIN q : n \in DOMAIN Append(q, f)
  BY <1>1
<1> QED BY <1>1, <1>2 DEF OnItsWay

\* What is read leaves the pipe, the rest moves up.
LEMMA FrameRead ==
  ASSUME NEW q \in Seq(BridgeFrames), q # << >>
  PROVE  /\ Tail(q) \in Seq(BridgeFrames) /\ 1 \in DOMAIN q /\ Head(q) = q[1]
         /\ q[1] \in BridgeFrames
         /\ \A n \in DOMAIN Tail(q) : /\ n \in Nat /\ n + 1 \in DOMAIN q /\ n + 1 # 1
                                     /\ Tail(q)[n] = q[n + 1] /\ q[n + 1] \in BridgeFrames
         /\ \A j : OnItsWay(j, q) /\ q[1] # [of |-> j, closed |-> TRUE] => OnItsWay(j, Tail(q))
<1>1. /\ Tail(q) \in Seq(BridgeFrames) /\ 1 \in DOMAIN q /\ Head(q) = q[1] /\ q[1] \in BridgeFrames
      /\ Len(q) \in Nat /\ DOMAIN q = 1 .. Len(q) /\ DOMAIN Tail(q) = 1 .. (Len(q) - 1)
      /\ \A n \in DOMAIN Tail(q) : Tail(q)[n] = q[n + 1]
  OBVIOUS
<1>2. \A n \in DOMAIN Tail(q) : n \in Nat /\ n + 1 \in DOMAIN q /\ n + 1 # 1
  BY <1>1
<1>3. \A n \in DOMAIN q : n # 1 => n - 1 \in DOMAIN Tail(q) /\ Tail(q)[n - 1] = q[n]
  BY <1>1
<1>4. \A n \in DOMAIN q : q[n] \in BridgeFrames
  OBVIOUS
<1>5. ASSUME NEW j, OnItsWay(j, q), q[1] # [of |-> j, closed |-> TRUE]
      PROVE  OnItsWay(j, Tail(q))
  <2>1. PICK n \in DOMAIN q : q[n] = [of |-> j, closed |-> TRUE]
    BY <1>5 DEF OnItsWay
  <2>2. n - 1 \in DOMAIN Tail(q) /\ Tail(q)[n - 1] = [of |-> j, closed |-> TRUE]
    BY <1>3, <1>5, <2>1
  <2> QED BY <2>2 DEF OnItsWay
<1> QED BY <1>1, <1>2, <1>4, <1>5

\* What waits in the queue has entries of its own in the table, so a file
\* request that is admitted fits.
LEMMA QueueFits ==
  ASSUME BridgeTyped, Named, QueueHolds, FilesKept, kind = "files"
  PROVE  Cardinality(Entered) \in Nat /\ Len(bridgeQueue) <= Cardinality(Entered)
<1>1. IsFiniteSet(Instance)
  BY FS_Interval, BridgeConstants DEF Instance
<1>2. Entered \in SUBSET Instance
  BY DEF Entered, BridgeTyped
<1>3. IsFiniteSet(Entered) /\ Cardinality(Entered) \in Nat
  BY <1>1, <1>2, FS_Subset, FS_CardinalityType
<1>4. Len(bridgeQueue) \in Nat /\ DOMAIN bridgeQueue = 1 .. Len(bridgeQueue)
  BY DEF BridgeTyped
<1>5. IsFiniteSet(1 .. Len(bridgeQueue))
      /\ Cardinality(1 .. Len(bridgeQueue)) = Len(bridgeQueue)
  <2>1. \A m \in Nat : IsFiniteSet(1 .. m) /\ Cardinality(1 .. m) = m
    <3> SUFFICES ASSUME NEW m \in Nat PROVE IsFiniteSet(1 .. m) /\ Cardinality(1 .. m) = m
      OBVIOUS
    <3> QED BY FS_Interval
  <2> QED BY <1>4, <2>1
<1>6. \A n \in DOMAIN bridgeQueue : bridgeQueue[n] \in Entered
  <2> SUFFICES ASSUME NEW n \in DOMAIN bridgeQueue PROVE bridgeQueue[n] \in Entered
    OBVIOUS
  <2>1. bridgeQueue[n] \in Instance /\ phase[bridgeQueue[n]] = "queued"
    BY DEF BridgeTyped, QueueHolds
  <2>2. calls[ident[bridgeQueue[n]]] = bridgeQueue[n] /\ ident[bridgeQueue[n]] \in RequestId
    <3>1. ~(bridgeQueue[n] > lastReq)
      BY <2>1 DEF Named
    <3> QED
      BY <2>1, <3>1, BridgeConstants DEF BridgeTyped, Named, FilesKept, Unanswered, Instance
  <2> QED
    BY <2>1, <2>2, BridgeConstants DEF Entered, Instance
<1>7. bridgeQueue \in [1 .. Len(bridgeQueue) -> Entered]
  BY <1>4, <1>6 DEF BridgeTyped
<1>8. SUFFICES ASSUME Cardinality(Entered) < Len(bridgeQueue) PROVE FALSE
  BY <1>3, <1>4
<1>9. \E n, k \in 1 .. Len(bridgeQueue) : n # k /\ bridgeQueue[n] = bridgeQueue[k]
  BY <1>3, <1>5, <1>7, <1>8, FS_PigeonHole
<1> QED
  BY <1>4, <1>9 DEF QueueHolds

LEMMA BridgeStays == BridgeInv /\ [BridgeNext]_bridgeVars => BridgeInv'
<1> SUFFICES ASSUME BridgeInv, [BridgeNext]_bridgeVars PROVE BridgeInv'
  OBVIOUS
<1>a. /\ BridgeTyped /\ Owned /\ Named /\ QueueHolds /\ PipeHolds /\ StillOpen /\ FilesKept
      /\ StoppedFirst /\ FilesNeverOverflow
  BY DEF BridgeInv
<1>b. ASSUME UNCHANGED <<kind, routed, workVars, nativeSide, bridgePipe>>, QueueHolds'
      PROVE  Named' /\ PipeHolds' /\ StillOpen' /\ FilesKept' /\ FilesNeverOverflow'
  BY <1>a, <1>b DEF Named, PipeHolds, StillOpen, FilesKept, FilesNeverOverflow, workVars, nativeSide
<1>c. ASSUME UNCHANGED <<nativeSide, bridgePipe>>,
             \A i \in Instance : phase[i] = "new" => phase'[i] = "new"
      PROVE  PipeHolds'
  <2>1. \A n \in DOMAIN bridgePipe : bridgePipe[n] \in BridgeFrames
    BY <1>a DEF BridgeTyped
  <2>2. \A n \in DOMAIN bridgePipe : bridgePipe[n].of \in Instance
    BY <2>1 DEF BridgeFrames
  <2> QED BY <1>a, <1>c, <2>2 DEF PipeHolds, nativeSide
<1>1. CASE ConfigureBegin
  <2>1. BridgeTyped'
    BY <1>a, <1>1, BridgeConstants DEF BridgeTyped, BridgeFrames, Instance, setupVars, endVars, tableVars, workVars, bridgeWire, nativeSide, writeVars, ConfigureBegin
  <2>2. Owned'
    BY <1>a, <1>1 DEF BridgeTyped, Owned, DefinitionsOwned, setupVars, endVars, tableVars, workVars, bridgeWire, nativeSide, writeVars, ConfigureBegin
  <2>3. QueueHolds'
    BY <1>a, <1>1 DEF QueueHolds, setupVars, endVars, tableVars, workVars, bridgeWire, nativeSide, writeVars, ConfigureBegin
  <2>4. StoppedFirst'
    BY <1>a, <1>1 DEF StoppedFirst, setupVars, endVars, tableVars, workVars, bridgeWire, nativeSide, writeVars, ConfigureBegin
  <2>5. UNCHANGED <<kind, routed, workVars, nativeSide, bridgePipe>>
    BY <1>1 DEF setupVars, endVars, tableVars, workVars, bridgeWire, nativeSide, writeVars, ConfigureBegin
  <2> QED BY <1>b, <2>1, <2>2, <2>3, <2>4, <2>5 DEF BridgeInv
<1>2. CASE DiscoverEnds
  <2>1. BridgeTyped'
    BY <1>a, <1>2, BridgeConstants DEF BridgeTyped, BridgeFrames, Instance, setupVars, endVars, tableVars, workVars, bridgeWire, nativeSide, writeVars, DiscoverEnds
  <2>2. Owned'
    BY <1>a, <1>2 DEF BridgeTyped, Owned, DefinitionsOwned, setupVars, endVars, tableVars, workVars, bridgeWire, nativeSide, writeVars, DiscoverEnds
  <2>3. QueueHolds'
    BY <1>a, <1>2 DEF QueueHolds, setupVars, endVars, tableVars, workVars, bridgeWire, nativeSide, writeVars, DiscoverEnds
  <2>4. StoppedFirst'
    BY <1>a, <1>2 DEF StoppedFirst, setupVars, endVars, tableVars, workVars, bridgeWire, nativeSide, writeVars, DiscoverEnds
  <2>5. UNCHANGED <<kind, routed, workVars, nativeSide, bridgePipe>>
    BY <1>2 DEF setupVars, endVars, tableVars, workVars, bridgeWire, nativeSide, writeVars, DiscoverEnds
  <2> QED BY <1>b, <2>1, <2>2, <2>3, <2>4, <2>5 DEF BridgeInv
<1>3. CASE CandidateShut
  <2>1. BridgeTyped'
    BY <1>a, <1>3, BridgeConstants DEF BridgeTyped, BridgeFrames, Instance, setupVars, endVars, tableVars, workVars, bridgeWire, nativeSide, writeVars, CandidateShut
  <2>2. Owned'
    BY <1>a, <1>3 DEF BridgeTyped, Owned, DefinitionsOwned, setupVars, endVars, tableVars, workVars, bridgeWire, nativeSide, writeVars, CandidateShut
  <2>3. QueueHolds'
    BY <1>a, <1>3 DEF QueueHolds, setupVars, endVars, tableVars, workVars, bridgeWire, nativeSide, writeVars, CandidateShut
  <2>4. StoppedFirst'
    BY <1>a, <1>3 DEF StoppedFirst, setupVars, endVars, tableVars, workVars, bridgeWire, nativeSide, writeVars, CandidateShut
  <2>5. UNCHANGED <<kind, routed, workVars, nativeSide, bridgePipe>>
    BY <1>3 DEF setupVars, endVars, tableVars, workVars, bridgeWire, nativeSide, writeVars, CandidateShut
  <2> QED BY <1>b, <2>1, <2>2, <2>3, <2>4, <2>5 DEF BridgeInv
<1>4. CASE NativeDefines
  <2>1. BridgeTyped'
    BY <1>a, <1>4, BridgeConstants DEF BridgeTyped, BridgeFrames, Instance, setupVars, endVars, tableVars, workVars, bridgeWire, nativeSide, writeVars, NativeDefines
  <2>2. Owned'
    BY <1>a, <1>4 DEF BridgeTyped, Owned, DefinitionsOwned, setupVars, endVars, tableVars, workVars, bridgeWire, nativeSide, writeVars, NativeDefines
  <2>3. QueueHolds'
    BY <1>a, <1>4 DEF QueueHolds, setupVars, endVars, tableVars, workVars, bridgeWire, nativeSide, writeVars, NativeDefines
  <2>4. StoppedFirst'
    BY <1>a, <1>4 DEF StoppedFirst, setupVars, endVars, tableVars, workVars, bridgeWire, nativeSide, writeVars, NativeDefines
  <2>5. UNCHANGED <<kind, routed, workVars, nativeSide, bridgePipe>>
    BY <1>4 DEF setupVars, endVars, tableVars, workVars, bridgeWire, nativeSide, writeVars, NativeDefines
  <2> QED BY <1>b, <2>1, <2>2, <2>3, <2>4, <2>5 DEF BridgeInv
<1>5. CASE Acknowledged
  <2>1. BridgeTyped'
    BY <1>a, <1>5, BridgeConstants DEF BridgeTyped, BridgeFrames, Instance, setupVars, endVars, tableVars, workVars, bridgeWire, nativeSide, writeVars, Acknowledged
  <2>2. Owned'
    BY <1>a, <1>5 DEF BridgeTyped, Owned, DefinitionsOwned, setupVars, endVars, tableVars, workVars, bridgeWire, nativeSide, writeVars, Acknowledged
  <2>3. QueueHolds'
    BY <1>a, <1>5 DEF QueueHolds, setupVars, endVars, tableVars, workVars, bridgeWire, nativeSide, writeVars, Acknowledged
  <2>4. StoppedFirst'
    BY <1>a, <1>5 DEF StoppedFirst, setupVars, endVars, tableVars, workVars, bridgeWire, nativeSide, writeVars, Acknowledged
  <2>5. UNCHANGED <<kind, routed, workVars, nativeSide, bridgePipe>>
    BY <1>5 DEF setupVars, endVars, tableVars, workVars, bridgeWire, nativeSide, writeVars, Acknowledged
  <2> QED BY <1>b, <2>1, <2>2, <2>3, <2>4, <2>5 DEF BridgeInv
<1>6. CASE ConfigureFails
  <2>1. BridgeTyped'
    BY <1>a, <1>6, BridgeConstants DEF BridgeTyped, BridgeFrames, Instance, setupVars, endVars, tableVars, workVars, bridgeWire, nativeSide, writeVars, ConfigureFails, SignalClosed
  <2>2. Owned'
    BY <1>a, <1>6 DEF BridgeTyped, Owned, DefinitionsOwned, setupVars, endVars, tableVars, workVars, bridgeWire, nativeSide, writeVars, ConfigureFails, SignalClosed
  <2>3. QueueHolds'
    BY <1>a, <1>6 DEF QueueHolds, setupVars, endVars, tableVars, workVars, bridgeWire, nativeSide, writeVars, ConfigureFails, SignalClosed
  <2>4. StoppedFirst'
    BY <1>a, <1>6 DEF StoppedFirst, setupVars, endVars, tableVars, workVars, bridgeWire, nativeSide, writeVars, ConfigureFails, SignalClosed
  <2>5. UNCHANGED <<kind, routed, workVars, nativeSide, bridgePipe>>
    BY <1>6 DEF setupVars, endVars, tableVars, workVars, bridgeWire, nativeSide, writeVars, ConfigureFails, SignalClosed
  <2> QED BY <1>b, <2>1, <2>2, <2>3, <2>4, <2>5 DEF BridgeInv
<1>7. CASE FilesReaderEnds
  <2>1. BridgeTyped'
    BY <1>a, <1>7, BridgeConstants DEF BridgeTyped, BridgeFrames, Instance, setupVars, endVars, tableVars, workVars, bridgeWire, nativeSide, writeVars, FilesReaderEnds, SignalClosed
  <2>2. Owned'
    BY <1>a, <1>7 DEF BridgeTyped, Owned, DefinitionsOwned, setupVars, endVars, tableVars, workVars, bridgeWire, nativeSide, writeVars, FilesReaderEnds, SignalClosed
  <2>3. QueueHolds'
    BY <1>a, <1>7 DEF QueueHolds, setupVars, endVars, tableVars, workVars, bridgeWire, nativeSide, writeVars, FilesReaderEnds, SignalClosed
  <2>4. StoppedFirst'
    BY <1>a, <1>7 DEF StoppedFirst, setupVars, endVars, tableVars, workVars, bridgeWire, nativeSide, writeVars, FilesReaderEnds, SignalClosed
  <2>5. UNCHANGED <<kind, routed, workVars, nativeSide, bridgePipe>>
    BY <1>7 DEF setupVars, endVars, tableVars, workVars, bridgeWire, nativeSide, writeVars, FilesReaderEnds, SignalClosed
  <2> QED BY <1>b, <2>1, <2>2, <2>3, <2>4, <2>5 DEF BridgeInv
<1>8. CASE SupervisorStops
  <2>1. BridgeTyped'
    BY <1>a, <1>8, BridgeConstants DEF BridgeTyped, BridgeFrames, Instance, setupVars, endVars, tableVars, workVars, bridgeWire, nativeSide, writeVars, SupervisorStops
  <2>2. Owned'
    BY <1>a, <1>8 DEF BridgeTyped, Owned, DefinitionsOwned, setupVars, endVars, tableVars, workVars, bridgeWire, nativeSide, writeVars, SupervisorStops
  <2>3. QueueHolds'
    BY <1>a, <1>8 DEF QueueHolds, setupVars, endVars, tableVars, workVars, bridgeWire, nativeSide, writeVars, SupervisorStops
  <2>4. StoppedFirst'
    BY <1>a, <1>8 DEF StoppedFirst, setupVars, endVars, tableVars, workVars, bridgeWire, nativeSide, writeVars, SupervisorStops
  <2>5. UNCHANGED <<kind, routed, workVars, nativeSide, bridgePipe>>
    BY <1>8 DEF setupVars, endVars, tableVars, workVars, bridgeWire, nativeSide, writeVars, SupervisorStops
  <2> QED BY <1>b, <2>1, <2>2, <2>3, <2>4, <2>5 DEF BridgeInv
<1>9. ASSUME NEW i \in Instance, StartWrite(i) PROVE BridgeInv'
  <2>1. BridgeTyped'
    BY <1>a, <1>9, BridgeConstants DEF BridgeTyped, BridgeFrames, Instance, setupVars, endVars, tableVars, workVars, bridgeWire, nativeSide, writeVars, StartWrite
  <2>2. Owned'
    BY <1>a, <1>9 DEF BridgeTyped, Owned, DefinitionsOwned, setupVars, endVars, tableVars, workVars, bridgeWire, nativeSide, writeVars, StartWrite
  <2>3. QueueHolds'
    BY <1>a, <1>9 DEF QueueHolds, setupVars, endVars, tableVars, workVars, bridgeWire, nativeSide, writeVars, StartWrite
  <2>4. StoppedFirst'
    BY <1>a, <1>9 DEF StoppedFirst, setupVars, endVars, tableVars, workVars, bridgeWire, nativeSide, writeVars, StartWrite
  <2>5. UNCHANGED <<kind, routed, workVars, nativeSide, bridgePipe>>
    BY <1>9 DEF setupVars, endVars, tableVars, workVars, bridgeWire, nativeSide, writeVars, StartWrite
  <2> QED BY <1>b, <2>1, <2>2, <2>3, <2>4, <2>5 DEF BridgeInv
<1>10. CASE EndWrite
  <2>1. BridgeTyped'
    BY <1>a, <1>10, BridgeConstants DEF BridgeTyped, BridgeFrames, Instance, setupVars, endVars, tableVars, workVars, bridgeWire, nativeSide, writeVars, EndWrite
  <2>2. Owned'
    BY <1>a, <1>10 DEF BridgeTyped, Owned, DefinitionsOwned, setupVars, endVars, tableVars, workVars, bridgeWire, nativeSide, writeVars, EndWrite
  <2>3. QueueHolds'
    BY <1>a, <1>10 DEF QueueHolds, setupVars, endVars, tableVars, workVars, bridgeWire, nativeSide, writeVars, EndWrite
  <2>4. StoppedFirst'
    BY <1>a, <1>10 DEF StoppedFirst, setupVars, endVars, tableVars, workVars, bridgeWire, nativeSide, writeVars, EndWrite
  <2>5. UNCHANGED <<kind, routed, workVars, nativeSide, bridgePipe>>
    BY <1>10 DEF setupVars, endVars, tableVars, workVars, bridgeWire, nativeSide, writeVars, EndWrite
  <2> QED BY <1>b, <2>1, <2>2, <2>3, <2>4, <2>5 DEF BridgeInv
<1>11. CASE Install
  <2>1. BridgeTyped'
    BY <1>a, <1>11, BridgeConstants DEF BridgeTyped, BridgeFrames, Instance, setupVars, endVars, tableVars, workVars, bridgeWire, nativeSide, writeVars, Install
  <2>2. Owned'
    BY <1>a, <1>11 DEF BridgeTyped, Owned, DefinitionsOwned, setupVars, endVars, tableVars, workVars, bridgeWire, nativeSide, writeVars, Install
  <2>3. Named'
    BY <1>a, <1>11, BridgeConstants DEF BridgeTyped, Named, Instance, setupVars, endVars, tableVars, workVars, bridgeWire, nativeSide, writeVars, Install
  <2>4. QueueHolds'
    BY <1>a, <1>11 DEF BridgeTyped, QueueHolds, setupVars, endVars, tableVars, workVars, bridgeWire, nativeSide, writeVars, Install
  <2>5. StillOpen'
    BY <1>a, <1>11, BridgeConstants DEF BridgeTyped, Named, QueueHolds, StillOpen, OpenOrOnItsWay, Unanswered, Instance, setupVars, endVars, tableVars, workVars, bridgeWire, nativeSide, writeVars, Install
  <2>6. FilesKept'
    BY <1>a, <1>11, BridgeConstants DEF BridgeTyped, Named, QueueHolds, FilesKept, Unanswered, Instance, setupVars, endVars, tableVars, workVars, bridgeWire, nativeSide, writeVars, Install
  <2>7. FilesNeverOverflow' /\ StoppedFirst'
    BY <1>a, <1>11 DEF BridgeTyped, FilesNeverOverflow, StoppedFirst, setupVars, endVars, tableVars, workVars, bridgeWire, nativeSide, writeVars, Install
  <2>8. PipeHolds'
    <3>1. UNCHANGED <<nativeSide, bridgePipe>>
      BY <1>11 DEF setupVars, endVars, tableVars, workVars, bridgeWire, nativeSide, writeVars, Install
    <3>2. \A k \in Instance : phase[k] = "new" => phase'[k] = "new"
      BY <1>a, <1>11 DEF BridgeTyped, setupVars, endVars, tableVars, workVars, bridgeWire, nativeSide, writeVars, Install
    <3> QED BY <1>c, <3>1, <3>2
  <2> QED BY <2>1, <2>2, <2>3, <2>4, <2>5, <2>6, <2>7, <2>8 DEF BridgeInv
<1>12. CASE RunSettled
  <2>1. BridgeTyped'
    BY <1>a, <1>12, BridgeConstants, ZenonT(60) DEF BridgeTyped, BridgeFrames, Instance, setupVars, endVars, tableVars, workVars, bridgeWire, nativeSide, writeVars, RunSettled, CancelCalls, Entered
  <2>2. Owned'
    BY <1>a, <1>12 DEF BridgeTyped, Owned, DefinitionsOwned, setupVars, endVars, tableVars, workVars, bridgeWire, nativeSide, writeVars, RunSettled, CancelCalls, Entered
  <2>3. Named'
    BY <1>a, <1>12, BridgeConstants, SMTT(40) DEF BridgeTyped, Named, Instance, setupVars, endVars, tableVars, workVars, bridgeWire, nativeSide, writeVars, RunSettled, CancelCalls, Entered
  <2>4. QueueHolds'
    BY <1>a, <1>12 DEF BridgeTyped, QueueHolds, setupVars, endVars, tableVars, workVars, bridgeWire, nativeSide, writeVars, RunSettled, CancelCalls, Entered
  <2>5. StillOpen'
    BY <1>a, <1>12, BridgeConstants DEF BridgeTyped, Named, QueueHolds, StillOpen, OpenOrOnItsWay, Unanswered, Instance, setupVars, endVars, tableVars, workVars, bridgeWire, nativeSide, writeVars, RunSettled, CancelCalls, Entered
  <2>6. FilesKept'
    BY <1>a, <1>12, BridgeConstants DEF BridgeTyped, Named, QueueHolds, FilesKept, Unanswered, Instance, setupVars, endVars, tableVars, workVars, bridgeWire, nativeSide, writeVars, RunSettled, CancelCalls, Entered
  <2>7. FilesNeverOverflow' /\ StoppedFirst'
    BY <1>a, <1>12 DEF BridgeTyped, FilesNeverOverflow, StoppedFirst, setupVars, endVars, tableVars, workVars, bridgeWire, nativeSide, writeVars, RunSettled, CancelCalls, Entered
  <2>8. PipeHolds'
    <3>1. UNCHANGED <<nativeSide, bridgePipe>>
      BY <1>12 DEF setupVars, endVars, tableVars, workVars, bridgeWire, nativeSide, writeVars, RunSettled, CancelCalls, Entered
    <3>2. \A k \in Instance : phase[k] = "new" => phase'[k] = "new"
      BY <1>a, <1>12 DEF BridgeTyped, setupVars, endVars, tableVars, workVars, bridgeWire, nativeSide, writeVars, RunSettled, CancelCalls, Entered
    <3> QED BY <1>c, <3>1, <3>2
  <2> QED BY <2>1, <2>2, <2>3, <2>4, <2>5, <2>6, <2>7, <2>8 DEF BridgeInv
<1>13. CASE SupervisorEnds
  <2>1. BridgeTyped'
    BY <1>a, <1>13, BridgeConstants DEF BridgeTyped, BridgeFrames, Instance, setupVars, endVars, tableVars, workVars, bridgeWire, nativeSide, writeVars, SupervisorEnds, Tasks
  <2>2. Owned'
    BY <1>a, <1>13 DEF BridgeTyped, Owned, DefinitionsOwned, setupVars, endVars, tableVars, workVars, bridgeWire, nativeSide, writeVars, SupervisorEnds, Tasks
  <2>3. Named'
    BY <1>a, <1>13, BridgeConstants DEF BridgeTyped, Named, Instance, setupVars, endVars, tableVars, workVars, bridgeWire, nativeSide, writeVars, SupervisorEnds, Tasks
  <2>4. QueueHolds'
    BY <1>a, <1>13 DEF BridgeTyped, QueueHolds, setupVars, endVars, tableVars, workVars, bridgeWire, nativeSide, writeVars, SupervisorEnds, Tasks
  <2>5. StillOpen'
    <3>1. \A i \in Instance : phase[i] \notin Unanswered /\ UNCHANGED phase
      BY <1>a, <1>13 DEF QueueHolds, SupervisorEnds, Tasks, Unanswered
    <3> QED BY <3>1 DEF StillOpen
  <2>6. FilesKept'
    BY <1>a, <1>13, BridgeConstants DEF BridgeTyped, Named, QueueHolds, FilesKept, Unanswered, Instance, setupVars, endVars, tableVars, workVars, bridgeWire, nativeSide, writeVars, SupervisorEnds, Tasks
  <2>7. FilesNeverOverflow' /\ StoppedFirst'
    BY <1>a, <1>13 DEF BridgeTyped, FilesNeverOverflow, StoppedFirst, setupVars, endVars, tableVars, workVars, bridgeWire, nativeSide, writeVars, SupervisorEnds, Tasks
  <2>8. PipeHolds'
    <3>1. UNCHANGED <<nativeSide, bridgePipe>>
      BY <1>13 DEF setupVars, endVars, tableVars, workVars, bridgeWire, nativeSide, writeVars, SupervisorEnds, Tasks
    <3>2. \A k \in Instance : phase[k] = "new" => phase'[k] = "new"
      BY <1>a, <1>13 DEF BridgeTyped, setupVars, endVars, tableVars, workVars, bridgeWire, nativeSide, writeVars, SupervisorEnds, Tasks
    <3> QED BY <1>c, <3>1, <3>2
  <2> QED BY <2>1, <2>2, <2>3, <2>4, <2>5, <2>6, <2>7, <2>8 DEF BridgeInv
<1>14. ASSUME NEW i \in Instance, JoinNext(i) PROVE BridgeInv'
  <2>1. BridgeTyped'
    BY <1>a, <1>14, BridgeConstants DEF BridgeTyped, BridgeFrames, Instance, setupVars, endVars, tableVars, workVars, bridgeWire, nativeSide, writeVars, JoinNext
  <2>2. Owned'
    BY <1>a, <1>14 DEF BridgeTyped, Owned, DefinitionsOwned, setupVars, endVars, tableVars, workVars, bridgeWire, nativeSide, writeVars, JoinNext
  <2>3. Named'
    BY <1>a, <1>14, BridgeConstants DEF BridgeTyped, Named, Instance, setupVars, endVars, tableVars, workVars, bridgeWire, nativeSide, writeVars, JoinNext
  <2>4. QueueHolds'
    BY <1>a, <1>14 DEF BridgeTyped, QueueHolds, setupVars, endVars, tableVars, workVars, bridgeWire, nativeSide, writeVars, JoinNext
  <2>5. StillOpen'
    BY <1>a, <1>14, BridgeConstants DEF BridgeTyped, Named, QueueHolds, StillOpen, OpenOrOnItsWay, Unanswered, Instance, setupVars, endVars, tableVars, workVars, bridgeWire, nativeSide, writeVars, JoinNext
  <2>6. FilesKept'
    BY <1>a, <1>14, BridgeConstants DEF BridgeTyped, Named, QueueHolds, FilesKept, Unanswered, Instance, setupVars, endVars, tableVars, workVars, bridgeWire, nativeSide, writeVars, JoinNext
  <2>7. FilesNeverOverflow' /\ StoppedFirst'
    BY <1>a, <1>14 DEF BridgeTyped, FilesNeverOverflow, StoppedFirst, setupVars, endVars, tableVars, workVars, bridgeWire, nativeSide, writeVars, JoinNext
  <2>8. PipeHolds'
    <3>1. UNCHANGED <<nativeSide, bridgePipe>>
      BY <1>14 DEF setupVars, endVars, tableVars, workVars, bridgeWire, nativeSide, writeVars, JoinNext
    <3>2. \A k \in Instance : phase[k] = "new" => phase'[k] = "new"
      BY <1>a, <1>14 DEF BridgeTyped, setupVars, endVars, tableVars, workVars, bridgeWire, nativeSide, writeVars, JoinNext
    <3> QED BY <1>c, <3>1, <3>2
  <2> QED BY <2>1, <2>2, <2>3, <2>4, <2>5, <2>6, <2>7, <2>8 DEF BridgeInv
<1>15. ASSUME NEW i \in Instance, JoinPanicked(i) PROVE BridgeInv'
  <2>1. BridgeTyped'
    BY <1>a, <1>15, BridgeConstants DEF BridgeTyped, BridgeFrames, Instance, setupVars, endVars, tableVars, workVars, bridgeWire, nativeSide, writeVars, JoinPanicked, SignalClosed
  <2>2. Owned'
    BY <1>a, <1>15 DEF BridgeTyped, Owned, DefinitionsOwned, setupVars, endVars, tableVars, workVars, bridgeWire, nativeSide, writeVars, JoinPanicked, SignalClosed
  <2>3. Named'
    BY <1>a, <1>15, BridgeConstants DEF BridgeTyped, Named, Instance, setupVars, endVars, tableVars, workVars, bridgeWire, nativeSide, writeVars, JoinPanicked, SignalClosed
  <2>4. QueueHolds'
    BY <1>a, <1>15 DEF BridgeTyped, QueueHolds, setupVars, endVars, tableVars, workVars, bridgeWire, nativeSide, writeVars, JoinPanicked, SignalClosed
  <2>5. StillOpen'
    BY <1>a, <1>15, BridgeConstants DEF BridgeTyped, Named, QueueHolds, StillOpen, OpenOrOnItsWay, Unanswered, Instance, setupVars, endVars, tableVars, workVars, bridgeWire, nativeSide, writeVars, JoinPanicked, SignalClosed
  <2>6. FilesKept'
    BY <1>a, <1>15, BridgeConstants DEF BridgeTyped, Named, QueueHolds, FilesKept, Unanswered, Instance, setupVars, endVars, tableVars, workVars, bridgeWire, nativeSide, writeVars, JoinPanicked, SignalClosed
  <2>7. FilesNeverOverflow' /\ StoppedFirst'
    BY <1>a, <1>15 DEF BridgeTyped, FilesNeverOverflow, StoppedFirst, setupVars, endVars, tableVars, workVars, bridgeWire, nativeSide, writeVars, JoinPanicked, SignalClosed
  <2>8. PipeHolds'
    <3>1. UNCHANGED <<nativeSide, bridgePipe>>
      BY <1>15 DEF setupVars, endVars, tableVars, workVars, bridgeWire, nativeSide, writeVars, JoinPanicked, SignalClosed
    <3>2. \A k \in Instance : phase[k] = "new" => phase'[k] = "new"
      BY <1>a, <1>15 DEF BridgeTyped, setupVars, endVars, tableVars, workVars, bridgeWire, nativeSide, writeVars, JoinPanicked, SignalClosed
    <3> QED BY <1>c, <3>1, <3>2
  <2> QED BY <2>1, <2>2, <2>3, <2>4, <2>5, <2>6, <2>7, <2>8 DEF BridgeInv
<1>16. ASSUME NEW i \in Instance, WorkerPanics(i) PROVE BridgeInv'
  <2>1. BridgeTyped'
    BY <1>a, <1>16, BridgeConstants DEF BridgeTyped, BridgeFrames, Instance, setupVars, endVars, tableVars, workVars, bridgeWire, nativeSide, writeVars, WorkerPanics
  <2>2. Owned'
    BY <1>a, <1>16 DEF BridgeTyped, Owned, DefinitionsOwned, setupVars, endVars, tableVars, workVars, bridgeWire, nativeSide, writeVars, WorkerPanics
  <2>3. Named'
    BY <1>a, <1>16, BridgeConstants DEF BridgeTyped, Named, Instance, setupVars, endVars, tableVars, workVars, bridgeWire, nativeSide, writeVars, WorkerPanics
  <2>4. QueueHolds'
    BY <1>a, <1>16 DEF BridgeTyped, QueueHolds, setupVars, endVars, tableVars, workVars, bridgeWire, nativeSide, writeVars, WorkerPanics
  <2>5. StillOpen'
    BY <1>a, <1>16, BridgeConstants DEF BridgeTyped, Named, QueueHolds, StillOpen, OpenOrOnItsWay, Unanswered, Instance, setupVars, endVars, tableVars, workVars, bridgeWire, nativeSide, writeVars, WorkerPanics
  <2>6. FilesKept'
    BY <1>a, <1>16, BridgeConstants DEF BridgeTyped, Named, QueueHolds, FilesKept, Unanswered, Instance, setupVars, endVars, tableVars, workVars, bridgeWire, nativeSide, writeVars, WorkerPanics
  <2>7. FilesNeverOverflow' /\ StoppedFirst'
    BY <1>a, <1>16 DEF BridgeTyped, FilesNeverOverflow, StoppedFirst, setupVars, endVars, tableVars, workVars, bridgeWire, nativeSide, writeVars, WorkerPanics
  <2>8. PipeHolds'
    <3>1. UNCHANGED <<nativeSide, bridgePipe>>
      BY <1>16 DEF setupVars, endVars, tableVars, workVars, bridgeWire, nativeSide, writeVars, WorkerPanics
    <3>2. \A k \in Instance : phase[k] = "new" => phase'[k] = "new"
      BY <1>a, <1>16 DEF BridgeTyped, setupVars, endVars, tableVars, workVars, bridgeWire, nativeSide, writeVars, WorkerPanics
    <3> QED BY <1>c, <3>1, <3>2
  <2> QED BY <2>1, <2>2, <2>3, <2>4, <2>5, <2>6, <2>7, <2>8 DEF BridgeInv
<1>17. ASSUME NEW i \in Instance, WorkerStep(i) PROVE BridgeInv'
  <2>1. BridgeTyped'
    BY <1>a, <1>17, BridgeConstants DEF BridgeTyped, BridgeFrames, Instance, setupVars, endVars, tableVars, workVars, bridgeWire, nativeSide, writeVars, WorkerStep
  <2>2. Owned'
    BY <1>a, <1>17 DEF BridgeTyped, Owned, DefinitionsOwned, setupVars, endVars, tableVars, workVars, bridgeWire, nativeSide, writeVars, WorkerStep
  <2>3. Named'
    BY <1>a, <1>17, BridgeConstants DEF BridgeTyped, Named, Instance, setupVars, endVars, tableVars, workVars, bridgeWire, nativeSide, writeVars, WorkerStep
  <2>4. QueueHolds'
    BY <1>a, <1>17 DEF BridgeTyped, QueueHolds, setupVars, endVars, tableVars, workVars, bridgeWire, nativeSide, writeVars, WorkerStep
  <2>5. StillOpen'
    BY <1>a, <1>17, BridgeConstants DEF BridgeTyped, Named, QueueHolds, StillOpen, OpenOrOnItsWay, Unanswered, Instance, setupVars, endVars, tableVars, workVars, bridgeWire, nativeSide, writeVars, WorkerStep
  <2>6. FilesKept'
    BY <1>a, <1>17, BridgeConstants DEF BridgeTyped, Named, QueueHolds, FilesKept, Unanswered, Instance, setupVars, endVars, tableVars, workVars, bridgeWire, nativeSide, writeVars, WorkerStep
  <2>7. FilesNeverOverflow' /\ StoppedFirst'
    BY <1>a, <1>17 DEF BridgeTyped, FilesNeverOverflow, StoppedFirst, setupVars, endVars, tableVars, workVars, bridgeWire, nativeSide, writeVars, WorkerStep
  <2>8. PipeHolds'
    <3>1. UNCHANGED <<nativeSide, bridgePipe>>
      BY <1>17 DEF setupVars, endVars, tableVars, workVars, bridgeWire, nativeSide, writeVars, WorkerStep
    <3>2. \A k \in Instance : phase[k] = "new" => phase'[k] = "new"
      BY <1>a, <1>17 DEF BridgeTyped, setupVars, endVars, tableVars, workVars, bridgeWire, nativeSide, writeVars, WorkerStep
    <3> QED BY <1>c, <3>1, <3>2
  <2> QED BY <2>1, <2>2, <2>3, <2>4, <2>5, <2>6, <2>7, <2>8 DEF BridgeInv
<1>18. ASSUME NEW i \in Instance, CallReturns(i) PROVE BridgeInv'
  <2>1. BridgeTyped'
    BY <1>a, <1>18, BridgeConstants DEF BridgeTyped, BridgeFrames, Instance, setupVars, endVars, tableVars, workVars, bridgeWire, nativeSide, writeVars, CallReturns
  <2>2. Owned'
    BY <1>a, <1>18 DEF BridgeTyped, Owned, DefinitionsOwned, setupVars, endVars, tableVars, workVars, bridgeWire, nativeSide, writeVars, CallReturns
  <2>3. Named'
    BY <1>a, <1>18, BridgeConstants DEF BridgeTyped, Named, Instance, setupVars, endVars, tableVars, workVars, bridgeWire, nativeSide, writeVars, CallReturns
  <2>4. QueueHolds'
    BY <1>a, <1>18 DEF BridgeTyped, QueueHolds, setupVars, endVars, tableVars, workVars, bridgeWire, nativeSide, writeVars, CallReturns
  <2>5. StillOpen'
    BY <1>a, <1>18, BridgeConstants DEF BridgeTyped, Named, QueueHolds, StillOpen, OpenOrOnItsWay, Unanswered, Instance, setupVars, endVars, tableVars, workVars, bridgeWire, nativeSide, writeVars, CallReturns
  <2>6. FilesKept'
    BY <1>a, <1>18, BridgeConstants DEF BridgeTyped, Named, QueueHolds, FilesKept, Unanswered, Instance, setupVars, endVars, tableVars, workVars, bridgeWire, nativeSide, writeVars, CallReturns
  <2>7. FilesNeverOverflow' /\ StoppedFirst'
    BY <1>a, <1>18 DEF BridgeTyped, FilesNeverOverflow, StoppedFirst, setupVars, endVars, tableVars, workVars, bridgeWire, nativeSide, writeVars, CallReturns
  <2>8. PipeHolds'
    <3>1. UNCHANGED <<nativeSide, bridgePipe>>
      BY <1>18 DEF setupVars, endVars, tableVars, workVars, bridgeWire, nativeSide, writeVars, CallReturns
    <3>2. \A k \in Instance : phase[k] = "new" => phase'[k] = "new"
      BY <1>a, <1>18 DEF BridgeTyped, setupVars, endVars, tableVars, workVars, bridgeWire, nativeSide, writeVars, CallReturns
    <3> QED BY <1>c, <3>1, <3>2
  <2> QED BY <2>1, <2>2, <2>3, <2>4, <2>5, <2>6, <2>7, <2>8 DEF BridgeInv
<1>19. ASSUME NEW i \in Instance, Respond(i) PROVE BridgeInv'
  <2>1. BridgeTyped'
    BY <1>a, <1>19, BridgeConstants DEF BridgeTyped, BridgeFrames, Instance, setupVars, endVars, tableVars, workVars, bridgeWire, nativeSide, writeVars, Respond, StillEntered
  <2>2. Owned'
    BY <1>a, <1>19 DEF BridgeTyped, Owned, DefinitionsOwned, setupVars, endVars, tableVars, workVars, bridgeWire, nativeSide, writeVars, Respond, StillEntered
  <2>3. Named'
    BY <1>a, <1>19, BridgeConstants DEF BridgeTyped, Named, Instance, setupVars, endVars, tableVars, workVars, bridgeWire, nativeSide, writeVars, Respond, StillEntered
  <2>4. QueueHolds'
    BY <1>a, <1>19 DEF BridgeTyped, QueueHolds, setupVars, endVars, tableVars, workVars, bridgeWire, nativeSide, writeVars, Respond, StillEntered
  <2>5. StillOpen'
    BY <1>a, <1>19, BridgeConstants DEF BridgeTyped, Named, QueueHolds, StillOpen, OpenOrOnItsWay, Unanswered, Instance, setupVars, endVars, tableVars, workVars, bridgeWire, nativeSide, writeVars, Respond, StillEntered
  <2>6. FilesKept'
    BY <1>a, <1>19, BridgeConstants DEF BridgeTyped, Named, QueueHolds, FilesKept, Unanswered, Instance, setupVars, endVars, tableVars, workVars, bridgeWire, nativeSide, writeVars, Respond, StillEntered
  <2>7. FilesNeverOverflow' /\ StoppedFirst'
    BY <1>a, <1>19 DEF BridgeTyped, FilesNeverOverflow, StoppedFirst, setupVars, endVars, tableVars, workVars, bridgeWire, nativeSide, writeVars, Respond, StillEntered
  <2>8. PipeHolds'
    <3>1. UNCHANGED <<nativeSide, bridgePipe>>
      BY <1>19 DEF setupVars, endVars, tableVars, workVars, bridgeWire, nativeSide, writeVars, Respond, StillEntered
    <3>2. \A k \in Instance : phase[k] = "new" => phase'[k] = "new"
      BY <1>a, <1>19 DEF BridgeTyped, setupVars, endVars, tableVars, workVars, bridgeWire, nativeSide, writeVars, Respond, StillEntered
    <3> QED BY <1>c, <3>1, <3>2
  <2> QED BY <2>1, <2>2, <2>3, <2>4, <2>5, <2>6, <2>7, <2>8 DEF BridgeInv
<1>20. ASSUME NEW i \in Instance, AnswerAcknowledged(i) PROVE BridgeInv'
  <2>1. BridgeTyped'
    BY <1>a, <1>20, BridgeConstants DEF BridgeTyped, BridgeFrames, Instance, setupVars, endVars, tableVars, workVars, bridgeWire, nativeSide, writeVars, AnswerAcknowledged
  <2>2. Owned'
    BY <1>a, <1>20 DEF BridgeTyped, Owned, DefinitionsOwned, setupVars, endVars, tableVars, workVars, bridgeWire, nativeSide, writeVars, AnswerAcknowledged
  <2>3. Named'
    BY <1>a, <1>20, BridgeConstants DEF BridgeTyped, Named, Instance, setupVars, endVars, tableVars, workVars, bridgeWire, nativeSide, writeVars, AnswerAcknowledged
  <2>4. QueueHolds'
    BY <1>a, <1>20 DEF BridgeTyped, QueueHolds, setupVars, endVars, tableVars, workVars, bridgeWire, nativeSide, writeVars, AnswerAcknowledged
  <2>5. StillOpen'
    BY <1>a, <1>20, BridgeConstants DEF BridgeTyped, Named, QueueHolds, StillOpen, OpenOrOnItsWay, Unanswered, Instance, setupVars, endVars, tableVars, workVars, bridgeWire, nativeSide, writeVars, AnswerAcknowledged
  <2>6. FilesKept'
    BY <1>a, <1>20, BridgeConstants DEF BridgeTyped, Named, QueueHolds, FilesKept, Unanswered, Instance, setupVars, endVars, tableVars, workVars, bridgeWire, nativeSide, writeVars, AnswerAcknowledged
  <2>7. FilesNeverOverflow' /\ StoppedFirst'
    BY <1>a, <1>20 DEF BridgeTyped, FilesNeverOverflow, StoppedFirst, setupVars, endVars, tableVars, workVars, bridgeWire, nativeSide, writeVars, AnswerAcknowledged
  <2>8. PipeHolds'
    <3>1. UNCHANGED <<nativeSide, bridgePipe>>
      BY <1>20 DEF setupVars, endVars, tableVars, workVars, bridgeWire, nativeSide, writeVars, AnswerAcknowledged
    <3>2. \A k \in Instance : phase[k] = "new" => phase'[k] = "new"
      BY <1>a, <1>20 DEF BridgeTyped, setupVars, endVars, tableVars, workVars, bridgeWire, nativeSide, writeVars, AnswerAcknowledged
    <3> QED BY <1>c, <3>1, <3>2
  <2> QED BY <2>1, <2>2, <2>3, <2>4, <2>5, <2>6, <2>7, <2>8 DEF BridgeInv
<1>21. ASSUME NEW i \in Instance, RespondEnds(i) PROVE BridgeInv'
  <2>1. BridgeTyped'
    <3>1. phase' = [phase EXCEPT ![i] = "exit"] /\ cancelled' = cancelled \cup {i}
      BY <1>21 DEF RespondEnds
    <3>2. closedSig' \in BOOLEAN
      BY <1>a, <1>21 DEF BridgeTyped, RespondEnds, SignalClosed
    <3>3. /\ UNCHANGED <<kind, config, defined, routed, stopped, stop, super, calls, native, ident>>
          /\ UNCHANGED <<bridgeQueue, bridgePipe, lastReq>>
      BY <1>21 DEF RespondEnds, setupVars, bridgeWire, nativeSide
    <3> QED BY <1>a, <3>1, <3>2, <3>3 DEF BridgeTyped
  <2>2. Owned'
    BY <1>a, <1>21 DEF BridgeTyped, Owned, DefinitionsOwned, setupVars, endVars, tableVars, workVars, bridgeWire, nativeSide, writeVars, RespondEnds, SignalClosed
  <2>3. Named'
    BY <1>a, <1>21, BridgeConstants DEF BridgeTyped, Named, Instance, setupVars, endVars, tableVars, workVars, bridgeWire, nativeSide, writeVars, RespondEnds, SignalClosed
  <2>4. QueueHolds'
    BY <1>a, <1>21 DEF BridgeTyped, QueueHolds, setupVars, endVars, tableVars, workVars, bridgeWire, nativeSide, writeVars, RespondEnds, SignalClosed
  <2>5. StillOpen'
    BY <1>a, <1>21, BridgeConstants DEF BridgeTyped, Named, QueueHolds, StillOpen, OpenOrOnItsWay, Unanswered, Instance, setupVars, endVars, tableVars, workVars, bridgeWire, nativeSide, writeVars, RespondEnds, SignalClosed
  <2>6. FilesKept'
    BY <1>a, <1>21, BridgeConstants DEF BridgeTyped, Named, QueueHolds, FilesKept, Unanswered, Instance, setupVars, endVars, tableVars, workVars, bridgeWire, nativeSide, writeVars, RespondEnds, SignalClosed
  <2>7. FilesNeverOverflow' /\ StoppedFirst'
    BY <1>a, <1>21 DEF BridgeTyped, FilesNeverOverflow, StoppedFirst, setupVars, endVars, tableVars, workVars, bridgeWire, nativeSide, writeVars, RespondEnds, SignalClosed
  <2>8. PipeHolds'
    <3>1. UNCHANGED <<nativeSide, bridgePipe>>
      BY <1>21 DEF setupVars, endVars, tableVars, workVars, bridgeWire, nativeSide, writeVars, RespondEnds, SignalClosed
    <3>2. \A k \in Instance : phase[k] = "new" => phase'[k] = "new"
      BY <1>a, <1>21 DEF BridgeTyped, setupVars, endVars, tableVars, workVars, bridgeWire, nativeSide, writeVars, RespondEnds, SignalClosed
    <3> QED BY <1>c, <3>1, <3>2
  <2> QED BY <2>1, <2>2, <2>3, <2>4, <2>5, <2>6, <2>7, <2>8 DEF BridgeInv
<1>22. CASE CloseRouted
  <2>a. Entered \subseteq Instance
    BY <1>a DEF BridgeTyped, Entered
  <2>b. calls' \in [RequestId -> {0} \cup Instance]
    BY <1>a, <1>22 DEF BridgeTyped, CloseRouted, CancelCalls
  <2>1. BridgeTyped'
    BY <1>a, <1>22, <2>a, <2>b, ZenonT(60) DEF BridgeTyped, CloseRouted, CancelCalls, setupVars, bridgeWire, nativeSide
  <2>2. Owned'
    BY <1>a, <1>22, BridgeConstants DEF Owned, DefinitionsOwned, setupVars, endVars, tableVars, workVars, bridgeWire, nativeSide, writeVars, CloseRouted, CancelCalls, Entered
  <2>3. Named'
    BY <1>a, <1>22, BridgeConstants DEF BridgeTyped, Named, Instance, setupVars, endVars, tableVars, workVars, bridgeWire, nativeSide, writeVars, CloseRouted, CancelCalls, Entered
  <2>4. QueueHolds'
    BY <1>a, <1>22, BridgeConstants DEF BridgeTyped, QueueHolds, setupVars, endVars, tableVars, workVars, bridgeWire, nativeSide, writeVars, CloseRouted, CancelCalls, Entered
  <2>5. StillOpen'
    BY <1>a, <1>22, BridgeConstants DEF BridgeTyped, Named, QueueHolds, StillOpen, OpenOrOnItsWay, Unanswered, Instance, setupVars, endVars, tableVars, workVars, bridgeWire, nativeSide, writeVars, CloseRouted, CancelCalls, Entered
  <2>6. FilesKept'
    BY <1>a, <1>22, BridgeConstants DEF BridgeTyped, Named, QueueHolds, FilesKept, Unanswered, Instance, setupVars, endVars, tableVars, workVars, bridgeWire, nativeSide, writeVars, CloseRouted, CancelCalls, Entered
  <2>7. FilesNeverOverflow' /\ StoppedFirst'
    BY <1>a, <1>22, BridgeConstants DEF BridgeTyped, FilesNeverOverflow, StoppedFirst, setupVars, endVars, tableVars, workVars, bridgeWire, nativeSide, writeVars, CloseRouted, CancelCalls, Entered
  <2>8. PipeHolds'
    <3>1. UNCHANGED <<nativeSide, bridgePipe>>
      BY <1>22 DEF bridgeWire, CloseRouted
    <3>2. \A k \in Instance : phase[k] = "new" => phase'[k] = "new"
      BY <1>22 DEF CloseRouted
    <3> QED BY <1>c, <3>1, <3>2
  <2> QED BY <2>1, <2>2, <2>3, <2>4, <2>5, <2>6, <2>7, <2>8 DEF BridgeInv
<1>23. CASE Receive
  <2> DEFINE i == Head(bridgeQueue)
  <2>a. /\ super = "loop" /\ bridgeQueue # << >>
        /\ bridgeQueue' = Tail(bridgeQueue) /\ phase' = [phase EXCEPT ![i] = "run"]
        /\ UNCHANGED <<setupVars, endVars, calls, closedReq, cancelled, bridgeWire>>
    BY <1>23 DEF Receive
  <2>b. /\ i \in Instance /\ i = bridgeQueue[1] /\ 1 \in DOMAIN bridgeQueue
        /\ Tail(bridgeQueue) \in Seq(Instance) /\ Len(bridgeQueue) \in Nat \ {0}
        /\ DOMAIN bridgeQueue = 1 .. Len(bridgeQueue)
        /\ DOMAIN Tail(bridgeQueue) = 1 .. (Len(bridgeQueue) - 1)
        /\ \A m \in 1 .. (Len(bridgeQueue) - 1) : Tail(bridgeQueue)[m] = bridgeQueue[m + 1]
    BY <1>a, <2>a DEF BridgeTyped
  <2>c. phase[i] = "queued"
    BY <1>a, <2>b DEF QueueHolds
  <2>1. BridgeTyped'
    BY <1>a, <2>a, <2>b, <2>c, BridgeConstants DEF BridgeTyped, Instance, setupVars, endVars, tableVars, workVars, bridgeWire, nativeSide, writeVars
  <2>2. Owned'
    BY <1>a, <2>a, <2>b, <2>c, BridgeConstants DEF Owned, DefinitionsOwned, setupVars, endVars, tableVars, workVars, bridgeWire, nativeSide, writeVars
  <2>3. Named'
    <3>1. ~(i > lastReq)
      BY <1>a, <2>b, <2>c DEF Named
    <3>2. \A j \in Instance : j > lastReq => phase'[j] = "new"
      BY <1>a, <2>a, <2>b, <3>1 DEF BridgeTyped, Named
    <3>3. UNCHANGED <<calls, ident, native, lastReq>>
      BY <2>a DEF bridgeWire, nativeSide
    <3> QED BY <1>a, <3>2, <3>3 DEF Named
  <2>4. QueueHolds'
    <3>1. \A m \in DOMAIN bridgeQueue' :
            m + 1 \in DOMAIN bridgeQueue /\ bridgeQueue'[m] = bridgeQueue[m + 1]
      BY <2>a, <2>b
    <3>2. \A m \in DOMAIN bridgeQueue' : bridgeQueue'[m] # i
      BY <1>a, <2>b, <2>a, <3>1 DEF QueueHolds
    <3>3. \A m \in DOMAIN bridgeQueue' : phase'[bridgeQueue'[m]] = "queued"
      BY <1>a, <2>a, <3>1, <3>2 DEF QueueHolds, BridgeTyped
    <3>4. \A m, l \in DOMAIN bridgeQueue' : bridgeQueue'[m] = bridgeQueue'[l] => m = l
      BY <1>a, <2>a, <2>b, <3>1 DEF QueueHolds
    <3>5. ASSUME NEW j \in Instance, phase'[j] = "queued"
          PROVE  \E m \in DOMAIN bridgeQueue' : bridgeQueue'[m] = j
      <4>1. j # i /\ phase[j] = "queued"
        BY <1>a, <2>a, <2>b, <3>5 DEF BridgeTyped
      <4>2. PICK m \in DOMAIN bridgeQueue : bridgeQueue[m] = j
        BY <1>a, <4>1 DEF QueueHolds
      <4>3. m # 1
        BY <2>b, <4>1, <4>2
      <4>4. m - 1 \in DOMAIN bridgeQueue' /\ (m - 1) + 1 = m
        BY <2>a, <2>b, <4>2, <4>3
      <4>5. bridgeQueue'[m - 1] = j
        BY <2>a, <2>b, <4>2, <4>4
      <4> QED BY <4>4, <4>5
    <3>6. super' \notin {"join", "done"}
      BY <2>a DEF endVars
    <3> QED BY <3>3, <3>4, <3>5, <3>6 DEF QueueHolds
  <2>5. StillOpen'
    BY <1>a, <2>a, <2>b, <2>c, BridgeConstants DEF BridgeTyped, Named, QueueHolds, StillOpen, OpenOrOnItsWay, Unanswered, Instance, setupVars, endVars, tableVars, workVars, bridgeWire, nativeSide, writeVars
  <2>6. FilesKept'
    BY <1>a, <2>a, <2>b, <2>c, BridgeConstants DEF BridgeTyped, Named, QueueHolds, FilesKept, Unanswered, Instance, setupVars, endVars, tableVars, workVars, bridgeWire, nativeSide, writeVars
  <2>7. FilesNeverOverflow' /\ StoppedFirst'
    BY <1>a, <2>a, <2>b, <2>c, BridgeConstants DEF BridgeTyped, FilesNeverOverflow, StoppedFirst, setupVars, endVars, tableVars, workVars, bridgeWire, nativeSide, writeVars
  <2>8. PipeHolds'
    <3>1. UNCHANGED <<nativeSide, bridgePipe>>
      BY <1>23 DEF bridgeWire, Receive
    <3>2. \A k \in Instance : phase[k] = "new" => phase'[k] = "new"
      BY <1>a, <2>a, <2>b, <2>c DEF BridgeTyped
    <3> QED BY <1>c, <3>1, <3>2
  <2> QED BY <2>1, <2>2, <2>3, <2>4, <2>5, <2>6, <2>7, <2>8 DEF BridgeInv
<1>24. CASE SupervisorDrains
  <2> DEFINE queued == {bridgeQueue[m] : m \in DOMAIN bridgeQueue}
  <2>a. /\ stopped' = TRUE /\ super' = "join"
        /\ cancelled' = cancelled \cup Entered \cup queued
        /\ phase' = [i \in Instance |-> IF i \in queued THEN "end" ELSE phase[i]]
        /\ bridgeQueue' = << >>
        /\ calls' = IF kind = "tools" THEN [r \in RequestId |-> 0] ELSE calls
        /\ UNCHANGED <<kind, config, defined, conns, closedSig, routed, stop, native, ident,
                       bridgePipe, lastReq>>
    BY <1>24 DEF SupervisorDrains, setupVars, bridgeWire, nativeSide
  <2>b. /\ \A i \in queued : i \in Instance /\ phase[i] = "queued"
        /\ \A i \in Instance : phase[i] = "queued" => i \in queued
    BY <1>a DEF BridgeTyped, QueueHolds
  <2>c. \A i \in Entered : i \in Instance /\ \E r \in RequestId : calls[r] = i
    BY <1>a DEF BridgeTyped, Entered
  <2>d. \A r \in RequestId : calls[r] # 0 => calls[r] \in Entered
    BY DEF Entered
  <2> HIDE DEF queued
  <2>1. BridgeTyped'
    <3>1. cancelled' \subseteq Instance
      BY <1>a, <2>a, <2>b, <2>c DEF BridgeTyped
    <3>2. bridgeQueue' \in Seq(Instance)
      BY <2>a
    <3>3. phase' \in [Instance -> {"new", "queued", "run", "joining", "answer", "out",
                                  "exit", "panicked", "end", "lost"}]
      BY <1>a, <2>a DEF BridgeTyped
    <3>4. calls' \in [RequestId -> {0} \cup Instance]
      BY <1>a, <2>a DEF BridgeTyped
    <3> QED BY <1>a, <2>a, <3>1, <3>2, <3>3, <3>4 DEF BridgeTyped
  <2>2. Owned'
    BY <1>a, <2>a DEF Owned, DefinitionsOwned
  <2>3. Named'
    <3>1. ASSUME NEW i \in Instance, i > lastReq
          PROVE  phase'[i] = "new"
      <4>1. phase[i] = "new"
        BY <1>a, <3>1 DEF Named
      <4>2. i \notin queued
        BY <2>b, <4>1
      <4> QED BY <2>a, <4>1, <4>2
    <3> QED BY <1>a, <2>a, <3>1 DEF Named, BridgeTyped
  <2>4. QueueHolds'
    <3>1. \A i \in Instance : phase'[i] # "queued"
      BY <2>a, <2>b
    <3> QED BY <2>a, <3>1 DEF QueueHolds
  <2>5. StillOpen'
    <3> SUFFICES ASSUME NEW i \in Instance, phase'[i] \in Unanswered, i \notin cancelled'
                 PROVE  FALSE
      BY DEF StillOpen
    <3>1. phase[i] \in Unanswered /\ i \notin cancelled /\ i \notin Entered
      BY <2>a DEF Unanswered
    <3>2. calls[ident[i]] = i /\ ~(i > lastReq)
      BY <1>a, <3>1 DEF StillOpen, Named, Unanswered
    <3>3. ident[i] \in RequestId /\ i # 0
      BY <1>a, <3>2, BridgeConstants DEF BridgeTyped, Named, Instance
    <3> QED BY <2>d, <3>1, <3>2, <3>3
  <2>6. FilesKept'
    BY <1>a, <2>a DEF FilesKept, Unanswered
  <2>7. FilesNeverOverflow' /\ StoppedFirst'
    BY <1>a, <2>a DEF FilesNeverOverflow, StoppedFirst
  <2>8. PipeHolds'
    <3>1. UNCHANGED <<nativeSide, bridgePipe>>
      BY <1>24 DEF bridgeWire, SupervisorDrains
    <3>2. \A k \in Instance : phase[k] = "new" => phase'[k] = "new"
      BY <2>a, <2>b DEF BridgeTyped
    <3> QED BY <1>c, <3>1, <3>2
  <2> QED BY <2>1, <2>2, <2>3, <2>4, <2>5, <2>6, <2>7, <2>8 DEF BridgeInv
<1>25. ASSUME NEW r \in RequestId, CallOpened(r) PROVE BridgeInv'
  <2> DEFINE i == lastReq + 1
             f == [of |-> i, closed |-> FALSE]
  <2>a. /\ i \in Instance /\ lastReq' = i /\ defined /\ native[r] = 0
        /\ ident' = [ident EXCEPT ![i] = r] /\ native' = [native EXCEPT ![r] = i]
        /\ bridgePipe' = Append(bridgePipe, f)
        /\ UNCHANGED <<kind, config, defined, closedSig, routed, super, stopped, stop,
                       calls, cancelled, phase, bridgeQueue>>
    BY <1>25 DEF CallOpened, setupVars, endVars, workVars
  <2>b. phase[i] = "new" /\ i # 0 /\ lastReq \in Nat /\ \A j \in Instance : j \in Nat /\ j # 0
    BY <1>a, <2>a, BridgeConstants DEF BridgeTyped, Named, Instance
  <2>c. f \in BridgeFrames /\ bridgePipe \in Seq(BridgeFrames)
    BY <1>a, <2>a DEF BridgeTyped, BridgeFrames
  <2>d. /\ bridgePipe' \in Seq(BridgeFrames) /\ Len(bridgePipe) \in Nat
        /\ DOMAIN bridgePipe = 1 .. Len(bridgePipe)
        /\ DOMAIN bridgePipe' = 1 .. (Len(bridgePipe) + 1)
        /\ \A n \in DOMAIN bridgePipe : bridgePipe'[n] = bridgePipe[n]
                                        /\ bridgePipe[n] \in BridgeFrames
        /\ bridgePipe'[Len(bridgePipe) + 1] = f
        /\ \A j : OnItsWay(j, bridgePipe) => OnItsWay(j, bridgePipe')
    BY <2>a, <2>c, FrameSent
  <2>e. \A n \in DOMAIN bridgePipe' : n \in DOMAIN bridgePipe \/ n = Len(bridgePipe) + 1
    BY <2>d
  <2>f. /\ native' \in [RequestId -> {0} \cup Instance]
        /\ ident' \in [Instance -> RequestId \cup {CHOOSE q \in RequestId : TRUE}]
    BY <1>a, <2>a DEF BridgeTyped
  <2>g. \A j \in Instance : j # i => ident'[j] = ident[j]
    BY <1>a, <2>a DEF BridgeTyped
  <2>h. ident'[i] = r /\ native'[r] = i /\ \A q \in RequestId : q # r => native'[q] = native[q]
    BY <1>a, <2>a DEF BridgeTyped
  <2>i. ASSUME NEW j \in Instance, j <= lastReq, OpenOrOnItsWay(j, native, ident, bridgePipe)
        PROVE  OpenOrOnItsWay(j, native', ident', bridgePipe')
    <3>1. j # i /\ ident[j] \in RequestId
      BY <1>a, <2>b, <2>i DEF Named
    <3> QED BY <2>a, <2>b, <2>d, <2>g, <2>h, <2>i, <3>1 DEF OpenOrOnItsWay
  <2> HIDE DEF i, f
  <2>1. BridgeTyped'
    BY <1>a, <2>a, <2>d, <2>f DEF BridgeTyped
  <2>2. Owned' /\ QueueHolds' /\ FilesNeverOverflow' /\ StoppedFirst'
    BY <1>a, <2>a DEF Owned, DefinitionsOwned, QueueHolds, FilesNeverOverflow, StoppedFirst
  <2>3. Named'
    <3>1. ASSUME NEW q \in RequestId, calls'[q] # 0
          PROVE  ident'[calls'[q]] = q /\ calls'[q] <= lastReq'
      <4>1. calls[q] \in Instance /\ ident[calls[q]] = q /\ calls[q] <= lastReq
        BY <1>a, <2>a, <3>1 DEF BridgeTyped, Named
      <4>2. calls[q] # i /\ calls[q] <= i
        BY <2>b, <4>1 DEF i
      <4> QED BY <2>a, <2>g, <4>1, <4>2
    <3>2. ASSUME NEW q \in RequestId, native'[q] # 0
          PROVE  ident'[native'[q]] = q /\ native'[q] <= lastReq'
      <4>1. CASE q = r
        BY <2>a, <2>b, <2>h, <4>1 DEF i
      <4>2. CASE q # r
        <5>1. native[q] \in Instance /\ ident[native[q]] = q /\ native[q] <= lastReq
          BY <1>a, <2>h, <3>2, <4>2 DEF BridgeTyped, Named
        <5>2. native[q] # i /\ native[q] <= i
          BY <2>b, <5>1 DEF i
        <5> QED BY <2>a, <2>g, <2>h, <4>2, <5>1, <5>2
      <4> QED BY <4>1, <4>2
    <3>3. ASSUME NEW j \in Instance, j <= lastReq' PROVE ident'[j] \in RequestId
      <4>1. CASE j = i
        BY <2>h, <4>1
      <4>2. CASE j # i
        <5>1. j <= lastReq
          BY <2>a, <2>b, <3>3, <4>2 DEF i
        <5> QED BY <1>a, <2>g, <4>2, <5>1 DEF Named
      <4> QED BY <4>1, <4>2
    <3>4. ASSUME NEW j \in Instance, j > lastReq' PROVE phase'[j] = "new"
      <4>1. j > lastReq
        BY <2>a, <2>b, <3>4 DEF i
      <4> QED BY <1>a, <2>a, <4>1 DEF Named
    <3> QED BY <3>1, <3>2, <3>3, <3>4 DEF Named
  <2>4. PipeHolds'
    <3>1. \A n \in DOMAIN bridgePipe : /\ bridgePipe[n].of \in Instance
                                       /\ bridgePipe[n].of <= lastReq
      BY <1>a, <2>d DEF PipeHolds, BridgeFrames
    <3>2. \A n \in DOMAIN bridgePipe : /\ bridgePipe[n].of # i /\ bridgePipe[n].of <= i
                                       /\ n < Len(bridgePipe) + 1
      BY <2>b, <2>d, <3>1 DEF i
    <3>3. f.of = i /\ ~f.closed /\ i <= i
      BY <2>b DEF f, i
    <3>4. OpenOrOnItsWay(i, native', ident', bridgePipe')
      BY <2>h DEF OpenOrOnItsWay
    <3>5. \A n \in DOMAIN bridgePipe' : bridgePipe'[n].of <= lastReq'
      BY <2>a, <2>d, <2>e, <3>2, <3>3
    <3>6. ASSUME NEW n \in DOMAIN bridgePipe', ~bridgePipe'[n].closed
          PROVE  /\ phase'[bridgePipe'[n].of] = "new"
                 /\ OpenOrOnItsWay(bridgePipe'[n].of, native', ident', bridgePipe')
      <4>1. CASE n \in DOMAIN bridgePipe
        BY <1>a, <2>a, <2>d, <2>i, <3>1, <3>6, <4>1 DEF PipeHolds
      <4>2. CASE n = Len(bridgePipe) + 1
        BY <2>a, <2>b, <2>d, <3>3, <3>4, <4>2
      <4> QED BY <2>e, <4>1, <4>2
    <3>7. ASSUME NEW n \in DOMAIN bridgePipe', NEW k \in DOMAIN bridgePipe',
                 ~bridgePipe'[n].closed, bridgePipe'[n].of = bridgePipe'[k].of
          PROVE  /\ ~bridgePipe'[k].closed => n = k
                 /\ bridgePipe'[k].closed => n < k
      <4>1. CASE n \in DOMAIN bridgePipe /\ k \in DOMAIN bridgePipe
        BY <1>a, <2>d, <3>7, <4>1 DEF PipeHolds
      <4>2. CASE n = Len(bridgePipe) + 1 /\ k = Len(bridgePipe) + 1
        BY <2>d, <3>3, <4>2
      <4>3. CASE n = Len(bridgePipe) + 1 /\ k \in DOMAIN bridgePipe
        BY <2>d, <3>2, <3>3, <3>7, <4>3
      <4>4. CASE n \in DOMAIN bridgePipe /\ k = Len(bridgePipe) + 1
        BY <2>d, <3>2, <3>3, <3>7, <4>4
      <4> QED BY <2>e, <4>1, <4>2, <4>3, <4>4
    <3> QED BY <3>5, <3>6, <3>7 DEF PipeHolds
  <2>5. \A j \in Instance : phase'[j] # "new" => j # i /\ j <= lastReq /\ ident'[j] = ident[j]
    <3> SUFFICES ASSUME NEW j \in Instance, phase'[j] # "new"
                 PROVE  j # i /\ j <= lastReq /\ ident'[j] = ident[j]
      OBVIOUS
    <3>1. j # i /\ ~(j > lastReq)
      BY <1>a, <2>a, <2>b DEF Named
    <3> QED BY <2>b, <2>g, <3>1
  <2>6. StillOpen'
    <3> SUFFICES ASSUME NEW j \in Instance, phase'[j] \in Unanswered, j \notin cancelled'
                 PROVE  routed' /\ calls'[ident'[j]] = j
                        /\ OpenOrOnItsWay(j, native', ident', bridgePipe')
      BY DEF StillOpen
    <3>1. j # i /\ j <= lastReq /\ ident'[j] = ident[j]
      BY <2>5 DEF Unanswered
    <3>2. routed /\ calls[ident[j]] = j /\ OpenOrOnItsWay(j, native, ident, bridgePipe)
      BY <1>a, <2>a DEF StillOpen
    <3> QED BY <2>a, <2>i, <3>1, <3>2
  <2>7. FilesKept'
    BY <1>a, <2>a, <2>5 DEF FilesKept, Unanswered
  <2> QED BY <2>1, <2>2, <2>3, <2>4, <2>6, <2>7 DEF BridgeInv
<1>26. ASSUME NEW r \in RequestId, CallClosed(r) PROVE BridgeInv'
  <2> DEFINE i == native[r]
             f == [of |-> i, closed |-> TRUE]
  <2>a. /\ i # 0 /\ native' = [native EXCEPT ![r] = 0]
        /\ bridgePipe' = Append(bridgePipe, f)
        /\ UNCHANGED <<kind, config, defined, closedSig, routed, super, stopped, stop, ident,
                       lastReq, calls, cancelled, phase, bridgeQueue>>
    BY <1>26 DEF CallClosed, setupVars, endVars, workVars
  <2>b. i \in Instance /\ i <= lastReq
    BY <1>a, <2>a DEF BridgeTyped, Named
  <2>c. f \in BridgeFrames /\ bridgePipe \in Seq(BridgeFrames)
    BY <1>a, <2>b DEF BridgeTyped, BridgeFrames
  <2>d. /\ bridgePipe' \in Seq(BridgeFrames) /\ Len(bridgePipe) \in Nat
        /\ DOMAIN bridgePipe = 1 .. Len(bridgePipe)
        /\ DOMAIN bridgePipe' = 1 .. (Len(bridgePipe) + 1)
        /\ \A n \in DOMAIN bridgePipe : bridgePipe'[n] = bridgePipe[n]
                                        /\ bridgePipe[n] \in BridgeFrames
        /\ bridgePipe'[Len(bridgePipe) + 1] = f
        /\ \A j : OnItsWay(j, bridgePipe) => OnItsWay(j, bridgePipe')
    BY <2>a, <2>c, FrameSent
  <2>e. \A n \in DOMAIN bridgePipe' : n \in DOMAIN bridgePipe \/ n = Len(bridgePipe) + 1
    BY <2>d
  <2>f. native' \in [RequestId -> {0} \cup Instance]
    BY <1>a, <2>a DEF BridgeTyped
  <2>g. native'[r] = 0 /\ \A q \in RequestId : q # r => native'[q] = native[q]
    BY <1>a, <2>a DEF BridgeTyped
  <2>h. OnItsWay(i, bridgePipe')
    <3>1. Len(bridgePipe) + 1 \in DOMAIN bridgePipe'
      BY <2>d
    <3> QED BY <2>d, <3>1 DEF OnItsWay
  <2>i. ASSUME NEW j \in Instance, j <= lastReq, OpenOrOnItsWay(j, native, ident, bridgePipe)
        PROVE  OpenOrOnItsWay(j, native', ident', bridgePipe')
    <3>1. ident[j] \in RequestId
      BY <1>a, <2>i DEF Named
    <3>2. CASE native[ident[j]] = j /\ ident[j] = r
      BY <2>h, <3>2 DEF OpenOrOnItsWay
    <3>3. CASE native[ident[j]] = j /\ ident[j] # r
      BY <2>a, <2>g, <3>1, <3>3 DEF OpenOrOnItsWay
    <3>4. CASE OnItsWay(j, bridgePipe)
      BY <2>d, <3>4 DEF OpenOrOnItsWay
    <3> QED BY <2>i, <3>2, <3>3, <3>4 DEF OpenOrOnItsWay
  <2> HIDE DEF i, f
  <2>1. BridgeTyped'
    BY <1>a, <2>a, <2>d, <2>f DEF BridgeTyped
  <2>2. Owned' /\ QueueHolds' /\ FilesKept' /\ FilesNeverOverflow' /\ StoppedFirst'
    BY <1>a, <2>a
       DEF Owned, DefinitionsOwned, QueueHolds, FilesKept, FilesNeverOverflow, StoppedFirst
  <2>3. Named'
    BY <1>a, <2>a, <2>g DEF Named
  <2>4. PipeHolds'
    <3>1. \A n \in DOMAIN bridgePipe : /\ bridgePipe[n].of \in Instance
                                       /\ bridgePipe[n].of <= lastReq
                                       /\ n < Len(bridgePipe) + 1
      BY <1>a, <2>d DEF PipeHolds, BridgeFrames
    <3>2. f.of = i /\ f.closed
      BY DEF f
    <3>3. \A n \in DOMAIN bridgePipe' : bridgePipe'[n].of <= lastReq'
      BY <2>a, <2>b, <2>d, <2>e, <3>1, <3>2
    <3>4. ASSUME NEW n \in DOMAIN bridgePipe', ~bridgePipe'[n].closed
          PROVE  /\ n \in DOMAIN bridgePipe /\ ~bridgePipe[n].closed
                 /\ phase'[bridgePipe'[n].of] = "new"
                 /\ OpenOrOnItsWay(bridgePipe'[n].of, native', ident', bridgePipe')
      <4>1. n \in DOMAIN bridgePipe /\ ~bridgePipe[n].closed
        BY <2>d, <2>e, <3>2, <3>4
      <4> QED BY <1>a, <2>a, <2>d, <2>i, <3>1, <4>1 DEF PipeHolds
    <3>5. ASSUME NEW n \in DOMAIN bridgePipe', NEW k \in DOMAIN bridgePipe',
                 ~bridgePipe'[n].closed, bridgePipe'[n].of = bridgePipe'[k].of
          PROVE  /\ ~bridgePipe'[k].closed => n = k
                 /\ bridgePipe'[k].closed => n < k
      <4>1. n \in DOMAIN bridgePipe /\ ~bridgePipe[n].closed
        BY <3>4, <3>5
      <4>2. CASE k \in DOMAIN bridgePipe
        BY <1>a, <2>d, <3>5, <4>1, <4>2 DEF PipeHolds
      <4>3. CASE k = Len(bridgePipe) + 1
        BY <2>d, <3>1, <3>2, <4>1, <4>3
      <4> QED BY <2>e, <4>2, <4>3
    <3> QED BY <3>3, <3>4, <3>5 DEF PipeHolds
  <2>5. StillOpen'
    <3> SUFFICES ASSUME NEW j \in Instance, phase'[j] \in Unanswered, j \notin cancelled'
                 PROVE  routed' /\ calls'[ident'[j]] = j
                        /\ OpenOrOnItsWay(j, native', ident', bridgePipe')
      BY DEF StillOpen
    <3>1. routed /\ calls[ident[j]] = j /\ OpenOrOnItsWay(j, native, ident, bridgePipe)
      BY <1>a, <2>a DEF StillOpen
    <3>2. ~(j > lastReq)
      BY <1>a, <2>a DEF Named, Unanswered
    <3>3. j <= lastReq
      BY <1>a, <3>2, BridgeConstants DEF BridgeTyped, Instance
    <3> QED BY <2>a, <2>i, <3>1, <3>3
  <2> QED BY <2>1, <2>2, <2>3, <2>4, <2>5 DEF BridgeInv
<1>27. CASE RouteRequest
  <2> DEFINE i == Head(bridgePipe).of
             r == ident[i]
  <2>a. /\ bridgePipe # << >> /\ bridgePipe' = Tail(bridgePipe) /\ ~Head(bridgePipe).closed
        /\ UNCHANGED <<kind, config, defined, closedSig, routed, super, stopped, stop, ident,
                       native, lastReq, cancelled>>
    BY <1>27 DEF RouteRequest, ReadsFrame, setupVars, nativeSide
  <2>b. \/ UNCHANGED <<calls, phase, bridgeQueue>>
        \/ /\ routed /\ ~stopped /\ calls[r] = 0 /\ calls' = [calls EXCEPT ![r] = i]
           /\ phase' = [phase EXCEPT ![i] = "queued"] /\ bridgeQueue' = Append(bridgeQueue, i)
        \/ /\ routed /\ ~stopped /\ calls[r] = 0 /\ calls' = [calls EXCEPT ![r] = i]
           /\ ~(Cardinality(Entered) >= MaxCalls)
           /\ ~(Len(bridgeQueue) < MaxCalls) \/ (kind = "files" /\ super = "drain")
           /\ phase' = [phase EXCEPT ![i] = "lost"] /\ UNCHANGED bridgeQueue
    BY <1>27 DEF RouteRequest
  <2>c. bridgePipe \in Seq(BridgeFrames)
    BY <1>a DEF BridgeTyped
  <2>d. /\ bridgePipe' \in Seq(BridgeFrames) /\ 1 \in DOMAIN bridgePipe
        /\ Head(bridgePipe) = bridgePipe[1] /\ bridgePipe[1] \in BridgeFrames
        /\ \A n \in DOMAIN bridgePipe' : /\ n \in Nat /\ n + 1 \in DOMAIN bridgePipe /\ n + 1 # 1
                                         /\ bridgePipe'[n] = bridgePipe[n + 1]
                                         /\ bridgePipe[n + 1] \in BridgeFrames
    BY <2>a, <2>c, FrameRead
  <2>e. \A j : OnItsWay(j, bridgePipe) => OnItsWay(j, bridgePipe')
    <3>1. \A j : bridgePipe[1] # [of |-> j, closed |-> TRUE]
      BY <2>a, <2>d
    <3> QED BY <2>a, <2>c, <3>1, FrameRead
  <2>f. \A j : OpenOrOnItsWay(j, native, ident, bridgePipe)
               => OpenOrOnItsWay(j, native', ident', bridgePipe')
    BY <2>a, <2>e DEF OpenOrOnItsWay
  <2>g. /\ i \in Instance /\ i <= lastReq /\ phase[i] = "new"
        /\ OpenOrOnItsWay(i, native, ident, bridgePipe)
    BY <1>a, <2>a, <2>d DEF PipeHolds, BridgeFrames
  <2>h. r \in RequestId
    BY <1>a, <2>g DEF Named
  <2>i. \A j \in Instance : j \in Nat /\ j # 0
    BY BridgeConstants DEF Instance
  <2>j. lastReq \in Nat
    BY <1>a, <2>i DEF BridgeTyped
  <2>k. \A j \in Instance : j # i => phase'[j] = phase[j]
    BY <1>a, <2>b DEF BridgeTyped
  <2>l. \A q \in RequestId : calls'[q] = calls[q] \/ (q = r /\ calls[r] = 0 /\ calls'[r] = i)
    BY <1>a, <2>b, <2>h DEF BridgeTyped
  <2>m. bridgeQueue' \in Seq(Instance) /\ Len(bridgeQueue) \in Nat
    <3>1. bridgeQueue \in Seq(Instance) /\ i \in Instance
      BY <1>a, <2>g DEF BridgeTyped
    <3>2. Append(bridgeQueue, i) \in Seq(Instance) /\ Len(bridgeQueue) \in Nat
      BY <3>1
    <3> QED BY <2>b, <3>1, <3>2
  <2>n. /\ calls' \in [RequestId -> {0} \cup Instance]
        /\ phase' \in [Instance -> {"new", "queued", "run", "joining", "answer", "out",
                                    "exit", "panicked", "end", "lost"}]
    BY <1>a, <2>b, <2>g DEF BridgeTyped
  <2>o. phase'[i] # "new" => calls'[r] = i /\ phase'[i] \in {"queued", "lost"} /\ routed
    BY <1>a, <2>b, <2>g, <2>h DEF BridgeTyped
  <2>q. ident[i] = r
    OBVIOUS
  <2> HIDE DEF i, r
  <2>1. BridgeTyped'
    BY <1>a, <2>a, <2>d, <2>m, <2>n DEF BridgeTyped
  <2>2. Owned' /\ StoppedFirst'
    BY <1>a, <2>a DEF Owned, DefinitionsOwned, StoppedFirst
  <2>3. Named'
    <3>1. ASSUME NEW j \in Instance, j > lastReq' PROVE phase'[j] = "new"
      <4>1. j # i
        BY <2>a, <2>g, <2>i, <2>j, <3>1
      <4> QED BY <1>a, <2>a, <2>k, <3>1, <4>1 DEF Named
    <3>2. ASSUME NEW q \in RequestId, calls'[q] # 0
          PROVE  ident'[calls'[q]] = q /\ calls'[q] <= lastReq'
      <4>1. CASE calls'[q] = calls[q]
        BY <1>a, <2>a, <3>2, <4>1 DEF Named
      <4>2. CASE q = r /\ calls'[r] = i
        BY <2>a, <2>g, <2>q, <4>2
      <4> QED BY <2>l, <4>1, <4>2
    <3> QED BY <1>a, <2>a, <3>1, <3>2 DEF Named
  <2>4. QueueHolds'
    <3>1. CASE UNCHANGED bridgeQueue
      <4>1. \A j \in Instance : phase[j] = "queued" <=> phase'[j] = "queued"
        BY <1>a, <2>b, <2>g, <2>m, <3>1 DEF BridgeTyped
      <4> QED BY <1>a, <2>a, <3>1, <4>1 DEF QueueHolds, BridgeTyped
    <3>2. CASE /\ ~stopped /\ phase' = [phase EXCEPT ![i] = "queued"]
               /\ bridgeQueue' = Append(bridgeQueue, i)
      <4>1. /\ DOMAIN bridgeQueue = 1 .. Len(bridgeQueue)
            /\ DOMAIN bridgeQueue' = 1 .. (Len(bridgeQueue) + 1)
            /\ \A m \in DOMAIN bridgeQueue : bridgeQueue'[m] = bridgeQueue[m]
            /\ bridgeQueue'[Len(bridgeQueue) + 1] = i
        BY <1>a, <2>g, <2>m, <3>2 DEF BridgeTyped
      <4>2. \A m \in DOMAIN bridgeQueue : bridgeQueue[m] \in Instance /\ bridgeQueue[m] # i
        BY <1>a, <2>g DEF BridgeTyped, QueueHolds
      <4>3. \A m \in DOMAIN bridgeQueue' : m \in DOMAIN bridgeQueue \/ m = Len(bridgeQueue) + 1
        BY <2>m, <4>1
      <4>4. \A m \in DOMAIN bridgeQueue' : phase'[bridgeQueue'[m]] = "queued"
        BY <1>a, <2>g, <3>2, <4>1, <4>2, <4>3 DEF QueueHolds, BridgeTyped
      <4>5. \A m, l \in DOMAIN bridgeQueue' : bridgeQueue'[m] = bridgeQueue'[l] => m = l
        BY <1>a, <4>1, <4>2, <4>3 DEF QueueHolds
      <4>6. \A j \in Instance : phase'[j] = "queued"
                => \E m \in DOMAIN bridgeQueue' : bridgeQueue'[m] = j
        <5> SUFFICES ASSUME NEW j \in Instance, phase'[j] = "queued"
                     PROVE  \E m \in DOMAIN bridgeQueue' : bridgeQueue'[m] = j
          OBVIOUS
        <5>1. CASE j = i
          BY <2>m, <4>1, <5>1
        <5>2. CASE j # i
          <6>1. phase[j] = "queued"
            BY <2>k, <5>2
          <6>2. PICK m \in DOMAIN bridgeQueue : bridgeQueue[m] = j
            BY <1>a, <6>1 DEF QueueHolds
          <6>3. m \in DOMAIN bridgeQueue' /\ bridgeQueue'[m] = j
            BY <2>m, <4>1, <6>2
          <6> QED BY <6>3
        <5> QED BY <5>1, <5>2
      <4>7. super' \notin {"join", "done"}
        BY <1>a, <2>a, <3>2 DEF QueueHolds
      <4> QED BY <4>4, <4>5, <4>6, <4>7 DEF QueueHolds
    <3> QED BY <2>b, <3>1, <3>2
  <2>5. PipeHolds'
    <3>1. \A n \in DOMAIN bridgePipe' : /\ bridgePipe'[n].of \in Instance
                                        /\ bridgePipe'[n].of <= lastReq'
      BY <1>a, <2>a, <2>d DEF PipeHolds, BridgeFrames
    <3>2. ASSUME NEW n \in DOMAIN bridgePipe', ~bridgePipe'[n].closed
          PROVE  /\ phase'[bridgePipe'[n].of] = "new"
                 /\ OpenOrOnItsWay(bridgePipe'[n].of, native', ident', bridgePipe')
      <4>1. ~bridgePipe[1].closed /\ ~bridgePipe[n + 1].closed /\ bridgePipe[1].of = i
        BY <2>a, <2>d, <3>2 DEF i
      <4>2. bridgePipe[n + 1].of # i
        BY <1>a, <2>d, <4>1 DEF PipeHolds
      <4>3. /\ phase[bridgePipe[n + 1].of] = "new"
            /\ OpenOrOnItsWay(bridgePipe[n + 1].of, native, ident, bridgePipe)
        BY <1>a, <2>d, <4>1 DEF PipeHolds
      <4> QED BY <2>d, <2>f, <2>k, <3>1, <4>2, <4>3
    <3>3. ASSUME NEW n \in DOMAIN bridgePipe', NEW k \in DOMAIN bridgePipe',
                 ~bridgePipe'[n].closed, bridgePipe'[n].of = bridgePipe'[k].of
          PROVE  /\ ~bridgePipe'[k].closed => n = k
                 /\ bridgePipe'[k].closed => n < k
      <4>1. /\ ~bridgePipe'[k].closed => n + 1 = k + 1
            /\ bridgePipe'[k].closed => n + 1 < k + 1
        BY <1>a, <2>d, <3>3 DEF PipeHolds
      <4> QED BY <2>d, <4>1
    <3> QED BY <3>1, <3>2, <3>3 DEF PipeHolds
  <2>6. ASSUME NEW j \in Instance, calls[ident[j]] = j, j # i
        PROVE  calls'[ident'[j]] = j
    <3>1. calls[r] = 0 => ident[j] # r
      BY <2>i, <2>6
    <3> QED BY <1>a, <2>a, <2>b, <2>6, <3>1 DEF BridgeTyped
  <2>7. StillOpen'
    <3> SUFFICES ASSUME NEW j \in Instance, phase'[j] \in Unanswered, j \notin cancelled'
                 PROVE  routed' /\ calls'[ident'[j]] = j
                        /\ OpenOrOnItsWay(j, native', ident', bridgePipe')
      BY DEF StillOpen
    <3>1. CASE j = i
      BY <2>a, <2>f, <2>g, <2>o, <2>q, <3>1 DEF Unanswered
    <3>2. CASE j # i
      <4>1. routed /\ calls[ident[j]] = j /\ OpenOrOnItsWay(j, native, ident, bridgePipe)
        BY <1>a, <2>a, <2>k, <3>2 DEF StillOpen
      <4> QED BY <2>a, <2>f, <2>6, <3>2, <4>1
    <3> QED BY <3>1, <3>2
  <2>8. FilesKept'
    <3> SUFFICES ASSUME kind' = "files", NEW j \in Instance,
                        phase'[j] \in Unanswered \cup {"exit", "panicked"}
                 PROVE  calls'[ident'[j]] = j
      BY DEF FilesKept
    <3>1. CASE j = i
      BY <2>a, <2>o, <2>q, <3>1 DEF Unanswered
    <3>2. CASE j # i
      BY <1>a, <2>a, <2>k, <2>6, <3>2 DEF FilesKept
    <3> QED BY <3>1, <3>2
  <2>9. FilesNeverOverflow'
    <3> SUFFICES ASSUME kind = "files", NEW j \in Instance PROVE phase'[j] # "lost"
      BY <2>a DEF FilesNeverOverflow
    <3>1. Cardinality(Entered) \in Nat /\ Len(bridgeQueue) <= Cardinality(Entered)
      BY <1>a, QueueFits
    <3>2. ~(routed /\ ~stopped /\ super = "drain")
      BY <1>a DEF StoppedFirst
    <3>3. phase[j] # "lost"
      BY <1>a DEF FilesNeverOverflow
    <3> QED BY <1>a, <2>b, <2>m, <3>1, <3>2, <3>3, BridgeConstants DEF BridgeTyped
  <2> QED BY <2>1, <2>2, <2>3, <2>4, <2>5, <2>7, <2>8, <2>9 DEF BridgeInv
<1>28. CASE RouteClosed
  <2> DEFINE i == Head(bridgePipe).of
             r == ident[i]
  <2>a. /\ bridgePipe # << >> /\ bridgePipe' = Tail(bridgePipe) /\ Head(bridgePipe).closed
        /\ UNCHANGED <<kind, config, defined, closedSig, routed, super, stopped, stop, ident,
                       native, lastReq, phase, bridgeQueue>>
    BY <1>28 DEF RouteClosed, ReadsFrame, setupVars, endVars, nativeSide
  <2>b. \/ /\ routed /\ calls[r] # 0 /\ cancelled' = cancelled \cup {calls[r]}
           /\ \/ kind = "tools" /\ calls' = [calls EXCEPT ![r] = 0]
              \/ phase[calls[r]] = "end" /\ calls' = [calls EXCEPT ![r] = 0]
              \/ calls' = [calls EXCEPT ![r] = calls[r]]
        \/ ~(routed /\ calls[r] # 0) /\ UNCHANGED <<cancelled, calls>>
    <3>1. \/ /\ routed /\ calls[r] # 0 /\ cancelled' = cancelled \cup {calls[r]}
             /\ \/ kind = "tools" /\ ClosedTool(r)
                \/ ClosedFile(r)
          \/ ~(routed /\ calls[r] # 0) /\ UNCHANGED <<cancelled, calls>>
      BY <1>28 DEF RouteClosed
    <3> QED BY <3>1 DEF ClosedTool, ClosedFile
  <2>c. bridgePipe \in Seq(BridgeFrames)
    BY <1>a DEF BridgeTyped
  <2>d. /\ bridgePipe' \in Seq(BridgeFrames) /\ 1 \in DOMAIN bridgePipe
        /\ Head(bridgePipe) = bridgePipe[1] /\ bridgePipe[1] \in BridgeFrames
        /\ \A n \in DOMAIN bridgePipe' : /\ n \in Nat /\ n + 1 \in DOMAIN bridgePipe /\ n + 1 # 1
                                         /\ bridgePipe'[n] = bridgePipe[n + 1]
                                         /\ bridgePipe[n + 1] \in BridgeFrames
    BY <2>a, <2>c, FrameRead
  <2>e. \A j : OnItsWay(j, bridgePipe) /\ j # i => OnItsWay(j, bridgePipe')
    <3>1. \A j : j # i => bridgePipe[1] # [of |-> j, closed |-> TRUE]
      BY <2>d
    <3> QED BY <2>a, <2>c, <3>1, FrameRead
  <2>f. \A j : OpenOrOnItsWay(j, native, ident, bridgePipe) /\ j # i
               => OpenOrOnItsWay(j, native', ident', bridgePipe')
    BY <2>a, <2>e DEF OpenOrOnItsWay
  <2>g. i \in Instance /\ i <= lastReq
    BY <1>a, <2>d DEF PipeHolds, BridgeFrames
  <2>h. r \in RequestId /\ ident[i] = r
    BY <1>a, <2>g DEF Named
  <2>i. \A j \in Instance : j \in Nat /\ j # 0
    BY BridgeConstants DEF Instance
  <2>j. /\ calls' \in [RequestId -> {0} \cup Instance] /\ cancelled' \subseteq Instance
        /\ cancelled \subseteq cancelled'
    BY <1>a, <2>b, <2>h DEF BridgeTyped
  <2>k. \A q \in RequestId : calls'[q] = calls[q] \/ (q = r /\ calls'[q] = 0)
    BY <1>a, <2>b, <2>h DEF BridgeTyped
  <2>l. kind = "files" => calls'[r] = calls[r] \/ phase[calls[r]] = "end"
    BY <1>a, <2>b, <2>h DEF BridgeTyped
  <2>m. routed /\ calls[r] # 0 => calls[r] \in cancelled'
    BY <2>b
  <2> HIDE DEF i, r
  <2>1. BridgeTyped'
    BY <1>a, <2>a, <2>d, <2>j DEF BridgeTyped
  <2>2. Owned' /\ QueueHolds' /\ FilesNeverOverflow' /\ StoppedFirst'
    BY <1>a, <2>a DEF Owned, DefinitionsOwned, QueueHolds, FilesNeverOverflow, StoppedFirst
  <2>3. Named'
    BY <1>a, <2>a, <2>k DEF Named
  <2>4. PipeHolds'
    <3>1. \A n \in DOMAIN bridgePipe' : /\ bridgePipe'[n].of \in Instance
                                        /\ bridgePipe'[n].of <= lastReq'
      BY <1>a, <2>a, <2>d DEF PipeHolds, BridgeFrames
    <3>2. ASSUME NEW n \in DOMAIN bridgePipe', ~bridgePipe'[n].closed
          PROVE  /\ phase'[bridgePipe'[n].of] = "new"
                 /\ OpenOrOnItsWay(bridgePipe'[n].of, native', ident', bridgePipe')
      <4>1. bridgePipe[1].closed /\ ~bridgePipe[n + 1].closed /\ bridgePipe[1].of = i
        BY <2>a, <2>d, <3>2 DEF i
      <4>2. ~(n + 1 < 1)
        BY <2>d
      <4>3. bridgePipe[n + 1].of # i
        BY <1>a, <2>d, <4>1, <4>2 DEF PipeHolds
      <4>4. /\ phase[bridgePipe[n + 1].of] = "new"
            /\ OpenOrOnItsWay(bridgePipe[n + 1].of, native, ident, bridgePipe)
        BY <1>a, <2>d, <4>1 DEF PipeHolds
      <4> QED BY <2>a, <2>d, <2>f, <4>3, <4>4
    <3>3. ASSUME NEW n \in DOMAIN bridgePipe', NEW k \in DOMAIN bridgePipe',
                 ~bridgePipe'[n].closed, bridgePipe'[n].of = bridgePipe'[k].of
          PROVE  /\ ~bridgePipe'[k].closed => n = k
                 /\ bridgePipe'[k].closed => n < k
      <4>1. /\ ~bridgePipe'[k].closed => n + 1 = k + 1
            /\ bridgePipe'[k].closed => n + 1 < k + 1
        BY <1>a, <2>d, <3>3 DEF PipeHolds
      <4> QED BY <2>d, <4>1
    <3> QED BY <3>1, <3>2, <3>3 DEF PipeHolds
  <2>5. StillOpen'
    <3> SUFFICES ASSUME NEW j \in Instance, phase'[j] \in Unanswered, j \notin cancelled'
                 PROVE  routed' /\ calls'[ident'[j]] = j
                        /\ OpenOrOnItsWay(j, native', ident', bridgePipe')
      BY DEF StillOpen
    <3>1. routed /\ calls[ident[j]] = j /\ OpenOrOnItsWay(j, native, ident, bridgePipe)
      BY <1>a, <2>a, <2>j DEF StillOpen
    <3>2. ident[j] # r
      BY <2>i, <2>m, <3>1
    <3>3. j # i /\ ~(j > lastReq)
      BY <1>a, <2>a, <2>h, <3>2 DEF Named, Unanswered
    <3>4. ident[j] \in RequestId
      BY <1>a, <2>i, <3>3 DEF Named, BridgeTyped
    <3> QED BY <2>a, <2>f, <2>k, <3>1, <3>2, <3>3, <3>4
  <2>6. FilesKept'
    <3> SUFFICES ASSUME kind = "files", NEW j \in Instance,
                        phase[j] \in Unanswered \cup {"exit", "panicked"}
                 PROVE  calls'[ident[j]] = j
      BY <2>a DEF FilesKept
    <3>1. calls[ident[j]] = j
      BY <1>a DEF FilesKept
    <3>2. phase[j] # "end" /\ ~(j > lastReq)
      BY <1>a DEF Named, Unanswered
    <3>3. ident[j] \in RequestId
      BY <1>a, <2>i, <3>2 DEF Named, BridgeTyped
    <3> QED BY <2>k, <2>l, <3>1, <3>2, <3>3
  <2> QED BY <2>1, <2>2, <2>3, <2>4, <2>5, <2>6 DEF BridgeInv
<1>29. CASE UNCHANGED bridgeVars
  <2>1. BridgeTyped' /\ Owned' /\ QueueHolds' /\ StoppedFirst'
    BY <1>a, <1>29 DEF BridgeTyped, Owned, DefinitionsOwned, QueueHolds, StoppedFirst, bridgeVars
  <2>2. UNCHANGED <<kind, routed, workVars, nativeSide, bridgePipe>>
    BY <1>29 DEF workVars, nativeSide, bridgeVars
  <2> QED BY <1>b, <2>1, <2>2 DEF BridgeInv
<1> QED
  BY <1>1, <1>2, <1>3, <1>4, <1>5, <1>6, <1>7, <1>8, <1>9, <1>10, <1>11, <1>12, <1>13, <1>14,
     <1>15, <1>16, <1>17, <1>18, <1>19, <1>20, <1>21, <1>22, <1>23, <1>24, <1>25, <1>26, <1>27,
     <1>28, <1>29
     DEF BridgeNext, Configure, Supervisor, Worker

(* The writer begins only what stands for the native. *)
LEMMA BridgeAnswers ==
    BridgeInv /\ [BridgeNext]_bridgeVars =>
      \A i \in Instance : bridgeWriting' = i /\ bridgeWriting # i =>
         /\ calls[ident[i]] = i
         /\ native[ident[i]] = i \/ OnItsWay(i, bridgePipe)
<1> SUFFICES ASSUME BridgeInv, [BridgeNext]_bridgeVars,
                    NEW i \in Instance, bridgeWriting' = i, bridgeWriting # i
             PROVE  calls[ident[i]] = i /\ OpenOrOnItsWay(i, native, ident, bridgePipe)
  BY DEF OpenOrOnItsWay
<1>1. i # 0
  BY BridgeConstants DEF Instance
<1>2. PICK k \in Instance : StartWrite(k)
  BY <1>1 DEF BridgeNext, Configure, Supervisor, Worker, ConfigureBegin, DiscoverEnds,
         CandidateShut, NativeDefines, Acknowledged, ConfigureFails, Install, FilesReaderEnds,
         SupervisorStops, CallOpened, CallClosed, RouteRequest, RouteClosed, RunSettled,
         CloseRouted, Receive, SupervisorDrains, SupervisorEnds, JoinNext, JoinPanicked,
         WorkerPanics, WorkerStep, CallReturns, Respond, AnswerAcknowledged, RespondEnds,
         EndWrite, bridgeVars, tableVars, bridgeWire, writeVars
<1>3. phase[i] = "out" /\ i \notin cancelled
  BY <1>2 DEF StartWrite, Writable
<1> QED BY <1>3 DEF BridgeInv, StillOpen, Unanswered

-----------------------------------------------------------------------------
(* Resource transitions (ResourceTransition).                               *)

Bindings == [rev: Nat, op: Operation \cup {NoOperation}]
Intents == [id: Operation, sel: Target, sup: Operation \cup {NoOperation},
            expected: Nat, native: Nat,
            status: {"Pending", "Blocked", "Applied", "Superseded"}, result: Bindings]
Ledgers == [rev: Nat, sel: Target \cup {"none"}, obs: Bindings, ops: Seq(Intents)]
NativeChildren == [st: {"none", "starting", "locked", "up", "gone"},
                   op: Operation \cup {NoOperation}, exp: Nat, sel: Target \cup {"none"}]

\* How a ledger L, the native's binding b, the operations C it ever committed
\* and the startup requests of its children agree.
BoundIn(L, b, C) ==
  b.op # NoOperation =>
    b.op \in C /\ \E j \in DOMAIN L.ops : L.ops[j].id = b.op /\ b.rev = L.ops[j].native + 1
CommittedIn(L, b, C) ==
  \A o \in C : \E j \in DOMAIN L.ops : L.ops[j].id = o /\ L.ops[j].native < b.rev
KidsIn(L, ch) ==
  \A g \in Generation : ch[g].op # NoOperation =>
    \E j \in DOMAIN L.ops : L.ops[j].id = ch[g].op /\ L.ops[j].native = ch[g].exp
AppliedIn(L, b, lg) ==
  \A i \in LastApplied(L) :
    \/ b = L.ops[i].result
    \/ /\ Blocked(L)
       /\ \E j \in (i + 1) .. Len(L.ops) : b.op = L.ops[j].id /\ (lg \/ j = Len(L.ops))
SupersededIn(L, C, lg) ==
  ~lg => \A i \in DOMAIN L.ops : L.ops[i].status = "Superseded" => L.ops[i].id \notin C

Sound(L) == L \in Ledgers /\ Validate(L)
Accounts(L, b, C, ch, lg) ==
  /\ Sound(L)
  /\ BoundIn(L, b, C) /\ CommittedIn(L, b, C) /\ KidsIn(L, ch)
  /\ AppliedIn(L, b, lg) /\ SupersededIn(L, C, lg)

ResOwners ==
  [step: {"free", "inspect", "save", "exit", "spawn", "verify", "failed", "open"},
   op: Operation \cup {NoOperation}, sel: Target \cup {"none"},
   sup: Operation \cup {NoOperation}, gen: Generation \cup {0}, reading: BOOLEAN]
OwnerTyped ==
  /\ owner \in ResOwners
  /\ owner.step \notin {"free", "open"} => owner.op \in Operation /\ owner.sel \in Target
NativeTyped ==
  /\ child \in [Generation -> NativeChildren]
  /\ binding \in Bindings
  /\ resCommitted \subseteq Operation
  /\ live \in Generation \cup {0}
  /\ faults \in [n: Nat, linger: BOOLEAN]

\* Planned and Expected of any ledger.
Expects(L, op, sup) ==
  LET from == IF Existing(L, op) THEN op ELSE sup
  IN  IF from # NoOperation THEN L.ops[OpAt(L, from)].native ELSE L.obs.rev
Plan(L, op, sel, sup) ==
  LET base == IF L = NoRecord THEN [NoRecord EXCEPT !.sel = sel] ELSE L
      kept == [i \in DOMAIN base.ops |->
                 IF base.ops[i].id = sup
                 THEN [base.ops[i] EXCEPT !.status = "Superseded"] ELSE base.ops[i]]
  IN  [base EXCEPT !.ops = Append(kept,
         [id |-> op, sel |-> sel, sup |-> sup, expected |-> L.rev,
          native |-> Expects(L, op, sup), status |-> "Pending", result |-> Unbound])]

\* What the ledger says of the operation the owner's task carries out.
WaitingIn(L, op, sel) ==
  \E i \in DOMAIN L.ops : L.ops[i].id = op /\ Waiting(L.ops[i]) /\ L.ops[i].sel = sel
InHand ==
  /\ resLatch => owner.step \in {"free", "failed"}
  /\ ~resLatch => known = stored
  /\ owner.step \in {"inspect", "save"} =>
       IF Existing(known, owner.op) THEN WaitingIn(known, owner.op, owner.sel)
       ELSE Validate(Plan(known, owner.op, owner.sel, owner.sup))
  /\ owner.step \in {"exit", "spawn", "verify"} => WaitingIn(known, owner.op, owner.sel)
  /\ owner.step = "failed" /\ ~resLatch => WaitingIn(known, owner.op, owner.sel)
  /\ owner.step = "open" => ~Blocked(known)
  /\ ~Linger /\ owner.step = "save" /\ ~Existing(known, owner.op) /\ owner.sup # NoOperation =>
       binding.rev = Expects(known, owner.op, owner.sup)

\* The children, the live host and the owner's task.
OneAtATime ==
  /\ owner.gen # 0 => live = 0 /\ owner.step \in {"verify", "open", "failed"}
  /\ owner.step \in {"verify", "open"} => owner.gen \in Generation
  /\ owner.step = "verify" => child[owner.gen].op = owner.op
  /\ owner.step = "open" => child[owner.gen].op = NoOperation
  /\ owner.step = "spawn" => live = 0
  /\ live # 0 => child[live].st \in {"up", "gone"}
  /\ ~Linger => \A g \in Generation : Alive(g) =>
       g = live \/ (g = owner.gen /\ owner.step \in {"verify", "open"})
  /\ running => /\ live # 0 /\ ~retired /\ child[live].st = "up"
                /\ owner.step \notin {"save", "exit", "spawn"}

ResInv ==
  /\ OwnerTyped /\ NativeTyped
  /\ Accounts(stored, binding, resCommitted, child, Linger)
  /\ InHand /\ OneAtATime
  /\ ~rejected

(* A range of indexes is finite. *)
LEMMA RangesAreFinite == \A m \in Nat : IsFiniteSet(1 .. m)
<1> SUFFICES ASSUME NEW m \in Nat PROVE IsFiniteSet(1 .. m)
  OBVIOUS
<1>1. 1 \in Int /\ m \in Int
  OBVIOUS
<1> QED BY <1>1, FS_Interval


(* Induction on the natural numbers, for a set of them. *)
LEMMA NatSetInduction ==
    ASSUME NEW S, 0 \in S, \A n \in Nat : n \in S => n + 1 \in S
    PROVE  Nat \subseteq S
<1> DEFINE R == {ss \in Nat \X Nat : ss[1] < ss[2]}
           T == Nat \ S
<1>1. IsWellFoundedOn(R, Nat)
  BY NatLessThanWellFounded DEF OpToRel
<1>2. SUFFICES ASSUME T # {} PROVE FALSE
  OBVIOUS
<1>3. T \subseteq Nat
  OBVIOUS
<1> HIDE DEF T, R
<1>4. PICK x \in T : \A y \in T : <<y, x>> \notin R
  BY <1>1, <1>2, <1>3, WFMin
<1>5. x \in Nat /\ x \notin S /\ x # 0
  BY DEF T
<1>6. x - 1 \in T /\ (x - 1) + 1 = x
  BY <1>5 DEF T
<1>7. <<x - 1, x>> \in R
  BY <1>5, <1>6 DEF R, T
<1> QED BY <1>4, <1>6, <1>7

(* What the members of a ledger are. *)
LEMMA LedgerShape ==
    ASSUME NEW L \in Ledgers
    PROVE  /\ L.ops \in Seq(Intents) /\ DOMAIN L.ops = 1 .. Len(L.ops) /\ Len(L.ops) \in Nat
           /\ L.rev \in Nat /\ L.obs \in Bindings /\ L.sel \in Target \cup {"none"}
           /\ \A i \in DOMAIN L.ops : L.ops[i] \in Intents
BY DEF Ledgers

(* What the members of an intent are. *)
LEMMA IntentShape ==
    ASSUME NEW o \in Intents
    PROVE  /\ o.id \in Operation /\ o.id # NoOperation /\ o.sel \in Target
           /\ o.sup \in Operation \cup {NoOperation}
           /\ o.expected \in Nat /\ o.native \in Nat
           /\ o.status \in {"Pending", "Blocked", "Applied", "Superseded"}
           /\ o.result \in Bindings
BY TransitionConstants DEF Intents

(* Every identity stands once in a sound ledger. *)
LEMMA StandsOnce ==
    ASSUME NEW L, Sound(L), NEW i \in DOMAIN L.ops, NEW j \in DOMAIN L.ops,
           L.ops[i].id = L.ops[j].id
    PROVE  i = j
<1> DEFINE P == Position(L, L.ops[i].id)
<1>1. i \in P /\ j \in P
  BY DEF Position
<1>2. P \subseteq 1 .. Len(L.ops) /\ Len(L.ops) \in Nat
  BY LedgerShape DEF Position, Sound
<1>3. IsFiniteSet(P)
  <2>1. \A m \in Nat : IsFiniteSet(1 .. m)
    BY RangesAreFinite
  <2> HIDE DEF P
  <2> QED BY <1>2, <2>1, FS_Subset
<1>4. Cardinality(P) = 1
  BY DEF Sound, Validate, LedgerChain
<1>5. PICK x : P = {x}
  BY <1>3, <1>4, FS_Singleton
<1> QED BY <1>1, <1>5

(* The position of an identity is the one intent that has it. *)
LEMMA PositionOf ==
    ASSUME NEW L, Sound(L), NEW i \in DOMAIN L.ops
    PROVE  Existing(L, L.ops[i].id) /\ OpAt(L, L.ops[i].id) = i
<1>1. i \in Position(L, L.ops[i].id)
  BY DEF Position
<1>2. OpAt(L, L.ops[i].id) \in Position(L, L.ops[i].id)
  BY <1>1 DEF OpAt
<1>3. OpAt(L, L.ops[i].id) \in DOMAIN L.ops
        /\ L.ops[OpAt(L, L.ops[i].id)].id = L.ops[i].id
  BY <1>2 DEF Position
<1> QED BY <1>1, <1>3, StandsOnce DEF Existing

(* An identity in the ledger has a position. *)
LEMMA ExistingHas ==
    ASSUME NEW L, NEW o
    PROVE  Existing(L, o) <=> \E i \in DOMAIN L.ops : L.ops[i].id = o
BY DEF Existing, Position

(* What an applied operation left in the native. *)
LEMMA ResultIs ==
    ASSUME NEW L, Sound(L), NEW i \in DOMAIN L.ops, L.ops[i].status = "Applied"
    PROVE  /\ L.ops[i].result = [rev |-> L.ops[i].native + 1, op |-> L.ops[i].id]
           /\ L.ops[i].result.rev = L.ops[i].native + 1
           /\ L.ops[i].result.op = L.ops[i].id
<1>1. L.ops[i].result = [rev |-> L.ops[i].native + 1, op |-> L.ops[i].id]
  BY DEF Sound, Validate, BindingChain
<1> QED BY <1>1

(* Along a ledger what an operation expects of the native never decreases. *)
LEMMA NativesAscend ==
    ASSUME NEW L, Sound(L), NEW i \in DOMAIN L.ops, NEW j \in DOMAIN L.ops, i <= j
    PROVE  L.ops[i].native <= L.ops[j].native
<1> DEFINE S == {n \in Nat : i + n \in DOMAIN L.ops => L.ops[i].native <= L.ops[i + n].native}
<1>1. DOMAIN L.ops = 1 .. Len(L.ops) /\ Len(L.ops) \in Nat
      /\ \A k \in DOMAIN L.ops : L.ops[k] \in Intents
  BY LedgerShape DEF Sound
<1>2. 0 \in S
  BY <1>1, IntentShape
<1>3. ASSUME NEW n \in Nat, n \in S PROVE n + 1 \in S
  <2>1. SUFFICES ASSUME i + (n + 1) \in DOMAIN L.ops
                 PROVE  L.ops[i].native <= L.ops[i + (n + 1)].native
    OBVIOUS
  <2> DEFINE k == i + (n + 1)
  <2>2. k - 1 = i + n /\ k - 1 \in DOMAIN L.ops /\ k > 1 /\ k \in DOMAIN L.ops
    BY <1>1, <2>1
  <2>3. L.ops[i].native <= L.ops[k - 1].native
    BY <1>3, <2>2
  <2>4. L.ops[k].native = IF L.ops[k - 1].status = "Applied" THEN L.ops[k - 1].result.rev
                                                            ELSE L.ops[k - 1].native
    BY <2>2 DEF Sound, Validate, BindingChain
  <2>5. L.ops[k - 1].status = "Applied" => L.ops[k - 1].result.rev = L.ops[k - 1].native + 1
    BY <2>2, ResultIs
  <2>6. L.ops[k - 1].native \in Nat /\ L.ops[i].native \in Nat
    BY <1>1, <2>2, IntentShape
  <2> QED BY <2>3, <2>4, <2>5, <2>6
<1> HIDE DEF S
<1>4. Nat \subseteq S
  BY <1>2, <1>3, NatSetInduction
<1>5. j - i \in Nat /\ i + (j - i) = j
  BY <1>1
<1> QED BY <1>4, <1>5 DEF S

(* Behind the last applied operation every intent expects its result. *)
LEMMA NativesStay ==
    ASSUME NEW L, Sound(L), NEW i \in LastApplied(L), NEW j \in DOMAIN L.ops, i < j
    PROVE  L.ops[j].native = L.ops[i].native + 1
<1> DEFINE S == {n \in Nat : i + 1 + n \in DOMAIN L.ops
                                => L.ops[i + 1 + n].native = L.ops[i].native + 1}
<1>1. DOMAIN L.ops = 1 .. Len(L.ops) /\ Len(L.ops) \in Nat
      /\ \A k \in DOMAIN L.ops : L.ops[k] \in Intents
  BY LedgerShape DEF Sound
<1>2. i \in DOMAIN L.ops /\ L.ops[i].status = "Applied"
      /\ \A k \in DOMAIN L.ops : k > i => L.ops[k].status # "Applied"
  BY DEF LastApplied
<1>3. \A k \in DOMAIN L.ops : k > 1 =>
        L.ops[k].native = IF L.ops[k - 1].status = "Applied" THEN L.ops[k - 1].result.rev
                                                            ELSE L.ops[k - 1].native
  BY DEF Sound, Validate, BindingChain
<1>4. L.ops[i].result.rev = L.ops[i].native + 1
  BY <1>2, ResultIs
<1>5. 0 \in S
  <2>1. ASSUME i + 1 \in DOMAIN L.ops PROVE L.ops[i + 1].native = L.ops[i].native + 1
    <3>1. (i + 1) - 1 = i /\ i + 1 > 1
      BY <1>1, <1>2
    <3> QED BY <1>2, <1>3, <1>4, <2>1, <3>1
  <2> QED BY <1>1, <1>2, <2>1
<1>6. ASSUME NEW n \in Nat, n \in S PROVE n + 1 \in S
  <2>1. SUFFICES ASSUME i + 1 + (n + 1) \in DOMAIN L.ops
                 PROVE  L.ops[i + 1 + (n + 1)].native = L.ops[i].native + 1
    OBVIOUS
  <2> DEFINE k == i + 1 + (n + 1)
  <2>2. k - 1 = i + 1 + n /\ k - 1 \in DOMAIN L.ops /\ k > 1 /\ k \in DOMAIN L.ops /\ k - 1 > i
    <3>1. i \in Nat /\ i >= 1 /\ k \in 1 .. Len(L.ops)
      BY <1>1, <1>2, <2>1
    <3> QED BY <1>1, <3>1
  <2>3. L.ops[k - 1].native = L.ops[i].native + 1
    BY <1>6, <2>2
  <2>4. L.ops[k - 1].status # "Applied"
    BY <1>2, <2>2
  <2> QED BY <1>3, <2>2, <2>3, <2>4
<1> HIDE DEF S
<1>7. Nat \subseteq S
  BY <1>5, <1>6, NatSetInduction
<1>8. j - (i + 1) \in Nat /\ i + 1 + (j - (i + 1)) = j
  BY <1>1, <1>2
<1> QED BY <1>7, <1>8 DEF S

(* A ledger with no waiting intent ends in an applied one. *)
LEMMA EndsApplied ==
    ASSUME NEW L, Sound(L), ~Blocked(L), L.ops # << >>
    PROVE  Len(L.ops) \in LastApplied(L)
<1>1. DOMAIN L.ops = 1 .. Len(L.ops) /\ Len(L.ops) \in Nat /\ L.ops \in Seq(Intents)
  BY LedgerShape DEF Sound
<1>2. Len(L.ops) \in DOMAIN L.ops
  BY <1>1
<1>3. L.ops[Len(L.ops)] \in Intents /\ ~Waiting(L.ops[Len(L.ops)])
  BY <1>2, LedgerShape DEF Sound, Blocked
<1>4. L.ops[Len(L.ops)].status # "Superseded"
  BY <1>1, <1>2 DEF Sound, Validate, SupersedeChain
<1>5. L.ops[Len(L.ops)].status = "Applied"
  BY <1>3, <1>4, IntentShape DEF Waiting
<1> QED BY <1>1, <1>2, <1>5 DEF LastApplied

(* A sequence with one member replaced. *)
LEMMA OnePut ==
    ASSUME NEW S, NEW s \in Seq(S), NEW i \in DOMAIN s, NEW o \in S, NEW t,
           t = [s EXCEPT ![i] = o]
    PROVE  /\ t \in Seq(S) /\ Len(t) = Len(s) /\ DOMAIN t = DOMAIN s
           /\ \A j \in DOMAIN s : t[j] = IF j = i THEN o ELSE s[j]
OBVIOUS

\* M is L with another status and result on its last, waiting intent.
Marked(L, M, i) ==
  /\ M \in Ledgers /\ Len(M.ops) = Len(L.ops)
  /\ i \in DOMAIN L.ops /\ Waiting(L.ops[i]) /\ M.ops[i].status # "Superseded"
  /\ \A j \in DOMAIN L.ops :
       /\ j # i => M.ops[j] = L.ops[j]
       /\ M.ops[j].id = L.ops[j].id /\ M.ops[j].sup = L.ops[j].sup
       /\ M.ops[j].expected = L.ops[j].expected /\ M.ops[j].native = L.ops[j].native
       /\ M.ops[j].sel = L.ops[j].sel

(* An unfinished mark leaves the chains of identities, revisions and
   replacements as they were. *)
LEMMA MarkKeeps ==
    ASSUME NEW L, Sound(L), NEW M, NEW i, Marked(L, M, i)
    PROVE  /\ DOMAIN M.ops = DOMAIN L.ops /\ i = Len(L.ops)
           /\ \A j \in DOMAIN L.ops : RevisionBefore(M, j) = RevisionBefore(L, j)
           /\ LedgerChain(M) /\ SupersedeChain(M)
<1>1. DOMAIN L.ops = 1 .. Len(L.ops) /\ Len(L.ops) \in Nat
      /\ DOMAIN M.ops = 1 .. Len(L.ops)
  BY LedgerShape DEF Sound, Marked
<1>2. i = Len(L.ops) /\ 1 \in DOMAIN L.ops
  BY <1>1 DEF Sound, Validate, LedgerChain, Marked
<1>3. ASSUME NEW j \in DOMAIN L.ops PROVE RevisionBefore(M, j) = RevisionBefore(L, j)
  <2>1. \A k \in 1 .. (j - 1) : k \in DOMAIN L.ops /\ M.ops[k] = L.ops[k]
    BY <1>1, <1>2 DEF Marked
  <2>2. {k \in 1 .. (j - 1) : M.ops[k].status = "Applied"}
          = {k \in 1 .. (j - 1) : L.ops[k].status = "Applied"}
    BY <2>1
  <2>3. M.ops # << >> /\ L.ops # << >> /\ M.ops[1].expected = L.ops[1].expected
    BY <1>1, <1>2 DEF Marked
  <2> QED BY <2>2, <2>3 DEF RevisionBefore
<1>4. LedgerChain(M)
  <2>1. SUFFICES ASSUME NEW j \in DOMAIN L.ops
                 PROVE  /\ M.ops[1].expected <= 1
                        /\ M.ops[j].expected = RevisionBefore(M, j)
                        /\ Cardinality(Position(M, M.ops[j].id)) = 1
                        /\ Waiting(M.ops[j]) => j = Len(M.ops)
    BY <1>1 DEF LedgerChain
  <2>2. /\ L.ops[1].expected <= 1
        /\ L.ops[j].expected = RevisionBefore(L, j)
        /\ Cardinality(Position(L, L.ops[j].id)) = 1
        /\ Waiting(L.ops[j]) => j = Len(L.ops)
    BY DEF Sound, Validate, LedgerChain
  <2>3. Position(M, M.ops[j].id) = Position(L, L.ops[j].id)
    BY <1>1 DEF Position, Marked
  <2>4. M.ops[1].expected = L.ops[1].expected /\ M.ops[j].expected = L.ops[j].expected
        /\ Len(M.ops) = Len(L.ops) /\ (j # i => M.ops[j] = L.ops[j])
    BY <1>2 DEF Marked
  <2> QED BY <1>2, <1>3, <2>2, <2>3, <2>4
<1>5. SupersedeChain(M)
  <2>1. SUFFICES ASSUME NEW j \in DOMAIN L.ops
                 PROVE  /\ M.ops[j].sup # NoOperation =>
                             j > 1 /\ M.ops[j - 1].status = "Superseded"
                                   /\ M.ops[j - 1].id = M.ops[j].sup
                        /\ M.ops[j].status = "Superseded" =>
                             j < Len(M.ops) /\ M.ops[j + 1].sup = M.ops[j].id
    BY <1>1 DEF SupersedeChain
  <2>2. /\ L.ops[j].sup # NoOperation =>
             j > 1 /\ L.ops[j - 1].status = "Superseded"
                   /\ L.ops[j - 1].id = L.ops[j].sup
        /\ L.ops[j].status = "Superseded" =>
             j < Len(L.ops) /\ L.ops[j + 1].sup = L.ops[j].id
    BY DEF Sound, Validate, SupersedeChain
  <2>3. j > 1 => j - 1 \in DOMAIN L.ops /\ j - 1 # i
    BY <1>1, <1>2
  <2>4. j < Len(L.ops) => j + 1 \in DOMAIN L.ops
    BY <1>1
  <2>5. j > 1 => M.ops[j - 1] = L.ops[j - 1]
    BY <2>3 DEF Marked
  <2>6. M.ops[j].sup # NoOperation =>
             j > 1 /\ M.ops[j - 1].status = "Superseded" /\ M.ops[j - 1].id = M.ops[j].sup
    BY <2>2, <2>5 DEF Marked
  <2>7. M.ops[j].status = "Superseded" => j # i /\ M.ops[j] = L.ops[j]
    BY DEF Marked
  <2>8. j < Len(L.ops) => M.ops[j + 1].sup = L.ops[j + 1].sup
    BY <2>4 DEF Marked
  <2>9. Len(M.ops) = Len(L.ops)
    BY DEF Marked
  <2> QED BY <2>2, <2>6, <2>7, <2>8, <2>9
<1> QED BY <1>1, <1>2, <1>3, <1>4, <1>5

(* It leaves the native's chain when the marked intent's own result is right. *)
LEMMA MarkBinds ==
    ASSUME NEW L, Sound(L), NEW M, NEW i, Marked(L, M, i),
           M.ops[i].status = "Applied" =>
             M.ops[i].result = [rev |-> L.ops[i].native + 1, op |-> L.ops[i].id],
           M.ops[i].status # "Applied" => M.ops[i].result = Unbound
    PROVE  BindingChain(M)
<1>1. DOMAIN L.ops = 1 .. Len(L.ops) /\ Len(L.ops) \in Nat
      /\ DOMAIN M.ops = DOMAIN L.ops /\ i = Len(L.ops)
  BY LedgerShape, MarkKeeps DEF Sound
<1>2. SUFFICES ASSUME NEW j \in DOMAIN L.ops
               PROVE  /\ j > 1 => M.ops[j].native =
                            IF M.ops[j - 1].status = "Applied" THEN M.ops[j - 1].result.rev
                                                               ELSE M.ops[j - 1].native
                      /\ M.ops[j].status = "Applied" =>
                           M.ops[j].result = [rev |-> M.ops[j].native + 1, op |-> M.ops[j].id]
                      /\ M.ops[j].status # "Applied" => M.ops[j].result = Unbound
  BY <1>1 DEF BindingChain
<1>3. /\ j > 1 => L.ops[j].native =
            IF L.ops[j - 1].status = "Applied" THEN L.ops[j - 1].result.rev
                                               ELSE L.ops[j - 1].native
      /\ L.ops[j].status = "Applied" =>
           L.ops[j].result = [rev |-> L.ops[j].native + 1, op |-> L.ops[j].id]
      /\ L.ops[j].status # "Applied" => L.ops[j].result = Unbound
  BY DEF Sound, Validate, BindingChain
<1>4. j > 1 => j - 1 \in DOMAIN L.ops /\ j - 1 # i
  BY <1>1
<1>5. j > 1 => M.ops[j - 1] = L.ops[j - 1]
  BY <1>4 DEF Marked
<1>6. M.ops[j].native = L.ops[j].native /\ M.ops[j].id = L.ops[j].id
      /\ (j # i => M.ops[j] = L.ops[j])
  BY DEF Marked
<1> QED BY <1>3, <1>5, <1>6

(* A sound ledger stays sound when its waiting intent is blocked. *)
LEMMA BlockKeeps ==
    ASSUME NEW L, Sound(L), NEW i \in DOMAIN L.ops, Waiting(L.ops[i]), NEW M,
           M = [L EXCEPT !.ops[i].status = "Blocked"]
    PROVE  Sound(M) /\ Marked(L, M, i) /\ M.ops[i].status = "Blocked"
<1> DEFINE o == [L.ops[i] EXCEPT !.status = "Blocked"]
<1>1. L.ops \in Seq(Intents) /\ L.ops[i] \in Intents /\ L \in Ledgers
      /\ DOMAIN L.ops = 1 .. Len(L.ops) /\ Len(L.ops) \in Nat
  BY LedgerShape DEF Sound
<1>2. M.ops = [L.ops EXCEPT ![i] = o] /\ M.rev = L.rev /\ M.sel = L.sel /\ M.obs = L.obs
      /\ M = [L EXCEPT !.ops = [L.ops EXCEPT ![i] = o]]
  BY <1>1 DEF Ledgers
<1>3. /\ o \in Intents /\ o.id = L.ops[i].id /\ o.sup = L.ops[i].sup
      /\ o.expected = L.ops[i].expected /\ o.native = L.ops[i].native
      /\ o.sel = L.ops[i].sel /\ o.status = "Blocked" /\ o.result = L.ops[i].result
  BY <1>1 DEF Intents
<1> HIDE DEF o
<1>4. M.ops \in Seq(Intents) /\ Len(M.ops) = Len(L.ops)
      /\ \A j \in DOMAIN L.ops : M.ops[j] = IF j = i THEN o ELSE L.ops[j]
  BY <1>1, <1>2, <1>3, OnePut, SMTT(40)
<1>5. M \in Ledgers
  BY <1>1, <1>2, <1>4 DEF Ledgers
<1>6. Marked(L, M, i)
  BY <1>3, <1>4, <1>5 DEF Marked
<1>7. L.ops[i].result = Unbound
  BY DEF Sound, Validate, BindingChain, Waiting
<1>8. LedgerChain(M) /\ SupersedeChain(M) /\ DOMAIN M.ops = DOMAIN L.ops /\ i = Len(L.ops)
      /\ \A j \in DOMAIN L.ops : RevisionBefore(M, j) = RevisionBefore(L, j)
  BY <1>6, MarkKeeps
<1>9. BindingChain(M)
  BY <1>3, <1>4, <1>6, <1>7, MarkBinds
<1>10. CurrentAgrees(M)
  <2>1. CurrentAgrees(L)
    BY DEF Sound, Validate
  <2>2. \A j \in DOMAIN L.ops : (M.ops[j].status = "Applied") <=> (L.ops[j].status = "Applied")
    BY <1>3, <1>4 DEF Waiting
  <2>3. LastApplied(M) = LastApplied(L)
    BY <1>8, <2>2 DEF LastApplied
  <2>4. RevisionBefore(M, Len(M.ops) + 1) = RevisionBefore(L, Len(L.ops) + 1)
    <3> DEFINE A == {k \in 1 .. Len(L.ops) + 1 - 1 : L.ops[k].status = "Applied"}
               B == {k \in 1 .. Len(L.ops) + 1 - 1 : M.ops[k].status = "Applied"}
    <3>1. A = B
      BY <1>1, <2>2
    <3>2. M.ops # << >> /\ L.ops # << >> /\ M.ops[1].expected = L.ops[1].expected
      BY <1>1, <1>3, <1>4
    <3> HIDE DEF A, B
    <3>3. RevisionBefore(M, Len(M.ops) + 1) = M.ops[1].expected + Cardinality(B)
      BY <1>4, <3>2 DEF RevisionBefore, B
    <3>4. RevisionBefore(L, Len(L.ops) + 1) = L.ops[1].expected + Cardinality(A)
      BY <3>2 DEF RevisionBefore, A
    <3> QED BY <3>1, <3>2, <3>3, <3>4
  <2>5. L # NoRecord /\ L.ops # << >> /\ M.ops # << >>
    BY <1>1, <1>4 DEF NoRecord
  <2>6. M.ops[1].native = L.ops[1].native
    BY <1>1, <1>3, <1>4
  <2>7. \A k \in LastApplied(L) : M.ops[k].sel = L.ops[k].sel /\ M.ops[k].result = L.ops[k].result
    BY <1>3, <1>4, <1>7 DEF LastApplied
  <2> QED BY <1>2, <2>1, <2>3, <2>4, <2>5, <2>6, <2>7 DEF CurrentAgrees
<1>11. Len(M.ops) <= MaxOperations
  BY <1>4 DEF Sound, Validate
<1>12. M.ops[i].status = "Blocked"
  BY <1>3, <1>4
<1> QED BY <1>5, <1>6, <1>8, <1>9, <1>10, <1>11, <1>12 DEF Sound, Validate

\* The ledger with its i-th intent applied.
AppliedTo(L, i, b) ==
  [L EXCEPT !.rev = @ + 1, !.sel = L.ops[i].sel, !.obs = b,
            !.ops[i].status = "Applied", !.ops[i].result = b]

(* A sound ledger stays sound when its waiting intent is applied with the
   binding it was meant to have. *)
LEMMA ApplyKeeps ==
    ASSUME NEW L, Sound(L), NEW i \in DOMAIN L.ops, Waiting(L.ops[i]), NEW b \in Bindings, NEW M,
           b = [rev |-> L.ops[i].native + 1, op |-> L.ops[i].id],
           M = AppliedTo(L, i, b)
    PROVE  Sound(M) /\ Marked(L, M, i) /\ M.ops[i].status = "Applied" /\ M.ops[i].result = b
<1> DEFINE o == [L.ops[i] EXCEPT !.status = "Applied", !.result = b]
<1>1. L.ops \in Seq(Intents) /\ L.ops[i] \in Intents /\ L \in Ledgers /\ L.rev \in Nat
      /\ DOMAIN L.ops = 1 .. Len(L.ops) /\ Len(L.ops) \in Nat
  BY LedgerShape DEF Sound
<1>2. M.ops = [L.ops EXCEPT ![i] = o] /\ M.rev = L.rev + 1 /\ M.sel = L.ops[i].sel /\ M.obs = b
      /\ M = [rev |-> L.rev + 1, sel |-> L.ops[i].sel, obs |-> b, ops |-> [L.ops EXCEPT ![i] = o]]
  BY <1>1 DEF Ledgers, AppliedTo
<1>3. /\ o \in Intents /\ o.id = L.ops[i].id /\ o.sup = L.ops[i].sup
      /\ o.expected = L.ops[i].expected /\ o.native = L.ops[i].native
      /\ o.sel = L.ops[i].sel /\ o.status = "Applied" /\ o.result = b
  BY <1>1 DEF Intents
<1> HIDE DEF o
<1>4. M.ops \in Seq(Intents) /\ Len(M.ops) = Len(L.ops)
      /\ \A j \in DOMAIN L.ops : M.ops[j] = IF j = i THEN o ELSE L.ops[j]
  <2>1. M.ops = [L.ops EXCEPT ![i] = o] /\ L.ops \in Seq(Intents) /\ o \in Intents
    BY <1>1, <1>2, <1>3
  <2> QED BY ONLY <2>1, i \in DOMAIN L.ops, OnePut
<1>5. M \in Ledgers
  <2>1. L.ops[i].sel \in Target /\ L.rev + 1 \in Nat
    BY <1>1, IntentShape
  <2>2. M = [rev |-> L.rev + 1, sel |-> L.ops[i].sel, obs |-> b, ops |-> M.ops]
    BY <1>2
  <2>3. M.ops \in Seq(Intents) /\ L.ops[i].sel \in Target \cup {"none"}
    BY <1>4, <2>1
  <2> QED BY ONLY <2>1, <2>2, <2>3, b \in Bindings DEF Ledgers
<1>6. Marked(L, M, i)
  BY <1>3, <1>4, <1>5 DEF Marked
<1>8. LedgerChain(M) /\ SupersedeChain(M) /\ DOMAIN M.ops = DOMAIN L.ops /\ i = Len(L.ops)
      /\ \A j \in DOMAIN L.ops : RevisionBefore(M, j) = RevisionBefore(L, j)
  BY <1>6, MarkKeeps
<1>9. BindingChain(M)
  BY <1>3, <1>4, <1>6, MarkBinds
<1>10. CurrentAgrees(M)
  <2>1. CurrentAgrees(L) /\ L # NoRecord
    BY <1>1 DEF Sound, Validate, NoRecord
  <2>2. \A j \in DOMAIN L.ops : j # i =>
          ((M.ops[j].status = "Applied") <=> (L.ops[j].status = "Applied"))
    BY <1>4
  <2>3. LastApplied(M) = {i}
    <3>1. M.ops[i].status = "Applied" /\ DOMAIN M.ops = 1 .. i /\ i \in Nat /\ i \in 1 .. i
      BY <1>1, <1>3, <1>4, <1>8
    <3> QED BY ONLY <3>1 DEF LastApplied
  <2>4. RevisionBefore(M, Len(M.ops) + 1) = RevisionBefore(L, Len(L.ops) + 1) + 1
    <3> DEFINE A == {k \in 1 .. Len(L.ops) + 1 - 1 : L.ops[k].status = "Applied"}
               B == {k \in 1 .. Len(L.ops) + 1 - 1 : M.ops[k].status = "Applied"}
    <3>1. B = A \cup {i} /\ i \notin A
      <4>1. L.ops[i].status # "Applied" /\ M.ops[i].status = "Applied"
        BY <1>3, <1>4 DEF Waiting
      <4>2. \A k \in 1 .. Len(L.ops) : k # i =>
              ((M.ops[k].status = "Applied") <=> (L.ops[k].status = "Applied"))
        BY <1>1, <2>2
      <4>3. i \in 1 .. Len(L.ops) + 1 - 1 /\ 1 .. Len(L.ops) + 1 - 1 = 1 .. Len(L.ops)
        BY <1>1
      <4> QED BY ONLY <4>1, <4>2, <4>3
    <3>2. A \subseteq 1 .. Len(L.ops)
      BY <1>1
    <3>3. \A m \in Nat : IsFiniteSet(1 .. m)
      BY RangesAreFinite
    <3> HIDE DEF A, B
    <3>4. IsFiniteSet(A)
      BY <1>1, <3>2, <3>3, FS_Subset
    <3>5. Cardinality(B) = Cardinality(A) + 1 /\ Cardinality(A) \in Nat
      BY <3>1, <3>4, FS_AddElement, FS_CardinalityType
    <3>6. M.ops # << >> /\ L.ops # << >> /\ M.ops[1].expected = L.ops[1].expected
          /\ L.ops[1].expected \in Nat
      BY <1>1, <1>3, <1>4, IntentShape, SMTT(40)
    <3>7. RevisionBefore(M, Len(M.ops) + 1) = M.ops[1].expected + Cardinality(B)
      <4>1. Len(M.ops) = Len(L.ops)
        BY <1>4
      <4>2. RevisionBefore(M, Len(L.ops) + 1) = M.ops[1].expected + Cardinality(B)
        BY ONLY <3>6 DEF RevisionBefore, B
      <4> QED BY <4>1, <4>2
    <3>8. RevisionBefore(L, Len(L.ops) + 1) = L.ops[1].expected + Cardinality(A)
      BY <3>6 DEF RevisionBefore, A
    <3> QED BY <3>5, <3>6, <3>7, <3>8
  <2>5. L.rev = RevisionBefore(L, Len(L.ops) + 1)
    BY <2>1 DEF CurrentAgrees
  <2>6. \A k \in LastApplied(M) : M.sel = M.ops[k].sel /\ M.obs = M.ops[k].result
    BY <1>2, <1>3, <1>4, <2>3
  <2> QED BY <1>2, <2>3, <2>4, <2>5, <2>6 DEF CurrentAgrees
<1>11. Len(M.ops) <= MaxOperations
  BY <1>4 DEF Sound, Validate
<1>12. M.ops[i].status = "Applied" /\ M.ops[i].result = b
  BY <1>3, <1>4
<1> QED BY <1>5, <1>6, <1>8, <1>9, <1>10, <1>11, <1>12 DEF Sound, Validate

(* A sound ledger without a waiting intent stays sound when an opened native
   reports its binding: it is the one the ledger has. *)
LEMMA SeenKeeps ==
    ASSUME NEW L, Sound(L), ~Blocked(L), L # NoRecord, NEW b \in Bindings, NEW lg,
           AppliedIn(L, b, lg), NEW M, M = [L EXCEPT !.obs = b]
    PROVE  Sound(M) /\ M.ops = L.ops
<1>1. L \in Ledgers /\ L.ops \in Seq(Intents)
  BY LedgerShape DEF Sound
<1>2. M = [rev |-> L.rev, sel |-> L.sel, obs |-> b, ops |-> L.ops]
  BY <1>1 DEF Ledgers
<1>3. M.rev = L.rev /\ M.sel = L.sel /\ M.obs = b /\ M.ops = L.ops
  BY <1>2
<1>4. M \in Ledgers
  BY <1>1, <1>2 DEF Ledgers
<1>5. LedgerChain(M) /\ BindingChain(M) /\ SupersedeChain(M) /\ Len(M.ops) <= MaxOperations
  <2>1. LedgerChain(L) /\ BindingChain(L) /\ SupersedeChain(L) /\ Len(L.ops) <= MaxOperations
    BY DEF Sound, Validate
  <2>2. \A j : RevisionBefore(M, j) = RevisionBefore(L, j)
    BY <1>3 DEF RevisionBefore
  <2>3. \A o : Position(M, o) = Position(L, o)
    BY <1>3 DEF Position
  <2>4. LedgerChain(M)
    BY <1>3, <2>1, <2>2, <2>3 DEF LedgerChain
  <2>5. BindingChain(M)
    BY <1>3, <2>1 DEF BindingChain
  <2>6. SupersedeChain(M)
    BY <1>3, <2>1 DEF SupersedeChain
  <2> QED BY <1>3, <2>1, <2>4, <2>5, <2>6
<1>6. CurrentAgrees(M)
  <2>1. CurrentAgrees(L)
    BY DEF Sound, Validate
  <2>2. LastApplied(M) = LastApplied(L)
    BY <1>3 DEF LastApplied
  <2>3. M.rev = RevisionBefore(M, Len(M.ops) + 1)
    BY <1>3, <2>1 DEF CurrentAgrees, RevisionBefore
  <2>4. \A i \in LastApplied(L) : b = L.ops[i].result
    BY DEF AppliedIn
  <2>5. L.ops # << >> => LastApplied(L) # {}
    BY EndsApplied
  <2> QED BY <1>3, <2>1, <2>2, <2>3, <2>4, <2>5 DEF CurrentAgrees
<1> QED BY <1>3, <1>4, <1>5, <1>6 DEF Sound, Validate

(* What a ledger says of the native still holds of one that keeps every
   identity and what it expects. *)
LEMMA AccountsCarry ==
    ASSUME NEW L, NEW M, NEW b, NEW C, NEW ch, NEW lg,
           Accounts(L, b, C, ch, lg),
           \A j \in DOMAIN L.ops : /\ j \in DOMAIN M.ops
                                   /\ M.ops[j].id = L.ops[j].id
                                   /\ M.ops[j].native = L.ops[j].native
    PROVE  BoundIn(M, b, C) /\ CommittedIn(M, b, C) /\ KidsIn(M, ch)
<1>1. BoundIn(M, b, C)
  BY DEF Accounts, BoundIn
<1>2. CommittedIn(M, b, C)
  BY DEF Accounts, CommittedIn
<1>3. KidsIn(M, ch)
  BY DEF Accounts, KidsIn
<1> QED BY <1>1, <1>2, <1>3

(* The native's binding names one intent and was made from it. *)
LEMMA BoundTo ==
    ASSUME NEW L, Sound(L), NEW b, NEW C, BoundIn(L, b, C), b.op # NoOperation,
           NEW j \in DOMAIN L.ops, L.ops[j].id = b.op
    PROVE  b.rev = L.ops[j].native + 1
BY StandsOnce DEF BoundIn

(* What the native commits under a request it accepts keeps the ledger's
   account: the intent is behind the last applied one and still waits. *)
LEMMA CommitKeeps ==
    ASSUME NEW L, NEW b \in Bindings, NEW C, NEW ch, NEW lg \in BOOLEAN,
           Accounts(L, b, C, ch, lg),
           NEW k \in DOMAIN L.ops, b.rev = L.ops[k].native,
           ~lg => Waiting(L.ops[k])
    PROVE  Accounts(L, [rev |-> L.ops[k].native + 1, op |-> L.ops[k].id],
                    C \cup {L.ops[k].id}, ch, lg)
<1> DEFINE n == [rev |-> L.ops[k].native + 1, op |-> L.ops[k].id]
           D == C \cup {L.ops[k].id}
<1>1. Sound(L) /\ L.ops[k] \in Intents /\ DOMAIN L.ops = 1 .. Len(L.ops) /\ Len(L.ops) \in Nat
      /\ BoundIn(L, b, C) /\ CommittedIn(L, b, C) /\ KidsIn(L, ch)
      /\ AppliedIn(L, b, lg) /\ SupersededIn(L, C, lg)
  BY LedgerShape DEF Accounts, Sound
<1>2. \A j \in DOMAIN L.ops : L.ops[j] \in Intents /\ L.ops[j].native \in Nat
  BY <1>1, LedgerShape, IntentShape DEF Sound
<1>3. BoundIn(L, n, D)
  BY DEF BoundIn
<1>4. CommittedIn(L, n, D)
  <2>1. ASSUME NEW o \in C
        PROVE  \E j \in DOMAIN L.ops : L.ops[j].id = o /\ L.ops[j].native < L.ops[k].native + 1
    BY <1>1, <1>2 DEF CommittedIn
  <2>2. L.ops[k].native < L.ops[k].native + 1
    BY <1>2
  <2> QED BY <2>1, <2>2 DEF CommittedIn
<1>5. AppliedIn(L, n, lg)
  <2>1. SUFFICES ASSUME NEW i \in LastApplied(L)
                 PROVE  /\ Blocked(L)
                        /\ \E j \in (i + 1) .. Len(L.ops) :
                             n.op = L.ops[j].id /\ (lg \/ j = Len(L.ops))
    BY DEF AppliedIn
  <2>2. i \in DOMAIN L.ops /\ L.ops[i].status = "Applied"
        /\ \A j \in DOMAIN L.ops : j > i => L.ops[j].status # "Applied"
    BY DEF LastApplied
  <2>3. L.ops[i].result.rev = L.ops[i].native + 1
    BY <1>1, <2>2, ResultIs
  <2>4. b.rev > L.ops[i].native
    <3>1. CASE b = L.ops[i].result
      BY <1>2, <2>2, <2>3, <3>1
    <3>2. CASE \E j \in (i + 1) .. Len(L.ops) : b.op = L.ops[j].id
      <4>1. PICK j \in (i + 1) .. Len(L.ops) : b.op = L.ops[j].id
        BY <3>2
      <4>2. j \in DOMAIN L.ops /\ i <= j
        BY <1>1, <2>2, <4>1
      <4>3. b.rev = L.ops[j].native + 1
        BY <1>1, <1>2, <4>1, <4>2, IntentShape, BoundTo
      <4>4. L.ops[i].native <= L.ops[j].native
        BY <1>1, <2>2, <4>2, NativesAscend
      <4> QED BY <1>2, <2>2, <4>2, <4>3, <4>4
    <3> QED BY <1>1, <3>1, <3>2 DEF AppliedIn
  <2>5. k > i
    <3>1. CASE k <= i
      BY <1>1, <1>2, <2>2, <2>4, <3>1, NativesAscend
    <3> QED BY <1>1, <2>2, <3>1
  <2>6. Blocked(L)
    <3>1. SUFFICES ASSUME ~Blocked(L) PROVE FALSE
      OBVIOUS
    <3>2. Len(L.ops) \in LastApplied(L)
      <4>1. L.ops # << >>
        BY <1>1
      <4> QED BY <1>1, <3>1, <4>1, EndsApplied
    <3>3. Len(L.ops) \in DOMAIN L.ops /\ L.ops[Len(L.ops)].status = "Applied"
      BY <3>2 DEF LastApplied
    <3> QED BY <1>1, <2>2, <2>5, <3>3
  <2>7. ~lg => k = Len(L.ops)
    BY <1>1 DEF Sound, Validate, LedgerChain
  <2>8. k \in (i + 1) .. Len(L.ops)
    BY <1>1, <2>2, <2>5
  <2> QED BY <2>6, <2>7, <2>8
<1>6. SupersededIn(L, D, lg)
  <2>1. SUFFICES ASSUME ~lg, NEW i \in DOMAIN L.ops, L.ops[i].status = "Superseded"
                 PROVE  L.ops[i].id \notin D
    BY DEF SupersededIn
  <2>2. L.ops[i].id \notin C
    BY <1>1, <2>1 DEF SupersededIn
  <2>3. L.ops[i].id # L.ops[k].id
    <3>1. i # k
      BY <2>1 DEF Waiting
    <3> QED BY <1>1, <3>1, StandsOnce
  <2> QED BY <2>2, <2>3
<1> QED BY <1>1, <1>3, <1>4, <1>5, <1>6 DEF Accounts

(* An exact startup that binds an unbound session disturbs nothing: no
   operation was ever committed. *)
LEMMA BindKeeps ==
    ASSUME NEW L, NEW b \in Bindings, NEW C, NEW ch, NEW lg,
           Accounts(L, b, C, ch, lg), b.rev = 0
    PROVE  Accounts(L, [rev |-> 1, op |-> NoOperation], C, ch, lg)
<1>1. Sound(L) /\ DOMAIN L.ops = 1 .. Len(L.ops) /\ Len(L.ops) \in Nat
      /\ BoundIn(L, b, C) /\ CommittedIn(L, b, C) /\ KidsIn(L, ch)
      /\ AppliedIn(L, b, lg) /\ SupersededIn(L, C, lg)
  BY LedgerShape DEF Accounts, Sound
<1>2. \A j \in DOMAIN L.ops : L.ops[j] \in Intents /\ L.ops[j].native \in Nat
                              /\ L.ops[j].id # NoOperation
  BY <1>1, LedgerShape, IntentShape DEF Sound
<1>3. C = {}
  BY <1>1, <1>2 DEF CommittedIn
<1>4. LastApplied(L) = {}
  <2>1. SUFFICES ASSUME NEW i \in LastApplied(L) PROVE FALSE
    OBVIOUS
  <2>2. i \in DOMAIN L.ops /\ L.ops[i].status = "Applied"
    BY DEF LastApplied
  <2>3. L.ops[i].result.rev = L.ops[i].native + 1 /\ L.ops[i].native \in Nat
    BY <1>1, <1>2, <2>2, ResultIs
  <2>4. PICK j \in (i + 1) .. Len(L.ops) : b.op = L.ops[j].id
    BY <1>1, <2>3 DEF AppliedIn
  <2>5. j \in DOMAIN L.ops
    BY <1>1, <2>2
  <2>6. b.op \in C
    BY <1>1, <1>2, <2>4, <2>5 DEF BoundIn
  <2> QED BY <1>3, <2>6
<1> DEFINE n == [rev |-> 1, op |-> NoOperation]
<1>5. BoundIn(L, n, C) /\ CommittedIn(L, n, C) /\ AppliedIn(L, n, lg)
  BY <1>3, <1>4 DEF BoundIn, CommittedIn, AppliedIn
<1> QED BY <1>1, <1>5 DEF Accounts

(* A ledger of the same intents gives the same account. *)
LEMMA AccountsSame ==
    ASSUME NEW L, NEW M, NEW b, NEW C, NEW ch, NEW lg,
           Accounts(L, b, C, ch, lg), Sound(M), M.ops = L.ops
    PROVE  Accounts(M, b, C, ch, lg)
<1>1. BoundIn(M, b, C) /\ CommittedIn(M, b, C) /\ KidsIn(M, ch)
  BY AccountsCarry
<1>2. LastApplied(M) = LastApplied(L) /\ (Blocked(M) <=> Blocked(L))
  BY DEF LastApplied, Blocked
<1>3. AppliedIn(M, b, lg)
  BY <1>2 DEF Accounts, AppliedIn
<1>4. SupersededIn(M, C, lg)
  BY DEF Accounts, SupersededIn
<1> QED BY <1>1, <1>3, <1>4 DEF Accounts

(* A blocked intent keeps the ledger's account. *)
LEMMA AccountsBlock ==
    ASSUME NEW L, NEW b, NEW C, NEW ch, NEW lg, Accounts(L, b, C, ch, lg),
           NEW i \in DOMAIN L.ops, Waiting(L.ops[i]), NEW M,
           M = [L EXCEPT !.ops[i].status = "Blocked"]
    PROVE  Accounts(M, b, C, ch, lg)
<1>1. Sound(L) /\ Sound(M) /\ Marked(L, M, i) /\ M.ops[i].status = "Blocked"
  BY BlockKeeps DEF Accounts
<1>2. DOMAIN M.ops = DOMAIN L.ops /\ Len(M.ops) = Len(L.ops)
  BY <1>1, MarkKeeps DEF Marked
<1>3. \A j \in DOMAIN L.ops : (j # i => M.ops[j] = L.ops[j])
         /\ M.ops[j].id = L.ops[j].id /\ M.ops[j].native = L.ops[j].native
  BY <1>1 DEF Marked
<1>4. BoundIn(M, b, C) /\ CommittedIn(M, b, C) /\ KidsIn(M, ch)
  BY <1>2, <1>3, AccountsCarry
<1>5. \A j \in DOMAIN L.ops : (M.ops[j].status = "Applied") <=> (L.ops[j].status = "Applied")
  BY <1>1, <1>3 DEF Waiting
<1>6. LastApplied(M) = LastApplied(L)
  BY <1>2, <1>5 DEF LastApplied
<1>7. Blocked(M)
  BY <1>1, <1>2 DEF Blocked, Waiting
<1>8. AppliedIn(M, b, lg)
  <2>1. SUFFICES ASSUME NEW k \in LastApplied(L)
                 PROVE  \/ b = M.ops[k].result
                        \/ \E j \in (k + 1) .. Len(L.ops) :
                             b.op = M.ops[j].id /\ (lg \/ j = Len(L.ops))
    BY <1>2, <1>6, <1>7 DEF AppliedIn
  <2>2. k \in DOMAIN L.ops /\ k # i /\ M.ops[k] = L.ops[k]
    BY <1>3 DEF LastApplied, Waiting
  <2>3. \/ b = L.ops[k].result
        \/ \E j \in (k + 1) .. Len(L.ops) : b.op = L.ops[j].id /\ (lg \/ j = Len(L.ops))
    BY DEF Accounts, AppliedIn
  <2>4. \A j \in (k + 1) .. Len(L.ops) : j \in DOMAIN L.ops
    BY <1>1, <2>2, LedgerShape DEF Sound
  <2> QED BY <1>3, <2>2, <2>3, <2>4
<1>9. SupersededIn(M, C, lg)
  BY <1>1, <1>2, <1>3 DEF Accounts, SupersededIn
<1> QED BY <1>1, <1>4, <1>8, <1>9 DEF Accounts

(* An applied intent keeps it: the binding is the new result. *)
LEMMA AccountsApply ==
    ASSUME NEW L, NEW b \in Bindings, NEW C, NEW ch, NEW lg, Accounts(L, b, C, ch, lg),
           NEW i \in DOMAIN L.ops, Waiting(L.ops[i]), b.op = L.ops[i].id, NEW M,
           M = AppliedTo(L, i, b)
    PROVE  Accounts(M, b, C, ch, lg)
<1>0. L.ops[i].id # NoOperation /\ Sound(L) /\ BoundIn(L, b, C)
  BY LedgerShape, IntentShape DEF Accounts, Sound
<1>1. b = [rev |-> L.ops[i].native + 1, op |-> L.ops[i].id]
  <2>1. b.rev = L.ops[i].native + 1
    BY <1>0, BoundTo
  <2> QED BY <2>1 DEF Bindings
<1>2. Sound(M) /\ Marked(L, M, i) /\ M.ops[i].status = "Applied" /\ M.ops[i].result = b
  BY <1>0, <1>1, ApplyKeeps
<1>3. DOMAIN M.ops = DOMAIN L.ops /\ Len(M.ops) = Len(L.ops) /\ i = Len(L.ops)
      /\ DOMAIN L.ops = 1 .. Len(L.ops) /\ Len(L.ops) \in Nat
  <2>1. DOMAIN M.ops = DOMAIN L.ops /\ i = Len(L.ops)
    BY ONLY <1>0, <1>2, MarkKeeps
  <2>2. Len(M.ops) = Len(L.ops)
    BY <1>2 DEF Marked
  <2>3. DOMAIN L.ops = 1 .. Len(L.ops) /\ Len(L.ops) \in Nat
    BY <1>0, LedgerShape DEF Sound
  <2> QED BY <2>1, <2>2, <2>3
<1>4. \A j \in DOMAIN L.ops : (j # i => M.ops[j] = L.ops[j])
         /\ M.ops[j].id = L.ops[j].id /\ M.ops[j].native = L.ops[j].native
  BY <1>2 DEF Marked
<1>5. BoundIn(M, b, C) /\ CommittedIn(M, b, C) /\ KidsIn(M, ch)
  BY <1>3, <1>4, AccountsCarry
<1>6. LastApplied(M) = {i}
  BY <1>2, <1>3 DEF LastApplied
<1>7. AppliedIn(M, b, lg)
  BY <1>2, <1>6 DEF AppliedIn
<1>8. SupersededIn(M, C, lg)
  BY <1>2, <1>3, <1>4 DEF Accounts, SupersededIn
<1> QED BY <1>2, <1>5, <1>7, <1>8 DEF Accounts

(* What planning a new intent makes of the ledger. *)
LEMMA PlannedShape ==
    ASSUME Sound(known), NEW req, req.op \in Operation, req.sel \in Target,
           req.sup \in Operation \cup {NoOperation}
    PROVE  /\ Planned(req).ops \in Seq(Intents \cup {Planned(req).ops[Len(known.ops) + 1]})
           /\ Planned(req) = [rev |-> known.rev, sel |-> Planned(req).sel,
                              obs |-> known.obs, ops |-> Planned(req).ops]
           /\ Planned(req).sel \in Target \cup {"none"}
           /\ Len(Planned(req).ops) = Len(known.ops) + 1
           /\ \A j \in DOMAIN known.ops :
                Planned(req).ops[j] = IF known.ops[j].id = req.sup
                                      THEN [known.ops[j] EXCEPT !.status = "Superseded"]
                                      ELSE known.ops[j]
           /\ Planned(req).ops[Len(known.ops) + 1] =
                [id |-> req.op, sel |-> req.sel, sup |-> req.sup, expected |-> known.rev,
                 native |-> Expected(req), status |-> "Pending", result |-> Unbound]
<1> DEFINE base == IF known = NoRecord THEN [NoRecord EXCEPT !.sel = req.sel] ELSE known
           kept == [i \in DOMAIN base.ops |->
                      IF base.ops[i].id = req.sup
                      THEN [base.ops[i] EXCEPT !.status = "Superseded"] ELSE base.ops[i]]
           new == [id |-> req.op, sel |-> req.sel, sup |-> req.sup, expected |-> known.rev,
                   native |-> Expected(req), status |-> "Pending", result |-> Unbound]
<1>1. known \in Ledgers /\ known.ops \in Seq(Intents) /\ known.rev \in Nat
      /\ known.obs \in Bindings /\ known.sel \in Target \cup {"none"}
      /\ DOMAIN known.ops = 1 .. Len(known.ops) /\ Len(known.ops) \in Nat
  BY LedgerShape DEF Sound
<1>2. base.ops = known.ops /\ base.rev = known.rev /\ base.obs = known.obs
      /\ base.sel \in Target \cup {"none"}
      /\ base = [rev |-> base.rev, sel |-> base.sel, obs |-> base.obs, ops |-> base.ops]
  <2>1. CASE known = NoRecord
    BY <2>1 DEF NoRecord
  <2>2. CASE known # NoRecord
    BY <1>1, <2>2 DEF Ledgers
  <2> QED BY <2>1, <2>2
<1>3. Planned(req) = [base EXCEPT !.ops = Append(kept, new)]
  BY DEF Planned
<1> HIDE DEF base
<1>4. kept = [i \in 1 .. Len(known.ops) |->
                IF known.ops[i].id = req.sup
                THEN [known.ops[i] EXCEPT !.status = "Superseded"] ELSE known.ops[i]]
  BY <1>1, <1>2
<1>5. kept \in Seq(Intents) /\ Len(kept) = Len(known.ops)
      /\ \A j \in DOMAIN known.ops : kept[j] = IF known.ops[j].id = req.sup
                                      THEN [known.ops[j] EXCEPT !.status = "Superseded"]
                                      ELSE known.ops[j]
  <2>1. \A o \in Intents : [o EXCEPT !.status = "Superseded"] \in Intents
    BY DEF Intents
  <2>2. ASSUME NEW i \in 1 .. Len(known.ops)
        PROVE  (IF known.ops[i].id = req.sup
                THEN [known.ops[i] EXCEPT !.status = "Superseded"] ELSE known.ops[i]) \in Intents
    <3>1. known.ops[i] \in Intents
      BY <1>1
    <3>2. [known.ops[i] EXCEPT !.status = "Superseded"] \in Intents
      BY <2>1, <3>1
    <3> QED BY <3>1, <3>2
  <2> HIDE DEF kept
  <2>3. kept \in [1 .. Len(known.ops) -> Intents]
    BY <1>4, <2>2
  <2>4. kept \in Seq(Intents) /\ Len(kept) = Len(known.ops)
    BY ONLY <1>1, <2>3
  <2> QED BY <1>1, <1>4, <2>4
<1> HIDE DEF kept, new
<1>6. /\ Append(kept, new) \in Seq(Intents \cup {new})
      /\ Len(Append(kept, new)) = Len(known.ops) + 1
      /\ Append(kept, new)[Len(known.ops) + 1] = new
      /\ \A j \in DOMAIN known.ops : Append(kept, new)[j] = kept[j]
  <2>1. kept \in Seq(Intents \cup {new}) /\ new \in Intents \cup {new}
    BY <1>5
  <2> QED BY ONLY <2>1, <1>1, <1>5
<1>7. Planned(req) = [rev |-> base.rev, sel |-> base.sel, obs |-> base.obs,
                      ops |-> Append(kept, new)]
  BY <1>2, <1>3
<1>8. Planned(req).ops = Append(kept, new) /\ Planned(req).sel = base.sel
  BY <1>7
<1> QED BY <1>2, <1>5, <1>6, <1>7, <1>8 DEF new

(* A plan that validates keeps the ledger's account: it replaces no intent but
   the waiting one, and, when no child can linger, only after the proof that the
   native did not commit it. *)
LEMMA PlannedKeeps ==
    ASSUME NEW b \in Bindings, NEW C, NEW ch, NEW lg \in BOOLEAN,
           Accounts(known, b, C, ch, lg),
           NEW req, req.op \in Operation, req.sel \in Target,
           req.sup \in Operation \cup {NoOperation},
           ~Existing(known, req.op), Validate(Planned(req)),
           ~lg /\ Superseding(req) => b.rev = Expected(req)
    PROVE  Accounts(Planned(req), b, C, ch, lg)
<1> DEFINE M == Planned(req)
           e == Len(known.ops)
           n == Len(known.ops) + 1
           new == [id |-> req.op, sel |-> req.sel, sup |-> req.sup, expected |-> known.rev,
                   native |-> Expected(req), status |-> "Pending", result |-> Unbound]
<1>1. Sound(known) /\ BoundIn(known, b, C) /\ CommittedIn(known, b, C) /\ KidsIn(known, ch)
      /\ AppliedIn(known, b, lg) /\ SupersededIn(known, C, lg)
  BY DEF Accounts
<1>2. /\ known \in Ledgers /\ known.ops \in Seq(Intents) /\ known.rev \in Nat
      /\ known.obs \in Bindings /\ known.obs.rev \in Nat
      /\ DOMAIN known.ops = 1 .. e /\ e \in Nat
  BY <1>1, LedgerShape DEF Sound, Bindings
<1>3. \A j \in DOMAIN known.ops : known.ops[j] \in Intents
  BY <1>1, LedgerShape DEF Sound
<1>4. /\ M.ops \in Seq(Intents \cup {M.ops[n]})
      /\ M = [rev |-> known.rev, sel |-> M.sel, obs |-> known.obs, ops |-> M.ops]
      /\ M.sel \in Target \cup {"none"}
      /\ Len(M.ops) = n
      /\ \A j \in DOMAIN known.ops : M.ops[j] = IF known.ops[j].id = req.sup
                                                THEN [known.ops[j] EXCEPT !.status = "Superseded"]
                                                ELSE known.ops[j]
      /\ M.ops[n] = new
  BY <1>1, PlannedShape
<1>5. LedgerChain(M) /\ BindingChain(M) /\ SupersedeChain(M)
  BY DEF Validate
<1> HIDE DEF M, new
<1>6. DOMAIN M.ops = 1 .. n /\ n \in DOMAIN M.ops /\ e = n - 1
  BY <1>2, <1>4
<1>7. new.sup = req.sup /\ new.status = "Pending" /\ new.id = req.op /\ new.native = Expected(req)
  BY DEF new
<1>8. \A j \in DOMAIN known.ops :
        /\ M.ops[j].id = known.ops[j].id /\ M.ops[j].native = known.ops[j].native
        /\ M.ops[j].result = known.ops[j].result
        /\ known.ops[j].id # req.sup => M.ops[j] = known.ops[j]
        /\ known.ops[j].id = req.sup => M.ops[j].status = "Superseded"
  <2>1. SUFFICES ASSUME NEW j \in DOMAIN known.ops
                 PROVE  /\ M.ops[j].id = known.ops[j].id /\ M.ops[j].native = known.ops[j].native
                        /\ M.ops[j].result = known.ops[j].result
                        /\ known.ops[j].id # req.sup => M.ops[j] = known.ops[j]
                        /\ known.ops[j].id = req.sup => M.ops[j].status = "Superseded"
    OBVIOUS
  <2>2. \A o \in Intents : /\ [o EXCEPT !.status = "Superseded"].id = o.id
                           /\ [o EXCEPT !.status = "Superseded"].native = o.native
                           /\ [o EXCEPT !.status = "Superseded"].result = o.result
                           /\ [o EXCEPT !.status = "Superseded"].status = "Superseded"
    BY DEF Intents
  <2>3. known.ops[j] \in Intents
    BY <1>3
  <2>4. CASE known.ops[j].id = req.sup
    <3>1. M.ops[j] = [known.ops[j] EXCEPT !.status = "Superseded"]
      BY <1>4, <2>4
    <3> QED BY ONLY <2>2, <2>3, <2>4, <3>1
  <2>5. CASE known.ops[j].id # req.sup
    <3>1. M.ops[j] = known.ops[j]
      BY <1>4, <2>5
    <3> QED BY ONLY <2>5, <3>1
  <2> QED BY <2>4, <2>5
<1>9. req.sup # NoOperation =>
        e \in DOMAIN known.ops /\ known.ops[e].id = req.sup /\ Waiting(known.ops[e])
  <2>1. SUFFICES ASSUME req.sup # NoOperation
                 PROVE  e \in DOMAIN known.ops /\ known.ops[e].id = req.sup
                        /\ Waiting(known.ops[e])
    OBVIOUS
  <2>2. n > 1 /\ M.ops[n - 1].id = req.sup
    BY <1>4, <1>5, <1>6, <1>7, <2>1 DEF SupersedeChain
  <2>3. e \in DOMAIN known.ops /\ known.ops[e].id = req.sup
    BY <1>2, <1>6, <1>8, <2>2
  <2>4. known.ops[e].status # "Superseded"
    BY <1>1, <1>2, <2>3 DEF Sound, Validate, SupersedeChain
  <2>5. known.ops[e].status # "Applied"
    <3>1. SUFFICES ASSUME known.ops[e].status = "Applied" PROVE FALSE
      OBVIOUS
    <3>2. known.ops[e].result.op = known.ops[e].id
      BY <1>1, <2>3, <3>1, ResultIs
    <3>3. e \in DOMAIN M.ops
      BY <1>2, <1>6, <2>3
    <3>4. M.ops[e].status = "Superseded"
      BY <1>8, <2>3
    <3>5. M.ops[e].result = Unbound
      BY <1>5, <3>3, <3>4 DEF BindingChain
    <3>6. M.ops[e].result = known.ops[e].result
      BY <1>8, <2>3
    <3>7. known.ops[e].id # NoOperation
      BY <1>3, <2>3, IntentShape
    <3> QED BY <3>2, <3>5, <3>6, <3>7 DEF Unbound
  <2> QED BY <1>3, <2>3, <2>4, <2>5, IntentShape DEF Waiting
<1>10. req.sup # NoOperation => Expected(req) = known.ops[e].native
  BY <1>1, <1>9, PositionOf DEF Expected
<1>11. req.sup = NoOperation => Expected(req) = known.obs.rev
  BY DEF Expected
<1>12. Expected(req) \in Nat
  BY <1>2, <1>3, <1>9, <1>10, <1>11, IntentShape
<1>13. new \in Intents
  BY <1>2, <1>12 DEF new, Intents, Unbound, Bindings
<1>14. M \in Ledgers
  <2>1. Intents \cup {M.ops[n]} = Intents
    BY <1>4, <1>13
  <2>2. M.ops \in Seq(Intents)
    BY <1>4, <2>1
  <2> QED BY ONLY <1>2, <1>4, <2>2 DEF Ledgers
<1>15. Sound(M)
  BY <1>14 DEF Sound, M
<1>16. \A j \in DOMAIN known.ops : j \in DOMAIN M.ops
  BY <1>2, <1>6
<1>17. BoundIn(M, b, C) /\ CommittedIn(M, b, C) /\ KidsIn(M, ch)
  BY <1>8, <1>16, AccountsCarry
<1>18. \A j \in DOMAIN known.ops : known.ops[j].id = req.sup => j = e /\ req.sup # NoOperation
  <2>1. ASSUME NEW j \in DOMAIN known.ops, known.ops[j].id = req.sup
        PROVE  j = e /\ req.sup # NoOperation
    <3>1. req.sup # NoOperation
      BY <1>3, <2>1, IntentShape
    <3> QED BY <1>1, <1>9, <2>1, <3>1, StandsOnce
  <2> QED BY <2>1
<1>19. \A j \in DOMAIN known.ops : (M.ops[j].status = "Applied") <=> (known.ops[j].status = "Applied")
  <2>1. ASSUME NEW j \in DOMAIN known.ops
        PROVE  (M.ops[j].status = "Applied") <=> (known.ops[j].status = "Applied")
    <3>1. CASE known.ops[j].id = req.sup
      BY <1>8, <1>9, <1>18, <3>1 DEF Waiting
    <3>2. CASE known.ops[j].id # req.sup
      BY <1>8, <3>2
    <3> QED BY <3>1, <3>2
  <2> QED BY <2>1
<1>20. LastApplied(M) = LastApplied(known)
  <2>1. M.ops[n].status # "Applied"
    BY <1>4, <1>7
  <2>2. \A j \in DOMAIN M.ops : j = n \/ j \in DOMAIN known.ops
    BY <1>2, <1>6
  <2> QED BY <1>16, <1>19, <2>1, <2>2 DEF LastApplied
<1>21. Blocked(M)
  BY <1>4, <1>6, <1>7 DEF Blocked, Waiting
<1>22. AppliedIn(M, b, lg)
  <2>1. SUFFICES ASSUME NEW i \in LastApplied(known)
                 PROVE  \/ b = M.ops[i].result
                        \/ \E j \in (i + 1) .. n : b.op = M.ops[j].id /\ (lg \/ j = n)
    BY <1>4, <1>20, <1>21 DEF AppliedIn
  <2>2. i \in DOMAIN known.ops /\ M.ops[i].result = known.ops[i].result
    BY <1>8 DEF LastApplied
  <2>3. CASE b = known.ops[i].result
    BY <2>2, <2>3
  <2>4. CASE b # known.ops[i].result
    <3>1. PICK j \in (i + 1) .. e : b.op = known.ops[j].id /\ (lg \/ j = e)
      BY <1>1, <2>4 DEF AppliedIn
    <3>2. j \in DOMAIN known.ops /\ j \in (i + 1) .. n
      BY <1>2, <1>6, <2>2, <3>1
    <3>3. CASE lg
      BY <1>8, <3>1, <3>2, <3>3
    <3>4. CASE ~lg
      <4>1. j = e
        BY <3>1, <3>4
      <4>2. b.rev = known.ops[e].native + 1 /\ known.ops[e].native \in Nat
        BY <1>1, <1>3, <3>1, <3>2, <4>1, IntentShape, BoundTo
      <4>3. req.sup = NoOperation
        <5>1. SUFFICES ASSUME req.sup # NoOperation PROVE FALSE
          OBVIOUS
        <5>2. b.rev = known.ops[e].native
          BY <1>10, <3>4, <5>1 DEF Superseding
        <5> QED BY <4>2, <5>2
      <4>4. Blocked(known)
        BY <1>1, <2>4 DEF AppliedIn
      <4>5. PICK w \in DOMAIN known.ops : Waiting(known.ops[w])
        BY <4>4 DEF Blocked
      <4>6. M.ops[w] = known.ops[w]
        BY <1>8, <1>18, <4>3
      <4>7. w = n
        BY <1>4, <1>5, <1>16, <4>5, <4>6 DEF LedgerChain
      <4> QED BY <1>2, <4>5, <4>7
    <3> QED BY <3>3, <3>4
  <2> QED BY <2>3, <2>4
<1>23. SupersededIn(M, C, lg)
  <2>1. SUFFICES ASSUME ~lg, NEW j \in DOMAIN M.ops, M.ops[j].status = "Superseded"
                 PROVE  M.ops[j].id \notin C
    BY DEF SupersededIn
  <2>2. j \in DOMAIN known.ops
    BY <1>2, <1>4, <1>6, <1>7, <2>1
  <2>3. CASE known.ops[j].id # req.sup
    BY <1>1, <1>8, <2>1, <2>2, <2>3 DEF SupersededIn
  <2>4. CASE known.ops[j].id = req.sup
    <3>1. j = e /\ req.sup # NoOperation
      BY <1>18, <2>2, <2>4
    <3>2. b.rev = known.ops[e].native
      BY <1>10, <2>1, <3>1 DEF Superseding
    <3>3. ASSUME req.sup \in C PROVE FALSE
      <4>1. PICK k \in DOMAIN known.ops : known.ops[k].id = req.sup /\ known.ops[k].native < b.rev
        BY <1>1, <3>3 DEF CommittedIn
      <4>2. k = e
        BY <1>18, <4>1
      <4> QED BY <1>3, <3>2, <4>1, <4>2, IntentShape
    <3> QED BY <1>8, <2>2, <2>4, <3>3
  <2> QED BY <2>3, <2>4
<1>24. Accounts(M, b, C, ch, lg)
  BY <1>15, <1>17, <1>22, <1>23 DEF Accounts
<1> QED BY <1>24 DEF M

(* Planned and Expected are those of the registry's record. *)
LEMMA PlanIs ==
    ASSUME NEW req
    PROVE  /\ Planned(req) = Plan(known, req.op, req.sel, req.sup)
           /\ Expected(req) = Expects(known, req.op, req.sup)
<1>1. Expected(req) = Expects(known, req.op, req.sup)
  BY DEF Expected, Expects
<1> QED BY <1>1 DEF Planned, Plan

(* The next generation is one that never started. *)
LEMMA NextIsFresh ==
    ASSUME Fresh # {}
    PROVE  NextGeneration \in Fresh
<1> DEFINE R == {ss \in Nat \X Nat : ss[1] < ss[2]}
<1>1. IsWellFoundedOn(R, Nat)
  BY NatLessThanWellFounded DEF OpToRel
<1>2. Fresh \subseteq Nat
  BY TransitionConstants DEF Fresh
<1> HIDE DEF R
<1>3. PICK x \in Fresh : \A y \in Fresh : <<y, x>> \notin R
  BY <1>1, <1>2, WFMin
<1>4. ASSUME NEW f \in Fresh PROVE x <= f
  <2>1. x \in Nat /\ f \in Nat
    BY <1>2
  <2>2. <<f, x>> \notin R
    BY <1>3
  <2>3. ~(f < x)
    BY <2>1, <2>2 DEF R
  <2> QED BY <2>1, <2>3
<1> QED BY <1>3, <1>4 DEF NextGeneration

(* The children a step may leave, but for the one it starts. *)
LEMMA ChildrenTyped ==
    ASSUME NEW ch \in [Generation -> NativeChildren], NEW g \in Generation
    PROVE  /\ \A s \in {"none", "starting", "locked", "up", "gone"} :
                [ch EXCEPT ![g].st = s] \in [Generation -> NativeChildren]
           /\ \A c \in NativeChildren : [ch EXCEPT ![g] = c] \in [Generation -> NativeChildren]
<1>1. \A s \in {"none", "starting", "locked", "up", "gone"} :
        [ch[g] EXCEPT !.st = s] \in NativeChildren
  BY DEF NativeChildren
<1> QED BY <1>1


(* The owner's task stays well typed. *)
LEMMA OwnerTypedStays == ResInv /\ [ResNext]_resVars => OwnerTyped'
<1> SUFFICES ASSUME ResInv, [ResNext]_resVars PROVE OwnerTyped'
  OBVIOUS
<1>1. ASSUME NEW req \in Request, ApplyBegin(req) PROVE OwnerTyped'
  BY <1>1, TransitionConstants DEF ApplyBegin, Request, OwnerTyped, ResOwners, ResInv, OpFree
<1>2. ASSUME ApplyRefused PROVE OwnerTyped'
  BY <1>2, TransitionConstants DEF ApplyRefused, OwnerTyped, ResOwners, ResInv, OpFree
<1>3. ASSUME InspectLive PROVE OwnerTyped'
  BY <1>3, TransitionConstants DEF InspectLive, OwnerTyped, ResOwners, ResInv, OpFree
<1>4. ASSUME InspectOffline PROVE OwnerTyped'
  BY <1>4, TransitionConstants DEF InspectOffline, OwnerTyped, ResOwners, ResInv, OpFree
<1>5. ASSUME SaveIntent PROVE OwnerTyped'
  <2>1. owner.step = "save" /\ (owner' = OpFree \/ owner' = [owner EXCEPT !.step = "exit", !.reading = FALSE])
    BY <1>5 DEF SaveIntent
  <2>2. owner \in ResOwners /\ owner.op \in Operation /\ owner.sel \in Target
    BY <2>1 DEF OwnerTyped, ResInv
  <2>3. CASE owner' = OpFree
    BY <2>3 DEF OwnerTyped, ResOwners, OpFree
  <2>4. CASE owner' = [owner EXCEPT !.step = "exit", !.reading = FALSE]
    BY <2>2, <2>4 DEF OwnerTyped, ResOwners
  <2> QED BY <2>1, <2>3, <2>4
<1>6. ASSUME AwaitExit PROVE OwnerTyped'
  BY <1>6, TransitionConstants DEF AwaitExit, Fault, OwnerTyped, ResOwners, ResInv, OpFree
<1>7. ASSUME SpawnCandidate PROVE OwnerTyped'
  <2>1. NextGeneration \in Generation
    BY <1>7, NextIsFresh DEF SpawnCandidate, Fresh
  <2> QED BY <1>7, <2>1 DEF SpawnCandidate, OwnerTyped, ResOwners, ResInv
<1>8. ASSUME CandidateVerified PROVE OwnerTyped'
  <2>1. owner.step = "verify" /\ (owner' = OpFree \/ owner' = [owner EXCEPT !.step = "failed"])
    BY <1>8 DEF CandidateVerified
  <2>2. owner \in ResOwners /\ owner.op \in Operation /\ owner.sel \in Target
    BY <2>1 DEF OwnerTyped, ResInv
  <2>3. CASE owner' = OpFree
    BY <2>3 DEF OwnerTyped, ResOwners, OpFree
  <2>4. CASE owner' = [owner EXCEPT !.step = "failed"]
    BY <2>2, <2>4 DEF OwnerTyped, ResOwners
  <2> QED BY <2>1, <2>3, <2>4
<1>9. ASSUME CandidateFails PROVE OwnerTyped'
  BY <1>9, TransitionConstants DEF CandidateFails, ShutDown, Fault, OwnerTyped, ResOwners, ResInv, OpFree
<1>10. ASSUME RecordFailure PROVE OwnerTyped'
  BY <1>10, TransitionConstants DEF RecordFailure, SaveOk, SaveFails, Fault, OwnerTyped, ResOwners, ResInv, OpFree
<1>11. ASSUME NEW g \in Generation, NativeLocks(g) PROVE OwnerTyped'
  BY <1>11, TransitionConstants DEF NativeLocks, OwnerTyped, ResOwners, ResInv, OpFree
<1>12. ASSUME NEW g \in Generation, NativeStarts(g) PROVE OwnerTyped'
  BY <1>12, TransitionConstants DEF NativeStarts, OwnerTyped, ResOwners, ResInv, OpFree
<1>13. ASSUME NEW g \in Generation, NativeDies(g) PROVE OwnerTyped'
  BY <1>13, TransitionConstants DEF NativeDies, Fault, OwnerTyped, ResOwners, ResInv, OpFree
<1>14. ASSUME NEW g \in Generation, NativeLeaves(g) PROVE OwnerTyped'
  BY <1>14, TransitionConstants DEF NativeLeaves, OwnerTyped, ResOwners, ResInv, OpFree
<1>15. ASSUME RunStarts PROVE OwnerTyped'
  BY <1>15, TransitionConstants DEF RunStarts, OwnerTyped, ResOwners, ResInv, OpFree
<1>16. ASSUME RunSettles PROVE OwnerTyped'
  BY <1>16, TransitionConstants DEF RunSettles, OwnerTyped, ResOwners, ResInv, OpFree
<1>17. ASSUME OpenBegin PROVE OwnerTyped'
  <2>1. NextGeneration \in Generation
    BY <1>17, NextIsFresh DEF OpenBegin, Fresh
  <2> QED BY <1>17, <2>1 DEF OpenBegin, OwnerTyped, ResOwners, OpFree
<1>18. ASSUME OpenPublish PROVE OwnerTyped'
  BY <1>18, TransitionConstants DEF OpenPublish, SaveOk, SaveFails, ShutDown, Fault, OwnerTyped, ResOwners, ResInv, OpFree
<1>19. ASSUME OpenFails PROVE OwnerTyped'
  BY <1>19, TransitionConstants DEF OpenFails, ShutDown, Fault, OwnerTyped, ResOwners, ResInv, OpFree
<1>20. ASSUME CrashRestart PROVE OwnerTyped'
  BY <1>20, TransitionConstants DEF CrashRestart, Fault, OwnerTyped, ResOwners, ResInv, OpFree
<1>21. CASE UNCHANGED resVars
  BY <1>21, TransitionConstants DEF resVars, OwnerTyped, ResOwners, ResInv, OpFree
<1> QED BY <1>1, <1>2, <1>3, <1>4, <1>5, <1>6, <1>7, <1>8, <1>9, <1>10, <1>11, <1>12, <1>13, <1>14, <1>15, <1>16, <1>17, <1>18, <1>19, <1>20, <1>21 DEF ResNext, Apply, Native


(* So do the children. *)
LEMMA ChildTypedStays == ResInv /\ [ResNext]_resVars => child' \in [Generation -> NativeChildren]
<1> SUFFICES ASSUME ResInv, [ResNext]_resVars PROVE child' \in [Generation -> NativeChildren]
  OBVIOUS
<1>1. ASSUME NEW req \in Request, ApplyBegin(req) PROVE child' \in [Generation -> NativeChildren]
  BY <1>1 DEF ApplyBegin, Request, ResInv, NativeTyped
<1>2. ASSUME ApplyRefused PROVE child' \in [Generation -> NativeChildren]
  BY <1>2 DEF ApplyRefused, ResInv, NativeTyped
<1>3. ASSUME InspectLive PROVE child' \in [Generation -> NativeChildren]
  BY <1>3 DEF InspectLive, ResInv, NativeTyped
<1>4. ASSUME InspectOffline PROVE child' \in [Generation -> NativeChildren]
  <2>1. \A k \in Generation : [child[k] EXCEPT !.st = "gone"] \in NativeChildren /\ child[k] \in NativeChildren
    BY DEF ResInv, NativeTyped, NativeChildren
  <2> QED BY <1>4, <2>1 DEF InspectOffline, ResInv, NativeTyped
<1>5. ASSUME SaveIntent PROVE child' \in [Generation -> NativeChildren]
  BY <1>5 DEF SaveIntent, SaveOk, SaveFails, Fault, ResInv, NativeTyped
<1>6. ASSUME AwaitExit PROVE child' \in [Generation -> NativeChildren]
  <2>1. \A k \in Generation : [child[k] EXCEPT !.st = "gone"] \in NativeChildren /\ child[k] \in NativeChildren
    BY DEF ResInv, NativeTyped, NativeChildren
  <2> QED BY <1>6, <2>1 DEF AwaitExit, ResInv, NativeTyped
<1>7. ASSUME SpawnCandidate PROVE child' \in [Generation -> NativeChildren]
  <2>1. NextGeneration \in Generation
    BY <1>7, NextIsFresh DEF SpawnCandidate, Fresh
  <2>2. [st |-> "starting", op |-> owner.op, exp |-> known.ops[OpAt(known, owner.op)].native, sel |-> owner.sel] \in NativeChildren
    <3>1. WaitingIn(known, owner.op, owner.sel) /\ Sound(known) /\ owner.op \in Operation /\ owner.sel \in Target
      BY <1>7 DEF SpawnCandidate, ResInv, InHand, Accounts, OwnerTyped
    <3>2. PICK i \in DOMAIN known.ops : known.ops[i].id = owner.op
      BY <3>1 DEF WaitingIn
    <3>3. OpAt(known, owner.op) = i /\ known.ops[i].native \in Nat
      BY <3>1, <3>2, PositionOf, LedgerShape, IntentShape DEF Sound
    <3> QED BY <3>1, <3>3 DEF NativeChildren
  <2> QED BY <1>7, <2>1, <2>2, ChildrenTyped DEF SpawnCandidate, Start, ResInv, NativeTyped
<1>8. ASSUME CandidateVerified PROVE child' \in [Generation -> NativeChildren]
  <2>1. owner.gen \in Generation
    BY <1>8 DEF CandidateVerified, ResInv, OneAtATime
  <2>2. child' \in {child, [child EXCEPT ![owner.gen].st = "gone"]}
    BY <1>8 DEF CandidateVerified, ShutDown
  <2>3. [child EXCEPT ![owner.gen].st = "gone"] \in [Generation -> NativeChildren]
    BY <2>1, ChildrenTyped DEF ResInv, NativeTyped
  <2> QED BY <2>2, <2>3 DEF ResInv, NativeTyped
<1>9. ASSUME CandidateFails PROVE child' \in [Generation -> NativeChildren]
  <2>1. owner.gen \in Generation
    BY <1>9 DEF CandidateFails, ResInv, OneAtATime
  <2>2. child' \in {child, [child EXCEPT ![owner.gen].st = "gone"]}
    BY <1>9 DEF CandidateFails, ShutDown
  <2>3. [child EXCEPT ![owner.gen].st = "gone"] \in [Generation -> NativeChildren]
    BY <2>1, ChildrenTyped DEF ResInv, NativeTyped
  <2> QED BY <2>2, <2>3 DEF ResInv, NativeTyped
<1>10. ASSUME RecordFailure PROVE child' \in [Generation -> NativeChildren]
  BY <1>10 DEF RecordFailure, SaveOk, SaveFails, Fault, ResInv, NativeTyped
<1>11. ASSUME NEW g \in Generation, NativeLocks(g) PROVE child' \in [Generation -> NativeChildren]
  BY <1>11, ChildrenTyped DEF NativeLocks, ResInv, NativeTyped
<1>12. ASSUME NEW g \in Generation, NativeStarts(g) PROVE child' \in [Generation -> NativeChildren]
  BY <1>12, ChildrenTyped DEF NativeStarts, ResInv, NativeTyped
<1>13. ASSUME NEW g \in Generation, NativeDies(g) PROVE child' \in [Generation -> NativeChildren]
  BY <1>13, ChildrenTyped DEF NativeDies, ResInv, NativeTyped
<1>14. ASSUME NEW g \in Generation, NativeLeaves(g) PROVE child' \in [Generation -> NativeChildren]
  BY <1>14, ChildrenTyped DEF NativeLeaves, ResInv, NativeTyped
<1>15. ASSUME RunStarts PROVE child' \in [Generation -> NativeChildren]
  BY <1>15 DEF RunStarts, ResInv, NativeTyped
<1>16. ASSUME RunSettles PROVE child' \in [Generation -> NativeChildren]
  BY <1>16 DEF RunSettles, ResInv, NativeTyped
<1>17. ASSUME OpenBegin PROVE child' \in [Generation -> NativeChildren]
  <2>1. NextGeneration \in Generation
    BY <1>17, NextIsFresh DEF OpenBegin, Fresh
  <2>2. [st |-> "starting", op |-> NoOperation, exp |-> 0, sel |-> known.sel] \in NativeChildren
    <3>1. Sound(known)
      BY <1>17 DEF OpenBegin, ResInv, InHand, Accounts
    <3> QED BY <3>1, LedgerShape DEF NativeChildren, Sound
  <2> QED BY <1>17, <2>1, <2>2, ChildrenTyped DEF OpenBegin, Start, ResInv, NativeTyped
<1>18. ASSUME OpenPublish PROVE child' \in [Generation -> NativeChildren]
  <2>1. owner.gen \in Generation
    BY <1>18 DEF OpenPublish, ResInv, OneAtATime
  <2>2. child' \in {child, [child EXCEPT ![owner.gen].st = "gone"]}
    BY <1>18 DEF OpenPublish, ShutDown
  <2>3. [child EXCEPT ![owner.gen].st = "gone"] \in [Generation -> NativeChildren]
    BY <2>1, ChildrenTyped DEF ResInv, NativeTyped
  <2> QED BY <2>2, <2>3 DEF ResInv, NativeTyped
<1>19. ASSUME OpenFails PROVE child' \in [Generation -> NativeChildren]
  <2>1. owner.gen \in Generation
    BY <1>19 DEF OpenFails, ResInv, OneAtATime
  <2>2. child' \in {child, [child EXCEPT ![owner.gen].st = "gone"]}
    BY <1>19 DEF OpenFails, ShutDown
  <2>3. [child EXCEPT ![owner.gen].st = "gone"] \in [Generation -> NativeChildren]
    BY <2>1, ChildrenTyped DEF ResInv, NativeTyped
  <2> QED BY <2>2, <2>3 DEF ResInv, NativeTyped
<1>20. ASSUME CrashRestart PROVE child' \in [Generation -> NativeChildren]
  <2>1. \A k \in Generation : [child[k] EXCEPT !.st = "gone"] \in NativeChildren /\ child[k] \in NativeChildren
    BY DEF ResInv, NativeTyped, NativeChildren
  <2> QED BY <1>20, <2>1 DEF CrashRestart, ResInv, NativeTyped
<1>21. CASE UNCHANGED resVars
  BY <1>21 DEF resVars, ResInv, NativeTyped
<1> QED BY <1>1, <1>2, <1>3, <1>4, <1>5, <1>6, <1>7, <1>8, <1>9, <1>10, <1>11, <1>12, <1>13, <1>14, <1>15, <1>16, <1>17, <1>18, <1>19, <1>20, <1>21 DEF ResNext, Apply, Native


(* So do the binding, the operations committed and the live host. *)
LEMMA NativeTypedStays == ResInv /\ [ResNext]_resVars => NativeTyped'
<1> SUFFICES ASSUME ResInv, [ResNext]_resVars PROVE NativeTyped'
  OBVIOUS
<1>0. /\ child' \in [Generation -> NativeChildren] /\ child \in [Generation -> NativeChildren]
      /\ binding \in Bindings /\ resCommitted \subseteq Operation
      /\ live \in Generation \cup {0} /\ faults \in [n : Nat, linger : BOOLEAN]
  BY ChildTypedStays DEF ResInv, NativeTyped
<1>1. ASSUME NEW req \in Request, ApplyBegin(req) PROVE NativeTyped'
  BY <1>1, <1>0 DEF ApplyBegin, Request, ResInv, NativeTyped
<1>2. ASSUME ApplyRefused PROVE NativeTyped'
  BY <1>2, <1>0 DEF ApplyRefused, ResInv, NativeTyped
<1>3. ASSUME InspectLive PROVE NativeTyped'
  BY <1>3, <1>0 DEF InspectLive, ResInv, NativeTyped
<1>4. ASSUME InspectOffline PROVE NativeTyped'
  BY <1>4, <1>0 DEF InspectOffline, ResInv, NativeTyped
<1>5. ASSUME SaveIntent PROVE NativeTyped'
  BY <1>5, <1>0 DEF SaveIntent, SaveOk, SaveFails, Fault, ResInv, NativeTyped
<1>6. ASSUME AwaitExit PROVE NativeTyped'
  BY <1>6, <1>0 DEF AwaitExit, Fault, ResInv, NativeTyped
<1>7. ASSUME SpawnCandidate PROVE NativeTyped'
  BY <1>7, <1>0 DEF SpawnCandidate, Start, ResInv, NativeTyped
<1>8. ASSUME CandidateVerified PROVE NativeTyped'
  <2>1. owner.gen \in Generation
    BY <1>8 DEF CandidateVerified, ResInv, OneAtATime
  <2>2. binding' = binding /\ resCommitted' = resCommitted /\ live' \in {live, owner.gen}
    BY <1>8 DEF CandidateVerified
  <2>3. faults' \in [n : Nat, linger : BOOLEAN]
    BY <1>8, <1>0 DEF CandidateVerified, SaveOk, SaveFails, Fault
  <2> QED BY <1>0, <2>1, <2>2, <2>3 DEF NativeTyped
<1>9. ASSUME CandidateFails PROVE NativeTyped'
  BY <1>9, <1>0 DEF CandidateFails, ShutDown, Fault, ResInv, NativeTyped
<1>10. ASSUME RecordFailure PROVE NativeTyped'
  BY <1>10, <1>0 DEF RecordFailure, SaveOk, SaveFails, Fault, ResInv, NativeTyped
<1>11. ASSUME NEW g \in Generation, NativeLocks(g) PROVE NativeTyped'
  BY <1>11, <1>0 DEF NativeLocks, ResInv, NativeTyped
<1>12. ASSUME NEW g \in Generation, NativeStarts(g) PROVE NativeTyped'
  <2>1. child[g].op \in Operation \cup {NoOperation} /\ child[g].exp \in Nat
    BY <1>0 DEF NativeChildren
  <2>2. binding' \in {binding, [rev |-> child[g].exp + 1, op |-> child[g].op], [rev |-> 1, op |-> NoOperation]}
    BY <1>12 DEF NativeStarts
  <2>3. binding' \in Bindings
    BY <1>0, <2>1, <2>2 DEF Bindings
  <2>4. resCommitted' \subseteq Operation /\ live' = live /\ faults' = faults
    BY <1>12, <1>0, <2>1 DEF NativeStarts
  <2> QED BY <1>0, <2>3, <2>4 DEF NativeTyped
<1>13. ASSUME NEW g \in Generation, NativeDies(g) PROVE NativeTyped'
  BY <1>13, <1>0 DEF NativeDies, Fault, ResInv, NativeTyped
<1>14. ASSUME NEW g \in Generation, NativeLeaves(g) PROVE NativeTyped'
  BY <1>14, <1>0 DEF NativeLeaves, ResInv, NativeTyped
<1>15. ASSUME RunStarts PROVE NativeTyped'
  BY <1>15, <1>0 DEF RunStarts, ResInv, NativeTyped
<1>16. ASSUME RunSettles PROVE NativeTyped'
  BY <1>16, <1>0 DEF RunSettles, ResInv, NativeTyped
<1>17. ASSUME OpenBegin PROVE NativeTyped'
  BY <1>17, <1>0 DEF OpenBegin, Start, ResInv, NativeTyped
<1>18. ASSUME OpenPublish PROVE NativeTyped'
  <2>1. owner.gen \in Generation
    BY <1>18 DEF OpenPublish, ResInv, OneAtATime
  <2>2. binding' = binding /\ resCommitted' = resCommitted /\ live' \in {live, owner.gen}
    BY <1>18 DEF OpenPublish
  <2>3. faults' \in [n : Nat, linger : BOOLEAN]
    BY <1>18, <1>0 DEF OpenPublish, SaveOk, SaveFails, Fault
  <2> QED BY <1>0, <2>1, <2>2, <2>3 DEF NativeTyped
<1>19. ASSUME OpenFails PROVE NativeTyped'
  BY <1>19, <1>0 DEF OpenFails, ShutDown, Fault, ResInv, NativeTyped
<1>20. ASSUME CrashRestart PROVE NativeTyped'
  BY <1>20, <1>0 DEF CrashRestart, Fault, ResInv, NativeTyped
<1>21. CASE UNCHANGED resVars
  BY <1>21, <1>0 DEF resVars, ResInv, NativeTyped
<1> QED BY <1>1, <1>2, <1>3, <1>4, <1>5, <1>6, <1>7, <1>8, <1>9, <1>10, <1>11, <1>12, <1>13, <1>14, <1>15, <1>16, <1>17, <1>18, <1>19, <1>20, <1>21 DEF ResNext, Apply, Native

(* The account holds of other children that ask for what the ledger has. *)
LEMMA KidsMove ==
    ASSUME NEW L, NEW b, NEW C, NEW ch, NEW kids, NEW lg, Accounts(L, b, C, ch, lg),
           \A g \in Generation :
             \/ kids[g].op = NoOperation
             \/ kids[g].op = ch[g].op /\ kids[g].exp = ch[g].exp
             \/ \E j \in DOMAIN L.ops : L.ops[j].id = kids[g].op /\ L.ops[j].native = kids[g].exp
    PROVE  Accounts(L, b, C, kids, lg)
<1>1. KidsIn(L, kids)
  BY DEF Accounts, KidsIn
<1> QED BY <1>1 DEF Accounts


(* Only a start changes what a child was started for. *)
LEMMA RequestsStay == ResInv /\ [ResNext]_resVars => (SpawnCandidate \/ OpenBegin) \/ \A k \in Generation : child'[k].op = child[k].op /\ child'[k].exp = child[k].exp
<1> SUFFICES ASSUME ResInv, [ResNext]_resVars PROVE (SpawnCandidate \/ OpenBegin) \/ \A k \in Generation : child'[k].op = child[k].op /\ child'[k].exp = child[k].exp
  OBVIOUS
<1>0. child \in [Generation -> NativeChildren]
  BY DEF ResInv, NativeTyped
<1>1. ASSUME NEW req \in Request, ApplyBegin(req) PROVE (SpawnCandidate \/ OpenBegin) \/ \A k \in Generation : child'[k].op = child[k].op /\ child'[k].exp = child[k].exp
  BY <1>1, <1>0 DEF ApplyBegin, Request, NativeChildren
<1>2. ASSUME ApplyRefused PROVE (SpawnCandidate \/ OpenBegin) \/ \A k \in Generation : child'[k].op = child[k].op /\ child'[k].exp = child[k].exp
  BY <1>2, <1>0 DEF ApplyRefused, NativeChildren
<1>3. ASSUME InspectLive PROVE (SpawnCandidate \/ OpenBegin) \/ \A k \in Generation : child'[k].op = child[k].op /\ child'[k].exp = child[k].exp
  BY <1>3, <1>0 DEF InspectLive, NativeChildren
<1>4. ASSUME InspectOffline PROVE (SpawnCandidate \/ OpenBegin) \/ \A k \in Generation : child'[k].op = child[k].op /\ child'[k].exp = child[k].exp
  BY <1>4, <1>0 DEF InspectOffline, NativeChildren
<1>5. ASSUME SaveIntent PROVE (SpawnCandidate \/ OpenBegin) \/ \A k \in Generation : child'[k].op = child[k].op /\ child'[k].exp = child[k].exp
  BY <1>5, <1>0 DEF SaveIntent, SaveOk, SaveFails, Fault, NativeChildren
<1>6. ASSUME AwaitExit PROVE (SpawnCandidate \/ OpenBegin) \/ \A k \in Generation : child'[k].op = child[k].op /\ child'[k].exp = child[k].exp
  BY <1>6, <1>0 DEF AwaitExit, Fault, NativeChildren
<1>7. ASSUME SpawnCandidate PROVE (SpawnCandidate \/ OpenBegin) \/ \A k \in Generation : child'[k].op = child[k].op /\ child'[k].exp = child[k].exp
  BY <1>7 DEF SpawnCandidate
<1>8. ASSUME CandidateVerified PROVE (SpawnCandidate \/ OpenBegin) \/ \A k \in Generation : child'[k].op = child[k].op /\ child'[k].exp = child[k].exp
  <2>1. owner.gen \in Generation
    BY <1>8 DEF CandidateVerified, ResInv, OneAtATime
  <2>2. child' = child \/ child' = [child EXCEPT ![owner.gen].st = "gone"]
    BY <1>8 DEF CandidateVerified, ShutDown
  <2> QED BY <1>0, <2>1, <2>2 DEF NativeChildren
<1>9. ASSUME CandidateFails PROVE (SpawnCandidate \/ OpenBegin) \/ \A k \in Generation : child'[k].op = child[k].op /\ child'[k].exp = child[k].exp
  <2>1. owner.gen \in Generation
    BY <1>9 DEF CandidateFails, ResInv, OneAtATime
  <2>2. child' = child \/ child' = [child EXCEPT ![owner.gen].st = "gone"]
    BY <1>9 DEF CandidateFails, ShutDown
  <2> QED BY <1>0, <2>1, <2>2 DEF NativeChildren
<1>10. ASSUME RecordFailure PROVE (SpawnCandidate \/ OpenBegin) \/ \A k \in Generation : child'[k].op = child[k].op /\ child'[k].exp = child[k].exp
  BY <1>10, <1>0 DEF RecordFailure, SaveOk, SaveFails, Fault, NativeChildren
<1>11. ASSUME NEW g \in Generation, NativeLocks(g) PROVE (SpawnCandidate \/ OpenBegin) \/ \A k \in Generation : child'[k].op = child[k].op /\ child'[k].exp = child[k].exp
  BY <1>11, <1>0 DEF NativeLocks, NativeChildren
<1>12. ASSUME NEW g \in Generation, NativeStarts(g) PROVE (SpawnCandidate \/ OpenBegin) \/ \A k \in Generation : child'[k].op = child[k].op /\ child'[k].exp = child[k].exp
  BY <1>12, <1>0 DEF NativeStarts, NativeChildren
<1>13. ASSUME NEW g \in Generation, NativeDies(g) PROVE (SpawnCandidate \/ OpenBegin) \/ \A k \in Generation : child'[k].op = child[k].op /\ child'[k].exp = child[k].exp
  BY <1>13, <1>0 DEF NativeDies, Fault, NativeChildren
<1>14. ASSUME NEW g \in Generation, NativeLeaves(g) PROVE (SpawnCandidate \/ OpenBegin) \/ \A k \in Generation : child'[k].op = child[k].op /\ child'[k].exp = child[k].exp
  BY <1>14, <1>0 DEF NativeLeaves, NativeChildren
<1>15. ASSUME RunStarts PROVE (SpawnCandidate \/ OpenBegin) \/ \A k \in Generation : child'[k].op = child[k].op /\ child'[k].exp = child[k].exp
  BY <1>15, <1>0 DEF RunStarts, NativeChildren
<1>16. ASSUME RunSettles PROVE (SpawnCandidate \/ OpenBegin) \/ \A k \in Generation : child'[k].op = child[k].op /\ child'[k].exp = child[k].exp
  BY <1>16, <1>0 DEF RunSettles, NativeChildren
<1>17. ASSUME OpenBegin PROVE (SpawnCandidate \/ OpenBegin) \/ \A k \in Generation : child'[k].op = child[k].op /\ child'[k].exp = child[k].exp
  BY <1>17 DEF OpenBegin
<1>18. ASSUME OpenPublish PROVE (SpawnCandidate \/ OpenBegin) \/ \A k \in Generation : child'[k].op = child[k].op /\ child'[k].exp = child[k].exp
  <2>1. owner.gen \in Generation
    BY <1>18 DEF OpenPublish, ResInv, OneAtATime
  <2>2. child' = child \/ child' = [child EXCEPT ![owner.gen].st = "gone"]
    BY <1>18 DEF OpenPublish, ShutDown
  <2> QED BY <1>0, <2>1, <2>2 DEF NativeChildren
<1>19. ASSUME OpenFails PROVE (SpawnCandidate \/ OpenBegin) \/ \A k \in Generation : child'[k].op = child[k].op /\ child'[k].exp = child[k].exp
  <2>1. owner.gen \in Generation
    BY <1>19 DEF OpenFails, ResInv, OneAtATime
  <2>2. child' = child \/ child' = [child EXCEPT ![owner.gen].st = "gone"]
    BY <1>19 DEF OpenFails, ShutDown
  <2> QED BY <1>0, <2>1, <2>2 DEF NativeChildren
<1>20. ASSUME CrashRestart PROVE (SpawnCandidate \/ OpenBegin) \/ \A k \in Generation : child'[k].op = child[k].op /\ child'[k].exp = child[k].exp
  BY <1>20, <1>0 DEF CrashRestart, Fault, NativeChildren
<1>21. CASE UNCHANGED resVars
  BY <1>21, <1>0 DEF resVars, NativeChildren
<1> QED BY <1>1, <1>2, <1>3, <1>4, <1>5, <1>6, <1>7, <1>8, <1>9, <1>10, <1>11, <1>12, <1>13, <1>14, <1>15, <1>16, <1>17, <1>18, <1>19, <1>20, <1>21 DEF ResNext, Apply, Native


(* The ledger on disk keeps its account of the native, and validates. *)
LEMMA LedgerStays == ResInv /\ [ResNext]_resVars => Accounts(stored, binding, resCommitted, child, Linger)' /\ ~rejected'
<1> SUFFICES ASSUME ResInv, [ResNext]_resVars PROVE Accounts(stored, binding, resCommitted, child, Linger)' /\ ~rejected'
  OBVIOUS
<1>0. /\ Accounts(stored, binding, resCommitted, child, Linger) /\ ~rejected
      /\ child \in [Generation -> NativeChildren] /\ binding \in Bindings
      /\ Linger \in BOOLEAN /\ faults \in [n : Nat, linger : BOOLEAN]
  BY DEF ResInv, NativeTyped, Linger
<1>1. ASSUME NEW req \in Request, ApplyBegin(req) PROVE Accounts(stored, binding, resCommitted, child, Linger)' /\ ~rejected'
  <2>1. stored' = stored /\ binding' = binding /\ resCommitted' = resCommitted /\ ~rejected'
        /\ Linger' = Linger
    BY <1>1, <1>0 DEF ApplyBegin, Request, Linger
  <2>2. \A k \in Generation : child'[k].op = child[k].op /\ child'[k].exp = child[k].exp
    BY <1>1 DEF ApplyBegin
  <2>3. Accounts(stored, binding, resCommitted, child', Linger)
    BY <1>0, <2>2, KidsMove
  <2> QED BY <2>1, <2>3
<1>2. ASSUME ApplyRefused PROVE Accounts(stored, binding, resCommitted, child, Linger)' /\ ~rejected'
  <2>1. stored' = stored /\ binding' = binding /\ resCommitted' = resCommitted /\ ~rejected'
        /\ Linger' = Linger
    BY <1>2, <1>0 DEF ApplyRefused, Linger
  <2>2. \A k \in Generation : child'[k].op = child[k].op /\ child'[k].exp = child[k].exp
    BY <1>2 DEF ApplyRefused
  <2>3. Accounts(stored, binding, resCommitted, child', Linger)
    BY <1>0, <2>2, KidsMove
  <2> QED BY <2>1, <2>3
<1>3. ASSUME InspectLive PROVE Accounts(stored, binding, resCommitted, child, Linger)' /\ ~rejected'
  <2>1. stored' = stored /\ binding' = binding /\ resCommitted' = resCommitted /\ ~rejected'
        /\ Linger' = Linger
    BY <1>3, <1>0 DEF InspectLive, Linger
  <2>2. \A k \in Generation : child'[k].op = child[k].op /\ child'[k].exp = child[k].exp
    BY <1>3 DEF InspectLive
  <2>3. Accounts(stored, binding, resCommitted, child', Linger)
    BY <1>0, <2>2, KidsMove
  <2> QED BY <2>1, <2>3
<1>4. ASSUME InspectOffline PROVE Accounts(stored, binding, resCommitted, child, Linger)' /\ ~rejected'
  <2>1. stored' = stored /\ binding' = binding /\ resCommitted' = resCommitted /\ ~rejected'
        /\ Linger' = Linger
    BY <1>4, <1>0 DEF InspectOffline, Linger
  <2>2. \A k \in Generation : child'[k].op = child[k].op /\ child'[k].exp = child[k].exp
    BY <1>4, <1>0 DEF InspectOffline, NativeChildren
  <2>3. Accounts(stored, binding, resCommitted, child', Linger)
    BY <1>0, <2>2, KidsMove
  <2> QED BY <2>1, <2>3
<1>5. ASSUME SaveIntent PROVE Accounts(stored, binding, resCommitted, child, Linger)' /\ ~rejected'
  <2>1. /\ owner.step = "save" /\ known = stored
        /\ owner.op \in Operation /\ owner.sel \in Target /\ owner.sup \in Operation \cup {NoOperation}
    BY <1>5 DEF SaveIntent, ResInv, InHand, OwnerTyped, ResOwners
  <2>2. binding' = binding /\ resCommitted' = resCommitted /\ child' = child /\ Linger' = Linger
    BY <1>5, <1>0 DEF SaveIntent, SaveOk, SaveFails, Fault, Linger
  <2>3. CASE Existing(known, owner.op)
    <3>1. stored' = stored /\ ~rejected'
      BY <1>5, <1>0, <2>3 DEF SaveIntent
    <3> QED BY <1>0, <2>2, <3>1
  <2>4. CASE ~Existing(known, owner.op)
    <3>1. Validate(Planned(owner))
      BY <2>1, <2>4, PlanIs DEF ResInv, InHand
    <3>2. ~Linger /\ Superseding(owner) => binding.rev = Expected(owner)
      BY <2>1, <2>4, PlanIs DEF ResInv, InHand, Superseding
    <3>3. Accounts(Planned(owner), binding, resCommitted, child, Linger)
      BY <1>0, <2>1, <2>4, <3>1, <3>2, PlannedKeeps
    <3>4. (stored' = stored \/ stored' = Planned(owner)) /\ ~rejected'
      BY <1>5, <1>0, <2>4, <3>1 DEF SaveIntent, SaveOk, SaveFails
    <3> QED BY <1>0, <2>2, <3>3, <3>4
  <2> QED BY <2>3, <2>4
<1>6. ASSUME AwaitExit PROVE Accounts(stored, binding, resCommitted, child, Linger)' /\ ~rejected'
  <2>1. stored' = stored /\ binding' = binding /\ resCommitted' = resCommitted /\ ~rejected'
        /\ Linger' = Linger
    BY <1>6, <1>0 DEF AwaitExit, Fault, Linger
  <2>2. \A k \in Generation : child'[k].op = child[k].op /\ child'[k].exp = child[k].exp
    BY <1>6, <1>0 DEF AwaitExit, NativeChildren
  <2>3. Accounts(stored, binding, resCommitted, child', Linger)
    BY <1>0, <2>2, KidsMove
  <2> QED BY <2>1, <2>3
<1>7. ASSUME SpawnCandidate PROVE Accounts(stored, binding, resCommitted, child, Linger)' /\ ~rejected'
  <2>1. /\ stored' = stored /\ binding' = binding /\ resCommitted' = resCommitted /\ ~rejected'
        /\ Linger' = Linger
        /\ child' = [child EXCEPT ![NextGeneration] =
                       [st |-> "starting", op |-> owner.op,
                        exp |-> known.ops[OpAt(known, owner.op)].native, sel |-> owner.sel]]
    BY <1>7, <1>0 DEF SpawnCandidate, Start, Linger
  <2>2. WaitingIn(known, owner.op, owner.sel) /\ known = stored
    BY <1>7 DEF SpawnCandidate, ResInv, InHand
  <2>3. PICK i \in DOMAIN stored.ops : stored.ops[i].id = owner.op
    BY <2>2 DEF WaitingIn
  <2>4. OpAt(stored, owner.op) = i
    BY <1>0, <2>3, PositionOf DEF Accounts
  <2>5. ASSUME NEW g \in Generation
        PROVE  \/ child'[g].op = child[g].op /\ child'[g].exp = child[g].exp
               \/ \E j \in DOMAIN stored.ops : stored.ops[j].id = child'[g].op
                                               /\ stored.ops[j].native = child'[g].exp
    <3>1. CASE g = NextGeneration
      <4>1. child'[g].op = owner.op /\ child'[g].exp = known.ops[OpAt(known, owner.op)].native
        BY <1>0, <2>1, <3>1
      <4> QED BY <2>2, <2>3, <2>4, <4>1
    <3>2. CASE g # NextGeneration
      BY <1>0, <2>1, <3>2
    <3> QED BY <3>1, <3>2
  <2>6. Accounts(stored, binding, resCommitted, child', Linger)
    BY <1>0, <2>5, KidsMove
  <2> QED BY <2>1, <2>6
<1>8. ASSUME CandidateVerified PROVE Accounts(stored, binding, resCommitted, child, Linger)' /\ ~rejected'
  <2>1. known = stored /\ WaitingIn(known, owner.op, owner.sel)
    BY <1>8 DEF CandidateVerified, ResInv, InHand
  <2>2. binding' = binding /\ resCommitted' = resCommitted /\ Linger' = Linger /\ binding.op = owner.op
    BY <1>8, <1>0 DEF CandidateVerified, SaveOk, SaveFails, Fault, Linger
  <2>3. PICK i \in DOMAIN stored.ops : /\ stored.ops[i].id = owner.op /\ Waiting(stored.ops[i])
                                      /\ stored.ops[i].sel = owner.sel
    BY <2>1 DEF WaitingIn
  <2>4. OpAt(known, owner.op) = i
    BY <1>0, <2>1, <2>3, PositionOf DEF Accounts
  <2>5. AppliedRecord(owner) = AppliedTo(stored, i, binding)
    BY <2>1, <2>3, <2>4 DEF AppliedRecord, AppliedTo
  <2>6. Accounts(AppliedRecord(owner), binding, resCommitted, child, Linger)
    BY <1>0, <2>2, <2>3, <2>5, AccountsApply
  <2>7. Validate(AppliedRecord(owner))
    BY <2>6 DEF Accounts, Sound
  <2>8. (stored' = stored \/ stored' = AppliedRecord(owner)) /\ ~rejected'
    BY <1>8, <1>0, <2>7 DEF CandidateVerified, SaveOk, SaveFails
  <2>9. \A k \in Generation : child'[k].op = child[k].op /\ child'[k].exp = child[k].exp
    BY <1>8, RequestsStay DEF SpawnCandidate, OpenBegin, CandidateVerified
  <2>10. Accounts(stored', binding, resCommitted, child', Linger)
    BY <1>0, <2>6, <2>8, <2>9, KidsMove
  <2> QED BY <2>2, <2>8, <2>10
<1>9. ASSUME CandidateFails PROVE Accounts(stored, binding, resCommitted, child, Linger)' /\ ~rejected'
  <2>1. stored' = stored /\ binding' = binding /\ resCommitted' = resCommitted /\ ~rejected'
        /\ Linger' = Linger
    BY <1>9, <1>0 DEF CandidateFails, ShutDown, Fault, Linger
  <2>2. \A k \in Generation : child'[k].op = child[k].op /\ child'[k].exp = child[k].exp
    BY <1>9, RequestsStay DEF SpawnCandidate, OpenBegin, CandidateFails
  <2>3. Accounts(stored, binding, resCommitted, child', Linger)
    BY <1>0, <2>2, KidsMove
  <2> QED BY <2>1, <2>3
<1>10. ASSUME RecordFailure PROVE Accounts(stored, binding, resCommitted, child, Linger)' /\ ~rejected'
  <2>1. binding' = binding /\ resCommitted' = resCommitted /\ child' = child /\ Linger' = Linger
    BY <1>10, <1>0 DEF RecordFailure, SaveOk, SaveFails, Fault, Linger
  <2>2. CASE resLatch
    <3>1. stored' = stored /\ ~rejected'
      BY <1>10, <1>0, <2>2 DEF RecordFailure
    <3> QED BY <1>0, <2>1, <3>1
  <2>3. CASE ~resLatch
    <3>1. known = stored /\ WaitingIn(known, owner.op, owner.sel)
      BY <1>10, <2>3 DEF RecordFailure, ResInv, InHand
    <3>2. PICK i \in DOMAIN stored.ops : stored.ops[i].id = owner.op /\ Waiting(stored.ops[i])
      BY <3>1 DEF WaitingIn
    <3>3. OpAt(known, owner.op) = i
      BY <1>0, <3>1, <3>2, PositionOf DEF Accounts
    <3>4. BlockedRecord(owner) = [stored EXCEPT !.ops[i].status = "Blocked"]
      BY <3>1, <3>3 DEF BlockedRecord
    <3>5. Accounts(BlockedRecord(owner), binding, resCommitted, child, Linger)
      BY <1>0, <3>2, <3>4, AccountsBlock
    <3>6. Validate(BlockedRecord(owner))
      BY <3>5 DEF Accounts, Sound
    <3>7. (stored' = stored \/ stored' = BlockedRecord(owner)) /\ ~rejected'
      BY <1>10, <1>0, <2>3, <3>6 DEF RecordFailure, SaveOk, SaveFails
    <3> QED BY <1>0, <2>1, <3>5, <3>7
  <2> QED BY <2>2, <2>3
<1>11. ASSUME NEW g \in Generation, NativeLocks(g) PROVE Accounts(stored, binding, resCommitted, child, Linger)' /\ ~rejected'
  <2>1. stored' = stored /\ binding' = binding /\ resCommitted' = resCommitted /\ ~rejected'
        /\ Linger' = Linger
    BY <1>11, <1>0 DEF NativeLocks, Linger
  <2>2. \A k \in Generation : child'[k].op = child[k].op /\ child'[k].exp = child[k].exp
    BY <1>11, <1>0 DEF NativeLocks, NativeChildren
  <2>3. Accounts(stored, binding, resCommitted, child', Linger)
    BY <1>0, <2>2, KidsMove
  <2> QED BY <2>1, <2>3
<1>12. ASSUME NEW g \in Generation, NativeStarts(g) PROVE Accounts(stored, binding, resCommitted, child, Linger)' /\ ~rejected'
  <2> DEFINE c == child[g]
             mine == binding = [rev |-> c.exp + 1, op |-> c.op]
  <2>1. /\ stored' = stored /\ ~rejected' /\ Linger' = Linger /\ c.st = "locked"
        /\ c \in NativeChildren
    BY <1>12, <1>0 DEF NativeStarts, Linger
  <2>2. \A k \in Generation : child'[k].op = child[k].op /\ child'[k].exp = child[k].exp
    BY <1>12, <1>0 DEF NativeStarts, NativeChildren
  <2>3. CASE c.op = NoOperation \/ ~(binding.rev = c.exp \/ mine)
    <3>1. resCommitted' = resCommitted
      BY <1>12, <2>3 DEF NativeStarts
    <3>2. binding' = binding \/ (binding.rev = 0 /\ binding' = [rev |-> 1, op |-> NoOperation])
      BY <1>12, <2>3 DEF NativeStarts
    <3>3. Accounts(stored, binding', resCommitted, child, Linger)
      BY <1>0, <3>2, BindKeeps
    <3>4. Accounts(stored, binding', resCommitted, child', Linger)
      BY <2>2, <3>3, KidsMove
    <3> QED BY <2>1, <3>1, <3>4
  <2>4. CASE c.op # NoOperation /\ (binding.rev = c.exp \/ mine)
    <3>1. binding' = [rev |-> c.exp + 1, op |-> c.op] /\ resCommitted' = resCommitted \cup {c.op}
      BY <1>12, <2>4 DEF NativeStarts
    <3>2. CASE mine
      <4>1. binding' = binding /\ binding.op = c.op
        BY <3>1, <3>2
      <4>2. resCommitted' = resCommitted
        BY <1>0, <2>4, <3>1, <4>1 DEF Accounts, BoundIn
      <4>3. Accounts(stored, binding, resCommitted, child', Linger)
        BY <1>0, <2>2, KidsMove
      <4> QED BY <2>1, <4>1, <4>2, <4>3
    <3>3. CASE binding.rev = c.exp
      <4>1. PICK k \in DOMAIN stored.ops : stored.ops[k].id = c.op /\ stored.ops[k].native = c.exp
        BY <1>0, <2>4 DEF Accounts, KidsIn
      <4>2. ~Linger => Waiting(stored.ops[k])
        <5>1. SUFFICES ASSUME ~Linger PROVE Waiting(stored.ops[k])
          OBVIOUS
        <5>2. g # live
          BY <1>0, <2>1, TransitionConstants DEF ResInv, OneAtATime
        <5>3. g = owner.gen /\ owner.step \in {"verify", "open"}
          BY <2>1, <5>1, <5>2 DEF ResInv, OneAtATime, Alive
        <5>4. owner.step = "verify" /\ c.op = owner.op
          BY <2>4, <5>3 DEF ResInv, OneAtATime
        <5>5. WaitingIn(stored, owner.op, owner.sel)
          BY <5>4 DEF ResInv, InHand
        <5>6. PICK i \in DOMAIN stored.ops : stored.ops[i].id = owner.op /\ Waiting(stored.ops[i])
          BY <5>5 DEF WaitingIn
        <5>7. i = k
          BY <1>0, <4>1, <5>4, <5>6, StandsOnce DEF Accounts
        <5> QED BY <5>6, <5>7
      <4>3. Accounts(stored, [rev |-> stored.ops[k].native + 1, op |-> stored.ops[k].id],
                     resCommitted \cup {stored.ops[k].id}, child, Linger)
        BY <1>0, <3>3, <4>1, <4>2, CommitKeeps
      <4>4. Accounts(stored, binding', resCommitted', child, Linger)
        BY <3>1, <4>1, <4>3
      <4>5. Accounts(stored, binding', resCommitted', child', Linger)
        BY <2>2, <4>4, KidsMove
      <4> QED BY <2>1, <4>5
    <3> QED BY <2>4, <3>2, <3>3
  <2> QED BY <2>3, <2>4
<1>13. ASSUME NEW g \in Generation, NativeDies(g) PROVE Accounts(stored, binding, resCommitted, child, Linger)' /\ ~rejected'
  <2>1. stored' = stored /\ binding' = binding /\ resCommitted' = resCommitted /\ ~rejected'
        /\ Linger' = Linger
    BY <1>13, <1>0 DEF NativeDies, Fault, Linger
  <2>2. \A k \in Generation : child'[k].op = child[k].op /\ child'[k].exp = child[k].exp
    BY <1>13, <1>0 DEF NativeDies, NativeChildren
  <2>3. Accounts(stored, binding, resCommitted, child', Linger)
    BY <1>0, <2>2, KidsMove
  <2> QED BY <2>1, <2>3
<1>14. ASSUME NEW g \in Generation, NativeLeaves(g) PROVE Accounts(stored, binding, resCommitted, child, Linger)' /\ ~rejected'
  <2>1. stored' = stored /\ binding' = binding /\ resCommitted' = resCommitted /\ ~rejected'
        /\ Linger' = Linger
    BY <1>14, <1>0 DEF NativeLeaves, Linger
  <2>2. \A k \in Generation : child'[k].op = child[k].op /\ child'[k].exp = child[k].exp
    BY <1>14, <1>0 DEF NativeLeaves, NativeChildren
  <2>3. Accounts(stored, binding, resCommitted, child', Linger)
    BY <1>0, <2>2, KidsMove
  <2> QED BY <2>1, <2>3
<1>15. ASSUME RunStarts PROVE Accounts(stored, binding, resCommitted, child, Linger)' /\ ~rejected'
  <2>1. stored' = stored /\ binding' = binding /\ resCommitted' = resCommitted /\ ~rejected'
        /\ Linger' = Linger
    BY <1>15, <1>0 DEF RunStarts, Linger
  <2>2. \A k \in Generation : child'[k].op = child[k].op /\ child'[k].exp = child[k].exp
    BY <1>15 DEF RunStarts
  <2>3. Accounts(stored, binding, resCommitted, child', Linger)
    BY <1>0, <2>2, KidsMove
  <2> QED BY <2>1, <2>3
<1>16. ASSUME RunSettles PROVE Accounts(stored, binding, resCommitted, child, Linger)' /\ ~rejected'
  <2>1. stored' = stored /\ binding' = binding /\ resCommitted' = resCommitted /\ ~rejected'
        /\ Linger' = Linger
    BY <1>16, <1>0 DEF RunSettles, Linger
  <2>2. \A k \in Generation : child'[k].op = child[k].op /\ child'[k].exp = child[k].exp
    BY <1>16 DEF RunSettles
  <2>3. Accounts(stored, binding, resCommitted, child', Linger)
    BY <1>0, <2>2, KidsMove
  <2> QED BY <2>1, <2>3
<1>17. ASSUME OpenBegin PROVE Accounts(stored, binding, resCommitted, child, Linger)' /\ ~rejected'
  <2>1. /\ stored' = stored /\ binding' = binding /\ resCommitted' = resCommitted /\ ~rejected'
        /\ Linger' = Linger
        /\ child' = [child EXCEPT ![NextGeneration] =
                       [st |-> "starting", op |-> NoOperation, exp |-> 0, sel |-> known.sel]]
    BY <1>17, <1>0 DEF OpenBegin, Start, Linger
  <2>2. \A g \in Generation : child'[g].op = NoOperation
                             \/ (child'[g].op = child[g].op /\ child'[g].exp = child[g].exp)
    BY <1>0, <2>1
  <2>3. Accounts(stored, binding, resCommitted, child', Linger)
    BY <1>0, <2>2, KidsMove
  <2> QED BY <2>1, <2>3
<1>18. ASSUME OpenPublish PROVE Accounts(stored, binding, resCommitted, child, Linger)' /\ ~rejected'
  <2>1. known = stored /\ ~Blocked(known)
    BY <1>18 DEF OpenPublish, ResInv, InHand
  <2>2. binding' = binding /\ resCommitted' = resCommitted /\ Linger' = Linger
    BY <1>18, <1>0 DEF OpenPublish, SaveOk, SaveFails, Fault, Linger
  <2>3. \A k \in Generation : child'[k].op = child[k].op /\ child'[k].exp = child[k].exp
    BY <1>18, RequestsStay DEF SpawnCandidate, OpenBegin, OpenPublish
  <2>4. CASE known = NoRecord
    <3>1. stored' = stored /\ ~rejected'
      BY <1>18, <1>0, <2>4 DEF OpenPublish
    <3>2. Accounts(stored, binding, resCommitted, child', Linger)
      BY <1>0, <2>3, KidsMove
    <3> QED BY <2>2, <3>1, <3>2
  <2>5. CASE known # NoRecord
    <3> DEFINE seen == [known EXCEPT !.obs = binding]
    <3>1. Sound(stored) /\ AppliedIn(stored, binding, Linger)
      BY <1>0 DEF Accounts
    <3>2. Sound(seen) /\ seen.ops = stored.ops
      BY <1>0, <2>1, <2>5, <3>1, SeenKeeps
    <3>3. (stored' = stored \/ stored' = seen) /\ ~rejected'
      BY <1>18, <1>0, <2>5, <3>2 DEF OpenPublish, SaveOk, SaveFails, Sound
    <3> HIDE DEF seen
    <3>4. Accounts(seen, binding, resCommitted, child, Linger)
      BY <1>0, <3>2, AccountsSame
    <3>5. Accounts(stored', binding, resCommitted, child', Linger)
      BY <1>0, <2>3, <3>3, <3>4, KidsMove
    <3> QED BY <2>2, <3>3, <3>5
  <2> QED BY <2>4, <2>5
<1>19. ASSUME OpenFails PROVE Accounts(stored, binding, resCommitted, child, Linger)' /\ ~rejected'
  <2>1. stored' = stored /\ binding' = binding /\ resCommitted' = resCommitted /\ ~rejected'
        /\ Linger' = Linger
    BY <1>19, <1>0 DEF OpenFails, ShutDown, Fault, Linger
  <2>2. \A k \in Generation : child'[k].op = child[k].op /\ child'[k].exp = child[k].exp
    BY <1>19, RequestsStay DEF SpawnCandidate, OpenBegin, OpenFails
  <2>3. Accounts(stored, binding, resCommitted, child', Linger)
    BY <1>0, <2>2, KidsMove
  <2> QED BY <2>1, <2>3
<1>20. ASSUME CrashRestart PROVE Accounts(stored, binding, resCommitted, child, Linger)' /\ ~rejected'
  <2>1. stored' = stored /\ binding' = binding /\ resCommitted' = resCommitted /\ ~rejected'
        /\ Linger' = Linger
    BY <1>20, <1>0 DEF CrashRestart, Fault, Linger
  <2>2. \A k \in Generation : child'[k].op = child[k].op /\ child'[k].exp = child[k].exp
    BY <1>20, <1>0 DEF CrashRestart, NativeChildren
  <2>3. Accounts(stored, binding, resCommitted, child', Linger)
    BY <1>0, <2>2, KidsMove
  <2> QED BY <2>1, <2>3
<1>21. CASE UNCHANGED resVars
  <2>1. stored' = stored /\ binding' = binding /\ resCommitted' = resCommitted /\ ~rejected'
        /\ Linger' = Linger
    BY <1>21, <1>0 DEF resVars, Linger
  <2>2. \A k \in Generation : child'[k].op = child[k].op /\ child'[k].exp = child[k].exp
    BY <1>21 DEF resVars
  <2>3. Accounts(stored, binding, resCommitted, child', Linger)
    BY <1>0, <2>2, KidsMove
  <2> QED BY <2>1, <2>3
<1> QED BY <1>1, <1>2, <1>3, <1>4, <1>5, <1>6, <1>7, <1>8, <1>9, <1>10, <1>11, <1>12, <1>13, <1>14, <1>15, <1>16, <1>17, <1>18, <1>19, <1>20, <1>21 DEF ResNext, Apply, Native

(* The task's operation stays the one the ledger waits for. *)
LEMMA InHandStays == ResInv /\ [ResNext]_resVars => InHand'
<1> SUFFICES ASSUME ResInv, [ResNext]_resVars PROVE InHand'
  OBVIOUS
<1>0. OwnerTyped /\ owner \in ResOwners /\ InHand /\ OneAtATime
      /\ Accounts(stored, binding, resCommitted, child, Linger)
  BY DEF ResInv, OwnerTyped
<1> USE DEF InHand
<1>1. ASSUME NEW req \in Request, ApplyBegin(req) PROVE InHand'
  <2>1. /\ known' = known /\ stored' = stored /\ ~resLatch' /\ known = stored
        /\ owner'.step = "inspect" /\ owner'.op = req.op /\ owner'.sel = req.sel
        /\ owner'.sup = req.sup
    BY <1>1, <1>0 DEF ApplyBegin, Admissible
  <2>2. ASSUME Existing(known, req.op) PROVE WaitingIn(known, req.op, req.sel)
    <3> DEFINE i == OpAt(known, req.op)
    <3>1. i \in Position(known, req.op)
      BY <2>2 DEF Existing, OpAt
    <3>2. i \in DOMAIN known.ops /\ known.ops[i].id = req.op
      BY <3>1 DEF Position
    <3>3. known.ops[i].sel = req.sel /\ Waiting(known.ops[i])
      BY <1>1, <2>2 DEF ApplyBegin, Admissible
    <3> QED BY <3>2, <3>3 DEF WaitingIn
  <2>3. ASSUME ~Existing(known, req.op) PROVE Validate(Plan(known, req.op, req.sel, req.sup))
    BY <1>1, <2>3, PlanIs DEF ApplyBegin
  <2> QED BY <2>1, <2>2, <2>3
<1>2. ASSUME ApplyRefused PROVE InHand'
  <2>1. owner' = OpFree
    BY <1>2 DEF ApplyRefused
  <2>2. resLatch' \/ known' = stored'
    BY <1>2, <1>0 DEF ApplyRefused
  <2> QED BY <2>1, <2>2 DEF OpFree
<1>3. ASSUME InspectLive PROVE InHand'
  <2>1. CASE owner' = OpFree
    <3>1. known' = known /\ stored' = stored /\ resLatch' = resLatch
      BY <1>3 DEF InspectLive
    <3> QED BY <1>0, <2>1, <3>1 DEF OpFree
  <2>2. CASE owner' = [owner EXCEPT !.step = "save"]
    <3>1. known' = known /\ stored' = stored /\ resLatch' = resLatch /\ ~resLatch
          /\ owner.step = "inspect" /\ owner.sup = NoOperation
      BY <1>3, <1>0 DEF InspectLive, Superseding
    <3>2. owner'.op = owner.op /\ owner'.sel = owner.sel /\ owner'.sup = owner.sup
          /\ owner'.step = "save"
      BY <1>0, <2>2 DEF ResOwners
    <3> QED BY <1>0, <3>1, <3>2
  <2> QED BY <1>3, <2>1, <2>2 DEF InspectLive
<1>4. ASSUME InspectOffline PROVE InHand'
  <2>1. CASE owner' = OpFree
    <3>1. known' = known /\ stored' = stored /\ resLatch' = resLatch
      BY <1>4 DEF InspectOffline
    <3> QED BY <1>0, <2>1, <3>1 DEF OpFree
  <2>2. CASE owner' = [owner EXCEPT !.step = "save", !.reading = TRUE] /\ NativeAgrees(owner)
    <3>1. known' = known /\ stored' = stored /\ resLatch' = resLatch /\ ~resLatch
          /\ owner.step = "inspect" /\ binding' = binding
      BY <1>4, <1>0 DEF InspectOffline
    <3>2. owner'.op = owner.op /\ owner'.sel = owner.sel /\ owner'.sup = owner.sup
          /\ owner'.step = "save"
      BY <1>0, <2>2 DEF ResOwners
    <3>3. ~Existing(known, owner.op) => binding.rev = Expects(known, owner.op, owner.sup)
      BY <2>2, PlanIs DEF NativeAgrees, OriginalCommitted
    <3> QED BY <1>0, <3>1, <3>2, <3>3
  <2> QED BY <1>4, <2>1, <2>2 DEF InspectOffline
<1>5. ASSUME SaveIntent PROVE InHand'
  <2>1. owner.step = "save" /\ ~resLatch /\ known = stored
    BY <1>5, <1>0 DEF SaveIntent
  <2>2. CASE owner' = OpFree
    <3>1. resLatch' \/ known' = stored'
      BY <1>5, <2>1 DEF SaveIntent, SaveOk, SaveFails
    <3> QED BY <2>2, <3>1 DEF OpFree
  <2>3. CASE owner' # OpFree
    <3>1. /\ owner' = [owner EXCEPT !.step = "exit", !.reading = FALSE]
          /\ \/ Existing(known, owner.op) /\ UNCHANGED <<known, stored, resLatch>>
             \/ ~Existing(known, owner.op) /\ SaveOk(Planned(owner))
      BY <1>5, <2>3 DEF SaveIntent
    <3>2. owner'.op = owner.op /\ owner'.sel = owner.sel /\ owner'.step = "exit"
      BY <1>0, <3>1 DEF ResOwners
    <3>3. known' = stored' /\ ~resLatch'
      BY <2>1, <3>1 DEF SaveOk
    <3>4. WaitingIn(known', owner.op, owner.sel)
      <4>1. CASE Existing(known, owner.op) /\ UNCHANGED <<known, stored, resLatch>>
        BY <1>0, <2>1, <4>1
      <4>2. CASE ~Existing(known, owner.op) /\ SaveOk(Planned(owner))
        <5> DEFINE n == Len(known.ops) + 1
                   P == Planned(owner)
        <5>1. Sound(known) /\ owner.op \in Operation /\ owner.sel \in Target
              /\ owner.sup \in Operation \cup {NoOperation}
          BY <1>0, <2>1 DEF Accounts, ResOwners, OwnerTyped
        <5>2. /\ Len(P.ops) = n /\ P.ops[n].id = owner.op /\ P.ops[n].sel = owner.sel
              /\ P.ops[n].status = "Pending"
              /\ P.ops \in Seq(Intents \cup {P.ops[n]})
          <6>1. /\ Len(P.ops) = n /\ P.ops \in Seq(Intents \cup {P.ops[n]})
                /\ P.ops[n] = [id |-> owner.op, sel |-> owner.sel, sup |-> owner.sup,
                                expected |-> known.rev, native |-> Expected(owner),
                                status |-> "Pending", result |-> Unbound]
            BY ONLY <5>1, PlannedShape
          <6> HIDE DEF P
          <6> QED BY ONLY <6>1
        <5>3. n \in Nat /\ n > 0
          BY <5>1, LedgerShape DEF Sound
        <5>4. n \in DOMAIN P.ops
          BY <5>2, <5>3
        <5>5. known' = P
          BY <4>2 DEF SaveOk
        <5> QED BY <5>2, <5>4, <5>5 DEF WaitingIn, Waiting
      <4> QED BY <3>1, <4>1, <4>2
    <3> QED BY <3>2, <3>3, <3>4
  <2> QED BY <2>2, <2>3
<1>6. ASSUME AwaitExit PROVE InHand'
  <2>1. /\ known' = known /\ stored' = stored /\ resLatch' = resLatch /\ ~resLatch
    BY <1>6, <1>0 DEF AwaitExit
  <2>2. WaitingIn(known, owner.op, owner.sel)
    BY <1>6, <1>0 DEF AwaitExit
  <2>3. owner'.op = owner.op /\ owner'.sel = owner.sel /\ owner'.step \in {"spawn", "failed"}
    BY <1>6, <1>0 DEF AwaitExit, ResOwners
  <2> QED BY <1>0, <2>1, <2>2, <2>3
<1>7. ASSUME SpawnCandidate PROVE InHand'
  <2>1. /\ known' = known /\ stored' = stored /\ resLatch' = resLatch /\ ~resLatch
    BY <1>7, <1>0 DEF SpawnCandidate
  <2>2. WaitingIn(known, owner.op, owner.sel)
    BY <1>7, <1>0 DEF SpawnCandidate
  <2>3. owner'.op = owner.op /\ owner'.sel = owner.sel /\ owner'.step \in {"verify"}
    BY <1>7, <1>0 DEF SpawnCandidate, ResOwners
  <2> QED BY <1>0, <2>1, <2>2, <2>3
<1>8. ASSUME CandidateVerified PROVE InHand'
  <2>1. \/ owner' = OpFree /\ known' = stored' /\ ~resLatch'
        \/ owner' = [owner EXCEPT !.step = "failed"] /\ resLatch'
    BY <1>8, <1>0 DEF CandidateVerified, SaveOk, SaveFails
  <2>2. CASE owner' = OpFree /\ known' = stored' /\ ~resLatch'
    BY <2>2 DEF OpFree
  <2>3. CASE owner' = [owner EXCEPT !.step = "failed"] /\ resLatch'
    <3>1. owner'.step = "failed"
      BY <1>0, <2>3 DEF ResOwners
    <3> QED BY <2>3, <3>1
  <2> QED BY <2>1, <2>2, <2>3
<1>9. ASSUME CandidateFails PROVE InHand'
  <2>1. /\ known' = known /\ stored' = stored /\ resLatch' = resLatch /\ ~resLatch
    BY <1>9, <1>0 DEF CandidateFails
  <2>2. WaitingIn(known, owner.op, owner.sel)
    BY <1>9, <1>0 DEF CandidateFails
  <2>3. owner'.op = owner.op /\ owner'.sel = owner.sel /\ owner'.step \in {"failed"}
    BY <1>9, <1>0 DEF CandidateFails, ResOwners
  <2> QED BY <1>0, <2>1, <2>2, <2>3
<1>10. ASSUME RecordFailure PROVE InHand'
  <2>1. owner' = OpFree
    BY <1>10 DEF RecordFailure
  <2>2. resLatch' \/ known' = stored'
    BY <1>10, <1>0 DEF RecordFailure, SaveOk, SaveFails, Fault
  <2> QED BY <2>1, <2>2 DEF OpFree
<1>11. ASSUME NEW g \in Generation, NativeLocks(g) PROVE InHand'
  <2>1. /\ known' = known /\ stored' = stored /\ resLatch' = resLatch /\ owner' = owner
        /\ binding' = binding /\ Linger' = Linger
    BY <1>11, <1>0 DEF NativeLocks, Linger
  <2> QED BY <1>0, <2>1
<1>12. ASSUME NEW g \in Generation, NativeStarts(g) PROVE InHand'
  <2>1. /\ known' = known /\ stored' = stored /\ resLatch' = resLatch /\ owner' = owner
        /\ Linger' = Linger /\ child[g].st = "locked"
    BY <1>12 DEF NativeStarts, Linger
  <2>2. ~Linger => owner.step # "save"
    BY <1>12, <2>1, TransitionConstants DEF ResInv, OneAtATime, Alive
  <2> QED BY <1>0, <2>1, <2>2
<1>13. ASSUME NEW g \in Generation, NativeDies(g) PROVE InHand'
  <2>1. /\ known' = known /\ stored' = stored /\ resLatch' = resLatch /\ owner' = owner
        /\ binding' = binding /\ Linger' = Linger
    BY <1>13, <1>0 DEF NativeDies, Fault, Linger
  <2> QED BY <1>0, <2>1
<1>14. ASSUME NEW g \in Generation, NativeLeaves(g) PROVE InHand'
  <2>1. /\ known' = known /\ stored' = stored /\ resLatch' = resLatch /\ owner' = owner
        /\ binding' = binding /\ Linger' = Linger
    BY <1>14, <1>0 DEF NativeLeaves, Linger
  <2> QED BY <1>0, <2>1
<1>15. ASSUME RunStarts PROVE InHand'
  <2>1. /\ known' = known /\ stored' = stored /\ resLatch' = resLatch /\ owner' = owner
        /\ binding' = binding /\ Linger' = Linger
    BY <1>15, <1>0 DEF RunStarts, Linger
  <2> QED BY <1>0, <2>1
<1>16. ASSUME RunSettles PROVE InHand'
  <2>1. /\ known' = known /\ stored' = stored /\ resLatch' = resLatch /\ owner' = owner
        /\ binding' = binding /\ Linger' = Linger
    BY <1>16, <1>0 DEF RunSettles, Linger
  <2> QED BY <1>0, <2>1
<1>17. ASSUME OpenBegin PROVE InHand'
  <2>1. known' = known /\ stored' = stored /\ ~resLatch' /\ known = stored /\ ~Blocked(known)
        /\ owner'.step = "open"
    BY <1>17, <1>0 DEF OpenBegin, OpFree
  <2> QED BY <2>1
<1>18. ASSUME OpenPublish PROVE InHand'
  <2>1. owner' = OpFree
    BY <1>18 DEF OpenPublish
  <2>2. resLatch' \/ known' = stored'
    BY <1>18, <1>0 DEF OpenPublish, SaveOk, SaveFails, ShutDown, Fault
  <2> QED BY <2>1, <2>2 DEF OpFree
<1>19. ASSUME OpenFails PROVE InHand'
  <2>1. owner' = OpFree
    BY <1>19 DEF OpenFails
  <2>2. resLatch' \/ known' = stored'
    BY <1>19, <1>0 DEF OpenFails, ShutDown, Fault
  <2> QED BY <2>1, <2>2 DEF OpFree
<1>20. ASSUME CrashRestart PROVE InHand'
  <2>1. owner' = OpFree
    BY <1>20 DEF CrashRestart
  <2>2. resLatch' \/ known' = stored'
    BY <1>20, <1>0 DEF CrashRestart, Fault
  <2> QED BY <2>1, <2>2 DEF OpFree
<1>21. CASE UNCHANGED resVars
  <2>1. /\ known' = known /\ stored' = stored /\ resLatch' = resLatch /\ owner' = owner
        /\ binding' = binding /\ Linger' = Linger
    BY <1>21, <1>0 DEF resVars, Linger
  <2> QED BY <1>0, <2>1
<1> QED BY <1>1, <1>2, <1>3, <1>4, <1>5, <1>6, <1>7, <1>8, <1>9, <1>10, <1>11, <1>12, <1>13, <1>14, <1>15, <1>16, <1>17, <1>18, <1>19, <1>20, <1>21 DEF ResNext, Apply, Native

(* No child is started beside another that may live, and none works while it is fenced. *)
LEMMA OneAtATimeStays == ResInv /\ [ResNext]_resVars => OneAtATime'
<1> SUFFICES ASSUME ResInv, [ResNext]_resVars PROVE OneAtATime'
  OBVIOUS
<1>0. /\ owner \in ResOwners /\ OneAtATime
      /\ child \in [Generation -> NativeChildren] /\ live \in Generation \cup {0}
      /\ 0 \notin Generation /\ OwnerTyped /\ faults \in [n : Nat, linger : BOOLEAN]
  BY TransitionConstants DEF ResInv, OwnerTyped, NativeTyped
<1> USE DEF OneAtATime, Alive
<1>1. ASSUME NEW req \in Request, ApplyBegin(req) PROVE OneAtATime'
  BY <1>1, <1>0 DEF ApplyBegin, Request, OpFree, Linger, ResOwners, NativeChildren
<1>2. ASSUME ApplyRefused PROVE OneAtATime'
  BY <1>2, <1>0 DEF ApplyRefused, OpFree, Linger, ResOwners, NativeChildren
<1>3. ASSUME InspectLive PROVE OneAtATime'
  BY <1>3, <1>0 DEF InspectLive, OpFree, Linger, ResOwners, NativeChildren
<1>4. ASSUME InspectOffline PROVE OneAtATime'
  <2>1. /\ owner.step = "inspect" /\ owner.gen = 0 /\ ~running /\ running' = running
        /\ live' = live /\ Linger' = Linger
    BY <1>4, <1>0 DEF InspectOffline, OpClosed, Linger
  <2>2. \A k \in Generation : /\ child'[k].st = child[k].st \/ child'[k].st = "gone"
                             /\ child'[k].op = child[k].op
    BY <1>4, <1>0 DEF InspectOffline, NativeChildren
  <2>3. owner'.step \in {"save", "free"} /\ owner'.gen = 0
    BY <1>4, <1>0, <2>1 DEF InspectOffline, OpFree, ResOwners
  <2> QED BY <1>0, <2>1, <2>2, <2>3
<1>5. ASSUME SaveIntent PROVE OneAtATime'
  <2>1. /\ owner.step = "save" /\ owner.gen = 0 /\ ~running /\ running' = running
        /\ live' = live /\ Linger' = Linger /\ child' = child
        /\ (owner' = OpFree \/ owner' = [owner EXCEPT !.step = "exit", !.reading = FALSE])
    BY <1>5, <1>0 DEF SaveIntent, SaveOk, SaveFails, Fault, Linger
  <2>2. owner'.step \in {"exit", "free"} /\ owner'.gen = 0
    <3>1. CASE owner' = OpFree
      BY <3>1 DEF OpFree
    <3>2. CASE owner' = [owner EXCEPT !.step = "exit", !.reading = FALSE]
      BY <1>0, <2>1, <3>2 DEF ResOwners
    <3> QED BY <2>1, <3>1, <3>2
  <2> QED BY <1>0, <2>1, <2>2
<1>6. ASSUME AwaitExit PROVE OneAtATime'
  <2>1. /\ owner.step = "exit" /\ owner.gen = 0 /\ ~running /\ running' = running
        /\ Linger' = Linger
    BY <1>6, <1>0 DEF AwaitExit, Fault, Linger
  <2>2. \A k \in Generation : /\ child'[k].st = child[k].st \/ child'[k].st = "gone"
                             /\ child'[k].op = child[k].op
    BY <1>6, <1>0 DEF AwaitExit, NativeChildren
  <2>3. \/ /\ owner' = [owner EXCEPT !.step = "spawn"] /\ live' = 0
           /\ child' = [g \in Generation |-> IF g = live /\ Alive(g)
                                              THEN [child[g] EXCEPT !.st = "gone"] ELSE child[g]]
        \/ owner' = [owner EXCEPT !.step = "failed"] /\ live' = live /\ child' = child
    BY <1>6 DEF AwaitExit
  <2>4. owner'.gen = 0 /\ owner'.step \in {"spawn", "failed"}
        /\ (owner'.step = "spawn" => live' = 0)
        /\ (live' # live => live' = 0 /\ (live # 0 => child'[live].st \notin {"starting", "locked", "up"}))
    BY <1>0, <2>1, <2>3 DEF ResOwners, NativeChildren
  <2> QED BY <1>0, <2>1, <2>2, <2>4
<1>7. ASSUME SpawnCandidate PROVE OneAtATime'
  <2>1. NextGeneration \in Generation /\ child[NextGeneration].st = "none"
    BY <1>7, NextIsFresh DEF SpawnCandidate, Fresh
  <2>2. /\ child'[NextGeneration].st = "starting" /\ child'[NextGeneration].op = owner.op
        /\ \A k \in Generation : k # NextGeneration => child'[k] = child[k]
    BY <1>7, <1>0, <2>1 DEF SpawnCandidate, Start
  <2>3. /\ owner.step = "spawn" /\ live' = live /\ live = 0 /\ retired' = retired /\ ~running
        /\ running' = running /\ faults' = faults
        /\ owner'.gen = NextGeneration /\ owner'.step = "verify" /\ owner'.op = owner.op
    BY <1>7, <1>0 DEF SpawnCandidate, ResOwners
  <2> QED BY <1>0, <2>1, <2>2, <2>3 DEF Linger
<1>8. ASSUME CandidateVerified PROVE OneAtATime'
  <2>1. owner.step = "verify" /\ owner.gen \in Generation /\ owner.gen # 0 /\ live = 0 /\ ~running
        /\ running' = running /\ retired' = retired /\ Linger' = Linger
    BY <1>8, <1>0 DEF CandidateVerified, SaveOk, SaveFails, ShutDown, Fault, Linger
  <2>2. \/ child' = child
        \/ child' = [child EXCEPT ![owner.gen].st = "gone"]
    BY <1>8 DEF CandidateVerified, ShutDown
  <2>3. \A k \in Generation : child'[k].st \in {child[k].st, "gone"}
    BY <1>0, <2>1, <2>2 DEF NativeChildren
  <2>4. CASE owner' = OpFree /\ live' = owner.gen /\ child' = child /\ child[owner.gen].st = "up"
    BY <1>0, <2>1, <2>4 DEF OpFree
  <2>5. CASE /\ owner' = [owner EXCEPT !.step = "failed"] /\ live' = live
             /\ Linger \/ child' = [child EXCEPT ![owner.gen].st = "gone"]
    <3>1. owner'.step = "failed" /\ owner'.gen = owner.gen
      BY <1>0, <2>5 DEF ResOwners
    <3>2. ~Linger => child'[owner.gen].st = "gone"
      BY <1>0, <2>1, <2>5 DEF NativeChildren
    <3> QED BY <1>0, <2>1, <2>3, <2>5, <3>1, <3>2
  <2> QED BY <1>8, <2>4, <2>5 DEF CandidateVerified, ShutDown
<1>9. ASSUME CandidateFails PROVE OneAtATime'
  <2>1. owner.step = "verify" /\ owner.gen \in Generation /\ owner.gen # 0 /\ live = 0 /\ ~running
        /\ running' = running /\ retired' = retired /\ Linger' = Linger
    BY <1>9, <1>0 DEF CandidateFails, ShutDown, Fault, Linger
  <2>2. \/ child' = child
        \/ child' = [child EXCEPT ![owner.gen].st = "gone"]
    BY <1>9 DEF CandidateFails, ShutDown
  <2>3. \A k \in Generation : child'[k].st \in {child[k].st, "gone"}
    BY <1>0, <2>1, <2>2 DEF NativeChildren
  <2>5. /\ owner' = [owner EXCEPT !.step = "failed"] /\ live' = live
        /\ Linger \/ child' = [child EXCEPT ![owner.gen].st = "gone"]
    BY <1>9 DEF CandidateFails, ShutDown
  <2>6. owner'.step = "failed" /\ owner'.gen = owner.gen
    BY <1>0, <2>5 DEF ResOwners
  <2>7. ~Linger => child'[owner.gen].st = "gone"
    BY <1>0, <2>1, <2>5 DEF NativeChildren
  <2> QED BY <1>0, <2>1, <2>3, <2>5, <2>6, <2>7
<1>10. ASSUME RecordFailure PROVE OneAtATime'
  BY <1>10, <1>0 DEF RecordFailure, SaveOk, SaveFails, Fault, OpFree, Linger, ResOwners, NativeChildren
<1>11. ASSUME NEW g \in Generation, NativeLocks(g) PROVE OneAtATime'
  <2>1. /\ child[g].st = "starting"
        /\ owner' = owner /\ live' = live /\ retired' = retired /\ Linger' = Linger
        /\ running' = running
    BY <1>11, <1>0 DEF NativeLocks, Linger
  <2>2. /\ child'[g].st = "locked" /\ child'[g].op = child[g].op
        /\ \A k \in Generation : k # g => child'[k] = child[k]
    BY <1>11, <1>0 DEF NativeLocks, NativeChildren
  <2> QED BY <1>0, <2>1, <2>2
<1>12. ASSUME NEW g \in Generation, NativeStarts(g) PROVE OneAtATime'
  <2>1. /\ child[g].st = "locked"
        /\ owner' = owner /\ live' = live /\ retired' = retired /\ Linger' = Linger
        /\ running' = running
    BY <1>12, <1>0 DEF NativeStarts, Linger
  <2>2. /\ child'[g].st \in {"up", "gone"} /\ child'[g].op = child[g].op
        /\ \A k \in Generation : k # g => child'[k] = child[k]
    BY <1>12, <1>0 DEF NativeStarts, NativeChildren
  <2> QED BY <1>0, <2>1, <2>2
<1>13. ASSUME NEW g \in Generation, NativeDies(g) PROVE OneAtATime'
  <2>1. /\ child[g].st \in {"starting", "locked", "up"}
        /\ owner' = owner /\ live' = live /\ retired' = retired /\ Linger' = Linger
        /\ running' = (running /\ g # live)
    BY <1>13, <1>0 DEF NativeDies, Fault, Linger
  <2>2. /\ child'[g].st = "gone" /\ child'[g].op = child[g].op
        /\ \A k \in Generation : k # g => child'[k] = child[k]
    BY <1>13, <1>0 DEF NativeDies, NativeChildren
  <2> QED BY <1>0, <2>1, <2>2
<1>14. ASSUME NEW g \in Generation, NativeLeaves(g) PROVE OneAtATime'
  <2>1. /\ g # live /\ g # owner.gen
        /\ owner' = owner /\ live' = live /\ retired' = retired /\ Linger' = Linger
        /\ running' = running
    BY <1>14, <1>0 DEF NativeLeaves, Linger
  <2>2. /\ child'[g].st = "gone" /\ child'[g].op = child[g].op
        /\ \A k \in Generation : k # g => child'[k] = child[k]
    BY <1>14, <1>0 DEF NativeLeaves, NativeChildren
  <2> QED BY <1>0, <2>1, <2>2
<1>15. ASSUME RunStarts PROVE OneAtATime'
  BY <1>15, <1>0 DEF RunStarts, OpFree, Linger, ResOwners, NativeChildren
<1>16. ASSUME RunSettles PROVE OneAtATime'
  BY <1>16, <1>0 DEF RunSettles, OpFree, Linger, ResOwners, NativeChildren
<1>17. ASSUME OpenBegin PROVE OneAtATime'
  <2>1. NextGeneration \in Generation /\ child[NextGeneration].st = "none"
    BY <1>17, NextIsFresh DEF OpenBegin, Fresh
  <2>2. /\ child'[NextGeneration].st = "starting" /\ child'[NextGeneration].op = NoOperation
        /\ \A k \in Generation : k # NextGeneration => child'[k] = child[k]
    BY <1>17, <1>0, <2>1 DEF OpenBegin, Start
  <2>3. /\ owner.step = "free" /\ live' = 0 /\ running' = running /\ faults' = faults
        /\ owner'.gen = NextGeneration /\ owner'.step = "open"
        /\ live = 0 \/ child[live].st = "gone"
    BY <1>17, <1>0 DEF OpenBegin, OpFree, OpClosed
  <2>4. ~running
    BY <1>0, <2>3
  <2> QED BY <1>0, <2>1, <2>2, <2>3, <2>4 DEF Linger
<1>18. ASSUME OpenPublish PROVE OneAtATime'
  <2>1. owner.step = "open" /\ owner.gen \in Generation /\ owner.gen # 0 /\ live = 0 /\ ~running
        /\ running' = running /\ retired' = retired /\ Linger' = Linger
    BY <1>18, <1>0 DEF OpenPublish, SaveOk, SaveFails, ShutDown, Fault, Linger
  <2>2. \/ child' = child
        \/ child' = [child EXCEPT ![owner.gen].st = "gone"]
    BY <1>18 DEF OpenPublish, ShutDown
  <2>3. \A k \in Generation : child'[k].st \in {child[k].st, "gone"}
    BY <1>0, <2>1, <2>2 DEF NativeChildren
  <2>4. CASE owner' = OpFree /\ live' = owner.gen /\ child' = child /\ child[owner.gen].st = "up"
    BY <1>0, <2>1, <2>4 DEF OpFree
  <2>5. CASE /\ owner' = OpFree /\ live' = live
             /\ Linger \/ child' = [child EXCEPT ![owner.gen].st = "gone"]
    <3>2. ~Linger => child'[owner.gen].st = "gone"
      BY <1>0, <2>1, <2>5 DEF NativeChildren
    <3> QED BY <1>0, <2>1, <2>3, <2>5, <3>2 DEF OpFree
  <2> QED BY <1>18, <2>4, <2>5 DEF OpenPublish, ShutDown
<1>19. ASSUME OpenFails PROVE OneAtATime'
  <2>1. owner.step = "open" /\ owner.gen \in Generation /\ owner.gen # 0 /\ live = 0 /\ ~running
        /\ running' = running /\ retired' = retired /\ Linger' = Linger
    BY <1>19, <1>0 DEF OpenFails, ShutDown, Fault, Linger
  <2>2. \/ child' = child
        \/ child' = [child EXCEPT ![owner.gen].st = "gone"]
    BY <1>19 DEF OpenFails, ShutDown
  <2>3. \A k \in Generation : child'[k].st \in {child[k].st, "gone"}
    BY <1>0, <2>1, <2>2 DEF NativeChildren
  <2>5. /\ owner' = OpFree /\ live' = live
        /\ Linger \/ child' = [child EXCEPT ![owner.gen].st = "gone"]
    BY <1>19 DEF OpenFails, ShutDown
  <2>7. ~Linger => child'[owner.gen].st = "gone"
    BY <1>0, <2>1, <2>5 DEF NativeChildren
  <2> QED BY <1>0, <2>1, <2>3, <2>5, <2>7 DEF OpFree
<1>20. ASSUME CrashRestart PROVE OneAtATime'
  <2>1. /\ owner' = OpFree /\ live' = 0 /\ running' = FALSE /\ Linger' = Linger
        /\ Linger \/ child' = [g \in Generation |-> IF Alive(g) THEN [child[g] EXCEPT !.st = "gone"]
                                                                  ELSE child[g]]
    BY <1>20, <1>0 DEF CrashRestart, Fault, Linger
  <2>2. ~Linger => \A k \in Generation : child'[k].st \notin {"starting", "locked", "up"}
    BY <1>0, <2>1 DEF NativeChildren
  <2> QED BY <1>0, <2>1, <2>2 DEF OpFree
<1>21. CASE UNCHANGED resVars
  BY <1>21, <1>0 DEF resVars, OpFree, Linger, ResOwners, NativeChildren
<1> QED BY <1>1, <1>2, <1>3, <1>4, <1>5, <1>6, <1>7, <1>8, <1>9, <1>10, <1>11, <1>12, <1>13, <1>14, <1>15, <1>16, <1>17, <1>18, <1>19, <1>20, <1>21 DEF ResNext, Apply, Native

(* What holds of every resource transition. *)
LEMMA TransitionsStay == ResInv /\ [ResNext]_resVars => ResInv'
<1> SUFFICES ASSUME ResInv, [ResNext]_resVars PROVE ResInv'
  OBVIOUS
<1>1. OwnerTyped' /\ NativeTyped'
  BY OwnerTypedStays, NativeTypedStays
<1>2. Accounts(stored, binding, resCommitted, child, Linger)' /\ ~rejected'
  BY LedgerStays
<1>3. InHand' /\ OneAtATime'
  BY InHandStays, OneAtATimeStays
<1> QED BY <1>1, <1>2, <1>3 DEF ResInv

(* It holds of a session that was just created. *)
LEMMA TransitionsStart == ResInit => ResInv
<1> SUFFICES ASSUME ResInit PROVE ResInv
  OBVIOUS
<1>1. OwnerTyped /\ NativeTyped /\ InHand /\ OneAtATime /\ ~rejected
  BY DEF ResInit, OwnerTyped, NativeTyped, InHand, OneAtATime, OpFree, ResOwners, NativeChildren,
         NoChild, Bindings, Unbound, Alive
<1>2. stored.ops = << >> /\ stored \in Ledgers /\ (stored.rev = 1 \/ stored = NoRecord)
      /\ stored.obs = Unbound
  <2>1. << >> \in Seq(Intents) /\ Unbound \in Bindings
    BY DEF Unbound, Bindings
  <2>2. CASE stored = NoRecord
    BY <2>1, <2>2 DEF NoRecord, Ledgers
  <2>3. ASSUME NEW t \in Target, stored = Created(t)
        PROVE  /\ stored.ops = << >> /\ stored \in Ledgers /\ stored.rev = 1
               /\ stored.obs = Unbound
    BY <2>1, <2>3 DEF Created, Ledgers
  <2> QED BY <2>2, <2>3 DEF ResInit
<1>3. DOMAIN stored.ops = {} /\ Len(stored.ops) = 0
  BY <1>2
<1>4. Sound(stored)
  <2>1. LedgerChain(stored) /\ BindingChain(stored) /\ SupersedeChain(stored)
    BY <1>3 DEF LedgerChain, BindingChain, SupersedeChain
  <2>2. LastApplied(stored) = {}
    BY <1>3 DEF LastApplied
  <2>3. RevisionBefore(stored, Len(stored.ops) + 1) = 1
    <3>1. {j \in 1 .. (0 + 1 - 1) : stored.ops[j].status = "Applied"} = {}
      OBVIOUS
    <3> QED BY <1>2, <1>3, <3>1, FS_EmptySet DEF RevisionBefore
  <2>4. CurrentAgrees(stored)
    BY <1>2, <2>2, <2>3 DEF CurrentAgrees
  <2> QED BY <1>2, <1>3, <2>1, <2>4, TransitionConstants DEF Sound, Validate
<1>5. \A g \in Generation : child[g].op = NoOperation
  BY DEF ResInit, NoChild
<1>6. Accounts(stored, binding, resCommitted, child, Linger)
  BY <1>3, <1>4, <1>5 DEF ResInit, Accounts, BoundIn, CommittedIn, KidsIn, AppliedIn,
     SupersededIn, LastApplied, Unbound
<1> QED BY <1>1, <1>6 DEF ResInv

(* The invariant has what the runs check. *)
LEMMA TransitionsSafe ==
    ResInv => /\ WriteAhead /\ AppliedIsBound /\ SupersededUncommitted
              /\ NeverRejected /\ OneChild /\ RetiredIdle
<1> SUFFICES ASSUME ResInv
             PROVE  /\ WriteAhead /\ AppliedIsBound /\ SupersededUncommitted
                    /\ NeverRejected /\ OneChild /\ RetiredIdle
  OBVIOUS
<1>1. WriteAhead
  BY ExistingHas DEF ResInv, Accounts, BoundIn, CommittedIn, WriteAhead
<1>2. AppliedIsBound
  BY DEF ResInv, Accounts, AppliedIn, AppliedIsBound
<1>3. SupersededUncommitted
  BY DEF ResInv, Accounts, SupersededIn, SupersededUncommitted
<1>4. NeverRejected
  BY DEF ResInv, NeverRejected
<1>5. OneChild
  BY TransitionConstants DEF ResInv, OneAtATime, OwnerTyped, NativeTyped, OneChild, Alive
<1>6. RetiredIdle
  BY DEF ResInv, OneAtATime, RetiredIdle
<1> QED BY <1>1, <1>2, <1>3, <1>4, <1>5, <1>6

-----------------------------------------------------------------------------
(* The theorems.                                                              *)

\* A command line job that is over leaves no process, spool or lease of its
\* own behind, the lease it works under is the native's current one, and an
\* answer is the whole output of one process: cli.rs spawns, bounds, stops and
\* reads every job so, whatever the history's writer does meanwhile.
THEOREM CommandsLeaveNothing ==
    CliInit /\ [][CliNext]_cliVars => [](NoJobLeftBehind /\ LeaseIsCurrent /\ AnswerIsWhole)
<1>1. CliInit => CliInv
  BY CliStarts
<1>2. CliInv /\ [CliNext]_cliVars => CliInv'
  BY CliStays
<1>3. CliInv => NoJobLeftBehind /\ LeaseIsCurrent /\ AnswerIsWhole
  BY DEF CliInv, AnswerCurrent, LockHeld
<1> QED BY <1>1, <1>2, <1>3, PTL

\* A host is retired with the settings it had when it stopped, no session gets
\* a second native child, and a release that is answered with success has left
\* no child in its scope: idle_release.rs fences, captures and exits each host
\* before it answers.
THEOREM ReleasesAreComplete ==
    ReleaseInit /\ [][ReleaseNext]_relVars
      => [](CaptureIsLast /\ OneChildPerSession) /\ ReleaseComplete
<1>1. ReleaseInit => RelInv
  BY ReleaseStarts
<1>2. RelInv /\ [ReleaseNext]_relVars => RelInv'
  BY ReleaseStays
<1>3. RelInv => CaptureIsLast /\ OneChildPerSession
  BY DEF RelInv, HostsKnown, RelTyped, OneChildPerSession
<1>4. RelInv /\ [ReleaseNext]_relVars =>
        [Released => \A s \in (IF lockOwner.scope = "global" THEN Sess ELSE ProjectSess) :
                       alive[s] = 0 /\ s \notin entry]_relVars
  BY ReleaseAnswers
<1> QED BY <1>1, <1>2, <1>3, <1>4, PTL DEF ReleaseComplete

\* The native never holds definitions nobody owns, the admission of file
\* requests never overflows, and the writer begins an answer only for the request
\* in the table, open for the native as far as the host has read its pipe: the
\* configuration's guard, the admission and the second look at the control in
\* external_tools.rs and its file twin.
THEOREM BridgesAnswerOpenCalls ==
    BridgeInit /\ [][BridgeNext]_bridgeVars
      => [](DefinitionsOwned /\ FilesNeverOverflow) /\ AnswersOpen
<1>1. BridgeInit => BridgeInv
  BY BridgeStarts
<1>2. BridgeInv /\ [BridgeNext]_bridgeVars => BridgeInv'
  BY BridgeStays
<1>3. BridgeInv => DefinitionsOwned /\ FilesNeverOverflow
  BY DEF BridgeInv, Owned
<1>4. BridgeInv /\ [BridgeNext]_bridgeVars =>
        [\A i \in Instance : bridgeWriting' = i /\ bridgeWriting # i =>
           /\ calls[ident[i]] = i
           /\ native[ident[i]] = i \/ OnItsWay(i, bridgePipe)]_bridgeVars
  BY BridgeAnswers
<1> QED BY <1>1, <1>2, <1>3, <1>4, PTL DEF AnswersOpen

\* The intent is on disk before a native can commit it, the ledger never claims
\* more than the native has, a superseded operation never commits when no child
\* can linger, no record the service builds is refused by its own validation,
\* no candidate is started beside the host it replaces and nothing runs on a
\* fenced one: apply_resources_owned, whatever fails and wherever the service
\* dies.
THEOREM TransitionsAreWriteAhead ==
    ResInit /\ [][ResNext]_resVars
      => [](/\ WriteAhead /\ AppliedIsBound /\ SupersededUncommitted
            /\ NeverRejected /\ OneChild /\ RetiredIdle)
<1>1. ResInit => ResInv
  BY TransitionsStart
<1>2. ResInv /\ [ResNext]_resVars => ResInv'
  BY TransitionsStay
<1>3. ResInv => /\ WriteAhead /\ AppliedIsBound /\ SupersededUncommitted
                /\ NeverRejected /\ OneChild /\ RetiredIdle
  BY TransitionsSafe
<1> QED BY <1>1, <1>2, <1>3, PTL

=============================================================================
