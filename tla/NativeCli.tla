------------------------------ MODULE NativeCli ------------------------------
(* The native command line as the service runs it for resource management and *)
(* for reading a saved session (resources/local.rs, resources/saved.rs): three *)
(* runs of the program, each captured in temporary files, with a deadline, an  *)
(* output limit and an owned process tree. A saved read happens under the      *)
(* native writer's lock, taken shared, and its result keeps that lock.         *)
EXTENDS Naturals

CONSTANTS
    OutputLimit,   \* bytes a run may write
    MaxCliJobs,    \* jobs of the service
    MaxRewrites    \* changes other processes make to the session

ASSUME CliAssumption == OutputLimit \in Nat /\ MaxCliJobs \in Nat /\ MaxRewrites \in Nat

VARIABLES
    cliJob,       \* [kind, run, at, locked, bytes, page]: the service's job
    tree,      \* [leader, rest]: the program, and a process it left in its group
    spool,     \* bytes in the capture files
    cliFiles,  \* temporary files: "capture", "request"
    answer,    \* what the program's exit and output say: [ok, page]
    history,   \* the saved session: [version, writer, lockFile]
    cliJobs

cliVars == <<cliJob, tree, spool, cliFiles, answer, history, cliJobs>>

NoJob == [kind |-> "read", run |-> "help", at |-> "idle", locked |-> FALSE, bytes |-> 0, page |-> 0]
NoTree == [leader |-> "none", rest |-> FALSE]
CliNoAnswer == [ok |-> FALSE, page |-> 0]

CliInit ==
    /\ cliJob = NoJob /\ tree = NoTree /\ spool = 0 /\ cliFiles = {} /\ answer = CliNoAnswer
    /\ history \in [version : {0}, writer : {FALSE}, lockFile : BOOLEAN]
    /\ cliJobs = 0

CliStep(at) == cliJob' = [cliJob EXCEPT !.at = at]

\* Every early return drops the tree, the files and the lock.
GivesBack ==
    /\ cliJob' = NoJob /\ tree' = NoTree /\ spool' = 0 /\ cliFiles' = {} /\ answer' = CliNoAnswer

\* A malformed request or name is refused before there is a job.
JobBegins(kind) ==
    /\ cliJob.at = "idle" /\ cliJobs < MaxCliJobs /\ cliJobs' = cliJobs + 1
    /\ cliJob' = [NoJob EXCEPT !.kind = kind, !.at = "spawns"]
    /\ UNCHANGED <<tree, spool, cliFiles, answer, history>>

\* invoke: the capture files, then the program with its tree's owner.
Spawns ==
    /\ cliJob.at = "spawns"
    /\ \/ /\ CliStep("waits")
          /\ tree' = [leader |-> "runs", rest |-> FALSE]
          /\ spool' = 0 /\ cliFiles' = cliFiles \cup {"capture"} /\ answer' = CliNoAnswer
       \/ GivesBack
    /\ UNCHANGED <<history, cliJobs>>

(* The program and what it starts. *)
ProgramWrites ==
    /\ tree.leader = "runs" \/ tree.rest
    /\ spool <= OutputLimit /\ spool' = spool + 1
    /\ UNCHANGED <<cliJob, tree, cliFiles, answer, history, cliJobs>>
ProgramForks ==
    /\ tree.leader = "runs" /\ ~tree.rest /\ tree' = [tree EXCEPT !.rest = TRUE]
    /\ UNCHANGED <<cliJob, spool, cliFiles, answer, history, cliJobs>>
ProgramExits(ok) ==
    /\ tree.leader = "runs" /\ tree' = [tree EXCEPT !.leader = "exited"]
    /\ answer' = [ok |-> ok, page |-> history.version]
    /\ UNCHANGED <<cliJob, spool, cliFiles, history, cliJobs>>

\* One turn of the wait: the limit before the exit, the exit before the deadline.
Limit == spool > OutputLimit
SeesExit ==
    /\ cliJob.at = "waits" /\ ~Limit /\ tree.leader = "exited"
    /\ CliStep("stops")
    /\ UNCHANGED <<tree, spool, cliFiles, answer, history, cliJobs>>
OverLimit ==
    /\ cliJob.at \in {"waits", "reads"} /\ Limit
    /\ GivesBack /\ UNCHANGED <<history, cliJobs>>
CliDeadlinePasses ==
       /\ cliJob.at = "waits" /\ ~Limit /\ tree.leader = "runs"
       /\ GivesBack /\ UNCHANGED <<history, cliJobs>>

\* The whole group is stopped although its leader is gone.
TreeAfterStop == NoTree
StopsTree ==
    /\ cliJob.at = "stops" /\ CliStep("reads")
    /\ tree' = TreeAfterStop
    /\ UNCHANGED <<spool, cliFiles, answer, history, cliJobs>>

\* The capture files are measured again, read and removed.
ReadsBack ==
    /\ cliJob.at = "reads" /\ ~Limit
    /\ cliJob' = [cliJob EXCEPT !.at = "parses", !.bytes = spool]
    /\ UNCHANGED <<tree, spool, cliFiles, answer, history, cliJobs>>

\* negotiate, require_saved_read and require_management: two runs whose answers
\* must say what the third one needs.
Negotiated ==
    /\ cliJob.at = "parses" /\ cliJob.run # "work"
    /\ \/ /\ answer.ok
          /\ cliJob' = [cliJob EXCEPT !.run = IF @ = "help" THEN "profile" ELSE "work",
                                      !.at = IF cliJob.run = "profile" /\ cliJob.kind = "read" THEN "locks" ELSE "spawns"]
          /\ cliFiles' = {} /\ spool' = 0 /\ UNCHANGED <<tree, answer>>
       \/ GivesBack
    /\ UNCHANGED <<history, cliJobs>>

\* The observation lock is tried, never created and never waited for; the
\* request goes into a file of its own.
Locks ==
    /\ cliJob.at = "locks"
    /\ IF history.lockFile /\ ~history.writer
       THEN /\ cliJob' = [cliJob EXCEPT !.at = "spawns", !.locked = TRUE]
            /\ cliFiles' = {"request"} /\ UNCHANGED <<tree, spool, answer>>
       ELSE GivesBack
    /\ UNCHANGED <<history, cliJobs>>

CliLeased == [cliJob EXCEPT !.at = "leased", !.page = answer.page]
\* parse and the project's check pass, or the job fails.
SavedAnswered ==
    /\ cliJob.at = "parses" /\ cliJob.run = "work" /\ cliJob.kind = "read"
    /\ \/ /\ answer.ok
          /\ cliJob' = CliLeased /\ cliFiles' = {} /\ spool' = 0
          /\ tree' = tree /\ answer' = CliNoAnswer
       \/ GivesBack
    /\ UNCHANGED <<history, cliJobs>>
\* parse_envelope: the program's outcome is the job's, or the job failed.
ManagementAnswered ==
    /\ cliJob.at = "parses" /\ cliJob.run = "work" /\ cliJob.kind = "manage"
    /\ GivesBack /\ UNCHANGED <<history, cliJobs>>
LeaseDropped ==
    /\ cliJob.at = "leased" /\ GivesBack /\ UNCHANGED <<history, cliJobs>>

(* Native writers of other processes. *)
WriterOpens ==
    /\ ~history.writer /\ ~cliJob.locked
    /\ history' = [history EXCEPT !.writer = TRUE, !.lockFile = TRUE]
    /\ UNCHANGED <<cliJob, tree, spool, cliFiles, answer, cliJobs>>
WriterWrites ==
    /\ history.writer /\ history.version < MaxRewrites
    /\ history' = [history EXCEPT !.version = @ + 1]
    /\ UNCHANGED <<cliJob, tree, spool, cliFiles, answer, cliJobs>>
WriterCloses ==
    /\ history.writer /\ history' = [history EXCEPT !.writer = FALSE]
    /\ UNCHANGED <<cliJob, tree, spool, cliFiles, answer, cliJobs>>

CliSteps ==
    \/ Spawns \/ SeesExit \/ OverLimit \/ CliDeadlinePasses \/ StopsTree \/ ReadsBack
    \/ Negotiated \/ Locks \/ SavedAnswered \/ ManagementAnswered \/ LeaseDropped
CliNext ==
    \/ CliSteps \/ \E kind \in {"read", "manage"} : JobBegins(kind)
    \/ ProgramWrites \/ ProgramForks \/ \E ok \in BOOLEAN : ProgramExits(ok)
    \/ WriterOpens \/ WriterWrites \/ WriterCloses

(* ---------------------------------------------------------- properties ---- *)
\* While a saved page is decided upon it is the session's last state: no native
\* writer comes between the program's read and the end of the lease.
LeaseIsCurrent == cliJob.at = "leased" => cliJob.page = history.version

\* Past a job, and while its page is used, no process of the program and none of
\* its temporary files is left, however the job ended.
NoJobLeftBehind ==
  cliJob.at \in {"idle", "leased"} => tree = NoTree /\ cliFiles = {}

\* What is parsed is all the program's tree has written: nothing is added to a
\* capture file once it is read.
AnswerIsWhole == cliJob.at = "parses" => cliJob.bytes = spool /\ spool <= OutputLimit

\* A program that does not exit, or leaves processes with its output, does not
\* keep the job, and the service's lifecycle lock with it, for ever.
CliJobOwed == cliJob.at # "idle"
CliJobMet == cliJob.at = "idle"
=============================================================================
