------------------------------ MODULE AcpProofs ------------------------------
(* What holds of the ACP adapter: of its connection, of a prompt and of the    *)
(* tasks beside the prompts, for every value of their constants.               *)
EXTENDS AcpConnection, AcpRequests, FiniteSetTheorems, TLAPS

-----------------------------------------------------------------------------
(* Sequences.                                                                  *)

LEMMA TailFacts ==
  ASSUME NEW S, NEW q \in Seq(S), q # <<>>
  PROVE  /\ Head(q) \in S /\ Head(q) = q[1] /\ 1 \in DOMAIN q
         /\ Tail(q) \in Seq(S) /\ Len(Tail(q)) = Len(q) - 1 /\ Len(q) \in Nat
         /\ \A k \in DOMAIN Tail(q) : k + 1 \in DOMAIN q /\ Tail(q)[k] = q[k + 1] /\ k \in Int /\ k # 0
         /\ \A k \in DOMAIN q : k = 1 \/ (k - 1 \in DOMAIN Tail(q) /\ q[k] = Tail(q)[k - 1])
OBVIOUS

LEMMA AppendFacts ==
  ASSUME NEW S, NEW q \in Seq(S), NEW x \in S
  PROVE  /\ Append(q, x) \in Seq(S) /\ Len(Append(q, x)) = Len(q) + 1 /\ Len(q) \in Nat
         /\ Len(q) + 1 \in DOMAIN Append(q, x) /\ Append(q, x)[Len(q) + 1] = x
         /\ Len(q) + 1 \notin DOMAIN q
         /\ \A k \in DOMAIN q : k \in DOMAIN Append(q, x) /\ Append(q, x)[k] = q[k]
         /\ \A k \in DOMAIN Append(q, x) : k \in DOMAIN q \/ k = Len(q) + 1
OBVIOUS

LEMMA SeqOfFunction ==
  ASSUME NEW S, NEW n \in Nat, NEW f \in [1 .. n -> S]
  PROVE  f \in Seq(S) /\ DOMAIN f = 1 .. n
OBVIOUS

-----------------------------------------------------------------------------
(* The connection.                                                             *)

AcpPhases == {"spawned", "running", "usage", "answer", "done"}
AcpTask == [id : AcpId, sess : AcpSession, phase : AcpPhases, cancelled : BOOLEAN]
DispatchSteps == {"recv", "opening", "prepared", "answer", "stopping", "ending", "ended"}
DispatchState == [at : DispatchSteps, request : AcpRequest \cup {<<>>}, ok : BOOLEAN, wait : SUBSET Nat]

QueueTyped == acpQueue \in Seq(AcpRequest)
PromptsTyped == tasks \in Seq(AcpTask)
MapTyped == promptTasks \in [AcpId -> Nat]
OwedTyped == owed \in [AcpId -> Int]
KidsTyped == /\ children \in [AcpSession -> {"none", "live", "dead"}]
             /\ watcher \in [AcpSession -> BOOLEAN] /\ attached \subseteq AcpSession

\* A request is in the dispatcher's hand while it works on it, and is of the
\* kind that step is made for.
Busy == {"opening", "prepared", "answer", "stopping"}
DispatchTyped ==
  /\ dispatch \in DispatchState
  /\ dispatch.at \in Busy => dispatch.request \in AcpRequest
  /\ dispatch.at \in {"opening", "prepared"} => dispatch.request.method \notin {"close", "delete"}

\* Only a task that may write holds the output.
FrameOwn ==
  \A t \in Nat : writing = <<"task", t>> =>
    t \in DOMAIN tasks /\ tasks[t].phase \in {"running", "usage", "answer"}

\* A child has its owner: the map, or the request that opened it.
KidsHaveOwner ==
  /\ \A s \in AcpSession : children[s] # "none" =>
       s \in attached \/ (dispatch.at = "prepared" /\ dispatch.request.sess = s)
  /\ dispatch.at = "ended" => attached = {}

\* A task under way is in the dispatcher's map, or waited for; its id is its own.
TasksKnown ==
  /\ \A t \in Unfinished : \/ promptTasks[tasks[t].id] = t
                           \/ dispatch.at \in {"stopping", "ending"} /\ t \in dispatch.wait
  /\ dispatch.at \in {"ending", "ended"} => \A i \in AcpId : promptTasks[i] = 0
OneTaskPerId == \A t, u \in Unfinished : tasks[t].id = tasks[u].id => t = u

\* What closing a session waits for is all there is of it.
ClosingWaits ==
  dispatch.at = "stopping" => \A t \in Unfinished : tasks[t].sess = dispatch.request.sess => t \in dispatch.wait

\* Requests that are not answered are queued, in hand, or a task's.
QueueOf(q, i) == Cardinality({k \in DOMAIN q : q[k].id = i})
TaskOf(ts, i) == IF \E t \in DOMAIN ts : ts[t].phase # "done" /\ ts[t].id = i THEN 1 ELSE 0
InHandOf(d, i) == IF d.at \in Busy /\ d.request.id = i THEN 1 ELSE 0
Owing ==
  /\ \A i \in AcpId : owed[i] >= 0
  /\ stream = "open" =>
       \A i \in AcpId : owed[i] = QueueOf(acpQueue, i) + TaskOf(tasks, i) + InHandOf(dispatch, i)

ConnInv ==
  /\ QueueTyped /\ PromptsTyped /\ MapTyped /\ OwedTyped /\ KidsTyped /\ DispatchTyped
  /\ FrameOwn /\ KidsHaveOwner /\ TasksKnown /\ OneTaskPerId /\ ClosingWaits /\ ClosedIsQuiet
  /\ Owing /\ TornIsLast

LEMMA QueueCounts ==
  ASSUME NEW q \in Seq(AcpRequest), NEW i
  PROVE  /\ IsFiniteSet({k \in DOMAIN q : q[k].id = i}) /\ QueueOf(q, i) \in Nat
         /\ q = <<>> => QueueOf(q, i) = 0
<1>1. Len(q) \in Nat /\ DOMAIN q = 1 .. Len(q)
  OBVIOUS
<1>2. IsFiniteSet(1 .. Len(q))
  <2>1. 1 \in Int /\ Len(q) \in Int
    BY <1>1
  <2> QED BY <2>1, FS_Interval
<1> DEFINE S == {k \in DOMAIN q : q[k].id = i}
<1>3. S \subseteq 1 .. Len(q)
  BY <1>1
<1>4. QueueOf(q, i) = Cardinality(S)
  BY DEF QueueOf
<1>5. q = <<>> => S = {}
  BY <1>1
<1>6. IsFiniteSet(S)
  <2> HIDE DEF S
  <2> QED BY <1>2, <1>3, FS_Subset
<1> HIDE DEF S
<1>7. Cardinality(S) \in Nat /\ (S = {} => Cardinality(S) = 0)
  BY <1>6, FS_CardinalityType, FS_EmptySet
<1> QED BY <1>4, <1>5, <1>6, <1>7 DEF S

LEMMA QueueGrows ==
  ASSUME NEW q \in Seq(AcpRequest), NEW r \in AcpRequest, NEW i
  PROVE  QueueOf(Append(q, r), i) = QueueOf(q, i) + (IF r.id = i THEN 1 ELSE 0)
<1> DEFINE S == {k \in DOMAIN q : q[k].id = i}
           T == {k \in DOMAIN Append(q, r) : Append(q, r)[k].id = i}
           n == Len(q) + 1
<1>1. /\ n \notin DOMAIN q /\ n \in DOMAIN Append(q, r) /\ Append(q, r)[n] = r
      /\ \A k \in DOMAIN q : k \in DOMAIN Append(q, r) /\ Append(q, r)[k] = q[k]
      /\ \A k \in DOMAIN Append(q, r) : k \in DOMAIN q \/ k = n
  BY AppendFacts
<1>2. T = IF r.id = i THEN S \cup {n} ELSE S
  <2> HIDE DEF n
  <2> QED BY <1>1
<1>3. n \notin S /\ IsFiniteSet(S) /\ Cardinality(S) \in Nat
  BY <1>1, QueueCounts, FS_CardinalityType
<1>4. QueueOf(q, i) = Cardinality(S) /\ QueueOf(Append(q, r), i) = Cardinality(T)
  BY DEF QueueOf
<1> HIDE DEF S, T, n
<1>5. Cardinality(S \cup {n}) = Cardinality(S) + 1
  BY <1>3, FS_AddElement
<1> QED BY <1>2, <1>3, <1>4, <1>5

LEMMA QueueShrinks ==
  ASSUME NEW q \in Seq(AcpRequest), q # <<>>, NEW i
  PROVE  QueueOf(q, i) = QueueOf(Tail(q), i) + (IF Head(q).id = i THEN 1 ELSE 0)
<1> DEFINE S == {k \in DOMAIN q : q[k].id = i}
           T == {k \in DOMAIN Tail(q) : Tail(q)[k].id = i}
           R == S \ {1}
<1>1. /\ Head(q) = q[1] /\ 1 \in DOMAIN q /\ Tail(q) \in Seq(AcpRequest)
      /\ \A k \in DOMAIN Tail(q) : k + 1 \in DOMAIN q /\ Tail(q)[k] = q[k + 1] /\ k \in Int /\ k # 0
      /\ \A k \in DOMAIN q : k = 1 \/ (k - 1 \in DOMAIN Tail(q) /\ q[k] = Tail(q)[k - 1])
      /\ \A k \in DOMAIN q : k \in Int
  BY TailFacts
<1>2. IsFiniteSet(S) /\ IsFiniteSet(T)
  BY <1>1, QueueCounts
<1>3. ExistsBijection(T, R)
  <2> DEFINE f == [k \in T |-> k + 1]
  <2>1. \A k \in T : k \in Int /\ k + 1 \in R
    BY <1>1
  <2>2. \A k \in R : k - 1 \in T /\ k \in Int
    BY <1>1
  <2> HIDE DEF T, R
  <2>3. f \in [T -> R]
    BY <2>1
  <2>4. \A a, b \in T : f[a] = f[b] => a = b
    BY <2>1
  <2>5. \A k \in R : \E a \in T : f[a] = k
    <3> TAKE k \in R
    <3>1. k - 1 \in T /\ f[k - 1] = (k - 1) + 1 /\ (k - 1) + 1 = k
      BY <2>2
    <3> QED BY <3>1
  <2> HIDE DEF f
  <2>6. f \in Bijection(T, R)
    BY ONLY <2>3, <2>4, <2>5 DEF Bijection, Injection, Surjection, IsInjective
  <2> QED BY <2>6 DEF ExistsBijection
<1>4. Cardinality(R) = Cardinality(T)
  <2> HIDE DEF T, R
  <2> QED BY <1>2, <1>3, FS_Bijection
<1>5. Cardinality(S) = Cardinality(R) + (IF Head(q).id = i THEN 1 ELSE 0)
  <2>1. 1 \in S <=> Head(q).id = i
    BY <1>1
  <2> HIDE DEF S
  <2>2. Cardinality(S \ {1}) = IF 1 \in S THEN Cardinality(S) - 1 ELSE Cardinality(S)
    BY <1>2, FS_RemoveElement
  <2>3. Cardinality(S) \in Nat
    BY <1>2, FS_CardinalityType
  <2> DEFINE m == Cardinality(S)
             k == Cardinality(S \ {1})
  <2>4. k = (IF 1 \in S THEN m - 1 ELSE m) /\ m \in Nat
    BY <2>2, <2>3
  <2> HIDE DEF m, k
  <2>5. m = k + (IF Head(q).id = i THEN 1 ELSE 0)
    BY ONLY <2>1, <2>4
  <2> QED BY <2>5 DEF m, k
<1>6. QueueOf(q, i) = Cardinality(S) /\ QueueOf(Tail(q), i) = Cardinality(T)
  BY DEF QueueOf
<1> QED BY <1>4, <1>5, <1>6

\* us are the tasks ts, some further on.
SameTasks(ts, us) ==
  /\ DOMAIN us = DOMAIN ts
  /\ \A u \in DOMAIN ts : /\ us[u].id = ts[u].id /\ us[u].sess = ts[u].sess
                          /\ ts[u].phase = "done" => us[u].phase = "done"

LEMMA PromptMoves ==
  ASSUME PromptsTyped, NEW t \in DOMAIN tasks, NEW p \in AcpPhases, tasks[t].phase # "done", Phase(t, p)
  PROVE  /\ PromptsTyped' /\ SameTasks(tasks, tasks')
         /\ \A u \in DOMAIN tasks : tasks'[u].phase = IF u = t THEN p ELSE tasks[u].phase
<1>1. /\ Len(tasks) \in Nat /\ DOMAIN tasks = 1 .. Len(tasks) /\ tasks \in [1 .. Len(tasks) -> AcpTask]
  BY DEF PromptsTyped
<1>2. \A x \in AcpTask : [x EXCEPT !.phase = p] \in AcpTask
  BY DEF AcpTask
<1>3. tasks' = [tasks EXCEPT ![t] = [tasks[t] EXCEPT !.phase = p]]
  BY DEF Phase
<1>4. [tasks[t] EXCEPT !.phase = p] \in AcpTask
  BY <1>1, <1>2
<1>5. tasks' \in [1 .. Len(tasks) -> AcpTask]
  BY ONLY <1>1, <1>3, <1>4, t \in DOMAIN tasks
<1>6. PromptsTyped'
  BY <1>1, <1>5, SeqOfFunction DEF PromptsTyped
<1>7. /\ DOMAIN tasks' = DOMAIN tasks
      /\ \A u \in DOMAIN tasks : tasks'[u] = IF u = t THEN [tasks[t] EXCEPT !.phase = p] ELSE tasks[u]
  BY <1>1, <1>3
<1> DEFINE y == [tasks[t] EXCEPT !.phase = p]
<1>8. y.phase = p /\ y.id = tasks[t].id /\ y.sess = tasks[t].sess
  BY <1>1 DEF AcpTask
<1>9. DOMAIN tasks' = DOMAIN tasks /\ \A u \in DOMAIN tasks : tasks'[u] = IF u = t THEN y ELSE tasks[u]
  BY <1>7
<1> HIDE DEF y
<1> QED BY <1>6, <1>8, <1>9, tasks[t].phase # "done" DEF SameTasks

LEMMA PromptsAborted ==
  ASSUME PromptsTyped, NEW ts, tasks' = Aborted(ts)
  PROVE  /\ PromptsTyped' /\ SameTasks(tasks, tasks')
         /\ \A u \in DOMAIN tasks : tasks'[u].phase = tasks[u].phase
<1>1. /\ Len(tasks) \in Nat /\ DOMAIN tasks = 1 .. Len(tasks) /\ tasks \in [1 .. Len(tasks) -> AcpTask]
  BY DEF PromptsTyped
<1>2. \A x \in AcpTask : LET y == [x EXCEPT !.cancelled = TRUE] IN
        y \in AcpTask /\ y.id = x.id /\ y.sess = x.sess /\ y.phase = x.phase
  BY DEF AcpTask
<1>3. /\ DOMAIN tasks' = DOMAIN tasks
      /\ \A u \in DOMAIN tasks : tasks'[u] = tasks[u] \/ tasks'[u] = [tasks[u] EXCEPT !.cancelled = TRUE]
  BY DEF Aborted
<1>4. \A u \in DOMAIN tasks : /\ tasks[u] \in AcpTask
                              /\ tasks'[u] \in AcpTask /\ tasks'[u].id = tasks[u].id
                              /\ tasks'[u].sess = tasks[u].sess /\ tasks'[u].phase = tasks[u].phase
  <2> TAKE u \in DOMAIN tasks
  <2> DEFINE y == [tasks[u] EXCEPT !.cancelled = TRUE]
  <2>1. tasks[u] \in AcpTask
    BY <1>1
  <2>2. y \in AcpTask /\ y.id = tasks[u].id /\ y.sess = tasks[u].sess /\ y.phase = tasks[u].phase
    BY <1>2, <2>1
  <2>3. tasks'[u] = tasks[u] \/ tasks'[u] = y
    BY <1>3
  <2> HIDE DEF y
  <2> QED BY ONLY <2>1, <2>2, <2>3
<1>5. tasks' \in [1 .. Len(tasks) -> AcpTask]
  <2>1. tasks' = [u \in 1 .. Len(tasks) |-> tasks'[u]]
    BY <1>1 DEF Aborted
  <2> QED BY ONLY <2>1, <1>4, <1>1
<1>6. PromptsTyped'
  BY <1>1, <1>5, SeqOfFunction DEF PromptsTyped
<1> QED BY <1>3, <1>4, <1>6 DEF SameTasks

LEMMA PromptsGoOn ==
  ASSUME SameTasks(tasks, tasks'), UNCHANGED <<dispatch, promptTasks>>,
         TasksKnown, OneTaskPerId, ClosingWaits
  PROVE  TasksKnown' /\ OneTaskPerId' /\ ClosingWaits'
<1>1. /\ Unfinished' \subseteq Unfinished
      /\ \A u \in Unfinished' : tasks'[u].id = tasks[u].id /\ tasks'[u].sess = tasks[u].sess
  BY DEF SameTasks, Unfinished
<1> QED BY <1>1 DEF TasksKnown, OneTaskPerId, ClosingWaits

LEMMA QuietStays ==
  ASSUME SameTasks(tasks, tasks'), UNCHANGED <<dispatch, watcher, attached>>, DispatchTyped,
         \A s \in AcpSession : children[s] = "none" => children'[s] = "none", ClosedIsQuiet
  PROVE  ClosedIsQuiet'
<1>1. /\ Unfinished' \subseteq Unfinished
      /\ \A u \in Unfinished' : tasks'[u].id = tasks[u].id /\ tasks'[u].sess = tasks[u].sess
  BY DEF SameTasks, Unfinished
<1>2. dispatch.at = "answer" => AcpSess \in AcpSession
  BY DEF DispatchTyped, AcpSess, AcpRequest, Busy
<1>3. AcpSess' = AcpSess
  BY DEF AcpSess
<1> QED BY <1>1, <1>2, <1>3 DEF ClosedIsQuiet

LEMMA SameTaskOf ==
  ASSUME NEW ts, NEW us, SameTasks(ts, us), \A u \in DOMAIN ts : ts[u].phase # "done" => us[u].phase # "done"
  PROVE  \A i : TaskOf(us, i) = TaskOf(ts, i)
BY DEF SameTasks, TaskOf

LEMMA OwingStays ==
  ASSUME Owing, UNCHANGED <<owed, acpQueue>>, stream' = "open" => stream = "open",
         \A i \in AcpId : TaskOf(tasks', i) = TaskOf(tasks, i),
         \A i \in AcpId : InHandOf(dispatch', i) = InHandOf(dispatch, i)
  PROVE  Owing'
BY DEF Owing

\* What the dispatcher leaves behind when it has taken a request.
TakenGoes(r) ==
  /\ PromptsTyped' /\ promptTasks' \in [AcpId -> Nat] /\ DispatchTyped'
  /\ \A t \in DOMAIN tasks : t \in DOMAIN tasks' /\ tasks'[t].phase = tasks[t].phase
  /\ TasksKnown' /\ OneTaskPerId' /\ ClosingWaits' /\ ClosedIsQuiet'
  /\ dispatch'.at \notin {"ending", "ended"}
  /\ \A i \in AcpId : TaskOf(tasks', i) + InHandOf(dispatch', i) = TaskOf(tasks, i) + (IF r.id = i THEN 1 ELSE 0)

LEMMA FramesDiffer ==
  /\ \A t : Nobody # <<"task", t>> /\ Dispatcher # <<"task", t>>
  /\ \A s, t : <<"watcher", s>> # <<"task", t>>
BY DEF Nobody, Dispatcher

LEMMA ConnStarts == ConnectionInit => ConnInv
<1> SUFFICES ASSUME ConnectionInit PROVE ConnInv
  OBVIOUS
<1>0. DOMAIN tasks = {} /\ DOMAIN acpQueue = {} /\ acpQueue = <<>> /\ acpQueue \in Seq(AcpRequest) /\ tasks \in Seq(AcpTask)
  BY DEF ConnectionInit
<1>1. QueueTyped /\ PromptsTyped /\ MapTyped /\ OwedTyped
  BY <1>0 DEF ConnectionInit, QueueTyped, PromptsTyped, MapTyped, OwedTyped
<1>2. KidsTyped /\ KidsHaveOwner
  BY DEF ConnectionInit, KidsTyped, KidsHaveOwner, NoWork
<1>3. DispatchTyped /\ ClosingWaits /\ ClosedIsQuiet
  BY DEF ConnectionInit, DispatchTyped, ClosingWaits, ClosedIsQuiet, NoWork, DispatchState, DispatchSteps, Busy
<1>4. FrameOwn /\ TornIsLast
  BY FramesDiffer DEF ConnectionInit, FrameOwn, TornIsLast
<1>5. Unfinished = {} /\ \A i : TaskOf(tasks, i) = 0
  BY <1>0 DEF Unfinished, TaskOf
<1>6. TasksKnown /\ OneTaskPerId
  BY <1>5 DEF ConnectionInit, TasksKnown, OneTaskPerId, NoWork
<1>7. Owing
  <2>1. \A i : QueueOf(acpQueue, i) = 0
    BY <1>0, QueueCounts
  <2>2. \A i : InHandOf(dispatch, i) = 0
    BY DEF ConnectionInit, NoWork, InHandOf, Busy
  <2>3. \A i \in AcpId : owed[i] = 0
    BY DEF ConnectionInit
  <2> QED BY ONLY <1>5, <2>1, <2>2, <2>3 DEF Owing
<1> QED BY <1>1, <1>2, <1>3, <1>4, <1>6, <1>7 DEF ConnInv

LEMMA ConnStays == ConnInv /\ [ConnectionNext]_connVars => ConnInv'
<1> SUFFICES ASSUME ConnInv, [ConnectionNext]_connVars PROVE ConnInv'
  OBVIOUS
<1>a. /\ QueueTyped /\ PromptsTyped /\ MapTyped /\ OwedTyped /\ KidsTyped /\ DispatchTyped
      /\ FrameOwn /\ KidsHaveOwner /\ TasksKnown /\ OneTaskPerId /\ ClosingWaits /\ ClosedIsQuiet
      /\ Owing /\ TornIsLast
  BY DEF ConnInv
<1>b. ASSUME UNCHANGED <<acpQueue>> PROVE QueueTyped'
  BY <1>a, <1>b DEF QueueTyped
<1>c. ASSUME UNCHANGED <<tasks>> PROVE PromptsTyped'
  BY <1>a, <1>c DEF PromptsTyped
<1>d. ASSUME UNCHANGED <<promptTasks>> PROVE MapTyped'
  BY <1>a, <1>d DEF MapTyped
<1>e. ASSUME UNCHANGED <<owed>> PROVE OwedTyped'
  BY <1>a, <1>e DEF OwedTyped
<1>f. ASSUME UNCHANGED <<children, watcher, attached>> PROVE KidsTyped'
  BY <1>a, <1>f DEF KidsTyped
<1>g. ASSUME UNCHANGED <<dispatch>> PROVE DispatchTyped'
  BY <1>a, <1>g DEF DispatchTyped
<1>h. ASSUME UNCHANGED <<writing, tasks>> PROVE FrameOwn'
  BY <1>a, <1>h DEF FrameOwn
<1>i. ASSUME UNCHANGED <<children, attached, dispatch>> PROVE KidsHaveOwner'
  BY <1>a, <1>i DEF KidsHaveOwner
<1>j. ASSUME UNCHANGED <<tasks, promptTasks, dispatch>> PROVE TasksKnown'
  BY <1>a, <1>j DEF TasksKnown, Unfinished
<1>k. ASSUME UNCHANGED <<tasks>> PROVE OneTaskPerId'
  BY <1>a, <1>k DEF OneTaskPerId, Unfinished
<1>l. ASSUME UNCHANGED <<dispatch, tasks>> PROVE ClosingWaits'
  BY <1>a, <1>l DEF ClosingWaits, Unfinished
<1>m. ASSUME UNCHANGED <<dispatch, tasks, watcher, children, attached>> PROVE ClosedIsQuiet'
  BY <1>a, <1>m DEF ClosedIsQuiet, Unfinished, AcpSess
<1>n. ASSUME UNCHANGED <<owed, stream, acpQueue, tasks, dispatch>> PROVE Owing'
  BY <1>a, <1>n DEF Owing
<1>o. ASSUME UNCHANGED <<torn, stream, writing>> PROVE TornIsLast'
  BY <1>a, <1>o DEF TornIsLast
<1>t. ASSUME NEW t \in DOMAIN tasks
      PROVE  t \in Nat /\ t # 0 /\ tasks[t] \in AcpTask /\ tasks[t].id \in AcpId /\ tasks[t].sess \in AcpSession
  <2>1. DOMAIN tasks = 1 .. Len(tasks) /\ Len(tasks) \in Nat /\ tasks[t] \in AcpTask
    BY <1>a DEF PromptsTyped
  <2>2. t \in Nat /\ t # 0
    BY <2>1
  <2> QED BY <2>1, <2>2 DEF AcpTask
<1>u. {"answer", "done", "usage", "running"} \subseteq AcpPhases
  BY DEF AcpPhases
<1>v. dispatch.at \in Busy => dispatch.request \in AcpRequest /\ AcpSess \in AcpSession /\ dispatch.request.id \in AcpId
  BY <1>a DEF DispatchTyped, AcpRequest, AcpSess
<1>w. dispatch \in DispatchState /\ DOMAIN dispatch = {"at", "request", "ok", "wait"}
  BY <1>a DEF DispatchTyped, DispatchState
<1>1. ASSUME NEW r \in AcpRequest, Receives(r) PROVE ConnInv'
  <2>1. PromptsTyped' /\ MapTyped' /\ KidsTyped' /\ DispatchTyped' /\ FrameOwn'
        /\ KidsHaveOwner' /\ TasksKnown' /\ OneTaskPerId' /\ ClosingWaits' /\ ClosedIsQuiet'
    BY <1>c, <1>d, <1>f, <1>g, <1>h, <1>i, <1>j, <1>k, <1>l, <1>m, <1>1 DEF Receives
  <2>2. QueueTyped'
    <3>1. acpQueue' = acpQueue \/ acpQueue' = Append(acpQueue, r)
      BY <1>1 DEF Receives
    <3> QED BY <1>a, <3>1, <1>1 DEF QueueTyped
  <2>3. OwedTyped'
    <3>1. r.id \in AcpId /\ owed' = [owed EXCEPT ![r.id] = @ + 1]
      BY <1>1 DEF Receives, AcpRequest
    <3> QED BY ONLY <1>a, <3>1 DEF OwedTyped
  <2>4. Owing'
    <3>1. /\ stream = "open" /\ r.id \in AcpId /\ owed' = [owed EXCEPT ![r.id] = @ + 1]
          /\ UNCHANGED <<tasks, dispatch>>
          /\ (acpQueue' = Append(acpQueue, r) /\ stream' = "open") \/ stream' = "closed"
      BY <1>1 DEF Receives, AcpRequest
    <3>2. \A i \in AcpId : owed'[i] = owed[i] + (IF r.id = i THEN 1 ELSE 0) /\ owed[i] \in Int
      BY ONLY <1>a, <3>1 DEF OwedTyped
    <3>3. \A i \in AcpId : QueueOf(Append(acpQueue, r), i) = QueueOf(acpQueue, i) + (IF r.id = i THEN 1 ELSE 0)
      BY ONLY <1>a, QueueGrows, r \in AcpRequest DEF QueueTyped
    <3>4. \A i \in AcpId : /\ QueueOf(acpQueue, i) \in Nat /\ TaskOf(tasks, i) \in Nat /\ InHandOf(dispatch, i) \in Nat
      BY ONLY <1>a, QueueCounts DEF QueueTyped, TaskOf, InHandOf
    <3>5. \A i \in AcpId : owed[i] >= 0 /\ owed[i] = QueueOf(acpQueue, i) + TaskOf(tasks, i) + InHandOf(dispatch, i)
      BY ONLY <1>a, <3>1 DEF Owing
    <3>6. \A i \in AcpId : owed'[i] >= 0
      BY ONLY <3>2, <3>5
    <3>7. ASSUME stream' = "open", NEW i \in AcpId
          PROVE  owed'[i] = QueueOf(acpQueue', i) + TaskOf(tasks', i) + InHandOf(dispatch', i)
      <4>1. UNCHANGED <<tasks, dispatch>> /\ acpQueue' = Append(acpQueue, r)
        BY ONLY <3>7, <3>1
      <4>2. /\ owed'[i] = owed[i] + (IF r.id = i THEN 1 ELSE 0)
            /\ QueueOf(acpQueue', i) = QueueOf(acpQueue, i) + (IF r.id = i THEN 1 ELSE 0)
        BY ONLY <4>1, <3>2, <3>3, i \in AcpId
      <4> QED BY ONLY <4>1, <4>2, <3>4, <3>5, i \in AcpId
    <3> QED BY ONLY <3>6, <3>7 DEF Owing
  <2>5. TornIsLast'
    BY <1>a, <1>1 DEF Receives, TornIsLast
  <2> QED BY <2>1, <2>2, <2>3, <2>4, <2>5 DEF ConnInv
<1>2. ASSUME Eof PROVE ConnInv'
  <2>1. QueueTyped' /\ PromptsTyped' /\ MapTyped' /\ OwedTyped' /\ KidsTyped' /\ DispatchTyped'
        /\ FrameOwn' /\ KidsHaveOwner' /\ TasksKnown' /\ OneTaskPerId' /\ ClosingWaits'
        /\ ClosedIsQuiet' /\ Owing' /\ TornIsLast'
    BY <1>b, <1>c, <1>d, <1>e, <1>f, <1>g, <1>h, <1>i, <1>j, <1>k, <1>l, <1>m, <1>n, <1>o, <1>2
       DEF Eof
  <2> QED BY <2>1 DEF ConnInv
<1>3. ASSUME StreamEnds PROVE ConnInv'
  <2>1. QueueTyped' /\ PromptsTyped' /\ MapTyped' /\ OwedTyped' /\ KidsTyped' /\ DispatchTyped'
        /\ FrameOwn' /\ KidsHaveOwner' /\ TasksKnown' /\ OneTaskPerId' /\ ClosingWaits'
        /\ ClosedIsQuiet'
    BY <1>b, <1>c, <1>d, <1>e, <1>f, <1>g, <1>h, <1>i, <1>j, <1>k, <1>l, <1>m, <1>3 DEF StreamEnds
  <2>2. Owing'
    <3>1. stream' = "closed" /\ UNCHANGED owed
      BY <1>3 DEF StreamEnds
    <3> QED BY <1>a, <3>1 DEF Owing
  <2>3. TornIsLast'
    BY <1>a, <1>3 DEF StreamEnds, TornIsLast
  <2> QED BY <2>1, <2>2, <2>3 DEF ConnInv
<1>4. ASSUME NEW s \in AcpSession, WatcherWrites(s) PROVE ConnInv'
  <2>1. QueueTyped' /\ PromptsTyped' /\ MapTyped' /\ OwedTyped' /\ KidsTyped' /\ DispatchTyped'
        /\ KidsHaveOwner' /\ TasksKnown' /\ OneTaskPerId' /\ ClosingWaits' /\ ClosedIsQuiet'
        /\ Owing'
    BY <1>b, <1>c, <1>d, <1>e, <1>f, <1>g, <1>i, <1>j, <1>k, <1>l, <1>m, <1>n, <1>4
       DEF WatcherWrites, StartFrame
  <2>2. FrameOwn' /\ TornIsLast'
    BY <1>a, <1>4, FramesDiffer DEF WatcherWrites, StartFrame, FrameOwn, TornIsLast
  <2> QED BY <2>1, <2>2 DEF ConnInv
<1>5. ASSUME NEW s \in AcpSession, WatcherWrote(s) PROVE ConnInv'
  <2>1. QueueTyped' /\ PromptsTyped' /\ MapTyped' /\ OwedTyped' /\ KidsTyped' /\ DispatchTyped'
        /\ KidsHaveOwner' /\ TasksKnown' /\ OneTaskPerId' /\ ClosingWaits' /\ ClosedIsQuiet'
        /\ Owing'
    BY <1>b, <1>c, <1>d, <1>e, <1>f, <1>g, <1>i, <1>j, <1>k, <1>l, <1>m, <1>n, <1>5
       DEF WatcherWrote, FrameOver
  <2>2. FrameOwn' /\ TornIsLast'
    BY <1>a, <1>5, FramesDiffer DEF WatcherWrote, FrameOver, FrameOwn, TornIsLast
  <2> QED BY <2>1, <2>2 DEF ConnInv
<1>6. ASSUME NEW s \in AcpSession, HostDies(s) PROVE ConnInv'
  <2>1. QueueTyped' /\ PromptsTyped' /\ MapTyped' /\ OwedTyped' /\ DispatchTyped' /\ FrameOwn'
        /\ TasksKnown' /\ OneTaskPerId' /\ ClosingWaits' /\ Owing' /\ TornIsLast'
    BY <1>b, <1>c, <1>d, <1>e, <1>g, <1>h, <1>j, <1>k, <1>l, <1>n, <1>o, <1>6 DEF HostDies
  <2>2. KidsTyped' /\ KidsHaveOwner'
    BY <1>a, <1>6 DEF HostDies, KidsTyped, KidsHaveOwner
  <2>3. ClosedIsQuiet'
    <3>0. SameTasks(tasks, tasks')
      BY <1>6 DEF SameTasks, HostDies
    <3> QED BY <1>a, <3>0, <1>6, QuietStays DEF HostDies, KidsTyped
  <2> QED BY <2>1, <2>2, <2>3 DEF ConnInv
<1>7. ASSUME NEW t \in DOMAIN tasks, TaskBegins(t) PROVE ConnInv'
  <2>1. QueueTyped' /\ MapTyped' /\ OwedTyped' /\ KidsTyped' /\ DispatchTyped' /\ KidsHaveOwner'
        /\ TornIsLast'
    BY <1>b, <1>d, <1>e, <1>f, <1>g, <1>i, <1>o, <1>7 DEF TaskBegins
  <2>p. PICK p \in AcpPhases : Phase(t, p) /\ tasks[t].phase # "done" /\ p # "done"
    BY <1>u, <1>7 DEF TaskBegins
  <2>q. /\ PromptsTyped' /\ SameTasks(tasks, tasks')
        /\ \A u \in DOMAIN tasks : tasks'[u].phase = IF u = t THEN p ELSE tasks[u].phase
    BY <1>a, <2>p, PromptMoves
  <2>2. PromptsTyped'
    BY <2>q
  <2>3. TasksKnown' /\ OneTaskPerId' /\ ClosingWaits'
    BY <1>a, <2>q, <1>7, PromptsGoOn DEF TaskBegins
  <2>4. FrameOwn'
    <3>1. writing # <<"task", t>> /\ writing' = writing
      BY <1>a, <1>t, <1>7 DEF TaskBegins, FrameOwn
    <3> QED BY ONLY <1>a, <3>1, <2>q DEF FrameOwn, SameTasks
  <2>5. ClosedIsQuiet'
    BY <1>a, <2>q, <1>7, QuietStays DEF TaskBegins
  <2>6. Owing'
    <3>1. \A i : TaskOf(tasks', i) = TaskOf(tasks, i)
      BY <2>p, <2>q, SameTaskOf
    <3> QED BY <1>a, <3>1, <1>7, OwingStays DEF TaskBegins
  <2> QED BY <2>1, <2>2, <2>3, <2>4, <2>5, <2>6 DEF ConnInv
<1>8. ASSUME NEW t \in DOMAIN tasks, TaskWrites(t) PROVE ConnInv'
  <2>1. QueueTyped' /\ PromptsTyped' /\ MapTyped' /\ OwedTyped' /\ KidsTyped' /\ DispatchTyped'
        /\ KidsHaveOwner' /\ TasksKnown' /\ OneTaskPerId' /\ ClosingWaits' /\ ClosedIsQuiet'
        /\ Owing'
    BY <1>b, <1>c, <1>d, <1>e, <1>f, <1>g, <1>i, <1>j, <1>k, <1>l, <1>m, <1>n, <1>8
       DEF TaskWrites, StartFrame
  <2>2. FrameOwn' /\ TornIsLast'
    <3>1. /\ writing = Nobody /\ stream = "open" /\ writing' = <<"task", t>> /\ UNCHANGED <<stream, torn, tasks>>
          /\ tasks[t].phase \in {"running", "usage", "answer"}
      BY <1>8 DEF TaskWrites, StartFrame
    <3>2. \A u : <<"task", u>> = <<"task", t>> => u = t
      OBVIOUS
    <3> QED BY ONLY <1>a, <3>1, <3>2, t \in DOMAIN tasks DEF FrameOwn, TornIsLast
  <2> QED BY <2>1, <2>2 DEF ConnInv
<1>9. ASSUME NEW t \in DOMAIN tasks, TaskWrote(t) PROVE ConnInv'
  <2>1. QueueTyped' /\ MapTyped' /\ KidsTyped' /\ DispatchTyped' /\ KidsHaveOwner'
    BY <1>b, <1>d, <1>f, <1>g, <1>i, <1>9 DEF TaskWrote, FrameOver
  <2>r. /\ writing' = Nobody /\ UNCHANGED <<stream, torn, dispatch, promptTasks, watcher, attached, children, acpQueue>>
        /\ \/ tasks[t].phase = "running" /\ tasks' = tasks /\ owed' = owed
           \/ tasks[t].phase = "usage" /\ Phase(t, "answer") /\ owed' = owed
           \/ /\ tasks[t].phase = "answer" /\ Phase(t, "done")
              /\ owed' = IF stream = "open" THEN [owed EXCEPT ![tasks[t].id] = @ - 1] ELSE owed
    <3>1. tasks[t].phase \in {"running", "usage", "answer"}
      BY <1>a, <1>t, <1>9 DEF TaskWrote, FrameOver, FrameOwn
    <3> QED BY <3>1, <1>9 DEF TaskWrote, FrameOver, AcpAnswered
  <2>q. /\ PromptsTyped' /\ SameTasks(tasks, tasks')
        /\ tasks[t].phase = "usage" => \A u \in DOMAIN tasks : tasks'[u].phase = IF u = t THEN "answer" ELSE tasks[u].phase
        /\ tasks[t].phase = "answer" => \A u \in DOMAIN tasks : tasks'[u].phase = IF u = t THEN "done" ELSE tasks[u].phase
    <3>1. CASE tasks[t].phase = "running" /\ tasks' = tasks
      BY <1>a, <3>1 DEF PromptsTyped, SameTasks
    <3>2. CASE tasks[t].phase = "usage" /\ Phase(t, "answer")
      BY <1>a, <1>u, <3>2, PromptMoves
    <3>3. CASE tasks[t].phase = "answer" /\ Phase(t, "done")
      BY <1>a, <1>u, <3>3, PromptMoves
    <3> QED BY <2>r, <3>1, <3>2, <3>3
  <2>2. PromptsTyped'
    BY <1>a, <2>q, <2>r DEF PromptsTyped
  <2>3. OwedTyped'
    BY <1>a, <1>t, <2>r DEF OwedTyped
  <2>4. TasksKnown' /\ OneTaskPerId' /\ ClosingWaits'
    BY <1>a, <2>q, <2>r, PromptsGoOn
  <2>5. FrameOwn' /\ TornIsLast'
    BY <1>a, <2>r, FramesDiffer DEF FrameOwn, TornIsLast
  <2>6. ClosedIsQuiet'
    BY <1>a, <2>q, <2>r, QuietStays
  <2>7. Owing'
    <3>1. CASE owed' = owed /\ stream # "open"
      BY ONLY <1>a, <2>r, <3>1 DEF Owing
    <3>2. CASE owed' = owed /\ \A u \in DOMAIN tasks : tasks[u].phase # "done" => tasks'[u].phase # "done"
      <4>1. \A i : TaskOf(tasks', i) = TaskOf(tasks, i)
        BY <2>q, <3>2, SameTaskOf
      <4> QED BY <1>a, <3>2, <4>1, <2>r, OwingStays
    <3>3. CASE /\ stream = "open" /\ owed' = [owed EXCEPT ![tasks[t].id] = @ - 1] /\ tasks[t].phase = "answer"
               /\ \A u \in DOMAIN tasks : tasks'[u].phase = IF u = t THEN "done" ELSE tasks[u].phase
      <4>1. \A u \in DOMAIN tasks : u # t /\ tasks[u].phase # "done" => tasks[u].id # tasks[t].id
        BY ONLY <1>a, <3>3, t \in DOMAIN tasks DEF OneTaskPerId, Unfinished
      <4>2. \A i \in AcpId : TaskOf(tasks, i) = TaskOf(tasks', i) + (IF i = tasks[t].id THEN 1 ELSE 0)
        BY ONLY <4>1, <3>3, <2>q, t \in DOMAIN tasks DEF TaskOf, SameTasks
      <4>3. \A i \in AcpId : owed'[i] = owed[i] - (IF i = tasks[t].id THEN 1 ELSE 0) /\ owed[i] \in Int
        BY ONLY <1>a, <1>t, <3>3, t \in DOMAIN tasks DEF OwedTyped
      <4>4. \A i \in AcpId : /\ QueueOf(acpQueue, i) \in Nat /\ TaskOf(tasks', i) \in Nat /\ InHandOf(dispatch, i) \in Nat
        BY ONLY <1>a, QueueCounts DEF QueueTyped, TaskOf, InHandOf
      <4>5. \A i \in AcpId : owed[i] = QueueOf(acpQueue, i) + TaskOf(tasks, i) + InHandOf(dispatch, i)
        BY ONLY <1>a, <3>3 DEF Owing
      <4>6. UNCHANGED <<acpQueue, dispatch>>
        BY <2>r
      <4>7. \A i \in AcpId : /\ owed'[i] = QueueOf(acpQueue, i) + TaskOf(tasks', i) + InHandOf(dispatch, i)
                             /\ owed'[i] >= 0
        BY ONLY <4>2, <4>3, <4>4, <4>5
      <4> QED BY ONLY <4>6, <4>7 DEF Owing
    <3> QED BY <2>q, <2>r, <3>1, <3>2, <3>3
  <2> QED BY <2>1, <2>2, <2>3, <2>4, <2>5, <2>6, <2>7 DEF ConnInv
<1>10. ASSUME NEW t \in DOMAIN tasks, UsageStalls(t) PROVE ConnInv'
  <2>1. QueueTyped' /\ MapTyped' /\ OwedTyped' /\ KidsTyped' /\ DispatchTyped' /\ KidsHaveOwner'
    BY <1>b, <1>d, <1>e, <1>f, <1>g, <1>i, <1>10 DEF UsageStalls
  <2>p. PICK p \in AcpPhases : Phase(t, p) /\ tasks[t].phase # "done"
    BY <1>u, <1>10 DEF UsageStalls
  <2>q. /\ PromptsTyped' /\ SameTasks(tasks, tasks')
        /\ \A u \in DOMAIN tasks : tasks'[u].phase = IF u = t THEN p ELSE tasks[u].phase
    BY <1>a, <2>p, PromptMoves
  <2>2. PromptsTyped'
    BY <2>q
  <2>3. TasksKnown' /\ OneTaskPerId' /\ ClosingWaits'
    BY <1>a, <2>q, <1>10, PromptsGoOn DEF UsageStalls
  <2>4. ClosedIsQuiet'
    BY <1>a, <2>q, <1>10, QuietStays DEF UsageStalls
  <2>5. FrameOwn' /\ TornIsLast'
    BY <1>a, <1>10, FramesDiffer DEF UsageStalls, FrameOwn, TornIsLast
  <2>6. Owing'
    <3>1. stream' = "closed" /\ UNCHANGED owed
      BY <1>10 DEF UsageStalls
    <3> QED BY <1>a, <3>1 DEF Owing
  <2> QED BY <2>1, <2>2, <2>3, <2>4, <2>5, <2>6 DEF ConnInv
<1>11. ASSUME NEW t \in DOMAIN tasks, TaskSettles(t) PROVE ConnInv'
  <2>1. QueueTyped' /\ MapTyped' /\ OwedTyped' /\ KidsTyped' /\ DispatchTyped' /\ KidsHaveOwner'
        /\ TornIsLast'
    BY <1>b, <1>d, <1>e, <1>f, <1>g, <1>i, <1>o, <1>11 DEF TaskSettles
  <2>p. PICK p \in AcpPhases : Phase(t, p) /\ tasks[t].phase # "done" /\ p # "done"
    BY <1>u, <1>11 DEF TaskSettles
  <2>q. /\ PromptsTyped' /\ SameTasks(tasks, tasks')
        /\ \A u \in DOMAIN tasks : tasks'[u].phase = IF u = t THEN p ELSE tasks[u].phase
    BY <1>a, <2>p, PromptMoves
  <2>2. PromptsTyped'
    BY <2>q
  <2>3. TasksKnown' /\ OneTaskPerId' /\ ClosingWaits'
    BY <1>a, <2>q, <1>11, PromptsGoOn DEF TaskSettles
  <2>4. FrameOwn'
    <3>1. writing # <<"task", t>> /\ writing' = writing
      BY <1>a, <1>t, <1>11 DEF TaskSettles, FrameOwn
    <3> QED BY ONLY <1>a, <3>1, <2>q DEF FrameOwn, SameTasks
  <2>5. ClosedIsQuiet'
    BY <1>a, <2>q, <1>11, QuietStays DEF TaskSettles
  <2>6. Owing'
    <3>1. \A i : TaskOf(tasks', i) = TaskOf(tasks, i)
      BY <2>p, <2>q, SameTaskOf
    <3> QED BY <1>a, <3>1, <1>11, OwingStays DEF TaskSettles
  <2> QED BY <2>1, <2>2, <2>3, <2>4, <2>5, <2>6 DEF ConnInv
<1>12. ASSUME NEW t \in DOMAIN tasks, TaskLags(t) PROVE ConnInv'
  <2>1. QueueTyped' /\ MapTyped' /\ OwedTyped' /\ DispatchTyped' /\ TornIsLast'
    BY <1>b, <1>d, <1>e, <1>g, <1>o, <1>12 DEF TaskLags
  <2>p. PICK p \in AcpPhases : Phase(t, p) /\ tasks[t].phase # "done" /\ p # "done"
    BY <1>u, <1>12 DEF TaskLags
  <2>q. /\ PromptsTyped' /\ SameTasks(tasks, tasks')
        /\ \A u \in DOMAIN tasks : tasks'[u].phase = IF u = t THEN p ELSE tasks[u].phase
    BY <1>a, <2>p, PromptMoves
  <2>2. PromptsTyped'
    BY <2>q
  <2>3. TasksKnown' /\ OneTaskPerId' /\ ClosingWaits'
    BY <1>a, <2>q, <1>12, PromptsGoOn DEF TaskLags
  <2>4. FrameOwn'
    <3>1. writing # <<"task", t>> /\ writing' = writing
      BY <1>a, <1>t, <1>12 DEF TaskLags, FrameOwn
    <3> QED BY ONLY <1>a, <3>1, <2>q DEF FrameOwn, SameTasks
  <2>5. Owing'
    <3>1. \A i : TaskOf(tasks', i) = TaskOf(tasks, i)
      BY <2>p, <2>q, SameTaskOf
    <3> QED BY <1>a, <3>1, <1>12, OwingStays DEF TaskLags
  <2>6. KidsTyped' /\ KidsHaveOwner'
    BY <1>a, <1>t, <1>12 DEF TaskLags, KidsTyped, KidsHaveOwner
  <2>7. ClosedIsQuiet'
    <3>1. \A s \in AcpSession : children[s] = "none" => children'[s] = "none"
      BY <1>a, <1>t, <1>12 DEF TaskLags, KidsTyped
    <3> QED BY <1>a, <2>q, <3>1, <1>12, QuietStays DEF TaskLags
  <2> QED BY <2>1, <2>2, <2>3, <2>4, <2>5, <2>6, <2>7 DEF ConnInv
<1>13. ASSUME NEW t \in DOMAIN tasks, TaskSkips(t) PROVE ConnInv'
  <2>1. QueueTyped' /\ MapTyped' /\ OwedTyped' /\ KidsTyped' /\ DispatchTyped' /\ KidsHaveOwner'
        /\ TornIsLast'
    BY <1>b, <1>d, <1>e, <1>f, <1>g, <1>i, <1>o, <1>13 DEF TaskSkips
  <2>p. PICK p \in AcpPhases : Phase(t, p) /\ tasks[t].phase # "done" /\ (p # "done" \/ stream = "closed")
    BY <1>u, <1>13 DEF TaskSkips
  <2>q. /\ PromptsTyped' /\ SameTasks(tasks, tasks')
        /\ \A u \in DOMAIN tasks : tasks'[u].phase = IF u = t THEN p ELSE tasks[u].phase
    BY <1>a, <2>p, PromptMoves
  <2>2. PromptsTyped'
    BY <2>q
  <2>3. TasksKnown' /\ OneTaskPerId' /\ ClosingWaits'
    BY <1>a, <2>q, <1>13, PromptsGoOn DEF TaskSkips
  <2>4. FrameOwn'
    <3>1. writing # <<"task", t>> /\ writing' = writing
      BY <1>a, <1>t, <1>13 DEF TaskSkips, FrameOwn
    <3> QED BY ONLY <1>a, <3>1, <2>q DEF FrameOwn, SameTasks
  <2>5. ClosedIsQuiet'
    BY <1>a, <2>q, <1>13, QuietStays DEF TaskSkips
  <2>6. Owing'
    <3>1. CASE stream = "closed"
      BY <1>a, <3>1, <1>13 DEF TaskSkips, Owing
    <3>2. CASE p # "done"
      <4>1. \A i : TaskOf(tasks', i) = TaskOf(tasks, i)
        BY <2>p, <2>q, <3>2, SameTaskOf
      <4> QED BY <1>a, <4>1, <1>13, OwingStays DEF TaskSkips
    <3> QED BY <2>p, <3>1, <3>2
  <2> QED BY <2>1, <2>2, <2>3, <2>4, <2>5, <2>6 DEF ConnInv
<1>14. ASSUME Opens(TRUE) PROVE ConnInv'
  <2>1. QueueTyped' /\ PromptsTyped' /\ MapTyped' /\ OwedTyped' /\ FrameOwn' /\ OneTaskPerId'
        /\ TornIsLast'
    BY <1>b, <1>c, <1>d, <1>e, <1>h, <1>k, <1>o, <1>14 DEF Opens
  <2>2. KidsTyped'
    BY <1>a, <1>v, <1>14 DEF Opens, KidsTyped
  <2>3. DispatchTyped'
    BY <1>a, <1>w, <1>14 DEF Opens, DispatchTyped, DispatchState, DispatchSteps, Busy, NoWork
  <2>4. KidsHaveOwner'
    BY <1>a, <1>v, <1>w, <1>14 DEF Opens, KidsHaveOwner, KidsTyped, AcpSess, Busy
  <2>5. TasksKnown' /\ ClosingWaits'
    BY <1>a, <1>w, <1>14 DEF Opens, TasksKnown, ClosingWaits, Unfinished
  <2>6. ClosedIsQuiet'
    BY <1>w, <1>14 DEF Opens, ClosedIsQuiet
  <2>7. Owing'
    <3>1. \A i : InHandOf(dispatch', i) = InHandOf(dispatch, i)
      BY <1>w, <1>14 DEF Opens, InHandOf, Busy
    <3> QED BY <1>a, <3>1, <1>14, OwingStays DEF Opens
  <2> QED BY <2>1, <2>2, <2>3, <2>4, <2>5, <2>6, <2>7 DEF ConnInv
<1>15. ASSUME Opens(FALSE) PROVE ConnInv'
  <2>1. QueueTyped' /\ PromptsTyped' /\ MapTyped' /\ OwedTyped' /\ FrameOwn' /\ OneTaskPerId'
        /\ TornIsLast'
    BY <1>b, <1>c, <1>d, <1>e, <1>h, <1>k, <1>o, <1>15 DEF Opens
  <2>2. KidsTyped'
    BY <1>a, <1>v, <1>15 DEF Opens, KidsTyped
  <2>3. DispatchTyped'
    BY <1>a, <1>w, <1>15 DEF Opens, DispatchTyped, DispatchState, DispatchSteps, Busy, NoWork
  <2>4. KidsHaveOwner'
    BY <1>a, <1>v, <1>w, <1>15 DEF Opens, KidsHaveOwner, KidsTyped, AcpSess, Busy
  <2>5. TasksKnown' /\ ClosingWaits'
    BY <1>a, <1>w, <1>15 DEF Opens, TasksKnown, ClosingWaits, Unfinished
  <2>6. ClosedIsQuiet'
    BY <1>a, <1>w, <1>15 DEF Opens, ClosedIsQuiet, DispatchTyped
  <2>7. Owing'
    <3>1. \A i : InHandOf(dispatch', i) = InHandOf(dispatch, i)
      BY <1>w, <1>15 DEF Opens, InHandOf, Busy
    <3> QED BY <1>a, <3>1, <1>15, OwingStays DEF Opens
  <2> QED BY <2>1, <2>2, <2>3, <2>4, <2>5, <2>6, <2>7 DEF ConnInv
<1>16. ASSUME PreparationFails PROVE ConnInv'
  <2>1. QueueTyped' /\ PromptsTyped' /\ MapTyped' /\ OwedTyped' /\ FrameOwn' /\ OneTaskPerId'
        /\ TornIsLast'
    BY <1>b, <1>c, <1>d, <1>e, <1>h, <1>k, <1>o, <1>16
       DEF PreparationFails, KillUnattached, AfterFailure
  <2>2. KidsTyped'
    BY <1>a, <1>v, <1>16 DEF PreparationFails, KillUnattached, AfterFailure, KidsTyped
  <2>3. DispatchTyped'
    BY <1>a, <1>w, <1>16
       DEF PreparationFails, KillUnattached, AfterFailure, DispatchTyped, DispatchState,
           DispatchSteps, Busy, NoWork
  <2>4. KidsHaveOwner'
    BY <1>a, <1>v, <1>w, <1>16
       DEF PreparationFails, KillUnattached, AfterFailure, KidsHaveOwner, KidsTyped, AcpSess, Busy
  <2>5. TasksKnown' /\ ClosingWaits'
    BY <1>a, <1>w, <1>16
       DEF PreparationFails, KillUnattached, AfterFailure, TasksKnown, ClosingWaits, Unfinished
  <2>6. ClosedIsQuiet'
    BY <1>a, <1>w, <1>16
       DEF PreparationFails, KillUnattached, AfterFailure, ClosedIsQuiet, DispatchTyped
  <2>7. Owing'
    <3>1. \A i : InHandOf(dispatch', i) = InHandOf(dispatch, i)
      BY <1>w, <1>16 DEF PreparationFails, KillUnattached, AfterFailure, InHandOf, Busy
    <3> QED BY <1>a, <3>1, <1>16, OwingStays DEF PreparationFails, KillUnattached, AfterFailure
  <2> QED BY <2>1, <2>2, <2>3, <2>4, <2>5, <2>6, <2>7 DEF ConnInv
<1>17. ASSUME Attaches PROVE ConnInv'
  <2>1. QueueTyped' /\ PromptsTyped' /\ MapTyped' /\ OwedTyped' /\ OneTaskPerId'
    BY <1>b, <1>c, <1>d, <1>e, <1>k, <1>17 DEF Attaches, DropFrame
  <2>2. KidsTyped'
    BY <1>a, <1>v, <1>17 DEF Attaches, DropFrame, KidsTyped, Busy
  <2>3. DispatchTyped'
    BY <1>a, <1>w, <1>17
       DEF Attaches, DropFrame, DispatchTyped, DispatchState, DispatchSteps, Busy, NoWork
  <2>4. KidsHaveOwner'
    BY <1>a, <1>v, <1>w, <1>17 DEF Attaches, DropFrame, KidsHaveOwner, AcpSess, Busy
  <2>5. TasksKnown' /\ ClosingWaits'
    BY <1>a, <1>w, <1>17 DEF Attaches, DropFrame, TasksKnown, ClosingWaits, Unfinished
  <2>6. ClosedIsQuiet'
    BY <1>a, <1>w, <1>17 DEF Attaches, DropFrame, ClosedIsQuiet, DispatchTyped
  <2>7. FrameOwn'
    <3>1. writing' = writing \/ writing' = Nobody
      BY <1>17 DEF Attaches, DropFrame
    <3>2. tasks' = tasks
      BY <1>17 DEF Attaches, DropFrame
    <3> QED BY ONLY <1>a, <3>1, <3>2, FramesDiffer DEF FrameOwn
  <2>8. TornIsLast'
    BY <1>a, <1>17 DEF Attaches, DropFrame, TornIsLast
  <2>9. Owing'
    <3>1. \A i : InHandOf(dispatch', i) = InHandOf(dispatch, i)
      BY <1>w, <1>17 DEF Attaches, DropFrame, InHandOf, Busy
    <3>2. /\ (stream' = "open" => stream = "open") /\ UNCHANGED <<owed, acpQueue, tasks>>
      BY <1>17 DEF Attaches, DropFrame
    <3> QED BY <1>a, <3>1, <3>2, OwingStays
  <2> QED BY <2>1, <2>2, <2>3, <2>4, <2>5, <2>6, <2>7, <2>8, <2>9 DEF ConnInv
<1>18. ASSUME NEW t \in DOMAIN tasks, WaitTimesOut(t) PROVE ConnInv'
  <2>1. QueueTyped' /\ PromptsTyped' /\ MapTyped' /\ OwedTyped' /\ DispatchTyped' /\ FrameOwn'
        /\ TasksKnown' /\ OneTaskPerId' /\ ClosingWaits' /\ Owing' /\ TornIsLast'
    BY <1>b, <1>c, <1>d, <1>e, <1>g, <1>h, <1>j, <1>k, <1>l, <1>n, <1>o, <1>18
       DEF WaitTimesOut, LateKilled
  <2>2. KidsTyped' /\ KidsHaveOwner'
    BY <1>a, <1>t, <1>18 DEF WaitTimesOut, LateKilled, KidsTyped, KidsHaveOwner
  <2>3. ClosedIsQuiet'
    BY <1>w, <1>18 DEF WaitTimesOut, LateKilled, ClosedIsQuiet
  <2> QED BY <2>1, <2>2, <2>3 DEF ConnInv
<1>19. ASSUME Stops PROVE ConnInv'
  <2>1. QueueTyped' /\ PromptsTyped' /\ MapTyped' /\ OwedTyped' /\ OneTaskPerId'
    BY <1>b, <1>c, <1>d, <1>e, <1>k, <1>19 DEF Stops, DropFrame
  <2>2. KidsTyped'
    BY <1>a, <1>v, <1>19 DEF Stops, DropFrame, KidsTyped, Busy
  <2>3. DispatchTyped'
    BY <1>a, <1>w, <1>19
       DEF Stops, DropFrame, DispatchTyped, DispatchState, DispatchSteps, Busy, NoWork
  <2>4. KidsHaveOwner'
    BY <1>a, <1>v, <1>w, <1>19 DEF Stops, DropFrame, KidsHaveOwner, KidsTyped, AcpSess, Busy
  <2>5. TasksKnown' /\ ClosingWaits'
    BY <1>a, <1>w, <1>19 DEF Stops, DropFrame, Waited, TasksKnown, ClosingWaits, Unfinished
  <2>6. ClosedIsQuiet'
    <3>1. /\ dispatch.at = "stopping" /\ dispatch' = [dispatch EXCEPT !.at = "answer"] /\ tasks' = tasks
          /\ watcher' = [watcher EXCEPT ![AcpSess] = FALSE] /\ attached' = attached \ {AcpSess}
          /\ children' = [children EXCEPT ![AcpSess] = IF AcpSess \in attached THEN "none" ELSE @]
          /\ dispatch.wait \cap Unfinished = {}
      BY <1>19 DEF Stops, DropFrame, Waited
    <3>2. AcpSess' = AcpSess /\ AcpSess \in AcpSession /\ AcpSess = dispatch.request.sess
      BY <1>v, <1>w, <3>1 DEF AcpSess, Busy
    <3>3. \A t \in Unfinished : tasks[t].sess # AcpSess
      BY ONLY <1>a, <3>1, <3>2 DEF ClosingWaits
    <3>4. Unfinished' = Unfinished
      BY <3>1 DEF Unfinished
    <3>5. AcpSess \in attached \/ children[AcpSess] = "none"
      BY ONLY <1>a, <3>1, <3>2 DEF KidsHaveOwner
    <3>6. children'[AcpSess] = "none" /\ ~watcher'[AcpSess] /\ AcpSess \notin attached'
      BY ONLY <1>a, <3>1, <3>2, <3>5 DEF KidsTyped
    <3> QED BY ONLY <3>1, <3>2, <3>3, <3>4, <3>6 DEF ClosedIsQuiet
  <2>7. FrameOwn'
    <3>1. writing' = writing \/ writing' = Nobody
      BY <1>19 DEF Stops, DropFrame
    <3>2. tasks' = tasks
      BY <1>19 DEF Stops, DropFrame
    <3> QED BY ONLY <1>a, <3>1, <3>2, FramesDiffer DEF FrameOwn
  <2>8. TornIsLast'
    BY <1>a, <1>19 DEF Stops, DropFrame, TornIsLast
  <2>9. Owing'
    <3>1. \A i : InHandOf(dispatch', i) = InHandOf(dispatch, i)
      BY <1>w, <1>19 DEF Stops, DropFrame, InHandOf, Busy
    <3>2. /\ (stream' = "open" => stream = "open") /\ UNCHANGED <<owed, acpQueue, tasks>>
      BY <1>19 DEF Stops, DropFrame
    <3> QED BY <1>a, <3>1, <3>2, OwingStays
  <2> QED BY <2>1, <2>2, <2>3, <2>4, <2>5, <2>6, <2>7, <2>8, <2>9 DEF ConnInv
<1>20. ASSUME AnswerStarts PROVE ConnInv'
  <2>1. QueueTyped' /\ PromptsTyped' /\ MapTyped' /\ OwedTyped' /\ KidsTyped' /\ DispatchTyped'
        /\ KidsHaveOwner' /\ TasksKnown' /\ OneTaskPerId' /\ ClosingWaits' /\ ClosedIsQuiet'
        /\ Owing'
    BY <1>b, <1>c, <1>d, <1>e, <1>f, <1>g, <1>i, <1>j, <1>k, <1>l, <1>m, <1>n, <1>20
       DEF AnswerStarts, StartFrame
  <2>2. FrameOwn' /\ TornIsLast'
    BY <1>a, <1>20, FramesDiffer DEF AnswerStarts, StartFrame, FrameOwn, TornIsLast
  <2> QED BY <2>1, <2>2 DEF ConnInv
<1>21. ASSUME AnswerEnds PROVE ConnInv'
  <2>1. QueueTyped' /\ PromptsTyped' /\ MapTyped' /\ KidsTyped' /\ OneTaskPerId'
    BY <1>b, <1>c, <1>d, <1>f, <1>k, <1>21 DEF AnswerEnds, FrameOver, AcpAnswered
  <2>2. OwedTyped'
    <3>1. owed' = owed \/ owed' = [owed EXCEPT ![dispatch.request.id] = @ - 1]
      BY <1>21 DEF AnswerEnds, FrameOver, AcpAnswered
    <3> QED BY <1>a, <3>1 DEF OwedTyped
  <2>3. DispatchTyped'
    BY <1>a, <1>w, <1>21
       DEF AnswerEnds, FrameOver, AcpAnswered, DispatchTyped, DispatchState, DispatchSteps, Busy,
           NoWork
  <2>4. KidsHaveOwner'
    BY <1>a, <1>w, <1>21 DEF AnswerEnds, FrameOver, AcpAnswered, KidsHaveOwner, NoWork
  <2>5. TasksKnown' /\ ClosingWaits'
    BY <1>a, <1>w, <1>21
       DEF AnswerEnds, FrameOver, AcpAnswered, NoWork, TasksKnown, ClosingWaits, Unfinished
  <2>6. ClosedIsQuiet'
    BY <1>21 DEF AnswerEnds, FrameOver, AcpAnswered, ClosedIsQuiet, NoWork
  <2>7. FrameOwn'
    <3>1. writing' = writing \/ writing' = Nobody
      BY <1>21 DEF AnswerEnds, FrameOver, AcpAnswered
    <3>2. tasks' = tasks
      BY <1>21 DEF AnswerEnds, FrameOver, AcpAnswered
    <3> QED BY ONLY <1>a, <3>1, <3>2, FramesDiffer DEF FrameOwn
  <2>8. TornIsLast'
    BY <1>a, <1>21 DEF AnswerEnds, FrameOver, AcpAnswered, TornIsLast
  <2>9. Owing'
    <3>1. CASE owed' = owed /\ stream # "open"
      BY <1>a, <3>1, <1>21 DEF AnswerEnds, FrameOver, AcpAnswered, Owing
    <3>2. CASE stream = "open"
      <4>1. /\ owed' = [owed EXCEPT ![dispatch.request.id] = @ - 1] /\ UNCHANGED <<acpQueue, tasks>>
            /\ dispatch.at = "answer" /\ dispatch' = NoWork /\ dispatch.request.id \in AcpId
        BY <1>v, <3>2, <1>21 DEF AnswerEnds, FrameOver, AcpAnswered, Busy
      <4>2. \A i \in AcpId : InHandOf(dispatch, i) = (IF i = dispatch.request.id THEN 1 ELSE 0) /\ InHandOf(dispatch', i) = 0
        BY ONLY <4>1 DEF InHandOf, Busy, NoWork
      <4>3. \A i \in AcpId : owed'[i] = owed[i] - (IF i = dispatch.request.id THEN 1 ELSE 0) /\ owed[i] \in Int
        BY ONLY <1>a, <4>1 DEF OwedTyped
      <4>4. \A i \in AcpId : QueueOf(acpQueue, i) \in Nat /\ TaskOf(tasks, i) \in Nat
        BY ONLY <1>a, QueueCounts DEF QueueTyped, TaskOf
      <4>5. \A i \in AcpId : owed[i] = QueueOf(acpQueue, i) + TaskOf(tasks, i) + InHandOf(dispatch, i)
        BY ONLY <1>a, <3>2 DEF Owing
      <4>7. \A i \in AcpId : /\ owed'[i] = QueueOf(acpQueue, i) + TaskOf(tasks, i) + InHandOf(dispatch', i)
                             /\ owed'[i] >= 0
        BY ONLY <4>2, <4>3, <4>4, <4>5
      <4> QED BY ONLY <4>1, <4>7 DEF Owing
    <3> QED BY <3>1, <3>2, <1>21 DEF AnswerEnds, FrameOver, AcpAnswered
  <2> QED BY <2>1, <2>2, <2>3, <2>4, <2>5, <2>6, <2>7, <2>8, <2>9 DEF ConnInv
<1>22. ASSUME EndBegins PROVE ConnInv'
  <2>1. OwedTyped' /\ KidsTyped'
    BY <1>e, <1>f, <1>22 DEF EndBegins
  <2>q. /\ PromptsTyped' /\ SameTasks(tasks, tasks')
        /\ \A u \in DOMAIN tasks : tasks'[u].phase = tasks[u].phase
    BY <1>a, <1>22, PromptsAborted DEF EndBegins
  <2>d. /\ dispatch.at = "recv" /\ promptTasks' = [i \in AcpId |-> 0] /\ UNCHANGED <<children, attached>>
        /\ dispatch' = [at |-> "ending", request |-> <<>>, ok |-> TRUE, wait |-> {promptTasks[i] : i \in AcpId}]
    BY <1>22 DEF EndBegins, NoWork
  <2>2. QueueTyped' /\ MapTyped'
    BY <1>22 DEF EndBegins, QueueTyped, MapTyped
  <2>3. PromptsTyped'
    BY <2>q
  <2>4. FrameOwn'
    BY <1>a, <2>q, <1>22 DEF EndBegins, FrameOwn, SameTasks
  <2>5. DispatchTyped'
    <3>1. {promptTasks[i] : i \in AcpId} \in SUBSET Nat
      BY <1>a DEF MapTyped
    <3> QED BY <3>1, <2>d DEF DispatchTyped, DispatchState, DispatchSteps, Busy
  <2>6. KidsHaveOwner'
    BY <1>a, <1>w, <2>d DEF KidsHaveOwner
  <2>7. TasksKnown' /\ OneTaskPerId' /\ ClosingWaits'
    <3>1. /\ Unfinished' \subseteq Unfinished
          /\ \A u \in Unfinished' : tasks'[u].id = tasks[u].id /\ tasks'[u].id \in AcpId
      BY <1>t, <2>q DEF SameTasks, Unfinished
    <3>2. dispatch'.at = "ending" /\ dispatch'.wait = {promptTasks[i] : i \in AcpId}
      BY <2>d
    <3>3. \A u \in Unfinished : promptTasks[tasks[u].id] = u
      BY ONLY <1>a, <2>d DEF TasksKnown
    <3>4. TasksKnown'
      <4>1. \A i \in AcpId : promptTasks'[i] = 0
        BY <2>d
      <4> QED BY ONLY <3>1, <3>2, <3>3, <4>1 DEF TasksKnown
    <3>5. OneTaskPerId'
      BY ONLY <1>a, <3>1 DEF OneTaskPerId
    <3>6. ClosingWaits'
      BY ONLY <3>2 DEF ClosingWaits
    <3> QED BY <3>4, <3>5, <3>6
  <2>8. ClosedIsQuiet'
    BY <2>d DEF ClosedIsQuiet
  <2>9. TornIsLast'
    BY <1>a, <1>22 DEF EndBegins, TornIsLast
  <2>10. Owing'
    <3>1. stream' = "closed" /\ UNCHANGED owed
      BY <1>22 DEF EndBegins
    <3> QED BY <1>a, <3>1 DEF Owing
  <2> QED BY <2>1, <2>2, <2>3, <2>4, <2>5, <2>6, <2>7, <2>8, <2>9, <2>10 DEF ConnInv
<1>23. ASSUME EndFinishes PROVE ConnInv'
  <2>1. QueueTyped' /\ PromptsTyped' /\ MapTyped' /\ OwedTyped' /\ OneTaskPerId'
    BY <1>b, <1>c, <1>d, <1>e, <1>k, <1>23 DEF EndFinishes, DropFrame
  <2>2. KidsTyped'
    BY <1>a, <1>23 DEF EndFinishes, DropFrame, KidsTyped
  <2>3. DispatchTyped'
    BY <1>a, <1>w, <1>23
       DEF EndFinishes, DropFrame, DispatchTyped, DispatchState, DispatchSteps, Busy, NoWork
  <2>4. KidsHaveOwner'
    BY <1>a, <1>w, <1>23 DEF EndFinishes, DropFrame, KidsHaveOwner, KidsTyped
  <2>5. TasksKnown' /\ ClosingWaits'
    BY <1>a, <1>w, <1>23 DEF EndFinishes, DropFrame, Waited, TasksKnown, ClosingWaits, Unfinished
  <2>6. ClosedIsQuiet'
    BY <1>w, <1>23 DEF EndFinishes, DropFrame, ClosedIsQuiet
  <2>7. FrameOwn'
    <3>1. writing' = writing \/ writing' = Nobody
      BY <1>23 DEF EndFinishes, DropFrame
    <3>2. tasks' = tasks
      BY <1>23 DEF EndFinishes, DropFrame
    <3> QED BY ONLY <1>a, <3>1, <3>2, FramesDiffer DEF FrameOwn
  <2>8. TornIsLast'
    BY <1>a, <1>23 DEF EndFinishes, DropFrame, TornIsLast
  <2>9. Owing'
    <3>1. \A i : InHandOf(dispatch', i) = InHandOf(dispatch, i)
      BY <1>w, <1>23 DEF EndFinishes, DropFrame, InHandOf, Busy
    <3>2. /\ (stream' = "open" => stream = "open") /\ UNCHANGED <<owed, acpQueue, tasks>>
      BY <1>23 DEF EndFinishes, DropFrame
    <3> QED BY <1>a, <3>1, <3>2, OwingStays
  <2> QED BY <2>1, <2>2, <2>3, <2>4, <2>5, <2>6, <2>7, <2>8, <2>9 DEF ConnInv
<1>24. ASSUME Takes PROVE ConnInv'
  <2>1. OwedTyped' /\ KidsTyped' /\ TornIsLast'
    BY <1>e, <1>f, <1>o, <1>24 DEF Takes
  <2> DEFINE r == Head(acpQueue)
  <2>h. /\ acpQueue # <<>> /\ stream = "open" /\ dispatch.at = "recv" /\ acpQueue' = Tail(acpQueue)
        /\ r \in AcpRequest /\ r.id \in AcpId /\ r.sess \in AcpSession /\ Tail(acpQueue) \in Seq(AcpRequest)
        /\ UNCHANGED <<owed, children, attached, stream>> /\ QueueTyped'
    <3>1. /\ acpQueue # <<>> /\ stream = "open" /\ dispatch.at = "recv" /\ acpQueue' = Tail(acpQueue)
          /\ UNCHANGED <<owed, children, attached, stream>> /\ acpQueue \in Seq(AcpRequest)
      BY <1>a, <1>24 DEF Takes, QueueTyped
    <3>2. r \in AcpRequest /\ Tail(acpQueue) \in Seq(AcpRequest)
      BY <3>1, TailFacts
    <3>3. r.id \in AcpId /\ r.sess \in AcpSession
      BY <3>2 DEF AcpRequest
    <3> QED BY ONLY <3>1, <3>2, <3>3 DEF QueueTyped
  <2>i. \/ /\ Duplicate(r) /\ promptTasks' = Reaped /\ tasks' = tasks
           /\ dispatch' = [at |-> "answer", request |-> r, ok |-> FALSE, wait |-> {}]
        \/ ~Duplicate(r) /\ Handle(r)
    BY <1>24 DEF Takes, NoWork
  <2> HIDE DEF r
  <2>j. /\ Reaped \in [AcpId -> Nat] /\ \A t \in Unfinished : t \in DOMAIN tasks /\ Reaped[tasks[t].id] = t
    BY <1>a, <1>t, <2>h DEF Reaped, MapTyped, TasksKnown, Unfinished
  <2>k. ASSUME promptTasks' = Reaped, SameTasks(tasks, tasks'), PromptsTyped',
               \A u \in DOMAIN tasks : tasks'[u].phase = tasks[u].phase,
               NEW at \in {"opening", "prepared", "answer"}, NEW ok \in BOOLEAN,
               dispatch' = [at |-> at, request |-> r, ok |-> ok, wait |-> {}],
               r.method \in {"close", "delete"} => at = "answer" /\ ~ok
        PROVE  TakenGoes(r)
    <3>1. /\ Unfinished' = Unfinished
          /\ \A u \in Unfinished : tasks'[u].id = tasks[u].id /\ tasks'[u].sess = tasks[u].sess
      BY <2>k DEF SameTasks, Unfinished
    <3>2. dispatch'.at = at /\ dispatch'.request = r /\ dispatch'.ok = ok
      BY <2>k
    <3>3. DispatchTyped'
      BY ONLY <2>h, <2>k DEF DispatchTyped, DispatchState, DispatchSteps, Busy
    <3>4. TasksKnown' /\ OneTaskPerId' /\ ClosingWaits'
      BY ONLY <1>a, <2>j, <2>k, <3>1, <3>2 DEF TasksKnown, OneTaskPerId, ClosingWaits
    <3>5. \A i \in AcpId : TaskOf(tasks', i) = TaskOf(tasks, i)
      BY ONLY SameTasks(tasks, tasks'), \A u \in DOMAIN tasks : tasks'[u].phase =
         tasks[u].phase
         DEF SameTasks, TaskOf
    <3>6. \A i \in AcpId : InHandOf(dispatch', i) = IF r.id = i THEN 1 ELSE 0
      BY ONLY <3>2, at \in {"opening", "prepared", "answer"} DEF InHandOf, Busy
    <3>7. \A t \in DOMAIN tasks : t \in DOMAIN tasks' /\ tasks'[t].phase = tasks[t].phase
      BY ONLY <2>k DEF SameTasks
    <3>8. \A i \in AcpId : TaskOf(tasks', i) + InHandOf(dispatch', i) = TaskOf(tasks, i) + (IF r.id = i THEN 1 ELSE 0)
      BY ONLY <3>5, <3>6 DEF TaskOf
    <3>9. ClosedIsQuiet' /\ dispatch'.at \notin {"ending", "ended"}
      BY ONLY <2>k, <3>2 DEF ClosedIsQuiet
    <3> QED BY ONLY <2>j, <2>k, <3>3, <3>4, <3>7, <3>8, <3>9 DEF TakenGoes
  <2>l. TakenGoes(r)
    <3>1. ASSUME Duplicate(r), promptTasks' = Reaped, tasks' = tasks,
                 dispatch' = [at |-> "answer", request |-> r, ok |-> FALSE, wait |-> {}]
          PROVE  TakenGoes(r)
      <4>1. SameTasks(tasks, tasks') /\ PromptsTyped' /\ \A u \in DOMAIN tasks : tasks'[u].phase = tasks[u].phase
        BY <1>a, <3>1 DEF SameTasks, PromptsTyped
      <4> QED BY <3>1, <4>1, <2>k
    <3>2. ASSUME promptTasks' = Reaped, tasks' = tasks \/ \E ts : tasks' = Aborted(ts),
                 NEW at \in {"opening", "prepared", "answer"}, To(r, at), r.method \notin {"close", "delete"}
          PROVE  TakenGoes(r)
      <4>1. SameTasks(tasks, tasks') /\ PromptsTyped' /\ \A u \in DOMAIN tasks : tasks'[u].phase = tasks[u].phase
        <5>1. CASE tasks' = tasks
          BY <1>a, <5>1 DEF SameTasks, PromptsTyped
        <5>2. CASE \E ts : tasks' = Aborted(ts)
          BY <1>a, <5>2, PromptsAborted
        <5> QED BY <3>2, <5>1, <5>2
      <4>2. dispatch' = [at |-> at, request |-> r, ok |-> TRUE, wait |-> {}] /\ TRUE \in BOOLEAN
        BY <3>2 DEF To
      <4> QED BY <3>2, <4>1, <4>2, <2>k
    <3>3. ASSUME ~Duplicate(r), dispatch' = NoWork, promptTasks' = [Reaped EXCEPT ![r.id] = Len(tasks) + 1],
                 tasks' = Append(tasks, [id |-> r.id, sess |-> r.sess, phase |-> "spawned", cancelled |-> FALSE])
          PROVE  TakenGoes(r)
      <4> DEFINE x == [id |-> r.id, sess |-> r.sess, phase |-> "spawned", cancelled |-> FALSE]
                 n == Len(tasks) + 1
      <4>1. x \in AcpTask /\ x.id = r.id /\ x.sess = r.sess /\ x.phase = "spawned"
        BY <2>h DEF AcpTask, AcpPhases
      <4> HIDE DEF x
      <4>2. /\ tasks' = Append(tasks, x) /\ tasks' \in Seq(AcpTask) /\ n \in Nat /\ n # 0
            /\ n \notin DOMAIN tasks /\ DOMAIN tasks' = DOMAIN tasks \cup {n} /\ tasks'[n] = x
            /\ \A u \in DOMAIN tasks : tasks'[u] = tasks[u]
        <5>1. tasks' = Append(tasks, x) /\ tasks \in Seq(AcpTask)
          BY <1>a, <3>3 DEF x, PromptsTyped
        <5>2. /\ n \notin DOMAIN tasks /\ n \in DOMAIN Append(tasks, x) /\ Append(tasks, x)[n] = x
              /\ \A k \in DOMAIN tasks : k \in DOMAIN Append(tasks, x) /\ Append(tasks, x)[k] = tasks[k]
              /\ \A k \in DOMAIN Append(tasks, x) : k \in DOMAIN tasks \/ k = n
          BY ONLY <5>1, <4>1, AppendFacts
        <5>3. n \in Nat /\ n # 0 /\ Append(tasks, x) \in Seq(AcpTask)
          BY ONLY <5>1, <4>1
        <5> QED BY ONLY <5>1, <5>2, <5>3
      <4> HIDE DEF n
      <4>3. Unfinished' = Unfinished \cup {n} /\ n \notin Unfinished
        BY ONLY <4>1, <4>2 DEF Unfinished
      <4>4. \A u \in Unfinished : u \in DOMAIN tasks /\ tasks[u].id # r.id /\ tasks[u].id \in AcpId
        BY <1>t, <2>j, <3>3 DEF Duplicate, Unfinished
      <4>5. /\ promptTasks' \in [AcpId -> Nat] /\ promptTasks'[r.id] = n
            /\ \A i \in AcpId : i # r.id => promptTasks'[i] = Reaped[i]
        BY <2>h, <2>j, <3>3, <4>2 DEF n
      <4>6. TasksKnown'
        <5>1. \A u \in Unfinished' : promptTasks'[tasks'[u].id] = u
          BY ONLY <2>j, <4>1, <4>2, <4>3, <4>4, <4>5
        <5>2. dispatch'.at = "recv"
          BY <3>3 DEF NoWork
        <5> QED BY ONLY <5>1, <5>2 DEF TasksKnown
      <4>7. OneTaskPerId'
        BY ONLY <1>a, <4>1, <4>2, <4>3, <4>4 DEF OneTaskPerId
      <4>8. DispatchTyped' /\ ClosingWaits' /\ ClosedIsQuiet' /\ dispatch'.at \notin {"ending", "ended"}
        BY <3>3
           DEF NoWork, DispatchTyped, DispatchState, DispatchSteps, Busy, ClosingWaits,
               ClosedIsQuiet
      <4>9. \A i \in AcpId : TaskOf(tasks', i) + InHandOf(dispatch', i) = TaskOf(tasks, i) + (IF r.id = i THEN 1 ELSE 0)
        <5>1. \A i \in AcpId : InHandOf(dispatch', i) = 0
          BY <3>3 DEF NoWork, InHandOf, Busy
        <5>2. \A u \in DOMAIN tasks : tasks[u].phase # "done" => tasks[u].id # r.id
          BY ONLY <4>4 DEF Unfinished
        <5>3. \A i \in AcpId : TaskOf(tasks', i) = TaskOf(tasks, i) + (IF r.id = i THEN 1 ELSE 0)
          BY ONLY <4>1, <4>2, <5>2 DEF TaskOf
        <5>4. \A i \in AcpId : TaskOf(tasks', i) \in Nat
          BY DEF TaskOf
        <5> QED BY ONLY <5>1, <5>3, <5>4
      <4> QED BY <4>2, <4>5, <4>6, <4>7, <4>8, <4>9 DEF TakenGoes, PromptsTyped
    <3>4. ASSUME r.method \in {"close", "delete"}, tasks' = Aborted(OfSession(r.sess)),
                 promptTasks' = AcpWithout(OfSession(r.sess)),
                 dispatch' = [at |-> "stopping", request |-> r, ok |-> TRUE, wait |-> OfSession(r.sess)]
          PROVE  TakenGoes(r)
      <4> DEFINE W == OfSession(r.sess)
      <4>1. /\ PromptsTyped' /\ SameTasks(tasks, tasks')
            /\ \A u \in DOMAIN tasks : tasks'[u].phase = tasks[u].phase
        BY <1>a, <3>4, PromptsAborted
      <4>2. /\ W \subseteq Nat
            /\ \A u \in Unfinished : tasks[u].sess = r.sess => u \in W
            /\ \A u \in Unfinished : u \notin W => promptTasks'[tasks[u].id] = u
        BY <1>t, <2>j, <3>4 DEF OfSession, AcpWithout, Unfinished
      <4>3. promptTasks' \in [AcpId -> Nat]
        BY <2>j, <3>4 DEF AcpWithout
      <4>4. dispatch'.at = "stopping" /\ dispatch'.request = r /\ dispatch'.wait = W
        BY <3>4
      <4>5. DispatchTyped'
        BY <2>h, <3>4, <4>2 DEF DispatchTyped, DispatchState, DispatchSteps, Busy
      <4> HIDE DEF W
      <4>6. /\ Unfinished' = Unfinished
            /\ \A u \in Unfinished : tasks'[u].id = tasks[u].id /\ tasks'[u].sess = tasks[u].sess
        BY <4>1 DEF SameTasks, Unfinished
      <4>7. TasksKnown' /\ ClosingWaits' /\ OneTaskPerId'
        BY ONLY <1>a, <4>2, <4>4, <4>6 DEF TasksKnown, ClosingWaits, OneTaskPerId
      <4>8. \A i \in AcpId : TaskOf(tasks', i) + InHandOf(dispatch', i) = TaskOf(tasks, i) + (IF r.id = i THEN 1 ELSE 0)
        <5>1. \A i \in AcpId : TaskOf(tasks', i) = TaskOf(tasks, i)
          BY ONLY <4>1 DEF SameTasks, TaskOf
        <5>2. \A i \in AcpId : InHandOf(dispatch', i) = IF r.id = i THEN 1 ELSE 0
          BY ONLY <4>4 DEF InHandOf, Busy
        <5> QED BY ONLY <5>1, <5>2 DEF TaskOf
      <4>9. ClosedIsQuiet' /\ dispatch'.at \notin {"ending", "ended"}
        BY ONLY <4>4 DEF ClosedIsQuiet
      <4> QED BY ONLY <4>1, <4>3, <4>5, <4>7, <4>8, <4>9 DEF TakenGoes, SameTasks
    <3>5. ASSUME ~Duplicate(r), Handle(r) PROVE TakenGoes(r)
      <4>0. r.method \in AcpMethod
        BY <2>h DEF AcpRequest
      <4>1. CASE r.method = "new"
        BY <3>2, <3>5, <4>1 DEF Handle
      <4>2. CASE r.method = "load"
        <5>1. /\ promptTasks' = Reaped /\ tasks' = tasks
              /\ \E at \in {"opening", "prepared", "answer"} : To(r, at)
          BY <3>5, <4>2 DEF Handle
        <5> QED BY <3>2, <5>1, <4>2
      <4>3. CASE r.method = "prompt" /\ r.sess \in attached
        BY <3>3, <3>5, <4>3 DEF Handle
      <4>4. CASE r.method = "prompt" /\ r.sess \notin attached
        BY <3>2, <3>5, <4>4 DEF Handle
      <4>5. CASE r.method = "cancel"
        BY <3>2, <3>5, <4>5 DEF Handle
      <4>6. CASE r.method \in {"close", "delete"}
        BY <3>4, <3>5, <4>6 DEF Handle
      <4> QED BY <4>0, <4>1, <4>2, <4>3, <4>4, <4>5, <4>6 DEF AcpMethod
    <3> QED BY <2>i, <3>1, <3>5
  <2>m. /\ PromptsTyped' /\ promptTasks' \in [AcpId -> Nat] /\ DispatchTyped'
        /\ \A t \in DOMAIN tasks : t \in DOMAIN tasks' /\ tasks'[t].phase = tasks[t].phase
        /\ TasksKnown' /\ OneTaskPerId' /\ ClosingWaits' /\ ClosedIsQuiet'
        /\ dispatch'.at \notin {"ending", "ended"}
        /\ \A i \in AcpId : TaskOf(tasks', i) + InHandOf(dispatch', i) = TaskOf(tasks, i) + (IF r.id = i THEN 1 ELSE 0)
    BY <2>l DEF TakenGoes
  <2>2. QueueTyped'
    BY <2>h
  <2>3. PromptsTyped'
    BY <2>m
  <2>4. MapTyped'
    BY ONLY <2>m DEF MapTyped
  <2>5. DispatchTyped'
    BY <2>m
  <2>6. FrameOwn'
    <3>1. writing' = writing
      BY <1>24 DEF Takes
    <3> QED BY ONLY <1>a, <2>m, <3>1 DEF FrameOwn
  <2>7. KidsHaveOwner'
    BY <1>a, <2>h, <2>m DEF KidsHaveOwner
  <2>8. TasksKnown' /\ OneTaskPerId' /\ ClosingWaits'
    BY <2>m
  <2>9. ClosedIsQuiet'
    BY <2>m
  <2>10. Owing'
    <3>1. \A i \in AcpId : QueueOf(acpQueue, i) = QueueOf(acpQueue', i) + (IF r.id = i THEN 1 ELSE 0)
      BY <1>a, <2>h, QueueShrinks DEF QueueTyped, r
    <3>2. \A i \in AcpId : InHandOf(dispatch, i) = 0
      BY ONLY <2>h DEF InHandOf, Busy
    <3>3. \A i \in AcpId : /\ owed[i] >= 0
                           /\ owed[i] = QueueOf(acpQueue, i) + TaskOf(tasks, i) + InHandOf(dispatch, i)
      BY ONLY <1>a, <2>h DEF Owing
    <3>4. \A i \in AcpId : /\ QueueOf(acpQueue', i) \in Nat /\ TaskOf(tasks, i) \in Nat
                           /\ TaskOf(tasks', i) \in Nat /\ InHandOf(dispatch', i) \in Nat
      BY <2>h, QueueCounts DEF TaskOf, InHandOf
    <3>5. \A i \in AcpId : owed[i] = QueueOf(acpQueue', i) + TaskOf(tasks', i) + InHandOf(dispatch', i)
      BY ONLY <2>m, <3>1, <3>2, <3>3, <3>4
    <3> QED BY ONLY <2>h, <3>3, <3>5 DEF Owing
  <2> QED BY <2>1, <2>2, <2>3, <2>4, <2>5, <2>6, <2>7, <2>8, <2>9, <2>10 DEF ConnInv
<1>25. ASSUME UNCHANGED connVars PROVE ConnInv'
  BY <1>b, <1>c, <1>d, <1>e, <1>f, <1>g, <1>h, <1>i, <1>j, <1>k, <1>l, <1>m, <1>n, <1>o, <1>25
     DEF connVars, ConnInv
<1>x. ASSUME NEW t \in DOMAIN tasks, \/ TaskBegins(t) \/ TaskWrites(t) \/ TaskWrote(t) \/ UsageStalls(t)
                                      \/ TaskSettles(t) \/ TaskLags(t) \/ TaskSkips(t)
      PROVE  ConnInv'
  BY <1>x, <1>7, <1>8, <1>9, <1>10, <1>11, <1>12, <1>13
<1>y. ASSUME AcpDispatcherSteps PROVE ConnInv'
  BY <1>y, <1>14, <1>15, <1>16, <1>17, <1>18, <1>19, <1>20, <1>21, <1>22, <1>23, <1>24
     DEF AcpDispatcherSteps
<1> QED
  BY <1>x, <1>y, <1>1, <1>2, <1>3, <1>4, <1>5, <1>6, <1>25 DEF ConnectionNext

LEMMA ConnHolds == ConnInv => NothingLeftBehind /\ ClosedIsQuiet /\ AnsweredOnce /\ TornIsLast
<1> SUFFICES ASSUME ConnInv PROVE NothingLeftBehind /\ ClosedIsQuiet /\ AnsweredOnce /\ TornIsLast
  OBVIOUS
<1>a. /\ QueueTyped /\ PromptsTyped /\ DispatchTyped /\ KidsTyped /\ KidsHaveOwner /\ TasksKnown
      /\ Owing /\ ClosedIsQuiet /\ TornIsLast
  BY DEF ConnInv
<1>1. dispatch.at = "ended" => Unfinished = {}
  <2> SUFFICES ASSUME dispatch.at = "ended", NEW t \in Unfinished PROVE FALSE
    OBVIOUS
  <2>1. DOMAIN tasks = 1 .. Len(tasks) /\ Len(tasks) \in Nat /\ t \in DOMAIN tasks /\ tasks[t] \in AcpTask
    BY <1>a DEF PromptsTyped, Unfinished
  <2>2. t # 0 /\ tasks[t].id \in AcpId
    BY <2>1 DEF AcpTask
  <2> QED BY ONLY <1>a, <2>2, dispatch.at = "ended", t \in Unfinished DEF TasksKnown
<1>2. NothingLeftBehind
  BY <1>a, <1>1 DEF NothingLeftBehind, KidsHaveOwner, KidsTyped, AcpSess
<1>3. AnsweredOnce
  <2>1. \A i \in AcpId : owed[i] >= 0
    BY <1>a DEF Owing
  <2>2. ASSUME stream = "open", acpQueue = <<>>, dispatch.at = "recv", Unfinished = {}
        PROVE  \A i \in AcpId : owed[i] = 0
    <3>1. \A i \in AcpId : QueueOf(acpQueue, i) = 0
      BY <1>a, <2>2, QueueCounts DEF QueueTyped
    <3>2. \A i \in AcpId : TaskOf(tasks, i) = 0 /\ InHandOf(dispatch, i) = 0
      BY <2>2 DEF TaskOf, InHandOf, Busy, Unfinished
    <3>3. \A i \in AcpId : owed[i] = QueueOf(acpQueue, i) + TaskOf(tasks, i) + InHandOf(dispatch, i)
      BY ONLY <1>a, <2>2 DEF Owing
    <3> QED BY ONLY <3>1, <3>2, <3>3
  <2> QED BY <2>1, <2>2 DEF AnsweredOnce
<1> QED BY <1>a, <1>2, <1>3

\* Every request a client of the connection sends is answered once, a close or
\* delete is answered when nothing of the session runs, no child outlives the
\* connection, and nothing is written after a frame that was cut off: the
\* dispatcher, the prompt tasks and the shared writer of dispatch_connection,
\* for any number of sessions, ids and requests.
THEOREM ConnectionIsClean ==
  ConnectionInit /\ [][ConnectionNext]_connVars
    => [](NothingLeftBehind /\ ClosedIsQuiet /\ AnsweredOnce /\ TornIsLast)
BY ConnStarts, ConnStays, ConnHolds, PTL

-----------------------------------------------------------------------------
(* A prompt and its dialogs.                                                   *)

DlgSteps == {"none", "starting", "sending", "asking", "answering", "ended"}

PromptTyped ==
    /\ told \in [Dlg -> {"", "allowed", "cancelled"}]
    /\ dialogs \in [Dlg -> {"unused", "open", "closed"}]
    /\ dlgTask \in [Dlg -> DlgSteps] /\ dlgPending \subseteq Dlg /\ requests \subseteq Dlg
    /\ result \in [Dlg -> Response \cup {Null}] /\ permitted \subseteq Dlg
    /\ promptNative \in {"starting", "running", "over"}
    /\ nativeResult \in {"", "rejected", "completed", "aborted", "closed-host", "killed"}
    /\ nativeResult # "" => promptNative = "over"
    /\ turn \in {"waiting", "over"} /\ turn = "waiting" => outcome = ""
    /\ accepted \in BOOLEAN /\ promptCancelled \in BOOLEAN

\* What a task got is what the client permitted.
ResultPermitted ==
    \A d \in Dlg : result[d].outcome = "selected" /\ result[d].offered => d \in permitted

\* A cancelled prompt has no dialog task under way.
CancelledIdle == promptCancelled => \A d \in Dlg : dlgTask[d] \in {"none", "ended"}

\* A settlement on its way is the run's own, or came before its acceptance.
EventsOwn ==
    /\ runEvents \in Seq(Event)
    /\ \A k \in DOMAIN runEvents :
         /\ runEvents[k].what = "completed" => nativeResult = "completed" \/ (k = 1 /\ ~accepted)
         /\ runEvents[k].what \in {"aborted", "rejected"} => nativeResult = runEvents[k].what

CommandsTyped == promptOut \in Seq(Command)

PromptInv ==
    /\ PromptTyped /\ ResultPermitted /\ CancelledIdle /\ EventsOwn /\ CommandsTyped
    /\ AllowedWasPermitted /\ PromptLeavesNothing /\ OutcomeIsOwn

LEMMA PromptStarts == PromptInit => PromptInv
<1> SUFFICES ASSUME PromptInit PROVE PromptInv
  OBVIOUS
<1>1. PromptTyped /\ ResultPermitted /\ CancelledIdle
  BY DEF PromptInit, PromptTyped, ResultPermitted, CancelledIdle, DlgSteps, Null
<1>2. EventsOwn
  <2>1. CASE runEvents = <<>>
    BY <2>1 DEF EventsOwn
  <2>2. CASE runEvents = <<[what |-> "completed"]>>
    <3>1. [what |-> "completed"] \in Event
      BY DEF Event
    <3> DEFINE e == [what |-> "completed"]
    <3>2. e \in Event /\ e.what = "completed"
      BY <3>1
    <3> HIDE DEF e
    <3>3. /\ <<e>> \in Seq(Event) /\ \A k \in DOMAIN <<e>> : k = 1 /\ <<e>>[k] = e
      BY <3>2
    <3>4. runEvents = <<e>> /\ accepted = FALSE
      BY <2>2 DEF e, PromptInit
    <3> QED BY <3>2, <3>3, <3>4 DEF EventsOwn
  <2> QED BY <2>1, <2>2 DEF PromptInit
<1>3. AllowedWasPermitted /\ PromptLeavesNothing /\ OutcomeIsOwn
  <2>1. promptOut = <<>> /\ told = [d \in Dlg |-> ""]
    BY DEF PromptInit
  <2>2. \A k \in DOMAIN promptOut : FALSE
    <3>1. promptOut = <<>>
      BY <2>1
    <3> QED BY ONLY <3>1
  <2>3. Granted = {}
    BY <2>1, <2>2 DEF Granted
  <2> QED BY <2>3 DEF PromptInit, AllowedWasPermitted, PromptLeavesNothing, OutcomeIsOwn
<1>4. CommandsTyped
  <2>1. promptOut = <<>>
    BY DEF PromptInit
  <2> QED BY <2>1 DEF CommandsTyped
<1> QED BY <1>1, <1>2, <1>3, <1>4 DEF PromptInv

(* An event of the run joins the others, or is lost.                           *)
LEMMA EventsGrow ==
  ASSUME EventsOwn, NEW e \in Event, Emits(e), accepted' = accepted,
         nativeResult' = nativeResult
           \/ (nativeResult = "" /\ \A k \in DOMAIN runEvents : runEvents[k].what \notin {"aborted", "rejected"}),
         e.what \in {"completed", "aborted", "rejected"} => nativeResult' = e.what
  PROVE  EventsOwn'
<1>1. CASE runEvents' = runEvents
  BY <1>1 DEF EventsOwn
<1>2. CASE runEvents' = Append(runEvents, e)
  <2>0. runEvents \in Seq(Event)
    BY DEF EventsOwn
  <2>1. runEvents' \in Seq(Event)
    BY <1>2, <2>0, AppendFacts
  <2>2. \A k \in DOMAIN runEvents' : (k \in DOMAIN runEvents /\ runEvents'[k] = runEvents[k])
                                     \/ runEvents'[k] = e
    <3> DEFINE q == Append(runEvents, e)
    <3>1. /\ q[Len(runEvents) + 1] = e
          /\ \A k \in DOMAIN runEvents : q[k] = runEvents[k]
          /\ \A k \in DOMAIN q : k \in DOMAIN runEvents \/ k = Len(runEvents) + 1
      <4>1. \A x \in Event, s \in Seq(Event) :
              /\ Append(s, x)[Len(s) + 1] = x
              /\ \A k \in DOMAIN s : Append(s, x)[k] = s[k]
              /\ \A k \in DOMAIN Append(s, x) : k \in DOMAIN s \/ k = Len(s) + 1
        BY ONLY AppendFacts
      <4>2. e \in Event
        OBVIOUS
      <4> QED BY ONLY <2>0, <4>1, <4>2 DEF q
    <3>2. runEvents' = q
      BY <1>2
    <3> HIDE DEF q
    <3> QED BY ONLY <3>1, <3>2
  <2>3. ASSUME NEW k \in DOMAIN runEvents'
        PROVE  /\ runEvents'[k].what = "completed" => nativeResult' = "completed" \/ (k = 1 /\ ~accepted')
               /\ runEvents'[k].what \in {"aborted", "rejected"} => nativeResult' = runEvents'[k].what
    <3>1. CASE runEvents'[k] = e
      BY <3>1
    <3>2. CASE k \in DOMAIN runEvents /\ runEvents'[k] = runEvents[k]
      BY <3>2 DEF EventsOwn
    <3> QED BY <2>2, <3>1, <3>2
  <2> QED BY <2>1, <2>3 DEF EventsOwn
<1> QED BY <1>1, <1>2 DEF Emits

(* A command that is queued grants what it says, and nothing else.             *)
LEMMA CommandQueued ==
  ASSUME CommandsTyped, NEW c \in Command, Queues(c), told' = told
  PROVE  /\ CommandsTyped'
         /\ \A d \in Granted' : d \in Granted \/ (c.what = "allowed" /\ c.d = d)
<1>1. promptOut \in Seq(Command)
  BY DEF CommandsTyped
<1>2. CASE promptOut' = promptOut
  BY <1>1, <1>2 DEF CommandsTyped, Granted
<1>3. CASE promptOut' = Append(promptOut, c)
  <2> DEFINE q == Append(promptOut, c)
  <2>1. q \in Seq(Command)
    BY <1>1
  <2>2. \A k \in DOMAIN q : (k \in DOMAIN promptOut /\ q[k] = promptOut[k]) \/ q[k] = c
    BY <1>1
  <2>3. promptOut' = q
    BY <1>3
  <2> HIDE DEF q
  <2>4. ASSUME NEW d \in Granted' PROVE d \in Granted \/ (c.what = "allowed" /\ c.d = d)
    <3>1. d \in Dlg /\ (told[d] = "allowed" \/ \E k \in DOMAIN q : q[k] = [what |-> "allowed", d |-> d])
      BY <2>3, <2>4 DEF Granted
    <3>2. CASE told[d] = "allowed"
      BY <3>1, <3>2 DEF Granted
    <3>3. ASSUME NEW k \in DOMAIN q, q[k] = [what |-> "allowed", d |-> d]
          PROVE  d \in Granted \/ (c.what = "allowed" /\ c.d = d)
      BY <2>2, <3>1, <3>3 DEF Granted
    <3> QED BY <3>1, <3>2, <3>3
  <2> QED BY <2>1, <2>3, <2>4 DEF CommandsTyped
<1> QED BY <1>2, <1>3 DEF Queues

(* What the native reads was granted before.                                   *)
LEMMA CommandRead ==
  ASSUME CommandsTyped, told \in [Dlg -> {"", "allowed", "cancelled"}], NativeReads
  PROVE  CommandsTyped' /\ Granted' \subseteq Granted
<1>1. /\ promptOut \in Seq(Command) /\ promptOut # <<>> /\ promptOut' = Tail(promptOut)
  BY DEF CommandsTyped, NativeReads
<1>2. /\ Head(promptOut) = promptOut[1] /\ 1 \in DOMAIN promptOut /\ promptOut[1] \in Command
      /\ Tail(promptOut) \in Seq(Command)
      /\ \A k \in DOMAIN Tail(promptOut) : k + 1 \in DOMAIN promptOut /\ Tail(promptOut)[k] = promptOut[k + 1]
  BY <1>1, TailFacts
<1>3. ASSUME NEW d \in Granted' PROVE d \in Granted
  <2>1. d \in Dlg /\ (told'[d] = "allowed" \/ \E k \in DOMAIN promptOut' : promptOut'[k] = [what |-> "allowed", d |-> d])
    BY <1>3 DEF Granted
  <2>2. ASSUME NEW k \in DOMAIN promptOut', promptOut'[k] = [what |-> "allowed", d |-> d] PROVE d \in Granted
    BY <1>1, <1>2, <2>1, <2>2 DEF Granted
  <2>3. ASSUME told'[d] = "allowed", told[d] # "allowed" PROVE d \in Granted
    <3> DEFINE h == Head(promptOut)
    <3>0. \/ told' = told
          \/ /\ h.what # "abort"
             /\ \/ told' = told
                \/ told' = [told EXCEPT ![h.d] = h.what]
      BY DEF NativeReads, Tells
    <3>1. h.what # "abort" /\ h.d = d /\ h.what = "allowed"
      BY <2>1, <2>3, <3>0, told \in [Dlg -> {"", "allowed", "cancelled"}]
    <3>2. h \in Command /\ h = promptOut[1]
      BY <1>2
    <3> HIDE DEF h
    <3>3. h = [what |-> "allowed", d |-> d]
      BY <3>1, <3>2 DEF Command
    <3> QED BY <1>2, <2>1, <3>2, <3>3 DEF Granted
  <2>4. told[d] = "allowed" => d \in Granted
    BY <2>1 DEF Granted
  <2> QED BY <2>1, <2>2, <2>3, <2>4
<1> QED BY <1>1, <1>2, <1>3 DEF CommandsTyped

LEMMA PromptStays ==
  PromptInv /\ [PromptNext]_promptVars
    => PromptInv' /\ (promptCancelled => Granted' \subseteq Granted)
<1> DEFINE Held == promptCancelled => Granted' \subseteq Granted
<1> SUFFICES ASSUME PromptInv, [PromptNext]_promptVars PROVE PromptInv' /\ Held
  OBVIOUS
<1>a. /\ PromptTyped /\ ResultPermitted /\ CancelledIdle /\ EventsOwn /\ CommandsTyped
      /\ AllowedWasPermitted /\ PromptLeavesNothing /\ OutcomeIsOwn
  BY DEF PromptInv
<1>b. ASSUME UNCHANGED <<runEvents, nativeResult, accepted>> PROVE EventsOwn'
  BY <1>a, <1>b DEF EventsOwn
<1>c. ASSUME told' = told, promptOut' = promptOut \/ promptOut' = <<>>, permitted \subseteq permitted'
      PROVE  AllowedWasPermitted' /\ CommandsTyped' /\ Held
  <2>1. Granted' \subseteq Granted
    <3>1. promptOut' = <<>> => \A k \in DOMAIN promptOut' : FALSE
      OBVIOUS
    <3> QED BY <1>c, <3>1 DEF Granted
  <2>2. CommandsTyped'
    <3>1. CASE promptOut' = promptOut
      BY <1>a, <3>1 DEF CommandsTyped
    <3>2. CASE promptOut' = <<>>
      BY <3>2 DEF CommandsTyped
    <3> QED BY <1>c, <3>1, <3>2
  <2> QED BY <1>a, <1>c, <2>1, <2>2 DEF AllowedWasPermitted
<1>1. ASSUME NEW ok \in BOOLEAN, PromptNativeStarts(ok) PROVE PromptInv' /\ Held
  <2>1. PromptTyped'
    BY <1>a, <1>1
       DEF PromptTyped, DlgSteps, Response, Null, PromptNativeStarts, nativeVars, turnVars,
           taskVars
  <2>2. ResultPermitted'
    BY <1>a, <1>1
       DEF PromptTyped, ResultPermitted, PromptNativeStarts, nativeVars, turnVars, taskVars
  <2>3. CancelledIdle'
    BY <1>a, <1>1
       DEF PromptTyped, CancelledIdle, DlgSteps, PromptNativeStarts, nativeVars, turnVars,
           taskVars
  <2>4. EventsOwn'
    <3>1. [what |-> IF ok THEN "accepted" ELSE "rejected"] \in Event
      BY <1>1 DEF Event
    <3>2. Emits([what |-> IF ok THEN "accepted" ELSE "rejected"])
      BY <1>1 DEF PromptNativeStarts
    <3> QED BY <1>a, <1>1, <3>1, <3>2, EventsGrow
       DEF PromptNativeStarts, PromptTyped, EventsOwn, turnVars
  <2>5. AllowedWasPermitted' /\ CommandsTyped' /\ Held
    BY <1>c, <1>1 DEF PromptNativeStarts, nativeVars
  <2>6. PromptLeavesNothing'
    BY <1>a, <1>1
       DEF PromptTyped, PromptLeavesNothing, PromptNativeStarts, nativeVars, turnVars, taskVars
  <2>7. OutcomeIsOwn'
    BY <1>a, <1>1 DEF PromptTyped, OutcomeIsOwn, PromptNativeStarts, nativeVars, turnVars, taskVars
  <2> QED BY <2>1, <2>2, <2>3, <2>4, <2>5, <2>6, <2>7 DEF PromptInv
<1>2. ASSUME NEW d \in Dlg, NativeAsks(d) PROVE PromptInv' /\ Held
  <2>1. PromptTyped'
    BY <1>a, <1>2
       DEF PromptTyped, DlgSteps, Response, Null, NativeAsks, nativeVars, turnVars, taskVars
  <2>2. ResultPermitted'
    BY <1>a, <1>2 DEF PromptTyped, ResultPermitted, NativeAsks, nativeVars, turnVars, taskVars
  <2>3. CancelledIdle'
    BY <1>a, <1>2
       DEF PromptTyped, CancelledIdle, DlgSteps, NativeAsks, nativeVars, turnVars, taskVars
  <2>4. EventsOwn'
    <3>1. [what |-> "ask", d |-> d] \in Event
      BY <1>2 DEF Event
    <3>2. Emits([what |-> "ask", d |-> d])
      BY <1>2 DEF NativeAsks
    <3> QED BY <1>a, <1>2, <3>1, <3>2, EventsGrow DEF NativeAsks, PromptTyped, EventsOwn, turnVars
  <2>5. AllowedWasPermitted' /\ CommandsTyped' /\ Held
    BY <1>c, <1>2 DEF NativeAsks, nativeVars
  <2>6. PromptLeavesNothing'
    BY <1>a, <1>2 DEF PromptTyped, PromptLeavesNothing, NativeAsks, nativeVars, turnVars, taskVars
  <2>7. OutcomeIsOwn'
    BY <1>a, <1>2 DEF PromptTyped, OutcomeIsOwn, NativeAsks, nativeVars, turnVars, taskVars
  <2> QED BY <2>1, <2>2, <2>3, <2>4, <2>5, <2>6, <2>7 DEF PromptInv
<1>3. ASSUME NEW d \in Dlg, NativeCloses(d) PROVE PromptInv' /\ Held
  <2>1. PromptTyped'
    BY <1>a, <1>3
       DEF PromptTyped, DlgSteps, Response, Null, NativeCloses, nativeVars, turnVars, taskVars
  <2>2. ResultPermitted'
    BY <1>a, <1>3 DEF PromptTyped, ResultPermitted, NativeCloses, nativeVars, turnVars, taskVars
  <2>3. CancelledIdle'
    BY <1>a, <1>3
       DEF PromptTyped, CancelledIdle, DlgSteps, NativeCloses, nativeVars, turnVars, taskVars
  <2>4. EventsOwn'
    <3>1. [what |-> "close", d |-> d] \in Event
      BY <1>3 DEF Event
    <3>2. Emits([what |-> "close", d |-> d])
      BY <1>3 DEF NativeCloses
    <3> QED BY <1>a, <1>3, <3>1, <3>2, EventsGrow DEF NativeCloses, PromptTyped, EventsOwn, turnVars
  <2>5. AllowedWasPermitted' /\ CommandsTyped' /\ Held
    BY <1>c, <1>3 DEF NativeCloses, nativeVars
  <2>6. PromptLeavesNothing'
    BY <1>a, <1>3 DEF PromptTyped, PromptLeavesNothing, NativeCloses, nativeVars, turnVars, taskVars
  <2>7. OutcomeIsOwn'
    BY <1>a, <1>3 DEF PromptTyped, OutcomeIsOwn, NativeCloses, nativeVars, turnVars, taskVars
  <2> QED BY <2>1, <2>2, <2>3, <2>4, <2>5, <2>6, <2>7 DEF PromptInv
<1>4. ASSUME NEW how \in {"completed", "aborted", "closed-host"}, NativeSettles(how)
      PROVE  PromptInv' /\ Held
  <2>1. PromptTyped'
    BY <1>a, <1>4
       DEF PromptTyped, DlgSteps, Response, Null, NativeSettles, nativeVars, turnVars, taskVars
  <2>2. ResultPermitted'
    BY <1>a, <1>4 DEF PromptTyped, ResultPermitted, NativeSettles, nativeVars, turnVars, taskVars
  <2>3. CancelledIdle'
    BY <1>a, <1>4
       DEF PromptTyped, CancelledIdle, DlgSteps, NativeSettles, nativeVars, turnVars, taskVars
  <2>4. EventsOwn'
    <3>1. [what |-> how] \in Event
      BY <1>4 DEF Event
    <3>2. Emits([what |-> how])
      BY <1>4 DEF NativeSettles
    <3> QED BY <1>a, <1>4, <3>1, <3>2, EventsGrow
       DEF NativeSettles, PromptTyped, EventsOwn, turnVars
  <2>5. AllowedWasPermitted' /\ CommandsTyped' /\ Held
    BY <1>c, <1>4 DEF NativeSettles, nativeVars
  <2>6. PromptLeavesNothing'
    BY <1>a, <1>4
       DEF PromptTyped, PromptLeavesNothing, NativeSettles, nativeVars, turnVars, taskVars
  <2>7. OutcomeIsOwn'
    BY <1>a, <1>4 DEF PromptTyped, OutcomeIsOwn, NativeSettles, nativeVars, turnVars, taskVars
  <2> QED BY <2>1, <2>2, <2>3, <2>4, <2>5, <2>6, <2>7 DEF PromptInv
<1>5. ASSUME CancelAsked PROVE PromptInv' /\ Held
  <2>1. PromptTyped'
    BY <1>a, <1>5
       DEF PromptTyped, DlgSteps, Response, Null, CancelAsked, nativeVars, turnVars, taskVars
  <2>2. ResultPermitted'
    BY <1>a, <1>5 DEF PromptTyped, ResultPermitted, CancelAsked, nativeVars, turnVars, taskVars
  <2>3. CancelledIdle'
    BY <1>a, <1>5
       DEF PromptTyped, CancelledIdle, DlgSteps, CancelAsked, nativeVars, turnVars, taskVars
  <2>4. EventsOwn'
    BY <1>b, <1>5 DEF CancelAsked, nativeVars, turnVars, taskVars
  <2>5. AllowedWasPermitted' /\ CommandsTyped' /\ Held
    BY <1>c, <1>5 DEF CancelAsked, nativeVars
  <2>6. PromptLeavesNothing'
    BY <1>a, <1>5 DEF PromptTyped, PromptLeavesNothing, CancelAsked, nativeVars, turnVars, taskVars
  <2>7. OutcomeIsOwn'
    BY <1>a, <1>5 DEF PromptTyped, OutcomeIsOwn, CancelAsked, nativeVars, turnVars, taskVars
  <2> QED BY <2>1, <2>2, <2>3, <2>4, <2>5, <2>6, <2>7 DEF PromptInv
<1>6. ASSUME NEW d \in Dlg, TaskAsks(d) PROVE PromptInv' /\ Held
  <2>1. PromptTyped'
    BY <1>a, <1>6
       DEF PromptTyped, DlgSteps, Response, Null, TaskAsks, nativeVars, turnVars, taskVars
  <2>2. ResultPermitted'
    BY <1>a, <1>6 DEF PromptTyped, ResultPermitted, TaskAsks, nativeVars, turnVars, taskVars
  <2>3. CancelledIdle'
    BY <1>a, <1>6 DEF PromptTyped, CancelledIdle, DlgSteps, TaskAsks, nativeVars, turnVars, taskVars
  <2>4. EventsOwn'
    BY <1>b, <1>6 DEF TaskAsks, nativeVars, turnVars, taskVars
  <2>5. AllowedWasPermitted' /\ CommandsTyped' /\ Held
    BY <1>c, <1>6 DEF TaskAsks, nativeVars
  <2>6. PromptLeavesNothing'
    BY <1>a, <1>6 DEF PromptTyped, PromptLeavesNothing, TaskAsks, nativeVars, turnVars, taskVars
  <2>7. OutcomeIsOwn'
    BY <1>a, <1>6 DEF PromptTyped, OutcomeIsOwn, TaskAsks, nativeVars, turnVars, taskVars
  <2> QED BY <2>1, <2>2, <2>3, <2>4, <2>5, <2>6, <2>7 DEF PromptInv
<1>7. ASSUME NEW d \in Dlg, RequestSent(d) PROVE PromptInv' /\ Held
  <2>1. PromptTyped'
    BY <1>a, <1>7
       DEF PromptTyped, DlgSteps, Response, Null, RequestSent, nativeVars, turnVars, taskVars
  <2>2. ResultPermitted'
    BY <1>a, <1>7 DEF PromptTyped, ResultPermitted, RequestSent, nativeVars, turnVars, taskVars
  <2>3. CancelledIdle'
    BY <1>a, <1>7
       DEF PromptTyped, CancelledIdle, DlgSteps, RequestSent, nativeVars, turnVars, taskVars
  <2>4. EventsOwn'
    BY <1>b, <1>7 DEF RequestSent, nativeVars, turnVars, taskVars
  <2>5. AllowedWasPermitted' /\ CommandsTyped' /\ Held
    BY <1>c, <1>7 DEF RequestSent, nativeVars
  <2>6. PromptLeavesNothing'
    BY <1>a, <1>7 DEF PromptTyped, PromptLeavesNothing, RequestSent, nativeVars, turnVars, taskVars
  <2>7. OutcomeIsOwn'
    BY <1>a, <1>7 DEF PromptTyped, OutcomeIsOwn, RequestSent, nativeVars, turnVars, taskVars
  <2> QED BY <2>1, <2>2, <2>3, <2>4, <2>5, <2>6, <2>7 DEF PromptInv
<1>8. ASSUME NEW d \in Dlg, NEW r \in Response, ClientResponds(d, r) PROVE PromptInv' /\ Held
  <2>1. PromptTyped'
    BY <1>a, <1>8
       DEF PromptTyped, DlgSteps, Response, Null, ClientResponds, nativeVars, turnVars, taskVars
  <2>2. ResultPermitted'
    BY <1>a, <1>8 DEF PromptTyped, ResultPermitted, ClientResponds, nativeVars, turnVars, taskVars
  <2>3. CancelledIdle'
    BY <1>a, <1>8
       DEF PromptTyped, CancelledIdle, DlgSteps, ClientResponds, nativeVars, turnVars, taskVars
  <2>4. EventsOwn'
    BY <1>b, <1>8 DEF ClientResponds, nativeVars, turnVars, taskVars
  <2>5. AllowedWasPermitted' /\ CommandsTyped' /\ Held
    BY <1>c, <1>8 DEF ClientResponds, nativeVars
  <2>6. PromptLeavesNothing'
    BY <1>a, <1>8
       DEF PromptTyped, PromptLeavesNothing, ClientResponds, nativeVars, turnVars, taskVars
  <2>7. OutcomeIsOwn'
    BY <1>a, <1>8 DEF PromptTyped, OutcomeIsOwn, ClientResponds, nativeVars, turnVars, taskVars
  <2> QED BY <2>1, <2>2, <2>3, <2>4, <2>5, <2>6, <2>7 DEF PromptInv
<1>9. ASSUME NEW d \in Dlg, RequestGivenUp(d) PROVE PromptInv' /\ Held
  <2>1. PromptTyped'
    BY <1>a, <1>9
       DEF PromptTyped, DlgSteps, Response, Null, RequestGivenUp, PromptGivenUp, nativeVars,
           turnVars, taskVars
  <2>2. ResultPermitted'
    BY <1>a, <1>9
       DEF PromptTyped, ResultPermitted, RequestGivenUp, PromptGivenUp, nativeVars, turnVars,
           taskVars
  <2>3. CancelledIdle'
    BY <1>a, <1>9
       DEF PromptTyped, CancelledIdle, DlgSteps, RequestGivenUp, PromptGivenUp, nativeVars,
           turnVars, taskVars
  <2>4. EventsOwn'
    BY <1>b, <1>9 DEF RequestGivenUp, PromptGivenUp, nativeVars, turnVars, taskVars
  <2>5. AllowedWasPermitted' /\ CommandsTyped' /\ Held
    BY <1>c, <1>9 DEF RequestGivenUp, nativeVars
  <2>6. PromptLeavesNothing'
    BY <1>a, <1>9
       DEF PromptTyped, PromptLeavesNothing, RequestGivenUp, PromptGivenUp, nativeVars, turnVars,
           taskVars
  <2>7. OutcomeIsOwn'
    BY <1>a, <1>9
       DEF PromptTyped, OutcomeIsOwn, RequestGivenUp, PromptGivenUp, nativeVars, turnVars,
           taskVars
  <2> QED BY <2>1, <2>2, <2>3, <2>4, <2>5, <2>6, <2>7 DEF PromptInv
<1>10. ASSUME NEW d \in Dlg, TaskAnswers(d) PROVE PromptInv' /\ Held
  <2>1. PromptTyped'
    BY <1>a, <1>10
       DEF PromptTyped, DlgSteps, Response, Null, TaskAnswers, Queues, ReadAnswer, nativeVars,
           turnVars, taskVars
  <2>2. ResultPermitted'
    BY <1>a, <1>10
       DEF PromptTyped, ResultPermitted, Null, TaskAnswers, Queues, ReadAnswer, nativeVars, turnVars,
           taskVars
  <2>3. CancelledIdle'
    BY <1>a, <1>10
       DEF PromptTyped, CancelledIdle, DlgSteps, TaskAnswers, Queues, ReadAnswer, nativeVars,
           turnVars, taskVars
  <2>4. EventsOwn'
    BY <1>b, <1>10 DEF TaskAnswers, Queues, ReadAnswer, nativeVars, turnVars, taskVars
  <2>5. AllowedWasPermitted' /\ CommandsTyped' /\ Held
    <3> DEFINE c == [what |-> ReadAnswer(result[d]), d |-> d]
    <3>1. /\ c \in Command /\ c.d = d /\ (c.what = "allowed" => d \in permitted)
      BY <1>a, <1>10 DEF ReadAnswer, Command, ResultPermitted
    <3>2. /\ Queues(c) /\ told' = told /\ permitted' = permitted /\ ~promptCancelled
      BY <1>a, <1>10 DEF TaskAnswers, nativeVars, CancelledIdle
    <3> HIDE DEF c
    <3>3. CommandsTyped' /\ \A x \in Granted' : x \in Granted \/ x \in permitted
      BY <1>a, <3>1, <3>2, CommandQueued
    <3> QED BY <1>a, <3>2, <3>3 DEF AllowedWasPermitted
  <2>6. PromptLeavesNothing'
    BY <1>a, <1>10
       DEF PromptTyped, PromptLeavesNothing, TaskAnswers, Queues, ReadAnswer, nativeVars, turnVars,
           taskVars
  <2>7. OutcomeIsOwn'
    BY <1>a, <1>10
       DEF PromptTyped, OutcomeIsOwn, TaskAnswers, Queues, ReadAnswer, nativeVars, turnVars,
           taskVars
  <2> QED BY <2>1, <2>2, <2>3, <2>4, <2>5, <2>6, <2>7 DEF PromptInv
<1>11. ASSUME NEW d \in Dlg, TaskJoined(d) PROVE PromptInv' /\ Held
  <2>1. PromptTyped'
    BY <1>a, <1>11
       DEF PromptTyped, DlgSteps, Response, Null, TaskJoined, nativeVars, turnVars, taskVars
  <2>2. ResultPermitted'
    BY <1>a, <1>11 DEF PromptTyped, ResultPermitted, TaskJoined, nativeVars, turnVars, taskVars
  <2>3. CancelledIdle'
    BY <1>a, <1>11
       DEF PromptTyped, CancelledIdle, DlgSteps, TaskJoined, nativeVars, turnVars, taskVars
  <2>4. EventsOwn'
    BY <1>b, <1>11 DEF TaskJoined, nativeVars, turnVars, taskVars
  <2>5. AllowedWasPermitted' /\ CommandsTyped' /\ Held
    BY <1>c, <1>11 DEF TaskJoined, nativeVars
  <2>6. PromptLeavesNothing'
    BY <1>a, <1>11 DEF PromptTyped, PromptLeavesNothing, TaskJoined, nativeVars, turnVars, taskVars
  <2>7. OutcomeIsOwn'
    BY <1>a, <1>11 DEF PromptTyped, OutcomeIsOwn, TaskJoined, nativeVars, turnVars, taskVars
  <2> QED BY <2>1, <2>2, <2>3, <2>4, <2>5, <2>6, <2>7 DEF PromptInv
<1>12. ASSUME ClientGone PROVE PromptInv' /\ Held
  <2>1. PromptTyped'
    BY <1>a, <1>12
       DEF PromptTyped, DlgSteps, Response, Null, ClientGone, nativeVars, turnVars, taskVars
  <2>2. ResultPermitted'
    BY <1>a, <1>12 DEF PromptTyped, ResultPermitted, ClientGone, nativeVars, turnVars, taskVars
  <2>3. CancelledIdle'
    BY <1>a, <1>12
       DEF PromptTyped, CancelledIdle, DlgSteps, ClientGone, nativeVars, turnVars, taskVars
  <2>4. EventsOwn'
    BY <1>b, <1>12 DEF ClientGone, nativeVars, turnVars, taskVars
  <2>5. AllowedWasPermitted' /\ CommandsTyped' /\ Held
    BY <1>c, <1>12 DEF ClientGone, nativeVars
  <2>6. PromptLeavesNothing'
    BY <1>a, <1>12 DEF PromptTyped, PromptLeavesNothing, ClientGone, nativeVars, turnVars, taskVars
  <2>7. OutcomeIsOwn'
    BY <1>a, <1>12 DEF PromptTyped, OutcomeIsOwn, ClientGone, nativeVars, turnVars, taskVars
  <2> QED BY <2>1, <2>2, <2>3, <2>4, <2>5, <2>6, <2>7 DEF PromptInv
<1>13. ASSUME SeesCancel PROVE PromptInv' /\ Held
  <2>1. PromptTyped'
    BY <1>a, <1>13
       DEF PromptTyped, DlgSteps, Response, Null, SeesCancel, Abort, nativeVars, turnVars,
           taskVars
  <2>2. ResultPermitted'
    BY <1>a, <1>13
       DEF PromptTyped, ResultPermitted, Null, SeesCancel, Abort, nativeVars, turnVars, taskVars
  <2>3. CancelledIdle'
    BY <1>a, <1>13
       DEF PromptTyped, CancelledIdle, DlgSteps, SeesCancel, Abort, nativeVars, turnVars, taskVars
  <2>4. EventsOwn'
    BY <1>b, <1>13 DEF SeesCancel, Abort, nativeVars, turnVars, taskVars
  <2>5. AllowedWasPermitted' /\ CommandsTyped' /\ Held
    BY <1>c, <1>13 DEF SeesCancel, nativeVars
  <2>6. PromptLeavesNothing'
    BY <1>a, <1>13
       DEF PromptTyped, PromptLeavesNothing, SeesCancel, Abort, nativeVars, turnVars, taskVars
  <2>7. OutcomeIsOwn'
    BY <1>a, <1>13 DEF PromptTyped, OutcomeIsOwn, SeesCancel, Abort, nativeVars, turnVars, taskVars
  <2> QED BY <2>1, <2>2, <2>3, <2>4, <2>5, <2>6, <2>7 DEF PromptInv
<1>14. ASSUME SeesLag PROVE PromptInv' /\ Held
  <2>1. PromptTyped'
    BY <1>a, <1>14
       DEF PromptTyped, DlgSteps, Response, Null, SeesLag, PromptOver, AtEnd, Abort, nativeVars,
           turnVars, taskVars
  <2>2. ResultPermitted'
    BY <1>a, <1>14
       DEF PromptTyped, ResultPermitted, Null, SeesLag, PromptOver, AtEnd, Abort, nativeVars, turnVars,
           taskVars
  <2>3. CancelledIdle'
    BY <1>a, <1>14
       DEF PromptTyped, CancelledIdle, DlgSteps, SeesLag, PromptOver, AtEnd, Abort, nativeVars,
           turnVars, taskVars
  <2>4. EventsOwn'
    BY <1>a, <1>14 DEF EventsOwn, SeesLag
  <2>5. AllowedWasPermitted' /\ CommandsTyped' /\ Held
    BY <1>c, <1>14 DEF SeesLag, nativeVars
  <2>6. PromptLeavesNothing'
    BY <1>a, <1>14
       DEF PromptTyped, PromptLeavesNothing, SeesLag, PromptOver, AtEnd, Abort, nativeVars,
           turnVars, taskVars
  <2>7. OutcomeIsOwn'
    BY <1>a, <1>14
       DEF PromptTyped, OutcomeIsOwn, SeesLag, PromptOver, AtEnd, Abort, nativeVars, turnVars,
           taskVars
  <2> QED BY <2>1, <2>2, <2>3, <2>4, <2>5, <2>6, <2>7 DEF PromptInv
<1>15. ASSUME NativeReads PROVE PromptInv' /\ Held
  <2>1. PromptTyped'
    <3>1. promptOut \in Seq(Command) /\ promptOut # <<>>
      BY <1>a, <1>15 DEF CommandsTyped, NativeReads
    <3>2. Head(promptOut) \in Command
      BY <3>1, TailFacts
    <3> DEFINE h == Head(promptOut)
    <3>3. h.what = "abort" \/ (h.what \in {"allowed", "cancelled"} /\ h.d \in Dlg)
      BY <3>2 DEF Command
    <3>4. /\ \/ UNCHANGED <<told, dialogs>>
             \/ h.what # "abort" /\ Tells(h.d, h.what)
          /\ UNCHANGED <<promptNative, nativeResult, turnVars, taskVars, permitted>>
      BY <1>15 DEF NativeReads
    <3> HIDE DEF h
    <3> QED BY <1>a, <3>3, <3>4 DEF PromptTyped, DlgSteps, Response, Null, Tells, turnVars, taskVars
  <2>2. ResultPermitted'
    BY <1>a, <1>15 DEF ResultPermitted, NativeReads, taskVars
  <2>3. CancelledIdle'
    BY <1>a, <1>15 DEF CancelledIdle, NativeReads, turnVars, taskVars
  <2>4. EventsOwn'
    BY <1>b, <1>15 DEF NativeReads, turnVars
  <2>5. AllowedWasPermitted' /\ CommandsTyped' /\ Held
    <3>1. permitted' = permitted
      BY <1>15 DEF NativeReads
    <3> QED BY <1>a, <1>15, <3>1, CommandRead DEF AllowedWasPermitted, PromptTyped
  <2>6. PromptLeavesNothing'
    BY <1>a, <1>15 DEF PromptLeavesNothing, NativeReads, turnVars, taskVars
  <2>7. OutcomeIsOwn'
    BY <1>a, <1>15 DEF OutcomeIsOwn, NativeReads, turnVars
  <2> QED BY <2>1, <2>2, <2>3, <2>4, <2>5, <2>6, <2>7 DEF PromptInv
<1>16. ASSUME AbortQueued PROVE PromptInv' /\ Held
  <2>1. PromptTyped'
    BY <1>a, <1>16 DEF PromptTyped, DlgSteps, Response, Null, AbortQueued, nativeVars, turnVars, taskVars
  <2>2. ResultPermitted'
    BY <1>a, <1>16 DEF ResultPermitted, AbortQueued, taskVars
  <2>3. CancelledIdle'
    BY <1>a, <1>16 DEF CancelledIdle, AbortQueued, turnVars, taskVars
  <2>4. EventsOwn'
    BY <1>b, <1>16 DEF AbortQueued, nativeVars, turnVars
  <2>5. AllowedWasPermitted' /\ CommandsTyped' /\ Held
    <3> DEFINE c == [what |-> "abort"]
    <3>1. c \in Command /\ c.what # "allowed"
      BY DEF Command
    <3>2. Queues(c) /\ told' = told /\ permitted' = permitted
      BY <1>16 DEF AbortQueued, nativeVars
    <3> HIDE DEF c
    <3> QED BY <1>a, <3>1, <3>2, CommandQueued DEF AllowedWasPermitted
  <2>6. PromptLeavesNothing'
    BY <1>a, <1>16 DEF PromptLeavesNothing, AbortQueued, turnVars, taskVars
  <2>7. OutcomeIsOwn'
    BY <1>a, <1>16 DEF OutcomeIsOwn, AbortQueued, nativeVars, turnVars
  <2> QED BY <2>1, <2>2, <2>3, <2>4, <2>5, <2>6, <2>7 DEF PromptInv
<1>20. CASE TakesEvent
  <2> DEFINE e == Head(runEvents)
  <2>0. /\ turn = "waiting" /\ runEvents # <<>> /\ runEvents' = Tail(runEvents)
        /\ accepted' = (accepted \/ e.what = "accepted")
        /\ UNCHANGED <<promptNative, nativeResult, dialogs, told, lagged, promptCancelled, permitted>>
    BY <1>20 DEF TakesEvent, nativeVars
  <2>a. /\ e \in Event /\ e = runEvents[1] /\ 1 \in DOMAIN runEvents
        /\ runEvents' \in Seq(Event)
        /\ \A k \in DOMAIN runEvents' : k + 1 \in DOMAIN runEvents /\ runEvents'[k] = runEvents[k + 1]
                                         /\ k + 1 # 1
    BY <1>a, <2>0 DEF EventsOwn
  <2>4. EventsOwn'
    BY <1>a, <2>0, <2>a DEF EventsOwn
  <2>b. \/ Outcome(e) # "" /\ PromptOver(Outcome(e)) /\ UNCHANGED promptOut
        \/ /\ e.what = "ask" /\ Refused /\ Queues([what |-> "cancelled", d |-> e.d])
           /\ UNCHANGED <<turn, outcome, taskVars, clientStream>>
        \/ /\ e.what = "ask" /\ ~Refused /\ e.d \notin dlgPending
           /\ dlgTask' = [dlgTask EXCEPT ![e.d] = "starting"] /\ dlgPending' = dlgPending \cup {e.d}
           /\ UNCHANGED <<turn, outcome, promptOut, requests, result, clientStream>>
        \/ /\ e.what = "close" /\ Abort({e.d} \cap dlgPending)
           /\ UNCHANGED <<turn, outcome, promptOut>>
        \/ UNCHANGED <<turn, outcome, promptOut, taskVars, clientStream>>
    BY <1>20 DEF TakesEvent
  <2>c. e.what \in {"ask", "close"} => e.d \in Dlg
    BY <2>a DEF Event
  <2>e. /\ Outcome(e) = "end_turn" => nativeResult = "completed"
        /\ Outcome(e) = "cancelled" => nativeResult \in {"aborted", "rejected"}
    <3>1. Outcome(e) = "end_turn" => e.what = "completed" /\ accepted
      BY DEF Outcome
    <3>2. Outcome(e) = "cancelled" => e.what \in {"aborted", "rejected"}
      BY DEF Outcome
    <3> QED BY <1>a, <2>a, <3>1, <3>2 DEF EventsOwn
  <2> HIDE DEF e
  <2>11. ASSUME Outcome(e) # "", PromptOver(Outcome(e)), UNCHANGED promptOut
        PROVE  PromptInv' /\ Held
    <3>1. PromptTyped'
      BY <1>a, <2>0, <2>c, <2>e, <2>11
         DEF PromptTyped, DlgSteps, Response, Null, taskVars, PromptOver, AtEnd, Abort
    <3>2. ResultPermitted'
      BY <1>a, <2>0, <2>c, <2>e, <2>11
         DEF PromptTyped, ResultPermitted, Null, taskVars, PromptOver, AtEnd, Abort
    <3>3. CancelledIdle'
      BY <1>a, <2>0, <2>c, <2>e, <2>11
         DEF PromptTyped, CancelledIdle, DlgSteps, taskVars, PromptOver, AtEnd, Abort
    <3>4. AllowedWasPermitted' /\ CommandsTyped' /\ Held
      BY <1>c, <2>0, <2>11
    <3>5. PromptLeavesNothing'
      BY <1>a, <2>0, <2>c, <2>e, <2>11
         DEF PromptTyped, PromptLeavesNothing, taskVars, PromptOver, AtEnd, Abort
    <3>6. OutcomeIsOwn'
      BY <1>a, <2>0, <2>c, <2>e, <2>11
         DEF PromptTyped, OutcomeIsOwn, taskVars, PromptOver, AtEnd, Abort
    <3> QED BY <2>4, <3>1, <3>2, <3>3, <3>4, <3>5, <3>6 DEF PromptInv
  <2>12. ASSUME e.what = "ask", Refused, Queues([what |-> "cancelled", d |-> e.d]),
               UNCHANGED <<turn, outcome, taskVars, clientStream>>
        PROVE  PromptInv' /\ Held
    <3>1. PromptTyped'
      BY <1>a, <2>0, <2>c, <2>e, <2>12
         DEF PromptTyped, DlgSteps, Response, Null, taskVars, Refused
    <3>2. ResultPermitted'
      BY <1>a, <2>0, <2>c, <2>e, <2>12 DEF PromptTyped, ResultPermitted, taskVars, Refused
    <3>3. CancelledIdle'
      BY <1>a, <2>0, <2>c, <2>e, <2>12
         DEF PromptTyped, CancelledIdle, DlgSteps, taskVars, Refused
    <3>4. AllowedWasPermitted' /\ CommandsTyped' /\ Held
      <4> DEFINE c == [what |-> "cancelled", d |-> e.d]
      <4>1. c \in Command /\ c.what # "allowed"
        BY <2>c, <2>12 DEF Command
      <4>2. Queues(c) /\ told' = told /\ permitted' = permitted
        BY <2>0, <2>12
      <4> HIDE DEF c
      <4> QED BY <1>a, <4>1, <4>2, CommandQueued DEF AllowedWasPermitted
    <3>5. PromptLeavesNothing'
      BY <1>a, <2>0, <2>c, <2>e, <2>12
         DEF PromptTyped, PromptLeavesNothing, taskVars, Refused
    <3>6. OutcomeIsOwn'
      BY <1>a, <2>0, <2>c, <2>e, <2>12 DEF PromptTyped, OutcomeIsOwn, taskVars, Refused
    <3> QED BY <2>4, <3>1, <3>2, <3>3, <3>4, <3>5, <3>6 DEF PromptInv
  <2>13. ASSUME e.what = "ask", ~Refused,
               dlgTask' = [dlgTask EXCEPT ![e.d] = "starting"], dlgPending' = dlgPending \cup {e.d},
               UNCHANGED <<turn, outcome, promptOut, requests, result, clientStream>>
        PROVE  PromptInv' /\ Held
    <3>1. PromptTyped'
      BY <1>a, <2>0, <2>c, <2>e, <2>13 DEF PromptTyped, DlgSteps, Response, Null, taskVars, Refused
    <3>2. ResultPermitted'
      BY <1>a, <2>0, <2>c, <2>e, <2>13 DEF PromptTyped, ResultPermitted, taskVars, Refused
    <3>3. CancelledIdle'
      BY <1>a, <2>0, <2>c, <2>e, <2>13 DEF PromptTyped, CancelledIdle, DlgSteps, taskVars, Refused
    <3>4. AllowedWasPermitted' /\ CommandsTyped' /\ Held
      BY <1>c, <2>0, <2>13
    <3>5. PromptLeavesNothing'
      BY <1>a, <2>0, <2>c, <2>e, <2>13 DEF PromptTyped, PromptLeavesNothing, taskVars, Refused
    <3>6. OutcomeIsOwn'
      BY <1>a, <2>0, <2>c, <2>e, <2>13 DEF PromptTyped, OutcomeIsOwn, taskVars, Refused
    <3> QED BY <2>4, <3>1, <3>2, <3>3, <3>4, <3>5, <3>6 DEF PromptInv
  <2>14. ASSUME e.what = "close", Abort({e.d} \cap dlgPending),
               UNCHANGED <<turn, outcome, promptOut>>
        PROVE  PromptInv' /\ Held
    <3>1. PromptTyped'
      BY <1>a, <2>0, <2>c, <2>e, <2>14 DEF PromptTyped, DlgSteps, Response, Null, taskVars, Abort
    <3>2. ResultPermitted'
      BY <1>a, <2>0, <2>c, <2>e, <2>14 DEF PromptTyped, ResultPermitted, Null, taskVars, Abort
    <3>3. CancelledIdle'
      BY <1>a, <2>0, <2>c, <2>e, <2>14 DEF PromptTyped, CancelledIdle, DlgSteps, taskVars, Abort
    <3>4. AllowedWasPermitted' /\ CommandsTyped' /\ Held
      BY <1>c, <2>0, <2>14
    <3>5. PromptLeavesNothing'
      BY <1>a, <2>0, <2>c, <2>e, <2>14 DEF PromptTyped, PromptLeavesNothing, taskVars, Abort
    <3>6. OutcomeIsOwn'
      BY <1>a, <2>0, <2>c, <2>e, <2>14 DEF PromptTyped, OutcomeIsOwn, taskVars, Abort
    <3> QED BY <2>4, <3>1, <3>2, <3>3, <3>4, <3>5, <3>6 DEF PromptInv
  <2>15. ASSUME UNCHANGED <<turn, outcome, promptOut, taskVars, clientStream>>
        PROVE  PromptInv' /\ Held
    <3>1. PromptTyped'
      BY <1>a, <2>0, <2>c, <2>e, <2>15 DEF PromptTyped, DlgSteps, Response, Null, taskVars
    <3>2. ResultPermitted'
      BY <1>a, <2>0, <2>c, <2>e, <2>15 DEF PromptTyped, ResultPermitted, taskVars
    <3>3. CancelledIdle'
      BY <1>a, <2>0, <2>c, <2>e, <2>15 DEF PromptTyped, CancelledIdle, DlgSteps, taskVars
    <3>4. AllowedWasPermitted' /\ CommandsTyped' /\ Held
      BY <1>c, <2>0, <2>15
    <3>5. PromptLeavesNothing'
      BY <1>a, <2>0, <2>c, <2>e, <2>15 DEF PromptTyped, PromptLeavesNothing, taskVars
    <3>6. OutcomeIsOwn'
      BY <1>a, <2>0, <2>c, <2>e, <2>15 DEF PromptTyped, OutcomeIsOwn, taskVars
    <3> QED BY <2>4, <3>1, <3>2, <3>3, <3>4, <3>5, <3>6 DEF PromptInv
  <2> QED BY <2>b, <2>11, <2>12, <2>13, <2>14, <2>15
<1>30. CASE UNCHANGED promptVars
  <2>1. PromptTyped'
    BY <1>a, <1>30
       DEF PromptTyped, DlgSteps, Response, Null, promptVars, nativeVars, turnVars, taskVars
  <2>2. ResultPermitted'
    BY <1>a, <1>30 DEF PromptTyped, ResultPermitted, promptVars, nativeVars, turnVars, taskVars
  <2>3. CancelledIdle'
    BY <1>a, <1>30
       DEF PromptTyped, CancelledIdle, DlgSteps, promptVars, nativeVars, turnVars, taskVars
  <2>4. EventsOwn'
    BY <1>a, <1>30 DEF EventsOwn, promptVars, nativeVars, turnVars, taskVars
  <2>5. AllowedWasPermitted' /\ CommandsTyped' /\ Held
    BY <1>c, <1>30 DEF promptVars, nativeVars
  <2>6. PromptLeavesNothing'
    BY <1>a, <1>30 DEF PromptTyped, PromptLeavesNothing, promptVars, nativeVars, turnVars, taskVars
  <2>7. OutcomeIsOwn'
    BY <1>a, <1>30 DEF PromptTyped, OutcomeIsOwn, promptVars, nativeVars, turnVars, taskVars
  <2> QED BY <2>1, <2>2, <2>3, <2>4, <2>5, <2>6, <2>7 DEF PromptInv
<1> QED BY <1>1, <1>2, <1>3, <1>4, <1>5, <1>6, <1>7, <1>8, <1>9, <1>10, <1>11, <1>12, <1>13, <1>14,
           <1>15, <1>16, <1>20, <1>30
        DEF PromptNext, TaskGoesOn, PromptTurnSteps

\* A tool is allowed only by a permission the client gave, none is queued for the
\* native once the prompt has seen its cancellation, a prompt that is over has no dialog and no
\* client request left, and its outcome is its own run's: Session::prompt with
\* its dialogs and RunTracker::observe, for any set of dialogs.
THEOREM PromptsAreClean ==
  PromptInit /\ [][PromptNext]_promptVars
    => [](AllowedWasPermitted /\ PromptLeavesNothing /\ OutcomeIsOwn) /\ CancelledAllowsNothing
<1>1. PromptInv => AllowedWasPermitted /\ PromptLeavesNothing /\ OutcomeIsOwn
  BY DEF PromptInv
<1>2. PromptInv /\ [PromptNext]_promptVars => PromptInv'
  BY PromptStays
<1>3. PromptInv /\ [PromptNext]_promptVars =>
        [promptCancelled => Granted' \subseteq Granted]_promptVars
  BY PromptStays
<1> QED BY PromptStarts, <1>1, <1>2, <1>3, PTL DEF CancelledAllowsNothing

-----------------------------------------------------------------------------
(* Queries, subscriptions and lists beside the prompts.                        *)

TaskPhases == {"core", "writes", "frame", "streams", "done"}
TaskRun == [kind : {"query", "sub", "list"}, key : ReqKey, sub : SubId \cup {"none"},
            sess : TaskSession \cup {"none"}, phase : TaskPhases, told : BOOLEAN, said : {0, 1}]

RunsTyped ==
  /\ runs \in Seq(TaskRun)
  /\ \A t \in DOMAIN runs : /\ runs[t].kind = "sub" => runs[t].sub \in SubId
                            /\ runs[t].kind = "list" => runs[t].sess = "none"
MapsTyped ==
  /\ queryTasks \subseteq DOMAIN runs /\ listTasks \subseteq DOMAIN runs /\ pendingSubs \subseteq DOMAIN runs
  /\ \A t \in listTasks : runs[t].kind = "list"
  /\ \A t \in pendingSubs : runs[t].kind = "sub"
  /\ closedSessions \subseteq TaskSession
ControlTyped ==
  control \in [at : {"idle", "waits", "answer", "over"},
               what : {"none", "cancel", "unsubscribe", "close", "hangup", "shutdown"},
               sess : TaskSession \cup {"none", "any"}, wait : SUBSET Nat]

\* A query under way can be dropped; an entry of the registry is the task of its
\* subscription; a subscription that was not told to end can be told, and one
\* that was is waited for.
QueriesListed == \A t \in TaskUnfinished : runs[t].kind = "query" => t \in queryTasks
EntriesOwn ==
  /\ taskEntries \in [SubId -> Nat]
  /\ \A s \in SubId : taskEntries[s] # 0 =>
       /\ taskEntries[s] \in DOMAIN runs
       /\ runs[taskEntries[s]].kind = "sub" /\ runs[taskEntries[s]].sub = s
SubsEntered ==
  \A t \in TaskUnfinished : runs[t].kind = "sub" /\ ~runs[t].told => taskEntries[runs[t].sub] = t
ToldAwaited ==
  \A t \in TaskUnfinished : runs[t].kind = "sub" /\ runs[t].told => control.at = "waits" /\ t \in control.wait

\* While a session is closed, what is left of it is waited for; then nothing is.
CloseWaits ==
  control.what = "close" /\ control.at \in {"waits", "answer"} =>
    /\ control.sess \in TaskSession
    /\ \A t \in TaskUnfinished : runs[t].sess = control.sess => control.at = "waits" /\ t \in control.wait
ClosedEmpty == \A t \in TaskUnfinished : runs[t].sess \notin closedSessions

TasksInv ==
  /\ RunsTyped /\ MapsTyped /\ ControlTyped /\ QueriesListed /\ EntriesOwn /\ SubsEntered
  /\ ToldAwaited /\ CloseWaits /\ ClosedEmpty

LEMMA RunMoves ==
  ASSUME NEW p \in TaskRun
  PROVE  /\ \A v \in TaskPhases :
              /\ [p EXCEPT !.phase = v] \in TaskRun
              /\ [p EXCEPT !.phase = v].kind = p.kind /\ [p EXCEPT !.phase = v].sub = p.sub
              /\ [p EXCEPT !.phase = v].sess = p.sess /\ [p EXCEPT !.phase = v].told = p.told
              /\ [p EXCEPT !.phase = v].phase = v
         /\ \A v \in TaskPhases :
              /\ [p EXCEPT !.phase = v, !.said = 1] \in TaskRun
              /\ [p EXCEPT !.phase = v, !.said = 1].kind = p.kind /\ [p EXCEPT !.phase = v, !.said = 1].sub = p.sub
              /\ [p EXCEPT !.phase = v, !.said = 1].sess = p.sess /\ [p EXCEPT !.phase = v, !.said = 1].told = p.told
              /\ [p EXCEPT !.phase = v, !.said = 1].phase = v
<1>1. ASSUME NEW v \in TaskPhases
      PROVE  /\ [p EXCEPT !.phase = v] \in TaskRun
             /\ [p EXCEPT !.phase = v].kind = p.kind /\ [p EXCEPT !.phase = v].sub = p.sub
             /\ [p EXCEPT !.phase = v].sess = p.sess /\ [p EXCEPT !.phase = v].told = p.told
             /\ [p EXCEPT !.phase = v].phase = v
  BY DEF TaskRun
<1>2. ASSUME NEW v \in TaskPhases
      PROVE  /\ [p EXCEPT !.phase = v, !.said = 1] \in TaskRun
             /\ [p EXCEPT !.phase = v, !.said = 1].kind = p.kind /\ [p EXCEPT !.phase = v, !.said = 1].sub = p.sub
             /\ [p EXCEPT !.phase = v, !.said = 1].sess = p.sess /\ [p EXCEPT !.phase = v, !.said = 1].told = p.told
             /\ [p EXCEPT !.phase = v, !.said = 1].phase = v
  BY DEF TaskRun
<1> QED BY <1>1, <1>2

\* What a step leaves of the tasks: their names, and the end of those that ended.
SameTask(p, q) ==
  /\ q.kind = p.kind /\ q.sub = p.sub /\ q.sess = p.sess
  /\ p.phase = "done" => q.phase = "done"

LEMMA TasksStart == TasksInit => TasksInv
<1> SUFFICES ASSUME TasksInit PROVE TasksInv
  OBVIOUS
<1>1. runs = <<>> /\ DOMAIN runs = {} /\ TaskUnfinished = {}
  BY DEF TasksInit, TaskUnfinished
<1>2. RunsTyped /\ MapsTyped /\ QueriesListed /\ SubsEntered /\ ToldAwaited /\ ClosedEmpty
  BY <1>1 DEF TasksInit, RunsTyped, MapsTyped, QueriesListed, SubsEntered, ToldAwaited, ClosedEmpty
<1>3. ControlTyped /\ EntriesOwn /\ CloseWaits
  BY DEF TasksInit, ControlTyped, EntriesOwn, CloseWaits, TaskIdle
<1> QED BY <1>2, <1>3 DEF TasksInv

(* A step of one task.                                                         *)
LEMMA OneTaskMoves ==
  ASSUME TasksInv, NEW t \in DOMAIN runs, NEW q \in TaskRun, SameTask(runs[t], q), q.told = runs[t].told,
         runs' = [runs EXCEPT ![t] = q],
         \/ taskEntries' = taskEntries
         \/ q.phase = "done" /\ taskEntries' = TaskReleased(t),
         pendingSubs' \subseteq pendingSubs,
         UNCHANGED <<queryTasks, listTasks, control, closedSessions>>
  PROVE  TasksInv'
<1>a. /\ RunsTyped /\ MapsTyped /\ ControlTyped /\ QueriesListed /\ EntriesOwn /\ SubsEntered
      /\ ToldAwaited /\ CloseWaits /\ ClosedEmpty
  BY DEF TasksInv
<1>1. runs \in [1 .. Len(runs) -> TaskRun] /\ Len(runs) \in Nat /\ DOMAIN runs = 1 .. Len(runs)
  BY <1>a DEF RunsTyped
<1>2. runs' \in [1 .. Len(runs) -> TaskRun] /\ runs'[t] = q
      /\ \A u \in DOMAIN runs : u = t \/ runs'[u] = runs[u]
  BY <1>1
<1>3. runs' \in Seq(TaskRun) /\ DOMAIN runs' = DOMAIN runs
  BY <1>1, <1>2, SeqOfFunction
<1>4. \A u \in DOMAIN runs : /\ runs'[u].kind = runs[u].kind /\ runs'[u].sub = runs[u].sub
                             /\ runs'[u].sess = runs[u].sess /\ runs'[u].told = runs[u].told
                             /\ runs[u].phase = "done" => runs'[u].phase = "done"
  BY <1>2 DEF SameTask
<1>5. \A u \in TaskUnfinished' : u \in TaskUnfinished /\ u \in DOMAIN runs
  BY <1>3, <1>4 DEF TaskUnfinished
<1>6. RunsTyped'
  BY <1>a, <1>3, <1>4 DEF RunsTyped
<1>7. MapsTyped'
  BY <1>a, <1>3, <1>4 DEF MapsTyped
<1>8. ControlTyped' /\ QueriesListed' /\ ToldAwaited' /\ CloseWaits' /\ ClosedEmpty'
  BY <1>a, <1>4, <1>5 DEF ControlTyped, QueriesListed, ToldAwaited, CloseWaits, ClosedEmpty
<1>9. EntriesOwn' /\ SubsEntered'
  <2>1. CASE taskEntries' = taskEntries
    BY <1>a, <1>3, <1>4, <1>5, <2>1 DEF EntriesOwn, SubsEntered
  <2>2. CASE q.phase = "done" /\ taskEntries' = TaskReleased(t)
    <3>1. /\ taskEntries' \in [SubId -> Nat]
          /\ \A s \in SubId : taskEntries'[s] = 0 \/ (taskEntries'[s] = taskEntries[s] /\ taskEntries[s] # t)
          /\ \A s \in SubId : taskEntries[s] = t \/ taskEntries'[s] = taskEntries[s]
      BY <1>a, <2>2 DEF TaskReleased, EntriesOwn
    <3>2. EntriesOwn'
      BY <1>a, <1>3, <1>4, <3>1 DEF EntriesOwn
    <3>3. ASSUME NEW u \in TaskUnfinished', runs'[u].kind = "sub", ~runs'[u].told
          PROVE  taskEntries'[runs'[u].sub] = u
      <4>1. u # t /\ u \in DOMAIN runs /\ u \in TaskUnfinished
        BY <1>2, <1>5, <2>2, <3>3 DEF TaskUnfinished
      <4>2. taskEntries[runs[u].sub] = u /\ runs[u].sub \in SubId /\ runs'[u].sub = runs[u].sub
        BY <1>a, <1>4, <3>3, <4>1 DEF SubsEntered, RunsTyped
      <4> QED BY <3>1, <4>1, <4>2
    <3> QED BY <3>2, <3>3 DEF SubsEntered
  <2> QED BY <2>1, <2>2
<1> QED BY <1>6, <1>7, <1>8, <1>9 DEF TasksInv

(* A request that starts a task.                                               *)
LEMMA OneTaskMore ==
  ASSUME TasksInv, NEW q \in TaskRun, control = TaskIdle, runs' = Append(runs, q),
         q.kind = "sub" => q.sub \in SubId, q.kind = "list" => q.sess = "none",
         q.told = FALSE, q.sess \notin closedSessions,
         UNCHANGED <<control, closedSessions>>,
         queryTasks' = TaskReaped(queryTasks) \cup (IF q.kind = "query" THEN {Len(runs) + 1} ELSE {}),
         listTasks' = TaskReaped(listTasks) \cup (IF q.kind = "list" THEN {Len(runs) + 1} ELSE {}),
         pendingSubs' = pendingSubs \cup (IF q.kind = "sub" THEN {Len(runs) + 1} ELSE {}),
         IF q.kind = "sub" THEN taskEntries[q.sub] = 0 /\ taskEntries' = [taskEntries EXCEPT ![q.sub] = Len(runs) + 1]
         ELSE taskEntries' = taskEntries
  PROVE  TasksInv'
<1>a. /\ RunsTyped /\ MapsTyped /\ ControlTyped /\ QueriesListed /\ EntriesOwn /\ SubsEntered
      /\ ToldAwaited /\ CloseWaits /\ ClosedEmpty
  BY DEF TasksInv
<1> DEFINE n == Len(runs) + 1
<1>1. /\ runs' \in Seq(TaskRun) /\ n \in DOMAIN runs' /\ runs'[n] = q /\ n \notin DOMAIN runs /\ n \in Nat /\ n # 0
      /\ \A u \in DOMAIN runs : u \in DOMAIN runs' /\ runs'[u] = runs[u]
      /\ \A u \in DOMAIN runs' : u \in DOMAIN runs \/ u = n
  <2>1. \A x \in TaskRun, s \in Seq(TaskRun) :
          /\ Append(s, x) \in Seq(TaskRun) /\ Len(s) + 1 \in DOMAIN Append(s, x) /\ Append(s, x)[Len(s) + 1] = x
          /\ Len(s) + 1 \notin DOMAIN s /\ Len(s) \in Nat
          /\ \A k \in DOMAIN s : k \in DOMAIN Append(s, x) /\ Append(s, x)[k] = s[k]
          /\ \A k \in DOMAIN Append(s, x) : k \in DOMAIN s \/ k = Len(s) + 1
    BY ONLY AppendFacts
  <2>2. runs \in Seq(TaskRun)
    BY <1>a DEF RunsTyped
  <2>3. /\ Append(runs, q) \in Seq(TaskRun) /\ Len(runs) + 1 \in DOMAIN Append(runs, q)
        /\ Append(runs, q)[Len(runs) + 1] = q /\ Len(runs) + 1 \notin DOMAIN runs /\ Len(runs) \in Nat
        /\ \A k \in DOMAIN runs : k \in DOMAIN Append(runs, q) /\ Append(runs, q)[k] = runs[k]
        /\ \A k \in DOMAIN Append(runs, q) : k \in DOMAIN runs \/ k = Len(runs) + 1
    BY ONLY <2>1, <2>2, q \in TaskRun
  <2> QED BY ONLY <2>3, runs' = Append(runs, q) DEF n
<1>2. /\ queryTasks' = TaskReaped(queryTasks) \cup (IF q.kind = "query" THEN {n} ELSE {})
      /\ listTasks' = TaskReaped(listTasks) \cup (IF q.kind = "list" THEN {n} ELSE {})
      /\ pendingSubs' = pendingSubs \cup (IF q.kind = "sub" THEN {n} ELSE {})
      /\ IF q.kind = "sub" THEN taskEntries[q.sub] = 0 /\ taskEntries' = [taskEntries EXCEPT ![q.sub] = n]
         ELSE taskEntries' = taskEntries
  OBVIOUS
<1> HIDE DEF n
<1>3. \A u \in TaskUnfinished' : (u \in TaskUnfinished /\ u \in DOMAIN runs) \/ u = n
  BY <1>1 DEF TaskUnfinished
<1>4. RunsTyped'
  BY <1>a, <1>1 DEF RunsTyped
<1>5. MapsTyped'
  BY <1>a, <1>1, <1>2 DEF MapsTyped, TaskReaped, TaskUnfinished
<1>6. QueriesListed'
  BY <1>1, <1>2, <1>3, <1>a DEF QueriesListed, TaskReaped
<1>7. ControlTyped' /\ ToldAwaited' /\ CloseWaits' /\ ClosedEmpty'
  <2>1. control.at = "idle" /\ control' = control /\ closedSessions' = closedSessions
    BY DEF TaskIdle
  <2>2. ControlTyped' /\ CloseWaits'
    BY <1>a, <2>1 DEF ControlTyped, CloseWaits
  <2>3. ToldAwaited'
    BY <1>a, <1>1, <1>3, <2>1 DEF ToldAwaited
  <2>4. ClosedEmpty'
    BY <1>a, <1>1, <1>3, <2>1 DEF ClosedEmpty
  <2> QED BY <2>2, <2>3, <2>4
<1>8. EntriesOwn' /\ SubsEntered'
  <2>1. CASE q.kind # "sub"
    BY <1>a, <1>1, <1>2, <1>3, <2>1 DEF EntriesOwn, SubsEntered
  <2>2. CASE q.kind = "sub"
    <3>1. /\ q.sub \in SubId /\ taskEntries' = [taskEntries EXCEPT ![q.sub] = n] /\ taskEntries[q.sub] = 0
          /\ taskEntries \in [SubId -> Nat]
      BY <1>a, <1>2, <2>2 DEF EntriesOwn
    <3>2. taskEntries' \in [SubId -> Nat] /\ taskEntries'[q.sub] = n
          /\ \A s \in SubId : s = q.sub \/ taskEntries'[s] = taskEntries[s]
      BY <1>1, <3>1
    <3>3. EntriesOwn'
      BY <1>a, <1>1, <2>2, <3>2 DEF EntriesOwn
    <3>4. ASSUME NEW u \in TaskUnfinished', runs'[u].kind = "sub", ~runs'[u].told
          PROVE  taskEntries'[runs'[u].sub] = u
      <4>1. CASE u = n
        BY <1>1, <3>2, <4>1
      <4>2. CASE u \in TaskUnfinished /\ u \in DOMAIN runs
        <5>1. runs'[u] = runs[u] /\ taskEntries[runs[u].sub] = u /\ runs[u].sub \in SubId
          BY <1>a, <1>1, <3>4, <4>2 DEF SubsEntered, RunsTyped
        <5>2. u # 0
          BY <1>a, <4>2 DEF RunsTyped
        <5> QED BY <3>1, <3>2, <5>1, <5>2
      <4> QED BY <1>3, <4>1, <4>2
    <3> QED BY <3>3, <3>4 DEF SubsEntered
  <2> QED BY <2>1, <2>2
<1> QED BY <1>4, <1>5, <1>6, <1>7, <1>8 DEF TasksInv

(* Tasks are told to end, or dropped; their entries go with them.              *)
LEMMA TasksAreTold ==
  ASSUME TasksInv, runs' \in Seq(TaskRun), DOMAIN runs' = DOMAIN runs,
         \A t \in DOMAIN runs : SameTask(runs[t], runs'[t]),
         NEW told0, control.at = "idle" \/ (control.at = "answer" /\ told0 = {}),
         \A t \in DOMAIN runs : runs[t].kind = "sub" /\ runs'[t].phase # "done" =>
            (runs'[t].told <=> runs[t].told \/ t \in told0),
         UNCHANGED <<listTasks, closedSessions>>, pendingSubs' \subseteq pendingSubs,
         queryTasks' \subseteq queryTasks,
         \A t \in queryTasks \ queryTasks' : runs'[t].phase = "done" \/ runs[t].kind # "query",
         taskEntries' = [s \in SubId |-> IF taskEntries[s] \in told0 THEN 0 ELSE taskEntries[s]],
         control' \in [at : {"idle", "waits", "answer", "over"},
                       what : {"none", "cancel", "unsubscribe", "close", "hangup", "shutdown"},
                       sess : TaskSession \cup {"none", "any"}, wait : SUBSET Nat],
         told0 # {} => control'.at = "waits" /\ told0 \subseteq control'.wait,
         CloseWaits'
  PROVE  TasksInv'
<1>a. /\ RunsTyped /\ MapsTyped /\ ControlTyped /\ QueriesListed /\ EntriesOwn /\ SubsEntered
      /\ ToldAwaited /\ CloseWaits /\ ClosedEmpty
  BY DEF TasksInv
<1>1. \A t \in DOMAIN runs : /\ runs'[t].kind = runs[t].kind /\ runs'[t].sub = runs[t].sub
                             /\ runs'[t].sess = runs[t].sess
                             /\ runs[t].phase = "done" => runs'[t].phase = "done"
  BY DEF SameTask
<1>2. \A u \in TaskUnfinished' : u \in TaskUnfinished /\ u \in DOMAIN runs /\ runs'[u].phase # "done"
  BY <1>1 DEF TaskUnfinished
<1>3. \A u \in TaskUnfinished : runs[u].kind = "sub" => ~runs[u].told
  BY <1>a DEF ToldAwaited
<1>4. RunsTyped' /\ MapsTyped' /\ ControlTyped'
  BY <1>a, <1>1 DEF RunsTyped, MapsTyped, ControlTyped
<1>5. QueriesListed' /\ ClosedEmpty'
  BY <1>a, <1>1, <1>2 DEF QueriesListed, ClosedEmpty
<1>6. EntriesOwn'
  BY <1>a, <1>1 DEF EntriesOwn
<1>7. ToldAwaited'
  BY <1>1, <1>2, <1>3 DEF ToldAwaited
<1>8. SubsEntered'
  <2> SUFFICES ASSUME NEW u \in TaskUnfinished', runs'[u].kind = "sub", ~runs'[u].told
               PROVE  taskEntries'[runs'[u].sub] = u
    BY DEF SubsEntered
  <2>1. u \in TaskUnfinished /\ u \in DOMAIN runs /\ runs[u].kind = "sub" /\ u \notin told0 /\ ~runs[u].told
    BY <1>1, <1>2
  <2>2. taskEntries[runs[u].sub] = u /\ runs[u].sub \in SubId /\ runs'[u].sub = runs[u].sub
    BY <1>a, <1>1, <2>1 DEF SubsEntered, RunsTyped
  <2> QED BY <2>1, <2>2
<1> QED BY <1>4, <1>5, <1>6, <1>7, <1>8 DEF TasksInv

LEMMA ToldFacts ==
  ASSUME RunsTyped, NEW A, NEW B
  PROVE  /\ Told(A, AbortedRuns(B)) \in Seq(TaskRun) /\ DOMAIN Told(A, AbortedRuns(B)) = DOMAIN runs
         /\ \A t \in DOMAIN runs :
              /\ SameTask(runs[t], Told(A, AbortedRuns(B))[t])
              /\ t \in B => Told(A, AbortedRuns(B))[t].phase = "done"
              /\ t \notin B => (Told(A, AbortedRuns(B))[t].told <=> (runs[t].told \/ t \in A))
         /\ Told(A, runs) \in Seq(TaskRun) /\ DOMAIN Told(A, runs) = DOMAIN runs
         /\ \A t \in DOMAIN runs :
              /\ SameTask(runs[t], Told(A, runs)[t])
              /\ Told(A, runs)[t].told <=> (runs[t].told \/ t \in A)
<1> DEFINE n == Len(runs)
           D == TaskRun
           ended(p) == [p EXCEPT !.phase = "done", !.told = TRUE]
           warned(p) == [p EXCEPT !.told = TRUE]
           rb == AbortedRuns(B)
<1>1. runs \in [1 .. n -> D] /\ n \in Nat /\ DOMAIN runs = 1 .. n
  BY DEF RunsTyped
<1>2. ASSUME NEW p \in D
      PROVE  /\ ended(p) \in D /\ ended(p).phase = "done" /\ SameTask(p, ended(p))
             /\ warned(p) \in D /\ warned(p).told = TRUE /\ warned(p).phase = p.phase /\ SameTask(p, warned(p))
  BY DEF TaskRun, SameTask, TaskPhases
<1>3. /\ rb = [t \in DOMAIN runs |-> IF t \in B THEN ended(runs[t]) ELSE runs[t]]
      /\ Told(A, rb) = [t \in DOMAIN rb |-> IF t \in A THEN warned(rb[t]) ELSE rb[t]]
      /\ Told(A, runs) = [t \in DOMAIN runs |-> IF t \in A THEN warned(runs[t]) ELSE runs[t]]
  BY DEF AbortedRuns, Told
<1> HIDE DEF D, n, ended, warned, rb
<1>4. ASSUME NEW f \in [1 .. n -> D]
      PROVE  [t \in DOMAIN f |-> IF t \in A THEN warned(f[t]) ELSE f[t]] \in [1 .. n -> D]
  BY <1>2
<1>5. rb \in [1 .. n -> D]
  BY <1>1, <1>2, <1>3
<1>6. Told(A, rb) \in [1 .. n -> D] /\ Told(A, runs) \in [1 .. n -> D]
  BY <1>1, <1>3, <1>4, <1>5
<1>7. /\ Told(A, rb) \in Seq(D) /\ DOMAIN Told(A, rb) = 1 .. n
      /\ Told(A, runs) \in Seq(D) /\ DOMAIN Told(A, runs) = 1 .. n
  BY <1>1, <1>6, SeqOfFunction
<1>8. \A t \in DOMAIN runs : /\ rb[t] = IF t \in B THEN ended(runs[t]) ELSE runs[t]
                             /\ Told(A, rb)[t] = IF t \in A THEN warned(rb[t]) ELSE rb[t]
                             /\ Told(A, runs)[t] = IF t \in A THEN warned(runs[t]) ELSE runs[t]
                             /\ runs[t] \in D
  BY <1>1, <1>3, <1>5
<1>9. ASSUME NEW t \in DOMAIN runs
      PROVE  /\ SameTask(runs[t], Told(A, rb)[t])
             /\ t \in B => Told(A, rb)[t].phase = "done"
             /\ t \notin B => (Told(A, rb)[t].told <=> (runs[t].told \/ t \in A))
             /\ SameTask(runs[t], Told(A, runs)[t])
             /\ Told(A, runs)[t].told <=> (runs[t].told \/ t \in A)
  <2>1. /\ ended(runs[t]) \in D /\ warned(runs[t]) \in D /\ runs[t] \in D
        /\ SameTask(runs[t], ended(runs[t])) /\ ended(runs[t]).phase = "done"
        /\ SameTask(runs[t], warned(runs[t])) /\ warned(runs[t]).told = TRUE
        /\ SameTask(ended(runs[t]), warned(ended(runs[t]))) /\ warned(ended(runs[t])).phase = "done"
    BY <1>2, <1>8
  <2>2. SameTask(runs[t], runs[t])
    BY DEF SameTask
  <2>3. CASE t \in B /\ t \in A
    <3>1. Told(A, rb)[t] = warned(ended(runs[t])) /\ Told(A, runs)[t] = warned(runs[t])
      BY <1>8, <2>3
    <3> QED BY <2>1, <2>3, <3>1 DEF SameTask
  <2>4. CASE t \in B /\ t \notin A
    <3>1. Told(A, rb)[t] = ended(runs[t]) /\ Told(A, runs)[t] = runs[t]
      BY <1>8, <2>4
    <3> QED BY <2>1, <2>2, <2>4, <3>1
  <2>5. CASE t \notin B /\ t \in A
    <3>1. Told(A, rb)[t] = warned(runs[t]) /\ Told(A, runs)[t] = warned(runs[t])
      BY <1>8, <2>5
    <3> QED BY <2>1, <2>5, <3>1
  <2>6. CASE t \notin B /\ t \notin A
    <3>1. Told(A, rb)[t] = runs[t] /\ Told(A, runs)[t] = runs[t]
      BY <1>8, <2>6
    <3> QED BY <2>2, <2>6, <3>1
  <2> QED BY <2>3, <2>4, <2>5, <2>6
<1> QED BY <1>1, <1>7, <1>9 DEF D, rb

LEMMA TasksStay == TasksInv /\ [TasksNext]_acpTaskVars => TasksInv'
<1> SUFFICES ASSUME TasksInv, [TasksNext]_acpTaskVars PROVE TasksInv'
  OBVIOUS
<1>a. /\ RunsTyped /\ MapsTyped /\ ControlTyped /\ QueriesListed /\ EntriesOwn /\ SubsEntered
      /\ ToldAwaited /\ CloseWaits /\ ClosedEmpty
  BY DEF TasksInv
<1>b. \A t \in DOMAIN runs : runs[t] \in TaskRun
  BY <1>a DEF RunsTyped
<1>c. \A t \in DOMAIN runs, v \in TaskPhases :
        /\ [runs[t] EXCEPT !.phase = v] \in TaskRun /\ [runs[t] EXCEPT !.phase = v].phase = v
        /\ [runs[t] EXCEPT !.phase = v].told = runs[t].told
        /\ runs[t].phase # "done" => SameTask(runs[t], [runs[t] EXCEPT !.phase = v])
        /\ [runs[t] EXCEPT !.phase = v, !.said = 1] \in TaskRun /\ [runs[t] EXCEPT !.phase = v, !.said = 1].phase = v
        /\ [runs[t] EXCEPT !.phase = v, !.said = 1].told = runs[t].told
        /\ runs[t].phase # "done" => SameTask(runs[t], [runs[t] EXCEPT !.phase = v, !.said = 1])
  <2> SUFFICES ASSUME NEW t \in DOMAIN runs, NEW v \in TaskPhases
               PROVE  /\ [runs[t] EXCEPT !.phase = v] \in TaskRun /\ [runs[t] EXCEPT !.phase = v].phase = v
                      /\ [runs[t] EXCEPT !.phase = v].told = runs[t].told
                      /\ runs[t].phase # "done" => SameTask(runs[t], [runs[t] EXCEPT !.phase = v])
                      /\ [runs[t] EXCEPT !.phase = v, !.said = 1] \in TaskRun
                      /\ [runs[t] EXCEPT !.phase = v, !.said = 1].phase = v
                      /\ [runs[t] EXCEPT !.phase = v, !.said = 1].told = runs[t].told
                      /\ runs[t].phase # "done" => SameTask(runs[t], [runs[t] EXCEPT !.phase = v, !.said = 1])
    OBVIOUS
  <2> DEFINE p == runs[t]
             q == [p EXCEPT !.phase = v]
             r == [p EXCEPT !.phase = v, !.said = 1]
  <2>1. /\ q \in TaskRun /\ q.kind = p.kind /\ q.sub = p.sub /\ q.sess = p.sess /\ q.told = p.told /\ q.phase = v
        /\ r \in TaskRun /\ r.kind = p.kind /\ r.sub = p.sub /\ r.sess = p.sess /\ r.told = p.told /\ r.phase = v
    <3>1. p \in TaskRun
      BY <1>b
    <3> HIDE DEF p
    <3> QED BY <3>1, RunMoves
  <2> HIDE DEF q, r
  <2>2. p.phase # "done" => SameTask(p, q) /\ SameTask(p, r)
    BY <2>1 DEF SameTask
  <2> QED BY <2>1, <2>2 DEF q, r
<1>d. {"core", "writes", "frame", "streams", "done"} \subseteq TaskPhases
  BY DEF TaskPhases
<1>1. ASSUME NEW t \in DOMAIN runs, CoreEnds(t) PROVE TasksInv'
  <2>1. \/ runs' = [runs EXCEPT ![t].phase = "done"] /\ (taskEntries' = taskEntries \/ taskEntries' = TaskReleased(t))
        \/ runs' = [runs EXCEPT ![t].phase = "writes"] /\ taskEntries' = taskEntries
    BY <1>1 DEF CoreEnds, TaskPhase, TaskEnds
  <2>2. runs[t].phase # "done" /\ pendingSubs' \subseteq pendingSubs /\ UNCHANGED <<queryTasks, listTasks, control, closedSessions>>
    BY <1>1 DEF CoreEnds
  <2>3. ASSUME runs' = [runs EXCEPT ![t].phase = "done"], (taskEntries' = taskEntries \/ taskEntries' = TaskReleased(t))
        PROVE  TasksInv'
    <3> DEFINE q == [runs[t] EXCEPT !.phase = "done"]
    <3>1. q \in TaskRun /\ SameTask(runs[t], q) /\ q.told = runs[t].told /\ q.phase = "done"
      BY <1>c, <1>d, <2>2
    <3>2. runs' = [runs EXCEPT ![t] = q]
      BY <2>3
    <3> HIDE DEF q
    <3> QED BY <2>2, <2>3, <3>1, <3>2, OneTaskMoves
  <2>4. ASSUME runs' = [runs EXCEPT ![t].phase = "writes"], taskEntries' = taskEntries
        PROVE  TasksInv'
    <3> DEFINE q == [runs[t] EXCEPT !.phase = "writes"]
    <3>1. q \in TaskRun /\ SameTask(runs[t], q) /\ q.told = runs[t].told /\ q.phase = "writes"
      BY <1>c, <1>d, <2>2
    <3>2. runs' = [runs EXCEPT ![t] = q]
      BY <2>4
    <3> HIDE DEF q
    <3> QED BY <2>2, <2>4, <3>1, <3>2, OneTaskMoves
  <2> QED BY <2>1, <2>3, <2>4
<1>2. ASSUME NEW t \in DOMAIN runs, FrameBegins(t) PROVE TasksInv'
  <2>1. \/ runs' = [runs EXCEPT ![t].phase = "frame"] /\ taskEntries' = taskEntries
        \/ runs' = [runs EXCEPT ![t].phase = "done"] /\ (taskEntries' = taskEntries \/ taskEntries' = TaskReleased(t))
    BY <1>2 DEF FrameBegins, TaskPhase, TaskEnds
  <2>2. runs[t].phase # "done" /\ pendingSubs' \subseteq pendingSubs /\ UNCHANGED <<queryTasks, listTasks, control, closedSessions>>
    BY <1>2 DEF FrameBegins
  <2>3. ASSUME runs' = [runs EXCEPT ![t].phase = "frame"], taskEntries' = taskEntries
        PROVE  TasksInv'
    <3> DEFINE q == [runs[t] EXCEPT !.phase = "frame"]
    <3>1. q \in TaskRun /\ SameTask(runs[t], q) /\ q.told = runs[t].told /\ q.phase = "frame"
      BY <1>c, <1>d, <2>2
    <3>2. runs' = [runs EXCEPT ![t] = q]
      BY <2>3
    <3> HIDE DEF q
    <3> QED BY <2>2, <2>3, <3>1, <3>2, OneTaskMoves
  <2>4. ASSUME runs' = [runs EXCEPT ![t].phase = "done"], (taskEntries' = taskEntries \/ taskEntries' = TaskReleased(t))
        PROVE  TasksInv'
    <3> DEFINE q == [runs[t] EXCEPT !.phase = "done"]
    <3>1. q \in TaskRun /\ SameTask(runs[t], q) /\ q.told = runs[t].told /\ q.phase = "done"
      BY <1>c, <1>d, <2>2
    <3>2. runs' = [runs EXCEPT ![t] = q]
      BY <2>4
    <3> HIDE DEF q
    <3> QED BY <2>2, <2>4, <3>1, <3>2, OneTaskMoves
  <2> QED BY <2>1, <2>3, <2>4
<1>3. ASSUME NEW t \in DOMAIN runs, FrameEnds(t) PROVE TasksInv'
  <2>1. \/ runs' = [runs EXCEPT ![t].phase = "streams", ![t].said = 1] /\ taskEntries' = taskEntries
        \/ runs' = [runs EXCEPT ![t].phase = "done", ![t].said = 1] /\ taskEntries' = taskEntries
    BY <1>3 DEF FrameEnds, TaskPhase, TaskEnds
  <2>2. runs[t].phase # "done" /\ pendingSubs' \subseteq pendingSubs /\ UNCHANGED <<queryTasks, listTasks, control, closedSessions>>
    BY <1>3 DEF FrameEnds
  <2>3. ASSUME runs' = [runs EXCEPT ![t].phase = "streams", ![t].said = 1], taskEntries' = taskEntries
        PROVE  TasksInv'
    <3> DEFINE q == [runs[t] EXCEPT !.phase = "streams", !.said = 1]
    <3>1. q \in TaskRun /\ SameTask(runs[t], q) /\ q.told = runs[t].told /\ q.phase = "streams"
      BY <1>c, <1>d, <2>2
    <3>2. runs' = [runs EXCEPT ![t] = q]
      BY <2>3
    <3> HIDE DEF q
    <3> QED BY <2>2, <2>3, <3>1, <3>2, OneTaskMoves
  <2>4. ASSUME runs' = [runs EXCEPT ![t].phase = "done", ![t].said = 1], taskEntries' = taskEntries
        PROVE  TasksInv'
    <3> DEFINE q == [runs[t] EXCEPT !.phase = "done", !.said = 1]
    <3>1. q \in TaskRun /\ SameTask(runs[t], q) /\ q.told = runs[t].told /\ q.phase = "done"
      BY <1>c, <1>d, <2>2
    <3>2. runs' = [runs EXCEPT ![t] = q]
      BY <2>4
    <3> HIDE DEF q
    <3> QED BY <2>2, <2>4, <3>1, <3>2, OneTaskMoves
  <2> QED BY <2>1, <2>3, <2>4
<1>4. ASSUME NEW t \in DOMAIN runs, FrameFails(t) PROVE TasksInv'
  <2>1. runs' = [runs EXCEPT ![t].phase = "done"] /\ (taskEntries' = taskEntries \/ taskEntries' = TaskReleased(t))
    BY <1>4 DEF FrameFails, TaskPhase, TaskEnds
  <2>2. runs[t].phase # "done" /\ pendingSubs' \subseteq pendingSubs /\ UNCHANGED <<queryTasks, listTasks, control, closedSessions>>
    BY <1>4 DEF FrameFails
  <2>3. ASSUME runs' = [runs EXCEPT ![t].phase = "done"], (taskEntries' = taskEntries \/ taskEntries' = TaskReleased(t))
        PROVE  TasksInv'
    <3> DEFINE q == [runs[t] EXCEPT !.phase = "done"]
    <3>1. q \in TaskRun /\ SameTask(runs[t], q) /\ q.told = runs[t].told /\ q.phase = "done"
      BY <1>c, <1>d, <2>2
    <3>2. runs' = [runs EXCEPT ![t] = q]
      BY <2>3
    <3> HIDE DEF q
    <3> QED BY <2>2, <2>3, <3>1, <3>2, OneTaskMoves
  <2> QED BY <2>1, <2>3
<1>5. ASSUME NEW t \in DOMAIN runs, TaskStreamEnds(t) PROVE TasksInv'
  <2>1. runs' = [runs EXCEPT ![t].phase = "done"] /\ (taskEntries' = taskEntries \/ taskEntries' = TaskReleased(t))
    BY <1>5 DEF TaskStreamEnds, TaskPhase, TaskEnds
  <2>2. runs[t].phase # "done" /\ pendingSubs' \subseteq pendingSubs /\ UNCHANGED <<queryTasks, listTasks, control, closedSessions>>
    BY <1>5 DEF TaskStreamEnds
  <2>3. ASSUME runs' = [runs EXCEPT ![t].phase = "done"], (taskEntries' = taskEntries \/ taskEntries' = TaskReleased(t))
        PROVE  TasksInv'
    <3> DEFINE q == [runs[t] EXCEPT !.phase = "done"]
    <3>1. q \in TaskRun /\ SameTask(runs[t], q) /\ q.told = runs[t].told /\ q.phase = "done"
      BY <1>c, <1>d, <2>2
    <3>2. runs' = [runs EXCEPT ![t] = q]
      BY <2>3
    <3> HIDE DEF q
    <3> QED BY <2>2, <2>3, <3>1, <3>2, OneTaskMoves
  <2> QED BY <2>1, <2>3
<1>6. ASSUME NEW t \in DOMAIN runs, ListGivesUp(t) PROVE TasksInv'
  <2>1. runs' = [runs EXCEPT ![t].phase = "done"] /\ (taskEntries' = taskEntries \/ taskEntries' = TaskReleased(t))
    BY <1>6 DEF ListGivesUp, TaskPhase, TaskEnds
  <2>2. runs[t].phase # "done" /\ pendingSubs' \subseteq pendingSubs /\ UNCHANGED <<queryTasks, listTasks, control, closedSessions>>
    BY <1>6 DEF ListGivesUp
  <2>3. ASSUME runs' = [runs EXCEPT ![t].phase = "done"], (taskEntries' = taskEntries \/ taskEntries' = TaskReleased(t))
        PROVE  TasksInv'
    <3> DEFINE q == [runs[t] EXCEPT !.phase = "done"]
    <3>1. q \in TaskRun /\ SameTask(runs[t], q) /\ q.told = runs[t].told /\ q.phase = "done"
      BY <1>c, <1>d, <2>2
    <3>2. runs' = [runs EXCEPT ![t] = q]
      BY <2>3
    <3> HIDE DEF q
    <3> QED BY <2>2, <2>3, <3>1, <3>2, OneTaskMoves
  <2> QED BY <2>1, <2>3
<1>7. ASSUME NEW t \in DOMAIN runs, Updates(t) PROVE TasksInv'
  <2>1. runs' = [runs EXCEPT ![t].phase = "writes"] /\ taskEntries' = taskEntries
    BY <1>7 DEF Updates, TaskPhase, TaskEnds
  <2>2. runs[t].phase # "done" /\ pendingSubs' \subseteq pendingSubs /\ UNCHANGED <<queryTasks, listTasks, control, closedSessions>>
    BY <1>7 DEF Updates
  <2>3. ASSUME runs' = [runs EXCEPT ![t].phase = "writes"], taskEntries' = taskEntries
        PROVE  TasksInv'
    <3> DEFINE q == [runs[t] EXCEPT !.phase = "writes"]
    <3>1. q \in TaskRun /\ SameTask(runs[t], q) /\ q.told = runs[t].told /\ q.phase = "writes"
      BY <1>c, <1>d, <2>2
    <3>2. runs' = [runs EXCEPT ![t] = q]
      BY <2>3
    <3> HIDE DEF q
    <3> QED BY <2>2, <2>3, <3>1, <3>2, OneTaskMoves
  <2> QED BY <2>1, <2>3
<1>8. ASSUME NEW k \in ReqKey, NEW x \in TaskSession, StartsQuery(k, x) PROVE TasksInv'
  <2> DEFINE q == [kind |-> "query", key |-> k, sub |-> "none", sess |-> x, phase |-> "core", told |-> FALSE, said |-> 0]
  <2>1. q \in TaskRun /\ q.kind = "query" /\ q.sub = "none" /\ q.sess = x /\ q.told = FALSE
    BY DEF TaskRun, TaskPhases
  <2>2. runs' = Append(runs, q) /\ control = TaskIdle /\ UNCHANGED <<control, closedSessions>>
    BY <1>8 DEF StartsQuery, Starts, Accepts
  <2>3. q.sess \notin closedSessions
    BY <1>a, <1>8, <2>1, TaskBounds DEF StartsQuery, MapsTyped
  <2>4. /\ queryTasks' = TaskReaped(queryTasks) \cup {Len(runs) + 1}
        /\ listTasks' = TaskReaped(listTasks) \cup {}
        /\ pendingSubs' = pendingSubs \cup {}
        /\ taskEntries' = taskEntries
    BY <1>8, <2>1 DEF StartsQuery
  <2>5. q.kind = "sub" => q.sub \in SubId
    BY <2>1
  <2>6. q.kind = "list" => q.sess = "none"
    BY <2>1
  <2> HIDE DEF q
  <2> QED BY <2>1, <2>2, <2>3, <2>4, <2>5, <2>6, OneTaskMore
<1>9. ASSUME NEW k \in ReqKey, StartsList(k) PROVE TasksInv'
  <2> DEFINE q == [kind |-> "list", key |-> k, sub |-> "none", sess |-> "none", phase |-> "core", told |-> FALSE, said |-> 0]
  <2>1. q \in TaskRun /\ q.kind = "list" /\ q.sub = "none" /\ q.sess = "none" /\ q.told = FALSE
    BY DEF TaskRun, TaskPhases
  <2>2. runs' = Append(runs, q) /\ control = TaskIdle /\ UNCHANGED <<control, closedSessions>>
    BY <1>9 DEF StartsList, Starts, Accepts
  <2>3. q.sess \notin closedSessions
    BY <1>a, <1>9, <2>1, TaskBounds DEF StartsList, MapsTyped
  <2>4. /\ queryTasks' = TaskReaped(queryTasks) \cup {}
        /\ listTasks' = TaskReaped(listTasks) \cup {Len(runs) + 1}
        /\ pendingSubs' = pendingSubs \cup {}
        /\ taskEntries' = taskEntries
    BY <1>9, <2>1 DEF StartsList
  <2>5. q.kind = "sub" => q.sub \in SubId
    BY <2>1
  <2>6. q.kind = "list" => q.sess = "none"
    BY <2>1
  <2> HIDE DEF q
  <2> QED BY <2>1, <2>2, <2>3, <2>4, <2>5, <2>6, OneTaskMore
<1>10. ASSUME NEW k \in ReqKey, NEW s \in SubId, NEW x \in TaskSession, TaskSubscribes(k, s, x)
       PROVE  TasksInv'
  <2> DEFINE q == [kind |-> "sub", key |-> k, sub |-> s, sess |-> x, phase |-> "core", told |-> FALSE, said |-> 0]
  <2>1. q \in TaskRun /\ q.kind = "sub" /\ q.sub = s /\ q.sess = x /\ q.told = FALSE
    BY DEF TaskRun, TaskPhases
  <2>2. runs' = Append(runs, q) /\ control = TaskIdle /\ UNCHANGED <<control, closedSessions>>
    BY <1>10 DEF TaskSubscribes, Starts, Accepts
  <2>3. q.sess \notin closedSessions
    BY <1>a, <1>10, <2>1, TaskBounds DEF TaskSubscribes, MapsTyped
  <2>4. /\ queryTasks' = TaskReaped(queryTasks) \cup {}
        /\ listTasks' = TaskReaped(listTasks) \cup {}
        /\ pendingSubs' = pendingSubs \cup {Len(runs) + 1}
        /\ taskEntries[q.sub] = 0 /\ taskEntries' = [taskEntries EXCEPT ![q.sub] = Len(runs) + 1]
    BY <1>10, <2>1 DEF TaskSubscribes
  <2>5. q.kind = "sub" => q.sub \in SubId
    BY <2>1
  <2>6. q.kind = "list" => q.sess = "none"
    BY <2>1
  <2> HIDE DEF q
  <2> QED BY <2>1, <2>2, <2>3, <2>4, <2>5, <2>6, OneTaskMore
<1>e. \A A, x : x \in TaskSession \cup {"none", "any"} /\ A \subseteq Nat =>
               \A w \in {"none", "cancel", "unsubscribe", "close", "hangup", "shutdown"} :
                 [at |-> IF A = {} THEN "answer" ELSE "waits", what |-> w, sess |-> x, wait |-> A] \in
                    [at : {"idle", "waits", "answer", "over"},
                     what : {"none", "cancel", "unsubscribe", "close", "hangup", "shutdown"},
                     sess : TaskSession \cup {"none", "any"}, wait : SUBSET Nat]
  OBVIOUS
<1>f. /\ \A t \in DOMAIN runs : t \in Nat /\ t # 0
      /\ \A s \in SubId : taskEntries[s] \in Nat /\ (taskEntries[s] # 0 => taskEntries[s] \in DOMAIN runs)
  BY <1>a DEF RunsTyped, EntriesOwn
<1>11. ASSUME NEW k \in ReqKey, CancelsRequest(k) PROVE TasksInv'
  <2> DEFINE queries == {t \in queryTasks \cap TaskUnfinished : runs[t].key = k}
             lists == {t \in listTasks \cap TaskUnfinished : runs[t].key = k}
             ended == {taskEntries[runs[t].sub] : t \in {u \in pendingSubs : runs[u].key = k}} \ {0}
  <2>1. /\ control = TaskIdle /\ runs' = Told(lists \cup ended, AbortedRuns(queries))
        /\ queryTasks' = queryTasks \ queries /\ pendingSubs' \subseteq pendingSubs
        /\ taskEntries' = [s \in SubId |-> IF taskEntries[s] \in ended THEN 0 ELSE taskEntries[s]]
        /\ control' = [at |-> IF ended = {} THEN "answer" ELSE "waits", what |-> "cancel", sess |-> "none", wait |-> ended]
        /\ UNCHANGED <<listTasks, closedSessions>>
    BY <1>11 DEF CancelsRequest, Controls, EntriesWithout, ThenWaits
  <2>2. ended \subseteq Nat
    BY <1>a, <1>f DEF MapsTyped, RunsTyped
  <2>3. queries \subseteq queryTasks /\ lists \subseteq listTasks
    OBVIOUS
  <2> HIDE DEF queries, lists, ended
  <2>4. /\ runs' \in Seq(TaskRun) /\ DOMAIN runs' = DOMAIN runs
        /\ \A t \in DOMAIN runs : SameTask(runs[t], runs'[t])
        /\ \A t \in DOMAIN runs : t \in queries => runs'[t].phase = "done"
        /\ \A t \in DOMAIN runs : t \notin queries => (runs'[t].told <=> runs[t].told \/ t \in lists \cup ended)
    BY <1>a, <2>1, ToldFacts
  <2>5. \A t \in DOMAIN runs : runs[t].kind = "sub" /\ runs'[t].phase # "done" =>
                                 (runs'[t].told <=> runs[t].told \/ t \in ended)
    BY <1>a, <2>3, <2>4 DEF MapsTyped
  <2>6. \A t \in queryTasks \ queryTasks' : runs'[t].phase = "done" \/ runs[t].kind # "query"
    BY <1>a, <2>1, <2>3, <2>4 DEF MapsTyped
  <2>7. control' \in [at : {"idle", "waits", "answer", "over"},
                         what : {"none", "cancel", "unsubscribe", "close", "hangup", "shutdown"},
                         sess : TaskSession \cup {"none", "any"}, wait : SUBSET Nat]
    BY <1>e, <2>1, <2>2
  <2>8. (ended # {} => control'.at = "waits" /\ ended \subseteq control'.wait) /\ control'.what = "cancel"
    BY <2>1
  <2>9. CloseWaits'
    BY <2>8 DEF CloseWaits
  <2>10. control.at = "idle" /\ queryTasks' \subseteq queryTasks
    BY <2>1 DEF TaskIdle
  <2> QED BY <2>1, <2>4, <2>5, <2>6, <2>7, <2>8, <2>9, <2>10, TasksAreTold
<1>12. ASSUME NEW s \in SubId, NEW x \in TaskSession, TaskUnsubscribes(s, x) PROVE TasksInv'
  <2>1. control.at = "idle" /\ taskEntries[s] # 0
    BY <1>12 DEF TaskUnsubscribes, Controls, TaskIdle
  <2>2. CASE SessionOf(taskEntries[s]) = x
    <3> DEFINE ended == {taskEntries[s]}
    <3>1. /\ runs' = Told(ended, runs) /\ taskEntries' = [taskEntries EXCEPT ![s] = 0]
          /\ control' = [at |-> IF ended = {} THEN "answer" ELSE "waits", what |-> "unsubscribe", sess |-> "none", wait |-> ended]
          /\ UNCHANGED <<queryTasks, listTasks, pendingSubs, closedSessions>>
      BY <1>12, <2>2 DEF TaskUnsubscribes, ThenWaits
    <3>2. ended \subseteq Nat /\ ended # {}
      BY <1>f
    <3>3. taskEntries' = [r \in SubId |-> IF taskEntries[r] \in ended THEN 0 ELSE taskEntries[r]]
      <4>1. \A r \in SubId : taskEntries[r] \in ended => r = s
        BY <1>a, <2>1 DEF EntriesOwn
      <4> HIDE DEF ended
      <4>2. taskEntries[s] \in ended
        BY DEF ended
      <4> QED BY <1>a, <3>1, <4>1, <4>2 DEF EntriesOwn
    <3> HIDE DEF ended
    <3>4. /\ runs' \in Seq(TaskRun) /\ DOMAIN runs' = DOMAIN runs
          /\ \A t \in DOMAIN runs : SameTask(runs[t], runs'[t])
          /\ \A t \in DOMAIN runs : (runs'[t].told <=> runs[t].told \/ t \in ended)
      BY <1>a, <3>1, ToldFacts
    <3>5. control' \in [at : {"idle", "waits", "answer", "over"},
                         what : {"none", "cancel", "unsubscribe", "close", "hangup", "shutdown"},
                         sess : TaskSession \cup {"none", "any"}, wait : SUBSET Nat]
      BY <1>e, <3>1, <3>2
    <3>6. (control'.at = "waits" /\ ended \subseteq control'.wait) /\ control'.what = "unsubscribe"
      BY <3>1, <3>2
    <3>7. CloseWaits'
      BY <3>6 DEF CloseWaits
    <3> QED BY <2>1, <3>1, <3>3, <3>4, <3>5, <3>6, <3>7, TasksAreTold
  <2>3. CASE SessionOf(taskEntries[s]) # x
    <3>1. /\ UNCHANGED <<runs, taskEntries, queryTasks, listTasks, pendingSubs, closedSessions>>
          /\ control' = [at |-> "answer", what |-> "unsubscribe", sess |-> "none", wait |-> {}]
      BY <1>12, <2>3 DEF TaskUnsubscribes, ThenWaits
    <3>2. TaskUnfinished' = TaskUnfinished
      BY <3>1 DEF TaskUnfinished
    <3>3. ControlTyped' /\ CloseWaits' /\ ToldAwaited'
      BY <1>a, <2>1, <3>1, <3>2 DEF ControlTyped, CloseWaits, ToldAwaited
    <3>4. RunsTyped' /\ MapsTyped' /\ QueriesListed' /\ EntriesOwn' /\ SubsEntered' /\ ClosedEmpty'
      BY <1>a, <3>1, <3>2
         DEF RunsTyped, MapsTyped, QueriesListed, EntriesOwn, SubsEntered, ClosedEmpty
    <3> QED BY <3>3, <3>4 DEF TasksInv
  <2> QED BY <2>2, <2>3
<1>13. ASSUME NEW x \in TaskSession, NEW what \in {"close", "cancel"}, EndsSession(what, x)
       PROVE  TasksInv'
  <2> DEFINE queries == InSession(queryTasks, x)
             subs == InSession({taskEntries[s] : s \in Registered}, x)
  <2>1. /\ control = TaskIdle /\ runs' = Told(subs, AbortedRuns(queries)) /\ queryTasks' = queryTasks \ queries
        /\ taskEntries' = [s \in SubId |-> IF taskEntries[s] \in subs THEN 0 ELSE taskEntries[s]]
        /\ control' = [at |-> IF subs = {} THEN "answer" ELSE "waits", what |-> what, sess |-> x, wait |-> subs]
        /\ UNCHANGED <<listTasks, pendingSubs, closedSessions>>
    BY <1>13 DEF EndsSession, Controls, EntriesWithout, ThenWaits
  <2>2. subs \subseteq Nat /\ queries \subseteq queryTasks
    BY <1>f DEF InSession, TaskUnfinished
  <2>3. \A t \in TaskUnfinished : runs[t].sess = x => t \in queries \/ t \in subs
    <3> SUFFICES ASSUME NEW t \in TaskUnfinished, runs[t].sess = x PROVE t \in queries \/ t \in subs
      OBVIOUS
    <3>1. t \in DOMAIN runs /\ runs[t] \in TaskRun
      BY <1>b DEF TaskUnfinished
    <3>2. CASE runs[t].kind = "query"
      BY <1>a, <3>2 DEF QueriesListed, InSession, SessionOf
    <3>3. CASE runs[t].kind = "sub"
      <4>1. ~runs[t].told
        BY <1>a, <2>1, <3>3 DEF ToldAwaited, TaskIdle
      <4>2. taskEntries[runs[t].sub] = t /\ runs[t].sub \in SubId /\ t # 0
        BY <1>a, <1>f, <3>1, <3>3, <4>1 DEF SubsEntered, RunsTyped
      <4>3. t \in {taskEntries[s] : s \in Registered}
        BY <4>2 DEF Registered
      <4> QED BY <4>3 DEF InSession, SessionOf
    <3>4. CASE runs[t].kind = "list"
      BY <1>a, <3>1, <3>4, TaskBounds DEF RunsTyped
    <3> QED BY <3>1, <3>2, <3>3, <3>4 DEF TaskRun
  <2> HIDE DEF queries, subs
  <2>4. /\ runs' \in Seq(TaskRun) /\ DOMAIN runs' = DOMAIN runs
        /\ \A t \in DOMAIN runs : SameTask(runs[t], runs'[t])
        /\ \A t \in DOMAIN runs : t \in queries => runs'[t].phase = "done"
        /\ \A t \in DOMAIN runs : t \notin queries => (runs'[t].told <=> runs[t].told \/ t \in subs)
    BY <1>a, <2>1, ToldFacts
  <2>5. \A t \in DOMAIN runs : runs[t].kind = "sub" /\ runs'[t].phase # "done" =>
                                 (runs'[t].told <=> runs[t].told \/ t \in subs)
    BY <2>4
  <2>6. \A t \in queryTasks \ queryTasks' : runs'[t].phase = "done" \/ runs[t].kind # "query"
    BY <1>a, <2>1, <2>2, <2>4 DEF MapsTyped
  <2>7. control' \in [at : {"idle", "waits", "answer", "over"},
                         what : {"none", "cancel", "unsubscribe", "close", "hangup", "shutdown"},
                         sess : TaskSession \cup {"none", "any"}, wait : SUBSET Nat]
    BY <1>e, <2>1, <2>2
  <2>8. /\ subs # {} => control'.at = "waits" /\ subs \subseteq control'.wait
        /\ control'.sess = x /\ control'.wait = subs /\ control'.at = IF subs = {} THEN "answer" ELSE "waits"
    BY <2>1
  <2>9. CloseWaits'
    <3>1. ASSUME NEW t \in TaskUnfinished', runs'[t].sess = x PROVE t \in subs
      <4>1. t \in DOMAIN runs /\ runs'[t].phase # "done" /\ runs[t].phase # "done" /\ runs[t].sess = x
        BY <2>4, <3>1 DEF TaskUnfinished, SameTask
      <4> QED BY <2>3, <2>4, <4>1 DEF TaskUnfinished
    <3> QED BY <2>8, <3>1 DEF CloseWaits
  <2>10. control.at = "idle" /\ queryTasks' \subseteq queryTasks
    BY <2>1 DEF TaskIdle
  <2> QED BY <2>1, <2>4, <2>5, <2>6, <2>7, <2>8, <2>9, <2>10, TasksAreTold
<1>14. ASSUME HangsUp PROVE TasksInv'
  <2> DEFINE queries == queryTasks \cap TaskUnfinished
             subs == {taskEntries[s] : s \in Registered}
  <2>1. /\ control = TaskIdle /\ runs' = Told(subs, AbortedRuns(queries)) /\ queryTasks' = {}
        /\ taskEntries' = [s \in SubId |-> 0]
        /\ control' = [at |-> "waits", what |-> "hangup", sess |-> "any", wait |-> subs]
        /\ UNCHANGED <<listTasks, pendingSubs, closedSessions>>
    BY <1>14 DEF HangsUp
  <2>2. subs \subseteq Nat /\ queries \subseteq queryTasks
    BY <1>f DEF Registered
  <2>3. taskEntries' = [s \in SubId |-> IF taskEntries[s] \in subs THEN 0 ELSE taskEntries[s]]
    <3>1. \A s \in SubId : taskEntries[s] \in subs \/ taskEntries[s] = 0
      BY DEF Registered
    <3> HIDE DEF subs
    <3> QED BY <2>1, <3>1
  <2>4. \A t \in queryTasks : t \in queries \/ (t \in DOMAIN runs /\ runs[t].phase = "done")
    BY <1>a DEF MapsTyped, TaskUnfinished
  <2> HIDE DEF queries, subs
  <2>5. /\ runs' \in Seq(TaskRun) /\ DOMAIN runs' = DOMAIN runs
        /\ \A t \in DOMAIN runs : SameTask(runs[t], runs'[t])
        /\ \A t \in DOMAIN runs : t \in queries => runs'[t].phase = "done"
        /\ \A t \in DOMAIN runs : t \notin queries => (runs'[t].told <=> runs[t].told \/ t \in subs)
    BY <1>a, <2>1, ToldFacts
  <2>6. \A t \in DOMAIN runs : runs[t].kind = "sub" /\ runs'[t].phase # "done" =>
                                 (runs'[t].told <=> runs[t].told \/ t \in subs)
    BY <2>5
  <2>7. \A t \in queryTasks \ queryTasks' : runs'[t].phase = "done" \/ runs[t].kind # "query"
    BY <1>a, <2>1, <2>2, <2>4, <2>5 DEF MapsTyped, SameTask
  <2>8. control' \in [at : {"idle", "waits", "answer", "over"},
                         what : {"none", "cancel", "unsubscribe", "close", "hangup", "shutdown"},
                         sess : TaskSession \cup {"none", "any"}, wait : SUBSET Nat]
    BY <2>1, <2>2
  <2>9. control'.at = "waits" /\ subs \subseteq control'.wait /\ control'.what = "hangup"
    BY <2>1
  <2>10. CloseWaits'
    BY <2>9 DEF CloseWaits
  <2>11. control.at = "idle" /\ queryTasks' \subseteq queryTasks
    BY <2>1 DEF TaskIdle
  <2> QED BY <2>1, <2>3, <2>5, <2>6, <2>7, <2>8, <2>9, <2>10, <2>11, TasksAreTold
<1>15. ASSUME ClosesLists PROVE TasksInv'
  <2>1. /\ control.at = "answer" /\ runs' = Told(listTasks, runs) /\ control.what = "hangup"
        /\ control' = [control EXCEPT !.at = "waits", !.what = "shutdown", !.wait = listTasks]
        /\ UNCHANGED <<queryTasks, listTasks, taskEntries, pendingSubs, closedSessions>>
    BY <1>15 DEF ClosesLists, ListsTold
  <2>2. /\ runs' \in Seq(TaskRun) /\ DOMAIN runs' = DOMAIN runs
        /\ \A t \in DOMAIN runs : SameTask(runs[t], runs'[t])
        /\ \A t \in DOMAIN runs : (runs'[t].told <=> runs[t].told \/ t \in listTasks)
    BY <1>a, <2>1, ToldFacts
  <2>3. \A t \in DOMAIN runs : runs[t].kind = "sub" => (runs'[t].told <=> runs[t].told)
    BY <1>a, <2>2 DEF MapsTyped
  <2>4. listTasks \subseteq Nat
    BY <1>a, <1>f DEF MapsTyped
  <2>5. control' \in [at : {"idle", "waits", "answer", "over"},
                         what : {"none", "cancel", "unsubscribe", "close", "hangup", "shutdown"},
                         sess : TaskSession \cup {"none", "any"}, wait : SUBSET Nat] /\ control'.what = "shutdown"
    BY <1>a, <2>1, <2>4 DEF ControlTyped
  <2>6. CloseWaits'
    BY <2>5 DEF CloseWaits
  <2>7. taskEntries' = [s \in SubId |-> IF taskEntries[s] \in {} THEN 0 ELSE taskEntries[s]]
    BY <1>a, <2>1 DEF EntriesOwn
  <2>8. pendingSubs' \subseteq pendingSubs /\ queryTasks' \subseteq queryTasks /\ queryTasks \ queryTasks' = {}
    BY <2>1
  <2> QED BY <2>1, <2>2, <2>3, <2>5, <2>6, <2>7, <2>8, TasksAreTold
<1>16. ASSUME WaitEnds \/ WaitExpires \/ AnswersControl \/ ConnectionOver PROVE TasksInv'
  <2>1. UNCHANGED <<runs, queryTasks, listTasks, taskEntries, pendingSubs>>
    BY <1>16 DEF WaitEnds, WaitExpires, AnswersControl, ConnectionOver
  <2>2. TaskUnfinished' = TaskUnfinished
    BY <2>1 DEF TaskUnfinished
  <2>3. RunsTyped' /\ QueriesListed' /\ EntriesOwn' /\ SubsEntered'
    BY <1>a, <2>1, <2>2 DEF RunsTyped, QueriesListed, EntriesOwn, SubsEntered
  <2>4. MapsTyped' /\ ControlTyped' /\ ToldAwaited' /\ CloseWaits' /\ ClosedEmpty'
    <3>1. CASE WaitEnds
      BY <1>a, <2>1, <2>2, <3>1
         DEF WaitEnds, MapsTyped, ControlTyped, ToldAwaited, CloseWaits, ClosedEmpty
    <3>2. CASE WaitExpires
      BY <1>a, <2>1, <2>2, <3>2
         DEF WaitExpires, MapsTyped, ControlTyped, ToldAwaited, CloseWaits, ClosedEmpty
    <3>3. CASE AnswersControl
      <4>1. /\ control.at = "answer" /\ control' = TaskIdle
            /\ closedSessions' = IF control.what = "close" THEN closedSessions \cup {control.sess} ELSE closedSessions
        BY <3>3 DEF AnswersControl
      <4>2. \A t \in TaskUnfinished : /\ ~(runs[t].kind = "sub" /\ runs[t].told)
                                      /\ control.what = "close" => runs[t].sess # control.sess
        BY <1>a, <4>1 DEF ToldAwaited, CloseWaits
      <4>3. control.what = "close" => control.sess \in TaskSession
        BY <1>a, <4>1 DEF CloseWaits
      <4>4. MapsTyped' /\ ClosedEmpty'
        BY <1>a, <2>1, <2>2, <4>1, <4>2, <4>3 DEF MapsTyped, ClosedEmpty
      <4>5. ControlTyped' /\ CloseWaits'
        BY <4>1 DEF ControlTyped, CloseWaits, TaskIdle
      <4>6. ToldAwaited'
        BY <2>1, <2>2, <4>2 DEF ToldAwaited
      <4> QED BY <4>4, <4>5, <4>6
    <3>4. CASE ConnectionOver
      BY <1>a, <2>1, <2>2, <3>4
         DEF ConnectionOver, MapsTyped, ControlTyped, ToldAwaited, CloseWaits, ClosedEmpty
    <3> QED BY <1>16, <3>1, <3>2, <3>3, <3>4
  <2> QED BY <2>3, <2>4 DEF TasksInv
<1>17. ASSUME UNCHANGED acpTaskVars PROVE TasksInv'
  BY <1>a, <1>17
     DEF acpTaskVars, TasksInv, RunsTyped, MapsTyped, ControlTyped, QueriesListed, EntriesOwn,
     SubsEntered, ToldAwaited, CloseWaits, ClosedEmpty, TaskUnfinished
<1> QED
  BY <1>1, <1>2, <1>3, <1>4, <1>5, <1>6, <1>7, <1>8, <1>9, <1>10, <1>11, <1>12, <1>13, <1>14,
     <1>15, <1>16, <1>17
     DEF TasksNext, RunSteps, TaskDispatcherSteps

LEMMA TasksHold == TasksInv => ClosedIsSilent /\ StreamHasEntry
BY DEF TasksInv, ClosedEmpty, ClosedIsSilent, SubsEntered, StreamHasEntry, SessionOf, RunsTyped

\* After a session is closed none of its queries or streams says anything more,
\* and a stream that runs has its entry in the connection's map: the close, the
\* cancellation and the reaping of the tasks beside the prompts, for any number
\* of tasks and any order of their ends.
THEOREM AcpTasksAreClean ==
  TasksInit /\ [][TasksNext]_acpTaskVars => [](ClosedIsSilent /\ StreamHasEntry)
BY TasksStart, TasksStay, TasksHold, PTL
=============================================================================
