--------------------------- MODULE HostAdmissionProofs ---------------------------
(* Proofs about the execution admission of one native session, for every set  *)
(* of commands and every capacity of the command channel.                     *)
EXTENDS HostAdmission, TLAPS

-----------------------------------------------------------------------------
(* What the admission operators return.                                       *)

(* Dropping tickets leaves a well-formed intent. *)
LEMMA RollbackType ==
    ASSUME intent \in Intent, NEW S
    PROVE  Rollback(S) \in Intent
BY DEF Rollback, NoIntent, Intent

(* Observing a native frame leaves a well-formed admission state. *)
LEMMA ObserveType ==
    ASSUME TypeOK, NEW f \in Frame, Observe(f)
    PROVE  /\ intent' \in Intent
           /\ nativeRun' \in Run \cup {NoCmd}
BY DEF TypeOK, FlagsOK, AdmissionOK, Observe, Intent, NoIntent, Frame, StartedIntent

(* Every step leaves the Boolean flags Boolean. *)
LEMMA FlagsStep ==
    ASSUME FlagsOK, [Next]_vars
    PROVE  FlagsOK'
<1>1. ASSUME NEW c \in Cmd, BeginOperation(c) PROVE FlagsOK'
  BY <1>1, Zenon DEF FlagsOK, BeginOperation, callerVars, writerVars, admissionVars, nativeVars, readerVars, retireVars
<1>2. ASSUME NEW c \in Cmd, Submit(c) PROVE FlagsOK'
  BY <1>2, Zenon DEF FlagsOK, Submit, callerVars, writerVars, admissionVars, nativeVars, readerVars, retireVars
<1>3. ASSUME NEW c \in Cmd, Admit(c) PROVE FlagsOK'
  BY <1>3, Zenon DEF FlagsOK, Admit, callerVars, writerVars, admissionVars, nativeVars, readerVars, retireVars
<1>4. ASSUME NEW c \in Cmd, Register(c) PROVE FlagsOK'
  BY <1>4, Zenon DEF FlagsOK, Register, callerVars, writerVars, admissionVars, nativeVars, readerVars, retireVars
<1>5. ASSUME NEW c \in Cmd, Enqueue(c) PROVE FlagsOK'
  BY <1>5, Zenon DEF FlagsOK, Enqueue, callerVars, writerVars, admissionVars, nativeVars, readerVars, retireVars
<1>6. ASSUME NEW c \in Cmd, Receive(c) PROVE FlagsOK'
  BY <1>6, Zenon DEF FlagsOK, Receive, callerVars, writerVars, admissionVars, nativeVars, readerVars, retireVars
<1>7. ASSUME NEW c \in Cmd, GiveUp(c) PROVE FlagsOK'
  BY <1>7, Zenon DEF FlagsOK, GiveUp, callerVars, writerVars, admissionVars, nativeVars, readerVars, retireVars
<1>8. ASSUME NEW c \in Cmd, DropTicket(c) PROVE FlagsOK'
  BY <1>8, Zenon DEF FlagsOK, DropTicket, callerVars, writerVars, admissionVars, nativeVars, readerVars, retireVars
<1>9. ASSUME NEW c \in Cmd, ReleaseLease(c) PROVE FlagsOK'
  BY <1>9, Zenon DEF FlagsOK, ReleaseLease, callerVars, writerVars, admissionVars, nativeVars, readerVars, retireVars
<1>10. CASE WriterTake
  BY <1>10, Zenon DEF FlagsOK, WriterTake, callerVars, writerVars, admissionVars, nativeVars, readerVars, retireVars
<1>11. CASE WriterPublish
  BY <1>11, Zenon DEF FlagsOK, WriterPublish, callerVars, writerVars, admissionVars, nativeVars, readerVars, retireVars
<1>12. CASE WriterWrite
  BY <1>12, Zenon DEF FlagsOK, WriterWrite, callerVars, writerVars, admissionVars, nativeVars, readerVars, retireVars
<1>13. CASE WriterAbort
  BY <1>13, Zenon DEF FlagsOK, WriterAbort, callerVars, writerVars, admissionVars, nativeVars, readerVars, retireVars
<1>14. CASE NativeAccept
  BY <1>14, Zenon DEF FlagsOK, NativeAccept, callerVars, writerVars, admissionVars, nativeVars, readerVars, retireVars
<1>15. CASE NativeReject
  BY <1>15, Zenon DEF FlagsOK, NativeReject, callerVars, writerVars, admissionVars, nativeVars, readerVars, retireVars
<1>16. CASE NativeAnswer
  BY <1>16, Zenon DEF FlagsOK, NativeAnswer, callerVars, writerVars, admissionVars, nativeVars, readerVars, retireVars
<1>17. CASE NativeRespond
  BY <1>17, Zenon DEF FlagsOK, NativeRespond, callerVars, writerVars, admissionVars, nativeVars, readerVars, retireVars
<1>18. CASE NativeStart
  BY <1>18, Zenon DEF FlagsOK, NativeStart, callerVars, writerVars, admissionVars, nativeVars, readerVars, retireVars
<1>19. CASE NativeSettle
  BY <1>19, Zenon DEF FlagsOK, NativeSettle, callerVars, writerVars, admissionVars, nativeVars, readerVars, retireVars
<1>20. CASE NativeExit
  BY <1>20, Zenon DEF FlagsOK, NativeExit, callerVars, writerVars, admissionVars, nativeVars, readerVars, retireVars
<1>21. ASSUME NEW r \in Spont, NativeSpontaneous(r) PROVE FlagsOK'
  BY <1>21, Zenon DEF FlagsOK, NativeSpontaneous, callerVars, writerVars, admissionVars, nativeVars, readerVars, retireVars
<1>22. CASE ReaderObserve
  BY <1>22, Zenon DEF FlagsOK, ReaderObserve, Observe, callerVars, writerVars, admissionVars, nativeVars, readerVars, retireVars
<1>23. CASE ReaderProject
  BY <1>23, Zenon DEF FlagsOK, ReaderProject, callerVars, writerVars, admissionVars, nativeVars, readerVars, retireVars
<1>24. CASE ReaderStop
  BY <1>24, Zenon DEF FlagsOK, ReaderStop, callerVars, writerVars, admissionVars, nativeVars, readerVars, retireVars
<1>25. CASE FailClosed
  BY <1>25, Zenon DEF FlagsOK, FailClosed, callerVars, writerVars, admissionVars, nativeVars, readerVars, retireVars
<1>26. CASE RetireBegin
  BY <1>26, Zenon DEF FlagsOK, RetireBegin, callerVars, writerVars, admissionVars, nativeVars, readerVars, retireVars
<1>27. CASE RetireLease
  BY <1>27, Zenon DEF FlagsOK, RetireLease, callerVars, writerVars, admissionVars, nativeVars, readerVars, retireVars
<1>28. CASE RetireSnapshot
  BY <1>28, Zenon DEF FlagsOK, RetireSnapshot, callerVars, writerVars, admissionVars, nativeVars, readerVars, retireVars
<1>29. CASE RetireUnsettled
  BY <1>29, Zenon DEF FlagsOK, RetireUnsettled, callerVars, writerVars, admissionVars, nativeVars, readerVars, retireVars
<1>30. CASE RetireProbed
  BY <1>30, Zenon DEF FlagsOK, RetireProbed, callerVars, writerVars, admissionVars, nativeVars, readerVars, retireVars
<1>31. CASE RetireClose
  BY <1>31, Zenon DEF FlagsOK, RetireClose, callerVars, writerVars, admissionVars, nativeVars, readerVars, retireVars
<1>32. CASE RetireDone
  BY <1>32, Zenon DEF FlagsOK, RetireDone, callerVars, writerVars, admissionVars, nativeVars, readerVars, retireVars
<1>33. ASSUME NEW p \in Probe, RetireProbe(p) PROVE FlagsOK'
  BY <1>33, Zenon DEF FlagsOK, RetireProbe, callerVars, writerVars, admissionVars, nativeVars, readerVars, retireVars
<1>34. CASE Terminated
  BY <1>34, Zenon DEF FlagsOK, Terminated, vars, callerVars, writerVars, admissionVars, nativeVars, readerVars, retireVars
<1>35. CASE UNCHANGED vars
  BY <1>35, Zenon DEF FlagsOK, vars, callerVars, writerVars, admissionVars, nativeVars, readerVars, retireVars
<1> QED
  BY <1>1, <1>2, <1>3, <1>4, <1>5, <1>6, <1>7, <1>8, <1>9, <1>10, <1>11, <1>12, <1>13, <1>14, <1>15, <1>16, <1>17, <1>18, <1>19, <1>20, <1>21, <1>22, <1>23, <1>24, <1>25, <1>26, <1>27, <1>28, <1>29, <1>30, <1>31, <1>32, <1>33, <1>34, <1>35
     DEF Next, CallerStep, WriterStep, NativeStep, ReaderStep, RetireStep

(* Every step leaves the callers, the lease and the correlation map well typed. *)
LEMMA CallersStep ==
    ASSUME TypeOK, [Next]_vars
    PROVE  CallersOK'
<1>1. ASSUME NEW c \in Cmd, BeginOperation(c) PROVE CallersOK'
  BY <1>1 DEF TypeOK, CallersOK, PipesOK, CallerState, BeginOperation, callerVars, writerVars, admissionVars, nativeVars, readerVars, retireVars
<1>2. ASSUME NEW c \in Cmd, Submit(c) PROVE CallersOK'
  BY <1>2 DEF TypeOK, CallersOK, PipesOK, CallerState, Submit, callerVars, writerVars, admissionVars, nativeVars, readerVars, retireVars
<1>3. ASSUME NEW c \in Cmd, Admit(c) PROVE CallersOK'
  BY <1>3 DEF TypeOK, CallersOK, PipesOK, CallerState, Admit, LeaseAfterError, callerVars, writerVars, admissionVars, nativeVars, readerVars, retireVars
<1>4. ASSUME NEW c \in Cmd, Register(c) PROVE CallersOK'
  BY <1>4 DEF TypeOK, CallersOK, PipesOK, CallerState, Register, LeaseAfterError, callerVars, writerVars, admissionVars, nativeVars, readerVars, retireVars
<1>5. ASSUME NEW c \in Cmd, Enqueue(c) PROVE CallersOK'
  BY <1>5 DEF TypeOK, CallersOK, PipesOK, CallerState, Enqueue, callerVars, writerVars, admissionVars, nativeVars, readerVars, retireVars
<1>6. ASSUME NEW c \in Cmd, Receive(c) PROVE CallersOK'
  BY <1>6 DEF TypeOK, CallersOK, PipesOK, CallerState, Receive, callerVars, writerVars, admissionVars, nativeVars, readerVars, retireVars
<1>7. ASSUME NEW c \in Cmd, GiveUp(c) PROVE CallersOK'
  BY <1>7 DEF TypeOK, CallersOK, PipesOK, CallerState, GiveUp, LeaseAfterError, callerVars, writerVars, admissionVars, nativeVars, readerVars, retireVars
<1>8. ASSUME NEW c \in Cmd, DropTicket(c) PROVE CallersOK'
  BY <1>8 DEF TypeOK, CallersOK, PipesOK, CallerState, DropTicket, LeaseAfterError, callerVars, writerVars, admissionVars, nativeVars, readerVars, retireVars
<1>9. ASSUME NEW c \in Cmd, ReleaseLease(c) PROVE CallersOK'
  BY <1>9 DEF TypeOK, CallersOK, PipesOK, CallerState, ReleaseLease, callerVars, writerVars, admissionVars, nativeVars, readerVars, retireVars
<1>10. CASE WriterTake
  BY <1>10 DEF TypeOK, CallersOK, PipesOK, CallerState, WriterTake, callerVars, writerVars, admissionVars, nativeVars, readerVars, retireVars
<1>11. CASE WriterPublish
  BY <1>11 DEF TypeOK, CallersOK, PipesOK, CallerState, WriterPublish, callerVars, writerVars, admissionVars, nativeVars, readerVars, retireVars
<1>12. CASE WriterWrite
  BY <1>12 DEF TypeOK, CallersOK, PipesOK, CallerState, WriterWrite, callerVars, writerVars, admissionVars, nativeVars, readerVars, retireVars
<1>13. CASE WriterAbort
  BY <1>13 DEF TypeOK, CallersOK, PipesOK, CallerState, WriterAbort, callerVars, writerVars, admissionVars, nativeVars, readerVars, retireVars
<1>14. CASE NativeAccept
  BY <1>14 DEF TypeOK, CallersOK, PipesOK, CallerState, NativeAccept, callerVars, writerVars, admissionVars, nativeVars, readerVars, retireVars
<1>15. CASE NativeReject
  BY <1>15 DEF TypeOK, CallersOK, PipesOK, CallerState, NativeReject, callerVars, writerVars, admissionVars, nativeVars, readerVars, retireVars
<1>16. CASE NativeAnswer
  BY <1>16 DEF TypeOK, CallersOK, PipesOK, CallerState, NativeAnswer, callerVars, writerVars, admissionVars, nativeVars, readerVars, retireVars
<1>17. CASE NativeRespond
  BY <1>17 DEF TypeOK, CallersOK, PipesOK, CallerState, NativeRespond, callerVars, writerVars, admissionVars, nativeVars, readerVars, retireVars
<1>18. CASE NativeStart
  BY <1>18 DEF TypeOK, CallersOK, PipesOK, CallerState, NativeStart, callerVars, writerVars, admissionVars, nativeVars, readerVars, retireVars
<1>19. CASE NativeSettle
  BY <1>19 DEF TypeOK, CallersOK, PipesOK, CallerState, NativeSettle, callerVars, writerVars, admissionVars, nativeVars, readerVars, retireVars
<1>20. CASE NativeExit
  BY <1>20 DEF TypeOK, CallersOK, PipesOK, CallerState, NativeExit, callerVars, writerVars, admissionVars, nativeVars, readerVars, retireVars
<1>21. ASSUME NEW r \in Spont, NativeSpontaneous(r) PROVE CallersOK'
  BY <1>21 DEF TypeOK, CallersOK, PipesOK, CallerState, NativeSpontaneous, callerVars, writerVars, admissionVars, nativeVars, readerVars, retireVars
<1>22. CASE ReaderObserve
  BY <1>22 DEF TypeOK, CallersOK, PipesOK, CallerState, ReaderObserve, callerVars, writerVars, admissionVars, nativeVars, readerVars, retireVars
<1>23. CASE ReaderProject
  BY <1>23 DEF TypeOK, CallersOK, PipesOK, CallerState, ReaderProject, Frame, NoFrame, callerVars, writerVars, admissionVars, nativeVars, readerVars, retireVars
<1>24. CASE ReaderStop
  BY <1>24 DEF TypeOK, CallersOK, PipesOK, CallerState, ReaderStop, FailPending, callerVars, writerVars, admissionVars, nativeVars, readerVars, retireVars
<1>25. CASE FailClosed
  BY <1>25 DEF TypeOK, CallersOK, PipesOK, CallerState, FailClosed, FailPending, callerVars, writerVars, admissionVars, nativeVars, readerVars, retireVars
<1>26. CASE RetireBegin
  BY <1>26 DEF TypeOK, CallersOK, PipesOK, CallerState, RetireBegin, RetireRefused, callerVars, writerVars, admissionVars, nativeVars, readerVars, retireVars
<1>27. CASE RetireLease
  BY <1>27 DEF TypeOK, CallersOK, PipesOK, CallerState, RetireLease, RetireRefused, callerVars, writerVars, admissionVars, nativeVars, readerVars, retireVars
<1>28. CASE RetireSnapshot
  BY <1>28 DEF TypeOK, CallersOK, PipesOK, CallerState, RetireSnapshot, RetireRefused, callerVars, writerVars, admissionVars, nativeVars, readerVars, retireVars
<1>29. CASE RetireUnsettled
  BY <1>29 DEF TypeOK, CallersOK, PipesOK, CallerState, RetireUnsettled, RetireRefused, callerVars, writerVars, admissionVars, nativeVars, readerVars, retireVars
<1>30. CASE RetireProbed
  BY <1>30 DEF TypeOK, CallersOK, PipesOK, CallerState, RetireProbed, RetireRefused, callerVars, writerVars, admissionVars, nativeVars, readerVars, retireVars
<1>31. CASE RetireClose
  BY <1>31 DEF TypeOK, CallersOK, PipesOK, CallerState, RetireClose, RetireRefused, callerVars, writerVars, admissionVars, nativeVars, readerVars, retireVars
<1>32. CASE RetireDone
  BY <1>32 DEF TypeOK, CallersOK, PipesOK, CallerState, RetireDone, RetireRefused, callerVars, writerVars, admissionVars, nativeVars, readerVars, retireVars
<1>33. ASSUME NEW p \in Probe, RetireProbe(p) PROVE CallersOK'
  BY <1>33 DEF TypeOK, CallersOK, PipesOK, CallerState, RetireProbe, RetireRefused, callerVars, writerVars, admissionVars, nativeVars, readerVars, retireVars
<1>34. CASE Terminated
  BY <1>34 DEF TypeOK, CallersOK, PipesOK, CallerState, Terminated, vars, callerVars, writerVars, admissionVars, nativeVars, readerVars, retireVars
<1>35. CASE UNCHANGED vars
  BY <1>35 DEF TypeOK, CallersOK, PipesOK, CallerState, vars, callerVars, writerVars, admissionVars, nativeVars, readerVars, retireVars
<1> QED
  BY <1>1, <1>2, <1>3, <1>4, <1>5, <1>6, <1>7, <1>8, <1>9, <1>10, <1>11, <1>12, <1>13, <1>14, <1>15, <1>16, <1>17, <1>18, <1>19, <1>20, <1>21, <1>22, <1>23, <1>24, <1>25, <1>26, <1>27, <1>28, <1>29, <1>30, <1>31, <1>32, <1>33, <1>34, <1>35
     DEF Next, CallerStep, WriterStep, NativeStep, ReaderStep, RetireStep

(* Every step keeps the channel within its capacity and the pipes well typed. *)
LEMMA PipesStep ==
    ASSUME TypeOK, [Next]_vars
    PROVE  PipesOK'
<1>1. ASSUME NEW c \in Cmd, BeginOperation(c) PROVE PipesOK'
  BY <1>1 DEF TypeOK, PipesOK, BeginOperation, callerVars, writerVars, admissionVars, nativeVars, readerVars, retireVars
<1>2. ASSUME NEW c \in Cmd, Submit(c) PROVE PipesOK'
  BY <1>2 DEF TypeOK, PipesOK, Submit, callerVars, writerVars, admissionVars, nativeVars, readerVars, retireVars
<1>3. ASSUME NEW c \in Cmd, Admit(c) PROVE PipesOK'
  BY <1>3 DEF TypeOK, PipesOK, Admit, callerVars, writerVars, admissionVars, nativeVars, readerVars, retireVars
<1>4. ASSUME NEW c \in Cmd, Register(c) PROVE PipesOK'
  BY <1>4 DEF TypeOK, PipesOK, Register, callerVars, writerVars, admissionVars, nativeVars, readerVars, retireVars
<1>5. ASSUME NEW c \in Cmd, Enqueue(c) PROVE PipesOK'
  <2>1. queue' = queue \/ (queue' = Append(queue, c) /\ Room)
    BY <1>5 DEF Enqueue
  <2>a. queue \in Seq(Cmd) /\ Len(queue) \in Nat /\ Len(queue) <= QueueCap /\ QueueCap \in Nat
    BY ConstantsAssumption DEF TypeOK, PipesOK
  <2>b. Append(queue, c) \in Seq(Cmd) /\ Len(Append(queue, c)) = Len(queue) + 1
    BY <2>a
  <2>c. Room => Len(queue) + 1 <= QueueCap
    BY <2>a DEF Room
  <2>2. queue' \in Seq(Cmd) /\ Len(queue') <= QueueCap
    BY <2>1, <2>a, <2>b, <2>c
  <2> QED
    BY <1>5, <2>2 DEF TypeOK, PipesOK, Enqueue, nativeVars, readerVars
<1>6. ASSUME NEW c \in Cmd, Receive(c) PROVE PipesOK'
  BY <1>6 DEF TypeOK, PipesOK, Receive, callerVars, writerVars, admissionVars, nativeVars, readerVars, retireVars
<1>7. ASSUME NEW c \in Cmd, GiveUp(c) PROVE PipesOK'
  BY <1>7 DEF TypeOK, PipesOK, GiveUp, callerVars, writerVars, admissionVars, nativeVars, readerVars, retireVars
<1>8. ASSUME NEW c \in Cmd, DropTicket(c) PROVE PipesOK'
  BY <1>8 DEF TypeOK, PipesOK, DropTicket, callerVars, writerVars, admissionVars, nativeVars, readerVars, retireVars
<1>9. ASSUME NEW c \in Cmd, ReleaseLease(c) PROVE PipesOK'
  BY <1>9 DEF TypeOK, PipesOK, ReleaseLease, callerVars, writerVars, admissionVars, nativeVars, readerVars, retireVars
<1>10. CASE WriterTake
  <2>1. queue \in Seq(Cmd) /\ queue # <<>> /\ Len(queue) <= QueueCap /\ queue' = Tail(queue)
    BY <1>10 DEF TypeOK, PipesOK, WriterTake
  <2>2. Head(queue) \in Cmd /\ queue' \in Seq(Cmd) /\ Len(queue') <= QueueCap
    BY <2>1, ConstantsAssumption
  <2>3. hand' \in Cmd \cup {NoCmd} /\ handStep' \in {"publish", "write"}
    BY <1>10, <2>2 DEF TypeOK, PipesOK, WriterTake
  <2> QED
    BY <1>10, <2>2, <2>3 DEF TypeOK, PipesOK, WriterTake, nativeVars, readerVars
<1>11. CASE WriterPublish
  BY <1>11 DEF TypeOK, PipesOK, WriterPublish, callerVars, writerVars, admissionVars, nativeVars, readerVars, retireVars
<1>12. CASE WriterWrite
  <2>1. /\ hand # NoCmd
        /\ inbox' = Append(inbox, hand) \/ inbox' = inbox
        /\ queue' = queue \/ queue' = <<>>
    BY <1>12, Zenon DEF WriterWrite
  <2>2. hand \in Cmd /\ inbox \in Seq(Cmd)
    BY <2>1 DEF TypeOK, PipesOK
  <2>3. inbox' \in Seq(Cmd)
    BY <2>1, <2>2
  <2>4. CASE queue' = queue
    BY <1>12, <2>3, <2>4 DEF TypeOK, PipesOK, WriterWrite, readerVars
  <2>5. CASE queue' = <<>>
    BY <1>12, <2>3, <2>5, ConstantsAssumption DEF TypeOK, PipesOK, WriterWrite, readerVars
  <2> QED
    BY <2>1, <2>4, <2>5
<1>13. CASE WriterAbort
  BY <1>13, ConstantsAssumption DEF TypeOK, PipesOK, WriterAbort, callerVars, writerVars, admissionVars, nativeVars, readerVars, retireVars
<1>14. CASE NativeAccept
  BY <1>14 DEF TypeOK, PipesOK, NativeAccept, callerVars, writerVars, admissionVars, nativeVars, readerVars, retireVars
<1>15. CASE NativeReject
  BY <1>15 DEF TypeOK, PipesOK, NativeReject, Frame, Response, callerVars, writerVars, admissionVars, nativeVars, readerVars, retireVars
<1>16. CASE NativeAnswer
  BY <1>16 DEF TypeOK, PipesOK, NativeAnswer, Frame, Response, callerVars, writerVars, admissionVars, nativeVars, readerVars, retireVars
<1>17. CASE NativeRespond
  BY <1>17 DEF TypeOK, PipesOK, NativeRespond, Frame, Response, Cmd, AdmissionOK, callerVars, writerVars, admissionVars, nativeVars, readerVars, retireVars
<1>18. CASE NativeStart
  BY <1>18 DEF TypeOK, PipesOK, NativeStart, Frame, Event, AdmissionOK, callerVars, writerVars, admissionVars, nativeVars, readerVars, retireVars
<1>19. CASE NativeSettle
  BY <1>19 DEF TypeOK, PipesOK, NativeSettle, Frame, Event, AdmissionOK, callerVars, writerVars, admissionVars, nativeVars, readerVars, retireVars
<1>20. CASE NativeExit
  BY <1>20 DEF TypeOK, PipesOK, NativeExit, callerVars, writerVars, admissionVars, nativeVars, readerVars, retireVars
<1>21. ASSUME NEW r \in Spont, NativeSpontaneous(r) PROVE PipesOK'
  BY <1>21 DEF TypeOK, PipesOK, NativeSpontaneous, callerVars, writerVars, admissionVars, nativeVars, readerVars, retireVars
<1>22. CASE ReaderObserve
  BY <1>22 DEF TypeOK, PipesOK, ReaderObserve, callerVars, writerVars, admissionVars, nativeVars, readerVars, retireVars
<1>23. CASE ReaderProject
  BY <1>23 DEF TypeOK, PipesOK, ReaderProject, callerVars, writerVars, admissionVars, nativeVars, readerVars, retireVars
<1>24. CASE ReaderStop
  BY <1>24 DEF TypeOK, PipesOK, ReaderStop, callerVars, writerVars, admissionVars, nativeVars, readerVars, retireVars
<1>25. CASE FailClosed
  BY <1>25 DEF TypeOK, PipesOK, FailClosed, callerVars, writerVars, admissionVars, nativeVars, readerVars, retireVars
<1>26. CASE RetireBegin
  BY <1>26 DEF TypeOK, PipesOK, RetireBegin, callerVars, writerVars, admissionVars, nativeVars, readerVars, retireVars
<1>27. CASE RetireLease
  BY <1>27 DEF TypeOK, PipesOK, RetireLease, callerVars, writerVars, admissionVars, nativeVars, readerVars, retireVars
<1>28. CASE RetireSnapshot
  BY <1>28 DEF TypeOK, PipesOK, RetireSnapshot, callerVars, writerVars, admissionVars, nativeVars, readerVars, retireVars
<1>29. CASE RetireUnsettled
  BY <1>29 DEF TypeOK, PipesOK, RetireUnsettled, callerVars, writerVars, admissionVars, nativeVars, readerVars, retireVars
<1>30. CASE RetireProbed
  BY <1>30 DEF TypeOK, PipesOK, RetireProbed, callerVars, writerVars, admissionVars, nativeVars, readerVars, retireVars
<1>31. CASE RetireClose
  BY <1>31 DEF TypeOK, PipesOK, RetireClose, callerVars, writerVars, admissionVars, nativeVars, readerVars, retireVars
<1>32. CASE RetireDone
  BY <1>32 DEF TypeOK, PipesOK, RetireDone, callerVars, writerVars, admissionVars, nativeVars, readerVars, retireVars
<1>33. ASSUME NEW p \in Probe, RetireProbe(p) PROVE PipesOK'
  BY <1>33 DEF TypeOK, PipesOK, RetireProbe, callerVars, writerVars, admissionVars, nativeVars, readerVars, retireVars
<1>34. CASE Terminated
  BY <1>34 DEF TypeOK, PipesOK, Terminated, vars, callerVars, writerVars, admissionVars, nativeVars, readerVars, retireVars
<1>35. CASE UNCHANGED vars
  BY <1>35 DEF TypeOK, PipesOK, vars, callerVars, writerVars, admissionVars, nativeVars, readerVars, retireVars
<1> QED
  BY <1>1, <1>2, <1>3, <1>4, <1>5, <1>6, <1>7, <1>8, <1>9, <1>10, <1>11, <1>12, <1>13, <1>14, <1>15, <1>16, <1>17, <1>18, <1>19, <1>20, <1>21, <1>22, <1>23, <1>24, <1>25, <1>26, <1>27, <1>28, <1>29, <1>30, <1>31, <1>32, <1>33, <1>34, <1>35
     DEF Next, CallerStep, WriterStep, NativeStep, ReaderStep, RetireStep

(* Every step leaves the intent, the runs and the retirement well typed. *)
LEMMA AdmissionStep ==
    ASSUME TypeOK, [Next]_vars
    PROVE  AdmissionOK'
<1>1. ASSUME NEW c \in Cmd, BeginOperation(c) PROVE AdmissionOK'
  BY <1>1 DEF TypeOK, AdmissionOK, BeginOperation, callerVars, writerVars, admissionVars, nativeVars, readerVars, retireVars
<1>2. ASSUME NEW c \in Cmd, Submit(c) PROVE AdmissionOK'
  BY <1>2 DEF TypeOK, AdmissionOK, Submit, callerVars, writerVars, admissionVars, nativeVars, readerVars, retireVars
<1>3. ASSUME NEW c \in Cmd, Admit(c) PROVE AdmissionOK'
  BY <1>3 DEF TypeOK, AdmissionOK, Admit, callerVars, writerVars, admissionVars, nativeVars, readerVars, retireVars
<1>4. ASSUME NEW c \in Cmd, Register(c) PROVE AdmissionOK'
  BY <1>4 DEF TypeOK, AdmissionOK, Register, Intent, NoIntent, callerVars, writerVars, admissionVars, nativeVars, readerVars, retireVars
<1>5. ASSUME NEW c \in Cmd, Enqueue(c) PROVE AdmissionOK'
  BY <1>5 DEF TypeOK, AdmissionOK, Enqueue, callerVars, writerVars, admissionVars, nativeVars, readerVars, retireVars
<1>6. ASSUME NEW c \in Cmd, Receive(c) PROVE AdmissionOK'
  BY <1>6, RollbackType DEF TypeOK, AdmissionOK, Receive, callerVars, writerVars, admissionVars, nativeVars, readerVars, retireVars
<1>7. ASSUME NEW c \in Cmd, GiveUp(c) PROVE AdmissionOK'
  BY <1>7 DEF TypeOK, AdmissionOK, GiveUp, callerVars, writerVars, admissionVars, nativeVars, readerVars, retireVars
<1>8. ASSUME NEW c \in Cmd, DropTicket(c) PROVE AdmissionOK'
  BY <1>8, RollbackType DEF TypeOK, AdmissionOK, DropTicket, callerVars, writerVars, admissionVars, nativeVars, readerVars, retireVars
<1>9. ASSUME NEW c \in Cmd, ReleaseLease(c) PROVE AdmissionOK'
  BY <1>9 DEF TypeOK, AdmissionOK, ReleaseLease, callerVars, writerVars, admissionVars, nativeVars, readerVars, retireVars
<1>10. CASE WriterTake
  BY <1>10, RollbackType DEF TypeOK, AdmissionOK, WriterTake, callerVars, writerVars, admissionVars, nativeVars, readerVars, retireVars
<1>11. CASE WriterPublish
  BY <1>11 DEF TypeOK, AdmissionOK, WriterPublish, Intent, callerVars, writerVars, admissionVars, nativeVars, readerVars, retireVars
<1>12. CASE WriterWrite
  BY <1>12, RollbackType DEF TypeOK, AdmissionOK, WriterWrite, callerVars, writerVars, admissionVars, nativeVars, readerVars, retireVars
<1>13. CASE WriterAbort
  BY <1>13, RollbackType DEF TypeOK, AdmissionOK, WriterAbort, callerVars, writerVars, admissionVars, nativeVars, readerVars, retireVars
<1>14. CASE NativeAccept
  BY <1>14 DEF TypeOK, AdmissionOK, NativeAccept, Run, callerVars, writerVars, admissionVars, nativeVars, readerVars, retireVars
<1>15. CASE NativeReject
  BY <1>15 DEF TypeOK, AdmissionOK, NativeReject, callerVars, writerVars, admissionVars, nativeVars, readerVars, retireVars
<1>16. CASE NativeAnswer
  BY <1>16 DEF TypeOK, AdmissionOK, NativeAnswer, PipesOK, callerVars, writerVars, admissionVars, nativeVars, readerVars, retireVars
<1>17. CASE NativeRespond
  BY <1>17 DEF TypeOK, AdmissionOK, NativeRespond, callerVars, writerVars, admissionVars, nativeVars, readerVars, retireVars
<1>18. CASE NativeStart
  BY <1>18 DEF TypeOK, AdmissionOK, NativeStart, callerVars, writerVars, admissionVars, nativeVars, readerVars, retireVars
<1>19. CASE NativeSettle
  BY <1>19 DEF TypeOK, AdmissionOK, NativeSettle, callerVars, writerVars, admissionVars, nativeVars, readerVars, retireVars
<1>20. CASE NativeExit
  BY <1>20 DEF TypeOK, AdmissionOK, NativeExit, callerVars, writerVars, admissionVars, nativeVars, readerVars, retireVars
<1>21. ASSUME NEW r \in Spont, NativeSpontaneous(r) PROVE AdmissionOK'
  BY <1>21 DEF TypeOK, AdmissionOK, NativeSpontaneous, Run, callerVars, writerVars, admissionVars, nativeVars, readerVars, retireVars
<1>22. CASE ReaderObserve
  BY <1>22, ObserveType DEF TypeOK, AdmissionOK, ReaderObserve, PipesOK, callerVars, writerVars, admissionVars, nativeVars, readerVars, retireVars
<1>23. CASE ReaderProject
  BY <1>23 DEF TypeOK, AdmissionOK, ReaderProject, callerVars, writerVars, admissionVars, nativeVars, readerVars, retireVars
<1>24. CASE ReaderStop
  BY <1>24 DEF TypeOK, AdmissionOK, ReaderStop, callerVars, writerVars, admissionVars, nativeVars, readerVars, retireVars
<1>25. CASE FailClosed
  BY <1>25 DEF TypeOK, AdmissionOK, FailClosed, callerVars, writerVars, admissionVars, nativeVars, readerVars, retireVars
<1>26. CASE RetireBegin
  BY <1>26 DEF TypeOK, AdmissionOK, RetireBegin, RetireState, RetireRefused, callerVars, writerVars, admissionVars, nativeVars, readerVars, retireVars
<1>27. CASE RetireLease
  BY <1>27 DEF TypeOK, AdmissionOK, RetireLease, RetireState, RetireRefused, callerVars, writerVars, admissionVars, nativeVars, readerVars, retireVars
<1>28. CASE RetireSnapshot
  BY <1>28 DEF TypeOK, AdmissionOK, RetireSnapshot, RetireState, RetireRefused, callerVars, writerVars, admissionVars, nativeVars, readerVars, retireVars
<1>29. CASE RetireUnsettled
  BY <1>29 DEF TypeOK, AdmissionOK, RetireUnsettled, RetireState, RetireRefused, callerVars, writerVars, admissionVars, nativeVars, readerVars, retireVars
<1>30. CASE RetireProbed
  BY <1>30 DEF TypeOK, AdmissionOK, RetireProbed, RetireState, RetireRefused, callerVars, writerVars, admissionVars, nativeVars, readerVars, retireVars
<1>31. CASE RetireClose
  BY <1>31 DEF TypeOK, AdmissionOK, RetireClose, RetireState, RetireRefused, callerVars, writerVars, admissionVars, nativeVars, readerVars, retireVars
<1>32. CASE RetireDone
  BY <1>32 DEF TypeOK, AdmissionOK, RetireDone, RetireState, RetireRefused, callerVars, writerVars, admissionVars, nativeVars, readerVars, retireVars
<1>33. ASSUME NEW p \in Probe, RetireProbe(p) PROVE AdmissionOK'
  BY <1>33 DEF TypeOK, AdmissionOK, RetireProbe, RetireState, RetireRefused, callerVars, writerVars, admissionVars, nativeVars, readerVars, retireVars
<1>34. CASE Terminated
  BY <1>34 DEF TypeOK, AdmissionOK, Terminated, vars, callerVars, writerVars, admissionVars, nativeVars, readerVars, retireVars
<1>35. CASE UNCHANGED vars
  BY <1>35 DEF TypeOK, AdmissionOK, vars, callerVars, writerVars, admissionVars, nativeVars, readerVars, retireVars
<1> QED
  BY <1>1, <1>2, <1>3, <1>4, <1>5, <1>6, <1>7, <1>8, <1>9, <1>10, <1>11, <1>12, <1>13, <1>14, <1>15, <1>16, <1>17, <1>18, <1>19, <1>20, <1>21, <1>22, <1>23, <1>24, <1>25, <1>26, <1>27, <1>28, <1>29, <1>30, <1>31, <1>32, <1>33, <1>34, <1>35
     DEF Next, CallerStep, WriterStep, NativeStep, ReaderStep, RetireStep

(* Type correctness: every variable of the host session keeps its type, and   *)
(* the command channel never holds more than its capacity.                    *)
THEOREM TypeCorrect == Spec => []TypeOK
<1>1. Init => FlagsOK
  BY Zenon DEF Init, FlagsOK
<1>2. Init => CallersOK /\ PipesOK /\ AdmissionOK
  BY ConstantsAssumption
     DEF Init, CallersOK, PipesOK, AdmissionOK, CallerState, RetireState, NoIntent, Intent
<1>3. TypeOK /\ [Next]_vars => TypeOK'
  BY FlagsStep, CallersStep, PipesStep, AdmissionStep DEF TypeOK
<1> QED BY <1>1, <1>2, <1>3, PTL DEF Spec, TypeOK

-----------------------------------------------------------------------------
(***************************************************************************)
(* The inductive strengthening of ExecutionCovered, first part: a command  *)
(* is at one place of the pipeline at a time and never comes back.         *)
(***************************************************************************)
Early(c) == caller[c] \in {"new", "admit", "gate", "registered"}
Once(c, s) == \A i, j \in 1 .. Len(s) : s[i] = c /\ s[j] = c => i = j
FrameIn(c, s) == \E i \in 1 .. Len(s) : s[i].id = c

\* A rejection or a settlement is the last frame of its command.
Terminal(c) == {Event("agent_settled", c), Response(c, "fail")}
EndedIn(c, s) == \E i \in 1 .. Len(s) : s[i] \in Terminal(c)
LastIn(c, s) ==
    \A i, j \in 1 .. Len(s) : s[i] \in Terminal(c) /\ j > i => s[j].id # c

Life(c) ==
    /\ Early(c) => ~InSeq(c, queue) /\ hand # c /\ ~InSeq(c, inbox) /\ active # c /\ ~FrameIn(c, out)
    /\ InSeq(c, queue) => hand # c /\ ~InSeq(c, inbox) /\ active # c /\ ~FrameIn(c, out)
    /\ hand = c => ~InSeq(c, inbox) /\ active # c /\ ~FrameIn(c, out)
    /\ InSeq(c, inbox) => active # c /\ ~FrameIn(c, out)
    /\ EndedIn(c, out) => active # c
    /\ Once(c, queue) /\ Once(c, inbox) /\ LastIn(c, out)

Lifecycle == \A c \in Cmd : Life(c)

-----------------------------------------------------------------------------
(* Sequences as the model uses them: what Append and Tail do to membership,    *)
(* to single occurrence and to positions.                                      *)

(* Appending adds exactly the new element. *)
LEMMA InAppend ==
    ASSUME NEW S, NEW s \in Seq(S), NEW y \in S, NEW x
    PROVE  InSeq(x, Append(s, y)) <=> InSeq(x, s) \/ x = y
<1>1. Len(Append(s, y)) = Len(s) + 1 /\ Append(s, y)[Len(s) + 1] = y
  OBVIOUS
<1>2. \A i \in 1 .. Len(s) : Append(s, y)[i] = s[i]
  OBVIOUS
<1>3. ASSUME InSeq(x, Append(s, y)) PROVE InSeq(x, s) \/ x = y
  <2>1. PICK i \in 1 .. Len(Append(s, y)) : Append(s, y)[i] = x
    BY <1>3 DEF InSeq
  <2> QED BY <1>1, <1>2, <2>1 DEF InSeq
<1>4. ASSUME InSeq(x, s) PROVE InSeq(x, Append(s, y))
  <2>1. PICK i \in 1 .. Len(s) : s[i] = x
    BY <1>4 DEF InSeq
  <2>2. i \in 1 .. Len(Append(s, y)) /\ Append(s, y)[i] = x
    BY <1>1, <1>2, <2>1
  <2> QED BY <2>2 DEF InSeq
<1>5. ASSUME x = y PROVE InSeq(x, Append(s, y))
  BY <1>1, <1>5 DEF InSeq
<1> QED BY <1>3, <1>4, <1>5

(* The head and the tail of a nonempty sequence, position by position. *)
LEMMA TailFacts ==
    ASSUME NEW S, NEW s \in Seq(S), s # <<>>
    PROVE  /\ Head(s) \in S /\ Tail(s) \in Seq(S)
           /\ Len(s) \in Nat \ {0} /\ Len(Tail(s)) = Len(s) - 1
           /\ Head(s) = s[1]
           /\ \A i \in 1 .. Len(Tail(s)) : i + 1 \in 1 .. Len(s) /\ Tail(s)[i] = s[i + 1]
OBVIOUS

(* What the tail holds, the sequence held. *)
LEMMA InTail ==
    ASSUME NEW S, NEW s \in Seq(S), s # <<>>, NEW x, InSeq(x, Tail(s))
    PROVE  InSeq(x, s)
<1>1. PICK i \in 1 .. Len(Tail(s)) : Tail(s)[i] = x
  BY DEF InSeq
<1> QED BY <1>1, TailFacts DEF InSeq

(* The head is an element, and with a single occurrence it is not in the tail. *)
LEMMA HeadOnce ==
    ASSUME NEW S, NEW s \in Seq(S), s # <<>>
    PROVE  /\ InSeq(Head(s), s)
           /\ Once(Head(s), s) => ~InSeq(Head(s), Tail(s))
<1>1. InSeq(Head(s), s)
  BY TailFacts DEF InSeq
<1>2. ASSUME Once(Head(s), s), InSeq(Head(s), Tail(s)) PROVE FALSE
  <2>1. PICK i \in 1 .. Len(Tail(s)) : Tail(s)[i] = Head(s)
    BY <1>2 DEF InSeq
  <2>2. i + 1 \in 1 .. Len(s) /\ 1 \in 1 .. Len(s) /\ s[i + 1] = Head(s) /\ s[1] = Head(s)
    BY <2>1, TailFacts
  <2> QED BY <1>2, <2>2 DEF Once
<1> QED BY <1>1, <1>2

(* Single occurrence survives Tail, and Append of what is not there yet. *)
LEMMA OnceTail ==
    ASSUME NEW S, NEW s \in Seq(S), s # <<>>, NEW x, Once(x, s)
    PROVE  Once(x, Tail(s))
<1> SUFFICES ASSUME NEW i \in 1 .. Len(Tail(s)), NEW j \in 1 .. Len(Tail(s)),
                    Tail(s)[i] = x, Tail(s)[j] = x
             PROVE  i = j
  BY DEF Once
<1>1. s[i + 1] = x /\ s[j + 1] = x /\ i + 1 \in 1 .. Len(s) /\ j + 1 \in 1 .. Len(s)
  BY TailFacts
<1>2. i + 1 = j + 1
  BY <1>1 DEF Once
<1> QED BY <1>2

LEMMA OnceAppend ==
    ASSUME NEW S, NEW s \in Seq(S), NEW y \in S, NEW x,
           Once(x, s), x # y \/ ~InSeq(x, s)
    PROVE  Once(x, Append(s, y))
<1> SUFFICES ASSUME NEW i \in 1 .. Len(Append(s, y)), NEW j \in 1 .. Len(Append(s, y)),
                    Append(s, y)[i] = x, Append(s, y)[j] = x
             PROVE  i = j
  BY DEF Once
<1>1. Len(Append(s, y)) = Len(s) + 1 /\ Append(s, y)[Len(s) + 1] = y
      /\ Len(s) \in Nat /\ \A k \in 1 .. Len(s) : Append(s, y)[k] = s[k]
  OBVIOUS
<1>2. CASE i \in 1 .. Len(s) /\ j \in 1 .. Len(s)
  BY <1>1, <1>2 DEF Once
<1>3. CASE i \in 1 .. Len(s) /\ j = Len(s) + 1
  BY <1>1, <1>3 DEF InSeq
<1>4. CASE j \in 1 .. Len(s) /\ i = Len(s) + 1
  BY <1>1, <1>4 DEF InSeq
<1>5. CASE i = Len(s) + 1 /\ j = Len(s) + 1
  BY <1>5
<1> QED BY <1>1, <1>2, <1>3, <1>4, <1>5

(* Nothing is in the empty sequence. *)
LEMMA InEmpty == ASSUME NEW x PROVE ~InSeq(x, <<>>) /\ Once(x, <<>>)
BY DEF InSeq, Once

(* What a new frame and a consumed frame do to the frames of a command. *)
LEMMA FrameAppend ==
    ASSUME NEW S, NEW s \in Seq(S), NEW f \in S, NEW c
    PROVE  /\ FrameIn(c, Append(s, f)) <=> FrameIn(c, s) \/ f.id = c
           /\ EndedIn(c, Append(s, f)) <=> EndedIn(c, s) \/ f \in Terminal(c)
           /\ LastIn(c, s) /\ (EndedIn(c, s) => f.id # c) => LastIn(c, Append(s, f))
<1> DEFINE t == Append(s, f)
<1>1. /\ Len(t) = Len(s) + 1 /\ t[Len(s) + 1] = f /\ Len(s) \in Nat
      /\ \A k \in 1 .. Len(s) : t[k] = s[k] /\ k \in 1 .. Len(t)
      /\ Len(s) + 1 \in 1 .. Len(t)
      /\ \A k \in 1 .. Len(t) : k \in 1 .. Len(s) \/ k = Len(s) + 1
  OBVIOUS
<1> HIDE DEF t
<1>2. FrameIn(c, t) <=> FrameIn(c, s) \/ f.id = c
  BY <1>1 DEF FrameIn
<1>3. EndedIn(c, t) <=> EndedIn(c, s) \/ f \in Terminal(c)
  BY <1>1 DEF EndedIn
<1>4. ASSUME LastIn(c, s), EndedIn(c, s) => f.id # c PROVE LastIn(c, t)
  <2> SUFFICES ASSUME NEW i \in 1 .. Len(t), NEW j \in 1 .. Len(t), t[i] \in Terminal(c), j > i
               PROVE  t[j].id # c
    BY DEF LastIn
  <2>1. i \in 1 .. Len(s) /\ s[i] \in Terminal(c)
    BY <1>1
  <2>2. EndedIn(c, s)
    BY <2>1 DEF EndedIn
  <2>3. CASE j \in 1 .. Len(s)
    BY <1>1, <1>4, <2>1, <2>3 DEF LastIn
  <2>4. CASE j = Len(s) + 1
    BY <1>1, <1>4, <2>2, <2>4
  <2> QED BY <1>1, <2>3, <2>4
<1> QED BY <1>2, <1>3, <1>4 DEF t

LEMMA FrameTail ==
    ASSUME NEW S, NEW s \in Seq(S), s # <<>>, NEW c
    PROVE  /\ FrameIn(c, Tail(s)) => FrameIn(c, s)
           /\ EndedIn(c, Tail(s)) => EndedIn(c, s)
           /\ LastIn(c, s) => LastIn(c, Tail(s))
           /\ LastIn(c, s) /\ Head(s) \in Terminal(c) => ~FrameIn(c, Tail(s))
<1> DEFINE t == Tail(s)
<1>1. /\ Len(s) \in Nat \ {0} /\ Len(t) = Len(s) - 1 /\ Head(s) = s[1] /\ 1 \in 1 .. Len(s)
      /\ \A i \in 1 .. Len(t) : i + 1 \in 1 .. Len(s) /\ i + 1 > 1 /\ t[i] = s[i + 1]
  BY TailFacts
<1> HIDE DEF t
<1>2. FrameIn(c, t) => FrameIn(c, s)
  BY <1>1 DEF FrameIn
<1>3. EndedIn(c, t) => EndedIn(c, s)
  BY <1>1 DEF EndedIn
<1>4. ASSUME LastIn(c, s) PROVE LastIn(c, t)
  <2> SUFFICES ASSUME NEW i \in 1 .. Len(t), NEW j \in 1 .. Len(t), t[i] \in Terminal(c), j > i
               PROVE  t[j].id # c
    BY DEF LastIn
  <2>1. s[i + 1] \in Terminal(c) /\ j + 1 > i + 1 /\ i + 1 \in 1 .. Len(s) /\ j + 1 \in 1 .. Len(s)
    BY <1>1
  <2> QED BY <1>1, <1>4, <2>1 DEF LastIn
<1>5. ASSUME LastIn(c, s), Head(s) \in Terminal(c), FrameIn(c, t) PROVE FALSE
  <2>1. PICK i \in 1 .. Len(t) : t[i].id = c
    BY <1>5 DEF FrameIn
  <2> QED BY <1>1, <1>5, <2>1 DEF LastIn
<1> QED BY <1>2, <1>3, <1>4, <1>5 DEF t

(* A terminal frame is a frame of its command. *)
LEMMA EndedFrame ==
    ASSUME NEW s, NEW c, EndedIn(c, s)
    PROVE  FrameIn(c, s)
BY DEF EndedIn, FrameIn, Terminal, Event, Response

-----------------------------------------------------------------------------
(* A step that moves no command forward, and at most empties the writer's hand, *)
(* keeps every command where it was.                                            *)
LEMMA LifeStays ==
    ASSUME NEW c \in Cmd, Life(c), Early(c)' => Early(c),
           queue' = queue, hand' = hand \/ hand' # c, inbox' = inbox, active' = active, out' = out
    PROVE  Life(c)'
BY DEF Life

(* A command is at one place of the pipeline at a time: every step of every     *)
(* actor preserves it.                                                          *)
LEMMA LifecycleStep ==
    ASSUME TypeOK, Lifecycle, [Next]_vars
    PROVE  Lifecycle'
<1> SUFFICES ASSUME NEW c \in Cmd PROVE Life(c)'
  BY DEF Lifecycle
<1>1. Life(c) /\ c \in Cmd /\ c # NoCmd /\ c \notin Spont
  BY ConstantsAssumption DEF Lifecycle, Cmd
<1>2. /\ queue \in Seq(Cmd) /\ inbox \in Seq(Cmd) /\ out \in Seq(Frame)
      /\ hand \in Cmd \cup {NoCmd} /\ active \in Run \cup {NoCmd} /\ caller \in [Cmd -> CallerState]
  BY DEF TypeOK, PipesOK, CallersOK, AdmissionOK
<1>3. ASSUME NEW d \in Cmd, BeginOperation(d) PROVE Life(c)'
  BY <1>1, <1>2, <1>3, LifeStays DEF BeginOperation, Early, callerVars, writerVars, admissionVars, nativeVars, readerVars, retireVars
<1>4. ASSUME NEW d \in Cmd, Submit(d) PROVE Life(c)'
  BY <1>1, <1>2, <1>4, LifeStays DEF Submit, Early, callerVars, writerVars, admissionVars, nativeVars, readerVars, retireVars
<1>5. ASSUME NEW d \in Cmd, Admit(d) PROVE Life(c)'
  BY <1>1, <1>2, <1>5, LifeStays DEF Admit, Early, callerVars, writerVars, admissionVars, nativeVars, readerVars, retireVars
<1>6. ASSUME NEW d \in Cmd, Register(d) PROVE Life(c)'
  BY <1>1, <1>2, <1>6, LifeStays DEF Register, Early, callerVars, writerVars, admissionVars, nativeVars, readerVars, retireVars
<1>7. ASSUME NEW d \in Cmd, Receive(d) PROVE Life(c)'
  BY <1>1, <1>2, <1>7, LifeStays DEF Receive, Early, callerVars, writerVars, admissionVars, nativeVars, readerVars, retireVars
<1>8. ASSUME NEW d \in Cmd, GiveUp(d) PROVE Life(c)'
  BY <1>1, <1>2, <1>8, LifeStays DEF GiveUp, Early, callerVars, writerVars, admissionVars, nativeVars, readerVars, retireVars
<1>9. ASSUME NEW d \in Cmd, DropTicket(d) PROVE Life(c)'
  BY <1>1, <1>2, <1>9, LifeStays DEF DropTicket, Early, callerVars, writerVars, admissionVars, nativeVars, readerVars, retireVars
<1>10. ASSUME NEW d \in Cmd, ReleaseLease(d) PROVE Life(c)'
  BY <1>1, <1>2, <1>10, LifeStays DEF ReleaseLease, Early, callerVars, writerVars, admissionVars, nativeVars, readerVars, retireVars
<1>11. CASE WriterPublish
  BY <1>1, <1>2, <1>11, LifeStays DEF WriterPublish, Early, callerVars, writerVars, admissionVars, nativeVars, readerVars, retireVars
<1>12. CASE NativeExit
  BY <1>1, <1>2, <1>12, LifeStays DEF NativeExit, Early, callerVars, writerVars, admissionVars, nativeVars, readerVars, retireVars
<1>13. CASE ReaderProject
  BY <1>1, <1>2, <1>13, LifeStays DEF ReaderProject, Early, callerVars, writerVars, admissionVars, nativeVars, readerVars, retireVars
<1>14. CASE ReaderStop
  BY <1>1, <1>2, <1>14, LifeStays DEF ReaderStop, Early, callerVars, writerVars, admissionVars, nativeVars, readerVars, retireVars
<1>15. CASE FailClosed
  BY <1>1, <1>2, <1>15, LifeStays DEF FailClosed, Early, callerVars, writerVars, admissionVars, nativeVars, readerVars, retireVars
<1>16. CASE RetireBegin
  BY <1>1, <1>2, <1>16, LifeStays DEF RetireBegin, Early, callerVars, writerVars, admissionVars, nativeVars, readerVars, retireVars
<1>17. CASE RetireLease
  BY <1>1, <1>2, <1>17, LifeStays DEF RetireLease, Early, callerVars, writerVars, admissionVars, nativeVars, readerVars, retireVars
<1>18. CASE RetireSnapshot
  BY <1>1, <1>2, <1>18, LifeStays DEF RetireSnapshot, Early, callerVars, writerVars, admissionVars, nativeVars, readerVars, retireVars
<1>19. CASE RetireUnsettled
  BY <1>1, <1>2, <1>19, LifeStays DEF RetireUnsettled, Early, callerVars, writerVars, admissionVars, nativeVars, readerVars, retireVars
<1>20. CASE RetireProbed
  BY <1>1, <1>2, <1>20, LifeStays DEF RetireProbed, Early, callerVars, writerVars, admissionVars, nativeVars, readerVars, retireVars
<1>21. CASE RetireClose
  BY <1>1, <1>2, <1>21, LifeStays DEF RetireClose, Early, callerVars, writerVars, admissionVars, nativeVars, readerVars, retireVars
<1>22. CASE RetireDone
  BY <1>1, <1>2, <1>22, LifeStays DEF RetireDone, Early, callerVars, writerVars, admissionVars, nativeVars, readerVars, retireVars
<1>23. CASE Terminated
  BY <1>1, <1>2, <1>23, LifeStays DEF Terminated, Early, callerVars, writerVars, admissionVars, nativeVars, readerVars, retireVars, vars
<1>24. ASSUME NEW p \in Probe, RetireProbe(p) PROVE Life(c)'
  BY <1>1, <1>2, <1>24, LifeStays DEF RetireProbe, Early, callerVars, writerVars, admissionVars, nativeVars, readerVars, retireVars
<1>25. CASE UNCHANGED vars
  BY <1>1, <1>25, LifeStays DEF Early, vars, callerVars, writerVars, admissionVars, nativeVars, readerVars, retireVars
<1>26. ASSUME NEW d \in Cmd, Enqueue(d) PROVE Life(c)'
  <2>1. /\ hand' = hand /\ inbox' = inbox /\ active' = active /\ out' = out
        /\ Early(c)' => Early(c)
        /\ c = d => Early(c) /\ ~Early(c)'
        /\ queue' = queue \/ queue' = Append(queue, d)
    BY <1>1, <1>2, <1>26 DEF Enqueue, Early, nativeVars
  <2>2. CASE queue' = queue
    BY <1>1, <2>1, <2>2, LifeStays
  <2>3. CASE queue' = Append(queue, d)
    <3>1. InSeq(c, queue') <=> InSeq(c, queue) \/ c = d
      BY <1>2, <2>3, InAppend
    <3>2. Once(c, queue')
      BY <1>1, <1>2, <2>1, <2>3, OnceAppend DEF Life
    <3> QED BY <1>1, <2>1, <3>1, <3>2 DEF Life
  <2> QED BY <2>1, <2>2, <2>3
<1>27. CASE WriterTake
  <2>1. /\ queue # <<>> /\ queue' = Tail(queue) /\ inbox' = inbox /\ active' = active /\ out' = out
        /\ caller' = caller /\ hand = NoCmd /\ (hand' = hand \/ hand' = Head(queue))
    BY <1>27 DEF WriterTake, callerVars, nativeVars
  <2>2. /\ InSeq(c, queue') => InSeq(c, queue)
        /\ c = Head(queue) => InSeq(c, queue) /\ ~InSeq(c, queue')
        /\ Once(c, queue')
    BY <1>1, <1>2, <2>1, InTail, HeadOnce, OnceTail DEF Life
  <2>3. Early(c)' = Early(c)
    BY <2>1 DEF Early
  <2> QED BY <1>1, <2>1, <2>2, <2>3 DEF Life
<1>28. CASE WriterWrite
  <2>1. /\ hand # NoCmd /\ hand' = NoCmd /\ active' = active /\ out' = out /\ caller' = caller
        /\ \/ inbox' = Append(inbox, hand) /\ queue' = queue
           \/ inbox' = inbox /\ queue' = <<>>
    BY <1>28, Zenon DEF WriterWrite, callerVars
  <2>2. Early(c)' = Early(c)
    BY <2>1 DEF Early
  <2>3. CASE inbox' = Append(inbox, hand) /\ queue' = queue
    <3>1. hand \in Cmd
      BY <1>2, <2>1
    <3>2. InSeq(c, inbox') <=> InSeq(c, inbox) \/ c = hand
      BY <1>2, <2>3, <3>1, InAppend
    <3>3. Once(c, inbox')
      BY <1>1, <1>2, <2>3, <3>1, OnceAppend DEF Life
    <3> QED BY <1>1, <2>1, <2>2, <2>3, <3>2, <3>3 DEF Life
  <2>4. CASE inbox' = inbox /\ queue' = <<>>
    <3>1. ~InSeq(c, queue') /\ Once(c, queue')
      BY <2>4, InEmpty
    <3> QED BY <1>1, <2>1, <2>2, <2>4, <3>1 DEF Life
  <2> QED BY <2>1, <2>3, <2>4
<1>29. CASE WriterAbort
  <2>1. /\ hand' = NoCmd /\ queue' = <<>> /\ inbox' = inbox /\ active' = active /\ out' = out
        /\ caller' = caller
    BY <1>29 DEF WriterAbort, callerVars, nativeVars
  <2>2. ~InSeq(c, queue') /\ Once(c, queue') /\ Early(c)' = Early(c)
    BY <2>1, InEmpty DEF Early
  <2> QED BY <1>1, <2>1, <2>2 DEF Life
<1>30. CASE NativeAccept
  <2>1. /\ inbox # <<>> /\ inbox' = Tail(inbox) /\ active = NoCmd /\ active' = Head(inbox)
        /\ out' = out /\ hand' = hand /\ queue' = queue /\ caller' = caller
    BY <1>30 DEF NativeAccept, callerVars, writerVars
  <2>2. /\ InSeq(c, inbox') => InSeq(c, inbox)
        /\ c = Head(inbox) => InSeq(c, inbox) /\ ~InSeq(c, inbox')
        /\ Once(c, inbox')
    BY <1>1, <1>2, <2>1, InTail, HeadOnce, OnceTail DEF Life
  <2>3. Early(c)' = Early(c)
    BY <2>1 DEF Early
  <2>4. EndedIn(c, out) => FrameIn(c, out)
    BY EndedFrame
  <2> QED BY <1>1, <2>1, <2>2, <2>3, <2>4 DEF Life
<1>31. CASE NativeReject
  <2>1. /\ inbox # <<>> /\ inbox' = Tail(inbox) /\ active' = active
        /\ hand' = hand /\ queue' = queue /\ caller' = caller
    BY <1>31 DEF NativeReject, callerVars, writerVars
  <2>2. PICK r \in {"ok", "busy", "fail"} : out' = Append(out, Response(Head(inbox), r))
    BY <1>31 DEF NativeReject
  <2>3. /\ InSeq(c, inbox') => InSeq(c, inbox)
        /\ c = Head(inbox) => InSeq(c, inbox) /\ ~InSeq(c, inbox')
        /\ Once(c, inbox')
    BY <1>1, <1>2, <2>1, InTail, HeadOnce, OnceTail DEF Life
  <2>4. /\ Response(Head(inbox), r) \in Frame
        /\ Response(Head(inbox), r).id = Head(inbox)
        /\ Response(Head(inbox), r) \in Terminal(c) => c = Head(inbox)
    BY <1>2, <2>1, TailFacts DEF Response, Event, Frame, Terminal
  <2>5. EndedIn(c, out) => FrameIn(c, out)
    BY EndedFrame
  <2>6. /\ FrameIn(c, out') <=> FrameIn(c, out) \/ c = Head(inbox)
        /\ EndedIn(c, out') => EndedIn(c, out) \/ c = Head(inbox)
        /\ LastIn(c, out')
    BY <1>1, <1>2, <2>2, <2>3, <2>4, <2>5, FrameAppend DEF Life
  <2>7. Early(c)' = Early(c)
    BY <2>1 DEF Early
  <2> QED BY <1>1, <2>1, <2>3, <2>5, <2>6, <2>7 DEF Life
<1>32. CASE NativeAnswer
  <2>1. /\ inbox # <<>> /\ inbox' = Tail(inbox) /\ active' = active
        /\ hand' = hand /\ queue' = queue /\ caller' = caller
    BY <1>32 DEF NativeAnswer, callerVars, writerVars
  <2>2. PICK r \in {"ok", "busy", "fail"} : out' = Append(out, Response(Head(inbox), r))
    BY <1>32 DEF NativeAnswer
  <2>3. /\ InSeq(c, inbox') => InSeq(c, inbox)
        /\ c = Head(inbox) => InSeq(c, inbox) /\ ~InSeq(c, inbox')
        /\ Once(c, inbox')
    BY <1>1, <1>2, <2>1, InTail, HeadOnce, OnceTail DEF Life
  <2>4. /\ Response(Head(inbox), r) \in Frame
        /\ Response(Head(inbox), r).id = Head(inbox)
        /\ Response(Head(inbox), r) \in Terminal(c) => c = Head(inbox)
    BY <1>2, <2>1, TailFacts DEF Response, Event, Frame, Terminal
  <2>5. EndedIn(c, out) => FrameIn(c, out)
    BY EndedFrame
  <2>6. /\ FrameIn(c, out') <=> FrameIn(c, out) \/ c = Head(inbox)
        /\ EndedIn(c, out') => EndedIn(c, out) \/ c = Head(inbox)
        /\ LastIn(c, out')
    BY <1>1, <1>2, <2>2, <2>3, <2>4, <2>5, FrameAppend DEF Life
  <2>7. Early(c)' = Early(c)
    BY <2>1 DEF Early
  <2> QED BY <1>1, <2>1, <2>3, <2>5, <2>6, <2>7 DEF Life
<1>33. CASE NativeRespond
  <2>1. /\ active # NoCmd /\ active' = active /\ out' = Append(out, Response(active, "ok"))
        /\ active \in Exec
        /\ hand' = hand /\ queue' = queue /\ inbox' = inbox /\ caller' = caller
    BY <1>1, <1>2, <1>33, ConstantsAssumption DEF NativeRespond, callerVars, writerVars, Exec, Cmd
  <2>2. /\ Response(active, "ok") \in Frame
        /\ Response(active, "ok").id = active
        /\ Response(active, "ok") \in Terminal(c) => c = active /\ FALSE
    BY <1>2, <2>1 DEF Response, Event, Frame, Terminal, Cmd
  <2>3. /\ FrameIn(c, out') <=> FrameIn(c, out) \/ c = active
        /\ EndedIn(c, out') => EndedIn(c, out) \/ FALSE
        /\ LastIn(c, out')
    BY <1>1, <1>2, <2>1, <2>2, FrameAppend DEF Life
  <2>4. Early(c)' = Early(c)
    BY <2>1 DEF Early
  <2> QED BY <1>1, <2>1, <2>3, <2>4 DEF Life
<1>34. CASE NativeStart
  <2>1. /\ active # NoCmd /\ active' = active /\ out' = Append(out, Event("agent_start", active))
        /\ hand' = hand /\ queue' = queue /\ inbox' = inbox /\ caller' = caller
    BY <1>1, <1>2, <1>34, ConstantsAssumption DEF NativeStart, callerVars, writerVars, Exec, Cmd
  <2>2. /\ Event("agent_start", active) \in Frame
        /\ Event("agent_start", active).id = active
        /\ Event("agent_start", active) \in Terminal(c) => c = active /\ FALSE
    BY <1>2, <2>1 DEF Response, Event, Frame, Terminal, Cmd
  <2>3. /\ FrameIn(c, out') <=> FrameIn(c, out) \/ c = active
        /\ EndedIn(c, out') => EndedIn(c, out) \/ FALSE
        /\ LastIn(c, out')
    BY <1>1, <1>2, <2>1, <2>2, FrameAppend DEF Life
  <2>4. Early(c)' = Early(c)
    BY <2>1 DEF Early
  <2> QED BY <1>1, <2>1, <2>3, <2>4 DEF Life
<1>35. CASE NativeSettle
  <2>1. /\ active # NoCmd /\ active' = NoCmd /\ out' = Append(out, Event("agent_settled", active))
        /\ hand' = hand /\ queue' = queue /\ inbox' = inbox /\ caller' = caller
    BY <1>1, <1>2, <1>35, ConstantsAssumption DEF NativeSettle, callerVars, writerVars, Exec, Cmd
  <2>2. /\ Event("agent_settled", active) \in Frame
        /\ Event("agent_settled", active).id = active
        /\ Event("agent_settled", active) \in Terminal(c) => c = active
    BY <1>2, <2>1 DEF Response, Event, Frame, Terminal, Cmd
  <2>3. /\ FrameIn(c, out') <=> FrameIn(c, out) \/ c = active
        /\ EndedIn(c, out') => EndedIn(c, out) \/ c = active
        /\ LastIn(c, out')
    BY <1>1, <1>2, <2>1, <2>2, FrameAppend DEF Life
  <2>4. Early(c)' = Early(c)
    BY <2>1 DEF Early
  <2> QED BY <1>1, <2>1, <2>3, <2>4 DEF Life
<1>36. ASSUME NEW r \in Spont, NativeSpontaneous(r) PROVE Life(c)'
  <2>1. /\ active' = r /\ out' = out /\ hand' = hand /\ queue' = queue /\ inbox' = inbox /\ caller' = caller
    BY <1>36 DEF NativeSpontaneous, callerVars, writerVars
  <2>2. Early(c)' = Early(c) /\ active' # c
    BY <1>1, <2>1 DEF Early
  <2> QED BY <1>1, <2>1, <2>2 DEF Life
<1>37. CASE ReaderObserve
  <2>1. /\ out # <<>> /\ out' = Tail(out)
        /\ active' = active /\ hand' = hand /\ queue' = queue /\ inbox' = inbox /\ caller' = caller
    BY <1>37 DEF ReaderObserve, callerVars, writerVars, nativeVars
  <2>2. /\ FrameIn(c, out') => FrameIn(c, out)
        /\ EndedIn(c, out') => EndedIn(c, out)
        /\ LastIn(c, out')
    BY <1>1, <1>2, <2>1, FrameTail DEF Life
  <2>3. Early(c)' = Early(c)
    BY <2>1 DEF Early
  <2> QED BY <1>1, <2>1, <2>2, <2>3 DEF Life
<1> QED
  BY <1>3, <1>4, <1>5, <1>6, <1>7, <1>8, <1>9, <1>10, <1>11, <1>12, <1>13, <1>14, <1>15, <1>16, <1>17, <1>18, <1>19, <1>20, <1>21, <1>22, <1>23, <1>24, <1>25, <1>26, <1>27, <1>28, <1>29, <1>30, <1>31, <1>32, <1>33, <1>34, <1>35, <1>36, <1>37
     DEF Next, CallerStep, WriterStep, NativeStep, ReaderStep, RetireStep

-----------------------------------------------------------------------------
(***************************************************************************)
(* Second part: between the acceptance of a command and its own settlement *)
(* no other run settles. An accepted intent knows that much, or nothing of *)
(* its command is left anywhere. The latter is the intent a compaction may *)
(* leave behind (see ReleasedUnlessMisbound).                              *)
(***************************************************************************)
AcceptIn(c, s) == \E k \in 1 .. Len(s) : s[k] = Response(c, "ok")
SettledIn(c, s) == \E j \in 1 .. Len(s) : s[j] = Event("agent_settled", c)
Foreign(c, f) == f.type = "agent_settled" /\ f.id # c
SettlesBefore(c, s, i) == \E j \in 1 .. Len(s) : j < i /\ s[j] = Event("agent_settled", c)
NextSettles(c, s) == \A i \in 1 .. Len(s) : Foreign(c, s[i]) => SettlesBefore(c, s, i)
AfterAccept(c, s) ==
    \A k, i \in 1 .. Len(s) :
        s[k] = Response(c, "ok") /\ i > k /\ Foreign(c, s[i]) => SettlesBefore(c, s, i)

Gone(c) ==
    /\ ~Early(c) /\ ~InSeq(c, queue) /\ hand # c /\ ~InSeq(c, inbox)
    /\ active # c /\ ~FrameIn(c, out)

Order(c) ==
    /\ AfterAccept(c, out)
    /\ AcceptIn(c, out) => active = c \/ SettledIn(c, out)
    /\ intent.cmd = c /\ intent.accepted =>
          Gone(c) \/ (NextSettles(c, out) /\ (active = c \/ SettledIn(c, out)))

Covered(c) == Outstanding(c) => intent.cmd = c /\ intent.published

CoverInv == TypeOK /\ Lifecycle /\ \A c \in Exec : Order(c) /\ Covered(c)

(* What a new frame does to the settlement order. *)
LEMMA OrderAppend ==
    ASSUME NEW S, NEW s \in Seq(S), NEW f \in S, NEW c
    PROVE  /\ AcceptIn(c, Append(s, f)) <=> AcceptIn(c, s) \/ f = Response(c, "ok")
           /\ SettledIn(c, Append(s, f)) <=> SettledIn(c, s) \/ f = Event("agent_settled", c)
           /\ NextSettles(c, s) /\ (Foreign(c, f) => SettledIn(c, s)) => NextSettles(c, Append(s, f))
           /\ AfterAccept(c, s) /\ (Foreign(c, f) /\ AcceptIn(c, s) => SettledIn(c, s))
                => AfterAccept(c, Append(s, f))
<1> DEFINE t == Append(s, f)
<1>1. /\ Len(t) = Len(s) + 1 /\ t[Len(s) + 1] = f /\ Len(s) \in Nat
      /\ \A k \in 1 .. Len(s) : t[k] = s[k] /\ k \in 1 .. Len(t) /\ k < Len(s) + 1
      /\ Len(s) + 1 \in 1 .. Len(t)
      /\ \A k \in 1 .. Len(t) : k \in 1 .. Len(s) \/ k = Len(s) + 1
  OBVIOUS
<1> HIDE DEF t
<1>2. AcceptIn(c, t) <=> AcceptIn(c, s) \/ f = Response(c, "ok")
  BY <1>1 DEF AcceptIn
<1>3. SettledIn(c, t) <=> SettledIn(c, s) \/ f = Event("agent_settled", c)
  BY <1>1 DEF SettledIn
<1>4. \A i \in 1 .. Len(s) : SettlesBefore(c, s, i) => SettlesBefore(c, t, i)
  BY <1>1 DEF SettlesBefore
<1>5. SettledIn(c, s) => SettlesBefore(c, t, Len(s) + 1)
  BY <1>1 DEF SettlesBefore, SettledIn
<1>6. ASSUME NextSettles(c, s), Foreign(c, f) => SettledIn(c, s) PROVE NextSettles(c, t)
  BY <1>1, <1>4, <1>5, <1>6 DEF NextSettles
<1>7. ASSUME AfterAccept(c, s), Foreign(c, f) /\ AcceptIn(c, s) => SettledIn(c, s)
      PROVE  AfterAccept(c, t)
  <2> SUFFICES ASSUME NEW k \in 1 .. Len(t), NEW i \in 1 .. Len(t),
                      t[k] = Response(c, "ok"), i > k, Foreign(c, t[i])
               PROVE  SettlesBefore(c, t, i)
    BY DEF AfterAccept
  <2>1. k \in 1 .. Len(s) /\ s[k] = Response(c, "ok")
    BY <1>1
  <2>2. CASE i \in 1 .. Len(s)
    BY <1>1, <1>4, <1>7, <2>1, <2>2 DEF AfterAccept
  <2>3. CASE i = Len(s) + 1
    BY <1>1, <1>5, <1>7, <2>1, <2>3 DEF AcceptIn
  <2> QED BY <1>1, <2>2, <2>3
<1> QED BY <1>2, <1>3, <1>6, <1>7 DEF t

(* What a consumed frame does to it. *)
LEMMA OrderTail ==
    ASSUME NEW S, NEW s \in Seq(S), s # <<>>, NEW c
    PROVE  /\ AcceptIn(c, Tail(s)) => AcceptIn(c, s) /\ FrameIn(c, Tail(s))
           /\ SettledIn(c, s) => SettledIn(c, Tail(s)) \/ Head(s) = Event("agent_settled", c)
           /\ NextSettles(c, s) /\ Head(s) # Event("agent_settled", c) => NextSettles(c, Tail(s))
           /\ AfterAccept(c, s) /\ LastIn(c, s) => AfterAccept(c, Tail(s))
           /\ AfterAccept(c, s) /\ Head(s) = Response(c, "ok") => NextSettles(c, Tail(s))
           /\ ~(NextSettles(c, s) /\ Foreign(c, Head(s)))
<1> DEFINE t == Tail(s)
<1>1. /\ Len(s) \in Nat \ {0} /\ Len(t) = Len(s) - 1 /\ Head(s) = s[1] /\ 1 \in 1 .. Len(s)
      /\ \A i \in 1 .. Len(t) : i + 1 \in 1 .. Len(s) /\ i + 1 > 1 /\ t[i] = s[i + 1]
      /\ \A j \in 1 .. Len(s) : j = 1 \/ (j - 1 \in 1 .. Len(t) /\ t[j - 1] = s[j])
  BY TailFacts
<1> HIDE DEF t
<1>2. AcceptIn(c, t) => AcceptIn(c, s) /\ FrameIn(c, t)
  BY <1>1 DEF AcceptIn, FrameIn, Response
<1>3. SettledIn(c, s) => SettledIn(c, t) \/ Head(s) = Event("agent_settled", c)
  BY <1>1 DEF SettledIn
<1>4. ASSUME NEW i \in 1 .. Len(t), SettlesBefore(c, s, i + 1), s[1] # Event("agent_settled", c)
      PROVE  SettlesBefore(c, t, i)
  <2>1. PICK j \in 1 .. Len(s) : j < i + 1 /\ s[j] = Event("agent_settled", c)
    BY <1>4 DEF SettlesBefore
  <2>2. j - 1 \in 1 .. Len(t) /\ t[j - 1] = Event("agent_settled", c) /\ j - 1 < i
    BY <1>1, <1>4, <2>1
  <2> QED BY <2>2 DEF SettlesBefore
<1>5. ASSUME NextSettles(c, s), Head(s) # Event("agent_settled", c) PROVE NextSettles(c, t)
  BY <1>1, <1>4, <1>5 DEF NextSettles
<1>6. ASSUME AfterAccept(c, s), LastIn(c, s) PROVE AfterAccept(c, t)
  <2> SUFFICES ASSUME NEW k \in 1 .. Len(t), NEW i \in 1 .. Len(t),
                      t[k] = Response(c, "ok"), i > k, Foreign(c, t[i])
               PROVE  SettlesBefore(c, t, i)
    BY DEF AfterAccept
  <2>1. SettlesBefore(c, s, i + 1)
    BY <1>1, <1>6 DEF AfterAccept
  <2>2. s[k + 1].id = c /\ k + 1 > 1 /\ k + 1 \in 1 .. Len(s)
    BY <1>1 DEF Response
  <2>3. s[1] # Event("agent_settled", c)
    BY <1>1, <1>6, <2>2 DEF LastIn, Terminal
  <2> QED BY <1>4, <2>1, <2>3
<1>7. ASSUME AfterAccept(c, s), Head(s) = Response(c, "ok") PROVE NextSettles(c, t)
  <2>1. s[1] # Event("agent_settled", c)
    BY <1>1, <1>7 DEF Response, Event
  <2> SUFFICES ASSUME NEW i \in 1 .. Len(t), Foreign(c, t[i]) PROVE SettlesBefore(c, t, i)
    BY DEF NextSettles
  <2>2. SettlesBefore(c, s, i + 1)
    BY <1>1, <1>7 DEF AfterAccept
  <2> QED BY <1>4, <2>1, <2>2
<1>8. ~(NextSettles(c, s) /\ Foreign(c, Head(s)))
  BY <1>1 DEF NextSettles, SettlesBefore
<1> QED BY <1>2, <1>3, <1>5, <1>6, <1>7, <1>8 DEF t

-----------------------------------------------------------------------------
(* A step that moves no command, and leaves an accepted intent and the cover    *)
(* of an outstanding execution alone, preserves the settlement order.           *)
LEMMA CoverStays ==
    ASSUME NEW c \in Exec, Order(c), Covered(c), Early(c)' => Early(c),
           queue' = queue, hand' = hand \/ hand' # c, inbox' = inbox, active' = active, out' = out,
           Outstanding(c)' => Outstanding(c),
           intent'.cmd = c /\ intent'.accepted => intent.cmd = c /\ intent.accepted,
           Outstanding(c) /\ intent.cmd = c /\ intent.published
               => intent'.cmd = c /\ intent'.published
    PROVE  Order(c)' /\ Covered(c)'
<1>1. Covered(c)'
  BY DEF Covered
<1>2. Gone(c) => Gone(c)'
  BY DEF Gone
<1>3. Order(c)'
  BY <1>2 DEF Order
<1> QED BY <1>1, <1>3

(* Dropping tickets never accepts an intent nor touches a published one. *)
LEMMA RollbackKeeps ==
    ASSUME NEW S, NEW c \in Exec, intent' = Rollback(S)
    PROVE  /\ intent'.cmd = c /\ intent'.accepted => intent.cmd = c /\ intent.accepted
           /\ intent.cmd = c /\ intent.published => intent'.cmd = c /\ intent'.published
BY ConstantsAssumption DEF Rollback, NoIntent, Exec, Cmd

(* Every step of every actor preserves the settlement order and the cover of    *)
(* outstanding executions.                                                      *)
LEMMA CoverStep ==
    ASSUME CoverInv, [Next]_vars
    PROVE  \A c \in Exec : Order(c)' /\ Covered(c)'
<1> SUFFICES ASSUME NEW c \in Exec PROVE Order(c)' /\ Covered(c)'
  OBVIOUS
<1>1. Life(c) /\ Order(c) /\ Covered(c) /\ c \in Cmd /\ c # NoCmd /\ c \notin Spont /\ c \notin Probe
  BY ConstantsAssumption DEF CoverInv, Lifecycle, Cmd
<1>2. /\ queue \in Seq(Cmd) /\ inbox \in Seq(Cmd) /\ out \in Seq(Frame)
      /\ hand \in Cmd \cup {NoCmd} /\ active \in Run \cup {NoCmd} /\ caller \in [Cmd -> CallerState]
      /\ intent \in Intent
  BY DEF CoverInv, TypeOK, PipesOK, CallersOK, AdmissionOK
<1>3. ASSUME NEW d \in Cmd, BeginOperation(d) PROVE Order(c)' /\ Covered(c)'
  BY <1>1, <1>2, <1>3, CoverStays DEF BeginOperation, Early, Outstanding, callerVars, writerVars, admissionVars, nativeVars, readerVars, retireVars
<1>4. ASSUME NEW d \in Cmd, Submit(d) PROVE Order(c)' /\ Covered(c)'
  BY <1>1, <1>2, <1>4, CoverStays DEF Submit, Early, Outstanding, callerVars, writerVars, admissionVars, nativeVars, readerVars, retireVars
<1>5. ASSUME NEW d \in Cmd, Admit(d) PROVE Order(c)' /\ Covered(c)'
  BY <1>1, <1>2, <1>5, CoverStays DEF Admit, Early, Outstanding, callerVars, writerVars, admissionVars, nativeVars, readerVars, retireVars
<1>6. ASSUME NEW d \in Cmd, GiveUp(d) PROVE Order(c)' /\ Covered(c)'
  BY <1>1, <1>2, <1>6, CoverStays DEF GiveUp, Early, Outstanding, callerVars, writerVars, admissionVars, nativeVars, readerVars, retireVars
<1>7. ASSUME NEW d \in Cmd, ReleaseLease(d) PROVE Order(c)' /\ Covered(c)'
  BY <1>1, <1>2, <1>7, CoverStays DEF ReleaseLease, Early, Outstanding, callerVars, writerVars, admissionVars, nativeVars, readerVars, retireVars
<1>8. ASSUME NEW d \in Cmd, Register(d) PROVE Order(c)' /\ Covered(c)'
  <2>1. /\ Early(c)' => Early(c)
        /\ intent' = intent \/ (intent = NoIntent /\ intent' = [NoIntent EXCEPT !.cmd = d])
        /\ queue' = queue /\ hand' = hand /\ handStep' = handStep /\ inbox' = inbox
        /\ active' = active /\ out' = out
    BY <1>1, <1>2, <1>8 DEF Register, Early, Unsettled, writerVars, nativeVars
  <2>2. /\ Outstanding(c)' => Outstanding(c)
        /\ intent'.cmd = c /\ intent'.accepted => intent.cmd = c /\ intent.accepted
        /\ intent.cmd = c => intent' = intent
    BY <1>1, <2>1 DEF Outstanding, NoIntent
  <2> QED BY <1>1, <2>1, <2>2, CoverStays
<1>9. ASSUME NEW d \in Cmd, Receive(d) PROVE Order(c)' /\ Covered(c)'
  <2>1. /\ Early(c)' => Early(c)
        /\ intent' = Rollback({d})
        /\ Outstanding(c)' => Outstanding(c)
        /\ queue' = queue /\ hand' = hand /\ inbox' = inbox /\ active' = active /\ out' = out
    BY <1>1, <1>2, <1>9 DEF Receive, Early, Outstanding, writerVars, nativeVars
  <2> QED BY <1>1, <2>1, CoverStays, RollbackKeeps
<1>10. ASSUME NEW d \in Cmd, DropTicket(d) PROVE Order(c)' /\ Covered(c)'
  <2>1. /\ Early(c)' => Early(c)
        /\ intent' = Rollback({d})
        /\ Outstanding(c)' => Outstanding(c)
        /\ queue' = queue /\ hand' = hand /\ inbox' = inbox /\ active' = active /\ out' = out
    BY <1>1, <1>2, <1>10 DEF DropTicket, Early, Outstanding, writerVars, nativeVars
  <2> QED BY <1>1, <2>1, CoverStays, RollbackKeeps
<1>11. CASE NativeExit
  BY <1>1, <1>2, <1>11, CoverStays DEF NativeExit, Early, Outstanding, callerVars, writerVars, admissionVars, nativeVars, readerVars, retireVars
<1>12. CASE ReaderProject
  BY <1>1, <1>2, <1>12, CoverStays DEF ReaderProject, Early, Outstanding, callerVars, writerVars, admissionVars, nativeVars, readerVars, retireVars
<1>13. CASE ReaderStop
  BY <1>1, <1>2, <1>13, CoverStays DEF ReaderStop, Early, Outstanding, callerVars, writerVars, admissionVars, nativeVars, readerVars, retireVars
<1>14. CASE FailClosed
  BY <1>1, <1>2, <1>14, CoverStays DEF FailClosed, Early, Outstanding, callerVars, writerVars, admissionVars, nativeVars, readerVars, retireVars
<1>15. CASE RetireBegin
  BY <1>1, <1>2, <1>15, CoverStays DEF RetireBegin, Early, Outstanding, callerVars, writerVars, admissionVars, nativeVars, readerVars, retireVars
<1>16. CASE RetireLease
  BY <1>1, <1>2, <1>16, CoverStays DEF RetireLease, Early, Outstanding, callerVars, writerVars, admissionVars, nativeVars, readerVars, retireVars
<1>17. CASE RetireSnapshot
  BY <1>1, <1>2, <1>17, CoverStays DEF RetireSnapshot, Early, Outstanding, callerVars, writerVars, admissionVars, nativeVars, readerVars, retireVars
<1>18. CASE RetireUnsettled
  BY <1>1, <1>2, <1>18, CoverStays DEF RetireUnsettled, Early, Outstanding, callerVars, writerVars, admissionVars, nativeVars, readerVars, retireVars
<1>19. CASE RetireProbed
  BY <1>1, <1>2, <1>19, CoverStays DEF RetireProbed, Early, Outstanding, callerVars, writerVars, admissionVars, nativeVars, readerVars, retireVars
<1>20. CASE RetireClose
  BY <1>1, <1>2, <1>20, CoverStays DEF RetireClose, Early, Outstanding, callerVars, writerVars, admissionVars, nativeVars, readerVars, retireVars
<1>21. CASE RetireDone
  BY <1>1, <1>2, <1>21, CoverStays DEF RetireDone, Early, Outstanding, callerVars, writerVars, admissionVars, nativeVars, readerVars, retireVars
<1>22. CASE Terminated
  BY <1>1, <1>2, <1>22, CoverStays DEF Terminated, Early, Outstanding, callerVars, writerVars, admissionVars, nativeVars, readerVars, retireVars, vars
<1>23. ASSUME NEW p \in Probe, RetireProbe(p) PROVE Order(c)' /\ Covered(c)'
  BY <1>1, <1>2, <1>23, CoverStays DEF RetireProbe, Early, Outstanding, callerVars, writerVars, admissionVars, nativeVars, readerVars, retireVars
<1>24. CASE UNCHANGED vars
  BY <1>1, <1>24, CoverStays DEF Early, Outstanding, vars, callerVars, writerVars, admissionVars, nativeVars, readerVars, retireVars
<1>25. ASSUME NEW d \in Cmd, Enqueue(d) PROVE Order(c)' /\ Covered(c)'
  <2>1. /\ hand' = hand /\ handStep' = handStep /\ inbox' = inbox /\ active' = active /\ out' = out
        /\ intent' = intent
        /\ Early(c)' => Early(c)
        /\ c = d => Early(c)
        /\ queue' = queue \/ queue' = Append(queue, d)
    BY <1>1, <1>2, <1>25 DEF Enqueue, Early, nativeVars, admissionVars
  <2>2. InSeq(c, queue') => InSeq(c, queue) \/ c = d
    BY <1>2, <2>1, InAppend
  <2>3. Covered(c)'
    BY <1>1, <2>1 DEF Covered, Outstanding
  <2>4. Gone(c) => Gone(c)'
    BY <2>1, <2>2 DEF Gone
  <2> QED BY <1>1, <2>1, <2>3, <2>4 DEF Order
<1>26. CASE WriterTake
  <2>1. /\ queue # <<>> /\ queue' = Tail(queue) /\ inbox' = inbox /\ active' = active /\ out' = out
        /\ caller' = caller /\ hand = NoCmd
        /\ \/ hand' = hand
           \/ hand' = Head(queue) /\ (Head(queue) \in Exec => handStep' = "publish")
        /\ intent' = intent \/ intent' = Rollback({Head(queue)})
    BY <1>26, Zenon DEF WriterTake, callerVars, nativeVars
  <2>2. /\ InSeq(c, queue') => InSeq(c, queue)
        /\ c = Head(queue) => InSeq(c, queue)
    BY <1>1, <1>2, <2>1, InTail, HeadOnce
  <2>3. /\ Gone(c) => Gone(c)'
        /\ Outstanding(c)' => Outstanding(c)
    BY <1>1, <2>1, <2>2 DEF Gone, Early, Outstanding
  <2>4. /\ intent'.cmd = c /\ intent'.accepted => intent.cmd = c /\ intent.accepted
        /\ intent.cmd = c /\ intent.published => intent'.cmd = c /\ intent'.published
    BY <2>1, RollbackKeeps
  <2>5. Covered(c)'
    BY <1>1, <2>3, <2>4 DEF Covered
  <2> QED BY <1>1, <2>1, <2>3, <2>4, <2>5 DEF Order
<1>27. CASE WriterPublish
  <2>1. /\ queue' = queue /\ inbox' = inbox /\ active' = active /\ out' = out /\ caller' = caller
        /\ hand # NoCmd
        /\ \/ /\ intent.cmd = hand /\ intent' = [intent EXCEPT !.published = TRUE]
              /\ hand' = hand
           \/ /\ intent' = intent /\ hand' = NoCmd
    BY <1>27 DEF WriterPublish, callerVars, nativeVars
  <2>2. /\ intent'.cmd = intent.cmd /\ intent'.accepted = intent.accepted
        /\ intent.published => intent'.published
        /\ hand' = hand => intent.cmd = hand /\ intent'.published
    BY <1>2, <2>1, ConstantsAssumption DEF Intent, Exec, Cmd
  <2>3. Covered(c)'
    BY <1>1, <2>1, <2>2 DEF Covered, Outstanding
  <2>4. Gone(c) => Gone(c)'
    BY <1>1, <2>1 DEF Gone, Early
  <2> QED BY <1>1, <2>1, <2>2, <2>3, <2>4 DEF Order
<1>28. CASE WriterWrite
  <2>1. /\ hand # NoCmd /\ hand' = NoCmd /\ active' = active /\ out' = out /\ caller' = caller
        /\ handStep = "write"
        /\ \/ inbox' = Append(inbox, hand) /\ queue' = queue /\ intent' = intent
           \/ /\ inbox' = inbox /\ queue' = <<>>
              /\ intent' = Rollback({queue[i] : i \in 1 .. Len(queue)})
    BY <1>28, Zenon DEF WriterWrite, callerVars
  <2>2. /\ intent'.cmd = c /\ intent'.accepted => intent.cmd = c /\ intent.accepted
        /\ intent.cmd = c /\ intent.published => intent'.cmd = c /\ intent'.published
    BY <2>1, RollbackKeeps
  <2>3. /\ InSeq(c, inbox') => InSeq(c, inbox) \/ c = hand
        /\ InSeq(c, queue') => InSeq(c, queue)
    <3>1. hand \in Cmd
      BY <1>2, <2>1
    <3>2. inbox' = Append(inbox, hand) \/ inbox' = inbox
      BY <2>1
    <3>3. InSeq(c, inbox') => InSeq(c, inbox) \/ c = hand
      BY <1>2, <3>1, <3>2, InAppend
    <3>4. queue' = queue \/ queue' = <<>>
      BY <2>1
    <3>5. InSeq(c, queue') => InSeq(c, queue)
      BY <3>4, InEmpty
    <3> QED BY <3>3, <3>5
  <2>4. /\ Gone(c) => Gone(c)'
        /\ Outstanding(c)' => Outstanding(c)
    BY <1>1, <2>1, <2>3 DEF Gone, Early, Outstanding
  <2>5. Covered(c)'
    BY <1>1, <2>2, <2>4 DEF Covered
  <2> QED BY <1>1, <2>1, <2>2, <2>4, <2>5 DEF Order
<1>29. CASE WriterAbort
  <2>1. /\ hand' = NoCmd /\ queue' = <<>> /\ inbox' = inbox /\ active' = active /\ out' = out
        /\ caller' = caller
        /\ intent' = Rollback({queue[i] : i \in 1 .. Len(queue)} \cup {hand})
    BY <1>29 DEF WriterAbort, callerVars, nativeVars
  <2>2. /\ intent'.cmd = c /\ intent'.accepted => intent.cmd = c /\ intent.accepted
        /\ intent.cmd = c /\ intent.published => intent'.cmd = c /\ intent'.published
    BY <2>1, RollbackKeeps
  <2>3. /\ Gone(c) => Gone(c)'
        /\ Outstanding(c)' => Outstanding(c)
    BY <1>1, <2>1, InEmpty DEF Gone, Early, Outstanding
  <2>4. Covered(c)'
    BY <1>1, <2>2, <2>3 DEF Covered
  <2> QED BY <1>1, <2>1, <2>2, <2>3, <2>4 DEF Order
<1>30. CASE NativeAccept
  <2>1. /\ inbox # <<>> /\ inbox' = Tail(inbox) /\ active = NoCmd /\ active' = Head(inbox)
        /\ out' = out /\ hand' = hand /\ handStep' = handStep /\ queue' = queue /\ caller' = caller
        /\ intent' = intent
    BY <1>30 DEF NativeAccept, callerVars, writerVars, admissionVars
  <2>2. /\ InSeq(c, inbox') => InSeq(c, inbox)
        /\ c = Head(inbox) => InSeq(c, inbox)
    BY <1>2, <2>1, InTail, HeadOnce
  <2>3. /\ Gone(c) => Gone(c)'
        /\ Outstanding(c)' => Outstanding(c)
    BY <1>1, <2>1, <2>2 DEF Gone, Early, Outstanding, FrameIn
  <2>4. Covered(c)'
    BY <1>1, <2>1, <2>3 DEF Covered
  <2> QED BY <1>1, <2>1, <2>3, <2>4 DEF Order
<1>31. CASE NativeReject
  <2>1. /\ inbox # <<>> /\ inbox' = Tail(inbox) /\ active' = active /\ intent' = intent
        /\ hand' = hand /\ handStep' = handStep /\ queue' = queue /\ caller' = caller
    BY <1>31 DEF NativeReject, callerVars, writerVars, admissionVars
  <2>2. PICK r \in {"ok", "busy", "fail"} : /\ out' = Append(out, Response(Head(inbox), r))
                                          /\ r = "fail"
    BY <1>31 DEF NativeReject
  <2>3. /\ InSeq(c, inbox') => InSeq(c, inbox)
        /\ c = Head(inbox) => InSeq(c, inbox)
    BY <1>2, <2>1, InTail, HeadOnce
  <2>4. /\ Response(Head(inbox), r) \in Frame
        /\ Response(Head(inbox), r).id = Head(inbox)
        /\ Response(Head(inbox), r) # Response(c, "ok")
        /\ ~Foreign(c, Response(Head(inbox), r))
    BY <1>2, <2>1, <2>2, TailFacts DEF Response, Frame, Foreign
  <2>5. /\ FrameIn(c, out') <=> FrameIn(c, out) \/ c = Head(inbox)
        /\ AcceptIn(c, out') => AcceptIn(c, out)
        /\ SettledIn(c, out) => SettledIn(c, out')
        /\ NextSettles(c, out) => NextSettles(c, out')
        /\ AfterAccept(c, out) => AfterAccept(c, out')
    BY <1>2, <2>2, <2>4, FrameAppend, OrderAppend
  <2>6. /\ Gone(c) => Gone(c)'
        /\ Outstanding(c)' => Outstanding(c)
    BY <1>1, <2>1, <2>3, <2>5 DEF Gone, Early, Outstanding, FrameIn
  <2>7. Covered(c)'
    BY <1>1, <2>1, <2>6 DEF Covered
  <2> QED BY <1>1, <2>1, <2>5, <2>6, <2>7 DEF Order
<1>32. CASE NativeAnswer
  <2>1. /\ inbox # <<>> /\ inbox' = Tail(inbox) /\ active' = active /\ intent' = intent
        /\ hand' = hand /\ handStep' = handStep /\ queue' = queue /\ caller' = caller
    BY <1>32 DEF NativeAnswer, callerVars, writerVars, admissionVars
  <2>2. PICK r \in {"ok", "busy", "fail"} : /\ out' = Append(out, Response(Head(inbox), r))
                                          /\ Head(inbox) # c
    BY <1>32 DEF NativeAnswer
  <2>3. /\ InSeq(c, inbox') => InSeq(c, inbox)
        /\ c = Head(inbox) => InSeq(c, inbox)
    BY <1>2, <2>1, InTail, HeadOnce
  <2>4. /\ Response(Head(inbox), r) \in Frame
        /\ Response(Head(inbox), r).id = Head(inbox)
        /\ Response(Head(inbox), r) # Response(c, "ok")
        /\ ~Foreign(c, Response(Head(inbox), r))
    BY <1>2, <2>1, <2>2, TailFacts DEF Response, Frame, Foreign
  <2>5. /\ FrameIn(c, out') <=> FrameIn(c, out) \/ c = Head(inbox)
        /\ AcceptIn(c, out') => AcceptIn(c, out)
        /\ SettledIn(c, out) => SettledIn(c, out')
        /\ NextSettles(c, out) => NextSettles(c, out')
        /\ AfterAccept(c, out) => AfterAccept(c, out')
    BY <1>2, <2>2, <2>4, FrameAppend, OrderAppend
  <2>6. /\ Gone(c) => Gone(c)'
        /\ Outstanding(c)' => Outstanding(c)
    BY <1>1, <2>1, <2>3, <2>5 DEF Gone, Early, Outstanding, FrameIn
  <2>7. Covered(c)'
    BY <1>1, <2>1, <2>6 DEF Covered
  <2> QED BY <1>1, <2>1, <2>5, <2>6, <2>7 DEF Order
<1>33. CASE NativeRespond
  <2>1. /\ active # NoCmd /\ active' = active /\ out' = Append(out, Response(active, "ok"))
        /\ active \in Exec
        /\ hand' = hand /\ handStep' = handStep /\ queue' = queue /\ inbox' = inbox /\ caller' = caller
        /\ intent' = intent
    BY <1>1, <1>2, <1>33, ConstantsAssumption DEF NativeRespond, callerVars, writerVars, admissionVars, Exec, Cmd
  <2>2. /\ Response(active, "ok") \in Frame
        /\ Response(active, "ok").id = active
        /\ Response(active, "ok") = Response(c, "ok") => c = active
        /\ Foreign(c, Response(active, "ok")) => FALSE
    BY <1>2, <2>1 DEF Response, Event, Frame, Foreign, Cmd
  <2>3. /\ FrameIn(c, out') <=> FrameIn(c, out) \/ c = active
        /\ AcceptIn(c, out') => AcceptIn(c, out) \/ c = active
        /\ SettledIn(c, out) => SettledIn(c, out')
        /\ NextSettles(c, out) /\ (c = active \/ SettledIn(c, out)) => NextSettles(c, out')
        /\ AfterAccept(c, out')
    BY <1>1, <1>2, <2>1, <2>2, FrameAppend, OrderAppend DEF Order
  <2>4. active' = active
    BY <2>1
  <2>5. /\ Gone(c) => Gone(c)'
        /\ Outstanding(c)' => Outstanding(c)
    BY <1>1, <2>1, <2>3 DEF Gone, Early, Outstanding, FrameIn
  <2>6. Covered(c)'
    BY <1>1, <2>1, <2>5 DEF Covered
  <2> QED BY <1>1, <2>1, <2>3, <2>4, <2>5, <2>6 DEF Order
<1>34. CASE NativeStart
  <2>1. /\ active # NoCmd /\ active' = active /\ out' = Append(out, Event("agent_start", active))
        /\ hand' = hand /\ handStep' = handStep /\ queue' = queue /\ inbox' = inbox /\ caller' = caller
        /\ intent' = intent
    BY <1>1, <1>2, <1>34, ConstantsAssumption DEF NativeStart, callerVars, writerVars, admissionVars, Exec, Cmd
  <2>2. /\ Event("agent_start", active) \in Frame
        /\ Event("agent_start", active).id = active
        /\ Event("agent_start", active) = Response(c, "ok") => c = active /\ FALSE
        /\ Foreign(c, Event("agent_start", active)) => FALSE
    BY <1>2, <2>1 DEF Response, Event, Frame, Foreign, Cmd
  <2>3. /\ FrameIn(c, out') <=> FrameIn(c, out) \/ c = active
        /\ AcceptIn(c, out') => AcceptIn(c, out) \/ c = active
        /\ SettledIn(c, out) => SettledIn(c, out')
        /\ NextSettles(c, out) /\ (c = active \/ SettledIn(c, out)) => NextSettles(c, out')
        /\ AfterAccept(c, out')
    BY <1>1, <1>2, <2>1, <2>2, FrameAppend, OrderAppend DEF Order
  <2>4. active' = active
    BY <2>1
  <2>5. /\ Gone(c) => Gone(c)'
        /\ Outstanding(c)' => Outstanding(c)
    BY <1>1, <2>1, <2>3 DEF Gone, Early, Outstanding, FrameIn
  <2>6. Covered(c)'
    BY <1>1, <2>1, <2>5 DEF Covered
  <2> QED BY <1>1, <2>1, <2>3, <2>4, <2>5, <2>6 DEF Order
<1>35. CASE NativeSettle
  <2>1. /\ active # NoCmd /\ active' = NoCmd /\ out' = Append(out, Event("agent_settled", active))
        /\ hand' = hand /\ handStep' = handStep /\ queue' = queue /\ inbox' = inbox /\ caller' = caller
        /\ intent' = intent
    BY <1>1, <1>2, <1>35, ConstantsAssumption DEF NativeSettle, callerVars, writerVars, admissionVars, Exec, Cmd
  <2>2. /\ Event("agent_settled", active) \in Frame
        /\ Event("agent_settled", active).id = active
        /\ Event("agent_settled", active) = Response(c, "ok") => c = active /\ FALSE
        /\ Foreign(c, Event("agent_settled", active)) => c # active
    BY <1>2, <2>1 DEF Response, Event, Frame, Foreign, Cmd
  <2>3. /\ FrameIn(c, out') <=> FrameIn(c, out) \/ c = active
        /\ AcceptIn(c, out') => AcceptIn(c, out) \/ c = active
        /\ SettledIn(c, out) => SettledIn(c, out')
        /\ NextSettles(c, out) /\ (c = active \/ SettledIn(c, out)) => NextSettles(c, out')
        /\ AfterAccept(c, out')
    BY <1>1, <1>2, <2>1, <2>2, FrameAppend, OrderAppend DEF Order
  <2>4. c = active => SettledIn(c, out')
    BY <1>2, <2>1, <2>2, OrderAppend
  <2>5. /\ Gone(c) => Gone(c)'
        /\ Outstanding(c)' => Outstanding(c)
    BY <1>1, <2>1, <2>3 DEF Gone, Early, Outstanding, FrameIn
  <2>6. Covered(c)'
    BY <1>1, <2>1, <2>5 DEF Covered
  <2> QED BY <1>1, <2>1, <2>3, <2>4, <2>5, <2>6 DEF Order
<1>36. ASSUME NEW r \in Spont, NativeSpontaneous(r) PROVE Order(c)' /\ Covered(c)'
  <2>1. /\ active = NoCmd /\ active' = r /\ out' = out /\ hand' = hand /\ handStep' = handStep
        /\ queue' = queue /\ inbox' = inbox /\ caller' = caller /\ intent' = intent
    BY <1>36 DEF NativeSpontaneous, callerVars, writerVars, admissionVars
  <2>2. /\ active' # c
        /\ Gone(c) => Gone(c)'
        /\ Outstanding(c)' => Outstanding(c)
    BY <1>1, <2>1 DEF Gone, Early, Outstanding
  <2>3. Covered(c)'
    BY <1>1, <2>1, <2>2 DEF Covered
  <2> QED BY <1>1, <2>1, <2>2, <2>3 DEF Order
<1>37. CASE ReaderObserve
  <2> DEFINE f == Head(out)
  <2>1. /\ out # <<>> /\ out' = Tail(out) /\ Observe(f)
        /\ active' = active /\ hand' = hand /\ handStep' = handStep
        /\ queue' = queue /\ inbox' = inbox /\ caller' = caller
    BY <1>37 DEF ReaderObserve, callerVars, writerVars, nativeVars
  <2>2. f \in Frame
    BY <1>2, <2>1, TailFacts
  <2>3. /\ FrameIn(c, out') => FrameIn(c, out)
        /\ f \in Terminal(c) => ~FrameIn(c, out') /\ EndedIn(c, out) /\ FrameIn(c, out)
    <3>1. LastIn(c, out)
      BY <1>1 DEF Life
    <3>2. f \in Terminal(c) => EndedIn(c, out)
      BY <1>2, <2>1, TailFacts DEF EndedIn
    <3> QED BY <1>2, <2>1, <3>1, <3>2, FrameTail, EndedFrame
  <2>4. f \in Terminal(c) => Gone(c)'
    BY <1>1, <2>1, <2>3 DEF Life, Gone, Early
  <2>5. Gone(c) => Gone(c)'
    BY <2>1, <2>3 DEF Gone, Early
  <2>6. /\ Gone(c) => ~Outstanding(c)
        /\ Gone(c)' => ~Outstanding(c)'
        /\ Outstanding(c)' => Outstanding(c)
    BY <1>1, <2>1, <2>3 DEF Gone, Outstanding, FrameIn
  <2>7. /\ AcceptIn(c, out') => AcceptIn(c, out) /\ FrameIn(c, out')
        /\ SettledIn(c, out) => SettledIn(c, out') \/ f = Event("agent_settled", c)
        /\ NextSettles(c, out) /\ f # Event("agent_settled", c) => NextSettles(c, out')
        /\ AfterAccept(c, out')
        /\ f = Response(c, "ok") => NextSettles(c, out') /\ AcceptIn(c, out)
        /\ ~(NextSettles(c, out) /\ Foreign(c, f))
    <3>1. AfterAccept(c, out) /\ LastIn(c, out)
      BY <1>1 DEF Order, Life
    <3>2. f = Response(c, "ok") => AcceptIn(c, out)
      BY <1>2, <2>1, TailFacts DEF AcceptIn
    <3> QED BY <1>2, <2>1, <3>1, <3>2, OrderTail
  <2>8. /\ Event("agent_settled", c) \in Terminal(c) /\ Response(c, "fail") \in Terminal(c)
        /\ Response(c, "ok") # Event("agent_settled", c)
    BY DEF Terminal, Response, Event
  <2>9. /\ intent'.cmd = c /\ intent'.accepted =>
             (intent.cmd = c /\ intent.accepted) \/ f = Response(c, "ok")
        /\ intent.cmd = c /\ intent.published =>
             \/ intent'.cmd = c /\ intent'.published
             \/ f = Response(c, "fail")
             \/ f = Event("agent_settled", c)
             \/ Foreign(c, f) /\ intent.accepted
    BY <1>1, <1>2, <2>1, <2>2 DEF Observe, Rejects, Settles, Answers, StartedIntent, NoIntent,
          Intent, Frame, Response, Event, Foreign
  <2>10. Covered(c)'
    BY <1>1, <2>4, <2>5, <2>6, <2>7, <2>8, <2>9 DEF Covered, Order
  <2>11. AcceptIn(c, out') => active' = c \/ SettledIn(c, out')
    BY <1>1, <2>1, <2>3, <2>7, <2>8 DEF Order
  <2>12. ASSUME intent'.cmd = c, intent'.accepted
         PROVE  Gone(c)' \/ (NextSettles(c, out') /\ (active' = c \/ SettledIn(c, out')))
    BY <1>1, <2>1, <2>4, <2>5, <2>7, <2>8, <2>9, <2>12 DEF Order
  <2> QED BY <2>7, <2>10, <2>11, <2>12 DEF Order
<1> QED
  BY <1>3, <1>4, <1>5, <1>6, <1>7, <1>8, <1>9, <1>10, <1>11, <1>12, <1>13, <1>14, <1>15, <1>16, <1>17, <1>18, <1>19, <1>20, <1>21, <1>22, <1>23, <1>24, <1>25, <1>26, <1>27, <1>28, <1>29, <1>30, <1>31, <1>32, <1>33, <1>34, <1>35, <1>36, <1>37
     DEF CoverInv, Next, CallerStep, WriterStep, NativeStep, ReaderStep, RetireStep

(* The invariant holds in every reachable state. *)
LEMMA Covers == Spec => []CoverInv
<1>1. Init => Lifecycle /\ \A c \in Exec : Order(c) /\ Covered(c)
  <2> SUFFICES ASSUME Init, NEW c \in Cmd PROVE Life(c) /\ Order(c) /\ Covered(c)
    BY DEF Lifecycle, Cmd
  <2>1. /\ c # NoCmd /\ queue = <<>> /\ inbox = <<>> /\ out = <<>> /\ hand = NoCmd
        /\ active = NoCmd /\ intent = NoIntent
    BY ConstantsAssumption DEF Init, Cmd
  <2>2. Life(c)
    BY <2>1 DEF Life, InSeq, FrameIn, EndedIn, Once, LastIn
  <2>3. Order(c)
    BY <2>1 DEF Order, AfterAccept, AcceptIn, NoIntent
  <2>4. Covered(c)
    BY <2>1 DEF Covered, Outstanding, InSeq
  <2> QED BY <2>2, <2>3, <2>4
<1>2. CoverInv /\ [Next]_vars /\ TypeOK' => CoverInv'
  BY LifecycleStep, CoverStep DEF CoverInv
<1>3. Init /\ TypeOK => CoverInv
  BY <1>1 DEF CoverInv
<1> QED BY <1>2, <1>3, TypeCorrect, PTL DEF Spec

(* A published execution is never orphaned: whatever its caller does, it stays  *)
(* covered by its own intent until its last frame has been observed.            *)
THEOREM ExecutionsCovered == Spec => []ExecutionCovered
<1>1. CoverInv => ExecutionCovered
  BY DEF CoverInv, Covered, ExecutionCovered
<1> QED BY <1>1, Covers, PTL

-----------------------------------------------------------------------------
(***************************************************************************)
(* What rests on the cover of executions: which frames settle an intent,   *)
(* which tickets are never rolled back, and that a retirement finds the    *)
(* session quiet.                                                          *)
(***************************************************************************)
(***************************************************************************)
(* Steps that neither move a run of the native nor a frame. Of the intent  *)
(* they roll back what is unpublished, register or publish.                *)
(***************************************************************************)
Quiet ==
    /\ active' = active /\ responded' = responded /\ started' = started /\ out' = out
    /\ reading' = reading \/ reading' = NoFrame
    /\ \A c \in Cmd : Early(c)' => Early(c)
    /\ \/ intent' = intent
       \/ intent' = NoIntent /\ ~intent.published
       \/ intent = NoIntent /\ \E d \in Exec : Early(d) /\ intent' = [intent EXCEPT !.cmd = d]
       \/ intent' = [intent EXCEPT !.published = TRUE]

NativeOrObserved ==
    \/ NativeAccept \/ NativeReject \/ NativeAnswer \/ NativeRespond \/ NativeStart \/ NativeSettle
    \/ \E r \in Spont : NativeSpontaneous(r)
    \/ ReaderObserve

(* Every step is quiet, or the native's or the observer's. *)
LEMMA QuietSteps ==
    ASSUME TypeOK, [Next]_vars
    PROVE  Quiet \/ NativeOrObserved
<1>0. caller \in [Cmd -> CallerState]
  BY DEF TypeOK, CallersOK
<1>1. ASSUME NEW d \in Cmd, BeginOperation(d) PROVE Quiet
  BY <1>0, <1>1 DEF Quiet, Early, BeginOperation, callerVars, writerVars, admissionVars, nativeVars, readerVars, retireVars
<1>2. ASSUME NEW d \in Cmd, Submit(d) PROVE Quiet
  BY <1>0, <1>2 DEF Quiet, Early, Submit, callerVars, writerVars, admissionVars, nativeVars, readerVars, retireVars
<1>3. ASSUME NEW d \in Cmd, Admit(d) PROVE Quiet
  BY <1>0, <1>3 DEF Quiet, Early, Admit, callerVars, writerVars, admissionVars, nativeVars, readerVars, retireVars
<1>4. ASSUME NEW d \in Cmd, Register(d) PROVE Quiet
  BY <1>0, <1>4 DEF Quiet, Early, Register, Unsettled, callerVars, writerVars, admissionVars, nativeVars, readerVars, retireVars
<1>5. ASSUME NEW d \in Cmd, Enqueue(d) PROVE Quiet
  BY <1>0, <1>5 DEF Quiet, Early, Enqueue, callerVars, writerVars, admissionVars, nativeVars, readerVars, retireVars
<1>6. ASSUME NEW d \in Cmd, Receive(d) PROVE Quiet
  BY <1>0, <1>6 DEF Quiet, Early, Receive, Rollback, callerVars, writerVars, admissionVars, nativeVars, readerVars, retireVars
<1>7. ASSUME NEW d \in Cmd, GiveUp(d) PROVE Quiet
  BY <1>0, <1>7 DEF Quiet, Early, GiveUp, callerVars, writerVars, admissionVars, nativeVars, readerVars, retireVars
<1>8. ASSUME NEW d \in Cmd, DropTicket(d) PROVE Quiet
  BY <1>0, <1>8 DEF Quiet, Early, DropTicket, Rollback, callerVars, writerVars, admissionVars, nativeVars, readerVars, retireVars
<1>9. ASSUME NEW d \in Cmd, ReleaseLease(d) PROVE Quiet
  BY <1>0, <1>9 DEF Quiet, Early, ReleaseLease, callerVars, writerVars, admissionVars, nativeVars, readerVars, retireVars
<1>10. ASSUME WriterTake PROVE Quiet
  BY <1>0, <1>10 DEF Quiet, Early, WriterTake, Rollback, callerVars, writerVars, admissionVars, nativeVars, readerVars, retireVars
<1>11. ASSUME WriterPublish PROVE Quiet
  BY <1>0, <1>11 DEF Quiet, Early, WriterPublish, callerVars, writerVars, admissionVars, nativeVars, readerVars, retireVars
<1>12. ASSUME WriterWrite PROVE Quiet
  BY <1>0, <1>12 DEF Quiet, Early, WriterWrite, Rollback, callerVars, writerVars, admissionVars, nativeVars, readerVars, retireVars
<1>13. ASSUME WriterAbort PROVE Quiet
  BY <1>0, <1>13 DEF Quiet, Early, WriterAbort, Rollback, callerVars, writerVars, admissionVars, nativeVars, readerVars, retireVars
<1>14. ASSUME NativeExit PROVE Quiet
  BY <1>0, <1>14 DEF Quiet, Early, NativeExit, callerVars, writerVars, admissionVars, nativeVars, readerVars, retireVars
<1>15. ASSUME ReaderProject PROVE Quiet
  BY <1>0, <1>15 DEF Quiet, Early, ReaderProject, callerVars, writerVars, admissionVars, nativeVars, readerVars, retireVars
<1>16. ASSUME ReaderStop PROVE Quiet
  BY <1>0, <1>16 DEF Quiet, Early, ReaderStop, callerVars, writerVars, admissionVars, nativeVars, readerVars, retireVars
<1>17. ASSUME FailClosed PROVE Quiet
  BY <1>0, <1>17 DEF Quiet, Early, FailClosed, callerVars, writerVars, admissionVars, nativeVars, readerVars, retireVars
<1>18. ASSUME RetireBegin PROVE Quiet
  BY <1>0, <1>18 DEF Quiet, Early, RetireBegin, callerVars, writerVars, admissionVars, nativeVars, readerVars, retireVars
<1>19. ASSUME RetireLease PROVE Quiet
  BY <1>0, <1>19 DEF Quiet, Early, RetireLease, RetireRefused, callerVars, writerVars, admissionVars, nativeVars, readerVars, retireVars
<1>20. ASSUME RetireSnapshot PROVE Quiet
  BY <1>0, <1>20 DEF Quiet, Early, RetireSnapshot, RetireRefused, callerVars, writerVars, admissionVars, nativeVars, readerVars, retireVars
<1>21. ASSUME RetireUnsettled PROVE Quiet
  BY <1>0, <1>21 DEF Quiet, Early, RetireUnsettled, RetireRefused, callerVars, writerVars, admissionVars, nativeVars, readerVars, retireVars
<1>22. ASSUME RetireProbed PROVE Quiet
  BY <1>0, <1>22 DEF Quiet, Early, RetireProbed, RetireRefused, callerVars, writerVars, admissionVars, nativeVars, readerVars, retireVars
<1>23. ASSUME RetireClose PROVE Quiet
  BY <1>0, <1>23 DEF Quiet, Early, RetireClose, callerVars, writerVars, admissionVars, nativeVars, readerVars, retireVars
<1>24. ASSUME RetireDone PROVE Quiet
  BY <1>0, <1>24 DEF Quiet, Early, RetireDone, callerVars, writerVars, admissionVars, nativeVars, readerVars, retireVars
<1>25. ASSUME Terminated PROVE Quiet
  BY <1>0, <1>25 DEF Quiet, Early, Terminated, vars, callerVars, writerVars, admissionVars, nativeVars, readerVars, retireVars
<1>26. ASSUME NEW p \in Probe, RetireProbe(p) PROVE Quiet
  BY <1>0, <1>26 DEF Quiet, Early, RetireProbe, RetireRefused, callerVars, writerVars, admissionVars, nativeVars, readerVars, retireVars
<1>27. ASSUME UNCHANGED vars PROVE Quiet
  BY <1>27 DEF Quiet, Early, vars, callerVars, writerVars, admissionVars, nativeVars, readerVars, retireVars
<1> QED
  BY <1>1, <1>2, <1>3, <1>4, <1>5, <1>6, <1>7, <1>8, <1>9, <1>10, <1>11, <1>12, <1>13, <1>14, <1>15, <1>16, <1>17, <1>18, <1>19, <1>20, <1>21, <1>22, <1>23, <1>24, <1>25, <1>26, <1>27
     DEF Next, NativeOrObserved, CallerStep, WriterStep, NativeStep, ReaderStep, RetireStep

-----------------------------------------------------------------------------
(***************************************************************************)
(* What the observer has learnt of an execution by the time it settles:    *)
(* its acceptance, and the start of its own run after any other's. A       *)
(* compaction has no run of its own: its intent holds none, or the last    *)
(* run the native began by itself, and then its settlement releases        *)
(* nothing.                                                                *)
(***************************************************************************)
AcceptBefore(c, s, n) == \E k \in 1 .. n : s[k] = Response(c, "ok")
NoStart(s, n) == \A j \in 1 .. n : s[j].type # "agent_start"
StartLast(c, s, n) ==
    \E k \in 1 .. n : s[k] = Event("agent_start", c) /\ \A j \in 1 .. n : j > k => s[j].type # "agent_start"

AcceptKnown(c, n) == intent.accepted \/ AcceptBefore(c, out, n)
RunKnown(c, n) == c \in Prompt => StartLast(c, out, n) \/ (intent.run = c /\ NoStart(out, n))

Announced(c) ==
    /\ active = c /\ responded => AcceptKnown(c, Len(out))
    /\ active = c /\ started => RunKnown(c, Len(out))
    /\ \A i \in 1 .. Len(out) :
          out[i] = Event("agent_settled", c) => AcceptKnown(c, i - 1) /\ RunKnown(c, i - 1)

\* The intent of a compaction is bound to a run the native began by itself.
Misbound(c) == c \in Compact /\ intent.run \in Spont

Released(c) ==
    /\ intent.cmd = c /\ intent.accepted /\ Gone(c) => Misbound(c)
    /\ c \in Compact /\ intent.cmd = c => intent.run \in Spont \cup {NoCmd}
    /\ reading.id = c => ~Early(c)
    /\ reading = Event("agent_settled", c) /\ intent.cmd = c => Misbound(c)

StartsArePrompts == \A i \in 1 .. Len(out) : out[i].type = "agent_start" => out[i].id \notin Compact

SettleInv == StartsArePrompts /\ \A c \in Exec : Announced(c) /\ Released(c)

(* What a new frame does to what precedes it. *)
LEMMA KnownAppend ==
    ASSUME NEW S, NEW s \in Seq(S), NEW f \in S, NEW c, NEW n \in 0 .. Len(s)
    PROVE  /\ AcceptBefore(c, s, n) => AcceptBefore(c, Append(s, f), n)
           /\ NoStart(s, n) => NoStart(Append(s, f), n)
           /\ StartLast(c, s, n) => StartLast(c, Append(s, f), n)
<1>1. \A k \in 1 .. n : Append(s, f)[k] = s[k]
  OBVIOUS
<1>2. n \in Nat
  OBVIOUS
<1> DEFINE t == Append(s, f)
<1> HIDE DEF t
<1> QED BY <1>1, <1>2 DEF AcceptBefore, NoStart, StartLast, t

(* ... and the frame itself, counted with the others. *)
LEMMA KnownWith ==
    ASSUME NEW S, NEW s \in Seq(S), NEW f \in S, NEW c
    PROVE  LET t == Append(s, f) IN
           /\ AcceptBefore(c, s, Len(s)) \/ f = Response(c, "ok") => AcceptBefore(c, t, Len(t))
           /\ NoStart(s, Len(s)) /\ f.type # "agent_start" => NoStart(t, Len(t))
           /\ StartLast(c, s, Len(s)) /\ f.type # "agent_start" => StartLast(c, t, Len(t))
           /\ f = Event("agent_start", c) => StartLast(c, t, Len(t))
<1> DEFINE t == Append(s, f)
<1>1. /\ Len(t) = Len(s) + 1 /\ t[Len(s) + 1] = f /\ Len(s) \in Nat
      /\ \A k \in 1 .. Len(s) : t[k] = s[k] /\ k \in 1 .. Len(t)
      /\ Len(s) + 1 \in 1 .. Len(t)
      /\ \A k \in 1 .. Len(t) : k \in 1 .. Len(s) \/ k = Len(s) + 1
  OBVIOUS
<1> HIDE DEF t
<1>2. AcceptBefore(c, s, Len(s)) \/ f = Response(c, "ok") => AcceptBefore(c, t, Len(t))
  BY <1>1 DEF AcceptBefore
<1>3. NoStart(s, Len(s)) /\ f.type # "agent_start" => NoStart(t, Len(t))
  BY <1>1 DEF NoStart
<1>4. StartLast(c, s, Len(s)) /\ f.type # "agent_start" => StartLast(c, t, Len(t))
  BY <1>1 DEF StartLast
<1>5. ASSUME f = Event("agent_start", c) PROVE StartLast(c, t, Len(t))
  <2>1. \A j \in 1 .. Len(t) : ~(j > Len(s) + 1)
    BY <1>1
  <2> QED BY <1>1, <1>5, <2>1 DEF StartLast
<1> QED BY <1>2, <1>3, <1>4, <1>5 DEF t

(* What is left of it when the first frame is consumed. *)
LEMMA KnownTail ==
    ASSUME NEW S, NEW s \in Seq(S), s # <<>>, NEW c, NEW n \in 0 .. Len(Tail(s))
    PROVE  /\ AcceptBefore(c, s, n + 1) => Head(s) = Response(c, "ok") \/ AcceptBefore(c, Tail(s), n)
           /\ NoStart(s, n + 1) => Head(s).type # "agent_start" /\ NoStart(Tail(s), n)
           /\ StartLast(c, s, n + 1) =>
                 \/ StartLast(c, Tail(s), n)
                 \/ Head(s) = Event("agent_start", c) /\ NoStart(Tail(s), n)
<1> DEFINE t == Tail(s)
<1>1. /\ Len(s) \in Nat \ {0} /\ Len(t) = Len(s) - 1 /\ Head(s) = s[1] /\ n \in Nat
      /\ \A i \in 1 .. n : i + 1 \in 1 .. n + 1 /\ t[i] = s[i + 1]
      /\ \A j \in 1 .. n + 1 : j = 1 \/ (j - 1 \in 1 .. n /\ t[j - 1] = s[j])
      /\ 1 \in 1 .. n + 1
  BY TailFacts
<1> HIDE DEF t
<1>2. AcceptBefore(c, s, n + 1) => Head(s) = Response(c, "ok") \/ AcceptBefore(c, t, n)
  BY <1>1 DEF AcceptBefore
<1>3. NoStart(s, n + 1) => Head(s).type # "agent_start" /\ NoStart(t, n)
  BY <1>1 DEF NoStart
<1>4. ASSUME StartLast(c, s, n + 1)
      PROVE  StartLast(c, t, n) \/ (Head(s) = Event("agent_start", c) /\ NoStart(t, n))
  <2>1. PICK k \in 1 .. n + 1 : /\ s[k] = Event("agent_start", c)
                                /\ \A j \in 1 .. n + 1 : j > k => s[j].type # "agent_start"
    BY <1>4 DEF StartLast
  <2>2. \A i \in 1 .. n : i + 1 > k => t[i].type # "agent_start"
    BY <1>1, <2>1, ZenonT(60)
  <2>3. CASE k = 1
    BY <1>1, <2>1, <2>2, <2>3 DEF NoStart
  <2>4. CASE k # 1
    <3>1. k - 1 \in 1 .. n /\ t[k - 1] = Event("agent_start", c)
      BY <1>1, <2>1, <2>4
    <3>2. \A i \in 1 .. n : i > k - 1 => t[i].type # "agent_start"
      BY <2>2
    <3> QED BY <3>1, <3>2 DEF StartLast
  <2> QED BY <2>3, <2>4
<1> QED BY <1>2, <1>3, <1>4 DEF t

-----------------------------------------------------------------------------
(* A quiet step keeps what is known of an execution and what its intent holds.  *)
LEMMA SettleQuiet ==
    ASSUME CoverInv, CoverInv', SettleInv, Quiet
    PROVE  SettleInv'
<1>0. StartsArePrompts'
  BY DEF SettleInv, StartsArePrompts, Quiet
<1> SUFFICES ASSUME NEW c \in Exec PROVE Announced(c)' /\ Released(c)'
  BY <1>0 DEF SettleInv
<1>1. /\ Announced(c) /\ Released(c) /\ Order(c) /\ Order(c)' /\ Covered(c) /\ Life(c)
      /\ c \in Cmd /\ c # NoCmd /\ intent \in Intent
  BY ConstantsAssumption DEF SettleInv, CoverInv, Lifecycle, Cmd, TypeOK, AdmissionOK
<1>2. Outstanding(c) => /\ intent'.cmd = c /\ intent'.accepted = intent.accepted
                        /\ intent'.run = intent.run
  BY <1>1 DEF Quiet, Covered, NoIntent, Intent
<1>3. /\ active = c => Outstanding(c)
      /\ \A i \in 1 .. Len(out) : out[i] = Event("agent_settled", c) => Outstanding(c)
  BY DEF Outstanding, Event
<1>4. Announced(c)'
  BY <1>1, <1>2, <1>3 DEF Announced, AcceptKnown, RunKnown, AcceptBefore, StartLast, NoStart, Quiet
<1>5. /\ intent'.cmd = c => intent.cmd = c \/ (Early(c) /\ ~intent'.accepted)
      /\ intent'.cmd = c /\ intent'.accepted => intent.cmd = c /\ intent.accepted
      /\ intent'.cmd = c => intent'.run = intent.run \/ intent'.run = NoCmd
  BY <1>1 DEF Quiet, NoIntent, Intent
<1>12. intent'.cmd = c /\ intent.cmd # c => intent'.run = NoCmd
  BY <1>1 DEF Quiet, NoIntent, Intent
<1>6. intent.cmd = c /\ intent.accepted => active = c \/ FrameIn(c, out) \/ Misbound(c)
  BY <1>1 DEF Released, Order, SettledIn, FrameIn, Event
<1>13. intent.cmd = c /\ intent'.cmd = c => intent'.run = intent.run
  BY <1>1 DEF Quiet, NoIntent, Intent
<1>7. intent'.cmd = c /\ intent'.accepted /\ Gone(c)' => Misbound(c)'
  BY <1>5, <1>6, <1>13 DEF Gone, Quiet, Misbound
<1>8. c \in Compact /\ intent'.cmd = c => intent'.run \in Spont \cup {NoCmd}
  BY <1>1, <1>5, <1>12 DEF Released
<1>9. /\ reading'.id = c => reading' = reading
      /\ reading' = Event("agent_settled", c) => reading' = reading /\ reading.id = c
  BY <1>1 DEF Quiet, NoFrame, Event
<1>10. reading'.id = c => ~Early(c)'
  BY <1>1, <1>9 DEF Released, Quiet
<1>11. reading' = Event("agent_settled", c) /\ intent'.cmd = c => Misbound(c)'
  BY <1>1, <1>5, <1>9, <1>13 DEF Released, Misbound
<1> QED BY <1>4, <1>7, <1>8, <1>10, <1>11 DEF Released

(* A frame the native sends keeps it, when what it has answered and announced   *)
(* of its run is what it sent.                                                  *)
LEMMA SettleSent ==
    ASSUME CoverInv, NEW c \in Exec, Announced(c), Released(c), NEW f \in Frame,
           out' = Append(out, f), intent' = intent, reading' = reading, caller' = caller,
           active' = c /\ responded' => (active = c /\ responded) \/ f = Response(c, "ok"),
           active' = c /\ started' => (active = c /\ started) \/ f = Event("agent_start", c),
           active' = c => f.type # "agent_start" \/ f = Event("agent_start", c),
           active = c => active' = c \/ f.id = c,
           f = Event("agent_settled", c) => active = c /\ responded /\ (started \/ c \in Compact)
    PROVE  Announced(c)' /\ Released(c)'
<1> DEFINE N == Len(out)
<1>1. /\ Order(c) /\ out \in Seq(Frame) /\ N \in Nat /\ Prompt \cap Compact = {}
  BY ConstantsAssumption DEF CoverInv, TypeOK, PipesOK
<1>2. /\ Len(out') = N + 1 /\ out'[N + 1] = f
      /\ \A i \in 1 .. N : out'[i] = out[i]
      /\ \A i \in 1 .. Len(out') : i \in 1 .. N \/ i = N + 1
      /\ \A i \in 1 .. N : i - 1 \in 0 .. N
      /\ N \in 0 .. N
  BY <1>1
<1>3. \A n \in 0 .. N : /\ AcceptKnown(c, n) => AcceptKnown(c, n)'
                        /\ RunKnown(c, n) => RunKnown(c, n)'
  BY <1>1, KnownAppend DEF AcceptKnown, RunKnown
<1>4. active' = c /\ responded' => AcceptKnown(c, Len(out))'
  BY <1>1, KnownWith DEF Announced, AcceptKnown
<1>5. active' = c /\ started' => RunKnown(c, Len(out))'
  BY <1>1, KnownWith DEF Announced, RunKnown, Event
<1>6. ASSUME NEW i \in 1 .. Len(out'), out'[i] = Event("agent_settled", c)
      PROVE  AcceptKnown(c, i - 1)' /\ RunKnown(c, i - 1)'
  <2>1. CASE i \in 1 .. N
    BY <1>2, <1>3, <1>6, <2>1 DEF Announced
  <2>2. CASE i = N + 1
    <3>1. AcceptKnown(c, N) /\ RunKnown(c, N)
      BY <1>1, <1>2, <1>6, <2>2 DEF Announced, RunKnown
    <3>2. i - 1 = N
      BY <1>1, <2>2
    <3> QED BY <1>2, <1>3, <3>1, <3>2
  <2> QED BY <1>2, <2>1, <2>2
<1>7. Announced(c)'
  BY <1>4, <1>5, <1>6 DEF Announced
<1>8. intent.cmd = c /\ intent.accepted => active = c \/ FrameIn(c, out) \/ Misbound(c)
  BY <1>1 DEF Released, Order, SettledIn, FrameIn, Event
<1>9. (FrameIn(c, out) \/ f.id = c) => FrameIn(c, out')
  BY <1>1, FrameAppend
<1>10. intent'.cmd = c /\ intent'.accepted /\ Gone(c)' => Misbound(c)'
  BY <1>8, <1>9 DEF Gone, Misbound
<1> QED BY <1>7, <1>10 DEF Released, Early, Misbound

(* The native's steps: it answers, announces and settles its own run only. *)
LEMMA SettleNative ==
    ASSUME CoverInv, SettleInv,
           \/ NativeAccept \/ NativeReject \/ NativeAnswer
           \/ NativeRespond \/ NativeStart \/ NativeSettle
           \/ \E r \in Spont : NativeSpontaneous(r)
    PROVE  SettleInv'
<1>1. /\ out \in Seq(Frame) /\ inbox \in Seq(Cmd) /\ active \in Run \cup {NoCmd}
      /\ NoCmd \notin Run /\ Run \cap Compact = Compact
      /\ Exec \subseteq Run /\ Exec \subseteq Cmd /\ Spont \cap Exec = {}
  BY ConstantsAssumption DEF CoverInv, TypeOK, PipesOK, AdmissionOK, Run, Exec, Cmd
<1>2. ASSUME NEW f \in Frame, out' = Append(out, f), f.type = "agent_start" => f.id \notin Compact
      PROVE  StartsArePrompts'
  <2>1. /\ Len(out') = Len(out) + 1 /\ out'[Len(out) + 1] = f /\ Len(out) \in Nat
        /\ \A i \in 1 .. Len(out) : out'[i] = out[i]
    BY <1>1, <1>2
  <2> QED BY <1>2, <2>1 DEF SettleInv, StartsArePrompts
<1>3. ASSUME out' = out, active = NoCmd, ~responded' \/ active' \notin Exec, ~started',
             intent' = intent, reading' = reading, caller' = caller
      PROVE  SettleInv'
  <2>1. StartsArePrompts'
    BY <1>3 DEF SettleInv, StartsArePrompts
  <2> SUFFICES ASSUME NEW c \in Exec PROVE Announced(c)' /\ Released(c)'
    BY <2>1 DEF SettleInv
  <2>2. Announced(c) /\ Released(c) /\ Order(c) /\ active # c
    BY <1>1, <1>3 DEF SettleInv, CoverInv
  <2>3. Announced(c)'
    BY <1>3, <2>2 DEF Announced, AcceptKnown, RunKnown
  <2>4. intent.cmd = c /\ intent.accepted => FrameIn(c, out) \/ Misbound(c)
    BY <2>2 DEF Released, Order, SettledIn, FrameIn, Event
  <2> QED BY <1>3, <2>2, <2>3, <2>4 DEF Released, Gone, Early, Misbound
<1>4. CASE NativeAccept
  BY <1>3, <1>4 DEF NativeAccept, callerVars, admissionVars, readerVars
<1>5. ASSUME NEW r \in Spont, NativeSpontaneous(r) PROVE SettleInv'
  BY <1>1, <1>3, <1>5 DEF NativeSpontaneous, callerVars, admissionVars, readerVars
<1>6. CASE NativeReject \/ NativeAnswer
  <2>1. PICK r \in {"ok", "busy", "fail"} :
           /\ out' = Append(out, Response(Head(inbox), r)) /\ inbox # <<>>
           /\ Head(inbox) \in Exec => r # "ok"
    BY <1>6 DEF NativeReject, NativeAnswer
  <2> DEFINE f == Response(Head(inbox), r)
  <2>2. f \in Frame /\ f.type = "response"
    BY <1>1, <2>1, TailFacts DEF Response, Frame
  <2>3. /\ active' = active /\ responded' = responded /\ started' = started
        /\ intent' = intent /\ reading' = reading /\ caller' = caller
    BY <1>6 DEF NativeReject, NativeAnswer, callerVars, admissionVars, readerVars
  <2>4. \A c : f # Event("agent_settled", c)
    BY <2>2 DEF Event
  <2> HIDE DEF f
  <2>5. StartsArePrompts'
    BY <1>2, <2>1, <2>2 DEF f
  <2>6. ASSUME NEW c \in Exec PROVE Announced(c)' /\ Released(c)'
    BY <2>1, <2>2, <2>3, <2>4, SettleSent DEF SettleInv, f
  <2> QED BY <2>5, <2>6 DEF SettleInv
<1>7. ASSUME NEW f \in Frame, f.id = active, f.type = "agent_start" => active \notin Compact,
             f = Response(active, "ok") \/ f = Event("agent_start", active) \/ f = Event("agent_settled", active),
             out' = Append(out, f), active # NoCmd, active' = active \/ active' = NoCmd,
             responded' => responded \/ f = Response(active, "ok"),
             started' => started \/ f = Event("agent_start", active),
             f = Event("agent_settled", active) => responded /\ (started \/ active \in Compact),
             intent' = intent, reading' = reading, caller' = caller
      PROVE  SettleInv'
  <2>1. StartsArePrompts'
    BY <1>2, <1>7
  <2> SUFFICES ASSUME NEW c \in Exec PROVE Announced(c)' /\ Released(c)'
    BY <2>1 DEF SettleInv
  <2>2. c # NoCmd
    BY <1>1
  <2>3. /\ active' = c => active = c
        /\ f = Event("agent_settled", c) => active = c
        /\ active = c => f.id = c
    BY <1>7, <2>2 DEF Event
  <2>4. f.type = "agent_start" => f = Event("agent_start", active)
    BY <1>7 DEF Event, Response
  <2> QED BY <1>7, <2>3, <2>4, SettleSent DEF SettleInv
<1>8. CASE NativeRespond
  <2>1. Response(active, "ok") \in Frame /\ Response(active, "ok").id = active
        /\ Response(active, "ok").type = "response"
        /\ Response(active, "ok") # Event("agent_settled", active)
    BY <1>1, <1>8 DEF NativeRespond, Response, Event, Frame
  <2> QED BY <1>1, <1>7, <1>8, <2>1 DEF NativeRespond, callerVars, admissionVars, readerVars
<1>9. CASE NativeStart
  <2>1. Event("agent_start", active) \in Frame /\ Event("agent_start", active).id = active
        /\ Event("agent_start", active) # Event("agent_settled", active)
    BY <1>1, <1>9 DEF NativeStart, Event, Frame
  <2> QED BY <1>1, <1>7, <1>9, <2>1 DEF NativeStart, callerVars, admissionVars, readerVars
<1>10. CASE NativeSettle
  <2>1. Event("agent_settled", active) \in Frame /\ Event("agent_settled", active).id = active
        /\ Event("agent_settled", active).type # "agent_start"
    BY <1>1, <1>10 DEF NativeSettle, Event, Frame
  <2> QED BY <1>1, <1>7, <1>10, <2>1 DEF NativeSettle, callerVars, admissionVars, readerVars
<1> QED BY <1>4, <1>5, <1>6, <1>8, <1>9, <1>10

(* The observer learns what a frame announces, and at the settlement of an      *)
(* execution it knows enough to release it.                                     *)
LEMMA SettleObserve ==
    ASSUME CoverInv, CoverInv', SettleInv, ReaderObserve
    PROVE  SettleInv'
<1> DEFINE f == Head(out)
<1>1. /\ out # <<>> /\ out' = Tail(out) /\ Observe(f) /\ reading' = f /\ caller' = caller
      /\ active' = active /\ responded' = responded /\ started' = started
  BY DEF ReaderObserve, callerVars, nativeVars
<1>2. /\ out \in Seq(Frame) /\ Exec \subseteq Cmd /\ NoCmd \notin Exec /\ intent \in Intent
      /\ Run = Prompt \cup Compact \cup Spont /\ Prompt \cap Compact = {} /\ Exec = Prompt \cup Compact
  BY ConstantsAssumption DEF CoverInv, TypeOK, PipesOK, AdmissionOK, Run, Exec, Cmd
<1>3. /\ f \in Frame /\ Len(out) \in Nat \ {0} /\ Len(Tail(out)) = Len(out) - 1 /\ f = out[1]
      /\ \A i \in 1 .. Len(Tail(out)) : i + 1 \in 1 .. Len(out) /\ Tail(out)[i] = out[i + 1]
  BY <1>1, <1>2, TailFacts
<1>4. 1 \in 1 .. Len(out) /\ Len(out') \in Nat /\ Len(out) = Len(out') + 1
  BY <1>1, <1>3
<1> HIDE DEF f
<1>5. StartsArePrompts'
  BY <1>1, <1>3 DEF SettleInv, StartsArePrompts
<1> SUFFICES ASSUME NEW c \in Exec PROVE Announced(c)' /\ Released(c)'
  BY <1>5 DEF SettleInv
<1>6. /\ Announced(c) /\ Released(c) /\ Order(c) /\ Covered(c) /\ Covered(c)' /\ Life(c)
      /\ c # NoCmd /\ c \in Cmd
  BY <1>2 DEF SettleInv, CoverInv, Lifecycle
<1>7. f.id = c => FrameIn(c, out) /\ Outstanding(c) /\ intent.cmd = c /\ ~Early(c)
  BY <1>3, <1>4, <1>6 DEF FrameIn, Outstanding, Covered, Life
<1>8. intent' = NoIntent \/ /\ intent'.cmd = intent.cmd /\ intent'.published = intent.published
                            /\ intent.accepted => intent'.accepted
                            /\ intent'.accepted => intent.accepted \/ Answers(f, "ok")
  BY <1>1, <1>2 DEF Observe, StartedIntent, Intent
<1>14. intent'.cmd = c => intent' = intent \/ f.type = "agent_start" \/ Answers(f, "ok")
  BY <1>1, <1>2 DEF Observe, NoIntent
<1>9. ASSUME f = Event("agent_settled", c), intent'.cmd = c PROVE Misbound(c)'
  <2>1. f.id = c /\ f.type = "agent_settled" /\ intent.cmd = c
    BY <1>7, <1>9 DEF Event
  <2>2. AcceptKnown(c, 0) /\ RunKnown(c, 0)
    <3>1. AcceptKnown(c, 1 - 1) /\ RunKnown(c, 1 - 1)
      BY <1>3, <1>4, <1>6, <1>9 DEF Announced
    <3>2. 1 - 1 = 0
      OBVIOUS
    <3> QED BY <3>1, <3>2
  <2>3. intent.accepted /\ (c \in Prompt => intent.run = c)
    BY <2>2 DEF AcceptKnown, RunKnown, AcceptBefore, StartLast
  <2>4. c \in Compact => intent.run \in Spont \cup {NoCmd}
    BY <1>6, <2>1 DEF Released
  <2>5. ~Settles(f)
    BY <1>1, <1>6, <1>9 DEF Observe, NoIntent
  <2>6. Misbound(c)
    BY <1>2, <2>1, <2>3, <2>4, <2>5 DEF Settles, MatchesRun, Misbound
  <2>7. intent' = intent
    BY <1>9, <1>14, <2>1 DEF Answers
  <2> QED BY <2>6, <2>7 DEF Misbound
<1>10. ASSUME c \in Compact, intent'.cmd = c PROVE intent'.run \in Spont \cup {NoCmd}
  <2>1. intent.cmd = c
    BY <1>6, <1>8, <1>10 DEF NoIntent
  <2>2. f.type = "agent_start" => f.id \in Spont
    <3> SUFFICES ASSUME f.type = "agent_start", f.id \notin Spont PROVE FALSE
      OBVIOUS
    <3>1. f.id \in Run /\ f.id \notin Compact
      BY <1>3, <1>4 DEF Frame, SettleInv, StartsArePrompts
    <3>2. f.id \in Prompt
      BY <1>2, <3>1
    <3>3. Outstanding(f.id)
      BY <1>3, <1>4 DEF Outstanding
    <3>4. intent.cmd = f.id
      BY <1>2, <3>2, <3>3 DEF CoverInv, Covered
    <3> QED BY <1>2, <1>10, <2>1, <3>2, <3>4
  <2>3. intent.run \in Spont \cup {NoCmd}
    BY <1>6, <1>10, <2>1 DEF Released
  <2>4. intent'.run = intent.run \/ (f.type = "agent_start" /\ intent'.run = f.id)
    BY <1>1, <1>2, <1>10, <1>14 DEF Observe, NoIntent, Intent, StartedIntent
  <2> QED BY <2>2, <2>3, <2>4
<1>11. ASSUME intent'.cmd = c, intent'.accepted, Gone(c)' PROVE Misbound(c)'
  <2>1. intent.cmd = c /\ (intent.accepted \/ f = Response(c, "ok"))
    BY <1>3, <1>6, <1>8, <1>11 DEF NoIntent, Answers, Frame, Response
  <2>2. f = Response(c, "ok") => AcceptIn(c, out)
    BY <1>3, <1>4 DEF AcceptIn
  <2>3. CASE f = Event("agent_settled", c)
    BY <1>9, <1>11, <2>3
  <2>4. CASE f # Event("agent_settled", c) /\ (active = c \/ SettledIn(c, out))
    <3>1. SettledIn(c, out) => SettledIn(c, out')
      BY <1>1, <1>2, <2>4, OrderTail DEF f
    <3> QED BY <1>1, <1>11, <2>4, <3>1 DEF Gone, SettledIn, FrameIn, Event
  <2>5. CASE f # Event("agent_settled", c) /\ Misbound(c) /\ intent.accepted /\ Gone(c)
    <3>1. c \in Compact /\ intent.run \in Spont /\ f.id # c
      BY <1>7, <2>5 DEF Misbound, Gone
    <3>2. ~Answers(f, "ok")
      BY <2>1, <3>1 DEF Answers
    <3>3. intent'.run \in Spont
      <4>1. intent'.run = intent.run \/ (f.type = "agent_start" /\ intent'.run = f.id)
        BY <1>1, <1>2, <1>11, <1>14, <3>2 DEF Observe, NoIntent, Intent, StartedIntent
      <4>2. NoCmd \notin Run /\ (f.type = "agent_start" => f.id \in Run)
        BY <1>3, ConstantsAssumption DEF Frame, Run, Exec, Cmd
      <4> QED BY <1>10, <1>11, <3>1, <4>1, <4>2
    <3> QED BY <3>1, <3>3 DEF Misbound
  <2>6. active = c \/ SettledIn(c, out) \/ (Misbound(c) /\ intent.accepted /\ Gone(c))
    BY <1>6, <2>1, <2>2 DEF Order, Released
  <2> QED BY <2>3, <2>4, <2>5, <2>6
<1>12. Released(c)'
  BY <1>1, <1>7, <1>9, <1>10, <1>11 DEF Released, Early, Event
<1>13. Announced(c)'
  <2>1. CASE ~Outstanding(c)'
    <3>1. active' # c /\ \A i \in 1 .. Len(out') : out'[i].id # c
      BY <2>1 DEF Outstanding
    <3> QED BY <3>1 DEF Announced, Event
  <2>2. CASE Outstanding(c)'
    <3>1. intent'.cmd = c /\ intent'.published
      BY <1>6, <2>2 DEF Covered
    <3>2. intent.cmd = c /\ intent.published /\ ~Rejects(f) /\ ~Settles(f)
      <4>1. intent' # NoIntent
        BY <1>6, <3>1 DEF NoIntent
      <4>2. ~Rejects(f) /\ ~Settles(f)
        BY <1>1, <4>1 DEF Observe
      <4> QED BY <1>8, <3>1, <4>1, <4>2
    <3>3. intent.accepted \/ f = Response(c, "ok") => intent'.accepted
      BY <1>1, <1>2, <3>2 DEF Observe, Answers, Response, StartedIntent, Intent
    <3>4. /\ f.type = "agent_start" => intent'.run = f.id
          /\ f.type # "agent_start" => intent'.run = intent.run
      BY <1>1, <1>2, <3>2 DEF Observe, Answers, StartedIntent, Intent
    <3>5. ASSUME NEW n \in 0 .. Len(out')
          PROVE  /\ AcceptKnown(c, n + 1) => AcceptKnown(c, n)'
                 /\ RunKnown(c, n + 1) => RunKnown(c, n)'
      <4>1. /\ AcceptBefore(c, out, n + 1) => f = Response(c, "ok") \/ AcceptBefore(c, out', n)
            /\ NoStart(out, n + 1) => f.type # "agent_start" /\ NoStart(out', n)
            /\ StartLast(c, out, n + 1) =>
                  \/ StartLast(c, out', n)
                  \/ f = Event("agent_start", c) /\ NoStart(out', n)
        BY <1>1, <1>2, KnownTail DEF f
      <4>2. AcceptKnown(c, n + 1) => AcceptKnown(c, n)'
        BY <3>3, <4>1 DEF AcceptKnown
      <4>3. f = Event("agent_start", c) => intent'.run = c
        BY <3>4 DEF Event
      <4>4. RunKnown(c, n + 1) => RunKnown(c, n)'
        BY <3>4, <4>1, <4>3 DEF RunKnown
      <4> QED BY <4>2, <4>4
    <3>6. Len(out') \in 0 .. Len(out')
      BY <1>4
    <3>7. /\ active' = c /\ responded' => AcceptKnown(c, Len(out))'
          /\ active' = c /\ started' => RunKnown(c, Len(out))'
      BY <1>1, <1>4, <1>6, <3>5, <3>6 DEF Announced
    <3>8. ASSUME NEW i \in 1 .. Len(out'), out'[i] = Event("agent_settled", c)
          PROVE  AcceptKnown(c, i - 1)' /\ RunKnown(c, i - 1)'
      <4>1. /\ i - 1 \in 0 .. Len(out') /\ (i - 1) + 1 = (i + 1) - 1 /\ i + 1 \in 1 .. Len(out)
            /\ out[i + 1] = Event("agent_settled", c)
        BY <1>1, <1>3, <1>4, <3>8
      <4>2. AcceptKnown(c, (i + 1) - 1) /\ RunKnown(c, (i + 1) - 1)
        BY <1>6, <4>1 DEF Announced
      <4>3. (i + 1) - 1 = (i - 1) + 1
        OBVIOUS
      <4> QED BY <3>5, <4>1, <4>2, <4>3
    <3> QED BY <3>7, <3>8 DEF Announced
  <2> QED BY <2>1, <2>2
<1> QED BY <1>12, <1>13

(* Together: the invariant of settlement, in every reachable state. *)
LEMMA Settlement == Spec => []SettleInv
<1>1. Init => SettleInv
  <2>0. Init => StartsArePrompts
    BY DEF Init, StartsArePrompts
  <2> SUFFICES ASSUME Init, NEW c \in Exec PROVE Announced(c) /\ Released(c)
    BY <2>0 DEF SettleInv
  <2>1. c # NoCmd /\ Len(out) = 0 /\ active = NoCmd /\ intent = NoIntent /\ reading = NoFrame
    BY ConstantsAssumption DEF Init, Exec, Cmd
  <2> QED BY <2>1 DEF Announced, Released, NoIntent, NoFrame, Event
<1>2. CoverInv /\ CoverInv' /\ SettleInv /\ [Next]_vars => SettleInv'
  <2> SUFFICES ASSUME CoverInv, CoverInv', SettleInv, [Next]_vars PROVE SettleInv'
    OBVIOUS
  <2>1. Quiet \/ NativeOrObserved
    BY QuietSteps DEF CoverInv
  <2> QED BY <2>1, SettleQuiet, SettleNative, SettleObserve DEF NativeOrObserved
<1> QED BY <1>1, <1>2, Covers, PTL DEF Spec

(* An accepted intent outlives its execution only where it is a compaction's    *)
(* and was bound to a run the native began by itself: a prompt is always        *)
(* released by its settlement, and so is a compaction beside no other run.      *)
THEOREM SettlementReleased == Spec => []ReleasedUnlessMisbound
<1>1. CoverInv /\ SettleInv => ReleasedUnlessMisbound
  <2> SUFFICES ASSUME CoverInv, SettleInv, NEW c \in Exec, intent.cmd = c,
                      reading = Event("agent_settled", c) \/ (intent.accepted /\ ~Outstanding(c))
               PROVE  Misbound(c)
    BY DEF ReleasedUnlessMisbound, Misbound
  <2>1. Order(c) /\ Released(c)
    BY DEF CoverInv, SettleInv
  <2>2. ~Outstanding(c) => active # c /\ ~SettledIn(c, out)
    BY DEF Outstanding, SettledIn, Event
  <2> QED BY <2>1, <2>2 DEF Released, Order
<1> QED BY <1>1, Covers, Settlement, PTL

(* A published intent is cleared by the rejection or the settlement of its own  *)
(* command, or is that of a compaction of which nothing is left, cleared by a   *)
(* later run of the native's own.                                               *)
THEOREM OwnFrameSettles == Spec => OnlyOwnFrameSettles
<1>1. ASSUME CoverInv, SettleInv, [Next]_vars, NEW c \in Exec,
             intent.cmd = c, intent.published, intent'.cmd # c
      PROVE  \/ reading' \in {Response(c, "fail"), Event("agent_settled", c)}
             \/ /\ c \in Compact /\ ~Outstanding(c)
                /\ \E r \in Spont : reading' = Event("agent_settled", r)
  <2>1. /\ Order(c) /\ Released(c) /\ c # NoCmd /\ intent \in Intent /\ out \in Seq(Frame)
        /\ TypeOK
    BY <1>1, ConstantsAssumption DEF CoverInv, SettleInv, TypeOK, PipesOK, AdmissionOK, Exec, Cmd
  <2>2. ~Quiet
    BY <1>1, <2>1 DEF Quiet, NoIntent, Intent
  <2>3. CASE NativeAccept \/ NativeReject \/ NativeAnswer \/ NativeRespond
    BY <1>1, <2>3 DEF NativeAccept, NativeReject, NativeAnswer, NativeRespond, admissionVars
  <2>4. CASE NativeStart \/ NativeSettle \/ \E r \in Spont : NativeSpontaneous(r)
    BY <1>1, <2>4 DEF NativeStart, NativeSettle, NativeSpontaneous, admissionVars
  <2>5. CASE ReaderObserve
    <3> DEFINE f == Head(out)
    <3>1. out # <<>> /\ Observe(f) /\ reading' = f
      BY <2>5 DEF ReaderObserve
    <3>2. f \in Frame
      BY <2>1, <3>1, TailFacts
    <3> HIDE DEF f
    <3>3. Rejects(f) \/ Settles(f)
      BY <1>1, <2>1, <3>1 DEF Observe, StartedIntent, Intent
    <3>4. Rejects(f) => f = Response(c, "fail")
      BY <1>1, <3>2 DEF Rejects, Answers, Frame, Response
    <3>5. ASSUME Settles(f), f # Event("agent_settled", c)
          PROVE  c \in Compact /\ Gone(c) /\ f.id \in Spont
      <4>1. intent.accepted /\ f.type = "agent_settled" /\ MatchesRun(intent.run, f.id)
        BY <3>5 DEF Settles
      <4>2. Foreign(c, f)
        BY <3>2, <3>5, <4>1 DEF Foreign, Frame, Event
      <4>3. ~NextSettles(c, out)
        BY <2>1, <3>1, <4>2, OrderTail DEF f
      <4>4. Gone(c)
        BY <1>1, <2>1, <4>1, <4>3 DEF Order
      <4>5. Misbound(c)
        BY <1>1, <2>1, <4>1, <4>4 DEF Released
      <4> QED BY <4>1, <4>4, <4>5, ConstantsAssumption DEF Misbound, MatchesRun, Cmd
    <3>6. Settles(f) /\ f.id \in Spont => f = Event("agent_settled", f.id)
      BY <3>2 DEF Settles, Frame, Event
    <3>7. Gone(c) => ~Outstanding(c)
      BY DEF Gone, Outstanding, FrameIn
    <3> QED BY <3>1, <3>3, <3>4, <3>5, <3>6, <3>7
  <2> QED BY <1>1, <2>1, <2>2, <2>3, <2>4, <2>5, QuietSteps DEF NativeOrObserved
<1>2. CoverInv /\ SettleInv /\ [Next]_vars
        => [\A c \in Exec : intent.cmd = c /\ intent.published /\ intent'.cmd # c
               => \/ reading' \in {Response(c, "fail"), Event("agent_settled", c)}
                  \/ /\ c \in Compact /\ ~Outstanding(c)
                     /\ \E r \in Spont : reading' = Event("agent_settled", r)]_vars
  BY <1>1
<1> QED BY <1>2, Covers, Settlement, PTL DEF Spec, OnlyOwnFrameSettles

-----------------------------------------------------------------------------
(***************************************************************************)
(* A registered caller owns the current intent, and so does a notification *)
(* that waits for the writer: the three ways of dropping a ticket (the     *)
(* caller's, the queued one, the writer's end) roll back no other.         *)
(***************************************************************************)
Waiting(c) == InSeq(c, queue) \/ (hand = c /\ handStep = "publish")

Kept(c) ==
    /\ mode[c] = "notify" => caller[c] # "wait"
    /\ caller[c] = "registered" => intent.cmd = c /\ ~intent.published
    /\ mode[c] = "notify" /\ caller[c] = "ok" /\ Waiting(c) => intent.cmd = c /\ ~intent.published

KeepInv == \A c \in Exec : Kept(c)

(* What a command needs to stay as it is: nothing of it changes, or its caller  *)
(* is before registration or has failed.                                        *)
LEMMA KeptStays ==
    ASSUME NEW c \in Exec, Kept(c),
           \/ caller'[c] \in {"new", "admit", "gate", "drop", "err"}
           \/ /\ caller'[c] = caller[c] /\ mode'[c] = mode[c]
              /\ Waiting(c)' => Waiting(c)
              /\ intent' = intent \/ intent.cmd # c
    PROVE  Kept(c)'
BY DEF Kept

(* Every step of every actor preserves it. *)
LEMMA KeepStep ==
    ASSUME CoverInv, KeepInv, [Next]_vars
    PROVE  KeepInv'
<1> SUFFICES ASSUME NEW c \in Exec PROVE Kept(c)'
  BY DEF KeepInv
<1>1. Life(c) /\ Order(c) /\ Kept(c) /\ c \in Cmd /\ c # NoCmd /\ c \notin Probe
  BY ConstantsAssumption DEF CoverInv, KeepInv, Lifecycle, Cmd
<1>2. /\ queue \in Seq(Cmd) /\ hand \in Cmd \cup {NoCmd} /\ out \in Seq(Frame)
      /\ caller \in [Cmd -> CallerState] /\ mode \in [Cmd -> {"send", "notify"}]
      /\ intent \in Intent
  BY DEF CoverInv, TypeOK, PipesOK, CallersOK, AdmissionOK
<1>3. ASSUME NEW d \in Cmd, BeginOperation(d) PROVE Kept(c)'
  BY <1>1, <1>2, <1>3, KeptStays DEF BeginOperation, Waiting, writerVars, admissionVars
<1>4. ASSUME NEW d \in Cmd, Submit(d) PROVE Kept(c)'
  BY <1>1, <1>2, <1>4, KeptStays DEF Submit, Waiting, writerVars, admissionVars
<1>5. ASSUME NEW d \in Cmd, Admit(d) PROVE Kept(c)'
  BY <1>1, <1>2, <1>5, KeptStays DEF Admit, Waiting, writerVars, admissionVars
<1>6. ASSUME NEW d \in Cmd, GiveUp(d) PROVE Kept(c)'
  BY <1>1, <1>2, <1>6, KeptStays DEF GiveUp, Waiting, writerVars, admissionVars
<1>7. ASSUME NEW d \in Cmd, ReleaseLease(d) PROVE Kept(c)'
  BY <1>1, <1>2, <1>7, KeptStays DEF ReleaseLease, Waiting, writerVars, admissionVars
<1>8. ASSUME NEW p \in Probe, RetireProbe(p) PROVE Kept(c)'
  BY <1>1, <1>2, <1>8, KeptStays DEF RetireProbe, Waiting, writerVars, admissionVars
<1>9. ASSUME NEW d \in Cmd, Register(d) PROVE Kept(c)'
  <2>1. /\ Waiting(c)' = Waiting(c) /\ mode' = mode
        /\ d # c => caller'[c] = caller[c]
    BY <1>1, <1>2, <1>9 DEF Register, Waiting, writerVars
  <2>2. CASE intent' = intent
    <3>1. d = c => caller'[c] = "err" \/ intent'.cmd = c
      BY <1>1, <1>2, <1>9 DEF Register, NoIntent
    <3>2. CASE d = c /\ caller'[c] # "err"
      BY <1>1, <1>2, <1>9, <2>2, <3>1, <3>2 DEF Register, Unsettled, NoIntent
    <3> QED BY <1>1, <2>1, <2>2, <3>1, <3>2, KeptStays
  <2>3. CASE intent' # intent
    <3>1. intent = NoIntent /\ d \in Exec /\ intent'.cmd = d /\ ~intent'.published
          /\ caller'[d] = "registered" /\ caller[d] = "gate"
      BY <1>2, <1>9, <2>3 DEF Register, Unsettled, NoIntent
    <3>2. d # c => Kept(c)'
      BY <1>1, <2>1, <3>1, KeptStays DEF NoIntent
    <3>3. d = c => Kept(c)'
      BY <3>1 DEF Kept
    <3> QED BY <3>2, <3>3
  <2> QED BY <2>2, <2>3
<1>10. ASSUME NEW d \in Cmd, Enqueue(d) PROVE Kept(c)'
  <2>1. /\ hand' = hand /\ handStep' = handStep /\ intent' = intent /\ mode' = mode
        /\ queue' = queue \/ queue' = Append(queue, d)
    BY <1>10 DEF Enqueue, admissionVars
  <2>2. d # c => /\ caller'[c] = caller[c]
                 /\ Waiting(c)' => Waiting(c)
    <3>1. InSeq(c, queue') => InSeq(c, queue) \/ c = d
      BY <1>2, <2>1, InAppend, ZenonT(60)
    <3>2. d # c => caller'[c] = caller[c]
      BY <1>1, <1>2, <1>10 DEF Enqueue
    <3> QED BY <2>1, <3>1, <3>2 DEF Waiting
  <2>3. d = c => /\ caller[c] = "registered"
                 /\ caller'[c] \in {"wait", "ok", "drop"}
                 /\ mode[c] = "notify" => caller'[c] # "wait"
    BY <1>1, <1>2, <1>10 DEF Enqueue
  <2>4. d = c => Kept(c)'
    BY <1>1, <2>1, <2>3 DEF Kept
  <2> QED BY <1>1, <2>1, <2>2, <2>4, KeptStays
<1>11. ASSUME NEW d \in Cmd, Receive(d) PROVE Kept(c)'
  <2>1. /\ Waiting(c)' = Waiting(c) /\ mode' = mode
        /\ d # c => caller'[c] = caller[c] /\ (intent' = intent \/ intent.cmd # c)
        /\ d = c => caller[c] = "wait" /\ caller'[c] = "ok"
    BY <1>1, <1>2, <1>11 DEF Receive, Rollback, Waiting, writerVars
  <2>2. d = c => Kept(c)'
    BY <1>1, <2>1 DEF Kept
  <2> QED BY <1>1, <2>1, <2>2, KeptStays
<1>12. ASSUME NEW d \in Cmd, DropTicket(d) PROVE Kept(c)'
  <2>1. /\ Waiting(c)' = Waiting(c) /\ mode' = mode
        /\ d # c => caller'[c] = caller[c] /\ (intent' = intent \/ intent.cmd # c)
        /\ d = c => caller'[c] = "err"
    BY <1>1, <1>2, <1>12 DEF DropTicket, Rollback, Waiting, writerVars
  <2> QED BY <1>1, <2>1, KeptStays
<1>13. CASE WriterTake
  <2>1. /\ queue # <<>> /\ queue' = Tail(queue) /\ caller' = caller /\ mode' = mode /\ hand = NoCmd
    BY <1>13 DEF WriterTake, callerVars
  <2>2. /\ InSeq(c, queue') => InSeq(c, queue)
        /\ c = Head(queue) => InSeq(c, queue)
    BY <1>1, <1>2, <2>1, InTail, HeadOnce
  <2>3. CASE intent' = intent /\ hand' = Head(queue)
    <3>1. Waiting(c)' => Waiting(c)
      BY <2>2, <2>3 DEF Waiting
    <3> QED BY <1>1, <2>1, <2>3, <3>1, KeptStays
  <2>4. CASE mode[Head(queue)] = "send" /\ intent' = Rollback({Head(queue)}) /\ hand' = hand
    <3>1. Waiting(c)' => InSeq(c, queue)
      BY <1>1, <2>1, <2>2, <2>4 DEF Waiting
    <3>2. CASE c = Head(queue)
      <4>1. InSeq(c, queue) /\ mode[c] = "send"
        BY <2>2, <2>4, <3>2
      <4>2. caller[c] # "registered"
        BY <1>1, <4>1 DEF Life, Early
      <4> QED BY <2>1, <4>1, <4>2 DEF Kept
    <3>3. CASE c # Head(queue)
      <4>1. intent' = intent \/ intent.cmd # c
        BY <2>4, <3>3 DEF Rollback
      <4>2. Waiting(c)' => Waiting(c)
        BY <3>1 DEF Waiting
      <4> QED BY <1>1, <2>1, <4>1, <4>2, KeptStays
    <3> QED BY <3>2, <3>3
  <2> QED BY <1>13, <2>3, <2>4, Zenon DEF WriterTake
<1>14. CASE WriterPublish
  <2>1. /\ queue' = queue /\ caller' = caller /\ mode' = mode /\ handStep' = "write"
        /\ hand # NoCmd /\ handStep = "publish"
        /\ intent' = intent \/ intent.cmd = hand
    BY <1>14, Zenon DEF WriterPublish, callerVars
  <2>2. Waiting(c)' => InSeq(c, queue)
    BY <2>1 DEF Waiting
  <2>3. CASE hand = c
    <3>1. ~InSeq(c, queue) /\ caller[c] # "registered"
      BY <1>1, <2>3 DEF Life, Early
    <3> QED BY <1>1, <2>1, <2>2, <3>1 DEF Kept
  <2>4. CASE hand # c
    BY <1>1, <2>1, <2>2, <2>4, KeptStays DEF Waiting
  <2> QED BY <2>3, <2>4
<1>15. CASE WriterWrite
  <2>1. /\ caller' = caller /\ mode' = mode /\ hand' = NoCmd
        /\ \/ intent' = intent /\ queue' = queue
           \/ intent' = Rollback({queue[i] : i \in 1 .. Len(queue)}) /\ queue' = <<>>
    BY <1>15 DEF WriterWrite, callerVars
  <2>2. CASE intent' = intent /\ queue' = queue
    BY <1>1, <2>1, <2>2, KeptStays DEF Waiting
  <2>3. CASE intent' = Rollback({queue[i] : i \in 1 .. Len(queue)}) /\ queue' = <<>>
    <3>1. ~Waiting(c)'
      BY <1>1, <2>1, <2>3, InEmpty DEF Waiting
    <3>2. caller[c] = "registered" => ~InSeq(c, queue)
      BY <1>1 DEF Life, Early
    <3>3. caller[c] = "registered" => intent' = intent
      BY <1>1, <2>3, <3>2 DEF Kept, Rollback, InSeq
    <3> QED BY <1>1, <2>1, <3>1, <3>3 DEF Kept
  <2> QED BY <2>1, <2>2, <2>3
<1>16. CASE WriterAbort
  <2>1. /\ caller' = caller /\ mode' = mode /\ hand' = NoCmd /\ queue' = <<>>
        /\ intent' = Rollback({queue[i] : i \in 1 .. Len(queue)} \cup {hand})
    BY <1>16 DEF WriterAbort, callerVars
  <2>2. ~Waiting(c)'
    BY <1>1, <2>1, InEmpty DEF Waiting
  <2>3. caller[c] = "registered" => ~InSeq(c, queue) /\ hand # c
    BY <1>1 DEF Life, Early
  <2>4. caller[c] = "registered" => intent' = intent
    BY <1>1, <2>1, <2>3 DEF Kept, Rollback, InSeq
  <2> QED BY <1>1, <2>1, <2>2, <2>4 DEF Kept
<1>17. CASE ReaderObserve
  <2> DEFINE f == Head(out)
  <2>1. /\ out # <<>> /\ Observe(f)
        /\ queue' = queue /\ hand' = hand /\ handStep' = handStep /\ caller' = caller /\ mode' = mode
    BY <1>17 DEF ReaderObserve, callerVars, writerVars
  <2>2. FrameIn(c, out) \/ f.id # c
    BY <1>2, <2>1, TailFacts DEF FrameIn
  <2> HIDE DEF f
  <2>3. ASSUME caller[c] = "registered" \/ Waiting(c), intent.cmd = c, ~intent.published
        PROVE  intent' = intent
    <3>1. ~FrameIn(c, out) /\ active # c /\ ~Gone(c)
      BY <1>1, <2>3 DEF Life, Early, Waiting, Gone
    <3>2. ~intent.accepted
      BY <1>1, <2>3, <3>1 DEF Order, SettledIn, FrameIn, Event
    <3>3. ~Answers(f, "ok") /\ ~Rejects(f) /\ ~Settles(f)
      BY <2>2, <2>3, <3>1, <3>2 DEF Answers, Rejects, Settles
    <3> QED BY <2>1, <2>3, <3>3 DEF Observe, StartedIntent
  <2>4. Waiting(c)' = Waiting(c)
    BY <2>1 DEF Waiting
  <2> QED BY <1>1, <2>1, <2>3, <2>4 DEF Kept
<1>18. ASSUME NativeAccept \/ NativeReject \/ NativeAnswer \/ NativeRespond PROVE Kept(c)'
  BY <1>1, <1>18, KeptStays DEF NativeAccept, NativeReject, NativeAnswer, NativeRespond, Waiting, callerVars, writerVars, admissionVars
<1>19. ASSUME NativeStart \/ NativeSettle \/ NativeExit \/ \E r \in Spont : NativeSpontaneous(r) PROVE Kept(c)'
  BY <1>1, <1>19, KeptStays DEF NativeStart, NativeSettle, NativeExit, NativeSpontaneous, Waiting, callerVars, writerVars, admissionVars
<1>20. ASSUME ReaderProject \/ ReaderStop \/ FailClosed PROVE Kept(c)'
  BY <1>1, <1>20, KeptStays DEF ReaderProject, ReaderStop, FailClosed, Waiting, callerVars, writerVars, admissionVars
<1>21. ASSUME RetireBegin \/ RetireLease \/ RetireSnapshot \/ RetireUnsettled PROVE Kept(c)'
  BY <1>1, <1>21, KeptStays DEF RetireBegin, RetireLease, RetireSnapshot, RetireUnsettled, Waiting, callerVars, writerVars, admissionVars
<1>22. ASSUME RetireProbed \/ RetireClose \/ RetireDone \/ Terminated \/ UNCHANGED vars PROVE Kept(c)'
  BY <1>1, <1>22, KeptStays DEF RetireProbed, RetireClose, RetireDone, Terminated, vars, Waiting, callerVars, writerVars, admissionVars
<1> QED
  BY <1>3, <1>4, <1>5, <1>6, <1>7, <1>8, <1>9, <1>10, <1>11, <1>12, <1>13, <1>14, <1>15, <1>16, <1>17, <1>18, <1>19, <1>20, <1>21, <1>22
     DEF Next, CallerStep, WriterStep, NativeStep, ReaderStep, RetireStep

(* A command that notify accepted keeps its intent until the writer publishes   *)
(* it or ends.                                                                  *)
THEOREM NotificationsCovered == Spec => []NotifiedCovered
<1>1. Init => KeepInv
  BY ConstantsAssumption DEF Init, KeepInv, Kept, Exec, Cmd
<1>2. CoverInv /\ KeepInv /\ [Next]_vars => KeepInv'
  BY KeepStep
<1>3. KeepInv => NotifiedCovered
  BY DEF KeepInv, Kept, Waiting, NotifiedCovered
<1> QED BY <1>1, <1>2, <1>3, Covers, PTL DEF Spec

-----------------------------------------------------------------------------
(***************************************************************************)
(* Retirement. While admission is fenced and no caller holds its gate, no  *)
(* work enters the pipes; a probe drives before it what is still there, so *)
(* an idle report means that nothing is left. Work is what the retirement  *)
(* must not cut off.                                                       *)
(***************************************************************************)
Work == Exec \cup Steer
NoneIn(s) == \A i \in 1 .. Len(s) : s[i] \notin Work
Behind(p, s) == \A i, j \in 1 .. Len(s) : s[i] = p /\ i < j => s[j] \notin Work

Quieted ==
    /\ NoneIn(queue) /\ hand \notin Work /\ NoneIn(inbox)
    /\ active \notin Exec /\ steering = {}
IdleReported(p) == InSeq(Response(p, "ok"), out) \/ reading = Response(p, "ok") \/ answer[p] = "ok"

\* What probe p leaves behind it on its way to the native.
Flushing(p) ==
    /\ Behind(p, queue)
    /\ hand = p => NoneIn(queue)
    /\ InSeq(p, inbox) => NoneIn(queue) /\ hand \notin Work
    /\ Behind(p, inbox)

Settled == \A c \in Exec : ~Outstanding(c)

\* No report of a probe precedes the probe.
Late(c) ==
    /\ reading.id = c => ~Early(c)
    /\ caller[c] = "new" => answer[c] # "ok"

Retired ==
    /\ Fenced => Readers = {}
    /\ retire \in {"stateWait", "historyWait"} =>
          /\ probing \in Probe /\ Flushing(probing)
          /\ IdleReported(probing) => Quieted
    /\ retire \in {"snapshot2", "unsettled2", "close", "closing"} => Quieted
    /\ retire \in {"close", "closing"} => Settled

QuietInv == Retired /\ \A c \in Cmd : Late(c)

\* What a step may do to the pipes while no caller of work holds the gate.
Pipes ==
    \/ /\ hand' = hand /\ inbox' = inbox
       /\ queue' = queue \/ \E d \in Probe : queue' = Append(queue, d)
    \/ /\ queue # <<>> /\ queue' = Tail(queue) /\ inbox' = inbox
       /\ hand = NoCmd /\ hand' \in {NoCmd, Head(queue)}
    \/ hand' = NoCmd /\ queue' \in {queue, <<>>} /\ inbox' = inbox
    \/ hand # NoCmd /\ hand' = NoCmd /\ queue' = queue /\ inbox' = Append(inbox, hand)
    \/ hand' = hand /\ queue' = queue /\ inbox # <<>> /\ inbox' = Tail(inbox)

\* What a step may do to the native's run: only work in its inbox begins work.
Runs ==
    \/ active' = active /\ steering' = steering
    \/ inbox # <<>> /\ Head(inbox) \in Work
    \/ active' \notin Exec /\ steering' \in {steering, {}}

(* Every step of every actor. *)
LEMMA PipesMove ==
    ASSUME TypeOK, Readers = {}, [Next]_vars
    PROVE  Pipes /\ Runs
<1>1. \A d \in Cmd : caller[d] = "registered" => d \in Probe
  BY DEF Readers
<1>2. ASSUME NEW d \in Cmd, CallerStep(d) PROVE Pipes /\ Runs
  <2>1. hand' = hand /\ inbox' = inbox /\ active' = active /\ steering' = steering
    BY <1>2 DEF CallerStep, BeginOperation, Submit, Admit, Register, Enqueue, Receive, GiveUp,
                DropTicket, ReleaseLease, writerVars, nativeVars
  <2>2. queue' = queue \/ (caller[d] = "registered" /\ queue' = Append(queue, d))
    BY <1>2 DEF CallerStep, BeginOperation, Submit, Admit, Register, Enqueue, Receive, GiveUp,
                DropTicket, ReleaseLease, writerVars
  <2> QED BY <1>1, <2>1, <2>2 DEF Pipes, Runs
<1>3. CASE WriterTake
  <2>1. /\ queue # <<>> /\ queue' = Tail(queue) /\ inbox' = inbox
        /\ hand = NoCmd /\ hand' \in {NoCmd, Head(queue)}
        /\ active' = active /\ steering' = steering
    BY <1>3, Zenon DEF WriterTake, nativeVars
  <2> QED BY <2>1 DEF Pipes, Runs
<1>4. CASE WriterPublish
  <2>1. /\ queue' = queue /\ inbox' = inbox
        /\ hand' = hand \/ hand' = NoCmd
        /\ active' = active /\ steering' = steering
    BY <1>4, Zenon DEF WriterPublish, nativeVars
  <2> QED BY <2>1 DEF Pipes, Runs
<1>5. CASE WriterWrite
  BY <1>5 DEF WriterWrite, Pipes, Runs
<1>6. CASE WriterAbort
  BY <1>6 DEF WriterAbort, Pipes, Runs, nativeVars
<1>7. ASSUME NativeAccept \/ NativeReject \/ NativeAnswer PROVE Pipes /\ Runs
  BY <1>7 DEF NativeAccept, NativeReject, NativeAnswer, Pipes, Runs, Work, writerVars
<1>8. ASSUME NativeRespond \/ NativeStart \/ NativeSettle \/ NativeExit PROVE Pipes /\ Runs
  <2>1. NoCmd \notin Exec
    BY ConstantsAssumption DEF Cmd, Exec
  <2> QED BY <1>8, <2>1 DEF NativeRespond, NativeStart, NativeSettle, NativeExit, Pipes, Runs, writerVars
<1>9. ASSUME NEW r \in Spont, NativeSpontaneous(r) PROVE Pipes /\ Runs
  <2>1. r \notin Exec
    BY ConstantsAssumption DEF Cmd, Exec
  <2> QED BY <1>9, <2>1 DEF NativeSpontaneous, Pipes, Runs, writerVars
<1>10. CASE ReaderStep
  BY <1>10 DEF ReaderStep, ReaderObserve, ReaderProject, ReaderStop, FailClosed, Pipes, Runs, writerVars, nativeVars
<1>11. CASE RetireStep
  BY <1>11 DEF RetireStep, RetireBegin, RetireLease, RetireSnapshot, RetireUnsettled, RetireProbed,
               RetireClose, RetireDone, RetireProbe, Pipes, Runs, writerVars, nativeVars
<1>12. CASE Terminated \/ UNCHANGED vars
  BY <1>12 DEF Terminated, vars, Pipes, Runs, writerVars, nativeVars
<1> QED BY <1>2, <1>3, <1>4, <1>5, <1>6, <1>7, <1>8, <1>9, <1>10, <1>11, <1>12
           DEF Next, WriterStep, NativeStep

(* What Append and Tail do to the work in a pipe and to what is behind a probe. *)
LEMMA WorkAppend ==
    ASSUME NEW S, NEW s \in Seq(S), NEW d \in S, NEW p
    PROVE  /\ NoneIn(s) /\ d \notin Work => NoneIn(Append(s, d))
           /\ Behind(p, s) /\ (InSeq(p, s) => d \notin Work) => Behind(p, Append(s, d))
<1> DEFINE t == Append(s, d)
<1>1. /\ Len(t) = Len(s) + 1 /\ t[Len(s) + 1] = d /\ Len(s) \in Nat
      /\ \A k \in 1 .. Len(s) : t[k] = s[k]
      /\ \A k \in 1 .. Len(t) : k \in 1 .. Len(s) \/ k = Len(s) + 1
  OBVIOUS
<1> HIDE DEF t
<1>2. NoneIn(s) /\ d \notin Work => NoneIn(t)
  BY <1>1 DEF NoneIn
<1>3. ASSUME Behind(p, s), InSeq(p, s) => d \notin Work PROVE Behind(p, t)
  <2> SUFFICES ASSUME NEW i \in 1 .. Len(t), NEW j \in 1 .. Len(t), t[i] = p, i < j
               PROVE  t[j] \notin Work
    BY DEF Behind
  <2>1. i \in 1 .. Len(s) /\ s[i] = p
    BY <1>1
  <2> QED BY <1>1, <1>3, <2>1 DEF Behind, InSeq
<1> QED BY <1>2, <1>3 DEF t

LEMMA WorkTail ==
    ASSUME NEW S, NEW s \in Seq(S), s # <<>>, NEW p
    PROVE  /\ NoneIn(s) => Head(s) \notin Work /\ NoneIn(Tail(s))
           /\ Behind(p, s) => Behind(p, Tail(s))
           /\ Behind(p, s) /\ Head(s) = p => NoneIn(Tail(s))
<1> DEFINE t == Tail(s)
<1>1. /\ Head(s) = s[1] /\ 1 \in 1 .. Len(s)
      /\ \A i \in 1 .. Len(t) : i + 1 \in 1 .. Len(s) /\ 1 < i + 1 /\ t[i] = s[i + 1]
      /\ \A i, j \in 1 .. Len(t) : i < j => i + 1 < j + 1
  BY TailFacts
<1> HIDE DEF t
<1>2. NoneIn(s) => Head(s) \notin Work /\ NoneIn(t)
  BY <1>1 DEF NoneIn
<1>3. Behind(p, s) => Behind(p, t)
  BY <1>1 DEF Behind
<1>4. Behind(p, s) /\ Head(s) = p => NoneIn(t)
  BY <1>1 DEF Behind, NoneIn
<1> QED BY <1>2, <1>3, <1>4 DEF t

(* A session without work stays so, and a probe keeps flushing it. *)
LEMMA QuietedStays ==
    ASSUME TypeOK, Pipes, Runs, Quieted
    PROVE  Quieted'
<1>1. /\ queue \in Seq(Cmd) /\ inbox \in Seq(Cmd) /\ Probe \cap Work = {} /\ Probe \subseteq Cmd
      /\ NoCmd \notin Work /\ hand \in Cmd \cup {NoCmd}
  BY ConstantsAssumption DEF TypeOK, PipesOK, Work, Cmd
<1>2. NoneIn(<<>>)
  BY DEF NoneIn
<1>3. NoneIn(queue')
  BY <1>1, <1>2, WorkAppend, WorkTail DEF Pipes, Quieted
<1>4. hand' \notin Work
  BY <1>1, WorkTail DEF Pipes, Quieted
<1>5. NoneIn(inbox')
  BY <1>1, WorkAppend, WorkTail DEF Pipes, Quieted
<1>6. active' \notin Exec /\ steering' = {}
  BY <1>1, WorkTail DEF Runs, Quieted
<1> QED BY <1>3, <1>4, <1>5, <1>6 DEF Quieted, NoneIn

LEMMA FlushingStays ==
    ASSUME TypeOK, Pipes, NEW p \in Probe, Flushing(p)
    PROVE  Flushing(p)'
<1>1. /\ queue \in Seq(Cmd) /\ inbox \in Seq(Cmd) /\ Probe \cap Work = {} /\ Probe \subseteq Cmd
      /\ NoCmd \notin Work /\ hand \in Cmd \cup {NoCmd} /\ p # NoCmd /\ p \notin Work
  BY ConstantsAssumption DEF TypeOK, PipesOK, Work, Cmd
<1>2. NoneIn(<<>>) /\ Behind(p, <<>>)
  BY DEF NoneIn, Behind
<1>3. Behind(p, queue')
  BY <1>1, <1>2, WorkAppend, WorkTail DEF Pipes, Flushing
<1>4. NoneIn(queue) => NoneIn(queue')
  BY <1>1, <1>2, WorkAppend, WorkTail DEF Pipes
<1>5. hand' = p => NoneIn(queue')
  BY <1>1, <1>4, WorkTail DEF Pipes, Flushing
<1>6. InSeq(p, inbox') => InSeq(p, inbox) \/ (hand = p /\ hand' = NoCmd /\ queue' = queue)
  <2>1. hand \in Cmd => (InSeq(p, Append(inbox, hand)) => InSeq(p, inbox) \/ hand = p)
    BY <1>1, InAppend
  <2>2. inbox # <<>> => (InSeq(p, Tail(inbox)) => InSeq(p, inbox))
    BY <1>1, InTail
  <2> QED BY <1>1, <2>1, <2>2 DEF Pipes
<1>7. NoneIn(queue) /\ hand \notin Work => hand' \notin Work
  BY <1>1, WorkTail DEF Pipes
<1>8. InSeq(p, inbox') => NoneIn(queue') /\ hand' \notin Work
  BY <1>1, <1>4, <1>6, <1>7 DEF Flushing
<1>9. Behind(p, inbox')
  BY <1>1, WorkAppend, WorkTail DEF Pipes, Flushing
<1> QED BY <1>3, <1>5, <1>8, <1>9 DEF Flushing, NoneIn, Behind, InSeq

(* An idle report comes from the native alone, when it answers the probe idle.  *)
LEMMA ReportStep ==
    ASSUME TypeOK, [Next]_vars, NEW p \in Probe, IdleReported(p)', ~IdleReported(p)
    PROVE  /\ inbox # <<>> /\ Head(inbox) = p /\ inbox' = Tail(inbox) /\ NativeIdle
           /\ queue' = queue /\ hand' = hand /\ active' = active /\ steering' = steering
<1>1. /\ p \in Cmd /\ p \notin Exec /\ p \notin Steer
      /\ out \in Seq(Frame) /\ inbox \in Seq(Cmd) /\ reading \in Frame \cup {NoFrame}
      /\ answer \in [Cmd -> {"none", "ok", "busy", "fail"}]
  BY ConstantsAssumption DEF TypeOK, PipesOK, CallersOK, Cmd
<1> DEFINE F == Response(p, "ok")
<1>2. F # NoFrame /\ F.id = p /\ F.type = "response" /\ F \in Frame
  BY <1>1 DEF Response, NoFrame, Frame
<1> HIDE DEF F
<1>3. ~InSeq(F, out) /\ reading # F /\ answer[p] # "ok"
  BY DEF IdleReported, F
<1>4. InSeq(F, out') \/ reading' = F \/ answer'[p] = "ok"
  BY DEF IdleReported, F, InSeq
<1>5. ASSUME NEW f \in Frame, out' = Append(out, f), f # F, reading' = reading, answer' = answer
      PROVE  FALSE
  BY <1>1, <1>3, <1>4, <1>5, InAppend
<1>6. ASSUME out' = out, reading' = reading \/ reading' = NoFrame, answer' = answer
      PROVE  FALSE
  BY <1>2, <1>3, <1>4, <1>6
<1>7. ASSUME NEW d \in Cmd, CallerStep(d) PROVE FALSE
  BY <1>6, <1>7 DEF CallerStep, BeginOperation, Submit, Admit, Register, Enqueue, Receive, GiveUp,
                    DropTicket, ReleaseLease, readerVars
<1>8. ASSUME WriterStep PROVE FALSE
  BY <1>6, <1>8 DEF WriterStep, WriterTake, WriterPublish, WriterWrite, WriterAbort, callerVars, readerVars
<1>9. ASSUME RetireStep PROVE FALSE
  BY <1>6, <1>9 DEF RetireStep, RetireBegin, RetireLease, RetireSnapshot, RetireUnsettled, RetireProbed,
                    RetireClose, RetireDone, RetireProbe, callerVars, readerVars
<1>10. ASSUME Terminated \/ UNCHANGED vars \/ NativeAccept \/ NativeExit
              \/ \E r \in Spont : NativeSpontaneous(r)
       PROVE FALSE
  BY <1>6, <1>10 DEF Terminated, vars, NativeAccept, NativeExit, NativeSpontaneous, callerVars, readerVars
<1>11. ASSUME NativeRespond \/ NativeStart \/ NativeSettle PROVE FALSE
  <2>1. PICK f : /\ out' = Append(out, f) /\ reading' = reading /\ answer' = answer /\ active # NoCmd
                 /\ \/ f = Response(active, "ok") /\ active \in Exec
                    \/ f = Event("agent_start", active)
                    \/ f = Event("agent_settled", active)
    BY <1>11, ConstantsAssumption DEF NativeRespond, NativeStart, NativeSettle, callerVars, readerVars, Cmd
  <2>2. active \in Run
    BY <2>1 DEF TypeOK, AdmissionOK
  <2>3. f \in Frame /\ f # F
    BY <1>1, <1>2, <2>1, <2>2 DEF Response, Event, Frame, Cmd
  <2> QED BY <1>5, <2>1, <2>3
<1>12. ASSUME NativeReject PROVE FALSE
  <2>1. /\ out' = Append(out, Response(Head(inbox), "fail")) /\ reading' = reading /\ answer' = answer
        /\ inbox # <<>>
    BY <1>12 DEF NativeReject, callerVars, readerVars
  <2>2. Head(inbox) \in Cmd
    BY <1>1, <2>1, TailFacts
  <2>3. Response(Head(inbox), "fail") \in Frame /\ Response(Head(inbox), "fail") # F
    BY <2>2 DEF Response, Frame, F
  <2> QED BY <1>5, <2>1, <2>3
<1>13. ASSUME ReaderObserve PROVE FALSE
  <2>1. out # <<>> /\ out' = Tail(out) /\ reading' = Head(out) /\ answer' = answer
    BY <1>13 DEF ReaderObserve, callerVars
  <2> QED BY <1>1, <1>3, <1>4, <2>1, InTail, HeadOnce
<1>14. ASSUME ReaderProject PROVE FALSE
  <2>1. out' = out /\ reading' = NoFrame /\ reading # NoFrame
        /\ \/ answer' = answer
           \/ reading.type = "response" /\ answer' = [answer EXCEPT ![reading.id] = reading.result]
    BY <1>14 DEF ReaderProject
  <2>2. answer'[p] = "ok"
    BY <1>2, <1>3, <1>4, <2>1
  <2>3. reading.type = "response" /\ reading.id = p /\ reading.result = "ok"
    BY <1>1, <1>3, <2>1, <2>2
  <2>4. reading = F
    BY <1>1, <2>1, <2>3 DEF Frame, Response, F
  <2> QED BY <1>3, <2>4
<1>15. ASSUME ReaderStop \/ FailClosed PROVE FALSE
  <2>1. out' = out /\ reading' = reading /\ (answer'[p] = "fail" \/ answer'[p] = answer[p])
    BY <1>1, <1>15 DEF ReaderStop, FailClosed, FailPending, readerVars
  <2> QED BY <1>3, <1>4, <2>1
<1>16. ASSUME NativeAnswer
       PROVE  /\ inbox # <<>> /\ Head(inbox) = p /\ inbox' = Tail(inbox) /\ NativeIdle
              /\ queue' = queue /\ hand' = hand /\ active' = active /\ steering' = steering
  <2>1. PICK r \in {"ok", "busy", "fail"} :
           /\ out' = Append(out, Response(Head(inbox), r))
           /\ Head(inbox) \in Probe /\ r = "ok" => NativeIdle
    BY <1>16 DEF NativeAnswer
  <2>2. inbox # <<>> /\ inbox' = Tail(inbox) /\ queue' = queue /\ hand' = hand /\ active' = active
        /\ reading' = reading /\ answer' = answer
        /\ (Head(inbox) \notin Steer => steering' = steering)
    BY <1>16 DEF NativeAnswer, callerVars, writerVars, readerVars
  <2>3. Head(inbox) \in Cmd
    BY <1>1, <2>2, TailFacts
  <2>4. Response(Head(inbox), r) \in Frame
    BY <2>3 DEF Response, Frame
  <2>5. Response(Head(inbox), r) = F
    BY <1>5, <2>1, <2>2, <2>4
  <2>6. Head(inbox) = p /\ r = "ok"
    BY <2>5 DEF Response, F
  <2> QED BY <1>1, <2>1, <2>2, <2>6
<1> QED BY <1>7, <1>8, <1>9, <1>10, <1>11, <1>12, <1>13, <1>14, <1>15, <1>16
           DEF Next, NativeStep, ReaderStep

(* A frame of a command comes from the run of that command, or answers it.      *)
LEMMA FramesStep ==
    ASSUME TypeOK, [Next]_vars, NEW c \in Exec, FrameIn(c, out'), ~FrameIn(c, out)
    PROVE  active = c \/ (inbox # <<>> /\ Head(inbox) = c)
<1>1. out \in Seq(Frame) /\ inbox \in Seq(Cmd) /\ active \in Run \cup {NoCmd} /\ c # NoCmd
  BY ConstantsAssumption DEF TypeOK, PipesOK, AdmissionOK, Exec, Cmd
<1>2. out' # out
  OBVIOUS
<1>3. ~Quiet
  BY <1>2 DEF Quiet
<1>4. CASE ReaderObserve
  <2>1. out # <<>> /\ out' = Tail(out)
    BY <1>4 DEF ReaderObserve
  <2> QED BY <1>1, <2>1, FrameTail
<1>5. CASE NativeReject \/ NativeAnswer
  <2>1. PICK r \in {"ok", "busy", "fail"} : out' = Append(out, Response(Head(inbox), r)) /\ inbox # <<>>
    BY <1>5 DEF NativeReject, NativeAnswer
  <2>2. Response(Head(inbox), r) \in Frame /\ Response(Head(inbox), r).id = Head(inbox)
    BY <1>1, <2>1, TailFacts DEF Response, Frame
  <2> QED BY <1>1, <2>1, <2>2, FrameAppend
<1>6. CASE NativeRespond \/ NativeStart \/ NativeSettle
  <2>1. PICK f : /\ out' = Append(out, f) /\ active # NoCmd
                 /\ \/ f = Response(active, "ok") /\ active \in Exec
                    \/ f = Event("agent_start", active)
                    \/ f = Event("agent_settled", active)
    BY <1>6, ConstantsAssumption DEF NativeRespond, NativeStart, NativeSettle, Cmd
  <2>2. f \in Frame /\ f.id = active
    BY <1>1, <2>1 DEF Response, Event, Frame, Cmd
  <2> QED BY <1>1, <2>1, <2>2, FrameAppend
<1>7. CASE NativeAccept \/ \E r \in Spont : NativeSpontaneous(r)
  BY <1>2, <1>7 DEF NativeAccept, NativeSpontaneous
<1> QED BY <1>3, <1>4, <1>5, <1>6, <1>7, QuietSteps DEF NativeOrObserved

(* Without outstanding executions none comes up as long as no work does.        *)
LEMMA SettledStays ==
    ASSUME TypeOK, [Next]_vars, Settled, Quieted'
    PROVE  Settled'
<1> SUFFICES ASSUME NEW c \in Exec PROVE ~Outstanding(c)'
  BY DEF Settled
<1>1. ~Outstanding(c) /\ inbox \in Seq(Cmd)
  BY DEF Settled, TypeOK, PipesOK
<1>2. hand' # c /\ ~InSeq(c, inbox') /\ active' # c
  BY DEF Quieted, NoneIn, Work, InSeq
<1>3. inbox # <<>> => Head(inbox) # c
  BY <1>1, HeadOnce DEF Outstanding
<1>4. ~FrameIn(c, out')
  BY <1>1, <1>3, FramesStep DEF Outstanding, FrameIn
<1> QED BY <1>2, <1>4 DEF Outstanding, FrameIn, InSeq

(* No step returns a caller to where it began.                                  *)
LEMMA LateStep ==
    ASSUME TypeOK, Lifecycle, [Next]_vars, NEW c \in Cmd, Late(c)
    PROVE  Late(c)'
<1>1. /\ Life(c) /\ c # NoCmd /\ caller \in [Cmd -> CallerState] /\ out \in Seq(Frame)
      /\ answer \in [Cmd -> {"none", "ok", "busy", "fail"}]
  BY ConstantsAssumption DEF Lifecycle, TypeOK, CallersOK, PipesOK
<1>2. /\ Early(c)' => Early(c)
      /\ reading' = reading \/ reading' = NoFrame \/ (ReaderObserve /\ reading' = Head(out))
  <2>1. CASE Quiet
    BY <2>1 DEF Quiet
  <2>2. CASE ReaderObserve
    BY <2>2 DEF ReaderObserve, Early, callerVars
  <2>3. CASE NativeOrObserved /\ ~ReaderObserve
    BY <2>3 DEF NativeOrObserved, NativeAccept, NativeReject, NativeAnswer, NativeRespond, NativeStart,
                NativeSettle, NativeSpontaneous, Early, callerVars, readerVars
  <2> QED BY <2>1, <2>2, <2>3, QuietSteps
<1>3. reading'.id = c => ~Early(c)'
  <2>1. CASE ReaderObserve /\ reading' = Head(out)
    <3>1. out # <<>>
      BY <2>1 DEF ReaderObserve
    <3>2. reading'.id = c => FrameIn(c, out)
      BY <1>1, <2>1, <3>1, TailFacts DEF FrameIn
    <3> QED BY <1>1, <1>2, <3>2 DEF Life
  <2> QED BY <1>1, <1>2, <2>1 DEF Late, NoFrame
<1>4. caller'[c] = "new" => caller[c] = "new" /\ answer'[c] # "ok"
  <2>1. ASSUME NEW d \in Cmd, CallerStep(d) PROVE (caller'[c] = "new" => caller[c] = "new") /\ answer' = answer
    BY <1>1, <2>1 DEF CallerStep, BeginOperation, Submit, Admit, Register, Enqueue, Receive, GiveUp,
                      DropTicket, ReleaseLease
  <2>2. ASSUME NEW p \in Probe, RetireProbe(p) PROVE (caller'[c] = "new" => caller[c] = "new") /\ answer' = answer
    BY <1>1, <2>2 DEF RetireProbe
  <2>3. ASSUME RetireBegin \/ RetireLease \/ RetireSnapshot \/ RetireUnsettled \/ RetireProbed
                 \/ RetireClose \/ RetireDone \/ Terminated \/ UNCHANGED vars
        PROVE  caller' = caller /\ answer' = answer
    BY <2>3 DEF RetireBegin, RetireLease, RetireSnapshot, RetireUnsettled, RetireProbed, RetireClose,
                RetireDone, Terminated, vars, callerVars
  <2>4. ASSUME WriterStep \/ NativeStep PROVE caller' = caller /\ answer' = answer
    BY <2>4 DEF WriterStep, NativeStep, WriterTake, WriterPublish, WriterWrite, WriterAbort, NativeAccept,
                NativeReject, NativeAnswer, NativeRespond, NativeStart, NativeSettle, NativeExit,
                NativeSpontaneous, callerVars
  <2>5. ASSUME ReaderObserve \/ ReaderStop \/ FailClosed
        PROVE  caller' = caller /\ (answer'[c] = answer[c] \/ answer'[c] = "fail")
    BY <1>1, <2>5 DEF ReaderObserve, ReaderStop, FailClosed, FailPending, callerVars
  <2>6. ASSUME ReaderProject
        PROVE  caller' = caller /\ (answer'[c] = answer[c] \/ reading.id = c)
    BY <1>1, <2>6 DEF ReaderProject
  <2>7. reading.id = c => caller[c] # "new"
    BY DEF Late, Early
  <2> QED BY <2>1, <2>2, <2>3, <2>4, <2>5, <2>6, <2>7 DEF Next, ReaderStep, RetireStep, Late
<1> QED BY <1>3, <1>4 DEF Late

(* How the retirement moves, and the gate with it.                              *)
LEMMA RetireMoves ==
    ASSUME TypeOK, [Next]_vars
    PROVE  /\ retire' \in {"stateWait", "historyWait"} =>
                 \/ retire \in {"stateWait", "historyWait"} /\ probing' = probing
                 \/ retire \in {"state", "history"} /\ probing' \in Probe /\ caller[probing'] = "new"
           /\ retire' \in {"snapshot2", "unsettled2"} =>
                 \/ retire \in {"snapshot2", "unsettled2"}
                 \/ retire \in {"stateWait", "historyWait"} /\ answer[probing] = "ok"
           /\ retire' \in {"close", "closing"} =>
                 retire \in {"close", "closing"} \/ (retire = "unsettled2" /\ ~Unsettled)
           /\ Fenced' => (Fenced /\ Readers' \subseteq Readers) \/ Readers' = {}
<1>1. caller \in [Cmd -> CallerState] /\ Probe \subseteq Cmd /\ StateProbe \cap HistoryProbe = {}
  BY ConstantsAssumption DEF TypeOK, CallersOK, Cmd, Probe
<1>2. ASSUME NEW d \in Cmd, CallerStep(d)
      PROVE  retire' = retire /\ probing' = probing /\ (Fenced => Readers' \subseteq Readers)
  <2>1. retire' = retire /\ probing' = probing
    BY <1>2 DEF CallerStep, BeginOperation, Submit, Admit, Register, Enqueue, Receive, GiveUp,
                DropTicket, ReleaseLease, retireVars
  <2>2. ASSUME Fenced, NEW c \in Cmd \ Probe, caller'[c] \in {"gate", "registered", "wait", "drop"}
        PROVE  caller[c] \in {"gate", "registered", "wait", "drop"}
    BY <1>1, <1>2, <2>2 DEF CallerStep, BeginOperation, Submit, Admit, Register, Enqueue, Receive, GiveUp,
                            DropTicket, ReleaseLease
  <2> QED BY <2>1, <2>2 DEF Readers
<1>3. ASSUME WriterStep \/ NativeStep \/ ReaderStep \/ Terminated \/ UNCHANGED vars
      PROVE  retire' = retire /\ probing' = probing /\ Readers' = Readers
  BY <1>3 DEF WriterStep, NativeStep, ReaderStep, WriterTake, WriterPublish, WriterWrite, WriterAbort,
              NativeAccept, NativeReject, NativeAnswer, NativeRespond, NativeStart, NativeSettle, NativeExit,
              NativeSpontaneous, ReaderObserve, ReaderProject, ReaderStop, FailClosed, Terminated, vars,
              callerVars, retireVars, Readers
<1>4. CASE RetireBegin
  BY <1>4 DEF RetireBegin, Fenced, Readers, callerVars
<1>5. CASE RetireLease
  BY <1>5 DEF RetireLease, RetireRefused, Fenced, Readers
<1>6. CASE RetireSnapshot
  BY <1>6 DEF RetireSnapshot, RetireRefused, Fenced, Readers
<1>7. CASE RetireUnsettled
  BY <1>7 DEF RetireUnsettled, RetireRefused, Fenced, Readers
<1>8. CASE RetireProbed
  BY <1>8 DEF RetireProbed, RetireRefused, Fenced, Readers
<1>9. CASE RetireClose
  BY <1>9 DEF RetireClose, Fenced, Readers, callerVars
<1>10. CASE RetireDone
  BY <1>10 DEF RetireDone, Fenced, Readers
<1>11. ASSUME NEW p \in Probe, RetireProbe(p)
       PROVE  /\ retire' \in {"stateWait", "historyWait"} =>
                    retire \in {"state", "history"} /\ probing' \in Probe /\ caller[probing'] = "new"
              /\ retire' \notin {"snapshot2", "unsettled2", "close", "closing"}
              /\ Fenced' => Fenced /\ Readers' \subseteq Readers
  <2>1. Readers' = Readers
    BY <1>1, <1>11 DEF RetireProbe, Readers
  <2> QED BY <1>1, <1>11, <2>1 DEF RetireProbe, RetireRefused, Fenced
<1> QED BY <1>2, <1>3, <1>4, <1>5, <1>6, <1>7, <1>8, <1>9, <1>10, <1>11
           DEF Next, RetireStep, Fenced

(* Every step of every actor preserves what the retirement has established.     *)
LEMMA QuietStep ==
    ASSUME CoverInv, QuietInv, [Next]_vars
    PROVE  QuietInv'
<1>1. TypeOK /\ Lifecycle /\ Retired /\ \A c \in Cmd : Late(c)
  BY DEF CoverInv, QuietInv
<1>2. ASSUME NEW c \in Cmd PROVE Late(c)'
  BY <1>1, LateStep
<1>3. Fenced' => Readers' = {}
  BY <1>1, RetireMoves DEF Retired
<1>4. ASSUME Fenced PROVE Pipes /\ Runs
  BY <1>1, <1>4, PipesMove DEF Retired
<1>5. ASSUME retire' \in {"stateWait", "historyWait"}
      PROVE  /\ probing' \in Probe /\ Flushing(probing)'
             /\ IdleReported(probing)' => Quieted'
  <2>1. Fenced
    BY <1>1, <1>5, RetireMoves DEF Fenced
  <2>2. PICK p : p = probing'
    OBVIOUS
  <2>3. /\ p \in Probe /\ p \in Cmd /\ Flushing(p)
        /\ IdleReported(p) => Quieted
    <3>1. CASE retire \in {"stateWait", "historyWait"} /\ probing' = probing
      BY <1>1, <2>2, <3>1 DEF Retired, Probe, Cmd
    <3>2. CASE probing' \in Probe /\ caller[probing'] = "new"
      <4>1. p \in Probe /\ p \in Cmd /\ Early(p)
        BY <2>2, <3>2 DEF Probe, Cmd, Early
      <4>2. Life(p) /\ Late(p)
        BY <1>1, <4>1 DEF Lifecycle
      <4>3. ~InSeq(p, queue) /\ hand # p /\ ~InSeq(p, inbox) /\ ~FrameIn(p, out)
        BY <4>1, <4>2 DEF Life
      <4>4. Flushing(p)
        BY <4>3 DEF Flushing, Behind, InSeq
      <4>5. ~IdleReported(p)
        BY <2>2, <3>2, <4>1, <4>2, <4>3 DEF IdleReported, InSeq, FrameIn, Late, Response
      <4> QED BY <4>1, <4>4, <4>5
    <3> QED BY <1>1, <1>5, <3>1, <3>2, RetireMoves
  <2>4. Pipes /\ Runs
    BY <1>4, <2>1
  <2>5. Flushing(p)'
    BY <1>1, <2>3, <2>4, FlushingStays
  <2>6. ASSUME IdleReported(p)' PROVE Quieted'
    <3>1. CASE IdleReported(p)
      BY <1>1, <2>3, <2>4, <3>1, QuietedStays
    <3>2. CASE ~IdleReported(p)
      <4>1. /\ inbox # <<>> /\ Head(inbox) = p /\ inbox' = Tail(inbox) /\ NativeIdle
            /\ queue' = queue /\ hand' = hand /\ active' = active /\ steering' = steering
        BY <1>1, <2>3, <2>6, <3>2, ReportStep
      <4>2. inbox \in Seq(Cmd) /\ NoCmd \notin Exec
        BY <1>1, ConstantsAssumption DEF TypeOK, PipesOK, Cmd, Exec
      <4>3. NoneIn(queue) /\ hand \notin Work
        BY <2>3, <4>1, <4>2, HeadOnce DEF Flushing
      <4>4. NoneIn(Tail(inbox))
        BY <2>3, <4>1, <4>2, WorkTail DEF Flushing
      <4> QED BY <4>1, <4>2, <4>3, <4>4 DEF Quieted, NoneIn, NativeIdle
    <3> QED BY <3>1, <3>2
  <2> QED BY <2>2, <2>3, <2>5, <2>6 DEF Flushing, IdleReported, Behind, NoneIn, InSeq
<1>6. ASSUME retire' \in {"snapshot2", "unsettled2", "close", "closing"} PROVE Quieted'
  <2>1. Fenced
    BY <1>1, <1>6, RetireMoves DEF Fenced
  <2>2. Quieted
    BY <1>1, <1>6, RetireMoves DEF Retired, IdleReported
  <2> QED BY <1>1, <1>4, <2>1, <2>2, QuietedStays
<1>7. ASSUME retire' \in {"close", "closing"} PROVE Settled'
  <2>1. CASE retire \in {"close", "closing"}
    BY <1>1, <1>6, <1>7, <2>1, SettledStays DEF Retired
  <2>2. CASE ~Unsettled
    <3>1. Settled
      BY <2>2 DEF Settled, Unsettled, NoIntent, CoverInv, Covered
    <3> QED BY <1>1, <1>6, <1>7, <3>1, SettledStays
  <2> QED BY <1>1, <1>7, <2>1, <2>2, RetireMoves
<1> QED BY <1>2, <1>3, <1>5, <1>6, <1>7 DEF QuietInv, Retired

(* When a retirement closes the session nothing it admitted is left anywhere,   *)
(* and no caller holds the gate.                                                *)
THEOREM RetirementQuiet == Spec => []RetiredQuiet
<1>1. Init => QuietInv
  <2> SUFFICES ASSUME Init PROVE Retired /\ \A c \in Cmd : Late(c)
    BY DEF QuietInv
  <2>1. Retired
    BY DEF Init, Retired, Fenced
  <2>2. ASSUME NEW c \in Cmd PROVE Late(c)
    BY <2>2, ConstantsAssumption DEF Init, Late, NoFrame
  <2> QED BY <2>1, <2>2
<1>2. CoverInv /\ QuietInv /\ [Next]_vars => QuietInv'
  BY QuietStep
<1>3. CoverInv /\ QuietInv => RetiredQuiet
  <2> SUFFICES ASSUME CoverInv, QuietInv, retire = "closing"
               PROVE  /\ Readers = {} /\ steering = {}
                      /\ \A c \in Exec \cup Steer :
                            ~InSeq(c, queue) /\ hand # c /\ ~InSeq(c, inbox) /\ active # c
                      /\ \A c \in Exec : ~Outstanding(c)
    BY DEF RetiredQuiet
  <2>1. Readers = {} /\ Quieted /\ Settled
    BY DEF QuietInv, Retired, Fenced
  <2>2. \A c \in Steer : active # c
    BY ConstantsAssumption DEF CoverInv, TypeOK, AdmissionOK, Run, Cmd
  <2> QED BY <2>1, <2>2 DEF Quieted, Settled, NoneIn, InSeq, Work
<1> QED BY <1>1, <1>2, <1>3, Covers, PTL DEF Spec

=============================================================================
