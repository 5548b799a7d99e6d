---------------------- MODULE SSHKitConnectionProofs ----------------------
(***************************************************************************)
(* Proofs about SSHKitConnection, for every set of calls, kinds and        *)
(* addresses and every route: its types, that a Closed connection has      *)
(* released everything, and that it implements SessionLifecycle.  Then,    *)
(* for callers without any discipline, that its jobs never take the        *)
(* session from each other and that a stream hears Closed at most once;    *)
(* and, for callers with some, that no runtime is left on a freed session. *)
(***************************************************************************)
EXTENDS SSHKitConnection, TLAPS

\* What the head of a well-typed queue is, and what taking it or adding to it leaves.
LEMMA QueueHead ==
    ASSUME queue \in Seq(Blocks), queue # <<>>
    PROVE  /\ Tail(queue) \in Seq(Blocks)
           /\ Head(queue) \in Blocks
           /\ Head(queue).op = "start" => HeadId \in Starts
           /\ Head(queue).op \in {"job", "read", "op", "close", "hop", "serve"} => HeadId \in Jobs
           /\ Head(queue).op \in {"poll", "teardown"} => HeadId \in Closers
<1>1. Head(queue) \in Blocks /\ Tail(queue) \in Seq(Blocks)
  OBVIOUS
<1> QED
  BY <1>1 DEF Blocks, HeadId

LEMMA AppendBlock ==
    ASSUME NEW q \in Seq(Blocks)
    PROVE  /\ \A s \in Starts : Append(q, Block("start", s)) \in Seq(Blocks)
           /\ \A j \in Jobs, op \in {"job", "read", "op", "close", "hop", "serve"} :
                Append(q, Block(op, j)) \in Seq(Blocks)
           /\ \A c \in Closers, op \in {"poll", "teardown"} : Append(q, Block(op, c)) \in Seq(Blocks)
<1>1. /\ \A s \in Starts : Block("start", s) \in Blocks
      /\ \A j \in Jobs, op \in {"job", "read", "op", "close", "hop", "serve"} : Block(op, j) \in Blocks
      /\ \A c \in Closers, op \in {"poll", "teardown"} : Block(op, c) \in Blocks
  BY DEF Block, Blocks
<1> QED
  BY <1>1

LEMMA TypeCorrectInit == Init => TypeOK
<1> SUFFICES ASSUME Init PROVE TypeOK
  OBVIOUS
<1>1. closer \in [Closers -> CloserRecords]
  BY ConnectionAssumption DEF ConnectionAssumption, Init, CloserRecords
<1>2. \A c \in Closers : closer[c].pc # "closeTask"
  BY DEF Init
<1>3. socketHandle \in 0..sockets /\ sockets \in 0..MaxSockets
  BY ConnectionAssumption DEF ConnectionAssumption, Init
<1>4. /\ result \in [Starts \cup Jobs -> {"none", "pending", "ok", "error"}]
      /\ runtime \in [Jobs -> {"none", "open", "finished"}]
      /\ timer \in [Jobs -> BOOLEAN]
      /\ asked \in [Jobs -> SUBSET {"read", "op", "close"}]
      /\ forwardClosed \in [Jobs -> BOOLEAN]
      /\ closedEvents \in [Jobs -> Nat]
  BY DEF Init
<1>5. /\ queue \in Seq(Blocks)
      /\ pc = "idle" /\ self = NoTask
      /\ state \in States
      /\ session \in {"null", "set", "freed"}
      /\ currentTask \in Jobs \cup {NoTask}
      /\ sock \in {"none", "connecting", "open", "shut"}
      /\ kind \in CallKinds
  BY DEF Init, States, ActiveStates
<1>6. taskCancelled \in BOOLEAN
  BY DEF Init
<1> QED
  BY <1>1, <1>2, <1>3, <1>4, <1>5, <1>6 DEF TypeOK

\* The calls of the application keep every type.
LEMMA TypeCorrectCalls ==
    ASSUME TypeOK,
           \/ \E s \in Starts : CallStart(s)
           \/ \E j \in Jobs : CallJob(j) \/ StartEventDelivery(j) \/ UserOp(j) \/ UserClose(j)
                              \/ TimerFires(j)
    PROVE  TypeOK'
<1> USE AppendBlock DEF TypeOK, vars, workerVars, lockVars, sockVars, jobVars, Enqueue, Complete
<1>1. ASSUME NEW s \in Starts, CallStart(s) PROVE TypeOK'
  BY <1>1 DEF CallStart
<1>2. ASSUME NEW j \in Jobs, CallJob(j) PROVE TypeOK'
  BY <1>2 DEF CallJob
<1>3. ASSUME NEW j \in Jobs, StartEventDelivery(j) PROVE TypeOK'
  BY <1>3 DEF StartEventDelivery
<1>4. ASSUME NEW j \in Jobs, UserOp(j) PROVE TypeOK'
  BY <1>4 DEF UserOp
<1>5. ASSUME NEW j \in Jobs, UserClose(j) PROVE TypeOK'
  <2>1. CASE kind[j] \in ForwardKinds
    BY <1>5, <2>1 DEF UserClose, CloseRuntime
  <2>2. CASE kind[j] \notin ForwardKinds
    <3>1. queue' = Append(queue, Block("close", j)) /\ UNCHANGED forwardClosed
      BY <1>5, <2>2 DEF UserClose, CloseRuntime
    <3>2. queue' \in Seq(Blocks)
      BY <3>1
    <3> QED
      BY <1>5, <3>1, <3>2 DEF UserClose
  <2> QED
    BY <2>1, <2>2
<1>6. ASSUME NEW j \in Jobs, TimerFires(j) PROVE TypeOK'
  BY <1>6 DEF TimerFires
<1> QED
  BY <1>1, <1>2, <1>3, <1>4, <1>5, <1>6

\* What closeSession leaves behind, whatever it finds.
LEMMA CloseSessionEffect ==
    ASSUME TypeOK, CloseSession
    PROVE  /\ session' \in {"null", "freed"}
           /\ currentTask' = NoTask /\ taskCancelled' \in BOOLEAN
           /\ socketHandle' = 0 /\ sock' = "none" /\ sockets' = sockets
BY DEF CloseSession, ClearCurrentTask, CloseSocketHandle, TypeOK

LEMMA TypeCorrectStart ==
    ASSUME TypeOK, StartStep
    PROVE  TypeOK'
<1> USE DEF TypeOK, workerVars, lockVars, sockVars, jobVars, Complete, AtHead, RunBlock,
            EnterBlock, GoTo, LeaveBlock, States, ActiveStates, StartSteps, JobSteps
<1>1. CASE RefuseStart
  BY <1>1, QueueHead DEF RefuseStart
<1>2. CASE BeginStart
  BY <1>2, QueueHead DEF BeginStart
<1>3. CASE OpenSocket
  BY <1>3, ConnectionAssumption DEF OpenSocket, ConnectionAssumption
<1>4. CASE SocketConnected
  BY <1>4 DEF SocketConnected
<1>5. CASE SocketRefused
  BY <1>5 DEF SocketRefused, CloseSocketHandle
<1>6. CASE PublishSession
  BY <1>6 DEF PublishSession
<1>7. CASE AbandonSession
  BY <1>7 DEF AbandonSession, ClearSession, CloseSocketHandle
<1>8. CASE FinishConnect
  BY <1>8 DEF FinishConnect
<1>9. CASE FinishDiscovery
  <2>1. CloseSession
    BY <1>9 DEF FinishDiscovery
  <2>2. result' \in [Starts \cup Jobs -> {"none", "pending", "ok", "error"}]
    BY <1>9 DEF FinishDiscovery
  <2>3. /\ pc' = "idle" /\ self' = NoTask /\ state' = "Closed"
        /\ UNCHANGED <<queue, kind, runtime, timer, asked, forwardClosed, closedEvents, closer>>
    BY <1>9 DEF FinishDiscovery
  <2> QED
    BY <2>1, <2>2, <2>3, CloseSessionEffect
<1>10. CASE GiveUp
  <2>1. CASE kind[self] = "discover"
    <3>1. CloseSession
      BY <1>10, <2>1 DEF GiveUp
    <3>2. result' \in [Starts \cup Jobs -> {"none", "pending", "ok", "error"}]
      BY <1>10 DEF GiveUp
    <3>3. /\ pc' = "idle" /\ self' = NoTask /\ state' = "Closed"
          /\ UNCHANGED <<queue, kind, runtime, timer, asked, forwardClosed, closedEvents, closer>>
      BY <1>10 DEF GiveUp
    <3> QED
      BY <3>1, <3>2, <3>3, CloseSessionEffect
  <2>2. CASE kind[self] # "discover"
    BY <1>10, <2>2 DEF GiveUp
  <2> QED
    BY <2>1, <2>2
<1>11. CASE AttachFails
  BY <1>11 DEF AttachFails, CloseSocketHandle
<1> QED
  BY <1>1, <1>2, <1>3, <1>4, <1>5, <1>6, <1>7, <1>8, <1>9, <1>10, <1>11 DEF StartStep

\* Every kind of job has a Running state of its own.
LEMMA RunningStateType ==
    ASSUME NEW j \in Jobs, kind \in CallKinds
    PROVE  RunningState[kind[j]] \in RunningStates
<1>1. kind[j] \in AllKinds
  BY ConnectionAssumption DEF ConnectionAssumption, CallKinds
<1> QED
  BY <1>1 DEF RunningState, RunningStates, ActiveStates

LEMMA TypeCorrectJob ==
    ASSUME TypeOK, JobStep
    PROVE  TypeOK'
<1> USE DEF TypeOK, workerVars, lockVars, sockVars, jobVars, Complete, AtHead, RunBlock,
            EnterBlock, GoTo, LeaveBlock, ReturnToReady, States, ActiveStates, StartSteps, JobSteps
<1>1. CASE RefuseJob
  BY <1>1, QueueHead DEF RefuseJob
<1>2. CASE BeginJob
  BY <1>2, QueueHead, RunningStateType DEF BeginJob, RunningStates
<1>3. CASE FailOpen
  BY <1>3 DEF FailOpen
<1>4. CASE PublishRuntime
  BY <1>4 DEF PublishRuntime
<1>5. CASE Withdraw
  BY <1>5, AppendBlock DEF Withdraw, Enqueue
<1>6. CASE ReturnJob
  BY <1>6, AppendBlock DEF ReturnJob, Enqueue
<1>7. CASE ExecuteEnds
  BY <1>7 DEF ExecuteEnds
<1>8. CASE ExecuteFails
  BY <1>8 DEF ExecuteFails
<1> QED
  BY <1>1, <1>2, <1>3, <1>4, <1>5, <1>6, <1>7, <1>8 DEF JobStep

\* Ending a runtime takes the head block and queues the hop.
LEMMA TypeCorrectFinish ==
    ASSUME TypeOK, NEW j \in Jobs, queue # <<>>, FinishRuntime(j)
    PROVE  TypeOK'
<1>1. queue' \in Seq(Blocks)
  BY QueueHead, AppendBlock DEF FinishRuntime, TypeOK
<1>2. currentTask' = NoTask /\ taskCancelled' \in BOOLEAN
  BY DEF FinishRuntime, ClearCurrentTask
<1>3. runtime' \in [Jobs -> {"none", "open", "finished"}]
  BY DEF FinishRuntime, TypeOK
<1>4. UNCHANGED <<pc, self, state, session, sockVars, kind, result, timer, asked,
                  forwardClosed, closedEvents, closer>>
  BY DEF FinishRuntime
<1> QED
  BY <1>1, <1>2, <1>3, <1>4 DEF TypeOK, sockVars

LEMMA TypeCorrectRuntime ==
    ASSUME TypeOK, RuntimeStep
    PROVE  TypeOK'
<1> USE DEF workerVars, lockVars, sockVars, jobVars, AtHead, RunBlock, NoEffect
<1> DEFINE JobAtHead == queue # <<>> /\ HeadId \in Jobs
<1>1. CASE ReadFinished
  BY <1>1, QueueHead DEF ReadFinished, TypeOK
<1>2. CASE ReadMore
  BY <1>2, QueueHead DEF ReadMore, TypeOK
<1>3. CASE ReadEnds
  <2>1. JobAtHead
    BY <1>3, QueueHead DEF ReadEnds, TypeOK
  <2> QED
    BY <1>3, <2>1, TypeCorrectFinish DEF ReadEnds
<1>4. CASE OpReturns
  BY <1>4, QueueHead DEF OpReturns, TypeOK
<1>5. CASE OpEndsTunnel
  <2>1. JobAtHead
    BY <1>5, QueueHead DEF OpEndsTunnel, TypeOK
  <2> QED
    BY <1>5, <2>1, TypeCorrectFinish DEF OpEndsTunnel
<1>6. CASE CloseFinished
  BY <1>6, QueueHead DEF CloseFinished, TypeOK
<1>7. CASE CloseOpen
  <2>1. JobAtHead
    BY <1>7, QueueHead DEF CloseOpen, TypeOK
  <2> QED
    BY <1>7, <2>1, TypeCorrectFinish DEF CloseOpen
<1>8. CASE Hop
  <2>1. JobAtHead /\ queue' \in Seq(Blocks)
    BY <1>8, QueueHead DEF Hop, TypeOK
  <2>2. state' \in States
    BY <1>8 DEF Hop, TypeOK, States
  <2>3. closedEvents' \in [Jobs -> Nat]
    BY <1>8, <2>1 DEF Hop, TypeOK
  <2>4. UNCHANGED <<pc, self, lockVars, sockVars, kind, result, runtime, timer, asked,
                    forwardClosed, closer>>
    BY <1>8 DEF Hop
  <2> QED
    BY <2>1, <2>2, <2>3, <2>4 DEF TypeOK
<1>9. CASE Serve
  BY <1>9, QueueHead DEF Serve, EnterBlock, TypeOK
<1>10. CASE StopServing
  <2>1. self \in Jobs
    BY <1>10 DEF StopServing, TypeOK, StartSteps, JobSteps
  <2>2. currentTask' = NoTask /\ taskCancelled' \in BOOLEAN
    BY <1>10 DEF StopServing, ClearCurrentTask
  <2>3. state' \in States
    BY <1>10 DEF StopServing, TypeOK, States
  <2>4. /\ runtime' \in [Jobs -> {"none", "open", "finished"}]
        /\ forwardClosed' \in [Jobs -> BOOLEAN]
    BY <1>10, <2>1 DEF StopServing, TypeOK
  <2>5. /\ pc' = "idle" /\ self' = NoTask
        /\ UNCHANGED <<queue, session, sockVars, kind, result, timer, asked, closedEvents, closer>>
    BY <1>10 DEF StopServing, LeaveBlock
  <2> QED
    BY <2>2, <2>3, <2>4, <2>5 DEF TypeOK
<1> QED
  BY <1>1, <1>2, <1>3, <1>4, <1>5, <1>6, <1>7, <1>8, <1>9, <1>10 DEF RuntimeStep

\* The type of the local variables of the disconnect calls, and the other conjuncts of
\* TypeOK when nothing but those and the queue changes.
CloserType ==
    /\ closer \in [Closers -> CloserRecords]
    /\ \A c \in Closers : closer[c].pc = "closeTask" => closer[c].task \in Jobs

LEMMA CloserUpdate ==
    ASSUME CloserType, NEW c \in Closers, NEW r \in CloserRecords,
           r.pc = "closeTask" => r.task \in Jobs,
           closer' = [closer EXCEPT ![c] = r]
    PROVE  CloserType'
BY DEF CloserType

LEMMA TypeCorrectCloserVars ==
    ASSUME TypeOK, CloserType', queue' \in Seq(Blocks),
           UNCHANGED <<workerVars, lockVars, sockVars, jobVars>>
    PROVE  TypeOK'
BY DEF TypeOK, CloserType, workerVars, lockVars, sockVars, jobVars

LEMMA TypeCorrectCancel ==
    ASSUME TypeOK, NEW c \in Closers,
           CallDisconnect(c) \/ CancelStep(c) \/ DeadlineExpires(c)
    PROVE  TypeOK'
<1> USE DEF CloserType
<1>0. CloserType /\ queue \in Seq(Blocks)
  BY DEF TypeOK
<1>1. CASE CallDisconnect(c)
  <2>1. CloserType' /\ UNCHANGED queue
    BY <1>1, <1>0 DEF CallDisconnect, CloserRecords
  <2> QED
    BY <1>0, <1>1, <2>1, TypeCorrectCloserVars DEF CallDisconnect
<1>2. CASE CancelSnapshot(c)
  <2>1. socketHandle \in 0..MaxSockets
    BY ConnectionAssumption DEF TypeOK, ConnectionAssumption
  <2>2. CloserType' /\ UNCHANGED queue
    BY <1>2, <1>0, <2>1 DEF CancelSnapshot, CloserRecords
  <2> QED
    BY <1>0, <1>2, <2>2, TypeCorrectCloserVars DEF CancelSnapshot
<1>3. CASE CancelLock(c)
  <2> DEFINE should == currentTask # NoTask \/ session = "set" \/ closer[c].handle # 0
  <2>1. should \in BOOLEAN /\ taskCancelled' \in BOOLEAN
    BY <1>3 DEF CancelLock
  <2>2. closer' = [closer EXCEPT ![c].pc = IF currentTask = NoTask THEN "shutdown" ELSE "closeTask",
                                 ![c].task = currentTask, ![c].shutdown = should]
    BY <1>3 DEF CancelLock
  <2>3. currentTask \in Jobs \cup {NoTask}
    BY DEF TypeOK
  <2> HIDE DEF should
  <2> DEFINE step == IF currentTask = NoTask THEN "shutdown" ELSE "closeTask"
  <2>4. CloserType'
    <3> DEFINE r == [closer[c] EXCEPT !.pc = step, !.task = currentTask, !.shutdown = should]
    <3>1. closer' = [closer EXCEPT ![c] = r]
      BY <1>0, <2>2
    <3>2. r \in CloserRecords
      BY <1>0, <2>1, <2>3 DEF CloserRecords
    <3>3. r.pc = "closeTask" => r.task \in Jobs
      BY <1>0, <2>3 DEF CloserRecords
    <3> QED
      BY <1>0, <3>1, <3>2, <3>3, CloserUpdate
  <2> QED
    BY <1>3, <2>1, <2>4 DEF CancelLock, TypeOK, workerVars, sockVars, jobVars
<1>4. CASE CancelCloseTask(c)
  <2>1. CloserType'
    BY <1>4, <1>0 DEF CancelCloseTask, CloserRecords
  <2>2. closer[c].task \in Jobs
    BY <1>4, <1>0 DEF CancelCloseTask
  <2>3. forwardClosed' \in [Jobs -> BOOLEAN] /\ queue' \in Seq(Blocks)
    <3>1. CASE kind[closer[c].task] \in ForwardKinds
      BY <1>0, <1>4, <2>2, <3>1 DEF CancelCloseTask, CloseRuntime, TypeOK
    <3>2. CASE kind[closer[c].task] \notin ForwardKinds
      <4>1. queue' = Append(queue, Block("close", closer[c].task)) /\ UNCHANGED forwardClosed
        BY <1>4, <3>2 DEF CancelCloseTask, CloseRuntime, Enqueue
      <4> QED
        BY <1>0, <2>2, <4>1, AppendBlock DEF TypeOK
    <3> QED
      BY <3>1, <3>2
  <2>4. UNCHANGED <<workerVars, lockVars, sockVars, kind, result, runtime, timer, asked,
                    closedEvents>>
    BY <1>4 DEF CancelCloseTask
  <2> QED
    BY <2>1, <2>3, <2>4 DEF TypeOK, workerVars, lockVars, sockVars
<1>5. CASE CancelShutdown(c)
  <2>1. CloserType'
    BY <1>5, <1>0 DEF CancelShutdown, CloserRecords
  <2>2. sock' \in {"none", "connecting", "open", "shut"}
    BY <1>5 DEF CancelShutdown, TypeOK
  <2>3. UNCHANGED <<queue, workerVars, lockVars, socketHandle, sockets, jobVars>>
    BY <1>5 DEF CancelShutdown
  <2> QED
    BY <2>1, <2>2, <2>3 DEF TypeOK, workerVars, lockVars, jobVars
<1>6. CASE Poll(c)
  <2>1. CloserType'
    BY <1>6, <1>0 DEF Poll, CloserRecords
  <2>2. queue' \in Seq(Blocks)
    BY <1>6, <1>0, AppendBlock DEF Poll, Enqueue
  <2> QED
    BY <1>6, <2>1, <2>2, TypeCorrectCloserVars DEF Poll
<1>7. CASE QueueTeardown(c)
  <2>1. CloserType'
    BY <1>7, <1>0 DEF QueueTeardown, CloserRecords
  <2>2. queue' \in Seq(Blocks)
    BY <1>7, <1>0, AppendBlock DEF QueueTeardown, Enqueue
  <2> QED
    BY <1>7, <2>1, <2>2, TypeCorrectCloserVars DEF QueueTeardown
<1>8. CASE DeadlineExpires(c)
  <2>1. CloserType' /\ UNCHANGED queue
    BY <1>8, <1>0 DEF DeadlineExpires, CloserRecords
  <2> QED
    BY <1>0, <1>8, <2>1, TypeCorrectCloserVars DEF DeadlineExpires
<1> QED
  BY <1>1, <1>2, <1>3, <1>4, <1>5, <1>6, <1>7, <1>8 DEF CancelStep

LEMMA TypeCorrectCloserBlock ==
    ASSUME TypeOK, CloserBlock
    PROVE  TypeOK'
<1> USE DEF CloserType
<1>0. CloserType /\ queue \in Seq(Blocks)
  BY DEF TypeOK
<1>1. CASE PollBlock
  <2>1. HeadId \in Closers /\ queue' \in Seq(Blocks) /\ UNCHANGED <<pc, self>>
    BY <1>0, <1>1, QueueHead DEF PollBlock, AtHead, RunBlock
  <2> DEFINE active == state \in ActiveStates
             last == closer[HeadId].pc = "lastPolling"
             step == IF active /\ ~last THEN "poll" ELSE "teardown"
             late == active /\ last
  <2>2. CloserType'
    <3> DEFINE r == [closer[HeadId] EXCEPT !.pc = step, !.timedOut = late]
    <3>1. closer' = [closer EXCEPT ![HeadId] = r]
      BY <1>0, <1>1, <2>1 DEF PollBlock
    <3>2. late \in BOOLEAN /\ step \in {"poll", "teardown"}
      OBVIOUS
    <3> HIDE DEF late, step
    <3>3. r \in CloserRecords /\ r.pc # "closeTask"
      BY <1>0, <2>1, <3>2 DEF CloserRecords
    <3> QED
      BY <1>0, <2>1, <3>1, <3>3, CloserUpdate
  <2> QED
    BY <1>1, <2>1, <2>2, TypeCorrectCloserVars DEF PollBlock, workerVars
<1>2. CASE BeginTeardown
  BY <1>2, QueueHead DEF BeginTeardown, AtHead, EnterBlock, TypeOK, lockVars, sockVars, jobVars,
     States, ActiveStates
<1>3. CASE FinishTeardown
  <2>1. CloserType'
    <3> DEFINE r == [closer[self] EXCEPT !.pc = "done"]
    <3>1. self \in Closers
      BY <1>3 DEF FinishTeardown, TypeOK, StartSteps, JobSteps
    <3>2. closer' = [closer EXCEPT ![self] = r]
      BY <1>0, <1>3, <3>1 DEF FinishTeardown
    <3>3. r \in CloserRecords /\ r.pc # "closeTask"
      BY <1>0, <3>1 DEF CloserRecords
    <3> QED
      BY <1>0, <3>1, <3>2, <3>3, CloserUpdate
  <2>2. pc' = "idle" /\ self' = NoTask /\ state' = "Closed" /\ UNCHANGED <<queue, jobVars>>
    BY <1>3 DEF FinishTeardown, LeaveBlock
  <2>3. CloseSession
    BY <1>3 DEF FinishTeardown
  <2> QED
    BY <2>1, <2>2, <2>3, CloseSessionEffect DEF TypeOK, jobVars, States
<1> QED
  BY <1>1, <1>2, <1>3 DEF CloserBlock

\* Every step keeps every type.
LEMMA TypeCorrectNext == TypeOK /\ [Next]_vars => TypeOK'
<1> SUFFICES ASSUME TypeOK, [Next]_vars PROVE TypeOK'
  OBVIOUS
<1>1. CASE Next
  BY <1>1, TypeCorrectCalls, TypeCorrectStart, TypeCorrectJob, TypeCorrectRuntime,
     TypeCorrectCloserBlock, TypeCorrectCancel DEF Next, WorkerStep
<1>2. CASE UNCHANGED vars
  BY <1>2 DEF vars, workerVars, lockVars, sockVars, jobVars, TypeOK
<1> QED
  BY <1>1, <1>2

\* The variables keep their types and every block serves a call of its own sort: in
\* particular the connection never mistakes one call for another in its queue.
THEOREM TypeCorrect == Spec => []TypeOK
<1>1. Init => TypeOK
  BY TypeCorrectInit
<1>2. TypeOK /\ [Next]_vars => TypeOK'
  BY TypeCorrectNext
<1> QED
  BY <1>1, <1>2, PTL DEF Spec

-----------------------------------------------------------------------------
(***************************************************************************)
(* The state machine of the session, and what a connection holds.          *)
(***************************************************************************)


Released == session # "set" /\ currentTask = NoTask /\ socketHandle = 0 /\ sock = "none"

\* The state says where the worker may be: nobody but the running block changes it.
StateOfBlock ==
    /\ pc \in StartSteps => state = "Connecting"
    /\ pc \in JobSteps => state \in RunningStates
    /\ pc = "teardown" => state \in {"Closing", "Closed"}
    /\ pc \in {"idle", "serving"} => state \notin {"Connecting", "Closing"}

\* The state says what the connection holds.
HoldingsOfState ==
    /\ state = "Ready" \/ state \in RunningStates => session = "set"
    /\ state \in {"Idle", "Closed"} => Released
    /\ state = "Connecting" => currentTask = NoTask
    /\ pc \in {"socket", "giveUp"} => Released
    /\ pc \in {"connect", "publish"} => session # "set"

SessionInv == TypeOK /\ StateOfBlock /\ HoldingsOfState

LifecycleStep == [Lifecycle!Next]_<<state, session = "set">>

\* Of a step, everything that is proved below.
SafeStep == StateOfBlock' /\ HoldingsOfState' /\ LifecycleStep

\* A step that leaves the worker, the session, the task and the socket alone.
LEMMA QuietStep ==
    ASSUME StateOfBlock, HoldingsOfState,
           UNCHANGED <<pc, state, session, currentTask, socketHandle, sock>>
    PROVE  SafeStep
BY DEF SafeStep, StateOfBlock, HoldingsOfState, Released, LifecycleStep

\* A step of the abstract state machine, from what the code does to the two variables.
LEMMA MoveStep ==
    ASSUME state' \in Lifecycle!Successors[state],
           state' \in Lifecycle!UsableStates => session = "set",
           session' = "set" <=> session = "set" /\ state' # "Closed"
    PROVE  LifecycleStep
BY DEF LifecycleStep, Lifecycle!Next, Lifecycle!Move

LEMMA SuccessorsOf ==
    /\ Lifecycle!Successors["Idle"] = {"Connecting", "Closing"}
    /\ Lifecycle!Successors["Connecting"] = {"Ready", "Closed", "Closing"}
    /\ Lifecycle!Successors["Ready"] = RunningStates \cup {"Closing"}
    /\ Lifecycle!Successors["Closing"] = {"Closed"}
    /\ \A s \in RunningStates : Lifecycle!Successors[s] = {"Ready", "Closing"}
BY DEF Lifecycle!Successors, Lifecycle!States, Lifecycle!UsableStates, Lifecycle!RunningStates,
       RunningStates, ActiveStates

LEMMA SessionInvInit == Init => StateOfBlock /\ HoldingsOfState /\ Lifecycle!Init
BY DEF Init, StateOfBlock, HoldingsOfState, Released, Lifecycle!Init, StartSteps, JobSteps,
       RunningStates, ActiveStates

LEMMA SafeStart ==
    ASSUME SessionInv, StartStep
    PROVE  SafeStep
<1> USE DEF SessionInv, StateOfBlock, HoldingsOfState, Released, StartSteps, JobSteps,
            RunningStates, ActiveStates
<1>1. CASE RefuseStart
  BY <1>1, QuietStep DEF RefuseStart, RunBlock, lockVars, sockVars
<1>2. CASE BeginStart
  <2>1. /\ state = "Idle" /\ state' = "Connecting" /\ pc' \in {"giveUp", "socket", "publish"}
        /\ UNCHANGED <<session, currentTask, socketHandle, sock>>
    BY <1>2 DEF BeginStart, EnterBlock, lockVars, sockVars
  <2>2. LifecycleStep
    BY <2>1, MoveStep, SuccessorsOf DEF Lifecycle!UsableStates, Lifecycle!RunningStates
  <2> QED
    BY <2>1, <2>2 DEF SafeStep
<1>3. CASE OpenSocket
  <2>1. /\ pc' \in {"giveUp", "connect"} /\ UNCHANGED <<state, session, currentTask>>
        /\ pc' = "giveUp" => UNCHANGED <<socketHandle, sock>>
    BY <1>3 DEF OpenSocket, GoTo, lockVars, sockVars
  <2>2. pc = "socket"
    BY <1>3 DEF OpenSocket
  <2> QED
    BY <2>1, <2>2 DEF SafeStep, LifecycleStep
<1>4. CASE SocketConnected
  BY <1>4 DEF SocketConnected, GoTo, lockVars, SafeStep, LifecycleStep
<1>5. CASE SocketRefused
  BY <1>5 DEF SocketRefused, GoTo, CloseSocketHandle, lockVars, SafeStep, LifecycleStep
<1>6. CASE PublishSession
  <2>1. /\ pc = "publish" /\ session' = "set" /\ pc' \in {"abandon", "handshake"}
        /\ UNCHANGED <<state, currentTask>>
    BY <1>6 DEF PublishSession, GoTo
  <2>2. LifecycleStep
    BY <2>1 DEF LifecycleStep, Lifecycle!Next, Lifecycle!Allocate
  <2> QED
    BY <2>1, <2>2 DEF SafeStep
<1>7. CASE AbandonSession
  <2>1. /\ pc \in {"handshake", "abandon"} /\ session' = "freed" /\ pc' = "giveUp"
        /\ socketHandle' = 0 /\ sock' = "none" /\ UNCHANGED <<state, currentTask>>
    BY <1>7 DEF AbandonSession, ClearSession, CloseSocketHandle, GoTo
  <2>2. LifecycleStep
    BY <2>1 DEF LifecycleStep, Lifecycle!Next, Lifecycle!Abandon
  <2> QED
    BY <2>1, <2>2 DEF SafeStep
<1>8. CASE FinishConnect
  <2>1. /\ pc = "handshake" /\ session = "set" /\ state' = "Ready" /\ pc' = "idle"
        /\ UNCHANGED <<session, currentTask>>
    BY <1>8 DEF FinishConnect, Connected, LeaveBlock, lockVars
  <2>2. LifecycleStep
    BY <2>1, MoveStep, SuccessorsOf
  <2> QED
    BY <2>1, <2>2 DEF SafeStep
<1>9. CASE FinishDiscovery
  <2>1. pc = "handshake" /\ CloseSession /\ state' = "Closed" /\ pc' = "idle"
    BY <1>9 DEF FinishDiscovery, LeaveBlock
  <2>2. session' # "set" /\ currentTask' = NoTask /\ socketHandle' = 0 /\ sock' = "none"
    BY <2>1, CloseSessionEffect
  <2>3. LifecycleStep
    BY <2>1, <2>2, MoveStep, SuccessorsOf DEF Lifecycle!UsableStates, Lifecycle!RunningStates
  <2> QED
    BY <2>1, <2>2, <2>3 DEF SafeStep
<1>10. CASE GiveUp
  <2>1. /\ pc = "giveUp" /\ state' = "Closed" /\ pc' = "idle"
        /\ CloseSession \/ UNCHANGED <<lockVars, sockVars>>
    BY <1>10 DEF GiveUp, LeaveBlock
  <2>2. session' # "set" /\ currentTask' = NoTask /\ socketHandle' = 0 /\ sock' = "none"
    BY <2>1, CloseSessionEffect DEF lockVars, sockVars
  <2>3. LifecycleStep
    BY <2>1, <2>2, MoveStep, SuccessorsOf DEF Lifecycle!UsableStates, Lifecycle!RunningStates
  <2> QED
    BY <2>1, <2>2, <2>3 DEF SafeStep
<1>11. CASE AttachFails
  BY <1>11 DEF AttachFails, GoTo, CloseSocketHandle, lockVars, SafeStep, LifecycleStep
<1> QED
  BY <1>1, <1>2, <1>3, <1>4, <1>5, <1>6, <1>7, <1>8, <1>9, <1>10, <1>11 DEF StartStep

\* A job that returns the session, or the hop or the forward that does it later.
LEMMA ReturnStep ==
    ASSUME SessionInv, pc \in JobSteps \cup {"idle", "serving"}, pc' = "idle",
           state \in RunningStates, state' = "Ready", UNCHANGED session
    PROVE  SafeStep
<1>1. session = "set"
  BY DEF SessionInv, HoldingsOfState
<1>2. LifecycleStep
  BY <1>1, MoveStep, SuccessorsOf
<1> QED
  BY <1>1, <1>2 DEF SafeStep, StateOfBlock, HoldingsOfState, StartSteps, JobSteps, RunningStates,
     ActiveStates

LEMMA SafeJob ==
    ASSUME SessionInv, JobStep
    PROVE  SafeStep
<1>1. CASE RefuseJob
  BY <1>1, QuietStep DEF RefuseJob, RunBlock, lockVars, sockVars, SessionInv
<1>2. CASE BeginJob
  <2>1. /\ state = "Ready" /\ pc = "idle" /\ pc' \in {"execute", "open"}
        /\ state' = RunningState[kind[HeadId]] /\ UNCHANGED session
    BY <1>2 DEF BeginJob, EnterBlock, AtHead, lockVars
  <2>2. state' \in RunningStates
    BY <1>2, <2>1, QueueHead, RunningStateType DEF BeginJob, AtHead, SessionInv, TypeOK
  <2>3. session = "set" /\ state' \notin {"Closed", "Connecting", "Idle"}
    BY <2>1, <2>2 DEF SessionInv, HoldingsOfState, RunningStates, ActiveStates
  <2>4. LifecycleStep
    BY <2>1, <2>2, <2>3, MoveStep, SuccessorsOf
  <2> QED
    BY <2>1, <2>2, <2>3, <2>4 DEF SafeStep, StateOfBlock, HoldingsOfState, StartSteps, JobSteps
<1>3. ASSUME NEW outcome, pc \in JobSteps, ReturnToReady(outcome), UNCHANGED session PROVE SafeStep
  BY <1>3, ReturnStep DEF ReturnToReady, LeaveBlock, SessionInv, StateOfBlock
<1>4. CASE FailOpen
  BY <1>3, <1>4 DEF FailOpen, JobSteps, lockVars
<1>5. CASE PublishRuntime
  <2>1. /\ pc = "open" /\ pc' \in {"withdraw", "return"} /\ UNCHANGED <<state, session>>
    BY <1>5 DEF PublishRuntime, GoTo
  <2>2. state \in RunningStates
    BY <2>1 DEF SessionInv, StateOfBlock, JobSteps
  <2> QED
    BY <2>1, <2>2 DEF SafeStep, LifecycleStep, SessionInv, StateOfBlock, HoldingsOfState, JobSteps,
       StartSteps, RunningStates, ActiveStates
<1>6. CASE Withdraw
  BY <1>3, <1>6 DEF Withdraw, JobSteps, lockVars
<1>7. CASE ReturnJob
  <2>1. /\ pc = "return" /\ pc' = "idle"
        /\ UNCHANGED <<state, session, currentTask, socketHandle, sock>>
    BY <1>7 DEF ReturnJob, LeaveBlock, lockVars, sockVars
  <2>2. state \in RunningStates
    BY <2>1 DEF SessionInv, StateOfBlock, JobSteps
  <2> QED
    BY <2>1, <2>2 DEF SafeStep, LifecycleStep, SessionInv, StateOfBlock, HoldingsOfState, Released,
       JobSteps, StartSteps, RunningStates, ActiveStates
<1>8. CASE ExecuteEnds
  BY <1>3, <1>8 DEF ExecuteEnds, JobSteps, lockVars
<1>9. CASE ExecuteFails
  BY <1>3, <1>9 DEF ExecuteFails, JobSteps, lockVars
<1> QED
  BY <1>1, <1>2, <1>4, <1>5, <1>6, <1>7, <1>8, <1>9 DEF JobStep

\* Clearing the current task is all that ending a runtime does to the session.
LEMMA SafeFinish ==
    ASSUME SessionInv, NEW j \in Jobs, FinishRuntime(j)
    PROVE  SafeStep
BY DEF FinishRuntime, ClearCurrentTask, sockVars, SessionInv, SafeStep, LifecycleStep, StateOfBlock,
   HoldingsOfState, Released

LEMMA SafeRuntime ==
    ASSUME SessionInv, RuntimeStep
    PROVE  SafeStep
<1>1. queue # <<>> /\ Head(queue).op \in {"read", "op", "close", "hop"} => HeadId \in Jobs
  BY QueueHead DEF SessionInv, TypeOK
<1>2. CASE NoEffect
  BY <1>2, QuietStep DEF NoEffect, RunBlock, lockVars, sockVars, SessionInv
<1>3. CASE ReadMore
  BY <1>3, QuietStep DEF ReadMore, RunBlock, lockVars, sockVars, SessionInv
<1>4. CASE ReadEnds \/ OpEndsTunnel \/ CloseOpen
  BY <1>1, <1>4, SafeFinish DEF ReadEnds, OpEndsTunnel, CloseOpen, AtHead
<1>5. CASE Hop
  <2>1. /\ pc = "idle" /\ UNCHANGED <<pc, session, currentTask, socketHandle, sock>>
        /\ state' # state => state = RunningState[kind[HeadId]] /\ state' = "Ready"
    BY <1>5 DEF Hop, AtHead, RunBlock, lockVars, sockVars
  <2>2. RunningState[kind[HeadId]] \in RunningStates
    BY <1>1, <1>5, RunningStateType DEF Hop, AtHead, SessionInv, TypeOK
  <2>3. CASE state' = state
    BY <2>1, <2>3, QuietStep DEF SessionInv
  <2>4. CASE state' # state
    BY <2>1, <2>2, <2>4, ReturnStep
  <2> QED
    BY <2>3, <2>4
<1>6. CASE Serve
  <2>1. /\ pc = "idle" /\ pc' = "serving"
        /\ UNCHANGED <<state, session, currentTask, socketHandle, sock>>
    BY <1>6 DEF Serve, AtHead, EnterBlock, lockVars, sockVars
  <2> QED
    BY <2>1 DEF SafeStep, LifecycleStep, SessionInv, StateOfBlock, HoldingsOfState, Released,
       StartSteps, JobSteps
<1>7. CASE StopServing
  <2>1. /\ pc = "serving" /\ pc' = "idle" /\ currentTask' = NoTask
        /\ UNCHANGED <<session, socketHandle, sock>>
        /\ state' # state => state = "RunningTunnel" /\ state' = "Ready"
    BY <1>7 DEF StopServing, ClearCurrentTask, LeaveBlock, sockVars
  <2>2. CASE state' = state
    BY <2>1, <2>2 DEF SafeStep, LifecycleStep, SessionInv, StateOfBlock, HoldingsOfState, Released,
       StartSteps, JobSteps
  <2>3. CASE state' # state
    BY <2>1, <2>3, ReturnStep DEF RunningStates, ActiveStates
  <2> QED
    BY <2>2, <2>3
<1> QED
  BY <1>2, <1>3, <1>4, <1>5, <1>6, <1>7 DEF RuntimeStep, ReadFinished, OpReturns, CloseFinished

LEMMA SafeCloserBlock ==
    ASSUME SessionInv, CloserBlock
    PROVE  SafeStep
<1>1. CASE PollBlock
  BY <1>1, QuietStep DEF PollBlock, RunBlock, lockVars, sockVars, SessionInv
<1>2. CASE BeginTeardown
  <2>1. /\ pc = "idle" /\ pc' = "teardown"
        /\ state' = IF state = "Closed" THEN state ELSE "Closing"
        /\ UNCHANGED <<session, currentTask, socketHandle, sock>>
    BY <1>2 DEF BeginTeardown, AtHead, EnterBlock, lockVars, sockVars
  <2>2. state \in {"Idle", "Ready", "Closed"} \cup RunningStates
    BY <2>1 DEF SessionInv, StateOfBlock, TypeOK, States, RunningStates
  <2>3. LifecycleStep
    <3>1. CASE state = "Closed"
      BY <2>1, <3>1 DEF LifecycleStep
    <3>2. CASE state # "Closed"
      BY <2>1, <2>2, <3>2, MoveStep, SuccessorsOf DEF Lifecycle!UsableStates,
         Lifecycle!RunningStates
    <3> QED
      BY <3>1, <3>2
  <2> QED
    BY <2>1, <2>3 DEF SafeStep, SessionInv, StateOfBlock, HoldingsOfState, Released, StartSteps,
       JobSteps, RunningStates, ActiveStates
<1>3. CASE FinishTeardown
  <2>1. pc = "teardown" /\ CloseSession /\ state' = "Closed" /\ pc' = "idle"
    BY <1>3 DEF FinishTeardown, LeaveBlock
  <2>2. session' # "set" /\ currentTask' = NoTask /\ socketHandle' = 0 /\ sock' = "none"
    BY <2>1, CloseSessionEffect DEF SessionInv
  <2>3. LifecycleStep
    <3>1. CASE state = "Closed"
      BY <2>1, <2>2, <3>1 DEF LifecycleStep, SessionInv, HoldingsOfState, Released
    <3>2. CASE state = "Closing"
      BY <2>1, <2>2, <3>2, MoveStep, SuccessorsOf DEF Lifecycle!UsableStates,
         Lifecycle!RunningStates
    <3> QED
      BY <2>1, <3>1, <3>2 DEF SessionInv, StateOfBlock
  <2> QED
    BY <2>1, <2>2, <2>3 DEF SafeStep, StateOfBlock, HoldingsOfState, Released, StartSteps,
       JobSteps, RunningStates, ActiveStates
<1> QED
  BY <1>1, <1>2, <1>3 DEF CloserBlock

\* The threads of the disconnect calls write only the flag and, of the socket, shutdown.
LEMMA SafeCancel ==
    ASSUME SessionInv, NEW c \in Closers,
           CallDisconnect(c) \/ CancelStep(c) \/ DeadlineExpires(c)
    PROVE  SafeStep
<1>1. CASE CancelShutdown(c)
  <2>1. /\ UNCHANGED <<pc, state, session, currentTask, socketHandle>>
        /\ sock' # sock => socketHandle # 0
    BY <1>1 DEF CancelShutdown, workerVars, lockVars
  <2> QED
    BY <2>1 DEF SafeStep, LifecycleStep, SessionInv, StateOfBlock, HoldingsOfState, Released
<1>2. CASE CancelCloseTask(c)
  BY <1>2, QuietStep DEF CancelCloseTask, workerVars, lockVars, sockVars, SessionInv
<1>3. CASE CancelLock(c)
  BY <1>3, QuietStep DEF CancelLock, workerVars, sockVars, SessionInv
<1>4. CASE CallDisconnect(c) \/ CancelSnapshot(c) \/ Poll(c) \/ QueueTeardown(c) \/ DeadlineExpires(c)
  BY <1>4, QuietStep DEF CallDisconnect, CancelSnapshot, Poll, QueueTeardown, DeadlineExpires,
     workerVars, lockVars, sockVars, SessionInv
<1> QED
  BY <1>1, <1>2, <1>3, <1>4 DEF CancelStep

LEMMA SafeNext == SessionInv /\ [Next]_vars => SessionInv' /\ LifecycleStep
<1> SUFFICES ASSUME SessionInv, [Next]_vars PROVE SafeStep
  BY TypeCorrectNext DEF SessionInv, SafeStep
<1>1. CASE \E s \in Starts : CallStart(s)
  BY <1>1, QuietStep DEF CallStart, workerVars, lockVars, sockVars, SessionInv
<1>2. CASE \E j \in Jobs : CallJob(j) \/ StartEventDelivery(j) \/ UserOp(j) \/ UserClose(j) \/ TimerFires(j)
  BY <1>2, QuietStep DEF CallJob, StartEventDelivery, UserOp, UserClose, TimerFires, workerVars,
     lockVars, sockVars, SessionInv
<1>3. CASE UNCHANGED vars
  BY <1>3, QuietStep DEF vars, workerVars, lockVars, sockVars, SessionInv
<1> QED
  BY <1>1, <1>2, <1>3, SafeStart, SafeJob, SafeRuntime, SafeCloserBlock, SafeCancel DEF Next, WorkerStep

\* The inductive invariant: what the connection holds follows from its state and from
\* where the worker is, and no other thread can come between the two.
THEOREM SessionInvariant == Spec => []SessionInv
<1>1. Init => SessionInv
  BY TypeCorrectInit, SessionInvInit DEF SessionInv
<1>2. SessionInv /\ [Next]_vars => SessionInv'
  BY SafeNext
<1> QED
  BY <1>1, <1>2, PTL DEF Spec

\* A Closed connection holds no session, no task and no socket, whatever calls, cancels,
\* late reads, closes and hops led to it (closeSession, clearLibSSHSession:).
THEOREM ClosedReleases == Spec => []ClosedReleasesAll
<1>1. SessionInv => ClosedReleasesAll
  BY DEF SessionInv, HoldingsOfState, Released, ClosedReleasesAll
<1> QED
  BY <1>1, SessionInvariant, PTL

\* The connection implements SessionLifecycle: the worker never raises its invalid
\* transition exception, a job never runs without an allocated session, Closed is final.
THEOREM ImplementsLifecycle == Spec => RefinesLifecycle
<1>1. Init => Lifecycle!Init
  BY SessionInvInit
<1>2. SessionInv /\ [Next]_vars => LifecycleStep
  BY SafeNext
<1> QED
  BY <1>1, <1>2, SessionInvariant, PTL DEF Spec, RefinesLifecycle, Lifecycle!Spec, LifecycleStep

-----------------------------------------------------------------------------
(***************************************************************************)
(* The jobs, their blocks and their runtimes.                              *)
(***************************************************************************)

\* A block is in a queue, and is there only once.
In(q, b) == \E i \in 1..Len(q) : q[i] = b
Once(q, b) == \A i, k \in 1..Len(q) : q[i] = b /\ q[k] = b => i = k

\* Where a job's own blocks may be: it waits, it is being opened, it serves.
Opening(j) == pc \in JobSteps /\ self = j
Serving(j) == pc = "serving" /\ self = j

\* The life of a job until its caller is told: one block, and then one way through its steps.
OpenInv(j) ==
    /\ Once(queue, Block("job", j))
    /\ In(queue, Block("job", j)) => result[j] = "pending" /\ ~Opening(j)
    /\ Opening(j) => result[j] = "pending" /\ (pc = "execute" <=> kind[j] = "execute")
    /\ Opening(j) /\ pc = "withdraw" => kind[j] \in StreamKinds
    /\ Opening(j) => runtime[j] = IF pc \in {"withdraw", "return"} THEN "open" ELSE "none"
    /\ result[j] \in {"none", "pending"} /\ ~Opening(j) => runtime[j] = "none"
    /\ result[j] = "error" /\ runtime[j] # "none" => kind[j] \in StreamKinds

\* The life of its runtime: a forward is ended by the block that serves it, any other
\* by the one hop that its end has queued.
RuntimeInv(j) ==
    /\ Once(queue, Block("hop", j)) /\ Once(queue, Block("serve", j))
    /\ In(queue, Block("hop", j)) => runtime[j] = "finished"
    /\ In(queue, Block("serve", j)) \/ Serving(j) => runtime[j] = "open" /\ result[j] = "ok"
    /\ Serving(j) => ~In(queue, Block("serve", j))
    /\ IF kind[j] \in ForwardKinds
       THEN ~timer[j] /\ \A op \in {"read", "op", "close", "hop"} : ~In(queue, Block(op, j))
       ELSE ~Serving(j) /\ ~In(queue, Block("serve", j))

\* A Closed event is delivered by the hop, when the runtime is finished, and by nothing else.
EventInv(j) ==
    /\ closedEvents[j] \in {0, 1}
    /\ closedEvents[j] = 1 => runtime[j] = "finished" /\ ~In(queue, Block("hop", j))

JobInv == \A j \in Jobs : OpenInv(j) /\ RuntimeInv(j) /\ EventInv(j)

Nobody == \A j \in Jobs : ~HoldsSession(j)
Alone(j) == HoldsSession(j) /\ \A k \in Jobs : HoldsSession(k) => k = j

\* Whose the session is, wherever the worker is.
OwnerInv ==
    /\ state = "Ready" => Nobody
    /\ state \in RunningStates /\ pc \in {"idle", "serving"} =>
           \E j \in Jobs : Alone(j) /\ state = RunningState[kind[j]]
    /\ pc \in JobSteps => Nobody /\ state = RunningState[kind[self]]
    /\ state \in {"Idle", "Connecting"} => \A j \in Jobs : runtime[j] = "none"

OwnershipInv == SessionInv /\ JobInv /\ OwnerInv

-----------------------------------------------------------------------------
(***************************************************************************)
(* The queue.                                                              *)
(***************************************************************************)

LEMMA Enqueued ==
    ASSUME NEW S, NEW q \in Seq(S), NEW e \in S
    PROVE  /\ \A b : In(Append(q, e), b) <=> In(q, b) \/ b = e
           /\ \A b : Once(q, b) /\ (In(q, b) => b # e) => Once(Append(q, e), b)
<1> DEFINE r == Append(q, e)
<1>1. Len(q) \in Nat /\ Len(r) = Len(q) + 1 /\ r[Len(q) + 1] = e /\ \A i \in 1..Len(q) : r[i] = q[i]
  OBVIOUS
<1> HIDE DEF r
<1>2. ASSUME NEW b PROVE In(r, b) <=> In(q, b) \/ b = e
  BY <1>1 DEF In
<1>3. ASSUME NEW b, Once(q, b), In(q, b) => b # e PROVE Once(r, b)
  BY <1>1, <1>3 DEF In, Once
<1> QED
  BY <1>2, <1>3 DEF r

LEMMA Dequeued ==
    ASSUME NEW S, NEW q \in Seq(S), q # <<>>
    PROVE  /\ In(q, Head(q))
           /\ \A b : In(Tail(q), b) => In(q, b)
           /\ \A b : b # Head(q) => (In(Tail(q), b) <=> In(q, b))
           /\ \A b : Once(q, b) => Once(Tail(q), b)
           /\ Once(q, Head(q)) => ~In(Tail(q), Head(q))
<1> DEFINE r == Tail(q)
<1>1. Len(q) \in Nat /\ Len(q) >= 1 /\ Len(r) = Len(q) - 1 /\ \A i \in 1..Len(r) : r[i] = q[i + 1]
  OBVIOUS
<1>2. Head(q) = q[1]
  OBVIOUS
<1> HIDE DEF r
<1>3. In(q, Head(q))
  BY <1>1, <1>2 DEF In
<1>4. ASSUME NEW b, In(r, b) PROVE In(q, b)
  <2>1. PICK i \in 1..Len(r) : r[i] = b
    BY <1>4 DEF In
  <2>2. i + 1 \in 1..Len(q) /\ q[i + 1] = b
    BY <1>1, <2>1
  <2> QED
    BY <2>2 DEF In
<1>5. ASSUME NEW b, b # Head(q), In(q, b) PROVE In(r, b)
  <2>1. PICK i \in 1..Len(q) : q[i] = b
    BY <1>5 DEF In
  <2>2. i # 1
    BY <1>2, <1>5, <2>1
  <2>3. i - 1 \in 1..Len(r) /\ r[i - 1] = b
    BY <1>1, <2>1, <2>2
  <2> QED
    BY <2>3 DEF In
<1>6. ASSUME NEW b, Once(q, b) PROVE Once(r, b)
  <2>1. ASSUME NEW i \in 1..Len(r), NEW k \in 1..Len(r), r[i] = b, r[k] = b PROVE i = k
    <3>1. i + 1 \in 1..Len(q) /\ k + 1 \in 1..Len(q) /\ q[i + 1] = b /\ q[k + 1] = b
      BY <1>1, <2>1
    <3>2. i + 1 = k + 1
      BY <1>6, <3>1 DEF Once
    <3> QED
      BY <1>1, <3>2
  <2> QED
    BY <2>1 DEF Once
<1>7. ASSUME Once(q, Head(q)), In(r, Head(q)) PROVE FALSE
  <2>1. PICK i \in 1..Len(r) : r[i] = Head(q)
    BY <1>7 DEF In
  <2>2. i + 1 \in 1..Len(q) /\ q[i + 1] = Head(q) /\ 1 \in 1..Len(q) /\ i + 1 # 1
    BY <1>1, <2>1
  <2> QED
    BY <1>2, <1>7, <2>2 DEF Once
<1> QED
  BY <1>3, <1>4, <1>5, <1>6, <1>7 DEF r

\* A block is its operation and its call.
LEMMA BlockIsBoth ==
    /\ \A o1, x1, o2, x2 : Block(o1, x1) = Block(o2, x2) => o1 = o2 /\ x1 = x2
    /\ \A b \in Blocks : b = Block(b.op, b.id)
BY DEF Block, Blocks

\* What a queue keeps of the blocks the invariant speaks of.
LifeOps == {"job", "hop", "serve"}
KeepsQueue(j) ==
    /\ \A op \in LifeOps : In(queue', Block(op, j)) <=> In(queue, Block(op, j))
    /\ \A op \in LifeOps : Once(queue, Block(op, j)) => Once(queue', Block(op, j))

\* A block is taken that is no part of the life of job j ...
LEMMA Taken ==
    ASSUME TypeOK, NEW op, AtHead(op), queue' = Tail(queue)
    PROVE  /\ \A b : In(queue', b) => In(queue, b)
           /\ \A b : b # Block(op, HeadId) => (In(queue', b) <=> In(queue, b))
           /\ \A b : Once(queue, b) => Once(queue', b)
           /\ In(queue, Block(op, HeadId))
           /\ Once(queue, Block(op, HeadId)) => ~In(queue', Block(op, HeadId))
<1>1. Head(queue) = Block(op, HeadId)
  BY QueueHead, BlockIsBoth DEF AtHead, TypeOK, HeadId
<1>2. queue \in Seq(Blocks) /\ queue # <<>>
  BY DEF TypeOK, AtHead
<1> QED
  BY <1>1, <1>2, Dequeued

\* ... or added.
LEMMA Added ==
    ASSUME TypeOK, NEW op, NEW x, Block(op, x) \in Blocks, Enqueue(op, x)
    PROVE  /\ \A b : In(queue', b) <=> In(queue, b) \/ b = Block(op, x)
           /\ \A b : Once(queue, b) /\ (In(queue, b) => b # Block(op, x)) => Once(queue', b)
<1>1. queue \in Seq(Blocks) /\ queue' = Append(queue, Block(op, x))
  BY DEF TypeOK, Enqueue
<1> QED
  BY <1>1, Enqueued

LEMMA BlockType ==
    /\ \A s \in Starts : Block("start", s) \in Blocks
    /\ \A j \in Jobs, op \in {"job", "read", "op", "close", "hop", "serve"} : Block(op, j) \in Blocks
    /\ \A c \in Closers, op \in {"poll", "teardown"} : Block(op, c) \in Blocks
BY DEF Block, Blocks

-----------------------------------------------------------------------------
(***************************************************************************)
(* A step that leaves a job alone.                                         *)
(***************************************************************************)

LifeInv(j) == OpenInv(j) /\ RuntimeInv(j) /\ EventInv(j)

\* Nothing of the life of j changes, as far as its variables ...
Same(j) ==
    /\ UNCHANGED <<kind[j], result[j], runtime[j], closedEvents[j]>>
    /\ kind[j] \in ForwardKinds => ~timer'[j]
    /\ Opening(j)' <=> Opening(j)
    /\ Opening(j) => UNCHANGED pc
    /\ Serving(j)' <=> Serving(j)

\* ... and its blocks go.
Spared(j) ==
    /\ Same(j) /\ KeepsQueue(j)
    /\ kind[j] \in ForwardKinds => \A op \in {"read", "op", "close"} : ~In(queue', Block(op, j))

LEMMA SparedLives ==
    ASSUME NEW j \in Jobs, LifeInv(j), Spared(j)
    PROVE  LifeInv(j)' /\ (HoldsSession(j)' <=> HoldsSession(j))
<1>1. OpenInv(j)'
  BY DEF LifeInv, OpenInv, RuntimeInv, Spared, Same, KeepsQueue, LifeOps
<1>2. RuntimeInv(j)'
  BY DEF LifeInv, RuntimeInv, Spared, Same, KeepsQueue, LifeOps
<1>3. EventInv(j)'
  BY DEF LifeInv, EventInv, Spared, Same, KeepsQueue, LifeOps
<1>4. HoldsSession(j)' <=> HoldsSession(j)
  <2>1. \A i \in Jobs : HoldsSession(i) <=> result[i] = "ok" /\ (runtime[i] = "open" \/ In(queue, Block("hop", i)))
    BY DEF HoldsSession, Queued, In
  <2>2. HoldsSession(j)' <=> result'[j] = "ok" /\ (runtime'[j] = "open" \/ In(queue', Block("hop", j)))
    BY DEF HoldsSession, Queued, In
  <2> QED
    BY <2>1, <2>2 DEF Spared, Same, KeepsQueue, LifeOps
<1> QED
  BY <1>1, <1>2, <1>3, <1>4 DEF LifeInv

\* The queue, as it is, or with a block more or less that is no part of the life of j.
LEMMA KeptSpares ==
    ASSUME NEW j \in Jobs, LifeInv(j), Same(j), UNCHANGED queue
    PROVE  Spared(j)
BY DEF Spared, Same, KeepsQueue, LifeInv, RuntimeInv

LEMMA AddedSpares ==
    ASSUME NEW j \in Jobs, LifeInv(j), Same(j), TypeOK,
           NEW op, NEW x, Block(op, x) \in Blocks, Enqueue(op, x),
           x # j \/ op \notin LifeOps \cup {"read", "op", "close"} \/ (op \notin LifeOps /\ kind[j] \notin ForwardKinds)
    PROVE  Spared(j)
<1>1. \A b : In(queue', b) <=> In(queue, b) \/ b = Block(op, x)
  BY Added
<1>2. \A b : Once(queue, b) /\ b # Block(op, x) => Once(queue', b)
  BY Added
<1>3. \A o \in LifeOps : Block(o, j) # Block(op, x)
  BY BlockIsBoth
<1>4. kind[j] \in ForwardKinds => \A o \in {"read", "op", "close"} : Block(o, j) # Block(op, x)
  BY BlockIsBoth
<1> QED
  BY <1>1, <1>2, <1>3, <1>4 DEF Spared, Same, KeepsQueue, LifeInv, RuntimeInv

LEMMA TakenSpares ==
    ASSUME NEW j \in Jobs, LifeInv(j), Same(j), TypeOK, NEW op, AtHead(op), queue' = Tail(queue),
           HeadId # j \/ op \notin LifeOps
    PROVE  Spared(j)
<1>1. \A b : In(queue', b) => In(queue, b)
  BY Taken
<1>2. \A b : b # Block(op, HeadId) => (In(queue', b) <=> In(queue, b))
  BY Taken
<1>3. \A b : Once(queue, b) => Once(queue', b)
  BY Taken
<1>4. \A o \in LifeOps : Block(o, j) # Block(op, HeadId)
  BY BlockIsBoth
<1> QED
  BY <1>1, <1>2, <1>3, <1>4 DEF Spared, Same, KeepsQueue, LifeInv, RuntimeInv

\* Ending a runtime takes a block and adds the hop.
LEMMA Replaced ==
    ASSUME TypeOK, NEW op, op \in {"read", "op", "close"}, AtHead(op),
           queue' = Append(Tail(queue), Block("hop", HeadId))
    PROVE  /\ \A b : In(queue', b) => In(queue, b) \/ b = Block("hop", HeadId)
           /\ In(queue', Block("hop", HeadId))
           /\ \A b : b \notin {Block(op, HeadId), Block("hop", HeadId)} => (In(queue', b) <=> In(queue, b))
           /\ \A b : Once(queue, b) /\ (In(queue, b) => b # Block("hop", HeadId)) => Once(queue', b)
<1> DEFINE q == Tail(queue)
<1>1. q \in Seq(Blocks) /\ HeadId \in Jobs
  BY QueueHead DEF TypeOK, AtHead
<1>2. Block("hop", HeadId) \in Blocks
  BY <1>1, BlockType
<1>3. Head(queue) = Block(op, HeadId) /\ queue \in Seq(Blocks) /\ queue # <<>>
  BY QueueHead, BlockIsBoth DEF AtHead, TypeOK, HeadId
<1>4. /\ \A b : In(q, b) => In(queue, b)
      /\ \A b : b # Block(op, HeadId) => (In(q, b) <=> In(queue, b))
      /\ \A b : Once(queue, b) => Once(q, b)
  BY <1>3, Dequeued
<1>5. /\ \A b : In(queue', b) <=> In(q, b) \/ b = Block("hop", HeadId)
      /\ \A b : Once(q, b) /\ (In(q, b) => b # Block("hop", HeadId)) => Once(queue', b)
  <2> HIDE DEF q
  <2> DEFINE e == Block("hop", HeadId)
  <2>1. queue' = Append(q, e)
    BY DEF q
  <2>2. q \in Seq(Blocks) /\ e \in Blocks
    BY <1>1, <1>2
  <2> HIDE DEF e
  <2>3. /\ \A b : In(Append(q, e), b) <=> In(q, b) \/ b = e
        /\ \A b : Once(q, b) /\ (In(q, b) => b # e) => Once(Append(q, e), b)
    BY <2>2, Enqueued
  <2> QED
    BY <2>1, <2>3 DEF e
<1> HIDE DEF q
<1> QED
  BY <1>4, <1>5

-----------------------------------------------------------------------------
(***************************************************************************)
(* Whose the session is after a step.                                      *)
(***************************************************************************)

Keeps == JobInv' /\ OwnerInv'

\* A step that changes neither the state nor who holds the session.
LEMMA OwnerStays ==
    ASSUME TypeOK, OwnerInv, UNCHANGED <<kind, state>>,
           UNCHANGED <<pc, self>> \/ (pc \in {"idle", "serving"} /\ pc' \in {"idle", "serving"}),
           \A j \in Jobs : HoldsSession(j)' <=> HoldsSession(j),
           \A j \in Jobs : state \in {"Idle", "Connecting"} => runtime'[j] = runtime[j]
    PROVE  OwnerInv'
<1>1. Nobody' <=> Nobody
  BY DEF Nobody
<1>2. \A j \in Jobs : Alone(j)' <=> Alone(j)
  BY DEF Alone
<1>3. state' = "Ready" => Nobody'
  BY <1>1 DEF OwnerInv
<1>4. state' \in RunningStates /\ pc' \in {"idle", "serving"} =>
          \E j \in Jobs : Alone(j)' /\ state' = RunningState[kind'[j]]
  BY <1>2 DEF OwnerInv
<1>5. pc' \in JobSteps => Nobody' /\ state' = RunningState[kind'[self']]
  BY <1>1 DEF OwnerInv, JobSteps
<1>6. state' \in {"Idle", "Connecting"} => \A j \in Jobs : runtime'[j] = "none"
  BY DEF OwnerInv
<1> QED
  BY <1>3, <1>4, <1>5, <1>6 DEF OwnerInv

\* A step that leaves every job alone, and the worker.
LEMMA AllSpared ==
    ASSUME OwnershipInv, \A j \in Jobs : Spared(j)
    PROVE  /\ JobInv'
           /\ \A j \in Jobs : HoldsSession(j)' <=> HoldsSession(j)
           /\ \A j \in Jobs : runtime'[j] = runtime[j]
BY SparedLives DEF OwnershipInv, JobInv, LifeInv, Spared, Same

LEMMA QuietKeeps ==
    ASSUME OwnershipInv, \A j \in Jobs : Spared(j), UNCHANGED <<kind, pc, self, state>>
    PROVE  Keeps
BY AllSpared, OwnerStays DEF OwnershipInv, SessionInv, Keeps

\* As long as no job has run, nobody holds the session.
LEMMA NobodyYet ==
    ASSUME JobInv, OwnerInv, state \in {"Idle", "Connecting"}
    PROVE  Nobody
<1> SUFFICES ASSUME NEW j \in Jobs PROVE ~HoldsSession(j)
  BY DEF Nobody
<1>1. runtime[j] = "none"
  BY DEF OwnerInv
<1>2. ~In(queue, Block("hop", j))
  BY <1>1 DEF JobInv, RuntimeInv
<1> QED
  BY <1>1, <1>2 DEF HoldsSession, Queued, In

\* A start or a teardown moves on; jobs have no part in either.
LEMMA WorkerMoves ==
    ASSUME OwnershipInv, \A j \in Jobs : Spared(j), pc' \notin JobSteps \cup {"serving"},
           \/ state \in {"Idle", "Connecting"} /\ state' \in {"Connecting", "Ready", "Closed"}
           \/ state' \in {"Closing", "Closed"}
    PROVE  Keeps
<1>1. Nobody' <=> Nobody
  BY AllSpared DEF Nobody
<1>2. state' = "Ready" => Nobody'
  BY <1>1, NobodyYet DEF OwnershipInv
<1>3. state' \notin RunningStates
  BY DEF RunningStates, ActiveStates
<1>4. state' \in {"Idle", "Connecting"} => \A j \in Jobs : runtime'[j] = "none"
  BY AllSpared DEF OwnershipInv, OwnerInv
<1> QED
  BY <1>2, <1>3, <1>4, AllSpared DEF OwnerInv, Keeps

\* What a job that holds the session is, in the terms of the invariant.
LEMMA Holding ==
    /\ \A j \in Jobs : HoldsSession(j) <=> result[j] = "ok" /\ (runtime[j] = "open" \/ In(queue, Block("hop", j)))
    /\ \A j \in Jobs : HoldsSession(j)' <=> result'[j] = "ok" /\ (runtime'[j] = "open" \/ In(queue', Block("hop", j)))
BY DEF HoldsSession, Queued, In

\* A step in the life of one job: the others are spared.
LEMMA OneLives ==
    ASSUME JobInv, NEW j \in Jobs, \A k \in Jobs \ {j} : Spared(k), LifeInv(j)'
    PROVE  /\ JobInv'
           /\ \A k \in Jobs \ {j} : HoldsSession(k)' <=> HoldsSession(k)
BY SparedLives DEF JobInv, LifeInv

-----------------------------------------------------------------------------
(***************************************************************************)
(* The calls of the application, and the threads of the disconnect calls.  *)
(***************************************************************************)

\* A call that changes nothing a job lives on.
Harmless ==
    /\ UNCHANGED <<kind, runtime, closedEvents, pc, self, state>>
    /\ \A j \in Jobs : result'[j] = result[j] /\ (kind[j] \in ForwardKinds => timer'[j] = timer[j])

LEMMA HarmlessIsSame ==
    ASSUME OwnershipInv, Harmless
    PROVE  /\ TypeOK /\ \A j \in Jobs : LifeInv(j) /\ Same(j)
           /\ UNCHANGED <<kind, pc, self, state>>
BY DEF OwnershipInv, SessionInv, JobInv, Harmless, Same, Opening, Serving, LifeInv, RuntimeInv

LEMMA HarmlessKeeps ==
    ASSUME OwnershipInv, Harmless, UNCHANGED queue
    PROVE  Keeps
BY HarmlessIsSame, KeptSpares, QuietKeeps

\* A block that is added and belongs to the life of no job, or of none that serves.
LEMMA AddedKeeps ==
    ASSUME OwnershipInv, Harmless, NEW op, NEW x, Block(op, x) \in Blocks, Enqueue(op, x),
           op \in {"start", "poll", "teardown"} \/
             (op \in {"read", "op", "close"} /\ x \in Jobs /\ kind[x] \notin ForwardKinds)
    PROVE  Keeps
<1>1. ASSUME NEW j \in Jobs PROVE Spared(j)
  BY HarmlessIsSame, AddedSpares DEF LifeOps
<1> QED
  BY <1>1, HarmlessIsSame, QuietKeeps

LEMMA OwnedCallStart ==
    ASSUME OwnershipInv, NEW s \in Starts, CallStart(s)
    PROVE  Keeps
<1>1. Block("start", s) \in Blocks /\ Enqueue("start", s)
  BY BlockType DEF CallStart
<1>2. \A j \in Jobs : result'[j] = result[j]
  BY ConnectionAssumption DEF CallStart, Complete, ConnectionAssumption, OwnershipInv, SessionInv, TypeOK
<1>3. Harmless
  BY <1>2 DEF Harmless, CallStart, workerVars
<1> QED
  BY <1>1, <1>3, AddedKeeps

\* A job is called: its block is the only part of its life that is there.
LEMMA OwnedCallJob ==
    ASSUME OwnershipInv, NEW j \in Jobs, CallJob(j)
    PROVE  Keeps
<1>1. TypeOK /\ Block("job", j) \in Blocks /\ Enqueue("job", j) /\ result[j] = "none"
  BY BlockType DEF CallJob, OwnershipInv, SessionInv
<1>2. /\ UNCHANGED <<kind, runtime, timer, closedEvents, pc, self, state>>
      /\ result'[j] = "pending" /\ \A k \in Jobs \ {j} : result'[k] = result[k]
  BY <1>1 DEF CallJob, Complete, workerVars, TypeOK
<1>3. \A k \in Jobs : LifeInv(k)
  BY DEF OwnershipInv, JobInv, LifeInv
<1>4. ASSUME NEW k \in Jobs \ {j} PROVE Spared(k)
  <2>1. Same(k)
    BY <1>2, <1>3 DEF Same, Opening, Serving, LifeInv, RuntimeInv
  <2> QED
    BY <1>1, <1>3, <2>1, AddedSpares
<1>5. LifeInv(j)'
  <2>1. \A b : In(queue', b) <=> In(queue, b) \/ b = Block("job", j)
    BY <1>1, Added
  <2>2. \A b : Once(queue, b) /\ (In(queue, b) => b # Block("job", j)) => Once(queue', b)
    BY <1>1, Added
  <2>3. \A op \in {"read", "op", "close", "hop", "serve"} : Block(op, j) # Block("job", j)
    BY BlockIsBoth
  <2>4. OpenInv(j) /\ RuntimeInv(j) /\ EventInv(j)
    BY <1>3 DEF LifeInv
  <2>5. ~Opening(j) /\ ~In(queue, Block("job", j)) /\ runtime[j] = "none"
    BY <1>1, <2>4 DEF OpenInv
  <2>6. OpenInv(j)'
    BY <1>2, <2>1, <2>2, <2>4, <2>5 DEF OpenInv, Opening
  <2>7. RuntimeInv(j)'
    BY <1>1, <1>2, <2>1, <2>2, <2>3, <2>4, <2>5 DEF RuntimeInv, Serving
  <2>8. EventInv(j)'
    BY <1>2, <2>1, <2>3, <2>4 DEF EventInv
  <2> QED
    BY <2>6, <2>7, <2>8 DEF LifeInv
<1>6. HoldsSession(j)' <=> HoldsSession(j)
  BY <1>1, <1>2, Holding
<1> QED
  BY <1>1, <1>2, <1>4, <1>5, <1>6, OneLives, OwnerStays DEF OwnershipInv, Keeps

LEMMA OwnedUse ==
    ASSUME OwnershipInv, NEW j \in Jobs,
           StartEventDelivery(j) \/ UserOp(j) \/ UserClose(j) \/ TimerFires(j)
    PROVE  Keeps
<1>1. TypeOK /\ LifeInv(j) /\ \A op \in {"read", "op", "close"} : Block(op, j) \in Blocks
  BY BlockType DEF OwnershipInv, SessionInv, JobInv, LifeInv
<1>2. StreamKinds \cap ForwardKinds = {} /\ QueuedKinds \cap ForwardKinds = {}
  BY DEF StreamKinds, QueuedKinds, ForwardKinds
<1>3. CASE StartEventDelivery(j)
  <2>1. Harmless /\ Enqueue("read", j) /\ kind[j] \notin ForwardKinds
    BY <1>2, <1>3 DEF StartEventDelivery, Harmless, workerVars
  <2> QED
    BY <1>1, <2>1, AddedKeeps
<1>4. CASE UserOp(j)
  <2>1. Harmless /\ Enqueue("op", j) /\ kind[j] \notin ForwardKinds
    BY <1>2, <1>4 DEF UserOp, Harmless, workerVars
  <2> QED
    BY <1>1, <2>1, AddedKeeps
<1>5. CASE UserClose(j)
  <2>1. Harmless /\ CloseRuntime(j)
    BY <1>5 DEF UserClose, Harmless, workerVars
  <2> QED
    BY <1>1, <2>1, AddedKeeps, HarmlessKeeps DEF CloseRuntime
<1>6. CASE TimerFires(j)
  <2>1. kind[j] \notin ForwardKinds
    BY <1>1, <1>6 DEF TimerFires, LifeInv, RuntimeInv
  <2>2. \A k \in Jobs \ {j} : timer'[k] = timer[k]
    BY <1>1, <1>6 DEF TimerFires, TypeOK
  <2>3. Harmless /\ Enqueue("read", j)
    BY <1>6, <2>1, <2>2 DEF TimerFires, Harmless, workerVars
  <2> QED
    BY <1>1, <2>1, <2>3, AddedKeeps
<1> QED
  BY <1>3, <1>4, <1>5, <1>6

\* The close of the current task is the only thing a disconnect does to a job.
LEMMA OwnedCancel ==
    ASSUME OwnershipInv, NEW c \in Closers,
           CallDisconnect(c) \/ CancelStep(c) \/ DeadlineExpires(c)
    PROVE  Keeps
<1>1. /\ \A j \in Jobs : Block("close", j) \in Blocks
      /\ Block("poll", c) \in Blocks /\ Block("teardown", c) \in Blocks
  BY BlockType
<1>2. Harmless
  BY DEF Harmless, CancelStep, CallDisconnect, CancelSnapshot, CancelLock, CancelCloseTask, CancelShutdown, Poll,
     QueueTeardown, DeadlineExpires, workerVars, jobVars
<1>3. CASE CancelCloseTask(c)
  <2>1. closer[c].task \in Jobs /\ CloseRuntime(closer[c].task)
    BY <1>3 DEF CancelCloseTask, OwnershipInv, SessionInv, TypeOK
  <2> QED
    BY <1>1, <1>2, <2>1, AddedKeeps, HarmlessKeeps DEF CloseRuntime
<1>4. CASE Poll(c) \/ QueueTeardown(c)
  BY <1>1, <1>2, <1>4, AddedKeeps DEF Poll, QueueTeardown
<1>5. CASE CallDisconnect(c) \/ CancelSnapshot(c) \/ CancelLock(c) \/ CancelShutdown(c) \/ DeadlineExpires(c)
  BY <1>2, <1>5, HarmlessKeeps DEF CallDisconnect, CancelSnapshot, CancelLock, CancelShutdown, DeadlineExpires
<1> QED
  BY <1>3, <1>4, <1>5 DEF CancelStep

-----------------------------------------------------------------------------
(***************************************************************************)
(* The blocks of the worker: starts, polls and teardowns.                  *)
(***************************************************************************)

\* A block of nobody's life is taken, or none, outside the steps of a job.
LEMMA OtherBlock ==
    ASSUME OwnershipInv, UNCHANGED <<kind, runtime, timer, closedEvents>>,
           \A j \in Jobs : result'[j] = result[j],
           pc \notin JobSteps \cup {"serving"}, pc' \notin JobSteps \cup {"serving"},
           \/ UNCHANGED queue
           \/ \E op \in {"start", "poll", "teardown"} : AtHead(op) /\ queue' = Tail(queue)
    PROVE  \A j \in Jobs : Spared(j)
<1> SUFFICES ASSUME NEW j \in Jobs PROVE Spared(j)
  OBVIOUS
<1>1. TypeOK /\ LifeInv(j)
  BY DEF OwnershipInv, SessionInv, JobInv, LifeInv
<1>2. Same(j)
  BY <1>1 DEF Same, Opening, Serving, LifeInv, RuntimeInv
<1> QED
  BY <1>1, <1>2, KeptSpares, TakenSpares DEF LifeOps

\* The results of starts are not those of jobs.
LEMMA StartIsNoJob ==
    ASSUME TypeOK, NEW s \in Starts, NEW outcome, Complete(s, outcome)
    PROVE  \A j \in Jobs : result'[j] = result[j]
BY ConnectionAssumption DEF ConnectionAssumption, TypeOK, Complete

LEMMA OwnedStart ==
    ASSUME OwnershipInv, StartStep
    PROVE  Keeps
<1>1. TypeOK /\ StateOfBlock
  BY DEF OwnershipInv, SessionInv
<1> DEFINE Unheard == \A j \in Jobs : result'[j] = result[j]
<1>2. CASE RefuseStart
  <2>1. HeadId \in Starts
    BY <1>1, <1>2, QueueHead DEF RefuseStart, AtHead, TypeOK
  <2>2. Unheard
    BY <1>1, <1>2, <2>1, StartIsNoJob DEF RefuseStart
  <2>3. \A j \in Jobs : Spared(j)
    BY <1>2, <2>2, OtherBlock DEF RefuseStart, RunBlock, AtHead, JobSteps
  <2> QED
    BY <1>2, <2>3, QuietKeeps DEF RefuseStart, RunBlock
<1>3. CASE BeginStart
  <2>1. /\ pc = "idle" /\ pc' \in StartSteps /\ state = "Idle" /\ state' = "Connecting"
        /\ UNCHANGED jobVars
    BY <1>3 DEF BeginStart, AtHead, EnterBlock, StartSteps
  <2>2. \A j \in Jobs : Spared(j)
    BY <1>3, <2>1, OtherBlock DEF BeginStart, EnterBlock, jobVars, StartSteps, JobSteps
  <2> QED
    BY <2>1, <2>2, WorkerMoves DEF StartSteps, JobSteps
<1>4. CASE OpenSocket \/ SocketConnected \/ SocketRefused \/ AttachFails \/ PublishSession \/ AbandonSession
  <2>1. pc \in StartSteps /\ pc' \in StartSteps /\ UNCHANGED <<queue, state>> /\ UNCHANGED jobVars
    BY <1>4 DEF OpenSocket, SocketConnected, SocketRefused, AttachFails, PublishSession, AbandonSession, GoTo,
       StartSteps
  <2>2. state = "Connecting"
    BY <1>1, <2>1 DEF StateOfBlock
  <2>3. \A j \in Jobs : Spared(j)
    BY <2>1, OtherBlock DEF jobVars, StartSteps, JobSteps
  <2> QED
    BY <2>1, <2>2, <2>3, WorkerMoves DEF StartSteps, JobSteps
<1>5. CASE FinishConnect \/ FinishDiscovery \/ GiveUp
  <2>1. /\ pc \in StartSteps /\ pc' = "idle" /\ state' \in {"Ready", "Closed"}
        /\ UNCHANGED <<queue, kind, runtime, timer, closedEvents>>
        /\ \E outcome \in {"ok", "error"} : Complete(self, outcome)
    BY <1>5 DEF FinishConnect, FinishDiscovery, GiveUp, LeaveBlock, StartSteps
  <2>2. state = "Connecting" /\ self \in Starts
    BY <1>1, <2>1 DEF StateOfBlock, TypeOK, StartSteps, JobSteps
  <2>3. Unheard
    BY <1>1, <2>1, <2>2, StartIsNoJob
  <2>4. \A j \in Jobs : Spared(j)
    BY <2>1, <2>3, OtherBlock DEF StartSteps, JobSteps
  <2> QED
    BY <2>1, <2>2, <2>4, WorkerMoves DEF JobSteps
<1> QED
  BY <1>2, <1>3, <1>4, <1>5 DEF StartStep

LEMMA OwnedCloserBlock ==
    ASSUME OwnershipInv, CloserBlock
    PROVE  Keeps
<1>1. CASE PollBlock
  <2>1. UNCHANGED <<kind, pc, self, state>>
    BY <1>1 DEF PollBlock, RunBlock, jobVars
  <2>2. \A j \in Jobs : Spared(j)
    BY <1>1, OtherBlock DEF PollBlock, RunBlock, AtHead, jobVars, JobSteps
  <2> QED
    BY <2>1, <2>2, QuietKeeps
<1>2. CASE BeginTeardown
  <2>1. pc = "idle" /\ pc' = "teardown" /\ state' \in {"Closing", "Closed"}
    BY <1>2 DEF BeginTeardown, AtHead, EnterBlock
  <2>2. \A j \in Jobs : Spared(j)
    BY <1>2, <2>1, OtherBlock DEF BeginTeardown, EnterBlock, jobVars, JobSteps
  <2> QED
    BY <2>1, <2>2, WorkerMoves DEF JobSteps
<1>3. CASE FinishTeardown
  <2>1. pc = "teardown" /\ pc' = "idle" /\ state' = "Closed" /\ UNCHANGED <<queue, jobVars>>
    BY <1>3 DEF FinishTeardown, LeaveBlock
  <2>2. \A j \in Jobs : Spared(j)
    BY <2>1, OtherBlock DEF jobVars, JobSteps
  <2> QED
    BY <2>1, <2>2, WorkerMoves DEF JobSteps
<1> QED
  BY <1>1, <1>2, <1>3 DEF CloserBlock

-----------------------------------------------------------------------------
(***************************************************************************)
(* The blocks of the worker: a job takes the session.                      *)
(***************************************************************************)

\* What the running step of a job knows.
LEMMA InJob ==
    ASSUME OwnershipInv, pc \in JobSteps
    PROVE  /\ TypeOK /\ self \in Jobs /\ Opening(self) /\ LifeInv(self)
           /\ result[self] = "pending" /\ ~In(queue, Block("job", self)) /\ ~In(queue, Block("serve", self))
           /\ Nobody /\ state = RunningState[kind[self]] /\ state \in RunningStates
<1>1. TypeOK /\ self \in Jobs /\ state \in RunningStates
  BY DEF OwnershipInv, SessionInv, TypeOK, StateOfBlock, JobSteps, StartSteps
<1>2. Opening(self) /\ LifeInv(self)
  BY <1>1 DEF OwnershipInv, JobInv, LifeInv, Opening
<1> QED
  BY <1>1, <1>2 DEF LifeInv, OpenInv, RuntimeInv, OwnershipInv, OwnerInv

\* A step of the running job spares all others.
LEMMA OthersSpared ==
    ASSUME OwnershipInv, NEW j \in Jobs, UNCHANGED <<kind, timer>>,
           \A k \in Jobs \ {j} : UNCHANGED <<result[k], runtime[k], closedEvents[k]>>,
           pc \in JobSteps \cup {"serving"} => self = j,
           pc' \in JobSteps \cup {"serving"} => self' = j,
           \/ UNCHANGED queue
           \/ \E op : Block(op, j) \in Blocks /\ Enqueue(op, j)
           \/ \E op : AtHead(op) /\ HeadId = j /\ queue' = Tail(queue)
    PROVE  \A k \in Jobs \ {j} : Spared(k)
<1> SUFFICES ASSUME NEW k \in Jobs \ {j} PROVE Spared(k)
  OBVIOUS
<1>1. TypeOK /\ LifeInv(k)
  BY DEF OwnershipInv, SessionInv, JobInv, LifeInv
<1>2. Same(k)
  BY <1>1 DEF Same, Opening, Serving, LifeInv, RuntimeInv
<1>3. CASE UNCHANGED queue
  BY <1>1, <1>2, <1>3, KeptSpares
<1>4. ASSUME NEW op, Block(op, j) \in Blocks, Enqueue(op, j) PROVE Spared(k)
  BY <1>1, <1>2, <1>4, AddedSpares
<1>5. ASSUME NEW op, AtHead(op), HeadId = j, queue' = Tail(queue) PROVE Spared(k)
  BY <1>1, <1>2, <1>5, TakenSpares
<1> QED
  BY <1>3, <1>4, <1>5

\* The job fails, or the command it executed ends: nobody is left to hold the session.
LEMMA OwnedReturn ==
    ASSUME OwnershipInv, pc \in {"open", "execute"}, NEW outcome \in {"ok", "error"},
           ReturnToReady(outcome), UNCHANGED <<queue, kind, runtime, timer, closedEvents>>
    PROVE  Keeps
<1>0. PICK j \in Jobs : j = self
  BY InJob DEF JobSteps
<1>1. /\ TypeOK /\ Opening(j) /\ LifeInv(j) /\ Nobody
      /\ ~In(queue, Block("job", j)) /\ ~In(queue, Block("serve", j))
  BY <1>0, InJob DEF JobSteps
<1>2. /\ pc' = "idle" /\ state' = "Ready" /\ result'[j] = outcome
      /\ \A k \in Jobs \ {j} : result'[k] = result[k]
  BY <1>0, <1>1 DEF ReturnToReady, LeaveBlock, Complete, TypeOK
<1>3. runtime[j] = "none" /\ ~In(queue, Block("hop", j))
  BY <1>1 DEF LifeInv, OpenInv, RuntimeInv
<1>4. \A k \in Jobs \ {j} : Spared(k)
  BY <1>0, <1>2, OthersSpared DEF JobSteps
<1>5. LifeInv(j)'
  BY <1>1, <1>2, <1>3 DEF LifeInv, OpenInv, RuntimeInv, EventInv, Opening, Serving, JobSteps
<1>6. ~HoldsSession(j)'
  BY <1>1, <1>3, Holding
<1>7. JobInv' /\ Nobody'
  BY <1>1, <1>4, <1>5, <1>6, OneLives DEF OwnershipInv, Nobody
<1> QED
  BY <1>2, <1>7 DEF Keeps, OwnerInv, RunningStates, ActiveStates, JobSteps

LEMMA OwnedRefusal ==
    ASSUME OwnershipInv, RefuseJob
    PROVE  Keeps
<1>1. TypeOK /\ AtHead("job") /\ queue' = Tail(queue) /\ UNCHANGED <<pc, self, state>> /\ pc = "idle"
  BY DEF RefuseJob, RunBlock, OwnershipInv, SessionInv, AtHead
<1>2. PICK j \in Jobs : j = HeadId /\ LifeInv(j)
  BY <1>1, QueueHead DEF AtHead, TypeOK, OwnershipInv, JobInv, LifeInv
<1>3. /\ In(queue, Block("job", j)) /\ ~In(queue', Block("job", j))
      /\ \A op \in {"read", "op", "close", "hop", "serve"} : In(queue', Block(op, j)) => In(queue, Block(op, j))
      /\ \A b : Once(queue, b) => Once(queue', b)
  BY <1>1, <1>2, Taken DEF LifeInv, OpenInv
<1>4. /\ result[j] = "pending" /\ result'[j] = "error" /\ \A k \in Jobs \ {j} : result'[k] = result[k]
      /\ UNCHANGED <<kind, runtime, timer, closedEvents>> /\ ~Opening(j)
  BY <1>1, <1>2, <1>3 DEF RefuseJob, Complete, LifeInv, OpenInv, TypeOK
<1>5. \A k \in Jobs \ {j} : Spared(k)
  BY <1>1, <1>2, <1>4, OthersSpared DEF JobSteps
<1>6. LifeInv(j)'
  BY <1>1, <1>2, <1>3, <1>4 DEF LifeInv, OpenInv, RuntimeInv, EventInv, Opening, Serving
<1>7. HoldsSession(j)' <=> HoldsSession(j)
  BY <1>2, <1>4, Holding
<1> QED
  BY <1>1, <1>2, <1>4, <1>5, <1>6, <1>7, OneLives, OwnerStays DEF OwnershipInv, Keeps

LEMMA OwnedBegin ==
    ASSUME OwnershipInv, BeginJob
    PROVE  Keeps
<1>1. TypeOK /\ AtHead("job") /\ queue' = Tail(queue) /\ pc = "idle" /\ UNCHANGED jobVars
  BY DEF BeginJob, EnterBlock, OwnershipInv, SessionInv, AtHead
<1>2. PICK j \in Jobs : j = HeadId /\ LifeInv(j)
  BY <1>1, QueueHead DEF AtHead, TypeOK, OwnershipInv, JobInv, LifeInv
<1>3. /\ In(queue, Block("job", j)) /\ ~In(queue', Block("job", j))
      /\ \A op \in {"read", "op", "close", "hop", "serve"} : In(queue', Block(op, j)) => In(queue, Block(op, j))
      /\ \A b : Once(queue, b) => Once(queue', b)
  BY <1>1, <1>2, Taken DEF LifeInv, OpenInv
<1>4. /\ pc' = (IF kind[j] = "execute" THEN "execute" ELSE "open") /\ self' = j
      /\ state' = RunningState[kind[j]] /\ UNCHANGED <<kind, result, runtime, timer, closedEvents>>
  BY <1>2 DEF BeginJob, EnterBlock, jobVars
<1>5. result[j] = "pending" /\ runtime[j] = "none" /\ state' \in RunningStates /\ Nobody
  BY <1>1, <1>2, <1>3, <1>4, RunningStateType DEF LifeInv, OpenInv, TypeOK, BeginJob, OwnershipInv, OwnerInv
<1>6. \A k \in Jobs \ {j} : Spared(k)
  BY <1>1, <1>2, <1>4, OthersSpared DEF JobSteps
<1>7. LifeInv(j)'
  BY <1>2, <1>3, <1>4, <1>5 DEF LifeInv, OpenInv, RuntimeInv, EventInv, Opening, Serving, JobSteps
<1>8. JobInv' /\ Nobody'
  BY <1>2, <1>4, <1>5, <1>6, <1>7, OneLives, Holding DEF OwnershipInv, Nobody
<1> QED
  BY <1>4, <1>5, <1>8 DEF Keeps, OwnerInv, RunningStates, ActiveStates, JobSteps

LEMMA OwnedPublish ==
    ASSUME OwnershipInv, PublishRuntime
    PROVE  Keeps
<1>0. PICK j \in Jobs : j = self
  BY InJob DEF PublishRuntime, JobSteps
<1>1. pc = "open" /\ pc' \in {"withdraw", "return"} /\ (pc' = "withdraw" => kind[j] \in StreamKinds)
      /\ UNCHANGED <<self, queue, state, kind, result, timer, closedEvents>>
  BY <1>0 DEF PublishRuntime, GoTo
<1>2. /\ TypeOK /\ Opening(j) /\ LifeInv(j) /\ Nobody /\ result[j] = "pending"
      /\ state = RunningState[kind[j]] /\ state \in RunningStates
  BY <1>0, <1>1, InJob DEF JobSteps
<1>3. runtime'[j] = "open" /\ \A k \in Jobs \ {j} : runtime'[k] = runtime[k]
  BY <1>0, <1>2 DEF PublishRuntime, TypeOK
<1>4. \A k \in Jobs \ {j} : Spared(k)
  BY <1>0, <1>1, <1>3, OthersSpared DEF JobSteps
<1>5. runtime[j] = "none" /\ ~In(queue, Block("hop", j)) /\ closedEvents[j] = 0 /\ kind[j] # "execute"
  BY <1>1, <1>2 DEF LifeInv, OpenInv, RuntimeInv, EventInv
<1>6. LifeInv(j)'
  BY <1>1, <1>2, <1>3, <1>5 DEF LifeInv, OpenInv, RuntimeInv, EventInv, Opening, Serving, JobSteps
<1>7. JobInv' /\ Nobody'
  BY <1>1, <1>2, <1>4, <1>6, OneLives, Holding DEF OwnershipInv, Nobody
<1> QED
  BY <1>0, <1>1, <1>2, <1>7 DEF Keeps, OwnerInv, RunningStates, ActiveStates, JobSteps

\* The withdrawn stream keeps its runtime and gives the session back: it never holds it.
LEMMA OwnedWithdraw ==
    ASSUME OwnershipInv, Withdraw
    PROVE  Keeps
<1>0. PICK j \in Jobs : j = self
  BY InJob DEF Withdraw, JobSteps
<1>1. /\ TypeOK /\ Opening(j) /\ LifeInv(j) /\ Nobody /\ Block("close", j) \in Blocks
      /\ ~In(queue, Block("job", j)) /\ ~In(queue, Block("serve", j))
  BY <1>0, InJob, BlockType DEF Withdraw, JobSteps
<1>2. /\ pc = "withdraw" /\ pc' = "idle" /\ state' = "Ready" /\ Enqueue("close", j)
      /\ UNCHANGED <<kind, runtime, timer, closedEvents>>
      /\ result'[j] = "error" /\ \A k \in Jobs \ {j} : result'[k] = result[k]
  BY <1>0, <1>1 DEF Withdraw, ReturnToReady, LeaveBlock, Complete, TypeOK
<1>3. runtime[j] = "open" /\ kind[j] \in StreamKinds /\ kind[j] \notin ForwardKinds /\ ~In(queue, Block("hop", j))
  BY <1>1, <1>2 DEF LifeInv, OpenInv, RuntimeInv, StreamKinds, ForwardKinds
<1>4. \A k \in Jobs \ {j} : Spared(k)
  BY <1>0, <1>1, <1>2, OthersSpared DEF JobSteps
<1>5. /\ \A op \in {"job", "hop", "serve"} : In(queue', Block(op, j)) <=> In(queue, Block(op, j))
      /\ \A op \in {"job", "hop", "serve"} : Once(queue, Block(op, j)) => Once(queue', Block(op, j))
  BY <1>1, <1>2, Added, BlockIsBoth
<1>6. LifeInv(j)'
  BY <1>1, <1>2, <1>3, <1>5 DEF LifeInv, OpenInv, RuntimeInv, EventInv, Opening, Serving, JobSteps
<1>7. ~HoldsSession(j)'
  BY <1>2, Holding
<1>8. JobInv' /\ Nobody'
  BY <1>1, <1>4, <1>6, <1>7, OneLives DEF OwnershipInv, Nobody
<1> QED
  BY <1>2, <1>8 DEF Keeps, OwnerInv, RunningStates, ActiveStates, JobSteps

\* The delivered job is the owner of the session from here on.
LEMMA OwnedDelivery ==
    ASSUME OwnershipInv, ReturnJob
    PROVE  Keeps
<1>0. PICK j \in Jobs : j = self
  BY InJob DEF ReturnJob, JobSteps
<1>1. /\ TypeOK /\ Opening(j) /\ LifeInv(j) /\ Nobody /\ Block("serve", j) \in Blocks
      /\ ~In(queue, Block("job", j)) /\ ~In(queue, Block("serve", j))
      /\ state = RunningState[kind[j]] /\ state \in RunningStates
  BY <1>0, InJob, BlockType DEF ReturnJob, JobSteps
<1>2. /\ pc = "return" /\ pc' = "idle" /\ UNCHANGED <<state, kind, runtime, timer, closedEvents>>
      /\ IF kind[j] \in ForwardKinds THEN Enqueue("serve", j) ELSE UNCHANGED queue
      /\ result'[j] = "ok" /\ \A k \in Jobs \ {j} : result'[k] = result[k]
  BY <1>0, <1>1 DEF ReturnJob, LeaveBlock, Complete, TypeOK
<1>3. runtime[j] = "open" /\ ~In(queue, Block("hop", j))
  BY <1>1, <1>2 DEF LifeInv, OpenInv, RuntimeInv
<1>4. \A k \in Jobs \ {j} : Spared(k)
  BY <1>0, <1>1, <1>2, OthersSpared DEF JobSteps
<1>5. /\ \A op \in {"job", "read", "op", "close", "hop"} : In(queue', Block(op, j)) <=> In(queue, Block(op, j))
      /\ \A op \in {"job", "hop", "serve"} : Once(queue', Block(op, j))
      /\ In(queue', Block("serve", j)) => kind[j] \in ForwardKinds
  <2>1. \A op \in {"job", "hop", "serve"} : Once(queue, Block(op, j))
    BY <1>1 DEF LifeInv, OpenInv, RuntimeInv
  <2> QED
    BY <1>1, <1>2, <2>1, Added, BlockIsBoth
<1>6. LifeInv(j)'
  BY <1>1, <1>2, <1>3, <1>5 DEF LifeInv, OpenInv, RuntimeInv, EventInv, Opening, Serving, JobSteps
<1>7. JobInv' /\ Alone(j)'
  BY <1>1, <1>2, <1>3, <1>4, <1>6, OneLives, Holding DEF OwnershipInv, Nobody, Alone
<1> QED
  BY <1>1, <1>2, <1>7 DEF Keeps, OwnerInv, RunningStates, ActiveStates, JobSteps

LEMMA OwnedJob ==
    ASSUME OwnershipInv, JobStep
    PROVE  Keeps
<1>1. CASE FailOpen
  BY <1>1, OwnedReturn DEF FailOpen
<1>2. CASE ExecuteEnds
  BY <1>2, OwnedReturn DEF ExecuteEnds
<1>3. CASE ExecuteFails
  BY <1>3, OwnedReturn DEF ExecuteFails
<1> QED
  BY <1>1, <1>2, <1>3, OwnedRefusal, OwnedBegin, OwnedPublish, OwnedWithdraw, OwnedDelivery DEF JobStep

-----------------------------------------------------------------------------
(***************************************************************************)
(* The blocks of the worker: an open runtime.                              *)
(***************************************************************************)

\* A block is taken and nothing else is done to any job, except that a timer is armed.
LEMMA OwnedNothing ==
    ASSUME OwnershipInv, Harmless, NEW op \in {"read", "op", "close"}, AtHead(op), queue' = Tail(queue)
    PROVE  Keeps
<1>1. ASSUME NEW j \in Jobs PROVE Spared(j)
  BY HarmlessIsSame, TakenSpares DEF LifeOps
<1> QED
  BY <1>1, HarmlessIsSame, QuietKeeps

\* Ending a runtime passes the session from the open runtime to its hop.
LEMMA OwnedFinish ==
    ASSUME OwnershipInv, NEW op \in {"read", "op", "close"}, AtHead(op), runtime[HeadId] = "open",
           FinishRuntime(HeadId)
    PROVE  Keeps
<1>1. TypeOK /\ pc = "idle"
  BY DEF OwnershipInv, SessionInv, AtHead
<1>2. PICK j \in Jobs : j = HeadId /\ LifeInv(j)
  BY <1>1, QueueHead DEF AtHead, TypeOK, OwnershipInv, JobInv, LifeInv
<1>3. /\ queue' = Append(Tail(queue), Block("hop", j))
      /\ UNCHANGED <<pc, self, state, kind, result, timer, closedEvents>>
      /\ runtime[j] = "open" /\ runtime'[j] = "finished" /\ \A k \in Jobs \ {j} : runtime'[k] = runtime[k]
  BY <1>1, <1>2 DEF FinishRuntime, TypeOK
<1>4. /\ \A b : In(queue', b) => In(queue, b) \/ b = Block("hop", j)
      /\ In(queue', Block("hop", j))
      /\ \A b : b \notin {Block(op, j), Block("hop", j)} => (In(queue', b) <=> In(queue, b))
      /\ \A b : Once(queue, b) /\ (In(queue, b) => b # Block("hop", j)) => Once(queue', b)
  BY <1>1, <1>2, <1>3, Replaced
<1>5. In(queue, Block(op, j))
  <2>1. Head(queue) = Block(op, j) /\ queue \in Seq(Blocks) /\ queue # <<>>
    BY <1>1, <1>2, QueueHead, BlockIsBoth DEF AtHead, TypeOK, HeadId
  <2> QED
    BY <2>1, Dequeued
<1>6. ~In(queue, Block("hop", j)) /\ kind[j] \notin ForwardKinds /\ closedEvents[j] = 0
      /\ result[j] \notin {"none", "pending"}
  BY <1>1, <1>2, <1>3, <1>5 DEF LifeInv, OpenInv, RuntimeInv, EventInv, Opening, JobSteps, AtHead
<1>7. /\ \A o \in {"job", "serve"} : In(queue', Block(o, j)) <=> In(queue, Block(o, j))
      /\ \A o \in {"job", "hop", "serve"} : Once(queue, Block(o, j)) => Once(queue', Block(o, j))
  BY <1>4, <1>6, BlockIsBoth
<1>8. ASSUME NEW k \in Jobs \ {j} PROVE Spared(k)
  <2>1. LifeInv(k)
    BY DEF OwnershipInv, JobInv, LifeInv
  <2>2. Same(k)
    BY <1>3, <2>1 DEF Same, Opening, Serving, LifeInv, RuntimeInv
  <2>3. \A o : Block(o, k) \notin {Block(op, j), Block("hop", j)}
    BY BlockIsBoth
  <2>4. \A o : In(queue', Block(o, k)) <=> In(queue, Block(o, k))
    BY <1>4, <2>3
  <2>5. \A o : Once(queue, Block(o, k)) => Once(queue', Block(o, k))
    BY <1>4, <2>3
  <2> QED
    BY <2>1, <2>2, <2>4, <2>5 DEF Spared, KeepsQueue, LifeInv, RuntimeInv
<1>9. LifeInv(j)'
  BY <1>1, <1>2, <1>3, <1>6, <1>7 DEF LifeInv, OpenInv, RuntimeInv, EventInv, Opening, Serving
<1>10. HoldsSession(j)' <=> HoldsSession(j)
  BY <1>3, <1>4, Holding
<1>11. state \notin {"Idle", "Connecting"}
  BY <1>3 DEF OwnershipInv, OwnerInv
<1>12. OwnerInv'
  BY <1>1, <1>3, <1>8, <1>10, <1>11, <1>9, OneLives, OwnerStays DEF OwnershipInv
<1> QED
  BY <1>8, <1>9, <1>12, OneLives DEF OwnershipInv, Keeps

\* The hop gives the session back if its job holds it, and tells its stream.
LEMMA OwnedHop ==
    ASSUME OwnershipInv, Hop
    PROVE  Keeps
<1>1. TypeOK /\ AtHead("hop") /\ queue' = Tail(queue) /\ pc = "idle"
      /\ UNCHANGED <<pc, self, kind, result, runtime, timer>>
  BY DEF Hop, RunBlock, AtHead, OwnershipInv, SessionInv
<1>2. PICK j \in Jobs : j = HeadId /\ LifeInv(j)
  BY <1>1, QueueHead DEF AtHead, TypeOK, OwnershipInv, JobInv, LifeInv
<1> DEFINE silent == kind[j] \in StreamKinds /\ result[j] = "error"
<1>3. /\ state' = IF ~silent /\ state = RunningState[kind[j]] THEN "Ready" ELSE state
      /\ \A k \in Jobs \ {j} : closedEvents'[k] = closedEvents[k]
      /\ closedEvents'[j] = closedEvents[j] + (IF kind[j] \in StreamKinds /\ ~silent THEN 1 ELSE 0)
  BY <1>1, <1>2 DEF Hop, TypeOK
<1>4. /\ In(queue, Block("hop", j)) /\ ~In(queue', Block("hop", j))
      /\ \A op \in {"job", "read", "op", "close", "serve"} : In(queue', Block(op, j)) <=> In(queue, Block(op, j))
      /\ \A b : Once(queue, b) => Once(queue', b)
  BY <1>1, <1>2, Taken, BlockIsBoth DEF LifeInv, RuntimeInv
<1>5. runtime[j] = "finished" /\ closedEvents[j] = 0 /\ (result[j] = "ok" \/ silent)
  <2>1. runtime[j] = "finished" /\ ~Opening(j) /\ closedEvents[j] = 0
    BY <1>1, <1>2, <1>4 DEF LifeInv, RuntimeInv, EventInv, Opening, JobSteps
  <2>2. result[j] \in {"ok", "error"}
    BY <1>1, <1>2, <2>1 DEF LifeInv, OpenInv, TypeOK
  <2> QED
    BY <1>2, <2>1, <2>2 DEF LifeInv, OpenInv
<1>6. \A k \in Jobs \ {j} : Spared(k)
  BY <1>1, <1>2, <1>3, OthersSpared DEF JobSteps
<1>7. LifeInv(j)'
  BY <1>1, <1>2, <1>3, <1>4, <1>5 DEF LifeInv, OpenInv, RuntimeInv, EventInv, Opening, Serving
<1>8. JobInv' /\ ~HoldsSession(j)' /\ \A k \in Jobs \ {j} : HoldsSession(k)' <=> HoldsSession(k)
  BY <1>1, <1>4, <1>5, <1>6, <1>7, OneLives, Holding DEF OwnershipInv
<1>9. state \notin {"Idle", "Connecting"}
  BY <1>5 DEF OwnershipInv, OwnerInv
<1>10. CASE silent
  <2>1. ~HoldsSession(j) /\ state' = state
    BY <1>3, <1>10, Holding
  <2> QED
    BY <1>1, <1>8, <1>9, <2>1, OwnerStays DEF OwnershipInv, Keeps
<1>11. CASE ~silent
  <2>1. HoldsSession(j)
    BY <1>4, <1>5, <1>11, Holding
  <2>2. state # "Ready"
    BY <2>1 DEF OwnershipInv, OwnerInv, Nobody
  <2>3. state \in RunningStates => Alone(j) /\ state = RunningState[kind[j]]
    BY <1>1, <2>1 DEF OwnershipInv, OwnerInv, Alone
  <2>4. state \in RunningStates => state' = "Ready" /\ Nobody'
    BY <1>3, <1>8, <1>11, <2>3 DEF Alone, Nobody
  <2>5. state \notin RunningStates => state' = state
    BY <1>1, <1>3, RunningStateType DEF TypeOK
  <2>6. OwnerInv'
    BY <1>1, <1>9, <2>2, <2>4, <2>5 DEF OwnerInv, RunningStates, ActiveStates, JobSteps
  <2> QED
    BY <1>8, <2>6 DEF Keeps
<1> QED
  BY <1>10, <1>11

LEMMA OwnedServe ==
    ASSUME OwnershipInv, Serve
    PROVE  Keeps
<1>1. TypeOK /\ AtHead("serve") /\ queue' = Tail(queue) /\ pc = "idle" /\ pc' = "serving" /\ UNCHANGED state
      /\ UNCHANGED <<kind, result, runtime, timer, closedEvents>>
  BY DEF Serve, EnterBlock, AtHead, OwnershipInv, SessionInv, jobVars
<1>2. PICK j \in Jobs : j = HeadId /\ LifeInv(j)
  BY <1>1, QueueHead DEF AtHead, TypeOK, OwnershipInv, JobInv, LifeInv
<1>3. self' = j
  BY <1>2 DEF Serve, EnterBlock
<1>4. /\ In(queue, Block("serve", j)) /\ ~In(queue', Block("serve", j))
      /\ \A op \in {"job", "read", "op", "close", "hop"} : In(queue', Block(op, j)) <=> In(queue, Block(op, j))
      /\ \A b : Once(queue, b) => Once(queue', b)
  BY <1>1, <1>2, Taken, BlockIsBoth DEF LifeInv, RuntimeInv
<1>5. \A k \in Jobs \ {j} : Spared(k)
  BY <1>1, <1>2, <1>3, OthersSpared DEF JobSteps
<1>6. LifeInv(j)'
  BY <1>1, <1>2, <1>3, <1>4 DEF LifeInv, OpenInv, RuntimeInv, EventInv, Opening, Serving, JobSteps
<1>7. HoldsSession(j)' <=> HoldsSession(j)
  BY <1>1, <1>4, Holding
<1> QED
  BY <1>1, <1>5, <1>6, <1>7, OneLives, OwnerStays DEF OwnershipInv, Keeps

\* A forward that stops gives back the session, which nobody else holds while it serves.
LEMMA OwnedStop ==
    ASSUME OwnershipInv, StopServing
    PROVE  Keeps
<1>1. TypeOK /\ pc = "serving" /\ pc' = "idle" /\ UNCHANGED <<queue, kind, result, timer, closedEvents>>
      /\ state' = IF state = "RunningTunnel" THEN "Ready" ELSE state
  BY DEF StopServing, LeaveBlock, OwnershipInv, SessionInv
<1>2. PICK j \in Jobs : j = self /\ LifeInv(j) /\ Serving(j)
  BY <1>1 DEF TypeOK, JobSteps, StartSteps, OwnershipInv, JobInv, LifeInv, Serving
<1>3. runtime'[j] = "finished" /\ \A k \in Jobs \ {j} : runtime'[k] = runtime[k]
  BY <1>1, <1>2 DEF StopServing, TypeOK
<1>4. /\ runtime[j] = "open" /\ result[j] = "ok" /\ kind[j] \in ForwardKinds
      /\ ~In(queue, Block("serve", j)) /\ ~In(queue, Block("hop", j))
      /\ ~In(queue, Block("job", j))
  BY <1>2 DEF LifeInv, OpenInv, RuntimeInv
<1>5. \A k \in Jobs \ {j} : Spared(k)
  BY <1>1, <1>2, <1>3, OthersSpared DEF JobSteps
<1>6. LifeInv(j)'
  BY <1>1, <1>2, <1>3, <1>4 DEF LifeInv, OpenInv, RuntimeInv, EventInv, Opening, Serving, JobSteps
<1>7. JobInv' /\ ~HoldsSession(j)' /\ \A k \in Jobs \ {j} : HoldsSession(k)' <=> HoldsSession(k)
  BY <1>1, <1>3, <1>4, <1>5, <1>6, OneLives, Holding DEF OwnershipInv
<1>8. HoldsSession(j) /\ state \notin {"Idle", "Connecting"}
  BY <1>4, Holding DEF OwnershipInv, OwnerInv
<1>9. state # "Ready"
  BY <1>8 DEF OwnershipInv, OwnerInv, Nobody
<1>10. RunningState[kind[j]] = "RunningTunnel"
  BY <1>4 DEF RunningState, ForwardKinds, AllKinds
<1>11. state \in RunningStates => Alone(j) /\ state = "RunningTunnel"
  BY <1>1, <1>8, <1>10 DEF OwnershipInv, OwnerInv, Alone
<1>12. state \in RunningStates => state' = "Ready" /\ Nobody'
  BY <1>1, <1>7, <1>11 DEF Alone, Nobody
<1>13. state \notin RunningStates => state' = state
  BY <1>1 DEF RunningStates, ActiveStates
<1>14. OwnerInv'
  BY <1>1, <1>8, <1>9, <1>12, <1>13 DEF OwnerInv, RunningStates, ActiveStates, JobSteps
<1> QED
  BY <1>7, <1>14 DEF Keeps

LEMMA OwnedRuntime ==
    ASSUME OwnershipInv, RuntimeStep
    PROVE  Keeps
<1>1. TypeOK
  BY DEF OwnershipInv, SessionInv
<1>2. CASE ReadFinished \/ OpReturns \/ CloseFinished
  <2>1. Harmless /\ queue' = Tail(queue)
    BY <1>2 DEF ReadFinished, OpReturns, CloseFinished, NoEffect, RunBlock, jobVars, Harmless
  <2>2. AtHead("read") \/ AtHead("op") \/ AtHead("close")
    BY <1>2 DEF ReadFinished, OpReturns, CloseFinished
  <2> QED
    BY <2>1, <2>2, OwnedNothing
<1>3. CASE ReadMore
  <2>1. HeadId \in Jobs /\ In(queue, Block("read", HeadId))
    BY <1>1, <1>3, QueueHead, Taken DEF ReadMore, RunBlock, AtHead, TypeOK
  <2>2. kind[HeadId] \notin ForwardKinds
    BY <2>1 DEF OwnershipInv, JobInv, RuntimeInv
  <2>3. Harmless /\ AtHead("read") /\ queue' = Tail(queue)
    BY <1>1, <1>3, <2>1, <2>2 DEF ReadMore, RunBlock, Harmless, TypeOK
  <2> QED
    BY <2>3, OwnedNothing
<1>4. CASE ReadEnds
  BY <1>4, OwnedFinish DEF ReadEnds
<1>5. CASE OpEndsTunnel
  BY <1>5, OwnedFinish DEF OpEndsTunnel
<1>6. CASE CloseOpen
  BY <1>6, OwnedFinish DEF CloseOpen
<1> QED
  BY <1>2, <1>3, <1>4, <1>5, <1>6, OwnedHop, OwnedServe, OwnedStop DEF RuntimeStep

-----------------------------------------------------------------------------
(***************************************************************************)
(* The invariant.                                                          *)
(***************************************************************************)

LEMMA OwnershipInit == Init => OwnershipInv
<1> SUFFICES ASSUME Init PROVE OwnershipInv
  OBVIOUS
<1>1. SessionInv
  BY TypeCorrectInit, SessionInvInit DEF SessionInv
<1>2. queue = <<>> /\ Len(queue) = 0
  BY DEF Init
<1>3. \A b : ~In(queue, b) /\ Once(queue, b)
  BY <1>2 DEF In, Once
<1>4. JobInv
  BY <1>3 DEF Init, JobInv, OpenInv, RuntimeInv, EventInv, Opening, Serving, JobSteps
<1>5. OwnerInv
  BY DEF Init, OwnerInv, RunningStates, ActiveStates, JobSteps
<1> QED
  BY <1>1, <1>4, <1>5 DEF OwnershipInv

LEMMA OwnershipNext == OwnershipInv /\ [Next]_vars => OwnershipInv'
<1> SUFFICES ASSUME OwnershipInv, [Next]_vars PROVE Keeps
  BY SafeNext DEF OwnershipInv, Keeps
<1>1. CASE \E s \in Starts : CallStart(s)
  BY <1>1, OwnedCallStart
<1>2. CASE \E j \in Jobs : CallJob(j) \/ StartEventDelivery(j) \/ UserOp(j) \/ UserClose(j) \/ TimerFires(j)
  BY <1>2, OwnedCallJob, OwnedUse
<1>3. CASE WorkerStep
  BY <1>3, OwnedStart, OwnedJob, OwnedRuntime, OwnedCloserBlock DEF WorkerStep
<1>4. CASE \E c \in Closers : CallDisconnect(c) \/ CancelStep(c) \/ DeadlineExpires(c)
  BY <1>4, OwnedCancel
<1>5. CASE UNCHANGED vars
  BY <1>5, HarmlessKeeps DEF vars, workerVars, jobVars, Harmless
<1> QED
  BY <1>1, <1>2, <1>3, <1>4, <1>5 DEF Next

\* The inductive invariant: where the blocks of each job are, how far it has come, and
\* whose the session is.
THEOREM OwnershipInvariant == Spec => []OwnershipInv
BY OwnershipInit, OwnershipNext, PTL DEF Spec

\* Between two blocks the session belongs to nobody in Ready, and to exactly one job when the
\* state says Running: whatever closes, late reads, hops and disconnects of other jobs are
\* in the queue, none of them gives away a session that is not its own (the guards of the
\* onClosed and close handler blocks in SSHKitConnection.m).
THEOREM Ownership == Spec => []SessionOwnership
<1>1. OwnershipInv => SessionOwnership
  <2> SUFFICES ASSUME OwnershipInv, pc = "idle"
               PROVE  LET owners == {j \in Jobs : HoldsSession(j)}
                      IN  /\ state = "Ready" => owners = {}
                          /\ state \in RunningStates =>
                                \E j \in Jobs : owners = {j} /\ state = RunningState[kind[j]]
    BY DEF SessionOwnership
  <2>1. \A j \in Jobs : Alone(j) => {k \in Jobs : HoldsSession(k)} = {j}
    BY DEF Alone
  <2> QED
    BY <2>1 DEF OwnershipInv, OwnerInv, Nobody
<1> QED
  BY <1>1, OwnershipInvariant, PTL

\* The handler of a stream hears Closed at most once, however many closes, reads and hops
\* of it are in the queue together, and never before its channel is gone.
THEOREM EventOnce == Spec => []ClosedEventOnce
<1>1. OwnershipInv => ClosedEventOnce
  BY DEF OwnershipInv, JobInv, EventInv, ClosedEventOnce
<1> QED
  BY <1>1, OwnershipInvariant, PTL

-----------------------------------------------------------------------------
(***************************************************************************)
(* A disconnect frees the session only when no runtime is open on it,      *)
(* however many disconnects there are and whatever they interrupt, as long *)
(* as callers keep to the order of the API: jobs are called after their    *)
(* connect returned and before any disconnect, and no disconnect is called *)
(* in the middle of an open.                                               *)
(***************************************************************************)

Discipline == OrderedCalls /\ RacingKinds \subseteq {"execute"}

\* What the discipline gives: a disconnect finds no open in its way, so none is withdrawn.
CallsInv ==
    /\ taskCancelled => DisconnectCalled
    /\ DisconnectCalled => \A j \in Jobs : result[j] = "pending" => kind[j] = "execute"
    /\ pc # "withdraw" /\ \A j \in Jobs : result[j] = "error" => runtime[j] # "open"

\* The one open runtime is the current task.
TaskInv == \A j \in Jobs : runtime[j] = "open" => currentTask = j

\* A forward that is open will be served, and its serving ends it.
ServedInv ==
    \A j \in Jobs : runtime[j] = "open" /\ kind[j] \in ForwardKinds =>
        Opening(j) \/ Serving(j) \/ In(queue, Block("serve", j))

\* Where a disconnect is that has been past the current task: only then it has blocks of its own.
PastTask == {"shutdown", "poll", "polling", "lastPolling", "teardown", "closing", "done"}
BlocksInv ==
    /\ \A c \in Closers, op \in {"poll", "teardown"} : In(queue, Block(op, c)) => closer[c].pc \in PastTask
    /\ pc = "teardown" => closer[self].pc \in PastTask

\* It has seen to the close of whatever is still open.
CloserInv ==
    \A c \in Closers, j \in Jobs : runtime[j] = "open" =>
        /\ closer[c].pc = "closeTask" => closer[c].task = j
        /\ closer[c].pc \in PastTask /\ kind[j] \notin ForwardKinds => In(queue, Block("close", j))

\* Of the jobs in O, one of the two blocks that end them lies before every teardown.
Order(q, O) ==
    \A j \in O, k \in 1..Len(q) : q[k].op = "teardown" =>
        \E i \in 1..Len(q) : i < k /\ q[i] \in {Block("close", j), Block("serve", j)}

NoTeardown(q) == \A k \in 1..Len(q) : q[k].op # "teardown"

Unserved == {j \in Jobs : runtime[j] = "open" /\ ~Serving(j)}

OrderInv ==
    /\ Order(queue, Unserved)
    /\ ~DisconnectCalled => NoTeardown(queue)

FreedInv == pc = "teardown" \/ session = "freed" => \A j \in Jobs : runtime[j] # "open"

TeardownInv == CallsInv /\ TaskInv /\ ServedInv /\ CloserInv /\ OrderInv /\ FreedInv

-----------------------------------------------------------------------------
(***************************************************************************)
(* The order of the queue.                                                 *)
(***************************************************************************)

LEMMA OrderAppended ==
    ASSUME NEW q \in Seq(Blocks), NEW b \in Blocks, NEW O, NEW P, P \subseteq O, Order(q, O),
           b.op = "teardown" => \A j \in P : In(q, Block("close", j)) \/ In(q, Block("serve", j))
    PROVE  Order(Append(q, b), P)
<1> DEFINE r == Append(q, b)
<1>1. Len(q) \in Nat /\ Len(r) = Len(q) + 1 /\ r[Len(q) + 1] = b /\ \A i \in 1..Len(q) : r[i] = q[i]
  OBVIOUS
<1> HIDE DEF r
<1> SUFFICES ASSUME NEW j \in P, NEW k \in 1..Len(r), r[k].op = "teardown"
             PROVE  \E i \in 1..Len(r) : i < k /\ r[i] \in {Block("close", j), Block("serve", j)}
  BY DEF Order, r
<1>2. CASE k = Len(q) + 1
  <2>1. PICK i \in 1..Len(q) : q[i] \in {Block("close", j), Block("serve", j)}
    BY <1>1, <1>2 DEF In
  <2> QED
    BY <1>1, <1>2, <2>1
<1>3. CASE k # Len(q) + 1
  <2>1. k \in 1..Len(q) /\ q[k].op = "teardown"
    BY <1>1, <1>3
  <2>2. PICK i \in 1..Len(q) : i < k /\ q[i] \in {Block("close", j), Block("serve", j)}
    BY <2>1 DEF Order
  <2> QED
    BY <1>1, <2>2
<1> QED
  BY <1>2, <1>3

LEMMA OrderTaken ==
    ASSUME NEW q \in Seq(Blocks), q # <<>>, NEW O, NEW P, P \subseteq O, Order(q, O),
           \A j \in P : Head(q) \notin {Block("close", j), Block("serve", j)}
    PROVE  Order(Tail(q), P)
<1> DEFINE r == Tail(q)
<1>1. Len(q) \in Nat /\ Len(q) >= 1 /\ Len(r) = Len(q) - 1 /\ \A i \in 1..Len(r) : r[i] = q[i + 1]
  OBVIOUS
<1>2. Head(q) = q[1]
  OBVIOUS
<1> HIDE DEF r
<1> SUFFICES ASSUME NEW j \in P, NEW k \in 1..Len(r), r[k].op = "teardown"
             PROVE  \E i \in 1..Len(r) : i < k /\ r[i] \in {Block("close", j), Block("serve", j)}
  BY DEF Order, r
<1>3. k + 1 \in 1..Len(q) /\ q[k + 1].op = "teardown"
  BY <1>1
<1>4. PICK i \in 1..Len(q) : i < k + 1 /\ q[i] \in {Block("close", j), Block("serve", j)}
  BY <1>3 DEF Order
<1>5. i # 1
  BY <1>2, <1>4
<1>6. i - 1 \in 1..Len(r) /\ r[i - 1] = q[i] /\ i - 1 < k
  BY <1>1, <1>4, <1>5
<1> QED
  BY <1>4, <1>6

\* A teardown at the head of the queue: nothing is left to be ended.
LEMMA OrderAtHead ==
    ASSUME NEW q \in Seq(Blocks), q # <<>>, NEW O, Order(q, O), Head(q).op = "teardown"
    PROVE  O = {}
<1>1. 1 \in 1..Len(q) /\ q[1].op = "teardown"
  OBVIOUS
<1>2. \A j \in O : \E i \in 1..Len(q) : i < 1
  BY <1>1 DEF Order
<1> QED
  BY <1>2

LEMMA TeardownsAppended ==
    ASSUME NEW q \in Seq(Blocks), NEW b \in Blocks
    PROVE  NoTeardown(Append(q, b)) <=> NoTeardown(q) /\ b.op # "teardown"
<1> DEFINE r == Append(q, b)
<1>1. Len(q) \in Nat /\ Len(r) = Len(q) + 1 /\ r[Len(q) + 1] = b /\ \A i \in 1..Len(q) : r[i] = q[i]
  OBVIOUS
<1> HIDE DEF r
<1>2. NoTeardown(r) <=> NoTeardown(q) /\ b.op # "teardown"
  BY <1>1 DEF NoTeardown
<1> QED
  BY <1>2 DEF r

LEMMA TeardownsTaken ==
    ASSUME NEW q \in Seq(Blocks), q # <<>>, NoTeardown(q)
    PROVE  NoTeardown(Tail(q))
<1>1. \A i \in 1..Len(Tail(q)) : i + 1 \in 1..Len(q) /\ Tail(q)[i] = q[i + 1]
  OBVIOUS
<1> QED
  BY <1>1 DEF NoTeardown

-----------------------------------------------------------------------------
(***************************************************************************)
(* A step that opens nothing.                                              *)
(***************************************************************************)

NothingOpens ==
    /\ \A j \in Jobs : runtime'[j] = "open" => runtime[j] = "open" /\ (Serving(j) => Serving(j)')
    /\ UNCHANGED kind
    /\ DisconnectCalled => DisconnectCalled'

\* What is still open keeps the blocks that end it, in their order.
KeepsEnds ==
    /\ \A j \in Jobs : runtime'[j] = "open" =>
          /\ In(queue, Block("close", j)) => In(queue', Block("close", j))
          /\ In(queue, Block("serve", j)) => In(queue', Block("serve", j)) \/ Serving(j)'
    /\ OrderInv'

LEMMA FewerUnserved == NothingOpens => Unserved' \subseteq Unserved
BY DEF NothingOpens, Unserved

LEMMA SameQueue ==
    ASSUME TeardownInv, NothingOpens, UNCHANGED queue
    PROVE  KeepsEnds
<1>1. Order(queue, Unserved')
  BY FewerUnserved DEF TeardownInv, OrderInv, Order
<1> QED
  BY <1>1 DEF TeardownInv, OrderInv, KeepsEnds, NothingOpens

LEMMA GrownQueue ==
    ASSUME TypeOK, TeardownInv, NothingOpens, NEW op, NEW x, Block(op, x) \in Blocks, Enqueue(op, x),
           op # "teardown"
    PROVE  KeepsEnds
<1>1. queue \in Seq(Blocks) /\ queue' = Append(queue, Block(op, x)) /\ Block(op, x).op # "teardown"
  BY DEF TypeOK, Enqueue, Block
<1>2. Order(queue', Unserved')
  BY <1>1, FewerUnserved, OrderAppended DEF TeardownInv, OrderInv
<1>3. NoTeardown(queue) => NoTeardown(queue')
  BY <1>1, TeardownsAppended
<1>4. \A b : In(queue, b) => In(queue', b)
  BY Added
<1> QED
  BY <1>2, <1>3, <1>4 DEF TeardownInv, OrderInv, KeepsEnds, NothingOpens

\* A teardown is queued by a disconnect that has seen to whatever is still open.
LEMMA GrownByTeardown ==
    ASSUME OwnershipInv, TeardownInv, NothingOpens, NEW c \in Closers, Enqueue("teardown", c),
           closer[c].pc = "teardown"
    PROVE  KeepsEnds
<1>1. /\ TypeOK /\ queue \in Seq(Blocks) /\ queue' = Append(queue, Block("teardown", c))
      /\ Block("teardown", c) \in Blocks
  BY BlockType DEF OwnershipInv, SessionInv, TypeOK, Enqueue
<1>2. DisconnectCalled
  BY DEF DisconnectCalled
<1>3. ASSUME NEW j \in Unserved' PROVE In(queue, Block("close", j)) \/ In(queue, Block("serve", j))
  <2>1. j \in Jobs /\ runtime[j] = "open" /\ ~Serving(j)
    BY <1>3, FewerUnserved DEF Unserved
  <2>2. CASE kind[j] \notin ForwardKinds
    BY <2>1, <2>2 DEF TeardownInv, CloserInv, PastTask
  <2>3. CASE kind[j] \in ForwardKinds
    <3>1. ~Opening(j)
      BY <1>2, <2>1, <2>3 DEF TeardownInv, CallsInv, OwnershipInv, JobInv, OpenInv, ForwardKinds
    <3> QED
      BY <2>1, <2>3, <3>1 DEF TeardownInv, ServedInv
  <2> QED
    BY <2>2, <2>3
<1>4. Order(queue', Unserved')
  BY <1>1, <1>3, FewerUnserved, OrderAppended DEF TeardownInv, OrderInv
<1>5. \A b : In(queue, b) => In(queue', b)
  BY <1>1, Added
<1> QED
  BY <1>2, <1>4, <1>5 DEF OrderInv, KeepsEnds, NothingOpens

LEMMA ShrunkQueue ==
    ASSUME TypeOK, TeardownInv, NothingOpens, NEW op, AtHead(op), queue' = Tail(queue),
           op \in {"close", "serve"} =>
             runtime'[HeadId] # "open" \/ (op = "serve" /\ pc' = "serving" /\ self' = HeadId)
    PROVE  KeepsEnds
<1>1. queue \in Seq(Blocks) /\ queue # <<>> /\ Head(queue) = Block(op, HeadId)
  BY QueueHead, BlockIsBoth DEF TypeOK, AtHead, HeadId
<1>2. \A j \in Unserved' : Head(queue) \notin {Block("close", j), Block("serve", j)}
  BY <1>1, BlockIsBoth DEF Unserved, Serving
<1>3. Order(queue', Unserved')
  BY <1>1, <1>2, FewerUnserved, OrderTaken DEF TeardownInv, OrderInv
<1>4. NoTeardown(queue) => NoTeardown(queue')
  BY <1>1, TeardownsTaken
<1>5. \A b : b # Block(op, HeadId) => (In(queue', b) <=> In(queue, b))
  BY Taken
<1>6. ASSUME NEW j \in Jobs, runtime'[j] = "open"
      PROVE  /\ In(queue, Block("close", j)) => In(queue', Block("close", j))
             /\ In(queue, Block("serve", j)) => In(queue', Block("serve", j)) \/ Serving(j)'
  BY <1>5, <1>6, BlockIsBoth DEF Serving
<1> QED
  BY <1>3, <1>4, <1>6 DEF TeardownInv, OrderInv, KeepsEnds, NothingOpens

LEMMA HoppedQueue ==
    ASSUME TypeOK, TeardownInv, NothingOpens, NEW op \in {"read", "op", "close"}, AtHead(op),
           queue' = Append(Tail(queue), Block("hop", HeadId)), runtime'[HeadId] # "open"
    PROVE  KeepsEnds
<1> DEFINE q == Tail(queue)
<1>1. /\ queue \in Seq(Blocks) /\ queue # <<>> /\ Head(queue) = Block(op, HeadId) /\ HeadId \in Jobs
      /\ q \in Seq(Blocks)
  BY QueueHead, BlockIsBoth DEF TypeOK, AtHead, HeadId
<1>2. Block("hop", HeadId) \in Blocks /\ Block("hop", HeadId).op # "teardown"
  BY <1>1, BlockType DEF Block
<1>3. \A j \in Unserved' : Head(queue) \notin {Block("close", j), Block("serve", j)}
  BY <1>1, BlockIsBoth DEF Unserved
<1>4. Order(q, Unserved')
  BY <1>1, <1>3, FewerUnserved, OrderTaken DEF TeardownInv, OrderInv
<1>5. NoTeardown(queue) => NoTeardown(q)
  BY <1>1, TeardownsTaken
<1>6. \A b : b \notin {Block(op, HeadId), Block("hop", HeadId)} => (In(queue', b) <=> In(queue, b))
  BY Replaced
<1>7. Order(queue', Unserved') /\ (NoTeardown(queue) => NoTeardown(queue'))
  <2> HIDE DEF q
  <2>1. queue' = Append(q, Block("hop", HeadId))
    BY DEF q
  <2>2. Order(queue', Unserved')
    BY <1>1, <1>2, <1>4, <2>1, OrderAppended
  <2>3. NoTeardown(q) => NoTeardown(queue')
    BY <1>1, <1>2, <2>1, TeardownsAppended
  <2> QED
    BY <1>5, <2>2, <2>3
<1>8. ASSUME NEW j \in Jobs, runtime'[j] = "open"
      PROVE  /\ In(queue, Block("close", j)) => In(queue', Block("close", j))
             /\ In(queue, Block("serve", j)) => In(queue', Block("serve", j))
  BY <1>6, <1>8, BlockIsBoth
<1> QED
  BY <1>7, <1>8 DEF TeardownInv, OrderInv, KeepsEnds, NothingOpens

\* What is left to show of such a step.
Rest ==
    /\ CallsInv'
    /\ \A j \in Jobs : runtime'[j] = "open" =>
          /\ currentTask' = currentTask
          /\ kind[j] \in ForwardKinds /\ Opening(j) => Opening(j)' \/ In(queue', Block("serve", j))
          /\ \A c \in Closers :
                /\ closer'[c].pc = "closeTask" => closer'[c].task = j
                /\ closer'[c].pc \in PastTask /\ kind[j] \notin ForwardKinds =>
                      closer[c].pc \in PastTask \/ In(queue', Block("close", j))
          /\ pc' = "teardown" => pc = "teardown"
          /\ session' = "freed" => session = "freed"

LEMMA Assembled ==
    ASSUME TeardownInv, NothingOpens, KeepsEnds, Rest
    PROVE  TeardownInv'
<1>1. TaskInv'
  BY DEF TeardownInv, TaskInv, NothingOpens, Rest
<1>2. ServedInv'
  BY DEF TeardownInv, ServedInv, NothingOpens, KeepsEnds, Rest
<1>3. CloserInv'
  BY DEF TeardownInv, CloserInv, NothingOpens, KeepsEnds, Rest
<1>4. FreedInv'
  BY DEF TeardownInv, FreedInv, NothingOpens, Rest
<1> QED
  BY <1>1, <1>2, <1>3, <1>4 DEF TeardownInv, KeepsEnds, Rest

\* The same, when no disconnect takes a step either.
LEMMA AssembledWorker ==
    ASSUME TeardownInv, NothingOpens, KeepsEnds, CallsInv', UNCHANGED <<currentTask, session, closer, pc, self>>
    PROVE  TeardownInv'
<1>1. \A j \in Jobs : Opening(j) => Opening(j)'
  BY DEF Opening
<1>2. Rest
  BY <1>1 DEF Rest, TeardownInv, CloserInv, NothingOpens
<1> QED
  BY <1>2, Assembled

-----------------------------------------------------------------------------
(***************************************************************************)
(* The calls.                                                              *)
(***************************************************************************)

\* Nothing but a call of the application makes a job pending, and only an open that was
\* made makes its runtime open.
LEMMA CallsKept ==
    ASSUME CallsInv, UNCHANGED kind, taskCancelled' => taskCancelled, DisconnectCalled <=> DisconnectCalled',
           pc' # "withdraw",
           \A j \in Jobs : /\ result'[j] = "pending" => result[j] = "pending"
                           /\ result'[j] = "error" => runtime'[j] # "open"
    PROVE  CallsInv'
BY DEF CallsInv

LEMMA DownApplication ==
    ASSUME Discipline, OwnershipInv, TeardownInv,
           \/ \E s \in Starts : CallStart(s)
           \/ \E j \in Jobs : CallJob(j) \/ StartEventDelivery(j) \/ UserOp(j) \/ UserClose(j) \/ TimerFires(j)
    PROVE  TeardownInv'
<1>1. TypeOK
  BY DEF OwnershipInv, SessionInv
<1>2. /\ UNCHANGED <<kind, runtime, currentTask, taskCancelled, session, closer, pc, self>>
      /\ NothingOpens
  BY DEF CallStart, CallJob, StartEventDelivery, UserOp, UserClose, TimerFires, workerVars, lockVars,
     NothingOpens, Serving, DisconnectCalled
<1>3. KeepsEnds
  <2>1. CASE \E s \in Starts : CallStart(s)
    BY <1>1, <1>2, <2>1, BlockType, GrownQueue DEF CallStart
  <2>2. ASSUME NEW j \in Jobs, CallJob(j) PROVE KeepsEnds
    BY <1>1, <1>2, <2>2, BlockType, GrownQueue DEF CallJob
  <2>3. ASSUME NEW j \in Jobs, StartEventDelivery(j) PROVE KeepsEnds
    BY <1>1, <1>2, <2>3, BlockType, GrownQueue DEF StartEventDelivery
  <2>4. ASSUME NEW j \in Jobs, UserOp(j) PROVE KeepsEnds
    BY <1>1, <1>2, <2>4, BlockType, GrownQueue DEF UserOp
  <2>5. ASSUME NEW j \in Jobs, UserClose(j) PROVE KeepsEnds
    BY <1>1, <1>2, <2>5, BlockType, GrownQueue, SameQueue DEF UserClose, CloseRuntime
  <2>6. ASSUME NEW j \in Jobs, TimerFires(j) PROVE KeepsEnds
    BY <1>1, <1>2, <2>6, BlockType, GrownQueue DEF TimerFires
  <2> QED
    BY <2>1, <2>2, <2>3, <2>4, <2>5, <2>6
<1>4. CallsInv'
  <2>1. CASE \E s \in Starts : CallStart(s)
    <3>1. \A j \in Jobs : result'[j] = result[j]
      BY <1>1, <2>1, StartIsNoJob DEF CallStart
    <3> QED
      BY <1>2, <3>1 DEF TeardownInv, CallsInv, DisconnectCalled
  <2>2. ASSUME NEW j \in Jobs, CallJob(j) PROVE CallsInv'
    <3>1. ~DisconnectCalled
      BY <2>2 DEF CallJob, Discipline, DisconnectCalled
    <3>2. \A k \in Jobs : result'[k] = "error" => result[k] = "error"
      BY <1>1, <2>2 DEF CallJob, Complete, TypeOK
    <3> QED
      BY <1>2, <3>1, <3>2 DEF TeardownInv, CallsInv, DisconnectCalled
  <2>3. ASSUME UNCHANGED result PROVE CallsInv'
    BY <1>2, <2>3 DEF TeardownInv, CallsInv, DisconnectCalled
  <2> QED
    BY <2>1, <2>2, <2>3 DEF StartEventDelivery, UserOp, UserClose, TimerFires
<1> QED
  BY <1>2, <1>3, <1>4, AssembledWorker

\* The disconnect calls themselves.
LEMMA DownCancel ==
    ASSUME Discipline, OwnershipInv, TeardownInv, NEW c \in Closers,
           CallDisconnect(c) \/ CancelStep(c) \/ DeadlineExpires(c)
    PROVE  TeardownInv'
<1>1. /\ TypeOK /\ Block("poll", c) \in Blocks
      /\ \A j \in Jobs : Block("close", j) \in Blocks
  BY BlockType DEF OwnershipInv, SessionInv
<1>2. /\ UNCHANGED <<kind, result, runtime, currentTask, session, pc, self>>
      /\ \A d \in Closers \ {c} : closer'[d] = closer[d]
      /\ closer'[c].pc # "idle"
  BY <1>1 DEF CallDisconnect, CancelStep, DeadlineExpires, CancelSnapshot, CancelLock, CancelCloseTask,
     CancelShutdown, Poll, QueueTeardown, workerVars, lockVars, jobVars, TypeOK, CloserRecords
<1>3. DisconnectCalled'
  BY <1>2 DEF DisconnectCalled
<1>4. NothingOpens
  BY <1>2, <1>3 DEF NothingOpens, Serving
<1>5. KeepsEnds
  <2>1. CASE CancelCloseTask(c)
    <3>1. closer[c].task \in Jobs
      BY <1>1, <2>1 DEF CancelCloseTask, TypeOK
    <3> QED
      BY <1>1, <1>4, <2>1, <3>1, GrownQueue, SameQueue DEF CancelCloseTask, CloseRuntime
  <2>2. CASE Poll(c)
    BY <1>1, <1>4, <2>2, GrownQueue DEF Poll
  <2>3. CASE QueueTeardown(c)
    BY <1>4, <2>3, GrownByTeardown DEF QueueTeardown
  <2>4. CASE UNCHANGED queue
    BY <1>4, <2>4, SameQueue
  <2> QED
    BY <2>1, <2>2, <2>3, <2>4 DEF CancelStep, CallDisconnect, DeadlineExpires, CancelSnapshot, CancelLock, CancelShutdown
<1>6. CallsInv'
  <2>1. \A j \in Jobs : result'[j] = "pending" => kind[j] = "execute"
    <3>1. CASE CallDisconnect(c)
      BY <1>2, <3>1 DEF CallDisconnect, Discipline
    <3>2. CASE ~CallDisconnect(c)
      <4>1. closer[c].pc # "idle"
        BY <3>2 DEF CancelStep, DeadlineExpires, CancelSnapshot, CancelLock, CancelCloseTask, CancelShutdown,
           Poll, QueueTeardown
      <4> QED
        BY <1>2, <4>1 DEF TeardownInv, CallsInv, DisconnectCalled
    <3> QED
      BY <3>1, <3>2
  <2> QED
    BY <1>2, <1>3, <2>1 DEF TeardownInv, CallsInv
<1>7. ASSUME NEW j \in Jobs, runtime'[j] = "open"
      PROVE  /\ closer'[c].pc = "closeTask" => closer'[c].task = j
             /\ closer'[c].pc \in PastTask /\ kind[j] \notin ForwardKinds =>
                   closer[c].pc \in PastTask \/ In(queue', Block("close", j))
  <2>1. currentTask = j /\ currentTask # NoTask
    BY <1>2, <1>7, ConnectionAssumption DEF TeardownInv, TaskInv, ConnectionAssumption
  <2>2. CASE CancelLock(c)
    BY <1>1, <2>1, <2>2 DEF CancelLock, TypeOK, CloserRecords, PastTask
  <2>3. CASE CancelCloseTask(c)
    <3>1. closer[c].task = j /\ closer'[c].pc = "shutdown"
      BY <1>1, <1>2, <1>7, <2>3 DEF CancelCloseTask, TeardownInv, CloserInv, TypeOK
    <3>2. kind[j] \notin ForwardKinds => In(queue', Block("close", j))
      BY <1>1, <2>3, <3>1, Added DEF CancelCloseTask, CloseRuntime
    <3> QED
      BY <3>1, <3>2
  <2>4. CASE DeadlineExpires(c)
    BY <1>1, <2>4 DEF DeadlineExpires, TypeOK, CloserRecords, PastTask
  <2>5. CASE CallDisconnect(c) \/ CancelSnapshot(c) \/ CancelShutdown(c) \/ Poll(c) \/ QueueTeardown(c)
    BY <1>1, <2>5 DEF CallDisconnect, CancelSnapshot, CancelShutdown, Poll, QueueTeardown, TypeOK,
       CloserRecords, PastTask
  <2> QED
    BY <2>2, <2>3, <2>4, <2>5 DEF CancelStep
<1>8. Rest
  <2>1. ASSUME NEW j \in Jobs, runtime'[j] = "open", NEW d \in Closers
        PROVE  /\ closer'[d].pc = "closeTask" => closer'[d].task = j
               /\ closer'[d].pc \in PastTask /\ kind[j] \notin ForwardKinds =>
                     closer[d].pc \in PastTask \/ In(queue', Block("close", j))
    BY <1>2, <1>7, <2>1 DEF TeardownInv, CloserInv
  <2>2. \A j \in Jobs : Opening(j) => Opening(j)'
    BY <1>2 DEF Opening
  <2> QED
    BY <1>2, <1>6, <2>1, <2>2 DEF Rest
<1> QED
  BY <1>4, <1>5, <1>8, Assembled

-----------------------------------------------------------------------------
(***************************************************************************)
(* The blocks of the worker.                                               *)
(***************************************************************************)

\* While a start runs no runtime has been opened.
LEMMA NoneOpen ==
    ASSUME TypeOK, TeardownInv, UNCHANGED <<kind, runtime, closer>>, \A j \in Jobs : runtime[j] = "none",
           CallsInv', KeepsEnds
    PROVE  TeardownInv'
BY DEF TeardownInv, TaskInv, ServedInv, CloserInv, FreedInv, KeepsEnds

LEMMA DownStart ==
    ASSUME OwnershipInv, TeardownInv, StartStep
    PROVE  TeardownInv'
<1>1. TypeOK /\ StateOfBlock
  BY DEF OwnershipInv, SessionInv
<1>2. UNCHANGED <<kind, runtime, closer>>
  BY DEF StartStep, RefuseStart, BeginStart, OpenSocket, SocketConnected, SocketRefused, AttachFails, PublishSession,
     AbandonSession, FinishConnect, FinishDiscovery, GiveUp, jobVars
<1>3. pc \in StartSteps \/ AtHead("start")
  BY DEF StartStep, RefuseStart, BeginStart, OpenSocket, SocketConnected, SocketRefused, AttachFails, PublishSession,
     AbandonSession, FinishConnect, FinishDiscovery, GiveUp, StartSteps
<1>4. NothingOpens
  BY <1>2, <1>3 DEF NothingOpens, Serving, DisconnectCalled, StartSteps, AtHead
<1>5. KeepsEnds
  <2>1. CASE RefuseStart
    BY <1>1, <1>4, <2>1, ShrunkQueue DEF RefuseStart, RunBlock
  <2>2. CASE BeginStart
    BY <1>1, <1>4, <2>2, ShrunkQueue DEF BeginStart, EnterBlock
  <2>3. CASE UNCHANGED queue
    BY <1>4, <2>3, SameQueue
  <2> QED
    BY <2>1, <2>2, <2>3 DEF StartStep, OpenSocket, SocketConnected, SocketRefused, AttachFails, PublishSession,
       AbandonSession, FinishConnect, FinishDiscovery, GiveUp
<1>6. \A j \in Jobs : result'[j] = result[j]
  <2>1. CASE RefuseStart
    <3>1. HeadId \in Starts
      BY <1>1, <2>1, QueueHead DEF RefuseStart, AtHead, TypeOK
    <3> QED
      BY <1>1, <2>1, <3>1, StartIsNoJob DEF RefuseStart
  <2>2. CASE FinishConnect \/ FinishDiscovery \/ GiveUp
    <3>1. self \in Starts /\ \E outcome \in {"ok", "error"} : Complete(self, outcome)
      BY <1>1, <2>2 DEF FinishConnect, FinishDiscovery, GiveUp, TypeOK, StartSteps, JobSteps
    <3> QED
      BY <1>1, <3>1, StartIsNoJob
  <2>3. CASE UNCHANGED result
    BY <2>3
  <2> QED
    BY <2>1, <2>2, <2>3 DEF StartStep, BeginStart, OpenSocket, SocketConnected, SocketRefused, AttachFails,
       PublishSession, AbandonSession, jobVars
<1>7. pc' # "withdraw" /\ (taskCancelled' => taskCancelled)
  BY DEF StartStep, RefuseStart, BeginStart, OpenSocket, SocketConnected, SocketRefused, AttachFails, PublishSession,
     AbandonSession, FinishConnect, FinishDiscovery, GiveUp, RunBlock, EnterBlock, GoTo, LeaveBlock, AtHead,
     ClearSession, CloseSession, ClearCurrentTask, lockVars
<1>8. CallsInv'
  <2>1. \A j \in Jobs : result'[j] = "error" => runtime'[j] # "open"
    BY <1>2, <1>6 DEF TeardownInv, CallsInv
  <2> QED
    BY <1>2, <1>6, <1>7, <2>1, CallsKept DEF TeardownInv, DisconnectCalled
<1>9. CASE RefuseStart
  <2>1. UNCHANGED <<currentTask, session, closer, pc, self>>
    BY <1>9 DEF RefuseStart, RunBlock, lockVars
  <2> QED
    BY <1>4, <1>5, <1>8, <2>1, AssembledWorker
<1>10. CASE ~RefuseStart
  <2>1. state \in {"Idle", "Connecting"}
    BY <1>1, <1>3, <1>10 DEF StartStep, BeginStart, StateOfBlock, StartSteps, OpenSocket, SocketConnected,
       SocketRefused, AttachFails, PublishSession, AbandonSession, FinishConnect, FinishDiscovery, GiveUp
  <2>2. \A j \in Jobs : runtime[j] = "none"
    BY <2>1 DEF OwnershipInv, OwnerInv
  <2> QED
    BY <1>1, <1>2, <1>5, <1>8, <2>2, NoneOpen
<1> QED
  BY <1>9, <1>10

\* A job is opened only where no disconnect has been called and no other runtime is open.
LEMMA DownPublish ==
    ASSUME OwnershipInv, TeardownInv, PublishRuntime
    PROVE  TeardownInv'
<1>0. PICK j \in Jobs : j = self
  BY InJob DEF PublishRuntime, JobSteps
<1>1. pc = "open" /\ UNCHANGED <<self, queue, kind, result, session, taskCancelled, closer>>
  BY DEF PublishRuntime, GoTo
<1>2. /\ TypeOK /\ Opening(j) /\ LifeInv(j) /\ Nobody /\ result[j] = "pending" /\ state \in RunningStates
  BY <1>0, <1>1, InJob DEF JobSteps
<1>3. kind[j] # "execute"
  BY <1>1, <1>2 DEF LifeInv, OpenInv
<1>4. ~DisconnectCalled /\ ~taskCancelled
  BY <1>2, <1>3 DEF TeardownInv, CallsInv
<1>5. pc' = "return" /\ currentTask' = j /\ runtime' = [runtime EXCEPT ![j] = "open"]
  BY <1>0, <1>4 DEF PublishRuntime, GoTo
<1>6. ASSUME NEW k \in Jobs, k # j PROVE runtime'[k] # "open"
  <2>1. ~HoldsSession(k) /\ ~Opening(k)
    BY <1>0, <1>2, <1>6 DEF Nobody, Opening
  <2>2. result[k] \in {"none", "pending", "ok", "error"} /\ runtime'[k] = runtime[k]
    BY <1>2, <1>5, <1>6 DEF TypeOK
  <2> QED
    BY <2>1, <2>2, Holding DEF TeardownInv, CallsInv, OwnershipInv, JobInv, OpenInv
<1>7. CallsInv'
  BY <1>1, <1>2, <1>4, <1>5, <1>6 DEF TeardownInv, CallsInv, DisconnectCalled
<1>8. TaskInv'
  BY <1>5, <1>6 DEF TaskInv
<1>9. ServedInv'
  BY <1>0, <1>1, <1>5, <1>6 DEF ServedInv, Opening, JobSteps
<1>10. CloserInv'
  BY <1>1, <1>4 DEF CloserInv, DisconnectCalled, PastTask
<1>11. OrderInv'
  BY <1>1, <1>4 DEF TeardownInv, OrderInv, Order, NoTeardown, DisconnectCalled
<1>12. FreedInv'
  BY <1>1, <1>2, <1>5 DEF FreedInv, OwnershipInv, SessionInv, HoldingsOfState
<1> QED
  BY <1>7, <1>8, <1>9, <1>10, <1>11, <1>12 DEF TeardownInv

LEMMA DownJob ==
    ASSUME OwnershipInv, TeardownInv, JobStep
    PROVE  TeardownInv'
<1>1. TypeOK
  BY DEF OwnershipInv, SessionInv
<1>2. CASE PublishRuntime
  BY <1>2, DownPublish
<1>3. CASE Withdraw
  BY <1>3 DEF Withdraw, TeardownInv, CallsInv
<1>4. CASE RefuseJob
  <2>1. UNCHANGED <<kind, runtime, currentTask, taskCancelled, session, closer, pc, self>>
    BY <1>4 DEF RefuseJob, RunBlock, lockVars
  <2>2. PICK j \in Jobs : j = HeadId
    BY <1>1, <1>4, QueueHead DEF RefuseJob, AtHead, TypeOK
  <2>3. runtime[j] = "none" /\ result' = [result EXCEPT ![j] = "error"] /\ pc = "idle"
    BY <1>1, <1>4, <2>2, Taken DEF RefuseJob, RunBlock, Complete, AtHead, OwnershipInv, JobInv, OpenInv, Opening,
       JobSteps
  <2>4. CallsInv'
    <3>1. \A k \in Jobs : /\ result'[k] = "pending" => result[k] = "pending"
                          /\ result'[k] = "error" => runtime'[k] # "open"
      BY <1>1, <2>1, <2>3 DEF TypeOK, TeardownInv, CallsInv
    <3> QED
      BY <2>1, <2>3, <3>1, CallsKept DEF TeardownInv, DisconnectCalled
  <2>5. NothingOpens
    BY <2>1 DEF NothingOpens, Serving, DisconnectCalled
  <2>6. KeepsEnds
    BY <1>1, <1>4, <2>5, ShrunkQueue DEF RefuseJob, RunBlock
  <2> QED
    BY <2>1, <2>4, <2>5, <2>6, AssembledWorker
<1>5. CASE BeginJob
  <2>1. /\ UNCHANGED <<kind, result, runtime, currentTask, taskCancelled, session, closer>>
        /\ pc = "idle" /\ pc' \in {"execute", "open"}
    BY <1>5 DEF BeginJob, EnterBlock, AtHead, lockVars, jobVars
  <2>2. NothingOpens
    BY <2>1 DEF NothingOpens, Serving, DisconnectCalled
  <2>3. KeepsEnds
    BY <1>1, <1>5, <2>2, ShrunkQueue DEF BeginJob, EnterBlock
  <2>4. CallsInv'
    BY <2>1 DEF TeardownInv, CallsInv, DisconnectCalled
  <2>5. Rest
    BY <2>1, <2>4 DEF Rest, Opening, JobSteps, TeardownInv, CloserInv
  <2> QED
    BY <2>2, <2>3, <2>5, Assembled
<1>6. CASE FailOpen \/ ExecuteEnds \/ ExecuteFails
  <2>1. PICK j \in Jobs : j = self
    BY <1>6, InJob DEF FailOpen, ExecuteEnds, ExecuteFails, JobSteps
  <2>2. /\ UNCHANGED <<queue, kind, runtime, currentTask, taskCancelled, session, closer>>
        /\ pc \in {"open", "execute"} /\ pc' = "idle"
        /\ \E outcome \in {"ok", "error"} : result' = [result EXCEPT ![j] = outcome]
    BY <1>6, <2>1 DEF FailOpen, ExecuteEnds, ExecuteFails, ReturnToReady, LeaveBlock, Complete, lockVars
  <2>3. runtime[j] = "none"
    BY <2>1, <2>2, InJob DEF LifeInv, OpenInv, JobSteps
  <2>4. NothingOpens
    BY <2>2 DEF NothingOpens, Serving, DisconnectCalled
  <2>5. KeepsEnds
    BY <2>2, <2>4, SameQueue
  <2>6. CallsInv'
    <3>1. \A k \in Jobs : /\ result'[k] = "pending" => result[k] = "pending"
                          /\ result'[k] = "error" => runtime'[k] # "open"
      BY <1>1, <2>2, <2>3 DEF TypeOK, TeardownInv, CallsInv
    <3> QED
      BY <2>2, <3>1, CallsKept DEF TeardownInv, DisconnectCalled
  <2>7. \A k \in Jobs : runtime[k] = "open" => ~Opening(k)
    BY <2>1, <2>3 DEF Opening
  <2>8. Rest
    BY <2>2, <2>4, <2>6, <2>7 DEF Rest, NothingOpens, TeardownInv, CloserInv
  <2> QED
    BY <2>4, <2>5, <2>8, Assembled
<1>7. CASE ReturnJob
  <2>1. PICK j \in Jobs : j = self
    BY <1>7, InJob DEF ReturnJob, JobSteps
  <2>2. /\ UNCHANGED <<kind, runtime, currentTask, taskCancelled, session, closer>>
        /\ pc = "return" /\ pc' = "idle" /\ result' = [result EXCEPT ![j] = "ok"]
        /\ IF kind[j] \in ForwardKinds THEN Enqueue("serve", j) ELSE UNCHANGED queue
    BY <1>7, <2>1 DEF ReturnJob, LeaveBlock, Complete, lockVars
  <2>3. NothingOpens /\ Block("serve", j) \in Blocks
    BY <2>2, BlockType DEF NothingOpens, Serving, DisconnectCalled
  <2>4. KeepsEnds
    BY <1>1, <2>2, <2>3, SameQueue, GrownQueue
  <2>5. CallsInv'
    <3>1. \A k \in Jobs : /\ result'[k] = "pending" => result[k] = "pending"
                          /\ result'[k] = "error" => runtime'[k] # "open"
      BY <1>1, <2>2 DEF TypeOK, TeardownInv, CallsInv
    <3> QED
      BY <2>2, <3>1, CallsKept DEF TeardownInv, DisconnectCalled
  <2>6. \A k \in Jobs : kind[k] \in ForwardKinds /\ Opening(k) => In(queue', Block("serve", k))
    BY <1>1, <2>1, <2>2, <2>3, Added DEF Opening
  <2>7. Rest
    BY <2>2, <2>3, <2>5, <2>6 DEF Rest, NothingOpens, TeardownInv, CloserInv
  <2> QED
    BY <2>3, <2>4, <2>7, Assembled
<1> QED
  BY <1>2, <1>3, <1>4, <1>5, <1>6, <1>7 DEF JobStep

\* Ending the current task leaves nothing open.
LEMMA NoneLeft ==
    ASSUME TeardownInv, NEW j \in Jobs, runtime[j] = "open", runtime' = [runtime EXCEPT ![j] = "finished"],
           TypeOK, UNCHANGED <<kind, result, closer>>, taskCancelled' = FALSE, pc' = "idle", KeepsEnds
    PROVE  TeardownInv'
<1>1. \A k \in Jobs : runtime'[k] # "open"
  BY DEF TeardownInv, TaskInv, TypeOK
<1>2. CallsInv'
  BY <1>1 DEF TeardownInv, CallsInv, DisconnectCalled
<1> QED
  BY <1>1, <1>2 DEF TeardownInv, TaskInv, ServedInv, CloserInv, FreedInv, KeepsEnds

LEMMA DownFinish ==
    ASSUME OwnershipInv, TeardownInv, NEW op \in {"read", "op", "close"}, AtHead(op),
           runtime[HeadId] = "open", FinishRuntime(HeadId)
    PROVE  TeardownInv'
<1>1. TypeOK
  BY DEF OwnershipInv, SessionInv
<1>2. PICK j \in Jobs : j = HeadId
  BY <1>1, QueueHead DEF AtHead, TypeOK
<1>3. /\ queue' = Append(Tail(queue), Block("hop", HeadId)) /\ runtime' = [runtime EXCEPT ![j] = "finished"]
      /\ UNCHANGED <<pc, self, kind, result, closer>> /\ taskCancelled' = FALSE /\ pc = "idle"
  BY <1>2 DEF FinishRuntime, ClearCurrentTask, AtHead
<1>4. NothingOpens /\ runtime'[j] # "open"
  BY <1>1, <1>3 DEF NothingOpens, Serving, DisconnectCalled, TypeOK
<1>5. KeepsEnds
  BY <1>1, <1>2, <1>3, <1>4, HoppedQueue
<1> QED
  BY <1>1, <1>2, <1>3, <1>5, NoneLeft

LEMMA DownRuntime ==
    ASSUME OwnershipInv, TeardownInv, RuntimeStep
    PROVE  TeardownInv'
<1>1. TypeOK
  BY DEF OwnershipInv, SessionInv
<1>2. CASE ReadFinished \/ ReadMore \/ OpReturns \/ CloseFinished \/ Hop
  <2>1. /\ UNCHANGED <<kind, result, runtime, currentTask, taskCancelled, session, closer, pc, self>>
        /\ queue' = Tail(queue)
        /\ AtHead("read") \/ AtHead("op") \/ AtHead("hop") \/ (AtHead("close") /\ runtime'[HeadId] # "open")
    BY <1>2 DEF ReadFinished, ReadMore, OpReturns, CloseFinished, Hop, NoEffect, RunBlock, lockVars, jobVars
  <2>2. NothingOpens
    BY <2>1 DEF NothingOpens, Serving, DisconnectCalled
  <2>3. KeepsEnds
    BY <1>1, <2>1, <2>2, ShrunkQueue
  <2>4. CallsInv'
    BY <2>1 DEF TeardownInv, CallsInv, DisconnectCalled
  <2> QED
    BY <2>1, <2>2, <2>3, <2>4, AssembledWorker
<1>3. CASE ReadEnds
  BY <1>3, DownFinish DEF ReadEnds
<1>4. CASE OpEndsTunnel
  BY <1>4, DownFinish DEF OpEndsTunnel
<1>5. CASE CloseOpen
  BY <1>5, DownFinish DEF CloseOpen
<1>6. CASE Serve
  <2>1. /\ UNCHANGED <<kind, result, runtime, currentTask, taskCancelled, session, closer>>
        /\ queue' = Tail(queue) /\ pc = "idle" /\ pc' = "serving" /\ self' = HeadId
    BY <1>6 DEF Serve, EnterBlock, AtHead, lockVars, jobVars
  <2>2. NothingOpens
    BY <2>1 DEF NothingOpens, Serving, DisconnectCalled
  <2>3. KeepsEnds
    BY <1>1, <1>6, <2>1, <2>2, ShrunkQueue DEF Serve
  <2>4. CallsInv'
    BY <2>1 DEF TeardownInv, CallsInv, DisconnectCalled
  <2>5. Rest
    BY <2>1, <2>4 DEF Rest, Opening, JobSteps, TeardownInv, CloserInv
  <2> QED
    BY <2>2, <2>3, <2>5, Assembled
<1>7. CASE StopServing
  <2>1. PICK j \in Jobs : j = self
    BY <1>1, <1>7 DEF StopServing, TypeOK, JobSteps, StartSteps
  <2>2. /\ UNCHANGED <<queue, kind, result, closer>> /\ taskCancelled' = FALSE /\ pc = "serving" /\ pc' = "idle"
        /\ runtime' = [runtime EXCEPT ![j] = "finished"]
    BY <1>7, <2>1 DEF StopServing, LeaveBlock, ClearCurrentTask
  <2>3. runtime[j] = "open"
    BY <2>1, <2>2 DEF OwnershipInv, JobInv, RuntimeInv, Serving
  <2>4. NothingOpens
    BY <1>1, <2>1, <2>2 DEF NothingOpens, Serving, DisconnectCalled, TypeOK
  <2>5. KeepsEnds
    BY <2>2, <2>4, SameQueue
  <2> QED
    BY <1>1, <2>2, <2>3, <2>5, NoneLeft
<1> QED
  BY <1>2, <1>3, <1>4, <1>5, <1>6, <1>7 DEF RuntimeStep

\* The teardown finds nothing open: the blocks that end it were before it in the queue.
LEMMA DownCloserBlock ==
    ASSUME OwnershipInv, BlocksInv, TeardownInv, CloserBlock
    PROVE  TeardownInv'
<1>1. TypeOK
  BY DEF OwnershipInv, SessionInv
<1>2. CASE PollBlock
  <2>1. PICK c \in Closers : c = HeadId /\ closer[c].pc \in PastTask
    BY <1>1, <1>2, QueueHead, Taken DEF PollBlock, RunBlock, AtHead, TypeOK, BlocksInv
  <2>2. /\ UNCHANGED <<kind, result, runtime, currentTask, taskCancelled, session, pc, self>>
        /\ queue' = Tail(queue) /\ closer'[c].pc \in {"poll", "teardown"}
        /\ \A d \in Closers \ {c} : closer'[d] = closer[d]
    BY <1>1, <1>2, <2>1 DEF PollBlock, RunBlock, lockVars, jobVars, TypeOK, CloserRecords
  <2>3. DisconnectCalled /\ DisconnectCalled'
    BY <2>1, <2>2 DEF DisconnectCalled, PastTask
  <2>4. NothingOpens
    BY <2>2, <2>3 DEF NothingOpens, Serving
  <2>5. KeepsEnds
    BY <1>1, <1>2, <2>2, <2>4, ShrunkQueue DEF PollBlock
  <2>6. CallsInv'
    BY <2>2, <2>3 DEF TeardownInv, CallsInv
  <2>7. \A d \in Closers : /\ closer'[d].pc = "closeTask" => closer'[d] = closer[d]
                           /\ closer'[d].pc \in PastTask => closer[d].pc \in PastTask
    BY <2>1, <2>2
  <2>8. \A j \in Jobs : Opening(j) => Opening(j)'
    BY <2>2 DEF Opening
  <2>9. Rest
    BY <2>2, <2>4, <2>6, <2>7, <2>8 DEF Rest, NothingOpens, TeardownInv, CloserInv
  <2> QED
    BY <2>4, <2>5, <2>9, Assembled
<1>3. CASE BeginTeardown
  <2>1. /\ UNCHANGED <<kind, result, runtime, currentTask, taskCancelled, session, closer>>
        /\ queue' = Tail(queue) /\ pc = "idle" /\ pc' = "teardown"
    BY <1>3 DEF BeginTeardown, EnterBlock, AtHead, lockVars, jobVars
  <2>2. queue \in Seq(Blocks) /\ queue # <<>> /\ Head(queue).op = "teardown"
    BY <1>1, <1>3 DEF BeginTeardown, AtHead, TypeOK
  <2>3. Unserved = {}
    BY <2>2, OrderAtHead DEF TeardownInv, OrderInv
  <2>4. \A j \in Jobs : runtime'[j] # "open"
    BY <2>1, <2>3 DEF Unserved, Serving
  <2>5. NothingOpens
    BY <2>1, <2>4 DEF NothingOpens, DisconnectCalled
  <2>6. KeepsEnds
    BY <1>1, <1>3, <2>1, <2>5, ShrunkQueue DEF BeginTeardown
  <2>7. CallsInv'
    BY <2>1 DEF TeardownInv, CallsInv, DisconnectCalled
  <2> QED
    BY <2>4, <2>5, <2>6, <2>7, Assembled DEF Rest
<1>4. CASE FinishTeardown
  <2>1. /\ UNCHANGED <<queue, kind, result, runtime>> /\ pc = "teardown" /\ pc' = "idle" /\ taskCancelled' = FALSE
        /\ closer' = [closer EXCEPT ![self].pc = "done"]
    BY <1>4 DEF FinishTeardown, CloseSession, ClearCurrentTask, LeaveBlock, jobVars
  <2>2. self \in Closers /\ closer[self].pc # "idle"
    BY <1>1, <2>1 DEF TypeOK, StartSteps, JobSteps, BlocksInv, PastTask
  <2>3. DisconnectCalled /\ DisconnectCalled'
    BY <1>1, <2>1, <2>2 DEF DisconnectCalled, TypeOK, CloserRecords
  <2>4. \A j \in Jobs : runtime'[j] # "open"
    BY <2>1 DEF TeardownInv, FreedInv
  <2>5. NothingOpens
    BY <2>1, <2>3, <2>4 DEF NothingOpens
  <2>6. KeepsEnds
    BY <2>1, <2>5, SameQueue
  <2>7. CallsInv'
    BY <2>1, <2>3, <2>4 DEF TeardownInv, CallsInv
  <2> QED
    BY <2>4, <2>5, <2>6, <2>7, Assembled DEF Rest
<1> QED
  BY <1>2, <1>3, <1>4 DEF CloserBlock

-----------------------------------------------------------------------------
(***************************************************************************)
(* The blocks of a disconnect.                                             *)
(***************************************************************************)

\* A step that adds no block of a disconnect and begins no teardown.
LEMMA BlocksKept ==
    ASSUME BlocksInv, \A c \in Closers : closer[c].pc \in PastTask => closer'[c].pc \in PastTask,
           \A c \in Closers, op \in {"poll", "teardown"} :
               In(queue', Block(op, c)) => In(queue, Block(op, c)) \/ closer'[c].pc \in PastTask,
           pc' = "teardown" => (pc = "teardown" /\ UNCHANGED self) \/ In(queue, Block("teardown", self')),
           TypeOK'
    PROVE  BlocksInv'
<1>1. pc' = "teardown" => self' \in Closers
  BY DEF TypeOK, StartSteps, JobSteps
<1> QED
  BY <1>1 DEF BlocksInv

LEMMA BlocksNext ==
    ASSUME TypeOK, TypeOK', BlocksInv, [Next]_vars
    PROVE  BlocksInv'
<1> DEFINE Fewer == \A c \in Closers, op \in {"poll", "teardown"} :
                       In(queue', Block(op, c)) => In(queue, Block(op, c))
<1>1. ASSUME NEW op, NEW x, Block(op, x) \in Blocks, Enqueue(op, x), op \notin {"poll", "teardown"} PROVE Fewer
  BY <1>1, Added, BlockIsBoth
<1>2. ASSUME NEW op, AtHead(op), queue' = Tail(queue) PROVE Fewer
  BY <1>2, Taken
<1>3. ASSUME UNCHANGED queue PROVE Fewer
  BY <1>3
<1>4. CASE \E s \in Starts : CallStart(s)
  BY <1>1, <1>4, BlockType, BlocksKept DEF CallStart, workerVars
<1>5. ASSUME NEW j \in Jobs, CallJob(j) \/ StartEventDelivery(j) \/ UserOp(j) \/ UserClose(j) \/ TimerFires(j)
      PROVE  BlocksInv'
  <2>1. UNCHANGED <<pc, self, closer>>
    BY <1>5 DEF CallJob, StartEventDelivery, UserOp, UserClose, TimerFires, workerVars
  <2>2. Fewer
    BY <1>1, <1>3, <1>5, BlockType DEF CallJob, StartEventDelivery, UserOp, UserClose, CloseRuntime, TimerFires
  <2> QED
    BY <2>1, <2>2, BlocksKept
<1>6. CASE StartStep \/ JobStep
  <2>1. UNCHANGED closer /\ (pc' = "teardown" => pc = "teardown" /\ UNCHANGED self)
    BY <1>6 DEF StartStep, RefuseStart, BeginStart, OpenSocket, SocketConnected, SocketRefused, AttachFails,
       PublishSession, AbandonSession, FinishConnect, FinishDiscovery, GiveUp, JobStep, RefuseJob, BeginJob, FailOpen,
       PublishRuntime, Withdraw, ReturnJob, ExecuteEnds, ExecuteFails, ReturnToReady, RunBlock, EnterBlock, GoTo,
       LeaveBlock
  <2>2. CASE RefuseStart \/ BeginStart \/ RefuseJob \/ BeginJob
    BY <1>2, <2>1, <2>2, BlocksKept DEF RefuseStart, BeginStart, RefuseJob, BeginJob, RunBlock, EnterBlock
  <2>3. CASE Withdraw \/ ReturnJob
    <3>1. self \in Jobs
      BY <2>3 DEF Withdraw, ReturnJob, TypeOK, JobSteps, StartSteps
    <3>2. Fewer
      BY <1>1, <1>3, <2>3, <3>1, BlockType DEF Withdraw, ReturnJob
    <3> QED
      BY <2>1, <3>2, BlocksKept
  <2>4. CASE UNCHANGED queue
    BY <1>3, <2>1, <2>4, BlocksKept
  <2> QED
    BY <1>6, <2>2, <2>3, <2>4 DEF StartStep, OpenSocket, SocketConnected, SocketRefused, AttachFails,
       PublishSession, AbandonSession, FinishConnect, FinishDiscovery, GiveUp, JobStep, FailOpen, PublishRuntime,
       ExecuteEnds, ExecuteFails
<1>7. CASE RuntimeStep
  <2>1. UNCHANGED closer /\ (pc' = "teardown" => pc = "teardown" /\ UNCHANGED self)
    BY <1>7 DEF RuntimeStep, ReadFinished, ReadMore, ReadEnds, OpReturns, OpEndsTunnel, CloseFinished, CloseOpen, Hop,
       Serve, StopServing, NoEffect, FinishRuntime, RunBlock, EnterBlock, LeaveBlock
  <2>2. CASE ReadEnds \/ OpEndsTunnel \/ CloseOpen
    <3>1. PICK op \in {"read", "op", "close"} : AtHead(op)
      BY <2>2 DEF ReadEnds, OpEndsTunnel, CloseOpen
    <3>2. queue' = Append(Tail(queue), Block("hop", HeadId))
      BY <2>2 DEF ReadEnds, OpEndsTunnel, CloseOpen, FinishRuntime
    <3>3. Fewer
      BY <3>1, <3>2, Replaced, BlockIsBoth
    <3> QED
      BY <2>1, <3>3, BlocksKept
  <2>3. CASE ReadFinished \/ ReadMore \/ OpReturns \/ CloseFinished \/ Hop \/ Serve
    <3>1. queue' = Tail(queue) /\ \E op : AtHead(op)
      BY <2>3 DEF ReadFinished, ReadMore, OpReturns, CloseFinished, Hop, Serve, NoEffect, RunBlock, EnterBlock
    <3> QED
      BY <1>2, <2>1, <3>1, BlocksKept
  <2>4. CASE StopServing
    BY <1>3, <2>1, <2>4, BlocksKept DEF StopServing
  <2> QED
    BY <1>7, <2>2, <2>3, <2>4 DEF RuntimeStep
<1>8. CASE CloserBlock
  <2>1. CASE PollBlock
    <3>1. UNCHANGED <<pc, self>> /\ \A c \in Closers : closer[c].pc \in PastTask => closer'[c].pc \in PastTask
      BY <2>1 DEF PollBlock, RunBlock, PastTask, TypeOK, CloserRecords
    <3> QED
      BY <1>2, <2>1, <3>1, BlocksKept DEF PollBlock, RunBlock
  <2>2. CASE BeginTeardown
    <3>1. UNCHANGED closer /\ self' = HeadId /\ In(queue, Block("teardown", HeadId))
      BY <2>2, Taken DEF BeginTeardown, EnterBlock
    <3> QED
      BY <1>2, <2>2, <3>1, BlocksKept DEF BeginTeardown, EnterBlock
  <2>3. CASE FinishTeardown
    <3>1. pc' = "idle" /\ \A c \in Closers : closer[c].pc \in PastTask => closer'[c].pc \in PastTask
      BY <2>3 DEF FinishTeardown, LeaveBlock, PastTask, TypeOK, CloserRecords
    <3> QED
      BY <1>3, <2>3, <3>1, BlocksKept DEF FinishTeardown
  <2> QED
    BY <1>8, <2>1, <2>2, <2>3 DEF CloserBlock
<1>9. ASSUME NEW c \in Closers, CallDisconnect(c) \/ CancelStep(c) \/ DeadlineExpires(c) PROVE BlocksInv'
  <2>1. UNCHANGED <<pc, self>> /\ \A d \in Closers : closer[d].pc \in PastTask => closer'[d].pc \in PastTask
    <3> USE DEF workerVars, PastTask
    <3>1. closer \in [Closers -> CloserRecords]
      BY DEF TypeOK
    <3>2. CASE CallDisconnect(c)
      BY <3>1, <3>2 DEF CallDisconnect, CloserRecords
    <3>3. CASE CancelSnapshot(c)
      BY <3>1, <3>3 DEF CancelSnapshot, CloserRecords
    <3>4. CASE CancelLock(c)
      BY <3>1, <3>4 DEF CancelLock, CloserRecords
    <3>5. CASE CancelCloseTask(c)
      BY <3>1, <3>5 DEF CancelCloseTask, CloserRecords
    <3>6. CASE CancelShutdown(c)
      BY <3>1, <3>6 DEF CancelShutdown, CloserRecords
    <3>7. CASE Poll(c)
      BY <3>1, <3>7 DEF Poll, CloserRecords
    <3>8. CASE QueueTeardown(c)
      BY <3>1, <3>8 DEF QueueTeardown, CloserRecords
    <3>9. CASE DeadlineExpires(c)
      BY <3>1, <3>9 DEF DeadlineExpires, CloserRecords
    <3> QED
      BY <1>9, <3>2, <3>3, <3>4, <3>5, <3>6, <3>7, <3>8, <3>9 DEF CancelStep
  <2>2. CASE Poll(c) \/ QueueTeardown(c)
    <3>1. closer[c].pc \in PastTask /\ Block("poll", c) \in Blocks /\ Block("teardown", c) \in Blocks
      BY <2>2, BlockType DEF Poll, QueueTeardown, PastTask
    <3>2. Enqueue("poll", c) \/ Enqueue("teardown", c)
      BY <2>2 DEF Poll, QueueTeardown
    <3>3. \A d \in Closers, op \in {"poll", "teardown"} :
             In(queue', Block(op, d)) => In(queue, Block(op, d)) \/ d = c
      BY <3>1, <3>2, Added, BlockIsBoth
    <3> QED
      BY <2>1, <3>1, <3>3, BlocksKept
  <2>3. CASE CancelCloseTask(c)
    <3>1. closer[c].task \in Jobs
      BY <2>3 DEF CancelCloseTask, TypeOK
    <3>2. Fewer
      BY <1>1, <1>3, <2>3, <3>1, BlockType DEF CancelCloseTask, CloseRuntime
    <3> QED
      BY <2>1, <3>2, BlocksKept
  <2>4. CASE UNCHANGED queue
    BY <1>3, <2>1, <2>4, BlocksKept
  <2> QED
    BY <1>9, <2>2, <2>3, <2>4 DEF CancelStep, CallDisconnect, DeadlineExpires, CancelSnapshot, CancelLock,
       CancelShutdown
<1>10. CASE UNCHANGED vars
  BY <1>3, <1>10, BlocksKept DEF vars, workerVars
<1> QED
  BY <1>4, <1>5, <1>6, <1>7, <1>8, <1>9, <1>10 DEF Next, WorkerStep

-----------------------------------------------------------------------------
(***************************************************************************)
(* The invariant.                                                          *)
(***************************************************************************)

LEMMA TeardownInit == Init => BlocksInv /\ TeardownInv
<1> SUFFICES ASSUME Init PROVE BlocksInv /\ TeardownInv
  OBVIOUS
<1>1. queue = <<>> /\ Len(queue) = 0 /\ pc = "idle" /\ \A j \in Jobs : runtime[j] = "none"
  BY DEF Init
<1>2. /\ taskCancelled = FALSE /\ session = "null"
      /\ \A j \in Jobs : result[j] = "none"
      /\ \A c \in Closers : closer[c].pc = "idle"
  BY DEF Init
<1> QED
  BY <1>1, <1>2 DEF BlocksInv, TeardownInv, CallsInv, TaskInv, ServedInv, CloserInv, OrderInv, Order, NoTeardown,
     FreedInv, In, DisconnectCalled

LEMMA TeardownNext ==
    ASSUME Discipline, OwnershipInv, BlocksInv, TeardownInv, [Next]_vars
    PROVE  TeardownInv'
<1>1. CASE \/ \E s \in Starts : CallStart(s)
           \/ \E j \in Jobs : CallJob(j) \/ StartEventDelivery(j) \/ UserOp(j) \/ UserClose(j) \/ TimerFires(j)
  BY <1>1, DownApplication
<1>2. CASE WorkerStep
  BY <1>2, DownStart, DownJob, DownRuntime, DownCloserBlock DEF WorkerStep
<1>3. CASE \E c \in Closers : CallDisconnect(c) \/ CancelStep(c) \/ DeadlineExpires(c)
  BY <1>3, DownCancel
<1>4. CASE UNCHANGED vars
  <2>1. NothingOpens
    BY <1>4 DEF vars, workerVars, jobVars, NothingOpens, Serving, DisconnectCalled
  <2>2. KeepsEnds
    BY <1>4, <2>1, SameQueue DEF vars
  <2>3. CallsInv'
    BY <1>4 DEF vars, workerVars, lockVars, jobVars, TeardownInv, CallsInv, DisconnectCalled
  <2> QED
    BY <1>4, <2>1, <2>2, <2>3, AssembledWorker DEF vars, workerVars, lockVars
<1> QED
  BY <1>1, <1>2, <1>3, <1>4 DEF Next

\* Under the order of the API, no runtime is open on a session that has been freed: every
\* disconnect queues its teardown behind the block that ends what is open, whether that is
\* the close it queued itself or the serving of a forward (closeSession, which leaves the
\* runtimes alone, in SSHCoreOpenSSHClient.m; disconnectWithCompletion: in SSHKitConnection.m).
THEOREM NothingDangles ==
    ASSUME Discipline
    PROVE  Spec => []NoDanglingRuntime
<1> DEFINE Inv == OwnershipInv /\ BlocksInv /\ TeardownInv
<1>1. Init => Inv
  BY OwnershipInit, TeardownInit
<1>2. Inv /\ [Next]_vars => Inv'
  <2>1. OwnershipInv => TypeOK
    BY DEF OwnershipInv, SessionInv
  <2> QED
    BY <2>1, OwnershipNext, TypeCorrectNext, BlocksNext, TeardownNext
<1>3. Inv => NoDanglingRuntime
  BY DEF TeardownInv, FreedInv, NoDanglingRuntime
<1> QED
  BY <1>1, <1>2, <1>3, PTL DEF Spec

=============================================================================
