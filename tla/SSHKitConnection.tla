-------------------------- MODULE SSHKitConnection --------------------------
(***************************************************************************)
(* One SSHKitConnection with the two objects it owns, the                  *)
(* SSHCoreSessionWorker (a serial dispatch queue and a session state) and  *)
(* the SSHCoreOpenSSHClient (the libssh session, the current task and the  *)
(* cancellation flag, all three under taskLock).                           *)
(*                                                                         *)
(* Two kinds of thread take steps.  The worker runs the blocks of its      *)
(* queue one at a time; a block is cut into several actions only where it  *)
(* blocks in the system or in libssh, or where another thread can see how  *)
(* far it got.  Every disconnect call runs on a thread of its own, cancels *)
(* the current task without going through the queue, polls the state, and  *)
(* at last queues the teardown block.                                      *)
(***************************************************************************)
EXTENDS Naturals, Sequences, FiniteSets

CONSTANTS
    Starts,       \* calls of connect and of the two discoveries
    Jobs,         \* calls that run a command or open a shell, SFTP, tunnel, forward
    Closers,      \* calls of disconnect
    StartKinds,   \* which calls a start may be: "connect", "discover"
    Kinds,        \* which calls a job may be, see AllKinds
    OrderedCalls, \* jobs are called after their connect returned, before any disconnect
    RacingKinds,  \* kinds of job that a disconnect may be called in the middle of
    Route,        \* "direct", "proxy" (SOCKS5, HTTP CONNECT), or "proxyJump": libssh's sockets
    MaxSockets,   \* how many addresses the route's host resolves to
    NoTask        \* the nil of currentTask

StreamKinds  == {"command", "shell"}
ForwardKinds == {"localForward", "remoteForward"}
QueuedKinds  == StreamKinds \cup {"sftp", "tunnel"}  \* closed by a block of the queue
AllKinds     == {"execute"} \cup QueuedKinds \cup ForwardKinds

ASSUME ConnectionAssumption ==
    /\ Jobs \cap Starts = {}
    /\ NoTask \notin Starts \cup Jobs \cup Closers
    /\ StartKinds \subseteq {"connect", "discover"}
    /\ Kinds \subseteq AllKinds /\ RacingKinds \subseteq AllKinds
    /\ OrderedCalls \in BOOLEAN
    /\ Route \in {"direct", "proxy", "proxyJump"}
    /\ MaxSockets \in Nat

VARIABLES
    queue,          \* the blocks the worker has yet to run, oldest first
    pc,             \* where the running block is, "idle" between two blocks
    self,           \* the call the running block serves
    state,          \* SSHCoreSessionWorker.mutableState
    session,        \* the client's ssh_session: "null", "set", or "freed"
    currentTask,    \* the job whose runtime a disconnect would close
    taskCancelled,
    socketHandle,   \* the worker's socket handle, 0 when nil
    sockets,        \* sockets created so far; handles are numbered by it
    sock,           \* the socket of the current handle
    kind,           \* what each start and job was called for
    result,         \* what its caller was told
    runtime,        \* the runtime object of each job and its channel
    timer,          \* the 50 ms timer a streaming runtime arms between reads
    asked,          \* what the holder of a job's object has asked of it
    forwardClosed,  \* the closed flag of a forward runtime
    closedEvents,   \* Closed events delivered to the handler of a streaming job
    closer          \* the local variables of each disconnect call

lockVars   == <<session, currentTask, taskCancelled>>
sockVars   == <<socketHandle, sockets, sock>>
jobVars    == <<kind, result, runtime, timer, asked, forwardClosed, closedEvents>>
workerVars == <<pc, self, state>>
vars == <<queue, workerVars, lockVars, sockVars, jobVars, closer>>

ActiveStates == {"Connecting", "RunningCommand", "RunningShell", "RunningSFTP", "RunningTunnel"}
RunningStates == ActiveStates \ {"Connecting"}
States == ActiveStates \cup {"Idle", "Ready", "Closing", "Closed"}

\* What each call is for is fixed before it is made.
CallKinds == {f \in [Starts \cup Jobs -> StartKinds \cup Kinds] :
                /\ \A s \in Starts : f[s] \in StartKinds
                /\ \A j \in Jobs : f[j] \in Kinds}

\* Where a start block, and a job block, may be.
StartSteps == {"socket", "connect", "publish", "handshake", "abandon", "giveUp"}
JobSteps == {"open", "withdraw", "return", "execute"}

\* The state a job of each kind puts the session in.
RunningState == [k \in AllKinds |->
    CASE k \in {"execute", "command"} -> "RunningCommand"
      [] k = "shell" -> "RunningShell"
      [] k = "sftp"  -> "RunningSFTP"
      [] OTHER -> "RunningTunnel"]

Block(op, id) == [op |-> op, id |-> id]
Blocks == [op : {"start"}, id : Starts]
          \cup [op : {"job", "read", "op", "close", "hop", "serve"}, id : Jobs]
          \cup [op : {"poll", "teardown"}, id : Closers]

Init ==
    /\ queue = <<>> /\ pc = "idle" /\ self = NoTask /\ state = "Idle"
    /\ session = "null" /\ currentTask = NoTask /\ taskCancelled = FALSE
    /\ socketHandle = 0 /\ sockets = 0 /\ sock = "none"
    /\ kind \in CallKinds
    /\ result = [x \in Starts \cup Jobs |-> "none"]
    /\ runtime = [j \in Jobs |-> "none"]
    /\ timer = [j \in Jobs |-> FALSE]
    /\ asked = [j \in Jobs |-> {}]
    /\ forwardClosed = [j \in Jobs |-> FALSE]
    /\ closedEvents = [j \in Jobs |-> 0]
    /\ closer = [c \in Closers |->
         [pc |-> "idle", handle |-> 0, task |-> NoTask, shutdown |-> FALSE,
          expired |-> FALSE, timedOut |-> FALSE]]

-----------------------------------------------------------------------------
(***************************************************************************)
(* The blocks of the queue.                                                *)
(***************************************************************************)

\* The worker is free and the oldest block is an op.
AtHead(op) == pc = "idle" /\ queue # <<>> /\ Head(queue).op = op
HeadId == Head(queue).id

\* A block that runs to its end in one action, or one that is entered.
RunBlock == queue' = Tail(queue) /\ UNCHANGED <<pc, self>>
EnterBlock(step) == queue' = Tail(queue) /\ pc' = step /\ self' = HeadId
GoTo(step) == pc' = step /\ UNCHANGED self
LeaveBlock == pc' = "idle" /\ self' = NoTask
Enqueue(op, id) == queue' = Append(queue, Block(op, id))

\* The session reaches its server.
Connected == session = "set" /\ (Route = "proxyJump" \/ sock = "open")

ClearCurrentTask == currentTask' = NoTask /\ taskCancelled' = FALSE

CloseSocketHandle == socketHandle' = 0 /\ sock' = "none" /\ UNCHANGED sockets

ClearSession ==
    /\ session' = "freed" /\ UNCHANGED <<currentTask, taskCancelled>>
    /\ CloseSocketHandle

CloseSession ==
    /\ session' = IF session = "set" THEN "freed" ELSE session
    /\ ClearCurrentTask
    /\ CloseSocketHandle

Complete(call, outcome) == result' = [result EXCEPT ![call] = outcome]

-----------------------------------------------------------------------------
(***************************************************************************)
(* The calls of the application.                                           *)
(***************************************************************************)

CallStart(s) ==
    /\ result[s] = "none"
    /\ Complete(s, "pending")
    /\ Enqueue("start", s)
    /\ UNCHANGED <<workerVars, lockVars, sockVars, kind, runtime, timer, asked,
                   forwardClosed, closedEvents, closer>>

CallJob(j) ==
    /\ result[j] = "none"
    /\ OrderedCalls => /\ \E s \in Starts : result[s] = "ok"
                       /\ \A c \in Closers : closer[c].pc = "idle"
    /\ Complete(j, "pending")
    /\ Enqueue("job", j)
    /\ UNCHANGED <<workerVars, lockVars, sockVars, kind, runtime, timer, asked,
                   forwardClosed, closedEvents, closer>>

\* The completion of a streaming open starts the read loop once it has returned.
StartEventDelivery(j) ==
    /\ kind[j] \in StreamKinds /\ result[j] = "ok" /\ "read" \notin asked[j]
    /\ asked' = [asked EXCEPT ![j] = @ \cup {"read"}]
    /\ Enqueue("read", j)
    /\ UNCHANGED <<workerVars, lockVars, sockVars, kind, result, runtime, timer,
                   forwardClosed, closedEvents, closer>>

\* The application writes to a stream or tunnel, reads from a tunnel, or uses SFTP.
UserOp(j) ==
    /\ kind[j] \in QueuedKinds /\ result[j] = "ok" /\ "op" \notin asked[j]
    /\ asked' = [asked EXCEPT ![j] = @ \cup {"op"}]
    /\ Enqueue("op", j)
    /\ UNCHANGED <<workerVars, lockVars, sockVars, kind, result, runtime, timer,
                   forwardClosed, closedEvents, closer>>

\* closeWithCompletion: of a forward, at once; of the other runtimes, by a block.
CloseRuntime(j) ==
    IF kind[j] \in ForwardKinds
    THEN forwardClosed' = [forwardClosed EXCEPT ![j] = TRUE] /\ UNCHANGED queue
    ELSE Enqueue("close", j) /\ UNCHANGED forwardClosed

UserClose(j) ==
    /\ kind[j] # "execute" /\ result[j] = "ok" /\ "close" \notin asked[j]
    /\ asked' = [asked EXCEPT ![j] = @ \cup {"close"}]
    /\ CloseRuntime(j)
    /\ UNCHANGED <<workerVars, lockVars, sockVars, kind, result, runtime, timer,
                   closedEvents, closer>>

TimerFires(j) ==
    /\ timer[j]
    /\ timer' = [timer EXCEPT ![j] = FALSE]
    /\ Enqueue("read", j)
    /\ UNCHANGED <<workerVars, lockVars, sockVars, kind, result, runtime, asked,
                   forwardClosed, closedEvents, closer>>

-----------------------------------------------------------------------------
(***************************************************************************)
(* The start block: connect, or a discovery.                               *)
(***************************************************************************)

RefuseStart ==
    /\ AtHead("start") /\ state # "Idle"
    /\ RunBlock
    /\ Complete(HeadId, "error")
    /\ UNCHANGED <<state, lockVars, sockVars, kind, runtime, timer, asked,
                   forwardClosed, closedEvents, closer>>

\* Variant: a start is not refused on a used connection.
BeginStartAgain ==
    /\ AtHead("start")
    /\ \/ EnterBlock("giveUp")
       \/ ~taskCancelled /\ EnterBlock(IF Route = "proxyJump" THEN "publish" ELSE "socket")
    /\ state' = "Connecting"
    /\ UNCHANGED <<lockVars, sockVars, jobVars, closer>>

\* libssh may refuse the configuration before any socket is made.
BeginStart ==
    /\ AtHead("start") /\ state = "Idle"
    /\ \/ EnterBlock("giveUp")
       \/ ~taskCancelled /\ EnterBlock(IF Route = "proxyJump" THEN "publish" ELSE "socket")
    /\ state' = "Connecting"
    /\ UNCHANGED <<lockVars, sockVars, jobVars, closer>>

\* Variant: one address too many.
OpenSocketPastEnd ==
    /\ pc = "socket"
    /\ \/ GoTo("giveUp") /\ UNCHANGED sockVars
       \/ /\ sockets <= MaxSockets
          /\ sockets' = sockets + 1 /\ socketHandle' = sockets + 1 /\ sock' = "connecting"
          /\ GoTo("connect")
    /\ UNCHANGED <<queue, state, lockVars, jobVars, closer>>

\* The next address of the route's host, until there is none left.
OpenSocket ==
    /\ pc = "socket"
    /\ \/ GoTo("giveUp") /\ UNCHANGED sockVars
       \/ /\ sockets < MaxSockets
          /\ sockets' = sockets + 1 /\ socketHandle' = sockets + 1 /\ sock' = "connecting"
          /\ GoTo("connect")
    /\ UNCHANGED <<queue, state, lockVars, jobVars, closer>>

\* connect, and the exchange with a proxy.
SocketConnected ==
    /\ pc = "connect" /\ sock = "connecting"
    /\ sock' = "open"
    /\ GoTo("publish")
    /\ UNCHANGED <<queue, state, lockVars, socketHandle, sockets, jobVars, closer>>

\* Variant: the refused socket stays in the worker's handle.
SocketRefusedLeaked ==
    /\ pc = "connect"
    /\ GoTo("socket")
    /\ UNCHANGED <<queue, state, lockVars, sockVars, jobVars, closer>>

SocketRefused ==
    /\ pc = "connect"
    /\ CloseSocketHandle
    /\ GoTo("socket")
    /\ UNCHANGED <<queue, state, lockVars, jobVars, closer>>

\* libssh refuses the socket.
AttachFails ==
    /\ pc = "publish" /\ Route # "proxyJump"
    /\ CloseSocketHandle
    /\ GoTo("giveUp")
    /\ UNCHANGED <<queue, state, lockVars, jobVars, closer>>

PublishSession ==
    /\ pc = "publish"
    /\ session' = "set"
    /\ GoTo(IF taskCancelled THEN "abandon" ELSE "handshake")
    /\ UNCHANGED <<queue, state, currentTask, taskCancelled, sockVars, jobVars, closer>>

\* ssh_connect, the host key check or the authentication fails, or was cancelled.
AbandonSession ==
    /\ pc \in {"handshake", "abandon"}
    /\ ClearSession
    /\ GoTo("giveUp")
    /\ UNCHANGED <<queue, state, jobVars, closer>>

FinishConnect ==
    /\ pc = "handshake" /\ Connected /\ kind[self] = "connect"
    /\ state' = "Ready"
    /\ Complete(self, "ok")
    /\ LeaveBlock
    /\ UNCHANGED <<queue, lockVars, sockVars, kind, runtime, timer, asked,
                   forwardClosed, closedEvents, closer>>

\* A discovery closes its session again, whatever it found.
FinishDiscovery ==
    /\ pc = "handshake" /\ kind[self] = "discover"
    /\ \E outcome \in {"ok", "error"} : (outcome = "ok" => Connected) /\ Complete(self, outcome)
    /\ CloseSession
    /\ state' = "Closed"
    /\ LeaveBlock
    /\ UNCHANGED <<queue, kind, runtime, timer, asked, forwardClosed, closedEvents, closer>>

GiveUp ==
    /\ pc = "giveUp"
    /\ IF kind[self] = "discover" THEN CloseSession ELSE UNCHANGED <<lockVars, sockVars>>
    /\ state' = "Closed"
    /\ Complete(self, "error")
    /\ LeaveBlock
    /\ UNCHANGED <<queue, kind, runtime, timer, asked, forwardClosed, closedEvents, closer>>

-----------------------------------------------------------------------------
(***************************************************************************)
(* The job block: a job takes the session, its runtime is published.       *)
(***************************************************************************)

RefuseJob ==
    /\ AtHead("job") /\ state # "Ready"
    /\ RunBlock
    /\ Complete(HeadId, "error")
    /\ UNCHANGED <<state, lockVars, sockVars, kind, runtime, timer, asked,
                   forwardClosed, closedEvents, closer>>

BeginJob ==
    /\ AtHead("job") /\ state = "Ready"
    /\ EnterBlock(IF kind[HeadId] = "execute" THEN "execute" ELSE "open")
    /\ state' = RunningState[kind[HeadId]]
    /\ UNCHANGED <<lockVars, sockVars, jobVars, closer>>

\* The job gives the session back and reports its outcome.
ReturnToReady(outcome) ==
    /\ state' = "Ready"
    /\ Complete(self, outcome)
    /\ LeaveBlock

FailOpen ==
    /\ pc = "open"
    /\ ReturnToReady("error")
    /\ UNCHANGED <<queue, lockVars, sockVars, kind, runtime, timer, asked,
                   forwardClosed, closedEvents, closer>>

\* Only a local listener opens without a word from the server.  Only the streaming
\* opens look at the cancellation flag.
PublishRuntime ==
    /\ pc = "open"
    /\ Connected \/ kind[self] = "localForward"
    /\ runtime' = [runtime EXCEPT ![self] = "open"]
    /\ currentTask' = self
    /\ GoTo(IF kind[self] \in StreamKinds /\ taskCancelled THEN "withdraw" ELSE "return")
    /\ UNCHANGED <<queue, state, session, taskCancelled, sockVars, kind, result, timer,
                   asked, forwardClosed, closedEvents, closer>>

\* The cancelled open queues the close of its runtime and fails.
Withdraw ==
    /\ pc = "withdraw"
    /\ Enqueue("close", self)
    /\ ReturnToReady("error")
    /\ UNCHANGED <<lockVars, sockVars, kind, runtime, timer, asked,
                   forwardClosed, closedEvents, closer>>

ReturnJob ==
    /\ pc = "return"
    /\ IF kind[self] \in ForwardKinds THEN Enqueue("serve", self) ELSE UNCHANGED queue
    /\ Complete(self, "ok")
    /\ LeaveBlock
    /\ UNCHANGED <<state, lockVars, sockVars, kind, runtime, timer, asked,
                   forwardClosed, closedEvents, closer>>

\* The remote command of an execute ends with an exit status.
ExecuteEnds ==
    /\ pc = "execute" /\ Connected
    /\ ReturnToReady("ok")
    /\ UNCHANGED <<queue, lockVars, sockVars, kind, runtime, timer, asked,
                   forwardClosed, closedEvents, closer>>

ExecuteFails ==
    /\ pc = "execute"
    /\ ReturnToReady("error")
    /\ UNCHANGED <<queue, lockVars, sockVars, kind, runtime, timer, asked,
                   forwardClosed, closedEvents, closer>>

-----------------------------------------------------------------------------
(***************************************************************************)
(* The blocks of an open runtime.                                          *)
(***************************************************************************)

\* Variant: nobody gives the session back.
FinishWithoutHop(j) ==
    /\ RunBlock
    /\ runtime' = [runtime EXCEPT ![j] = "finished"]
    /\ ClearCurrentTask
    /\ UNCHANGED <<state, session, sockVars, kind, result, timer, asked,
                   forwardClosed, closedEvents, closer>>

\* Its channel is freed, and the block that returns the session is queued behind
\* whatever is there by now.
FinishRuntime(j) ==
    /\ queue' = Append(Tail(queue), Block("hop", j)) /\ UNCHANGED <<pc, self>>
    /\ runtime' = [runtime EXCEPT ![j] = "finished"]
    /\ ClearCurrentTask
    /\ UNCHANGED <<state, session, sockVars, kind, result, timer, asked,
                   forwardClosed, closedEvents, closer>>

NoEffect == RunBlock /\ UNCHANGED <<state, lockVars, sockVars, jobVars, closer>>

\* One pass of the read loop drains the channel and arms the timer, or ends the runtime.
ReadFinished == AtHead("read") /\ runtime[HeadId] = "finished" /\ NoEffect

ReadMore ==
    /\ AtHead("read") /\ runtime[HeadId] = "open" /\ Connected
    /\ RunBlock
    /\ timer' = [timer EXCEPT ![HeadId] = TRUE]
    /\ UNCHANGED <<state, lockVars, sockVars, kind, result, runtime, asked,
                   forwardClosed, closedEvents, closer>>

ReadEnds == AtHead("read") /\ runtime[HeadId] = "open" /\ FinishRuntime(HeadId)

\* An operation of the application succeeds, or fails and leaves the runtime open.
OpReturns ==
    /\ AtHead("op")
    /\ kind[HeadId] = "tunnel" /\ runtime[HeadId] = "open" => Connected
    /\ NoEffect

\* A read or a write that fails is the end of a tunnel, and of no other runtime.
OpEndsTunnel ==
    /\ AtHead("op") /\ kind[HeadId] = "tunnel" /\ runtime[HeadId] = "open"
    /\ FinishRuntime(HeadId)

CloseFinished == AtHead("close") /\ runtime[HeadId] = "finished" /\ NoEffect
\* Variant: the finished flag is not looked at.
CloseAgain == AtHead("close") /\ runtime[HeadId] # "none" /\ FinishRuntime(HeadId)
CloseOpen == AtHead("close") /\ runtime[HeadId] = "open" /\ FinishRuntime(HeadId)

\* Variant: the hop of a withdrawn stream is like any other.
HopNeverSilent ==
    /\ AtHead("hop")
    /\ RunBlock
    /\ LET j == HeadId
       IN  /\ state' = IF state = RunningState[kind[j]] THEN "Ready" ELSE state
           /\ closedEvents' = [closedEvents EXCEPT ![j] =
                @ + IF kind[j] \in StreamKinds THEN 1 ELSE 0]
    /\ UNCHANGED <<lockVars, sockVars, kind, result, runtime, timer, asked,
                   forwardClosed, closer>>

\* Variant: the hop does not look at the state it leaves.
HopUnguarded ==
    /\ AtHead("hop")
    /\ RunBlock
    /\ LET j == HeadId
           silent == kind[j] \in StreamKinds /\ result[j] = "error"
       IN  /\ state' = IF ~silent THEN "Ready" ELSE state
           /\ closedEvents' = [closedEvents EXCEPT ![j] =
                @ + IF kind[j] \in StreamKinds /\ ~silent THEN 1 ELSE 0]
    /\ UNCHANGED <<lockVars, sockVars, kind, result, runtime, timer, asked,
                   forwardClosed, closer>>

\* The block the close handler queued.  The hop of a withdrawn stream is silent.
Hop ==
    /\ AtHead("hop")
    /\ RunBlock
    /\ LET j == HeadId
           silent == kind[j] \in StreamKinds /\ result[j] = "error"
       IN  /\ state' = IF ~silent /\ state = RunningState[kind[j]] THEN "Ready" ELSE state
           /\ closedEvents' = [closedEvents EXCEPT ![j] =
                @ + IF kind[j] \in StreamKinds /\ ~silent THEN 1 ELSE 0]
    /\ UNCHANGED <<lockVars, sockVars, kind, result, runtime, timer, asked,
                   forwardClosed, closer>>

\* A forward serves its clients inside one block, which keeps the worker until the
\* closed flag is set or, for a local forward, its listener fails.
Serve ==
    /\ AtHead("serve")
    /\ EnterBlock("serving")
    /\ UNCHANGED <<state, lockVars, sockVars, jobVars, closer>>

StopServing ==
    /\ pc = "serving"
    /\ forwardClosed[self] \/ kind[self] = "localForward"
    /\ forwardClosed' = [forwardClosed EXCEPT ![self] = TRUE]
    /\ runtime' = [runtime EXCEPT ![self] = "finished"]
    /\ ClearCurrentTask
    /\ state' = IF state = "RunningTunnel" THEN "Ready" ELSE state
    /\ LeaveBlock
    /\ UNCHANGED <<queue, session, sockVars, kind, result, timer, asked, closedEvents, closer>>

-----------------------------------------------------------------------------
(***************************************************************************)
(* disconnect.  The handle is read before the lock is taken, and everything *)
(* after the lock works on what was read under it.                         *)
(***************************************************************************)

CallDisconnect(c) ==
    /\ closer[c].pc = "idle"
    /\ \A j \in Jobs : result[j] = "pending" => kind[j] \in RacingKinds
    /\ closer' = [closer EXCEPT ![c].pc = "snapshot"]
    /\ UNCHANGED <<queue, workerVars, lockVars, sockVars, jobVars>>

CancelSnapshot(c) ==
    /\ closer[c].pc = "snapshot"
    /\ closer' = [closer EXCEPT ![c].pc = "lock", ![c].handle = socketHandle]
    /\ UNCHANGED <<queue, workerVars, lockVars, sockVars, jobVars>>

CancelLock(c) ==
    LET shouldShutdown == currentTask # NoTask \/ session = "set" \/ closer[c].handle # 0
    IN  /\ closer[c].pc = "lock"
        /\ taskCancelled' = (taskCancelled \/ shouldShutdown)
        /\ closer' = [closer EXCEPT ![c].pc = IF currentTask = NoTask THEN "shutdown" ELSE "closeTask",
                                    ![c].task = currentTask,
                                    ![c].shutdown = shouldShutdown]
        /\ UNCHANGED <<queue, workerVars, session, currentTask, sockVars, jobVars>>

\* Variant: the current task is not closed.
CancelKeepsTask(c) ==
    /\ closer[c].pc = "closeTask"
    /\ closer' = [closer EXCEPT ![c].pc = "shutdown"]
    /\ UNCHANGED <<queue, workerVars, lockVars, sockVars, jobVars>>

CancelCloseTask(c) ==
    /\ closer[c].pc = "closeTask"
    /\ CloseRuntime(closer[c].task)
    /\ closer' = [closer EXCEPT ![c].pc = "shutdown"]
    /\ UNCHANGED <<workerVars, lockVars, sockVars, kind, result, runtime, timer, asked,
                   closedEvents>>

\* Variant: the socket is left open.
CancelKeepsSocket(c) ==
    /\ closer[c].pc = "shutdown"
    /\ closer' = [closer EXCEPT ![c].pc = "poll"]
    /\ UNCHANGED <<queue, workerVars, lockVars, sockVars, jobVars>>

\* A handle whose descriptor was taken for close is left alone.  On a socket that is
\* still connecting, shutdown may also have no effect (ENOTCONN).
CancelShutdown(c) ==
    /\ closer[c].pc = "shutdown"
    /\ IF closer[c].shutdown /\ closer[c].handle # 0 /\ closer[c].handle = socketHandle
       THEN sock' = "shut" \/ (sock = "connecting" /\ UNCHANGED sock)
       ELSE UNCHANGED sock
    /\ closer' = [closer EXCEPT ![c].pc = "poll"]
    /\ UNCHANGED <<queue, workerVars, lockVars, socketHandle, sockets, jobVars>>

\* The five seconds of waitForActiveJobClosedEventDelivery are over.
DeadlineExpires(c) ==
    /\ closer[c].pc \in {"poll", "polling"} /\ ~closer[c].expired
    /\ closer' = [closer EXCEPT ![c].expired = TRUE]
    /\ UNCHANGED <<queue, workerVars, lockVars, sockVars, jobVars>>

\* The state property dispatches synchronously to the queue: the call waits its turn.
Poll(c) ==
    /\ closer[c].pc = "poll"
    /\ Enqueue("poll", c)
    /\ closer' = [closer EXCEPT ![c].pc = IF closer[c].expired THEN "lastPolling" ELSE "polling"]
    /\ UNCHANGED <<workerVars, lockVars, sockVars, jobVars>>

PollBlock ==
    /\ AtHead("poll")
    /\ RunBlock
    /\ LET c == HeadId
           active == state \in ActiveStates
           last == closer[c].pc = "lastPolling"
       IN  closer' = [closer EXCEPT ![c].pc = IF active /\ ~last THEN "poll" ELSE "teardown",
                                    ![c].timedOut = active /\ last]
    /\ UNCHANGED <<state, lockVars, sockVars, jobVars>>

QueueTeardown(c) ==
    /\ closer[c].pc = "teardown"
    /\ Enqueue("teardown", c)
    /\ closer' = [closer EXCEPT ![c].pc = "closing"]
    /\ UNCHANGED <<workerVars, lockVars, sockVars, jobVars>>

\* Variant: a teardown that finds its connection Closed has nothing to do.
BeginTeardownOnce ==
    /\ AtHead("teardown")
    /\ IF state = "Closed" THEN RunBlock /\ UNCHANGED state
       ELSE EnterBlock("teardown") /\ state' = "Closing"
    /\ UNCHANGED <<lockVars, sockVars, jobVars, closer>>

BeginTeardown ==
    /\ AtHead("teardown")
    /\ EnterBlock("teardown")
    /\ state' = IF state = "Closed" THEN state ELSE "Closing"
    /\ UNCHANGED <<lockVars, sockVars, jobVars, closer>>

FinishTeardown ==
    /\ pc = "teardown"
    /\ CloseSession
    /\ state' = "Closed"
    /\ LeaveBlock
    /\ closer' = [closer EXCEPT ![self].pc = "done"]
    /\ UNCHANGED <<queue, jobVars>>

-----------------------------------------------------------------------------
StartStep == RefuseStart \/ BeginStart \/ OpenSocket \/ SocketConnected \/ SocketRefused
             \/ AttachFails \/ PublishSession \/ AbandonSession \/ FinishConnect \/ FinishDiscovery \/ GiveUp

JobStep == RefuseJob \/ BeginJob \/ FailOpen \/ PublishRuntime \/ Withdraw \/ ReturnJob
           \/ ExecuteEnds \/ ExecuteFails

RuntimeStep == ReadFinished \/ ReadMore \/ ReadEnds \/ OpReturns \/ OpEndsTunnel
               \/ CloseFinished \/ CloseOpen \/ Hop \/ Serve \/ StopServing

CloserBlock == PollBlock \/ BeginTeardown \/ FinishTeardown

WorkerStep == StartStep \/ JobStep \/ RuntimeStep \/ CloserBlock

CancelStep(c) == CancelSnapshot(c) \/ CancelLock(c) \/ CancelCloseTask(c) \/ CancelShutdown(c)
                 \/ Poll(c) \/ QueueTeardown(c)

Next ==
    \/ \E s \in Starts : CallStart(s)
    \/ \E j \in Jobs : CallJob(j) \/ StartEventDelivery(j) \/ UserOp(j) \/ UserClose(j) \/ TimerFires(j)
    \/ WorkerStep
    \/ \E c \in Closers : CallDisconnect(c) \/ CancelStep(c) \/ DeadlineExpires(c)

\* The worker's own steps end by themselves, every system or libssh call they make
\* being bounded by the configured timeout.  Three do not: a proxy that never answers is
\* read until the socket is shut down, a remote command may run for ever while its server
\* is there, and a forward serves until it is closed.
AwaitsProxy == pc = "connect" /\ Route = "proxy" /\ sock # "shut" /\ ~taskCancelled
AwaitsCommand == pc = "execute" /\ Connected
AwaitsClose == pc = "serving" /\ ~forwardClosed[self]

Fairness ==
    /\ WF_vars(~AwaitsProxy /\ ~AwaitsCommand /\ ~AwaitsClose /\ WorkerStep)
    /\ \A c \in Closers : WF_vars(CancelStep(c)) /\ WF_vars(DeadlineExpires(c))
    /\ \A j \in Jobs : WF_vars(StartEventDelivery(j)) /\ WF_vars(TimerFires(j))

Spec == Init /\ [][Next]_vars
FairSpec == Spec /\ Fairness

-----------------------------------------------------------------------------
(***************************************************************************)
(* Properties.                                                             *)
(***************************************************************************)

CloserRecords ==
    [pc : {"idle", "snapshot", "lock", "closeTask", "shutdown", "poll", "polling",
           "lastPolling", "teardown", "closing", "done"},
     handle : 0..MaxSockets, task : Jobs \cup {NoTask},
     shutdown : BOOLEAN, expired : BOOLEAN, timedOut : BOOLEAN]

\* Every variable has its type; queued blocks carry the call they are for.
TypeOK ==
    /\ queue \in Seq(Blocks)
    /\ \/ pc = "idle" /\ self = NoTask
       \/ pc \in StartSteps /\ self \in Starts
       \/ pc \in JobSteps \cup {"serving"} /\ self \in Jobs
       \/ pc = "teardown" /\ self \in Closers
    /\ state \in States
    /\ session \in {"null", "set", "freed"}
    /\ currentTask \in Jobs \cup {NoTask}
    /\ taskCancelled \in BOOLEAN
    /\ socketHandle \in 0..sockets /\ sockets \in 0..MaxSockets
    /\ sock \in {"none", "connecting", "open", "shut"}
    /\ kind \in CallKinds
    /\ result \in [Starts \cup Jobs -> {"none", "pending", "ok", "error"}]
    /\ runtime \in [Jobs -> {"none", "open", "finished"}]
    /\ timer \in [Jobs -> BOOLEAN]
    /\ asked \in [Jobs -> SUBSET {"read", "op", "close"}]
    /\ forwardClosed \in [Jobs -> BOOLEAN]
    /\ closedEvents \in [Jobs -> Nat]
    /\ closer \in [Closers -> CloserRecords]
    /\ \A c \in Closers : closer[c].pc = "closeTask" => closer[c].task \in Jobs

\* The worker never raises "Invalid SSHCoreSessionWorker state transition", a job runs
\* only on an allocated session, and Closed is final (SSHCoreSessionWorker.m,
\* transitionToState:), however the late hops, closes and teardowns interleave.
Lifecycle == INSTANCE SessionLifecycle WITH live <- session = "set"
RefinesLifecycle == Lifecycle!Spec

Queued(op, id) == \E i \in 1..Len(queue) : queue[i] = Block(op, id)

\* A delivered job holds the session from its return until its close block or hop.
HoldsSession(j) == result[j] = "ok" /\ (runtime[j] = "open" \/ Queued("hop", j))

\* Between two blocks, a Running state belongs to exactly one delivered job of that kind
\* and Ready to none: no close, late read or hop of one job gives away the session of
\* another, and none is left Running with nobody to end it (the guards of the onClosed
\* and close handler blocks in SSHKitConnection.m).
SessionOwnership ==
    pc = "idle" =>
        LET owners == {j \in Jobs : HoldsSession(j)}
        IN  /\ state = "Ready" => owners = {}
            /\ state \in RunningStates => \E j \in Jobs : owners = {j} /\ state = RunningState[kind[j]]

\* Once a connection is Closed nothing of it is left behind: the session pointer, the
\* current task and the socket are all gone (closeSession, clearLibSSHSession:).
ClosedReleasesAll ==
    pc = "idle" /\ state = "Closed" =>
        session # "set" /\ currentTask = NoTask /\ socketHandle = 0 /\ sock = "none"

\* ssh_free frees the channels of its session with it, so no runtime may still hold one:
\* every later block of it, and its dealloc, would use freed memory (closeSession leaves
\* the runtimes alone).  A closed local forward only has its own descriptors left.
NoDanglingRuntime ==
    session = "freed" =>
        \A j \in Jobs : runtime[j] = "open" => kind[j] = "localForward" /\ forwardClosed[j]

\* A streaming job hears Closed at most once, although the end of its output, the
\* application's close and a disconnect's close may all be in the queue together.
ClosedEventOnce == \A j \in Jobs : closedEvents[j] <= 1

DisconnectCalled == \E c \in Closers : closer[c].pc # "idle"

\* Every disconnect call completes, whatever it interrupts (disconnectWithCompletion:).
DisconnectCompletes == \A c \in Closers : closer[c].pc # "idle" ~> closer[c].pc = "done"

\* A disconnect releases every caller: no start or job stays without an answer, even one
\* blocked in a remote command that never ends.
CallersReleased ==
    \A x \in Starts \cup Jobs : (result[x] = "pending" /\ DisconnectCalled) ~> result[x] # "pending"

\* The handler of a delivered stream hears Closed once its connection is disconnected.
ClosedEventDelivered ==
    \A j \in Jobs : (kind[j] \in StreamKinds /\ result[j] = "ok" /\ DisconnectCalled)
                        ~> closedEvents[j] = 1

\* Nobody waits for a connection that is disconnected: neither its callers nor the handlers of its streams.
NobodyWaits == CallersReleased /\ ClosedEventDelivered

=============================================================================
