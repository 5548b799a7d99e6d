--------------------------- MODULE ForwardRuntime ---------------------------
(***************************************************************************)
(* One port forward: the block of the worker that serves its clients one   *)
(* after the other, the calls of closeWithCompletion: that other threads   *)
(* make meanwhile, and the rest of the process, which opens and closes     *)
(* descriptors of its own out of the same table.                           *)
(*                                                                         *)
(* A close works on a copy of activeSocket made under the lock, and shuts  *)
(* it down after the lock is released.  The worker's block is cut wherever *)
(* it takes the lock, changes the table, or blocks.                        *)
(***************************************************************************)
EXTENDS DescriptorTable

CONSTANTS
    Kinds,       \* which forwards: "local", "dynamic" (SOCKS), "remote"
    Closers      \* calls of closeWithCompletion:

ASSUME ForwardAssumption == Kinds \subseteq {"local", "dynamic", "remote"} /\ MaxFd > 0

VARIABLES
    kind,           \* what the forward was started as
    pc,             \* where the worker's block is
    client,         \* its local variable clientSocket, or localSocket
    doomed,         \* the copies invalidateOnWorkerQueue is about to close
    channel,        \* it has an open channel
    listening,      \* the listener is open, here or on the server
    activeSocket,
    closed,
    didCallCloseHandler,
    closeCompletions,
    draining,       \* the completions taken out of closeCompletions to be called
    closer,         \* each close call: where it is, and its copy of activeSocket
    answers,        \* how often the completion of each call was called
    handlerCalls    \* how often the close handler was called

lockVars == <<activeSocket, closed, didCallCloseHandler, closeCompletions>>
endVars  == <<kind, draining, answers, handlerCalls>>
vars == <<tableVars, lockVars, endVars, pc, client, doomed, channel, listening, closer>>

Init ==
    /\ kind \in Kinds
    /\ TableInit([f \in Fds |-> IF f = 1 /\ kind # "remote" THEN "listener" ELSE "free"])
    /\ pc = "loop" /\ client = NoFd /\ doomed = {} /\ channel = FALSE /\ listening = TRUE
    /\ activeSocket = NoFd /\ closed = FALSE /\ didCallCloseHandler = FALSE
    /\ closeCompletions = {} /\ draining = {}
    /\ closer = [c \in Closers |-> [pc |-> "idle", fd |-> NoFd]]
    /\ answers = [c \in Closers |-> 0] /\ handlerCalls = 0

\* The rest of the process.
Stranger ==
    /\ StrangerStep
    /\ UNCHANGED <<lockVars, endVars, pc, client, doomed, channel, listening, closer>>

-----------------------------------------------------------------------------
(***************************************************************************)
(* The worker's block: start, and the accept loop.                         *)
(***************************************************************************)

GoTo(from, to) == pc = from /\ pc' = to

CheckClosed ==
    /\ GoTo("loop", IF closed THEN "invalidate" ELSE "select")
    /\ UNCHANGED <<tableVars, lockVars, endVars, client, doomed, channel, listening, closer>>

\* Nobody connects in time, or the accept fails in a way that is retried.
NoClient ==
    /\ GoTo("select", "loop")
    /\ UNCHANGED <<tableVars, lockVars, endVars, client, doomed, channel, listening, closer>>

\* The listener of a local forward fails for good.
ListenerFails ==
    /\ kind # "remote"
    /\ GoTo("select", "invalidate")
    /\ UNCHANGED <<tableVars, lockVars, endVars, client, doomed, channel, listening, closer>>

\* accept, or the connection to the target of a channel the server opened.
TakeClient == \E f \in Fds : Open(f, "client") /\ client' = f

AcceptClient ==
    /\ kind # "remote"
    /\ GoTo("select", "accepted")
    /\ TakeClient
    /\ UNCHANGED <<lockVars, endVars, doomed, channel, listening, closer>>

AcceptChannel ==
    /\ kind = "remote"
    /\ GoTo("select", "target")
    /\ channel' = TRUE
    /\ UNCHANGED <<tableVars, lockVars, endVars, client, doomed, listening, closer>>

ConnectTarget ==
    /\ GoTo("target", "accepted")
    /\ TakeClient
    /\ UNCHANGED <<lockVars, endVars, doomed, channel, listening, closer>>

TargetFails ==
    /\ GoTo("target", "freeChannel")
    /\ UNCHANGED <<tableVars, lockVars, endVars, client, doomed, channel, listening, closer>>

PublishClient ==
    /\ GoTo("accepted", [local |-> "open", dynamic |-> "socks", remote |-> "bridge"][kind])
    /\ activeSocket' = client
    /\ UNCHANGED <<tableVars, closed, didCallCloseHandler, closeCompletions, endVars, client, doomed,
                   channel, listening, closer>>

\* The SOCKS request, read with blocking reads that have no timeout.
ReadRequest ==
    /\ GoTo("socks", "open")
    /\ client \notin shut
    /\ UNCHANGED <<tableVars, lockVars, endVars, client, doomed, channel, listening, closer>>

RequestFails ==
    /\ GoTo("socks", "closeClient")
    /\ UNCHANGED <<tableVars, lockVars, endVars, client, doomed, channel, listening, closer>>

OpenChannel ==
    /\ pc = "open"
    /\ \/ channel' = TRUE /\ pc' = "bridge"
       \/ channel' = FALSE /\ pc' = "closeClient"
    /\ UNCHANGED <<tableVars, lockVars, endVars, client, doomed, listening, closer>>

\* The bridge looks at the closed flag before it moves any data.
Bridge ==
    /\ pc = "bridge"
    /\ pc' = IF closed THEN "bridged" ELSE "transfer"
    /\ UNCHANGED <<tableVars, lockVars, endVars, client, doomed, channel, listening, closer>>

\* Writing to a client that does not read blocks, until it is shut down.
Transfer ==
    /\ GoTo("transfer", "bridge")
    /\ client \notin shut
    /\ UNCHANGED <<tableVars, lockVars, endVars, client, doomed, channel, listening, closer>>

TransferEnds ==
    /\ GoTo("transfer", "bridged")
    /\ UNCHANGED <<tableVars, lockVars, endVars, client, doomed, channel, listening, closer>>

\* A local forward frees its channel before it closes the client, a remote one after.
FreeChannel ==
    /\ \/ kind # "remote" /\ GoTo("bridged", "closeClient")
       \/ kind = "remote" /\ GoTo("freeChannel", "loop")
    /\ channel' = FALSE
    /\ UNCHANGED <<tableVars, lockVars, endVars, client, doomed, listening, closer>>

\* Variant: the worker does not forget the descriptor it closed.
CloseClientKept ==
    /\ \/ GoTo("closeClient", "clearActive")
       \/ kind = "remote" /\ GoTo("bridged", "clearActive")
    /\ CloseDescriptors({client})
    /\ UNCHANGED <<lockVars, endVars, client, doomed, channel, listening, closer>>

CloseClient ==
    /\ \/ GoTo("closeClient", "clearActive")
       \/ kind = "remote" /\ GoTo("bridged", "clearActive")
    /\ CloseDescriptors({client})
    /\ client' = NoFd
    /\ UNCHANGED <<lockVars, endVars, doomed, channel, listening, closer>>

\* Variant: the client is forgotten only by the next one.
KeepActive ==
    /\ GoTo("clearActive", IF kind = "remote" THEN "freeChannel" ELSE "loop")
    /\ UNCHANGED <<tableVars, lockVars, endVars, client, doomed, channel, listening, closer>>

ClearActive ==
    /\ GoTo("clearActive", IF kind = "remote" THEN "freeChannel" ELSE "loop")
    /\ activeSocket' = NoFd
    /\ UNCHANGED <<tableVars, closed, didCallCloseHandler, closeCompletions, endVars, client, doomed,
                   channel, listening, closer>>

-----------------------------------------------------------------------------
(***************************************************************************)
(* The end of the block: invalidate, close handler, completions.           *)
(***************************************************************************)

InvalidateLock ==
    /\ GoTo("invalidate", "release")
    /\ closed' = TRUE /\ activeSocket' = NoFd
    /\ doomed' = ({activeSocket} \ {NoFd}) \cup {f \in Fds : owner[f] = "listener"}
    /\ UNCHANGED <<tableVars, didCallCloseHandler, closeCompletions, endVars, client, channel,
                   listening, closer>>

\* Variant: the listener stays open.
ReleaseClientOnly ==
    /\ GoTo("release", "handler")
    /\ CloseDescriptors({f \in doomed : owner[f] # "listener"})
    /\ doomed' = {} /\ UNCHANGED <<lockVars, endVars, client, channel, listening, closer>>

\* Closes what the lock gave it; a remote forward also cancels its listener.
ReleaseListener ==
    /\ GoTo("release", "handler")
    /\ CloseDescriptors(doomed)
    /\ doomed' = {} /\ listening' = FALSE
    /\ UNCHANGED <<lockVars, endVars, client, channel, closer>>

\* callCloseHandlerIfNeeded, and the handler: the session is Ready again.
MarkHandlerCalled ==
    /\ GoTo("handler", "callHandler")
    /\ didCallCloseHandler' = TRUE
    /\ UNCHANGED <<tableVars, activeSocket, closed, closeCompletions, endVars, client, doomed,
                   channel, listening, closer>>

CallHandler ==
    /\ GoTo("callHandler", "drain")
    /\ handlerCalls' = handlerCalls + 1
    /\ UNCHANGED <<tableVars, lockVars, kind, draining, answers, client, doomed, channel, listening, closer>>

DrainCompletions ==
    /\ GoTo("drain", "answer")
    /\ draining' = closeCompletions /\ closeCompletions' = {}
    /\ UNCHANGED <<tableVars, activeSocket, closed, didCallCloseHandler, kind, answers, handlerCalls,
                   client, doomed, channel, listening, closer>>

AnswerClose ==
    /\ pc = "answer"
    /\ \E c \in draining :
         draining' = draining \ {c} /\ answers' = [answers EXCEPT ![c] = @ + 1]
    /\ UNCHANGED <<tableVars, lockVars, kind, handlerCalls, pc, client, doomed, channel, listening, closer>>

Finish ==
    /\ GoTo("answer", "done") /\ draining = {}
    /\ UNCHANGED <<tableVars, lockVars, endVars, client, doomed, channel, listening, closer>>

-----------------------------------------------------------------------------
(***************************************************************************)
(* closeWithCompletion:, called by the application or by a disconnect.     *)
(***************************************************************************)

\* Variant: a close is answered at once when another one was before it.
CloseTwice(c) ==
    /\ closer[c].pc = "idle" /\ closed
    /\ closer' = [closer EXCEPT ![c].pc = "done"]
    /\ answers' = [answers EXCEPT ![c] = @ + 1]
    /\ UNCHANGED <<tableVars, lockVars, kind, draining, handlerCalls, pc, client, doomed, channel, listening>>

CloseTooLate(c) ==
    /\ closer[c].pc = "idle" /\ didCallCloseHandler
    /\ closer' = [closer EXCEPT ![c].pc = "done"]
    /\ answers' = [answers EXCEPT ![c] = @ + 1]
    /\ UNCHANGED <<tableVars, lockVars, kind, draining, handlerCalls, pc, client, doomed, channel, listening>>

\* Variant: a close that comes late is kept with the others.
CloseQueued(c) ==
    /\ closer[c].pc = "idle"
    /\ closed' = TRUE
    /\ closeCompletions' = closeCompletions \cup {c}
    /\ closer' = [closer EXCEPT ![c] = [pc |-> "shutdown", fd |-> activeSocket]]
    /\ UNCHANGED <<tableVars, activeSocket, didCallCloseHandler, endVars, pc, client, doomed, channel,
                   listening>>

CloseRequest(c) ==
    /\ closer[c].pc = "idle" /\ ~didCallCloseHandler
    /\ closed' = TRUE
    /\ closeCompletions' = closeCompletions \cup {c}
    /\ closer' = [closer EXCEPT ![c] = [pc |-> "shutdown", fd |-> activeSocket]]
    /\ UNCHANGED <<tableVars, activeSocket, didCallCloseHandler, endVars, pc, client, doomed, channel,
                   listening>>

\* Variant: the client is not woken.
CloseWithoutShutdown(c) ==
    /\ closer[c].pc = "shutdown"
    /\ closer' = [closer EXCEPT ![c].pc = "done"]
    /\ UNCHANGED <<tableVars, lockVars, endVars, pc, client, doomed, channel, listening>>

CloseShutdown(c) ==
    /\ closer[c].pc = "shutdown"
    /\ ShutdownDescriptor(closer[c].fd)
    /\ closer' = [closer EXCEPT ![c].pc = "done"]
    /\ UNCHANGED <<lockVars, endVars, pc, client, doomed, channel, listening>>

-----------------------------------------------------------------------------
\* Steps the worker takes by itself; every wait in them has a timeout.
WorkerStep ==
    \/ CheckClosed \/ NoClient \/ ListenerFails \/ AcceptClient \/ AcceptChannel
    \/ ConnectTarget \/ TargetFails \/ PublishClient \/ OpenChannel \/ Bridge
    \/ FreeChannel \/ CloseClient \/ ClearActive
    \/ InvalidateLock \/ ReleaseListener \/ MarkHandlerCalled \/ CallHandler
    \/ DrainCompletions \/ AnswerClose \/ Finish

\* Steps that wait for the client, until its socket is shut down.
ClientStep == ReadRequest \/ RequestFails \/ Transfer \/ TransferEnds

Next ==
    \/ WorkerStep \/ ClientStep
    \/ Stranger
    \/ \E c \in Closers : CloseTooLate(c) \/ CloseRequest(c) \/ CloseShutdown(c)

Fairness ==
    /\ WF_vars(WorkerStep)
    /\ WF_vars(client \in shut /\ ClientStep)
    /\ \A c \in Closers : WF_vars(CloseShutdown(c))

Spec == Init /\ [][Next]_vars
FairSpec == Spec /\ Fairness

-----------------------------------------------------------------------------
(***************************************************************************)
(* Properties.                                                             *)
(***************************************************************************)

WorkerSteps == {"loop", "select", "target", "accepted", "socks", "open", "bridge", "transfer",
                "bridged", "closeClient", "clearActive", "freeChannel", "invalidate", "release",
                "handler", "callHandler", "drain", "answer", "done"}

\* Every variable has its type, and the worker's client is open while it has one.
TypeOK ==
    /\ owner \in [Fds -> {"free", "listener", "client", "stranger"}]
    /\ shut \subseteq Fds
    /\ pc \in WorkerSteps /\ kind \in Kinds
    /\ client # NoFd => client \in Fds /\ owner[client] = "client"
    /\ activeSocket \in Fds \cup {NoFd}
    /\ doomed \subseteq Fds
    /\ {channel, listening, closed, didCallCloseHandler, shutStranger, closedStranger} \subseteq BOOLEAN
    /\ closeCompletions \subseteq Closers /\ draining \subseteq Closers
    /\ closer \in [Closers -> [pc : {"idle", "shutdown", "done"}, fd : Fds \cup {NoFd}]]
    /\ answers \in [Closers -> Nat] /\ handlerCalls \in Nat

Released == ~listening /\ ~channel /\ \A f \in Fds : owner[f] \notin {"listener", "client"}

\* The close handler makes the session Ready, so the forward holds nothing of it by then
\* (the order of invalidateOnWorkerQueue and callCloseHandlerIfNeeded at the end of start
\* and of acceptLoopOnWorkerQueue).
ReadyMeansReleased == handlerCalls > 0 => Released

\* A close is answered exactly once: whichever side of callCloseHandlerIfNeeded it falls
\* on, it is neither forgotten by completePendingCloseCompletions nor answered by both.
AnsweredOnce ==
    /\ \A c \in Closers : answers[c] <= 1
    /\ pc = "done" => \A c \in Closers : closer[c].pc # "idle" => answers[c] = 1

\* A close is answered once, after all is released, and touches the forward's own sockets only
\* (closeWithCompletion:, completePendingCloseCompletions).
ForwardIsSafe == TypeOK /\ ReadyMeansReleased /\ AnsweredOnce /\ ClosesItsOwn

\* Closing implements the promise every runtime makes.
Closable == INSTANCE ClosableRuntime WITH
    released <- Released,
    call <- [c \in Closers |-> IF answers[c] > 0 THEN "answered"
                               ELSE IF closer[c].pc = "idle" THEN "none" ELSE "waiting"]
ImplementsClosable == Closable!Spec

\* Every close is answered, whatever the clients do: a disconnect waits for it
\* (closeWithCompletion: and the end of the accept loop).  Not so a dynamic forward, whose
\* close may look for the client just before it is published, and whose worker then
\* waits for the request of that client (readExactly:length:fromSocket:).
CloseCompletes ==
    \A c \in Closers : (kind # "dynamic" /\ closer[c].pc # "idle") ~> answers[c] = 1

=============================================================================
