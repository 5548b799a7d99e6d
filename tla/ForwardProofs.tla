------------------------------ MODULE ForwardProofs ------------------------------
(***************************************************************************)
(* Proofs about the port forwards.  ForwardRuntime, for every set of close *)
(* calls and every size of the descriptor table: a forward closes its own  *)
(* descriptors only, has released everything when its close handler is     *)
(* called, and answers every close once, after that.  RemoteForwards, for  *)
(* any ports, forwards and connections: a session has one global request   *)
(* under way at most, a connection is accepted once, and, until a request  *)
(* times out, the runtime and the server agree on what is listened at.     *)
(***************************************************************************)
EXTENDS ForwardRuntime, RemoteForwards, FiniteSetTheorems, TLAPS

\* Where the worker has a client, where the client may be published, and the end of the block.
WithClient == {"accepted", "socks", "open", "bridge", "transfer", "bridged", "closeClient"}
Published == (WithClient \ {"accepted"}) \cup {"clearActive"}
HandlerCalled == {"callHandler", "drain", "answer", "done"}
PastRelease == {"handler"} \cup HandlerCalled

\* Where the channel of a forward is open, and where only one kind of forward comes.
WithChannel ==
    IF kind = "remote"
    THEN {"target", "accepted", "bridge", "transfer", "bridged", "clearActive", "freeChannel"}
    ELSE {"bridge", "transfer", "bridged"}
Foreign == IF kind = "remote" THEN {"socks", "open", "closeClient"} ELSE {"target", "freeChannel"}

\* The only client's descriptor that is open is the one in the worker's local variable.
ClientInv ==
    /\ client # NoFd <=> pc \in WithClient
    /\ \A f \in Fds : owner[f] = "client" => f = client

\* activeSocket is the worker's client, or the one it has just closed, or none.
ActiveInv ==
    activeSocket # NoFd => pc \in Published /\ (pc # "clearActive" => activeSocket = client)

\* What the worker is about to close is the listener and nothing else.
DoomedInv == doomed = IF pc = "release" THEN {f \in Fds : owner[f] = "listener"} ELSE {}

\* The listener is given up by one step, and the channel before that.
ListenerInv ==
    /\ listening <=> pc \notin PastRelease
    /\ pc \in PastRelease => \A f \in Fds : owner[f] # "listener"
ChannelInv == pc \notin Foreign /\ (channel => pc \in WithChannel)

HandlerInv ==
    /\ didCallCloseHandler <=> pc \in HandlerCalled
    /\ handlerCalls > 0 => pc \in {"drain", "answer", "done"}

TableInv == ClientInv /\ ActiveInv /\ DoomedInv /\ ListenerInv /\ ClosesItsOwn
WorkerInv == ChannelInv /\ HandlerInv

\* A close call that was made is in one of three places: kept, taken out to be answered,
\* answered.
Kept(c) == c \in closeCompletions
Taken(c) == c \in draining
Place(c) ==
    /\ closer[c].pc = "idle" => ~Kept(c) /\ ~Taken(c) /\ answers[c] = 0
    /\ closer[c].pc # "idle" =>
         \/ Kept(c) /\ ~Taken(c) /\ answers[c] = 0
         \/ ~Kept(c) /\ Taken(c) /\ answers[c] = 0
         \/ ~Kept(c) /\ ~Taken(c) /\ answers[c] = 1
AnswerInv ==
    /\ \A c \in Closers : Place(c)
    /\ pc \in {"answer", "done"} => closeCompletions = {}
    /\ pc # "answer" => draining = {}
    /\ \A c \in Closers : answers[c] > 0 => pc \in HandlerCalled

ForwardInv == TypeOK /\ TableInv /\ WorkerInv /\ AnswerInv

-----------------------------------------------------------------------------
(***************************************************************************)
(* What the calls of the descriptor table do to a forward.                 *)
(***************************************************************************)

Owners == {"free", "listener", "client", "stranger"}

\* A stranger takes free descriptors only, and gives back its own.
LEMMA StrangerEffect ==
    ASSUME TypeOK, StrangerStep
    PROVE  /\ owner' \in [Fds -> Owners] /\ shut' \subseteq Fds
           /\ UNCHANGED <<shutStranger, closedStranger>>
           /\ \A f \in Fds : /\ owner'[f] = "client" <=> owner[f] = "client"
                             /\ owner'[f] = "listener" <=> owner[f] = "listener"
<1>0. owner \in [Fds -> Owners] /\ shut \subseteq Fds
  BY DEF TypeOK, Owners
<1>1. PICK f \in Fds :
        \/ Open(f, "stranger")
        \/ /\ owner[f] = "stranger" /\ owner' = [owner EXCEPT ![f] = "free"]
           /\ UNCHANGED <<shut, shutStranger, closedStranger>>
  BY DEF StrangerStep
<1>2. CASE Open(f, "stranger")
  BY <1>0, <1>2 DEF Open, Owners
<1>3. CASE /\ owner[f] = "stranger" /\ owner' = [owner EXCEPT ![f] = "free"]
           /\ UNCHANGED <<shut, shutStranger, closedStranger>>
  BY <1>0, <1>3 DEF Owners
<1> QED
  BY <1>1, <1>2, <1>3

\* A new client takes a descriptor that was free.
LEMMA ClientEffect ==
    ASSUME TypeOK, TakeClient
    PROVE  /\ owner' \in [Fds -> Owners] /\ shut' \subseteq Fds
           /\ UNCHANGED <<shutStranger, closedStranger>>
           /\ client' \in Fds /\ owner'[client'] = "client" /\ owner[client'] = "free"
           /\ \A f \in Fds \ {client'} : owner'[f] = owner[f]
BY DEF TakeClient, Open, TypeOK, Owners

\* Closing descriptors that are the forward's own.
LEMMA CloseEffect ==
    ASSUME TypeOK, ClosesItsOwn, NEW fs \in SUBSET Fds,
           \A f \in fs : owner[f] # "stranger", CloseDescriptors(fs)
    PROVE  /\ owner' \in [Fds -> Owners] /\ shut' \subseteq Fds
           /\ UNCHANGED <<shutStranger, closedStranger>>
           /\ \A f \in Fds : owner'[f] = IF f \in fs THEN "free" ELSE owner[f]
<1>1. owner' = [f \in Fds |-> IF f \in fs THEN "free" ELSE owner[f]] /\ UNCHANGED <<shut, shutStranger>>
  BY DEF CloseDescriptors
<1>2. closedStranger' = closedStranger
  BY DEF CloseDescriptors, ClosesItsOwn, TypeOK
<1> QED
  BY <1>1, <1>2 DEF TypeOK, Owners

\* The numbers of descriptors do not include the one that stands for none.
LEMMA NoFdIsNone == NoFd \notin Fds
BY DEF NoFd, Fds

-----------------------------------------------------------------------------
(***************************************************************************)
(* The inductive invariant.                                                *)
(***************************************************************************)

LEMMA InvInit == Init => ForwardInv
<1> SUFFICES ASSUME Init PROVE ForwardInv
  OBVIOUS
<1> USE DEF Init, TableInit
<1>1. TypeOK
  <2>1. owner \in [Fds -> Owners] /\ shut \subseteq Fds /\ pc \in WorkerSteps /\ kind \in Kinds
    BY DEF Owners, WorkerSteps
  <2>2. client = NoFd /\ activeSocket \in Fds \cup {NoFd} /\ doomed \subseteq Fds
    OBVIOUS
  <2>3. {channel, listening, closed, didCallCloseHandler, shutStranger, closedStranger} \subseteq BOOLEAN
    OBVIOUS
  <2>4. /\ closeCompletions \subseteq Closers /\ draining \subseteq Closers
        /\ closer \in [Closers -> [pc : {"idle", "shutdown", "done"}, fd : Fds \cup {NoFd}]]
        /\ answers \in [Closers -> Nat] /\ handlerCalls \in Nat
    OBVIOUS
  <2> QED
    BY <2>1, <2>2, <2>3, <2>4 DEF TypeOK, Owners
<1>2. TableInv
  BY DEF TableInv, ClientInv, WithClient, ActiveInv, DoomedInv, ListenerInv, PastRelease,
         HandlerCalled, ClosesItsOwn
<1>3. WorkerInv
  BY DEF WorkerInv, ChannelInv, Foreign, HandlerInv, HandlerCalled
<1>4. AnswerInv
  BY DEF AnswerInv, Place, Kept, Taken
<1> QED
  BY <1>1, <1>2, <1>3, <1>4 DEF ForwardInv

\* A step that leaves the descriptor table, activeSocket and the worker's own copies alone
\* keeps what they say of each other, as long as the worker stays where it says so too.
Quiet ==
    /\ UNCHANGED <<tableVars, activeSocket, client, doomed, listening>>
    /\ pc' \in WithClient <=> pc \in WithClient
    /\ pc' \in PastRelease <=> pc \in PastRelease
    /\ pc \in Published => pc' \in Published
    /\ (pc # "release" /\ pc' # "release") \/ pc' = pc
    /\ pc # "clearActive" \/ pc' = pc

LEMMA QuietStep == TableInv /\ Quiet => TableInv'
BY DEF TableInv, Quiet, tableVars, ClientInv, ActiveInv, DoomedInv, ListenerInv, ClosesItsOwn

LEMMA TableNext == TypeOK /\ TableInv /\ WorkerInv /\ [Next]_vars => TableInv'
<1> SUFFICES ASSUME TypeOK, TableInv, WorkerInv, [Next]_vars PROVE TableInv'
  OBVIOUS
<1> USE DEF GoTo, WithClient, PastRelease, HandlerCalled, Published
<1>k. kind # "remote" => kind \in {"local", "dynamic"}
  BY ForwardAssumption DEF ForwardAssumption, TypeOK
<1>1. CASE \/ CheckClosed \/ NoClient \/ ListenerFails \/ AcceptChannel \/ TargetFails
           \/ OpenChannel \/ Bridge \/ FreeChannel \/ MarkHandlerCalled \/ CallHandler
           \/ DrainCompletions \/ Finish \/ ClientStep
  <2>1. CASE CheckClosed \/ NoClient \/ ListenerFails \/ AcceptChannel \/ TargetFails
    <3>1. Quiet
      BY <2>1 DEF CheckClosed, NoClient, ListenerFails, AcceptChannel, TargetFails, Quiet, lockVars
    <3> QED
      BY <3>1, QuietStep
  <2>2. CASE OpenChannel \/ Bridge \/ ClientStep
    <3>1. Quiet
      BY <2>2 DEF OpenChannel, Bridge, ClientStep, ReadRequest, RequestFails, Transfer, TransferEnds,
                  Quiet, lockVars
    <3> QED
      BY <3>1, QuietStep
  <2>3. CASE FreeChannel
    <3>1. activeSocket # NoFd => pc = "bridged"
      BY <2>3 DEF FreeChannel, TableInv, ActiveInv
    <3>2. Quiet
      BY <2>3, <3>1 DEF FreeChannel, Quiet, lockVars
    <3> QED
      BY <3>2, QuietStep
  <2>4. CASE MarkHandlerCalled \/ CallHandler \/ DrainCompletions \/ Finish
    <3>1. Quiet
      BY <2>4 DEF MarkHandlerCalled, CallHandler, DrainCompletions, Finish, Quiet, lockVars
    <3> QED
      BY <3>1, QuietStep
  <2> QED
    BY <1>1, <2>1, <2>2, <2>3, <2>4
<1>2. CASE AcceptClient \/ ConnectTarget
  <2>1. /\ pc \in {"select", "target"} /\ pc' = "accepted" /\ TakeClient
        /\ UNCHANGED <<activeSocket, doomed, listening>>
    BY <1>2 DEF AcceptClient, ConnectTarget, lockVars
  <2>2. /\ UNCHANGED <<shutStranger, closedStranger>>
        /\ client' \in Fds /\ owner'[client'] = "client" /\ owner[client'] = "free"
        /\ \A f \in Fds \ {client'} : owner'[f] = owner[f]
    BY <2>1, ClientEffect
  <2>3. activeSocket = NoFd /\ doomed = {} /\ \A f \in Fds : owner[f] # "client"
    BY <2>1, NoFdIsNone DEF TableInv, ActiveInv, DoomedInv, ClientInv
  <2>4. ClientInv' /\ ActiveInv'
    BY <2>1, <2>2, <2>3, NoFdIsNone DEF ClientInv, ActiveInv
  <2>5. DoomedInv' /\ ListenerInv'
    BY <2>1, <2>2, <2>3 DEF TableInv, DoomedInv, ListenerInv
  <2> QED
    BY <2>2, <2>4, <2>5 DEF TableInv, ClosesItsOwn
<1>3. CASE PublishClient
  <2>1. /\ pc = "accepted" /\ pc' \in {"open", "socks", "bridge"} /\ activeSocket' = client
        /\ UNCHANGED <<tableVars, client, doomed, listening>>
    BY <1>3, <1>k DEF PublishClient
  <2> QED
    BY <2>1 DEF TableInv, tableVars, ClientInv, ActiveInv, DoomedInv, ListenerInv, ClosesItsOwn
<1>4. CASE CloseClient
  <2>1. /\ pc \in {"closeClient", "bridged"} /\ pc' = "clearActive" /\ CloseDescriptors({client})
        /\ client' = NoFd /\ UNCHANGED <<activeSocket, doomed, listening>>
    BY <1>4 DEF CloseClient, lockVars
  <2>2. client \in Fds /\ owner[client] = "client"
    BY <2>1 DEF TypeOK, TableInv, ClientInv
  <2>3. /\ UNCHANGED <<shutStranger, closedStranger>>
        /\ \A f \in Fds : owner'[f] = IF f = client THEN "free" ELSE owner[f]
    BY <2>1, <2>2, CloseEffect DEF TableInv
  <2>4. ClientInv' /\ ActiveInv'
    BY <2>1, <2>3 DEF TableInv, ClientInv, ActiveInv
  <2>5. DoomedInv' /\ ListenerInv'
    BY <2>1, <2>2, <2>3 DEF TableInv, DoomedInv, ListenerInv
  <2> QED
    BY <2>3, <2>4, <2>5 DEF TableInv, ClosesItsOwn
<1>5. CASE ClearActive
  <2>1. /\ pc = "clearActive" /\ pc' \in {"freeChannel", "loop"} /\ activeSocket' = NoFd
        /\ UNCHANGED <<tableVars, client, doomed, listening>>
    BY <1>5 DEF ClearActive
  <2> QED
    BY <2>1 DEF TableInv, tableVars, ClientInv, ActiveInv, DoomedInv, ListenerInv, ClosesItsOwn
<1>6. CASE InvalidateLock
  <2>1. /\ pc = "invalidate" /\ pc' = "release" /\ activeSocket' = NoFd
        /\ doomed' = ({activeSocket} \ {NoFd}) \cup {f \in Fds : owner[f] = "listener"}
        /\ UNCHANGED <<tableVars, client, listening>>
    BY <1>6 DEF InvalidateLock
  <2>2. activeSocket = NoFd
    BY <2>1 DEF TableInv, ActiveInv
  <2>3. doomed' = {f \in Fds : owner[f] = "listener"}
    BY <2>1, <2>2
  <2> QED
    BY <2>1, <2>3 DEF TableInv, tableVars, ClientInv, ActiveInv, DoomedInv, ListenerInv, ClosesItsOwn
<1>7. CASE ReleaseListener
  <2>1. /\ pc = "release" /\ pc' = "handler" /\ CloseDescriptors(doomed) /\ doomed' = {}
        /\ listening' = FALSE /\ UNCHANGED <<activeSocket, client>>
    BY <1>7 DEF ReleaseListener, lockVars
  <2>2. doomed = {f \in Fds : owner[f] = "listener"}
    BY <2>1 DEF TableInv, DoomedInv
  <2>3. /\ UNCHANGED <<shutStranger, closedStranger>>
        /\ \A f \in Fds : owner'[f] = IF f \in doomed THEN "free" ELSE owner[f]
    BY <2>1, <2>2, CloseEffect DEF TableInv
  <2>4. ClientInv' /\ ActiveInv'
    BY <2>1, <2>3 DEF TableInv, ClientInv, ActiveInv
  <2>5. DoomedInv' /\ ListenerInv'
    BY <2>1, <2>2, <2>3 DEF DoomedInv, ListenerInv
  <2> QED
    BY <2>3, <2>4, <2>5 DEF TableInv, ClosesItsOwn
<1>8. CASE AnswerClose \/ (\E c \in Closers : CloseTooLate(c) \/ CloseRequest(c)) \/ UNCHANGED vars
  <2>1. pc' = pc /\ Quiet
    BY <1>8 DEF AnswerClose, CloseTooLate, CloseRequest, vars, Quiet, lockVars
  <2> QED
    BY <2>1, QuietStep
<1>9. CASE \E c \in Closers : CloseShutdown(c)
  <2>1. UNCHANGED <<owner, closedStranger, pc, activeSocket, client, doomed, listening>>
    BY <1>9 DEF CloseShutdown, ShutdownDescriptor, lockVars
  <2> QED
    BY <2>1 DEF TableInv, ClientInv, ActiveInv, DoomedInv, ListenerInv, ClosesItsOwn
<1>10. CASE Stranger
  <2>1. StrangerStep /\ UNCHANGED <<pc, activeSocket, client, doomed, listening>>
    BY <1>10 DEF Stranger, lockVars
  <2>2. /\ UNCHANGED <<shutStranger, closedStranger>>
        /\ \A f \in Fds : /\ owner'[f] = "client" <=> owner[f] = "client"
                          /\ owner'[f] = "listener" <=> owner[f] = "listener"
    BY <2>1, StrangerEffect
  <2>3. {f \in Fds : owner'[f] = "listener"} = {f \in Fds : owner[f] = "listener"}
    BY <2>2
  <2> QED
    BY <2>1, <2>2, <2>3 DEF TableInv, ClientInv, ActiveInv, DoomedInv, ListenerInv, ClosesItsOwn
<1> QED
  BY <1>1, <1>2, <1>3, <1>4, <1>5, <1>6, <1>7, <1>8, <1>9, <1>10 DEF Next, WorkerStep

\* Types in four groups: a step disturbs one or two of them.
TableType == owner \in [Fds -> Owners] /\ shut \subseteq Fds /\ {shutStranger, closedStranger} \subseteq BOOLEAN
ClientType == client # NoFd => client \in Fds /\ owner[client] = "client"
WorkerType ==
    /\ pc \in WorkerSteps /\ kind \in Kinds
    /\ activeSocket \in Fds \cup {NoFd} /\ doomed \subseteq Fds
    /\ {channel, listening, closed, didCallCloseHandler} \subseteq BOOLEAN
    /\ handlerCalls \in Nat
CallType ==
    /\ closeCompletions \subseteq Closers /\ draining \subseteq Closers
    /\ closer \in [Closers -> [pc : {"idle", "shutdown", "done"}, fd : Fds \cup {NoFd}]]
    /\ answers \in [Closers -> Nat]

LEMMA Types == TypeOK <=> TableType /\ ClientType /\ WorkerType /\ CallType
BY DEF TypeOK, TableType, ClientType, WorkerType, CallType, Owners

LEMMA TypeNext == TypeOK /\ TableInv /\ [Next]_vars => TypeOK'
<1> SUFFICES ASSUME TypeOK, TableInv, [Next]_vars PROVE TypeOK'
  OBVIOUS
<1> USE DEF GoTo
<1>t. TableType /\ ClientType /\ WorkerType /\ CallType
  BY Types
<1>p. TableType' /\ ClientType' /\ WorkerType' /\ CallType' => TypeOK'
  BY DEF TypeOK, TableType, ClientType, WorkerType, CallType, Owners
<1>q. ASSUME UNCHANGED <<tableVars, client>> PROVE TableType' /\ ClientType'
  BY <1>q, <1>t DEF tableVars, TableType, ClientType
<1>c. ASSUME UNCHANGED <<closeCompletions, draining, closer, answers>> PROVE CallType'
  BY <1>c, <1>t DEF CallType
<1>1. CASE \/ CheckClosed \/ NoClient \/ ListenerFails \/ AcceptChannel \/ TargetFails
           \/ OpenChannel \/ Bridge \/ FreeChannel \/ ClientStep
  <2>1. UNCHANGED <<tableVars, lockVars, endVars, client, doomed, listening, closer>>
    BY <1>1 DEF CheckClosed, NoClient, ListenerFails, AcceptChannel, TargetFails, OpenChannel, Bridge,
                FreeChannel, ClientStep, ReadRequest, RequestFails, Transfer, TransferEnds
  <2>2. pc' \in WorkerSteps
    BY <1>1 DEF CheckClosed, NoClient, ListenerFails, AcceptChannel, TargetFails, OpenChannel, Bridge,
                FreeChannel, ClientStep, ReadRequest, RequestFails, Transfer, TransferEnds, WorkerSteps
  <2>3. channel' \in BOOLEAN
    BY <1>1, <1>t DEF CheckClosed, NoClient, ListenerFails, AcceptChannel, TargetFails, OpenChannel, Bridge,
                FreeChannel, ClientStep, ReadRequest, RequestFails, Transfer, TransferEnds, WorkerType
  <2>4. WorkerType'
    BY <2>1, <2>2, <2>3, <1>t DEF WorkerType, lockVars, endVars
  <2>5. CallType' /\ TableType' /\ ClientType'
    BY <2>1, <1>q, <1>c DEF lockVars, endVars
  <2> QED
    BY <2>4, <2>5, <1>p
<1>2. CASE AcceptClient \/ ConnectTarget
  <2>1. /\ TakeClient /\ pc' = "accepted"
        /\ UNCHANGED <<lockVars, endVars, doomed, channel, listening, closer>>
    BY <1>2 DEF AcceptClient, ConnectTarget
  <2>2. TableType' /\ ClientType'
    BY <2>1, <1>t, ClientEffect DEF TableType, ClientType
  <2>3. WorkerType' /\ CallType'
    BY <2>1, <1>t, <1>c DEF WorkerType, lockVars, endVars, WorkerSteps
  <2> QED
    BY <2>2, <2>3, <1>p
<1>3. CASE PublishClient
  <2>k. kind \in {"local", "dynamic", "remote"}
    BY <1>t, ForwardAssumption DEF ForwardAssumption, WorkerType
  <2>1. /\ pc' \in {"open", "socks", "bridge"} /\ activeSocket' = client
        /\ UNCHANGED <<tableVars, closed, didCallCloseHandler, closeCompletions, endVars, client, doomed,
                       channel, listening, closer>>
    BY <1>3, <2>k DEF PublishClient
  <2>2. client \in Fds \cup {NoFd}
    BY <1>t DEF ClientType
  <2>3. WorkerType'
    BY <2>1, <2>2, <1>t DEF WorkerType, endVars, WorkerSteps
  <2>4. CallType' /\ TableType' /\ ClientType'
    BY <2>1, <1>q, <1>c DEF endVars
  <2> QED
    BY <2>3, <2>4, <1>p
<1>4. CASE CloseClient
  <2>1. /\ pc \in {"closeClient", "bridged"} /\ pc' = "clearActive" /\ CloseDescriptors({client})
        /\ client' = NoFd /\ UNCHANGED <<lockVars, endVars, doomed, channel, listening, closer>>
    BY <1>4 DEF CloseClient
  <2>2. client \in Fds /\ owner[client] = "client"
    BY <2>1, <1>t DEF TableInv, ClientInv, WithClient, ClientType
  <2>3. TableType' /\ ClientType'
    BY <2>1, <2>2, <1>t, CloseEffect DEF TableInv, TableType, ClientType
  <2>4. WorkerType' /\ CallType'
    BY <2>1, <1>t, <1>c DEF WorkerType, lockVars, endVars, WorkerSteps
  <2> QED
    BY <2>3, <2>4, <1>p
<1>5. CASE ClearActive \/ InvalidateLock
  <2>1. /\ pc' \in {"freeChannel", "loop", "release"} /\ activeSocket' = NoFd
        /\ closed' \in {closed, TRUE} /\ doomed' \subseteq Fds
        /\ UNCHANGED <<tableVars, didCallCloseHandler, closeCompletions, endVars, client,
                       channel, listening, closer>>
    BY <1>5, <1>t DEF ClearActive, InvalidateLock, WorkerType
  <2>2. WorkerType'
    BY <2>1, <1>t DEF WorkerType, endVars, WorkerSteps
  <2>3. CallType' /\ TableType' /\ ClientType'
    BY <2>1, <1>q, <1>c DEF endVars
  <2> QED
    BY <2>2, <2>3, <1>p
<1>6. CASE ReleaseListener
  <2>1. /\ pc = "release" /\ pc' = "handler" /\ CloseDescriptors(doomed) /\ doomed' = {}
        /\ listening' = FALSE /\ UNCHANGED <<lockVars, endVars, client, channel, closer>>
    BY <1>6 DEF ReleaseListener
  <2>2. doomed = {f \in Fds : owner[f] = "listener"} /\ client = NoFd
    BY <2>1 DEF TableInv, DoomedInv, ClientInv, WithClient
  <2>3. TableType' /\ ClientType'
    BY <2>1, <2>2, <1>t, CloseEffect DEF TableInv, TableType, ClientType
  <2>4. WorkerType' /\ CallType'
    BY <2>1, <1>t, <1>c DEF WorkerType, lockVars, endVars, WorkerSteps
  <2> QED
    BY <2>3, <2>4, <1>p
<1>7. CASE MarkHandlerCalled \/ CallHandler \/ DrainCompletions \/ Finish
  <2>1. /\ pc' \in {"callHandler", "drain", "answer", "done"}
        /\ didCallCloseHandler' \in {didCallCloseHandler, TRUE}
        /\ handlerCalls' \in {handlerCalls, handlerCalls + 1}
        /\ UNCHANGED <<tableVars, activeSocket, closed, kind, answers, client, doomed, channel,
                       listening, closer>>
    BY <1>7 DEF MarkHandlerCalled, CallHandler, DrainCompletions, Finish, lockVars, endVars
  <2>2. closeCompletions' \subseteq closeCompletions /\ draining' \subseteq draining \cup closeCompletions
    BY <1>7 DEF MarkHandlerCalled, CallHandler, DrainCompletions, Finish, lockVars, endVars
  <2>3. handlerCalls' \in Nat
    BY <2>1, <1>t DEF WorkerType
  <2>4. WorkerType'
    BY <2>1, <2>3, <1>t DEF WorkerType, WorkerSteps
  <2>5. CallType'
    BY <2>1, <2>2, <1>t DEF CallType
  <2> QED
    BY <2>1, <2>4, <2>5, <1>q, <1>p
<1>8. CASE AnswerClose \/ \E c \in Closers : CloseTooLate(c)
  <2>1. PICK c \in Closers : answers' = [answers EXCEPT ![c] = @ + 1]
    BY <1>8, <1>t DEF AnswerClose, CloseTooLate, CallType
  <2>2. /\ UNCHANGED <<tableVars, lockVars, kind, handlerCalls, pc, client, doomed, channel, listening>>
        /\ draining' \subseteq draining
    BY <1>8 DEF AnswerClose, CloseTooLate
  <2>3. closer' \in [Closers -> [pc : {"idle", "shutdown", "done"}, fd : Fds \cup {NoFd}]]
    <3>1. CASE AnswerClose
      BY <3>1, <1>t DEF AnswerClose, CallType
    <3>2. ASSUME NEW x \in Closers, CloseTooLate(x) PROVE closer' = [closer EXCEPT ![x].pc = "done"]
      BY <3>2 DEF CloseTooLate
    <3>3. ASSUME NEW x \in Closers, CloseTooLate(x)
          PROVE closer' \in [Closers -> [pc : {"idle", "shutdown", "done"}, fd : Fds \cup {NoFd}]]
      BY <3>2, <3>3, <1>t DEF CallType
    <3> QED
      BY <1>8, <3>1, <3>3
  <2>4. WorkerType' /\ CallType'
    BY <2>1, <2>2, <2>3, <1>t DEF WorkerType, CallType, lockVars
  <2> QED
    BY <2>2, <2>4, <1>q, <1>p
<1>9. ASSUME NEW c \in Closers, CloseRequest(c) PROVE TypeOK'
  <2>1. /\ closed' = TRUE /\ closeCompletions' = closeCompletions \cup {c}
        /\ closer' = [closer EXCEPT ![c] = [pc |-> "shutdown", fd |-> activeSocket]]
        /\ UNCHANGED <<tableVars, activeSocket, didCallCloseHandler, endVars, pc, client, doomed, channel,
                       listening>>
    BY <1>9 DEF CloseRequest
  <2>2. WorkerType' /\ CallType'
    BY <2>1, <1>t DEF WorkerType, CallType, endVars
  <2> QED
    BY <2>1, <2>2, <1>q, <1>p
<1>10. ASSUME NEW c \in Closers, CloseShutdown(c) PROVE TypeOK'
  <2>1. /\ ShutdownDescriptor(closer[c].fd) /\ closer' = [closer EXCEPT ![c].pc = "done"]
        /\ UNCHANGED <<lockVars, endVars, pc, client, doomed, channel, listening>>
    BY <1>10 DEF CloseShutdown
  <2>2. closer[c].fd \in Fds \cup {NoFd}
    BY <1>t DEF CallType
  <2>3. TableType' /\ ClientType'
    BY <2>1, <2>2, <1>t DEF ShutdownDescriptor, TableType, ClientType
  <2>4. WorkerType' /\ CallType'
    BY <2>1, <1>t DEF WorkerType, CallType, lockVars, endVars
  <2> QED
    BY <2>3, <2>4, <1>p
<1>11. CASE Stranger
  <2>1. StrangerStep /\ UNCHANGED <<lockVars, endVars, pc, client, doomed, channel, listening, closer>>
    BY <1>11 DEF Stranger
  <2>2. TableType' /\ ClientType'
    BY <2>1, <1>t, StrangerEffect DEF TableType, ClientType
  <2>3. WorkerType' /\ CallType'
    BY <2>1, <1>t, <1>c DEF WorkerType, lockVars, endVars
  <2> QED
    BY <2>2, <2>3, <1>p
<1>12. CASE UNCHANGED vars
  BY <1>12, <1>t, <1>q, <1>c, <1>p DEF vars, WorkerType, lockVars, endVars
<1> QED
  BY <1>1, <1>2, <1>3, <1>4, <1>5, <1>6, <1>7, <1>8, <1>9, <1>10, <1>11, <1>12 DEF Next, WorkerStep

LEMMA WorkerNext == TypeOK /\ WorkerInv /\ [Next]_vars => WorkerInv'
<1> SUFFICES ASSUME TypeOK, WorkerInv, [Next]_vars PROVE WorkerInv'
  OBVIOUS
<1> USE DEF GoTo, WorkerInv, ChannelInv, Foreign, WithChannel, HandlerInv, HandlerCalled
<1>k. kind # "remote" => kind \in {"local", "dynamic"}
  BY ForwardAssumption DEF ForwardAssumption, TypeOK
<1>1. CASE CheckClosed \/ NoClient \/ ListenerFails \/ AcceptChannel \/ TargetFails
  BY <1>1 DEF CheckClosed, NoClient, ListenerFails, AcceptChannel, TargetFails, lockVars, endVars
<1>2. CASE AcceptClient \/ ConnectTarget
  BY <1>2 DEF AcceptClient, ConnectTarget, lockVars, endVars
<1>3. CASE PublishClient
  BY <1>3, <1>k DEF PublishClient, endVars
<1>4. CASE OpenChannel \/ Bridge \/ ClientStep
  BY <1>4 DEF OpenChannel, Bridge, ClientStep, ReadRequest, RequestFails, Transfer, TransferEnds,
              lockVars, endVars
<1>5. CASE FreeChannel \/ CloseClient \/ ClearActive
  BY <1>5 DEF FreeChannel, CloseClient, ClearActive, lockVars, endVars
<1>6. CASE InvalidateLock \/ ReleaseListener \/ DrainCompletions \/ AnswerClose \/ Finish
  BY <1>6 DEF InvalidateLock, ReleaseListener, DrainCompletions, AnswerClose, Finish, lockVars, endVars
<1>7. CASE MarkHandlerCalled \/ CallHandler
  BY <1>7 DEF MarkHandlerCalled, CallHandler, lockVars, endVars
<1>8. CASE Stranger \/ UNCHANGED vars
  BY <1>8 DEF Stranger, vars, lockVars, endVars
<1>9. CASE \E c \in Closers : CloseTooLate(c) \/ CloseRequest(c) \/ CloseShutdown(c)
  <2>1. UNCHANGED <<kind, pc, channel, didCallCloseHandler, handlerCalls>>
    BY <1>9 DEF CloseTooLate, CloseRequest, CloseShutdown, lockVars, endVars
  <2> QED
    BY <2>1
<1> QED
  BY <1>1, <1>2, <1>3, <1>4, <1>5, <1>6, <1>7, <1>8, <1>9 DEF Next, WorkerStep

\* A step that moves no call keeps them where they are, as long as the worker does not begin
\* or end answering.
LEMMA SpareCalls ==
    ASSUME AnswerInv, UNCHANGED <<closeCompletions, draining, closer, answers>>,
           pc \in HandlerCalled => pc' \in HandlerCalled,
           pc' \in {"answer", "done"} => pc \in {"answer", "done"},
           draining = {} \/ pc' = "answer"
    PROVE  AnswerInv'
BY DEF AnswerInv, Place, Kept, Taken

LEMMA AnswerNext == TypeOK /\ WorkerInv /\ AnswerInv /\ [Next]_vars => AnswerInv'
<1> SUFFICES ASSUME TypeOK, WorkerInv, AnswerInv, [Next]_vars PROVE AnswerInv'
  OBVIOUS
<1> USE DEF GoTo, HandlerCalled
<1>t. CallType
  BY Types
<1>k. kind \in {"local", "dynamic", "remote"}
  BY ForwardAssumption DEF ForwardAssumption, TypeOK
<1>d. didCallCloseHandler <=> pc \in HandlerCalled
  BY DEF WorkerInv, HandlerInv
<1>1. CASE \/ CheckClosed \/ NoClient \/ ListenerFails \/ AcceptChannel \/ TargetFails
           \/ AcceptClient \/ ConnectTarget \/ PublishClient
  <2>1. /\ pc \in {"loop", "select", "target", "accepted"} /\ pc' \notin {"answer", "done"}
        /\ UNCHANGED <<closeCompletions, draining, closer, answers>>
    BY <1>1, <1>k DEF CheckClosed, NoClient, ListenerFails, AcceptChannel, TargetFails, AcceptClient,
                ConnectTarget, PublishClient, lockVars, endVars
  <2> QED
    BY <2>1, SpareCalls DEF AnswerInv
<1>2. CASE OpenChannel \/ Bridge \/ ClientStep
  <2>1. /\ pc \in {"socks", "open", "bridge", "transfer"} /\ pc' \notin {"answer", "done"}
        /\ UNCHANGED <<closeCompletions, draining, closer, answers>>
    BY <1>2 DEF OpenChannel, Bridge, ClientStep, ReadRequest, RequestFails, Transfer, TransferEnds,
                lockVars, endVars
  <2> QED
    BY <2>1, SpareCalls DEF AnswerInv
<1>3. CASE \/ FreeChannel \/ CloseClient \/ ClearActive \/ InvalidateLock \/ ReleaseListener
           \/ MarkHandlerCalled \/ CallHandler
  <2>1. /\ pc \in {"bridged", "freeChannel", "closeClient", "clearActive", "invalidate", "release",
                   "handler", "callHandler"}
        /\ pc = "callHandler" => pc' = "drain"
        /\ pc' \notin {"answer", "done"}
        /\ UNCHANGED <<closeCompletions, draining, closer, answers>>
    BY <1>3 DEF FreeChannel, CloseClient, ClearActive, InvalidateLock, ReleaseListener,
                MarkHandlerCalled, CallHandler, lockVars, endVars
  <2> QED
    BY <2>1, SpareCalls DEF AnswerInv
<1>4. CASE DrainCompletions
  <2>1. /\ pc = "drain" /\ pc' = "answer" /\ draining' = closeCompletions /\ closeCompletions' = {}
        /\ UNCHANGED <<closer, answers>>
    BY <1>4 DEF DrainCompletions
  <2> QED
    BY <2>1 DEF AnswerInv, Place, Kept, Taken
<1>5. CASE AnswerClose
  <2>1. PICK c \in draining : /\ draining' = draining \ {c}
                              /\ answers' = [answers EXCEPT ![c] = @ + 1]
    BY <1>5 DEF AnswerClose
  <2>2. pc = "answer" /\ UNCHANGED <<pc, closeCompletions, closer>>
    BY <1>5 DEF AnswerClose, lockVars
  <2>3. c \in Closers /\ closer[c].pc # "idle" /\ ~Kept(c) /\ answers[c] = 0
    BY <2>1, <1>t DEF AnswerInv, Place, Taken, CallType
  <2>4. \A x \in Closers : answers'[x] = IF x = c THEN 1 ELSE answers[x]
    BY <2>1, <2>3, <1>t DEF CallType
  <2>5. \A x \in Closers : Place(x)'
    BY <2>1, <2>2, <2>3, <2>4 DEF AnswerInv, Place, Kept, Taken
  <2> QED
    BY <2>2, <2>5 DEF AnswerInv
<1>6. CASE Finish
  <2>1. /\ pc = "answer" /\ pc' = "done" /\ draining = {}
        /\ UNCHANGED <<closeCompletions, draining, closer, answers>>
    BY <1>6 DEF Finish, lockVars, endVars
  <2> QED
    BY <2>1, SpareCalls
<1>7. CASE Stranger \/ UNCHANGED vars
  <2>1. UNCHANGED <<pc, closeCompletions, draining, closer, answers>>
    BY <1>7 DEF Stranger, vars, lockVars, endVars
  <2> QED
    BY <2>1 DEF AnswerInv, Place, Kept, Taken
<1>8. ASSUME NEW c \in Closers, CloseTooLate(c) PROVE AnswerInv'
  <2>1. /\ closer[c].pc = "idle" /\ pc \in HandlerCalled
        /\ closer' = [closer EXCEPT ![c].pc = "done"] /\ answers' = [answers EXCEPT ![c] = @ + 1]
        /\ UNCHANGED <<pc, closeCompletions, draining>>
    BY <1>8, <1>d DEF CloseTooLate, lockVars
  <2>2. \A x \in Closers : /\ closer'[x].pc = IF x = c THEN "done" ELSE closer[x].pc
                           /\ answers'[x] = IF x = c THEN answers[c] + 1 ELSE answers[x]
    BY <2>1, <1>t DEF CallType
  <2>3. ~Kept(c) /\ ~Taken(c) /\ answers[c] = 0
    BY <2>1 DEF AnswerInv, Place
  <2>4. \A x \in Closers : Place(x)'
    BY <2>1, <2>2, <2>3 DEF AnswerInv, Place, Kept, Taken
  <2> QED
    BY <2>1, <2>4 DEF AnswerInv
<1>9. ASSUME NEW c \in Closers, CloseRequest(c) PROVE AnswerInv'
  <2>1. /\ closer[c].pc = "idle" /\ pc \notin HandlerCalled
        /\ closeCompletions' = closeCompletions \cup {c}
        /\ closer' = [closer EXCEPT ![c] = [pc |-> "shutdown", fd |-> activeSocket]]
        /\ UNCHANGED <<pc, draining, answers>>
    BY <1>9, <1>d DEF CloseRequest, endVars
  <2>2. \A x \in Closers : closer'[x].pc = IF x = c THEN "shutdown" ELSE closer[x].pc
    BY <2>1, <1>t DEF CallType
  <2>3. ~Taken(c) /\ answers[c] = 0
    BY <2>1 DEF AnswerInv, Place
  <2>4. \A x \in Closers : Place(x)'
    BY <2>1, <2>2, <2>3 DEF AnswerInv, Place, Kept, Taken
  <2> QED
    BY <2>1, <2>4 DEF AnswerInv
<1>10. ASSUME NEW c \in Closers, CloseShutdown(c) PROVE AnswerInv'
  <2>1. /\ closer[c].pc = "shutdown" /\ closer' = [closer EXCEPT ![c].pc = "done"]
        /\ UNCHANGED <<pc, closeCompletions, draining, answers>>
    BY <1>10 DEF CloseShutdown, lockVars, endVars
  <2>2. \A x \in Closers : closer'[x].pc = IF x = c THEN "done" ELSE closer[x].pc
    BY <2>1, <1>t DEF CallType
  <2>3. \A x \in Closers : Place(x)'
    BY <2>1, <2>2 DEF AnswerInv, Place, Kept, Taken
  <2> QED
    BY <2>1, <2>3 DEF AnswerInv
<1> QED
  BY <1>1, <1>2, <1>3, <1>4, <1>5, <1>6, <1>7, <1>8, <1>9, <1>10 DEF Next, WorkerStep

LEMMA InvNext == ForwardInv /\ [Next]_vars => ForwardInv'
BY TypeNext, TableNext, WorkerNext, AnswerNext DEF ForwardInv

\* Where the worker is says what the forward holds, and every close call is in one place
\* (the inductive invariant of the theorems below).
THEOREM ForwardInvariant == Spec => []ForwardInv
<1>1. Init => ForwardInv
  BY InvInit
<1>2. ForwardInv /\ [Next]_vars => ForwardInv'
  BY InvNext
<1> QED
  BY <1>1, <1>2, PTL DEF Spec

\* Past the release a forward holds nothing, and nowhere before it.
LEMMA ReleasedWhere == ForwardInv => (Released <=> pc \in PastRelease)
BY DEF ForwardInv, TableInv, ListenerInv, ClientInv, WorkerInv, ChannelInv, WithChannel, WithClient,
       PastRelease, HandlerCalled, Released, TypeOK, NoFd, Fds

LEMMA InvIsSafe == ForwardInv => ForwardIsSafe
<1> SUFFICES ASSUME ForwardInv PROVE ForwardIsSafe
  OBVIOUS
<1>1. TypeOK /\ ClosesItsOwn
  BY DEF ForwardInv, TableInv
<1>2. ReadyMeansReleased
  BY ReleasedWhere DEF ForwardInv, WorkerInv, HandlerInv, PastRelease, HandlerCalled, ReadyMeansReleased
<1>3. AnsweredOnce
  <2>1. \A c \in Closers : answers[c] <= 1
    BY DEF ForwardInv, AnswerInv, Place
  <2>2. ASSUME pc = "done", NEW c \in Closers, closer[c].pc # "idle" PROVE answers[c] = 1
    BY <2>2 DEF ForwardInv, AnswerInv, Place, Kept, Taken
  <2> QED
    BY <2>1, <2>2 DEF AnsweredOnce
<1> QED
  BY <1>1, <1>2, <1>3 DEF ForwardIsSafe

\* A close is answered once, after everything is released, and the forward closes its own
\* descriptors only, however the numbers are reused (closeWithCompletion:,
\* invalidateOnWorkerQueue, completePendingCloseCompletions).
THEOREM ForwardSafe == Spec => []ForwardIsSafe
BY ForwardInvariant, InvIsSafe, PTL

-----------------------------------------------------------------------------
(***************************************************************************)
(* The promise of every runtime.                                           *)
(***************************************************************************)

CallOf(c) == IF answers[c] > 0 THEN "answered" ELSE IF closer[c].pc = "idle" THEN "none" ELSE "waiting"

LEMMA RefinesInit == Init => Closable!Init
<1> SUFFICES ASSUME Init PROVE Closable!Init
  OBVIOUS
<1>1. Released = FALSE
  BY DEF Init, Released
<1>2. \A c \in Closers : CallOf(c) = "none"
  BY DEF Init, CallOf
<1> QED
  BY <1>1, <1>2 DEF Closable!Init, CallOf

\* A step of no call changes what is promised only by releasing everything.
LEMMA ReleaseStep ==
    ASSUME UNCHANGED answers, \A c \in Closers : closer'[c].pc = "idle" <=> closer[c].pc = "idle",
           Released => Released', Released \in BOOLEAN, Released' \in BOOLEAN
    PROVE  Closable!Next \/ UNCHANGED <<Released, [c \in Closers |-> CallOf(c)]>>
<1>1. UNCHANGED [c \in Closers |-> CallOf(c)]
  BY DEF CallOf
<1> QED
  BY <1>1 DEF Closable!Next, Closable!Release, CallOf

LEMMA RefinesNext ==
    ForwardInv /\ ForwardInv' /\ [Next]_vars
        => Closable!Next \/ UNCHANGED <<Released, [c \in Closers |-> CallOf(c)]>>
<1> SUFFICES ASSUME ForwardInv, ForwardInv', [Next]_vars
             PROVE  Closable!Next \/ UNCHANGED <<Released, [c \in Closers |-> CallOf(c)]>>
  OBVIOUS
<1>r. (Released <=> pc \in PastRelease) /\ (Released' <=> pc' \in PastRelease)
  <2>1. Released <=> pc \in PastRelease
    BY ReleasedWhere
  <2>2. (ForwardInv => (Released <=> pc \in PastRelease))'
    BY ReleasedWhere, PTL
  <2> QED
    BY <2>1, <2>2
<1>b. Released \in BOOLEAN /\ Released' \in BOOLEAN
  BY DEF Released
<1>t. CallType
  BY Types DEF ForwardInv
<1> USE DEF GoTo, PastRelease, HandlerCalled
<1>1. CASE ClientStep \/ Stranger \/ (WorkerStep /\ ~AnswerClose) \/ UNCHANGED vars
  <2>1. UNCHANGED <<closer, answers>>
    BY <1>1 DEF ClientStep, ReadRequest, RequestFails, Transfer, TransferEnds, Stranger, WorkerStep,
        CheckClosed, NoClient, ListenerFails, AcceptClient, AcceptChannel, ConnectTarget, TargetFails,
        PublishClient, OpenChannel, Bridge, FreeChannel, CloseClient, ClearActive, InvalidateLock,
        ReleaseListener, MarkHandlerCalled, CallHandler, DrainCompletions, Finish, vars, endVars
  <2>2. pc \in PastRelease => pc' \in PastRelease
    BY <1>1 DEF ClientStep, ReadRequest, RequestFails, Transfer, TransferEnds, Stranger, WorkerStep,
        CheckClosed, NoClient, ListenerFails, AcceptClient, AcceptChannel, ConnectTarget, TargetFails,
        PublishClient, OpenChannel, Bridge, FreeChannel, CloseClient, ClearActive, InvalidateLock,
        ReleaseListener, MarkHandlerCalled, CallHandler, DrainCompletions, Finish, vars
  <2> QED
    BY <2>1, <2>2, <1>r, <1>b, ReleaseStep
<1>2. CASE AnswerClose
  <2>1. PICK c \in draining : answers' = [answers EXCEPT ![c] = @ + 1]
    BY <1>2 DEF AnswerClose
  <2>2. pc = "answer" /\ UNCHANGED <<pc, closer>>
    BY <1>2 DEF AnswerClose
  <2>3. c \in Closers /\ CallOf(c) # "answered" /\ CallOf(c)' = "answered"
    BY <2>1, <2>2, <1>t DEF CallOf, CallType, ForwardInv, AnswerInv, Place, Taken
  <2>4. \A x \in Closers \ {c} : UNCHANGED CallOf(x)
    BY <2>1, <2>2, <2>3, <1>t DEF CallOf, CallType
  <2>5. Released' = TRUE
    BY <2>2, <1>r, <1>b
  <2>6. Closable!Answer(c)
    BY <2>3, <2>4, <2>5 DEF Closable!Answer, CallOf
  <2> QED
    BY <2>3, <2>6 DEF Closable!Next
<1>3. ASSUME NEW c \in Closers, CloseTooLate(c) PROVE Closable!Next
  <2>1. /\ closer[c].pc = "idle" /\ pc \in HandlerCalled /\ UNCHANGED pc
        /\ closer' = [closer EXCEPT ![c].pc = "done"] /\ answers' = [answers EXCEPT ![c] = @ + 1]
    BY <1>3 DEF CloseTooLate, ForwardInv, WorkerInv, HandlerInv
  <2>2. \A x \in Closers : /\ closer'[x].pc = IF x = c THEN "done" ELSE closer[x].pc
                           /\ answers'[x] = IF x = c THEN answers[c] + 1 ELSE answers[x]
    BY <2>1, <1>t DEF CallType
  <2>3. answers[c] = 0
    BY <2>1 DEF ForwardInv, AnswerInv, Place
  <2>4. CallOf(c) # "answered" /\ CallOf(c)' = "answered" /\ \A x \in Closers \ {c} : UNCHANGED CallOf(x)
    BY <2>1, <2>2, <2>3 DEF CallOf
  <2>5. Released' = TRUE
    BY <2>1, <1>r, <1>b
  <2>6. Closable!Answer(c)
    BY <2>4, <2>5 DEF Closable!Answer, CallOf
  <2> QED
    BY <2>6 DEF Closable!Next
<1>4. ASSUME NEW c \in Closers, CloseRequest(c) PROVE Closable!Next
  <2>1. /\ closer[c].pc = "idle" /\ UNCHANGED <<pc, answers>>
        /\ closer' = [closer EXCEPT ![c] = [pc |-> "shutdown", fd |-> activeSocket]]
    BY <1>4 DEF CloseRequest, endVars
  <2>2. \A x \in Closers : closer'[x].pc = IF x = c THEN "shutdown" ELSE closer[x].pc
    BY <2>1, <1>t DEF CallType
  <2>3. answers[c] = 0
    BY <2>1 DEF ForwardInv, AnswerInv, Place
  <2>4. CallOf(c) = "none" /\ CallOf(c)' = "waiting" /\ \A x \in Closers \ {c} : UNCHANGED CallOf(x)
    BY <2>1, <2>2, <2>3 DEF CallOf
  <2>5. UNCHANGED Released
    BY <2>1, <1>r, <1>b
  <2>6. Closable!Call(c)
    BY <2>4, <2>5 DEF Closable!Call, CallOf
  <2> QED
    BY <2>6 DEF Closable!Next
<1>5. ASSUME NEW c \in Closers, CloseShutdown(c)
      PROVE  Closable!Next \/ UNCHANGED <<Released, [x \in Closers |-> CallOf(x)]>>
  <2>1. /\ closer[c].pc = "shutdown" /\ closer' = [closer EXCEPT ![c].pc = "done"]
        /\ UNCHANGED <<pc, answers>>
    BY <1>5 DEF CloseShutdown, endVars
  <2>2. \A x \in Closers : closer'[x].pc = "idle" <=> closer[x].pc = "idle"
    BY <2>1, <1>t DEF CallType
  <2> QED
    BY <2>1, <2>2, <1>r, <1>b, ReleaseStep
<1> QED
  BY <1>1, <1>2, <1>3, <1>4, <1>5 DEF Next

\* Closing a forward implements what every runtime promises of closeWithCompletion:.
THEOREM KeepsPromise == Spec => ImplementsClosable
<1>1. Init => Closable!Init
  BY RefinesInit
<1>2. ForwardInv /\ ForwardInv' /\ [Next]_vars
        => [Closable!Next]_<<Released, [c \in Closers |-> CallOf(c)]>>
  BY RefinesNext
<1> QED
  BY <1>1, <1>2, ForwardInvariant, PTL DEF Spec, ImplementsClosable, Closable!Spec, CallOf

-----------------------------------------------------------------------------
(***************************************************************************)
(* The global requests of a session and its remote forwards.               *)
(***************************************************************************)

-----------------------------------------------------------------------------
(***************************************************************************)
(* Counting in queues.                                                     *)
(***************************************************************************)

\* The places of q that hold one of S.
At(q, S) == {i \in 1..Len(q) : q[i] \in S}
Count(q, S) == Cardinality(At(q, S))

LEMMA Counts ==
    ASSUME NEW T, NEW q \in Seq(T), NEW S
    PROVE  IsFiniteSet(At(q, S)) /\ Count(q, S) \in Nat
  <1>1. Len(q) \in Nat  OBVIOUS
  <1>2. IsFiniteSet(1..Len(q))  BY <1>1, FS_Interval
  <1>3. At(q, S) \in SUBSET (1..Len(q))  BY DEF At
  <1>4. IsFiniteSet(At(q, S))  BY <1>2, <1>3, FS_Subset
  <1>. QED  BY <1>4, FS_CardinalityType DEF Count

\* What is put in counts.
LEMMA CountAppend ==
    ASSUME NEW T, NEW q \in Seq(T), NEW e \in T, NEW S
    PROVE  Count(Append(q, e), S) = Count(q, S) + (IF e \in S THEN 1 ELSE 0)
  <1>. DEFINE n == Len(q) + 1
  <1>1. Len(Append(q, e)) = n /\ Append(q, e)[n] = e /\ n \in Nat
        /\ \A i \in 1..Len(q) : Append(q, e)[i] = q[i]
    OBVIOUS
  <1>2. IsFiniteSet(At(q, S)) /\ Count(q, S) \in Nat  BY Counts
  <1>3. n \notin At(q, S)  BY DEF At
  <1>4. CASE e \in S
    <2>1. At(Append(q, e), S) = At(q, S) \cup {n}
      <3>1. ASSUME NEW i PROVE i \in At(Append(q, e), S) <=> i \in At(q, S) \cup {n}
        BY <1>1, <1>4 DEF At
      <3>. QED  BY <3>1
    <2>. HIDE DEF n
    <2>2. Cardinality(At(q, S) \cup {n}) = Cardinality(At(q, S)) + 1  BY <1>2, <1>3, FS_AddElement
    <2>. QED  BY <1>4, <2>1, <2>2 DEF Count
  <1>5. CASE e \notin S
    <2>1. At(Append(q, e), S) = At(q, S)
      <3>1. ASSUME NEW i PROVE i \in At(Append(q, e), S) <=> i \in At(q, S)
        BY <1>1, <1>5 DEF At
      <3>. QED  BY <3>1
    <2>. QED  BY <1>2, <1>5, <2>1 DEF Count
  <1>. QED  BY <1>4, <1>5

\* What is taken out counts no longer.
LEMMA CountTail ==
    ASSUME NEW T, NEW q \in Seq(T), q # <<>>, NEW S
    PROVE  Count(q, S) = Count(Tail(q), S) + (IF Head(q) \in S THEN 1 ELSE 0)
  <1>. DEFINE J == At(Tail(q), S)
              K == At(q, S) \ {1}
  <1>1. Len(q) \in Nat /\ Len(q) >= 1 /\ Len(Tail(q)) = Len(q) - 1 /\ Head(q) = q[1] /\ Tail(q) \in Seq(T)
        /\ \A i \in 1..(Len(q) - 1) : Tail(q)[i] = q[i + 1]
    OBVIOUS
  <1>2. IsFiniteSet(At(q, S)) /\ Count(q, S) \in Nat  BY Counts
  <1>3. IsFiniteSet(J) /\ Cardinality(J) \in Nat  BY <1>1, Counts DEF Count
  <1>4. \A i \in J : i \in Int /\ i + 1 \in K  BY <1>1 DEF At
  <1>5. \A k \in K : k - 1 \in J  BY <1>1 DEF At
  <1>6. \A k \in K : k \in Int  BY DEF At
  <1>. HIDE DEF J, K
  <1>. DEFINE f == [i \in J |-> i + 1]
  <1>7. f \in [J -> K]  BY <1>4
  <1>8. \A i, j \in J : f[i] = f[j] => i = j
    <2>1. ASSUME NEW i \in J, NEW j \in J, f[i] = f[j] PROVE i = j
      <3>1. i \in Int /\ j \in Int /\ i + 1 = j + 1  BY <1>4, <2>1
      <3>. QED  BY <3>1
    <2>. QED  BY <2>1
  <1>9. \A k \in K : \E i \in J : f[i] = k
    <2>1. ASSUME NEW k \in K PROVE f[k - 1] = k
      <3>1. k - 1 \in J /\ k \in Int  BY <1>5, <1>6
      <3>. QED  BY <3>1
    <2>. QED  BY <1>5, <2>1
  <1>. HIDE DEF f
  <1>10. f \in Bijection(J, K)
    BY <1>7, <1>8, <1>9 DEF Bijection, Injection, Surjection, IsInjective
  <1>11. Cardinality(K) = Cardinality(J)  BY <1>3, <1>10, FS_Bijection DEF ExistsBijection
  <1>12. Cardinality(K) = IF 1 \in At(q, S) THEN Cardinality(At(q, S)) - 1 ELSE Cardinality(At(q, S))
    BY <1>2, FS_RemoveElement DEF K
  <1>13. 1 \in At(q, S) <=> Head(q) \in S  BY <1>1 DEF At
  <1>. QED  BY <1>2, <1>3, <1>11, <1>12, <1>13 DEF Count, J

\* A queue counts none of S exactly when none is in it.
LEMMA CountZero ==
    ASSUME NEW T, NEW q \in Seq(T), NEW S
    PROVE  Count(q, S) = 0 <=> \A i \in 1..Len(q) : q[i] \notin S
  <1>1. Count(q, S) = 0 <=> At(q, S) = {}  BY Counts, FS_EmptySet DEF Count
  <1>. QED  BY <1>1 DEF At

LEMMA CountEmpty ==
    ASSUME NEW S
    PROVE  Count(<<>>, S) = 0
  <1>1. At(<<>>, S) = {}  BY DEF At
  <1>. QED  BY <1>1, FS_EmptySet DEF Count

-----------------------------------------------------------------------------
(***************************************************************************)
(* The inductive invariant.                                                *)
(***************************************************************************)

Asking == [type : {"listen", "cancel"}, port : Ports \cup {0}, for : Forwards]
Telling == [type : {"confirmation", "close"}, port : {0}, for : Nat]
Answering == [type : {"success", "failure"}, port : Ports \cup {0}, connection : {0}]
Opening == [type : {"open"}, port : Ports \cup {0}, connection : Nat \ {0}]
ToServer == Asking \cup Telling
ToClient == Answering \cup Opening
Opens(c) == {e \in ToClient : e.connection = c}
Connection == [for : Nat, target : Nat, accepted : Nat]

Queues ==
    /\ toServer \in Seq(ToServer) /\ toClient \in Seq(ToClient)
    /\ messages \in Seq(Nat \ {0}) /\ connections \in Seq(Connection)
    /\ \A i \in 1..Len(messages) : messages[i] <= Len(connections)
    /\ \A i \in 1..Len(toClient) : toClient[i].connection <= Len(connections)

Worked ==
    /\ remotePc \in {"idle", "listening", "accept", "bridge", "cancelling"}
    /\ started \in 0..MaxForwards /\ remoteClosed \in BOOLEAN /\ abandoned \in BOOLEAN
    /\ started # 0 => forward \in [id : Forwards \cup {NoForward}, asked : Asks, bound : Ports \cup {0}]
    /\ remotePc # "idle" => started # 0 /\ forward.id = started
    /\ globalReqState \in {"none", "pending", "accepted", "denied"}
    /\ inBuffer \in Ports \cup {0}
    /\ serving \in 0..Len(connections) /\ (remotePc = "bridge" <=> serving # 0)
    /\ listener \in [Ports -> Forwards \cup {NoForward}]

Typed == Queues /\ Worked

\* One request is on its way, or its answer is.
One == Count(toServer, Asking) + Count(toClient, Answering) = IF globalReqState = "pending" THEN 1 ELSE 0

\* A connection is in one place.
Once ==
    \A c \in 1..Len(connections) :
        connections[c].accepted + Count(messages, {c}) + Count(toClient, Opens(c)) = 1

\* What the worker asked for is what the server is told, and what an answer is about.
Stopped == forward.bound # 0 => listener[forward.bound] # forward.id
Asked == remotePc \in {"listening", "cancelling"} <=> globalReqState # "none"
RequestsAreOwn ==
    \A i \in 1..Len(toServer) : toServer[i] \in Asking =>
        \/ remotePc = "listening" /\ toServer[i].type = "listen" /\ toServer[i].for = forward.id
        \/ remotePc = "cancelling" /\ toServer[i].type = "cancel" /\ toServer[i].port = forward.bound
AnswersAreOwn ==
    \A i \in 1..Len(toClient) : toClient[i] \in Answering =>
        \/ remotePc = "listening" /\ (toClient[i].type = "success" => Waits # {})
        \/ remotePc = "cancelling" /\ Stopped
Answered == remotePc = "listening" /\ globalReqState = "accepted" => Waits # {}
PromptInv ==
    /\ Asked /\ RequestsAreOwn /\ AnswersAreOwn /\ Answered
    /\ ListenIsReal /\ KnownPortStops

IInv == Typed /\ One /\ Once /\ (~abandoned => PromptInv)

-----------------------------------------------------------------------------
(***************************************************************************)
(* What each step does to the queues.                                      *)
(***************************************************************************)

\* A request that may be sent is put into the queue.
LEMMA RequestIsPut ==
    ASSUME Typed, NEW type \in {"listen", "cancel"}, NEW port \in Ports \cup {0}, forward'.id \in Forwards,
           GlobalRequest(type, port)
    PROVE  /\ toServer' \in Seq(ToServer) /\ globalReqState' \in {"none", "pending", "accepted", "denied"}
           /\ globalReqState' # "none"
           /\ \/ /\ globalReqState = "none" /\ globalReqState' = "pending"
                 /\ toServer' = Append(toServer, Request(type, port))
                 /\ Request(type, port) \in Asking
                 /\ Count(toServer', Asking) = Count(toServer, Asking) + 1
              \/ globalReqState # "none" /\ UNCHANGED <<toServer, globalReqState>>
  <1>1. Request(type, port) \in Asking  BY DEF Request, Asking
  <1>2. Request(type, port) \in ToServer  BY <1>1 DEF ToServer
  <1>3. toServer \in Seq(ToServer) /\ globalReqState \in {"none", "pending", "accepted", "denied"}
    BY DEF Typed, Queues, Worked
  <1>4. CASE globalReqState = "none"
    <2>1. toServer' = Append(toServer, Request(type, port)) /\ globalReqState' = "pending"
      BY <1>4 DEF GlobalRequest
    <2>2. Count(toServer, Asking) \in Nat  BY <1>3, Counts
    <2>3. Count(toServer', Asking) = Count(toServer, Asking) + 1  BY <1>1, <1>2, <1>3, <2>1, <2>2, CountAppend
    <2>4. toServer' \in Seq(ToServer)  BY <1>2, <1>3, <2>1
    <2>. QED  BY <1>1, <1>4, <2>1, <2>3, <2>4
  <1>5. CASE globalReqState # "none"  BY <1>3, <1>5 DEF GlobalRequest
  <1>. QED  BY <1>4, <1>5

\* Word of a connection is no request.
LEMMA Tells ==
    ASSUME Typed, NEW type \in {"confirmation", "close"}, NEW c \in Nat,
           toServer' = Append(toServer, [type |-> type, port |-> 0, for |-> c])
    PROVE  /\ toServer' \in Seq(ToServer) /\ Count(toServer', Asking) = Count(toServer, Asking)
           /\ [type |-> type, port |-> 0, for |-> c] \in Telling
           /\ [type |-> type, port |-> 0, for |-> c] \notin Asking
  <1>. DEFINE e == [type |-> type, port |-> 0, for |-> c]
  <1>1. e \in Telling /\ e \notin Asking  BY DEF Telling, Asking
  <1>2. toServer \in Seq(ToServer) /\ e \in ToServer  BY <1>1 DEF Typed, Queues, ToServer
  <1>. HIDE DEF e
  <1>3. toServer' = Append(toServer, e)  BY DEF e
  <1>4. Count(toServer, Asking) \in Nat  BY <1>2, Counts
  <1>5. Count(Append(toServer, e), Asking) = Count(toServer, Asking)  BY <1>1, <1>2, <1>4, CountAppend
  <1>. QED  BY <1>1, <1>2, <1>3, <1>5 DEF e

\* The server takes the first packet.
LEMMA ServerTakes ==
    ASSUME Typed, toServer # <<>>, toServer' = Tail(toServer)
    PROVE  /\ toServer' \in Seq(ToServer) /\ Head(toServer) \in ToServer /\ Head(toServer) = toServer[1]
           /\ 1 \in 1..Len(toServer)
           /\ Count(toServer', Asking) \in Nat
           /\ Count(toServer, Asking) = Count(toServer', Asking) + (IF Head(toServer) \in Asking THEN 1 ELSE 0)
           /\ \A i \in 1..Len(toServer') : i + 1 \in 1..Len(toServer) /\ toServer'[i] = toServer[i + 1]
  <1>1. toServer \in Seq(ToServer)  BY DEF Typed, Queues
  <1>2. Tail(toServer) \in Seq(ToServer) /\ Head(toServer) \in ToServer /\ Head(toServer) = toServer[1]
        /\ 1 \in 1..Len(toServer)
        /\ \A i \in 1..Len(Tail(toServer)) : i + 1 \in 1..Len(toServer) /\ Tail(toServer)[i] = toServer[i + 1]
    BY <1>1
  <1>3. Count(Tail(toServer), Asking) \in Nat  BY <1>2, Counts
  <1>4. Count(toServer, Asking) = Count(Tail(toServer), Asking) + (IF Head(toServer) \in Asking THEN 1 ELSE 0)
    BY <1>1, CountTail
  <1>. QED  BY <1>2, <1>3, <1>4

\* The server answers, or forwards a connection.
LEMMA ClientGets ==
    ASSUME Typed, NEW e \in ToClient, toClient' = Append(toClient, e)
    PROVE  /\ toClient' \in Seq(ToClient)
           /\ Count(toClient, Answering) \in Nat
           /\ Count(toClient', Answering) = Count(toClient, Answering) + (IF e \in Answering THEN 1 ELSE 0)
           /\ \A c \in Nat : /\ Count(toClient, Opens(c)) \in Nat
                             /\ Count(toClient', Opens(c)) = Count(toClient, Opens(c))
                                    + (IF e.connection = c THEN 1 ELSE 0)
           /\ \A i \in 1..Len(toClient') : (i \in 1..Len(toClient) /\ toClient'[i] = toClient[i]) \/ toClient'[i] = e
  <1>1. toClient \in Seq(ToClient)  BY DEF Typed, Queues
  <1>2. Append(toClient, e) \in Seq(ToClient)
        /\ \A i \in 1..Len(Append(toClient, e)) :
              (i \in 1..Len(toClient) /\ Append(toClient, e)[i] = toClient[i]) \/ Append(toClient, e)[i] = e
    BY <1>1
  <1>3. Count(toClient, Answering) \in Nat
        /\ Count(Append(toClient, e), Answering) = Count(toClient, Answering) + (IF e \in Answering THEN 1 ELSE 0)
    BY <1>1, Counts, CountAppend
  <1>4. ASSUME NEW c \in Nat
        PROVE  /\ Count(toClient, Opens(c)) \in Nat
               /\ Count(Append(toClient, e), Opens(c)) = Count(toClient, Opens(c))
                      + (IF e.connection = c THEN 1 ELSE 0)
    <2>1. e \in Opens(c) <=> e.connection = c  BY DEF Opens
    <2>. QED  BY <1>1, <2>1, Counts, CountAppend
  <1>. QED  BY <1>2, <1>3, <1>4

\* The client handles the first packet.
LEMMA ClientTakes ==
    ASSUME Typed, toClient # <<>>, toClient' = Tail(toClient)
    PROVE  /\ toClient' \in Seq(ToClient) /\ Head(toClient) \in ToClient /\ Head(toClient) = toClient[1]
           /\ 1 \in 1..Len(toClient)
           /\ Count(toClient', Answering) \in Nat
           /\ Count(toClient, Answering) = Count(toClient', Answering)
                  + (IF Head(toClient) \in Answering THEN 1 ELSE 0)
           /\ \A c \in Nat : /\ Count(toClient', Opens(c)) \in Nat
                             /\ Count(toClient, Opens(c))
                                  = Count(toClient', Opens(c)) + (IF Head(toClient).connection = c THEN 1 ELSE 0)
           /\ \A i \in 1..Len(toClient') : i + 1 \in 1..Len(toClient) /\ toClient'[i] = toClient[i + 1]
  <1>1. toClient \in Seq(ToClient)  BY DEF Typed, Queues
  <1>2. Tail(toClient) \in Seq(ToClient) /\ Head(toClient) \in ToClient /\ Head(toClient) = toClient[1]
        /\ 1 \in 1..Len(toClient)
        /\ \A i \in 1..Len(Tail(toClient)) : i + 1 \in 1..Len(toClient) /\ Tail(toClient)[i] = toClient[i + 1]
    BY <1>1
  <1>3. Count(Tail(toClient), Answering) \in Nat
        /\ Count(toClient, Answering) = Count(Tail(toClient), Answering)
               + (IF Head(toClient) \in Answering THEN 1 ELSE 0)
    BY <1>1, <1>2, Counts, CountTail
  <1>4. ASSUME NEW c \in Nat
        PROVE  /\ Count(Tail(toClient), Opens(c)) \in Nat
               /\ Count(toClient, Opens(c))
                    = Count(Tail(toClient), Opens(c)) + (IF Head(toClient).connection = c THEN 1 ELSE 0)
    <2>1. Head(toClient) \in Opens(c) <=> Head(toClient).connection = c  BY <1>2 DEF Opens
    <2>. QED  BY <1>1, <1>2, <2>1, Counts, CountTail
  <1>. QED  BY <1>2, <1>3, <1>4

\* What a packet of each type is.
LEMMA Packets ==
    /\ \A e \in ToServer : (e \in Asking <=> e.type \in {"listen", "cancel"}) /\ e.port \in Ports \cup {0}
                           /\ (e \in Asking => e.for \in Forwards)
    /\ \A e \in ToClient : /\ e \in Answering <=> e.type \in {"success", "failure"}
                           /\ e \in Answering <=> e.connection = 0
                           /\ e.port \in Ports \cup {0} /\ e.connection \in Nat
  BY DEF ToServer, ToClient, Asking, Telling, Answering, Opening

-----------------------------------------------------------------------------
(***************************************************************************)
(* The steps of the worker.                                                *)
(***************************************************************************)

\* Connections are where they were.
LEMMA OnceStays ==
    ASSUME Typed, Once, UNCHANGED <<messages, connections, toClient>>, toServer' \in Seq(ToServer)
    PROVE  Once' /\ Queues'
  <1>1. Once'  BY DEF Once, Count, At, Opens
  <1>2. Queues'  BY DEF Typed, Queues
  <1>. QED  BY <1>1, <1>2

\* No request is under way when none is pending.
LEMMA NothingAsked ==
    ASSUME Typed, One, globalReqState # "pending"
    PROVE  /\ \A i \in 1..Len(toServer) : toServer[i] \notin Asking
           /\ \A i \in 1..Len(toClient) : toClient[i] \notin Answering
           /\ Count(toServer, Asking) = 0 /\ Count(toClient, Answering) = 0
  <1>1. toServer \in Seq(ToServer) /\ toClient \in Seq(ToClient)  BY DEF Typed, Queues
  <1>2. Count(toServer, Asking) \in Nat /\ Count(toClient, Answering) \in Nat  BY <1>1, Counts
  <1>3. Count(toServer, Asking) = 0 /\ Count(toClient, Answering) = 0  BY <1>2 DEF One
  <1>. QED  BY <1>1, <1>3, CountZero

LEMMA CallListenKeeps ==
    ASSUME ForwardsAssumption, IInv, NEW port \in Asks, CallListen(port)
    PROVE  IInv'
  <1>1. /\ remotePc = "idle" /\ started < MaxForwards /\ started' = started + 1
        /\ forward' = [id |-> started + 1, asked |-> port, bound |-> 0] /\ remoteClosed' = FALSE
        /\ GlobalRequest("listen", port) /\ remotePc' = "listening"
        /\ UNCHANGED <<abandoned, inBuffer, messages, serving, toClient, listener, connections>>
    BY DEF CallListen
  <1>2. port \in Ports \cup {0} /\ MaxForwards \in Nat  BY DEF ForwardsAssumption
  <1>3. started \in 0..MaxForwards /\ Typed  BY DEF IInv, Typed, Worked
  <1>4. started' \in 0..MaxForwards /\ started' # 0 /\ forward'.id = started' /\ forward'.id \in Forwards
        /\ forward' \in [id : Forwards \cup {NoForward}, asked : Asks, bound : Ports \cup {0}]
    BY <1>1, <1>2, <1>3 DEF Forwards
  <1>5. /\ toServer' \in Seq(ToServer) /\ globalReqState' \in {"none", "pending", "accepted", "denied"}
        /\ globalReqState' # "none"
        /\ \/ /\ globalReqState = "none" /\ globalReqState' = "pending"
              /\ toServer' = Append(toServer, Request("listen", port))
              /\ Request("listen", port) \in Asking
              /\ Count(toServer', Asking) = Count(toServer, Asking) + 1
           \/ globalReqState # "none" /\ UNCHANGED <<toServer, globalReqState>>
    BY <1>1, <1>2, <1>3, <1>4, RequestIsPut
  <1>6. Once' /\ Queues'  BY <1>1, <1>3, <1>5, OnceStays DEF IInv
  <1>7. Worked'  BY <1>1, <1>3, <1>4, <1>5 DEF Typed, Worked
  <1>8. One'
    <2>1. CASE globalReqState = "none"
      <3>1. Count(toServer, Asking) = 0 /\ Count(toClient, Answering) = 0  BY <1>3, <2>1, NothingAsked DEF IInv
      <3>. QED  BY <1>1, <1>5, <2>1, <3>1 DEF One
    <2>2. CASE globalReqState # "none"  BY <1>1, <1>5, <2>2 DEF IInv, One
    <2>. QED  BY <2>1, <2>2
  <1>9. ASSUME ~abandoned' PROVE PromptInv'
    <2>1. PromptInv  BY <1>1, <1>9 DEF IInv
    <2>2. globalReqState = "none"  BY <1>1, <2>1 DEF PromptInv, Asked
    <2>3. /\ \A i \in 1..Len(toServer) : toServer[i] \notin Asking
          /\ \A i \in 1..Len(toClient) : toClient[i] \notin Answering
      BY <1>3, <2>2, NothingAsked DEF IInv
    <2>4. toServer' = Append(toServer, Request("listen", port)) /\ globalReqState' = "pending"  BY <1>5, <2>2
    <2>5. Request("listen", port).type = "listen" /\ Request("listen", port).for = forward'.id
      BY DEF Request
    <2>6. toServer \in Seq(ToServer)  BY <1>3 DEF Typed, Queues
    <2>. DEFINE r == Request("listen", port)
    <2>. HIDE DEF r
    <2>7. \A i \in 1..Len(toServer') : (i \in 1..Len(toServer) /\ toServer'[i] = toServer[i]) \/ toServer'[i] = r
      BY <2>4, <2>6 DEF r
    <2>8. RequestsAreOwn'  BY <1>1, <2>3, <2>5, <2>7 DEF RequestsAreOwn, r
    <2>9. AnswersAreOwn'  BY <1>1, <2>3 DEF AnswersAreOwn
    <2>. QED  BY <1>1, <2>4, <2>8, <2>9 DEF PromptInv, Asked, Answered, ListenIsReal, KnownPortStops
  <1>. QED  BY <1>6, <1>7, <1>8, <1>9 DEF IInv, Typed

\* What comes of a global request ends it, or it stays pending.
LEMMA AnswerTaken ==
    ASSUME ForwardsAssumption, IInv,
           GlobalAnswer("accepted") \/ GlobalAnswer("denied") \/ GlobalTimeout,
           UNCHANGED <<toServer, toClient>>
    PROVE  /\ One' /\ globalReqState' \in {"none", "pending", "accepted", "denied"} /\ abandoned' \in BOOLEAN
           /\ ~abandoned' =>
                /\ ~abandoned /\ globalReqState \in {"accepted", "denied"} /\ globalReqState' = "none"
                /\ \A i \in 1..Len(toServer') : toServer'[i] \notin Asking
                /\ \A i \in 1..Len(toClient') : toClient'[i] \notin Answering
  <1>1. CASE GlobalTimeout  BY <1>1 DEF GlobalTimeout, IInv, Typed, Worked, One
  <1>2. CASE GlobalAnswer("accepted") \/ GlobalAnswer("denied")
    <2>1. /\ globalReqState \in {"accepted", "denied"} /\ globalReqState' = "none"
          /\ abandoned' = abandoned /\ abandoned \in BOOLEAN
      BY <1>2 DEF GlobalAnswer, IInv, Typed, Worked
    <2>2. /\ \A i \in 1..Len(toServer) : toServer[i] \notin Asking
          /\ \A i \in 1..Len(toClient) : toClient[i] \notin Answering
          /\ Count(toServer, Asking) = 0 /\ Count(toClient, Answering) = 0
      BY <2>1, NothingAsked DEF IInv
    <2>3. One'  BY <2>1, <2>2 DEF One
    <2>. QED  BY <2>1, <2>2, <2>3
  <1>. QED  BY <1>1, <1>2

LEMMA ListenSucceedsKeeps ==
    ASSUME ForwardsAssumption, IInv, ListenSucceeds
    PROVE  IInv'
  <1>1. /\ remotePc = "listening" /\ GlobalAnswer("accepted")
        /\ forward' = [forward EXCEPT !.bound = BoundPort(forward.asked)] /\ remotePc' = "accept"
        /\ UNCHANGED <<started, remoteClosed, inBuffer, messages, serving, toServer, toClient, listener, connections>>
    BY DEF ListenSucceeds
  <1>2. Typed  BY DEF IInv
  <1>3. /\ One' /\ globalReqState' \in {"none", "pending", "accepted", "denied"} /\ abandoned' \in BOOLEAN
        /\ ~abandoned' => /\ ~abandoned /\ globalReqState' = "none"
                          /\ \A i \in 1..Len(toServer') : toServer'[i] \notin Asking
                          /\ \A i \in 1..Len(toClient') : toClient'[i] \notin Answering
    BY <1>1, AnswerTaken
  <1>4. Once' /\ Queues'  BY <1>1, <1>2, OnceStays DEF IInv, Typed, Queues
  <1>5. started # 0
          /\ forward \in [id : Forwards \cup {NoForward}, asked : Asks, bound : Ports \cup {0}]
        /\ BoundPort(forward.asked) \in Ports \cup {0}
    BY <1>1, <1>2 DEF Typed, Worked, BoundPort
  <1>6. forward' \in [id : Forwards \cup {NoForward}, asked : Asks, bound : Ports \cup {0}]
          /\ forward'.id = forward.id
    BY <1>1, <1>5
  <1>7. Worked'  BY <1>1, <1>2, <1>3, <1>6 DEF Typed, Worked
  <1>8. ASSUME ~abandoned' PROVE PromptInv'
    <2>1. PromptInv /\ globalReqState = "accepted"  BY <1>1, <1>3, <1>8 DEF IInv, GlobalAnswer
    <2>2. Waits # {}  BY <1>1, <2>1 DEF PromptInv, Answered
    <2>3. Waits' # {}  BY <1>1, <1>6, <2>2 DEF Waits
    <2>4. RequestsAreOwn' /\ AnswersAreOwn'  BY <1>3, <1>8 DEF RequestsAreOwn, AnswersAreOwn
    <2>. QED  BY <1>1, <1>3, <1>8, <2>3, <2>4 DEF PromptInv, Asked, Answered, ListenIsReal,
                 KnownPortStops
  <1>. QED  BY <1>3, <1>4, <1>7, <1>8 DEF IInv, Typed

\* A listen that failed and a forward that was given up leave the worker idle.
LEMMA GivesUp ==
    ASSUME ForwardsAssumption, IInv, remotePc \in {"listening", "cancelling"},
           GlobalAnswer("accepted") \/ GlobalAnswer("denied") \/ GlobalTimeout,
           remotePc' = "idle", forward' = [forward EXCEPT !.id = NoForward],
           UNCHANGED <<started, remoteClosed, inBuffer, messages, serving, toServer, toClient, listener, connections>>
    PROVE  IInv'
  <1>1. Typed  BY DEF IInv
  <1>2. /\ One' /\ globalReqState' \in {"none", "pending", "accepted", "denied"} /\ abandoned' \in BOOLEAN
        /\ ~abandoned' => /\ ~abandoned /\ globalReqState' = "none"
                          /\ \A i \in 1..Len(toServer') : toServer'[i] \notin Asking
                          /\ \A i \in 1..Len(toClient') : toClient'[i] \notin Answering
    BY AnswerTaken
  <1>3. Once' /\ Queues'  BY <1>1, OnceStays DEF IInv, Typed, Queues
  <1>4. started # 0
          /\ forward \in [id : Forwards \cup {NoForward}, asked : Asks, bound : Ports \cup {0}]
    BY <1>1 DEF Typed, Worked
  <1>5. forward' \in [id : Forwards \cup {NoForward}, asked : Asks, bound : Ports \cup {0}]  BY <1>4
  <1>6. Worked'  BY <1>1, <1>2, <1>5 DEF Typed, Worked
  <1>7. ASSUME ~abandoned' PROVE PromptInv'
    <2>1. RequestsAreOwn' /\ AnswersAreOwn'  BY <1>2, <1>7 DEF RequestsAreOwn, AnswersAreOwn
    <2>. QED  BY <1>2, <1>7, <2>1 DEF PromptInv, Asked, Answered, ListenIsReal, KnownPortStops
  <1>. QED  BY <1>2, <1>3, <1>6, <1>7 DEF IInv, Typed

LEMMA CallCloseKeeps ==
    ASSUME ForwardsAssumption, IInv, CallClose
    PROVE  IInv'
  <1>1. /\ remoteClosed' = TRUE
        /\ UNCHANGED <<remotePc, forward, started, globalReqState, abandoned, inBuffer, messages, serving,
                       toServer, toClient, listener, connections>>
    BY DEF CallClose
  <1>2. Typed  BY DEF IInv
  <1>3. Once' /\ Queues'  BY <1>1, <1>2, OnceStays DEF IInv, Typed, Queues
  <1>4. Worked'  BY <1>1, <1>2 DEF Typed, Worked
  <1>5. One'  BY <1>1 DEF IInv, One
  <1>6. PromptInv => PromptInv'
    BY <1>1 DEF PromptInv, Asked, RequestsAreOwn, AnswersAreOwn, Answered, ListenIsReal,
       KnownPortStops, Waits, Stopped
  <1>. QED  BY <1>1, <1>3, <1>4, <1>5, <1>6 DEF IInv, Typed

LEMMA InvalidateKeeps ==
    ASSUME ForwardsAssumption, IInv, Invalidate
    PROVE  IInv'
  <1>1. /\ remotePc = "accept" /\ forward' = forward /\ GlobalRequest("cancel", forward.bound)
        /\ remotePc' = "cancelling"
        /\ UNCHANGED <<started, remoteClosed, abandoned, inBuffer, messages, serving, toClient, listener, connections>>
    BY DEF Invalidate
  <1>2. Typed  BY DEF IInv
  <1>3. /\ started # 0 /\ started \in 0..MaxForwards /\ forward.id = started
        /\ forward \in [id : Forwards \cup {NoForward}, asked : Asks, bound : Ports \cup {0}]
    BY <1>1, <1>2 DEF Typed, Worked
  <1>4. MaxForwards \in Nat  BY DEF ForwardsAssumption
  <1>5. forward.bound \in Ports \cup {0} /\ forward'.id \in Forwards  BY <1>1, <1>3, <1>4 DEF Forwards
  <1>. DEFINE r == Request("cancel", forward.bound)
  <1>6. /\ toServer' \in Seq(ToServer) /\ globalReqState' \in {"none", "pending", "accepted", "denied"}
        /\ globalReqState' # "none"
        /\ \/ /\ globalReqState = "none" /\ globalReqState' = "pending"
              /\ toServer' = Append(toServer, r)
              /\ Count(toServer', Asking) = Count(toServer, Asking) + 1
           \/ globalReqState # "none" /\ UNCHANGED <<toServer, globalReqState>>
    BY <1>1, <1>2, <1>5, RequestIsPut
  <1>7. Once' /\ Queues'  BY <1>1, <1>2, <1>6, OnceStays DEF IInv
  <1>8. Worked'  BY <1>1, <1>2, <1>3, <1>6 DEF Typed, Worked
  <1>9. r.type = "cancel" /\ r.port = forward.bound  BY DEF Request
  <1>. HIDE DEF r
  <1>10. One'
    <2>1. CASE globalReqState = "none"
      <3>1. Count(toServer, Asking) = 0 /\ Count(toClient, Answering) = 0  BY <1>2, <2>1, NothingAsked DEF IInv
      <3>. QED  BY <1>1, <1>6, <2>1, <3>1 DEF One
    <2>2. CASE globalReqState # "none"  BY <1>1, <1>6, <2>2 DEF IInv, One
    <2>. QED  BY <2>1, <2>2
  <1>11. ASSUME ~abandoned' PROVE PromptInv'
    <2>1. PromptInv  BY <1>1, <1>11 DEF IInv
    <2>2. globalReqState = "none"  BY <1>1, <2>1 DEF PromptInv, Asked
    <2>3. /\ \A i \in 1..Len(toServer) : toServer[i] \notin Asking
          /\ \A i \in 1..Len(toClient) : toClient[i] \notin Answering
      BY <1>2, <2>2, NothingAsked DEF IInv
    <2>4. toServer' = Append(toServer, r) /\ globalReqState' = "pending"  BY <1>6, <2>2
    <2>5. toServer \in Seq(ToServer)  BY <1>2 DEF Typed, Queues
    <2>6. \A i \in 1..Len(toServer') : (i \in 1..Len(toServer) /\ toServer'[i] = toServer[i]) \/ toServer'[i] = r
      BY <2>4, <2>5
    <2>7. RequestsAreOwn'  BY <1>1, <1>9, <2>3, <2>6 DEF RequestsAreOwn
    <2>8. AnswersAreOwn'  BY <1>1, <2>3 DEF AnswersAreOwn
    <2>. QED  BY <1>1, <2>4, <2>7, <2>8 DEF PromptInv, Asked, Answered, ListenIsReal, KnownPortStops
  <1>. QED  BY <1>7, <1>8, <1>10, <1>11 DEF IInv, Typed

\* Word of a connection leaves requests, listeners and the forward alone.
LEMMA TellingKeepsPrompt ==
    ASSUME IInv, NEW type \in {"confirmation", "close"}, NEW c \in Nat,
           toServer' = Append(toServer, [type |-> type, port |-> 0, for |-> c]),
           remotePc \in {"accept", "bridge"}, remotePc' \in {"accept", "bridge"},
           UNCHANGED <<forward, globalReqState, abandoned, toClient, listener>>
    PROVE  One' /\ (~abandoned' => PromptInv')
  <1>1. Typed  BY DEF IInv
  <1>. DEFINE e == [type |-> type, port |-> 0, for |-> c]
  <1>2. Count(toServer', Asking) = Count(toServer, Asking) /\ e \notin Asking  BY <1>1, Tells
  <1>3. One'  BY <1>2 DEF IInv, One
  <1>4. toServer \in Seq(ToServer)  BY <1>1 DEF Typed, Queues
  <1>. HIDE DEF e
  <1>5. \A i \in 1..Len(toServer') : (i \in 1..Len(toServer) /\ toServer'[i] = toServer[i]) \/ toServer'[i] = e
    BY <1>4 DEF e
  <1>6. ASSUME PromptInv PROVE PromptInv'
    <2>1. globalReqState = "none"  BY <1>6 DEF PromptInv, Asked
    <2>2. /\ \A i \in 1..Len(toServer) : toServer[i] \notin Asking
          /\ \A i \in 1..Len(toClient) : toClient[i] \notin Answering
      BY <1>1, <2>1, NothingAsked DEF IInv
    <2>3. RequestsAreOwn' /\ AnswersAreOwn'  BY <1>2, <1>5, <2>2 DEF RequestsAreOwn, AnswersAreOwn
    <2>4. Waits' = Waits  BY DEF Waits
    <2>. QED  BY <1>6, <2>1, <2>3, <2>4 DEF PromptInv, Asked, Answered, ListenIsReal, KnownPortStops
  <1>. QED  BY <1>3, <1>6 DEF IInv

LEMMA BridgeEndsKeeps ==
    ASSUME ForwardsAssumption, IInv, BridgeEnds
    PROVE  IInv'
  <1>1. /\ remotePc = "bridge" /\ serving' = 0 /\ remotePc' = "accept"
        /\ toServer' = Append(toServer, [type |-> "close", port |-> 0, for |-> serving])
        /\ UNCHANGED <<forward, started, remoteClosed, globalReqState, abandoned, inBuffer, messages, toClient, listener,
                       connections>>
    BY DEF BridgeEnds
  <1>2. Typed  BY DEF IInv
  <1>3. serving \in Nat /\ connections \in Seq(Connection)  BY <1>2 DEF Typed, Worked, Queues
  <1>4. toServer' \in Seq(ToServer)  BY <1>1, <1>2, <1>3, Tells
  <1>5. Once' /\ Queues'  BY <1>1, <1>2, <1>4, OnceStays DEF IInv
  <1>6. Worked'
    <2>1. 0 \in 0..Len(connections')  BY <1>1, <1>3
    <2>. QED  BY <1>1, <1>2, <2>1 DEF Typed, Worked
  <1>7. One' /\ (~abandoned' => PromptInv')  BY <1>1, <1>3, TellingKeepsPrompt
  <1>. QED  BY <1>5, <1>6, <1>7 DEF IInv, Typed

\* A connection leaves the list for the one who serves it.
LEMMA AcceptKeeps ==
    ASSUME ForwardsAssumption, IInv, AcceptForward
    PROVE  IInv'
  <1>1. /\ remotePc = "accept" /\ messages # <<>> /\ serving' = Head(messages) /\ messages' = Tail(messages)
        /\ connections' = [connections EXCEPT ![serving'].target = forward.id, ![serving'].accepted = @ + 1]
        /\ toServer' = Append(toServer, [type |-> "confirmation", port |-> 0, for |-> serving'])
        /\ remotePc' = "bridge"
        /\ UNCHANGED <<forward, started, remoteClosed, globalReqState, abandoned, inBuffer, toClient, listener>>
    BY DEF AcceptForward
  <1>2. Typed /\ Once  BY DEF IInv
  <1>3. /\ messages \in Seq(Nat \ {0}) /\ connections \in Seq(Connection) /\ toClient \in Seq(ToClient)
        /\ \A i \in 1..Len(messages) : messages[i] <= Len(connections)
        /\ \A i \in 1..Len(toClient) : toClient[i].connection <= Len(connections)
    BY <1>2 DEF Typed, Queues
  <1>4. /\ Head(messages) = messages[1] /\ 1 \in 1..Len(messages) /\ Head(messages) \in Nat \ {0}
        /\ messages' \in Seq(Nat \ {0})
        /\ \A i \in 1..Len(messages') : i + 1 \in 1..Len(messages) /\ messages'[i] = messages[i + 1]
    BY <1>1, <1>3
  <1>5. serving' \in 1..Len(connections) /\ serving' \in Nat /\ serving' # 0  BY <1>1, <1>3, <1>4
  <1>6. started # 0 /\ forward.id = started /\ started \in Nat
    BY <1>1, <1>2 DEF ForwardsAssumption, Typed, Worked
  <1>. DEFINE s == serving'
  <1>7. connections[s] \in Connection  BY <1>3, <1>5
  <1>8. connections[s].accepted \in Nat /\ connections[s].accepted + 1 \in Nat /\ forward.id \in Nat
    BY <1>6, <1>7 DEF Connection
  <1>. DEFINE r == [connections[s] EXCEPT !.target = forward.id, !.accepted = connections[s].accepted + 1]
  <1>9. r \in Connection /\ r.accepted = connections[s].accepted + 1  BY <1>7, <1>8 DEF Connection
  <1>10. connections' = [connections EXCEPT ![s] = r]  BY <1>1, <1>3, <1>5, <1>7, <1>8
  <1>. HIDE DEF r, s
  <1>11. connections' \in Seq(Connection) /\ Len(connections') = Len(connections)
         /\ \A c \in 1..Len(connections) : connections'[c] = IF c = s THEN r ELSE connections[c]
    BY <1>3, <1>5, <1>9, <1>10 DEF s
  <1>12. toServer' \in Seq(ToServer)  BY <1>1, <1>2, <1>5, Tells
  <1>13. Queues'  BY <1>1, <1>3, <1>4, <1>11, <1>12 DEF Queues
  <1>14. Worked'
    <2>1. serving' \in 0..Len(connections')  BY <1>5, <1>11
    <2>. QED  BY <1>1, <1>2, <1>5, <2>1 DEF Typed, Worked
  <1>15. Once'
    <2>1. ASSUME NEW c \in 1..Len(connections)
          PROVE  connections'[c].accepted + Count(messages', {c}) + Count(toClient, Opens(c)) = 1
      <3>1. connections[c].accepted + Count(messages, {c}) + Count(toClient, Opens(c)) = 1  BY <1>2 DEF Once
      <3>2. Count(messages, {c}) = Count(messages', {c}) + (IF s = c THEN 1 ELSE 0)  BY <1>1, <1>3, CountTail DEF s
      <3>3. Count(messages', {c}) \in Nat /\ Count(toClient, Opens(c)) \in Nat  BY <1>3, <1>4, Counts
      <3>4. connections[c] \in Connection  BY <1>3
      <3>5. connections[c].accepted \in Nat  BY <3>4 DEF Connection
      <3>6. connections'[c].accepted = connections[c].accepted + (IF s = c THEN 1 ELSE 0)
        BY <1>9, <1>11, <3>5
      <3>. QED  BY <3>1, <3>2, <3>3, <3>5, <3>6
    <2>. QED  BY <1>1, <1>11, <2>1 DEF Once, Opens
  <1>16. One' /\ (~abandoned' => PromptInv')  BY <1>1, <1>5, TellingKeepsPrompt
  <1>. QED  BY <1>13, <1>14, <1>15, <1>16 DEF IInv, Typed

LEMMA ListenFailsKeeps ==
    ASSUME ForwardsAssumption, IInv, ListenFails
    PROVE  IInv'
  BY GivesUp DEF ListenFails

LEMMA CancelledKeeps ==
    ASSUME ForwardsAssumption, IInv, Cancelled
    PROVE  IInv'
  BY GivesUp DEF Cancelled

-----------------------------------------------------------------------------
(***************************************************************************)
(* The steps of the packet handlers.                                       *)
(***************************************************************************)

\* An answer ends the request that is pending.
LEMMA AnswerKeeps ==
    ASSUME ForwardsAssumption, IInv, NEW type \in {"success", "failure"}, Handle(type),
           messages' = messages,
           globalReqState' = IF globalReqState = "pending"
                             THEN IF type = "success" THEN "accepted" ELSE "denied" ELSE globalReqState
    PROVE  IInv'
  <1>1. /\ toClient # <<>> /\ Head(toClient).type = type /\ toClient' = Tail(toClient)
        /\ inBuffer' = IF type = "success" THEN Head(toClient).port ELSE 0
        /\ UNCHANGED <<remotePc, forward, started, remoteClosed, abandoned, serving, toServer, listener, connections>>
    BY DEF Handle
  <1>2. Typed  BY DEF IInv
  <1>3. /\ toClient' \in Seq(ToClient) /\ Head(toClient) \in ToClient /\ Head(toClient) = toClient[1]
        /\ 1 \in 1..Len(toClient) /\ Count(toClient', Answering) \in Nat
        /\ Count(toClient, Answering) = Count(toClient', Answering) + (IF Head(toClient) \in Answering THEN 1 ELSE 0)
        /\ \A c \in Nat : /\ Count(toClient', Opens(c)) \in Nat
                          /\ Count(toClient, Opens(c))
                               = Count(toClient', Opens(c)) + (IF Head(toClient).connection = c THEN 1 ELSE 0)
        /\ \A i \in 1..Len(toClient') : i + 1 \in 1..Len(toClient) /\ toClient'[i] = toClient[i + 1]
    BY <1>1, <1>2, ClientTakes
  <1>4. Head(toClient) \in Answering /\ Head(toClient).connection = 0 /\ Head(toClient).port \in Ports \cup {0}
    BY <1>1, <1>3, Packets
  <1>5. Count(toServer, Asking) \in Nat  BY <1>2, Counts DEF Typed, Queues
  <1>6. globalReqState = "pending" /\ Count(toServer, Asking) = 0 /\ Count(toClient', Answering) = 0
    <2>1. Count(toClient, Answering) = Count(toClient', Answering) + 1  BY <1>3, <1>4
    <2>2. Count(toClient', Answering) \in Nat  BY <1>3
    <2>3. Count(toServer, Asking) + Count(toClient, Answering) = IF globalReqState = "pending" THEN 1 ELSE 0
      BY DEF IInv, One
    <2>. QED  BY <1>5, <2>1, <2>2, <2>3
  <1>7. One'  BY <1>1, <1>6 DEF One
  <1>8. Queues'  BY <1>1, <1>2, <1>3 DEF Typed, Queues
  <1>9. Worked'  BY <1>1, <1>2, <1>4, <1>6 DEF Typed, Worked
  <1>10. Once'
    <2>1. ASSUME NEW c \in 1..Len(connections)
          PROVE  connections[c].accepted + Count(messages, {c}) + Count(toClient', Opens(c)) = 1
      <3>1. connections[c].accepted + Count(messages, {c}) + Count(toClient, Opens(c)) = 1  BY DEF IInv, Once
      <3>2. c \in Nat /\ c # 0  BY <1>2 DEF Typed, Queues
      <3>3. /\ Count(toClient, Opens(c)) = Count(toClient', Opens(c))
                   + (IF Head(toClient).connection = c THEN 1 ELSE 0)
            /\ Count(toClient', Opens(c)) \in Nat
        BY <1>3, <3>2
      <3>4. Count(toClient, Opens(c)) = Count(toClient', Opens(c))  BY <1>4, <3>2, <3>3
      <3>. QED  BY <3>1, <3>4
    <2>. QED  BY <1>1, <2>1 DEF Once, Opens
  <1>11. ASSUME PromptInv PROVE PromptInv'
    <2>1. \/ remotePc = "listening" /\ (type = "success" => Waits # {})
          \/ remotePc = "cancelling" /\ Stopped
      BY <1>1, <1>3, <1>4, <1>11 DEF PromptInv, AnswersAreOwn
    <2>2. Waits' = Waits /\ Stopped' = Stopped  BY <1>1 DEF Waits, Stopped
    <2>3. Asked'  BY <1>1, <1>6, <2>1 DEF Asked
    <2>4. toClient' \in Seq(ToClient) /\ toServer' \in Seq(ToServer)  BY <1>1, <1>2, <1>3 DEF Typed, Queues
    <2>5. \A i \in 1..Len(toServer') : toServer'[i] \notin Asking  BY <1>1, <1>6, <2>4, CountZero
    <2>6. \A i \in 1..Len(toClient') : toClient'[i] \notin Answering  BY <1>6, <2>4, CountZero
    <2>7. RequestsAreOwn' /\ AnswersAreOwn'  BY <2>5, <2>6 DEF RequestsAreOwn, AnswersAreOwn
    <2>8. Answered'  BY <1>1, <1>6, <2>1, <2>2 DEF Answered
    <2>9. ListenIsReal' /\ KnownPortStops'  BY <1>1, <2>1, <2>2 DEF ListenIsReal,
                                               KnownPortStops, Stopped
    <2>. QED  BY <2>3, <2>7, <2>8, <2>9 DEF PromptInv
  <1>. QED  BY <1>1, <1>7, <1>8, <1>9, <1>10, <1>11 DEF IInv, Typed

\* What moves from one place to another is counted once.
LEMMA MovedOn == \A a, m, t, m2, t2 \in Nat : a + m + t = 1 /\ m2 + t2 = m + t => a + m2 + t2 = 1
  OBVIOUS

\* A connection comes into the list.
LEMMA ChannelOpenKeeps ==
    ASSUME ForwardsAssumption, IInv, ChannelOpen
    PROVE  IInv'
  <1>1. /\ toClient # <<>> /\ Head(toClient).type = "open" /\ toClient' = Tail(toClient) /\ inBuffer' = 0
        /\ messages' = Append(messages, Head(toClient).connection)
        /\ UNCHANGED <<remotePc, forward, started, remoteClosed, serving, toServer, listener, connections, globalReqState,
                       abandoned>>
    BY DEF Handle, ChannelOpen
  <1>2. Typed  BY DEF IInv
  <1>3. /\ toClient' \in Seq(ToClient) /\ Head(toClient) \in ToClient /\ Head(toClient) = toClient[1]
        /\ 1 \in 1..Len(toClient) /\ Count(toClient', Answering) \in Nat
        /\ Count(toClient, Answering) = Count(toClient', Answering) + (IF Head(toClient) \in Answering THEN 1 ELSE 0)
        /\ \A c \in Nat : /\ Count(toClient', Opens(c)) \in Nat
                          /\ Count(toClient, Opens(c))
                               = Count(toClient', Opens(c)) + (IF Head(toClient).connection = c THEN 1 ELSE 0)
        /\ \A i \in 1..Len(toClient') : i + 1 \in 1..Len(toClient) /\ toClient'[i] = toClient[i + 1]
    BY <1>1, <1>2, ClientTakes
  <1>. DEFINE o == Head(toClient).connection
  <1>4. Head(toClient) \notin Answering /\ o \in Nat \ {0}  BY <1>1, <1>3, Packets
  <1>5. messages \in Seq(Nat \ {0}) /\ connections \in Seq(Connection) /\ o <= Len(connections)
        /\ \A i \in 1..Len(messages) : messages[i] <= Len(connections)
    BY <1>2, <1>3 DEF Typed, Queues
  <1>. HIDE DEF o
  <1>6. messages' = Append(messages, o)  BY <1>1 DEF o
  <1>7. /\ messages' \in Seq(Nat \ {0})
        /\ \A i \in 1..Len(messages') : (i \in 1..Len(messages) /\ messages'[i] = messages[i]) \/ messages'[i] = o
    BY <1>4, <1>5, <1>6
  <1>8. Queues'
    <2>1. \A i \in 1..Len(messages') : messages'[i] <= Len(connections)  BY <1>5, <1>7
    <2>2. \A i \in 1..Len(toClient') : toClient'[i].connection <= Len(connections)  BY <1>2, <1>3 DEF Typed, Queues
    <2>. QED  BY <1>1, <1>2, <1>3, <1>7, <2>1, <2>2 DEF Typed, Queues
  <1>9. Worked'  BY <1>1, <1>2 DEF Typed, Worked
  <1>10. One'
    <2>1. Count(toClient', Answering) = Count(toClient, Answering)  BY <1>3, <1>4
    <2>. QED  BY <1>1, <2>1 DEF IInv, One
  <1>11. Once'
    <2>1. ASSUME NEW c \in 1..Len(connections)
          PROVE  connections[c].accepted + Count(messages', {c}) + Count(toClient', Opens(c)) = 1
      <3>1. connections[c].accepted + Count(messages, {c}) + Count(toClient, Opens(c)) = 1  BY DEF IInv, Once
      <3>2. c \in Nat  BY <1>5
      <3>3. Count(toClient, Opens(c)) = Count(toClient', Opens(c)) + (IF o = c THEN 1 ELSE 0)
            /\ Count(toClient', Opens(c)) \in Nat
        BY <1>3, <3>2 DEF o
      <3>4. Count(messages', {c}) = Count(messages, {c}) + (IF o = c THEN 1 ELSE 0)  BY <1>4, <1>5, <1>6, CountAppend
      <3>5. Count(messages, {c}) \in Nat  BY <1>5, Counts
      <3>6. connections[c] \in Connection  BY <1>5
      <3>7. connections[c].accepted \in Nat  BY <3>6 DEF Connection
      <3>8. Count(messages', {c}) + Count(toClient', Opens(c)) = Count(messages, {c}) + Count(toClient, Opens(c))
        <4>1. CASE o = c  BY <3>3, <3>4, <3>5, <4>1
        <4>2. CASE o # c  BY <3>3, <3>4, <3>5, <4>2
        <4>. QED  BY <4>1, <4>2
      <3>9. Count(messages', {c}) \in Nat  BY <3>4, <3>5
      <3>10. Count(toClient, Opens(c)) \in Nat  BY <3>3
      <3>11. Count(toClient', Opens(c)) \in Nat  BY <3>3
      <3>. QED  BY <3>1, <3>5, <3>7, <3>8, <3>9, <3>10, <3>11, MovedOn
    <2>. QED  BY <1>1, <2>1 DEF Once, Opens
  <1>12. ASSUME PromptInv PROVE PromptInv'
    <2>1. Waits' = Waits /\ Stopped' = Stopped  BY <1>1 DEF Waits, Stopped
    <2>2. RequestsAreOwn'  BY <1>1, <1>12 DEF PromptInv, RequestsAreOwn
    <2>3. ASSUME NEW i \in 1..Len(toClient'), toClient'[i] \in Answering
          PROVE  \/ remotePc = "listening" /\ (toClient'[i].type = "success" => Waits # {})
                 \/ remotePc = "cancelling" /\ Stopped
      <3>1. i + 1 \in 1..Len(toClient) /\ toClient'[i] = toClient[i + 1]  BY <1>3
      <3>. QED  BY <1>12, <2>3, <3>1 DEF PromptInv, AnswersAreOwn
    <2>4. AnswersAreOwn'  BY <1>1, <2>1, <2>3 DEF AnswersAreOwn
    <2>. QED  BY <1>1, <1>12, <2>1, <2>2, <2>4 DEF PromptInv, Asked, Answered, ListenIsReal,
                 KnownPortStops
  <1>. QED  BY <1>1, <1>8, <1>9, <1>10, <1>11, <1>12 DEF IInv, Typed

LEMMA HandlesKeeps ==
    ASSUME ForwardsAssumption, IInv, Handles
    PROVE  IInv'
  <1>1. CASE RequestSuccess  BY <1>1, AnswerKeeps DEF RequestSuccess
  <1>2. CASE RequestDenied  BY <1>2, AnswerKeeps DEF RequestDenied
  <1>3. CASE ChannelOpen  BY <1>3, ChannelOpenKeeps
  <1>. QED  BY <1>1, <1>2, <1>3 DEF Handles

-----------------------------------------------------------------------------
(***************************************************************************)
(* The steps of the server.                                                *)
(***************************************************************************)

\* The server turns the request at the head into an answer.
LEMMA ServerAnswersOne ==
    ASSUME ForwardsAssumption, IInv, toServer # <<>>, Head(toServer).type \in {"listen", "cancel"},
           toServer' = Tail(toServer), NEW type \in {"success", "failure"}, NEW port \in Ports \cup {0},
           toClient' = Append(toClient, Reply(type, port)),
           listener' \in [Ports -> Forwards \cup {NoForward}],
           UNCHANGED <<remoteClient, connections>>
    PROVE  /\ Typed' /\ One' /\ Once'
           /\ globalReqState = "pending"
           /\ \A i \in 1..Len(toServer') : toServer'[i] \notin Asking
           /\ \A i \in 1..Len(toClient') : toClient'[i] \in Answering => toClient'[i] = Reply(type, port)
  <1>. DEFINE e == Reply(type, port)
  <1>1. e \in Answering /\ e.connection = 0 /\ e.type = type  BY DEF Reply, Answering
  <1>2. e \in ToClient  BY <1>1 DEF ToClient
  <1>3. Typed  BY DEF IInv
  <1>. HIDE DEF e
  <1>4. toClient' = Append(toClient, e)  BY DEF e
  <1>5. /\ toServer' \in Seq(ToServer) /\ Head(toServer) \in ToServer
        /\ Count(toServer', Asking) \in Nat
        /\ Count(toServer, Asking) = Count(toServer', Asking) + (IF Head(toServer) \in Asking THEN 1 ELSE 0)
    BY <1>3, ServerTakes
  <1>6. Head(toServer) \in Asking  BY <1>5, Packets
  <1>7. /\ toClient' \in Seq(ToClient) /\ Count(toClient, Answering) \in Nat
        /\ Count(toClient', Answering) = Count(toClient, Answering) + (IF e \in Answering THEN 1 ELSE 0)
        /\ \A c \in Nat : /\ Count(toClient, Opens(c)) \in Nat
                          /\ Count(toClient', Opens(c)) = Count(toClient, Opens(c))
                                 + (IF e.connection = c THEN 1 ELSE 0)
        /\ \A i \in 1..Len(toClient') : (i \in 1..Len(toClient) /\ toClient'[i] = toClient[i]) \/ toClient'[i] = e
    BY <1>2, <1>3, <1>4, ClientGets
  <1>8. globalReqState = "pending" /\ Count(toServer', Asking) = 0 /\ Count(toClient, Answering) = 0
    <2>1. Count(toServer, Asking) = Count(toServer', Asking) + 1  BY <1>5, <1>6
    <2>2. Count(toServer', Asking) \in Nat /\ Count(toClient, Answering) \in Nat  BY <1>5, <1>7
    <2>3. Count(toServer, Asking) + Count(toClient, Answering) = IF globalReqState = "pending" THEN 1 ELSE 0
      BY DEF IInv, One
    <2>. QED  BY <2>1, <2>2, <2>3
  <1>9. One'
    <2>1. Count(toClient', Answering) = 1  BY <1>1, <1>7, <1>8
    <2>. QED  BY <1>8, <2>1 DEF One, remoteClient
  <1>10. Queues'
    <2>1. connections \in Seq(Connection) /\ \A i \in 1..Len(toClient) : toClient[i].connection <= Len(connections)
      BY <1>3 DEF Typed, Queues
    <2>2. ASSUME NEW i \in 1..Len(toClient') PROVE toClient'[i].connection <= Len(connections)
      <3>1. Len(connections) \in Nat  BY <2>1
      <3>2. (i \in 1..Len(toClient) /\ toClient'[i] = toClient[i]) \/ toClient'[i] = e  BY <1>7
      <3>. QED  BY <1>1, <2>1, <3>1, <3>2
    <2>. QED  BY <1>3, <1>5, <1>7, <2>2 DEF Typed, Queues, remoteClient
  <1>11. Worked'  BY <1>3 DEF Typed, Worked, remoteClient
  <1>12. Once'
    <2>1. ASSUME NEW c \in 1..Len(connections)
          PROVE  connections[c].accepted + Count(messages, {c}) + Count(toClient', Opens(c)) = 1
      <3>1. connections[c].accepted + Count(messages, {c}) + Count(toClient, Opens(c)) = 1  BY DEF IInv, Once
      <3>2. c \in Nat /\ c # 0  BY <1>3 DEF Typed, Queues
      <3>3. Count(toClient', Opens(c)) = Count(toClient, Opens(c))  BY <1>1, <1>7, <3>2
      <3>. QED  BY <3>1, <3>3
    <2>. QED  BY <2>1 DEF Once, Opens, remoteClient
  <1>13. \A i \in 1..Len(toServer') : toServer'[i] \notin Asking  BY <1>5, <1>8, CountZero
  <1>14. \A i \in 1..Len(toClient) : toClient[i] \notin Answering  BY <1>3, <1>8, CountZero DEF Typed, Queues
  <1>15. \A i \in 1..Len(toClient') : toClient'[i] \in Answering => toClient'[i] = e  BY <1>7, <1>14
  <1>. QED  BY <1>8, <1>9, <1>10, <1>11, <1>12, <1>13, <1>15 DEF Typed, e

LEMMA ServerListensKeeps ==
    ASSUME ForwardsAssumption, IInv, ServerListens
    PROVE  IInv'
  <1>. DEFINE r == Head(toServer)
  <1>1. toServer # <<>> /\ r.type = "listen" /\ toServer' = Tail(toServer) /\ UNCHANGED <<remoteClient, connections>>
    BY DEF ServerListens
  <1>2. Typed  BY DEF IInv
  <1>3. r \in ToServer /\ r = toServer[1] /\ 1 \in 1..Len(toServer)  BY <1>1, <1>2, ServerTakes
  <1>4. r \in Asking /\ r.port \in Ports \cup {0} /\ r.for \in Forwards  BY <1>1, <1>3, Packets
  <1>5. listener \in [Ports -> Forwards \cup {NoForward}]  BY <1>2 DEF Typed, Worked
  <1>6. PICK type \in {"success", "failure"}, port \in Ports \cup {0} :
          /\ toClient' = Append(toClient, Reply(type, port))
          /\ \/ type = "failure" /\ listener' = listener
             \/ \E p \in Ports : type = "success" /\ listener' = [listener EXCEPT ![p] = r.for]
    <2>1. CASE \E p \in IF r.port = 0 THEN Free ELSE {r.port} \cap Free :
                 /\ listener' = [listener EXCEPT ![p] = r.for]
                 /\ toClient' = Append(toClient, Reply("success", IF r.port = 0 THEN p ELSE 0))
      <3>1. PICK p \in IF r.port = 0 THEN Free ELSE {r.port} \cap Free :
                 /\ listener' = [listener EXCEPT ![p] = r.for]
                 /\ toClient' = Append(toClient, Reply("success", IF r.port = 0 THEN p ELSE 0))
        BY <2>1
      <3>2. p \in Ports /\ (IF r.port = 0 THEN p ELSE 0) \in Ports \cup {0}  BY DEF Free
      <3>. QED  BY <3>1, <3>2
    <2>2. CASE toClient' = Append(toClient, Reply("failure", 0)) /\ listener' = listener  BY <2>2
    <2>. QED  BY <2>1, <2>2 DEF ServerListens
  <1>. HIDE DEF r
  <1>7. listener' \in [Ports -> Forwards \cup {NoForward}]  BY <1>4, <1>5, <1>6
  <1>8. /\ Typed' /\ One' /\ Once' /\ globalReqState = "pending"
        /\ \A i \in 1..Len(toServer') : toServer'[i] \notin Asking
        /\ \A i \in 1..Len(toClient') : toClient'[i] \in Answering => toClient'[i] = Reply(type, port)
    BY <1>1, <1>6, <1>7, ServerAnswersOne DEF r
  <1>9. ASSUME PromptInv PROVE PromptInv'
    <2>1. remotePc = "listening" /\ r.for = forward.id
      BY <1>1, <1>3, <1>4, <1>9 DEF PromptInv, RequestsAreOwn
    <2>2. type = "success" => Waits' # {}
      <3>1. ASSUME NEW p \in Ports, listener' = [listener EXCEPT ![p] = r.for] PROVE p \in Waits'
        BY <1>1, <1>5, <2>1, <3>1 DEF Waits, remoteClient
      <3>. QED  BY <1>6, <3>1
    <2>3. Reply(type, port).type = type  BY DEF Reply
    <2>4. RequestsAreOwn'  BY <1>8 DEF RequestsAreOwn
    <2>5. AnswersAreOwn'  BY <1>1, <1>8, <2>1, <2>2, <2>3 DEF AnswersAreOwn, remoteClient
    <2>. QED
      BY <1>1, <1>8, <1>9, <2>1, <2>4, <2>5 DEF PromptInv, Asked, Answered, ListenIsReal,
         KnownPortStops, remoteClient
  <1>. QED  BY <1>1, <1>8, <1>9 DEF IInv, remoteClient

LEMMA ServerCancelsKeeps ==
    ASSUME ForwardsAssumption, IInv, ServerCancels
    PROVE  IInv'
  <1>. DEFINE r == Head(toServer)
  <1>1. toServer # <<>> /\ r.type = "cancel" /\ toServer' = Tail(toServer) /\ UNCHANGED <<remoteClient, connections>>
    BY DEF ServerCancels
  <1>2. Typed  BY DEF IInv
  <1>3. r \in ToServer /\ r = toServer[1] /\ 1 \in 1..Len(toServer)  BY <1>1, <1>2, ServerTakes
  <1>4. r \in Asking /\ r.port \in Ports \cup {0}  BY <1>1, <1>3, Packets
  <1>5. listener \in [Ports -> Forwards \cup {NoForward}]  BY <1>2 DEF Typed, Worked
  <1>6. PICK type \in {"success", "failure"} :
          /\ toClient' = Append(toClient, Reply(type, 0))
          /\ \/ r.port \in Ports \ Free /\ listener' = [listener EXCEPT ![r.port] = NoForward]
             \/ r.port \notin Ports \ Free /\ listener' = listener
    BY DEF ServerCancels
  <1>. HIDE DEF r
  <1>7. listener' \in [Ports -> Forwards \cup {NoForward}]  BY <1>4, <1>5, <1>6
  <1>8. r.port \in Ports => listener'[r.port] = NoForward  BY <1>5, <1>6 DEF Free
  <1>9. /\ Typed' /\ One' /\ Once' /\ globalReqState = "pending"
        /\ \A i \in 1..Len(toServer') : toServer'[i] \notin Asking
        /\ \A i \in 1..Len(toClient') : toClient'[i] \in Answering => toClient'[i] = Reply(type, 0)
    BY <1>1, <1>6, <1>7, ServerAnswersOne DEF r
  <1>10. ASSUME PromptInv PROVE PromptInv'
    <2>1. remotePc = "cancelling" /\ r.port = forward.bound
      BY <1>1, <1>3, <1>4, <1>10 DEF PromptInv, RequestsAreOwn
    <2>2. forward.id # NoForward  BY <1>2, <2>1 DEF Typed, Worked, NoForward
    <2>3. Stopped'  BY <1>1, <1>4, <1>8, <2>1, <2>2 DEF Stopped, remoteClient
    <2>4. RequestsAreOwn'  BY <1>9 DEF RequestsAreOwn
    <2>5. AnswersAreOwn'  BY <1>1, <1>9, <2>1, <2>3 DEF AnswersAreOwn, remoteClient
    <2>. QED
      BY <1>1, <1>9, <1>10, <2>1, <2>4, <2>5 DEF PromptInv, Asked, Answered, ListenIsReal,
         KnownPortStops, remoteClient
  <1>. QED  BY <1>1, <1>9, <1>10 DEF IInv, remoteClient

LEMMA ServerReceivesKeeps ==
    ASSUME ForwardsAssumption, IInv, ServerReceives
    PROVE  IInv'
  <1>1. /\ toServer # <<>> /\ Head(toServer).type \in {"confirmation", "close"} /\ toServer' = Tail(toServer)
        /\ UNCHANGED <<remoteClient, toClient, listener, connections>>
    BY DEF ServerReceives
  <1>2. Typed  BY DEF IInv
  <1>3. /\ toServer' \in Seq(ToServer) /\ Head(toServer) \in ToServer /\ Count(toServer', Asking) \in Nat
        /\ Count(toServer, Asking) = Count(toServer', Asking) + (IF Head(toServer) \in Asking THEN 1 ELSE 0)
        /\ \A i \in 1..Len(toServer') : i + 1 \in 1..Len(toServer) /\ toServer'[i] = toServer[i + 1]
    BY <1>1, <1>2, ServerTakes
  <1>4. Head(toServer) \notin Asking  BY <1>1, <1>3, Packets
  <1>5. Count(toServer', Asking) = Count(toServer, Asking)  BY <1>3, <1>4
  <1>6. One'  BY <1>1, <1>5 DEF IInv, One, remoteClient
  <1>7. Once' /\ Queues'  BY <1>1, <1>2, <1>3, OnceStays DEF IInv, remoteClient
  <1>8. Worked'  BY <1>1, <1>2 DEF Typed, Worked, remoteClient
  <1>9. ASSUME PromptInv PROVE PromptInv'
    <2>1. Waits' = Waits /\ Stopped' = Stopped  BY <1>1 DEF Waits, Stopped, remoteClient
    <2>2. RequestsAreOwn'  BY <1>1, <1>3, <1>9 DEF PromptInv, RequestsAreOwn, remoteClient
    <2>3. AnswersAreOwn'  BY <1>1, <1>9, <2>1 DEF PromptInv, AnswersAreOwn, remoteClient
    <2>. QED  BY <1>1, <1>9, <2>1, <2>2, <2>3 DEF PromptInv, Asked, Answered, ListenIsReal,
                 KnownPortStops, remoteClient
  <1>. QED  BY <1>1, <1>6, <1>7, <1>8, <1>9 DEF IInv, Typed, remoteClient

LEMMA ConnectKeeps ==
    ASSUME ForwardsAssumption, IInv, NEW p \in Ports, Connect(p)
    PROVE  IInv'
  <1>. DEFINE n == Len(connections) + 1
              k == [for |-> listener[p], target |-> NoForward, accepted |-> 0]
              e == OpenPacket(n, p)
  <1>1. connections' = Append(connections, k) /\ UNCHANGED <<remoteClient, toServer, listener>>
    BY DEF Connect
  <1>2. Typed  BY DEF IInv
  <1>3. /\ connections \in Seq(Connection) /\ Len(connections) \in Nat
        /\ messages \in Seq(Nat \ {0}) /\ toClient \in Seq(ToClient)
        /\ \A i \in 1..Len(messages) : messages[i] <= Len(connections)
        /\ \A i \in 1..Len(toClient) : toClient[i].connection <= Len(connections)
    BY <1>2 DEF Typed, Queues
  <1>4. listener[p] \in Nat  BY <1>2 DEF Typed, Worked, Forwards, NoForward, ForwardsAssumption
  <1>5. k \in Connection /\ k.accepted = 0  BY <1>4 DEF Connection, NoForward
  <1>6. n \in Nat \ {0} /\ n = Len(connections) + 1  BY <1>3
  <1>. HIDE DEF k
  <1>7. /\ connections' \in Seq(Connection) /\ Len(connections') = n /\ connections'[n] = k
        /\ \A c \in 1..Len(connections) : connections'[c] = connections[c]
    BY <1>1, <1>3, <1>5
  <1>8. toClient' = Append(toClient, e)  BY <1>7 DEF Connect
  <1>. HIDE DEF n
  <1>9. e \in Opening /\ e.connection = n  BY <1>6 DEF OpenPacket, Opening
  <1>10. e \in ToClient /\ e \notin Answering  BY <1>6, <1>9, Packets DEF ToClient
  <1>. HIDE DEF e
  <1>11. /\ toClient' \in Seq(ToClient) /\ Count(toClient, Answering) \in Nat
         /\ Count(toClient', Answering) = Count(toClient, Answering) + (IF e \in Answering THEN 1 ELSE 0)
         /\ \A c \in Nat : /\ Count(toClient, Opens(c)) \in Nat
                           /\ Count(toClient', Opens(c)) = Count(toClient, Opens(c))
                                  + (IF e.connection = c THEN 1 ELSE 0)
         /\ \A i \in 1..Len(toClient') : (i \in 1..Len(toClient) /\ toClient'[i] = toClient[i]) \/ toClient'[i] = e
    BY <1>2, <1>8, <1>10, ClientGets
  <1>12. One'
    <2>1. Count(toClient', Answering) = Count(toClient, Answering)  BY <1>10, <1>11
    <2>. QED  BY <1>1, <2>1 DEF IInv, One, remoteClient
  <1>13. Queues'
    <2>1. \A i \in 1..Len(messages) : messages[i] <= n
      <3>1. \A i \in 1..Len(messages) : messages[i] \in Nat  BY <1>3
      <3>. QED  BY <1>3, <1>6, <3>1
    <2>2. \A i \in 1..Len(toClient) : toClient[i].connection <= n
      <3>1. \A i \in 1..Len(toClient) : toClient[i].connection \in Nat  BY <1>3, Packets
      <3>. QED  BY <1>3, <1>6, <3>1
    <2>3. ASSUME NEW i \in 1..Len(toClient') PROVE toClient'[i].connection <= n
      <3>1. n <= n  BY <1>6
      <3>2. CASE i \in 1..Len(toClient) /\ toClient'[i] = toClient[i]  BY <2>2, <3>2
      <3>3. CASE toClient'[i] = e  BY <1>9, <3>1, <3>3
      <3>. QED  BY <1>11, <3>2, <3>3
    <2>. QED  BY <1>1, <1>2, <1>7, <1>11, <2>1, <2>3 DEF Typed, Queues, remoteClient
  <1>14. Worked'
    <2>1. serving \in 0..Len(connections')  BY <1>2, <1>3, <1>6, <1>7 DEF Typed, Worked
    <2>. QED  BY <1>1, <1>2, <2>1 DEF Typed, Worked, remoteClient
  <1>15. Once'
    <2>1. ASSUME NEW c \in 1..n
          PROVE  connections'[c].accepted + Count(messages, {c}) + Count(toClient', Opens(c)) = 1
      <3>1. c \in Nat  BY <1>6
      <3>2. Count(toClient', Opens(c)) = Count(toClient, Opens(c)) + (IF n = c THEN 1 ELSE 0)  BY <1>9, <1>11, <3>1
      <3>3. CASE c \in 1..Len(connections)
        <4>1. n # c /\ connections'[c] = connections[c]  BY <1>3, <1>6, <1>7, <3>3
        <4>2. Count(toClient', Opens(c)) = Count(toClient, Opens(c))  BY <1>11, <3>1, <3>2, <4>1
        <4>. QED  BY <3>3, <4>1, <4>2 DEF IInv, Once
      <3>4. CASE c = n
        <4>1. \A i \in 1..Len(messages) : messages[i] \notin {n}  BY <1>3, <1>6
        <4>2. \A i \in 1..Len(toClient) : toClient[i] \notin Opens(n)  BY <1>3, <1>6 DEF Opens
        <4>3. Count(messages, {n}) = 0 /\ Count(toClient, Opens(n)) = 0  BY <1>3, <4>1, <4>2, CountZero
        <4>. QED  BY <1>5, <1>7, <3>2, <3>4, <4>3
      <3>. QED  BY <1>3, <1>6, <3>3, <3>4
    <2>. QED  BY <1>1, <1>7, <2>1 DEF Once, Opens, remoteClient
  <1>16. ASSUME PromptInv PROVE PromptInv'
    <2>1. Waits' = Waits /\ Stopped' = Stopped  BY <1>1 DEF Waits, Stopped, remoteClient
    <2>2. RequestsAreOwn'  BY <1>1, <1>16 DEF PromptInv, RequestsAreOwn, remoteClient
    <2>3. AnswersAreOwn'  BY <1>1, <1>10, <1>11, <1>16, <2>1 DEF PromptInv, AnswersAreOwn, remoteClient
    <2>. QED  BY <1>1, <1>16, <2>1, <2>2, <2>3 DEF PromptInv, Asked, Answered, ListenIsReal,
                 KnownPortStops, remoteClient
  <1>. QED  BY <1>1, <1>12, <1>13, <1>14, <1>15, <1>16 DEF IInv, Typed, remoteClient

-----------------------------------------------------------------------------
(***************************************************************************)
(* The theorem.                                                            *)
(***************************************************************************)

LEMMA InitHolds == ASSUME ForwardsAssumption, RemoteInit PROVE IInv
  <1>1. Queues  BY DEF RemoteInit, Queues
  <1>2. Worked
    <2>1. MaxForwards \in Nat  BY DEF ForwardsAssumption
    <2>2. listener \in [Ports -> Forwards \cup {NoForward}]  BY DEF RemoteInit
    <2>3. serving \in 0..Len(connections) /\ started \in 0..MaxForwards  BY <2>1 DEF RemoteInit
    <2>4. remotePc = "idle" /\ serving = 0 /\ remoteClosed \in BOOLEAN /\ started = 0 /\ globalReqState = "none"
          /\ inBuffer = 0 /\ abandoned \in BOOLEAN
      BY DEF RemoteInit
    <2>. QED  BY <2>2, <2>3, <2>4 DEF Worked
  <1>3. Count(toServer, Asking) = 0 /\ Count(toClient, Answering) = 0  BY CountEmpty DEF RemoteInit
  <1>4. One  BY <1>3 DEF RemoteInit, One
  <1>5. Once  BY DEF RemoteInit, Once
  <1>6. PromptInv
    BY DEF RemoteInit, PromptInv, Asked, RequestsAreOwn, AnswersAreOwn, Answered, ListenIsReal,
       KnownPortStops
  <1>. QED  BY <1>1, <1>2, <1>4, <1>5, <1>6 DEF IInv, Typed

LEMMA NextKeeps == ASSUME ForwardsAssumption, IInv, [RemoteNext]_remoteVars PROVE IInv'
  <1>1. CASE \E port \in Asks : CallListen(port)  BY <1>1, CallListenKeeps
  <1>2. CASE CallClose \/ AcceptForward  BY <1>2, CallCloseKeeps, AcceptKeeps
  <1>3. CASE Worker
    BY <1>3, ListenSucceedsKeeps, ListenFailsKeeps, BridgeEndsKeeps, InvalidateKeeps, CancelledKeeps DEF Worker
  <1>4. CASE Handles  BY <1>4, HandlesKeeps
  <1>5. CASE Server  BY <1>5, ServerListensKeeps, ServerCancelsKeeps, ServerReceivesKeeps DEF Server
  <1>6. CASE \E p \in Ports : Connect(p)  BY <1>6, ConnectKeeps
  <1>7. CASE UNCHANGED remoteVars
    <2>1. Typed'  BY <1>7 DEF remoteVars, remoteClient, IInv, Typed, Queues, Worked
    <2>2. One'  BY <1>7 DEF remoteVars, remoteClient, IInv, One
    <2>3. Once'  BY <1>7 DEF remoteVars, remoteClient, IInv, Once, Opens
    <2>4. PromptInv => PromptInv'
      BY <1>7 DEF remoteVars, remoteClient, PromptInv, Asked, RequestsAreOwn, AnswersAreOwn, Answered,
         ListenIsReal, KnownPortStops,
                  Waits, Stopped
    <2>. QED  BY <1>7, <2>1, <2>2, <2>3, <2>4 DEF IInv, remoteVars, remoteClient
  <1>. QED  BY <1>1, <1>2, <1>3, <1>4, <1>5, <1>6, <1>7 DEF RemoteNext

LEMMA AgreeWhenInv == ASSUME ForwardsAssumption, IInv PROVE PortsAgree
  <1>1. /\ toServer \in Seq(ToServer) /\ toClient \in Seq(ToClient)
        /\ messages \in Seq(Nat \ {0}) /\ connections \in Seq(Connection)
        /\ \A i \in 1..Len(messages) : messages[i] <= Len(connections)
    BY DEF IInv, Typed, Queues
  <1>2. /\ DOMAIN toServer = 1..Len(toServer) /\ DOMAIN toClient = 1..Len(toClient)
        /\ DOMAIN messages = 1..Len(messages) /\ DOMAIN connections = 1..Len(connections)
    BY <1>1
  <1>3. RemoteTypeOK
    <2>1. \A i \in DOMAIN messages : messages[i] \in DOMAIN connections  BY <1>1, <1>2
    <2>2. \A i \in DOMAIN toServer : toServer[i].type \in {"listen", "cancel", "confirmation", "close"}
      BY <1>1, <1>2 DEF ToServer, Asking, Telling
    <2>3. \A i \in DOMAIN toClient : toClient[i].type \in {"success", "failure", "open"}
      BY <1>1, <1>2 DEF ToClient, Answering, Opening
    <2>. QED  BY <2>1, <2>2, <2>3 DEF IInv, Typed, Worked, RemoteTypeOK
  <1>4. OneRequest
    <2>1. Requests = At(toServer, Asking)  BY <1>1, <1>2, Packets DEF Requests, At
    <2>2. Replies = At(toClient, Answering)  BY <1>1, <1>2, Packets DEF Replies, At
    <2>. QED  BY <2>1, <2>2 DEF IInv, One, OneRequest, Count
  <1>5. AcceptedOnce
    <2>1. ASSUME NEW c \in DOMAIN connections
          PROVE  /\ {i \in DOMAIN messages : messages[i] = c} = At(messages, {c})
                 /\ {i \in DOMAIN toClient : toClient[i].connection = c} = At(toClient, Opens(c))
      BY <1>1, <1>2 DEF At, Opens
    <2>. QED  BY <1>2, <2>1 DEF IInv, Once, AcceptedOnce, Count
  <1>. QED  BY <1>3, <1>4, <1>5 DEF IInv, PromptInv, PortsAgree

\* Of the global requests of a session one at most has no answer yet; a connection that the server
\* forwards is accepted once; and until a request times out a forward that was started has a
\* listener at the server, and one that knew its port has none when it was cancelled
\* (ssh_global_request, ssh_channel_accept, ssh_channel_listen_forward, ssh_channel_cancel_forward).
THEOREM PortsAlwaysAgree == ASSUME ForwardsAssumption PROVE RemoteSpec => []PortsAgree
  <1>1. RemoteInit => IInv  BY InitHolds
  <1>2. IInv /\ [RemoteNext]_remoteVars => IInv'  BY NextKeeps
  <1>3. IInv => PortsAgree  BY AgreeWhenInv
  <1>. QED  BY <1>1, <1>2, <1>3, PTL DEF RemoteSpec

===================================================================================
