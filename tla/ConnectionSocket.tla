-------------------------- MODULE ConnectionSocket --------------------------
(***************************************************************************)
(* The socket of one connection, from openSocketWithError: to              *)
(* closeWorkerSocketHandle.  Its number is kept in three places: a local   *)
(* variable of the worker, the SSHCoreSocketHandle (under its lock), and   *)
(* libssh, which got it through SSH_OPTIONS_FD.  Other threads shut it     *)
(* down through the handle while the worker opens, uses and closes it.     *)
(***************************************************************************)
EXTENDS DescriptorTable

CONSTANTS
    Addresses,       \* how many addresses the route's host resolves to
    Cancellers       \* calls that cancel: a disconnect, a cancelled task

SocketAssumption == Addresses \in Nat

Handles == 1..Addresses
NoHandle == 0

VARIABLES
    pc,              \* where the worker is
    fileDescriptor,  \* its local variable
    made,            \* addresses tried so far, and handles made
    socketHandle,    \* the worker's socketHandle property
    stored,          \* storedFileDescriptor of each handle
    sshFd,           \* libssh's copy
    lostToLibssh,    \* libssh has closed the descriptor that it was lent
    last,            \* no further address is tried after the close
    canceller        \* each cancel: where it is, and the handle it read

workerVars == <<pc, fileDescriptor, made, last>>
vars == <<tableVars, workerVars, socketHandle, stored, sshFd, canceller, lostToLibssh>>

Init ==
    /\ TableInit([f \in Fds |-> "free"])
    /\ pc = "open" /\ fileDescriptor = NoFd /\ made = 0 /\ socketHandle = NoHandle
    /\ stored = [h \in Handles |-> NoFd] /\ sshFd = NoFd /\ last = FALSE /\ lostToLibssh = FALSE
    /\ canceller = [c \in Cancellers |-> [pc |-> "idle", handle |-> NoHandle]]

Stranger == StrangerStep /\ UNCHANGED <<workerVars, socketHandle, stored, sshFd, canceller, lostToLibssh>>

-----------------------------------------------------------------------------
(***************************************************************************)
(* The worker.                                                             *)
(***************************************************************************)

GoTo(from, to) == pc = from /\ pc' = to

\* No address is left, or none was found.
NoAddress ==
    /\ GoTo("open", "gone")
    /\ UNCHANGED <<tableVars, fileDescriptor, made, last, socketHandle, stored, sshFd, canceller, lostToLibssh>>

\* Variant: one address too many.
OpenSocketPastEnd ==
    /\ GoTo("open", "publish") /\ made <= Addresses
    /\ \E f \in Fds : Open(f, "ssh") /\ fileDescriptor' = f
    /\ UNCHANGED <<made, last, socketHandle, stored, sshFd, canceller, lostToLibssh>>

OpenSocket ==
    /\ GoTo("open", "publish") /\ made < Addresses
    /\ \E f \in Fds : Open(f, "ssh") /\ fileDescriptor' = f
    /\ UNCHANGED <<made, last, socketHandle, stored, sshFd, canceller, lostToLibssh>>

PublishHandle ==
    /\ GoTo("publish", "connect")
    /\ made' = made + 1 /\ socketHandle' = made + 1
    /\ stored' = [stored EXCEPT ![made + 1] = fileDescriptor]
    /\ UNCHANGED <<tableVars, fileDescriptor, last, sshFd, canceller, lostToLibssh>>

\* connect, and the exchange with a proxy.
Connected ==
    /\ GoTo("connect", "attach")
    /\ fileDescriptor \notin shut
    /\ UNCHANGED <<tableVars, fileDescriptor, made, last, socketHandle, stored, sshFd, canceller, lostToLibssh>>

ConnectFails ==
    /\ GoTo("connect", "take")
    /\ UNCHANGED <<tableVars, fileDescriptor, made, last, socketHandle, stored, sshFd, canceller, lostToLibssh>>

\* SSH_OPTIONS_FD; when libssh refuses it the connect is over.
Attach ==
    /\ pc = "attach"
    /\ \/ pc' = "use" /\ sshFd' = fileDescriptor /\ UNCHANGED last
       \/ pc' = "take" /\ last' = TRUE /\ UNCHANGED sshFd
    /\ UNCHANGED <<tableVars, fileDescriptor, made, socketHandle, stored, canceller, lostToLibssh>>

\* ssh_socket_nonblocking_flush closes the descriptor when a write fails.
LibsshCloses ==
    /\ pc = "use" /\ sshFd # NoFd
    /\ CloseDescriptors({sshFd}) /\ sshFd' = NoFd /\ lostToLibssh' = TRUE
    /\ UNCHANGED <<workerVars, socketHandle, stored, canceller>>

\* ssh_disconnect and ssh_free forget a descriptor that libssh did not open.
FreeSession ==
    /\ GoTo("use", "take")
    /\ sshFd' = NoFd /\ last' = TRUE
    /\ UNCHANGED <<tableVars, fileDescriptor, made, socketHandle, stored, canceller, lostToLibssh>>

\* Variant: the handle keeps the number it gave away.
TakeKeeps ==
    /\ GoTo("take", "close")
    /\ fileDescriptor' = stored[socketHandle]
    /\ UNCHANGED <<tableVars, made, last, socketHandle, stored, sshFd, canceller, lostToLibssh>>

\* takeFileDescriptorForClose.
TakeFileDescriptor ==
    /\ GoTo("take", "close")
    /\ fileDescriptor' = stored[socketHandle]
    /\ stored' = [stored EXCEPT ![socketHandle] = NoFd]
    /\ UNCHANGED <<tableVars, made, last, socketHandle, sshFd, canceller, lostToLibssh>>

\* Variant: the taken descriptor is only closed when nothing is tried after it.
CloseLast ==
    /\ GoTo("close", "forget")
    /\ IF last THEN CloseDescriptors({fileDescriptor}) ELSE UNCHANGED tableVars
    /\ fileDescriptor' = NoFd
    /\ UNCHANGED <<made, last, socketHandle, stored, sshFd, canceller, lostToLibssh>>

CloseDescriptor ==
    /\ GoTo("close", "forget")
    /\ CloseDescriptors({fileDescriptor})
    /\ fileDescriptor' = NoFd
    /\ UNCHANGED <<made, last, socketHandle, stored, sshFd, canceller, lostToLibssh>>

ForgetHandle ==
    /\ GoTo("forget", IF last THEN "gone" ELSE "open")
    /\ socketHandle' = NoHandle
    /\ UNCHANGED <<tableVars, fileDescriptor, made, last, stored, sshFd, canceller, lostToLibssh>>

-----------------------------------------------------------------------------
(***************************************************************************)
(* cancelCurrentTask, on any thread.                                       *)
(***************************************************************************)

ReadHandle(c) ==
    /\ canceller[c].pc = "idle"
    /\ canceller' = [canceller EXCEPT ![c] = [pc |-> "shutdown", handle |-> socketHandle]]
    /\ UNCHANGED <<tableVars, workerVars, socketHandle, stored, sshFd, lostToLibssh>>

\* shutdownNow: the number is read and used under the lock of the handle.
ShutdownNow(c) ==
    /\ canceller[c].pc = "shutdown"
    /\ ShutdownDescriptor(IF canceller[c].handle = NoHandle THEN NoFd ELSE stored[canceller[c].handle])
    /\ canceller' = [canceller EXCEPT ![c].pc = "done"]
    /\ UNCHANGED <<workerVars, socketHandle, stored, sshFd, lostToLibssh>>

-----------------------------------------------------------------------------
WorkerStep ==
    \/ NoAddress \/ OpenSocket \/ PublishHandle \/ Connected \/ ConnectFails \/ Attach
    \/ LibsshCloses \/ FreeSession \/ TakeFileDescriptor \/ CloseDescriptor \/ ForgetHandle

Next == WorkerStep \/ Stranger \/ \E c \in Cancellers : ReadHandle(c) \/ ShutdownNow(c)

Spec == Init /\ [][Next]_vars

-----------------------------------------------------------------------------
(***************************************************************************)
(* Properties.                                                             *)
(***************************************************************************)

\* Every variable has its type.
TypeOK ==
    /\ owner \in [Fds -> {"free", "ssh", "stranger"}] /\ shut \subseteq Fds
    /\ pc \in {"open", "publish", "connect", "attach", "use", "take", "close", "forget", "gone"}
    /\ fileDescriptor \in Fds \cup {NoFd} /\ sshFd \in Fds \cup {NoFd}
    /\ made \in 0..Addresses
    /\ socketHandle \in {NoHandle, made}
    /\ pc \in {"connect", "attach", "use", "take"} => socketHandle # NoHandle
    /\ stored \in [Handles -> Fds \cup {NoFd}]
    /\ {last, lostToLibssh} \subseteq BOOLEAN /\ shutStranger \in BOOLEAN /\ closedStranger \in BOOLEAN
    /\ canceller \in [Cancellers -> [pc : {"idle", "shutdown", "done"}, handle : 0..Addresses]]

\* A number that a handle holds is the connection's own open socket, and the socket of
\* one handle only: what a cancel, however late, shuts down (SSHCoreSocketHandle.m).
\* libssh breaks it when it closes the descriptor it was lent.
HandlesOwnTheirSocket ==
    ~lostToLibssh => \A h \in Handles : stored[h] # NoFd =>
        owner[stored[h]] = "ssh" /\ \A g \in Handles : stored[g] = stored[h] => g = h

\* A connect that failed, for whatever address, and a closed connection leave no
\* descriptor open (openSocketWithError:, closeWorkerSocketHandle).
NothingLeaks ==
    /\ pc = "open" \/ pc = "gone" => \A f \in Fds : owner[f] # "ssh"
    /\ \A f, g \in Fds : owner[f] = "ssh" /\ owner[g] = "ssh" => f = g

\* "This avoids fd-reuse hazards" (Docs/architecture.html): neither the cancel nor the
\* close of a connection reaches a socket of somebody else.
NoReuseHazard == StrangersIntact /\ ClosesItsOwn

\* The same, as far as the handles can see to it: shutdownNow and closeWorkerSocketHandle
\* are safe until libssh closes the descriptor that it was lent.
ReuseSafety == ~lostToLibssh => NoReuseHazard

\* Both: no handle, cancel or close has anything to do with a socket that is not the connection's own.
SocketsAreOwn == HandlesOwnTheirSocket /\ ReuseSafety

=============================================================================
