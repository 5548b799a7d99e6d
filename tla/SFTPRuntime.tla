---------------------------- MODULE SFTPRuntime -----------------------------
(***************************************************************************)
(* An SFTP client and its file handles, from the moment openSFTP has       *)
(* published the runtime.  Everything it does is a block of the worker     *)
(* queue, so the questions are in which order the blocks come, and who is  *)
(* still alive when one runs: the runtime knows its open files only        *)
(* weakly, the application may drop a handle or the client at any time,    *)
(* and a disconnect frees the session underneath.                          *)
(***************************************************************************)
EXTENDS Naturals, Sequences

CONSTANTS
    Files,           \* calls of openFileAtPath:
    Closers,         \* calls of closeWithCompletion: on the client
    Layers,          \* the API the application uses: "swift", "objc"
    MaxPending       \* bound on the calls that wait in the queue

ASSUME SFTPAssumption == MaxPending \in Nat

NoFile == "noFile"
NoCloser == "noCloser"

VARIABLES
    layer,
    queue,           \* the worker's blocks that wait
    session,         \* the ssh_session: "live" or "freed"
    currentTask,     \* it is this runtime
    sftp,            \* the sftp_session: "open" or "freed"
    closed,          \* the runtime's flag
    fileRuntimes,    \* its weak table
    file,            \* the sftp_file of each file runtime
    handle,          \* the application's reference to each file
    client,          \* and to the client
    closer,          \* each close call
    disconnect,      \* how far a disconnect is
    misused          \* libssh was given something that was freed

objectVars == <<session, currentTask, sftp, closed, fileRuntimes, misused>>
appVars    == <<handle, client, closer, disconnect>>
vars == <<layer, queue, file, objectVars, appVars>>

Init ==
    /\ layer \in Layers
    /\ queue = <<>>
    /\ session = "live" /\ currentTask = TRUE /\ sftp = "open" /\ closed = FALSE
    /\ fileRuntimes = {} /\ file = [f \in Files |-> "none"]
    /\ handle = [f \in Files |-> "none"] /\ client = "held"
    /\ closer = [c \in Closers |-> "none"] /\ disconnect = "none"
    /\ misused = FALSE

-----------------------------------------------------------------------------
(***************************************************************************)
(* The queue, and reference counts.  A file runtime lives while the        *)
(* application has its handle or a block captures it; its dealloc hands    *)
(* the sftp_file to one more block ("orphan").  The runtime itself lives   *)
(* while it is the current task, so its own dealloc finds nothing to free. *)
(***************************************************************************)

Block(op, f, c) == [op |-> op, file |-> f, closer |-> c]

Captured(f, q) == \E i \in DOMAIN q : q[i].file = f

\* The queue becomes q, the handles h and the sftp_files fs, and a file runtime
\* that nothing refers to any more is deallocated.
Settle(q, h, fs) ==
    LET dead == {f \in Files : fs[f] = "open" /\ h[f] = "dropped" /\ ~Captured(f, q)}
    IN  /\ handle' = h
        /\ file' = [f \in Files |-> IF f \in dead THEN "orphan" ELSE fs[f]]
        /\ queue' = IF dead = {} THEN q
                    ELSE Append(q, Block("fileDealloc", CHOOSE f \in dead : TRUE, NoCloser))

\* The block at the head of the queue runs and is released.
RunBlock(op) == queue # <<>> /\ Head(queue).op = op
Running == Head(queue)

\* libssh is handed the session, or a file of it.
UseSession == misused' = (misused \/ sftp # "open" \/ session # "live")
UseFile(f, fs) == misused' = (misused \/ fs[f] \notin {"open", "orphan"} \/ sftp # "open" \/ session # "live")

-----------------------------------------------------------------------------
(***************************************************************************)
(* The application.                                                        *)
(***************************************************************************)

Room == Len(queue) < MaxPending

\* list, stat, mkdir, rename, read, write, download, upload and their like.
CallOperation ==
    /\ client = "held" /\ Room
    /\ queue' = Append(queue, Block("operation", NoFile, NoCloser))
    /\ UNCHANGED <<layer, file, objectVars, appVars>>

CallOpen(f) ==
    /\ client = "held" /\ handle[f] = "none" /\ Room
    /\ handle' = [handle EXCEPT ![f] = "awaited"]
    /\ queue' = Append(queue, Block("open", f, NoCloser))
    /\ UNCHANGED <<layer, file, objectVars, client, closer, disconnect>>

\* read, write or seek; or close, any number of times.
CallFile(f) ==
    /\ handle[f] = "held" /\ Room
    /\ \E op \in {"fileOperation", "fileClose"} : queue' = Append(queue, Block(op, f, NoCloser))
    /\ UNCHANGED <<layer, file, objectVars, appVars>>

CallClose(c) ==
    /\ client = "held" /\ closer[c] = "none"
    /\ closer' = [closer EXCEPT ![c] = "waiting"]
    /\ queue' = Append(queue, Block("close", NoFile, c))
    /\ UNCHANGED <<layer, file, objectVars, handle, client, disconnect>>

\* deinit of SFTPFileHandle closes the file; SSHKitSFTPFileHandle has no dealloc.
DropHandle(f) ==
    /\ handle[f] = "held"
    /\ LET q == IF layer = "swift" THEN Append(queue, Block("fileClose", f, NoCloser)) ELSE queue
       IN  Settle(q, [handle EXCEPT ![f] = "dropped"], file)
    /\ UNCHANGED <<layer, objectVars, client, closer, disconnect>>

\* The completion of SFTPClient.openFile refers to the client.
Droppable == client = "held" /\ (layer = "swift" => \A f \in Files : handle[f] # "awaited")

\* Variant: SFTPClient has no deinit.
DropClientUnclosed ==
    /\ Droppable /\ client' = "dropped"
    /\ UNCHANGED <<layer, queue, file, objectVars, handle, closer, disconnect>>

\* deinit of SFTPClient closes the client; SSHKitSFTPClient has no dealloc.
DropClient ==
    /\ Droppable /\ client' = "dropped"
    /\ queue' = IF layer = "swift" THEN Append(queue, Block("close", NoFile, NoCloser)) ELSE queue
    /\ UNCHANGED <<layer, file, objectVars, handle, closer, disconnect>>

\* Variant: a disconnect relies on closeSession alone.
DisconnectClosesNothing ==
    /\ disconnect = "none" /\ disconnect' = "cancelled"
    /\ UNCHANGED <<layer, queue, file, objectVars, handle, client, closer>>

\* A disconnect: cancelCurrentTask closes the task ...
CallDisconnect ==
    /\ disconnect = "none" /\ disconnect' = "cancelled"
    /\ queue' = IF currentTask THEN Append(queue, Block("close", NoFile, NoCloser)) ELSE queue
    /\ UNCHANGED <<layer, file, objectVars, handle, client, closer>>

\* ... and the teardown is queued when the worker has left Running, or the deadline has passed.
QueueTeardown ==
    /\ disconnect = "cancelled" /\ disconnect' = "queued"
    /\ queue' = Append(queue, Block("teardown", NoFile, NoCloser))
    /\ UNCHANGED <<layer, file, objectVars, handle, client, closer>>

-----------------------------------------------------------------------------
(***************************************************************************)
(* The blocks.  libssh calls may fail for any reason; the outcome matters  *)
(* only where it leaves something open.                                    *)
(***************************************************************************)

IsOpen == ~closed /\ sftp = "open"

\* The queries, the mutations and the transfers.
RunOperation ==
    /\ RunBlock("operation")
    /\ queue' = Tail(queue)
    /\ IF IsOpen THEN UseSession ELSE UNCHANGED misused
    /\ UNCHANGED <<layer, file, session, currentTask, sftp, closed, fileRuntimes, appVars>>

\* Variant: the file is not entered in the table, so that a close does not find it.
OpensFileUnregistered(f) ==
    /\ Running.file = f /\ IsOpen
    /\ UseSession
    /\ Settle(Tail(queue), [handle EXCEPT ![f] = "held"], [file EXCEPT ![f] = "open"])
    /\ UNCHANGED <<layer, session, currentTask, sftp, closed, fileRuntimes, client, closer, disconnect>>

\* openFileAtPath: delivers a handle ...
OpensFile(f) ==
    /\ Running.file = f /\ IsOpen
    /\ UseSession
    /\ fileRuntimes' = fileRuntimes \cup {f}
    /\ Settle(Tail(queue), [handle EXCEPT ![f] = "held"], [file EXCEPT ![f] = "open"])
    /\ UNCHANGED <<layer, session, currentTask, sftp, closed, client, closer, disconnect>>

\* Variant: a handle is delivered although sftp_open returned NULL.
RefusesFileWithHandle(f) ==
    /\ Running.file = f
    /\ IF IsOpen THEN UseSession ELSE UNCHANGED misused
    /\ Settle(Tail(queue), [handle EXCEPT ![f] = "held"], file)
    /\ UNCHANGED <<layer, session, currentTask, sftp, closed, fileRuntimes, client, closer, disconnect>>

\* ... or an error, of the server or because the client is closed.
RefusesFile(f) ==
    /\ Running.file = f
    /\ IF IsOpen THEN UseSession ELSE UNCHANGED misused
    /\ Settle(Tail(queue), [handle EXCEPT ![f] = "none"], file)
    /\ UNCHANGED <<layer, session, currentTask, sftp, closed, fileRuntimes, client, closer, disconnect>>

RunOpen == RunBlock("open") /\ \E f \in Files : OpensFile(f) \/ RefusesFile(f)

\* Variant: ensureOpenWithError: asks the owner only.
RunFileOperationUnchecked(f) ==
    /\ RunBlock("fileOperation") /\ Running.file = f
    /\ IF IsOpen THEN UseFile(f, file) ELSE UNCHANGED misused
    /\ Settle(Tail(queue), handle, file)
    /\ UNCHANGED <<layer, session, currentTask, sftp, closed, fileRuntimes, client, closer, disconnect>>

\* read, write and seek of a file, after ensureOpenWithError:.
RunFileOperation(f) ==
    /\ RunBlock("fileOperation") /\ Running.file = f
    /\ IF file[f] = "open" /\ IsOpen THEN UseFile(f, file) ELSE UNCHANGED misused
    /\ Settle(Tail(queue), handle, file)
    /\ UNCHANGED <<layer, session, currentTask, sftp, closed, fileRuntimes, client, closer, disconnect>>

\* closeWithCompletion: of a file; a closed file is left alone.
RunFileClose(f) ==
    /\ RunBlock("fileClose") /\ Running.file = f
    /\ IF file[f] = "open"
       THEN UseFile(f, file) /\ fileRuntimes' = fileRuntimes \ {f}
       ELSE UNCHANGED <<misused, fileRuntimes>>
    /\ Settle(Tail(queue), handle, [file EXCEPT ![f] = "closed"])
    /\ UNCHANGED <<layer, session, currentTask, sftp, closed, client, closer, disconnect>>

\* The block that dealloc of a file runtime leaves behind.
RunFileDealloc(f) ==
    /\ RunBlock("fileDealloc") /\ Running.file = f
    /\ UseFile(f, file)
    /\ Settle(Tail(queue), handle, [file EXCEPT ![f] = "closed"])
    /\ UNCHANGED <<layer, session, currentTask, sftp, closed, fileRuntimes, client, closer, disconnect>>

\* The file runtimes the table still has: those that are alive.
Registered == {f \in fileRuntimes : file[f] = "open"}

\* closeWithCompletion: of the client, and its close handler.
RunClose ==
    /\ RunBlock("close")
    /\ closer' = IF Running.closer = NoCloser THEN closer ELSE [closer EXCEPT ![Running.closer] = "answered"]
    /\ IF closed
       THEN UNCHANGED <<currentTask, sftp, closed, fileRuntimes, misused>>
       ELSE /\ closed' = TRUE /\ sftp' = "freed" /\ fileRuntimes' = {} /\ currentTask' = FALSE
            /\ UseSession
    /\ Settle(Tail(queue), handle, [f \in Files |-> IF ~closed /\ f \in Registered THEN "closed" ELSE file[f]])
    /\ UNCHANGED <<layer, session, client, disconnect>>

\* closeSession.
RunTeardown ==
    /\ RunBlock("teardown")
    /\ queue' = Tail(queue) /\ disconnect' = "done"
    /\ session' = "freed" /\ currentTask' = FALSE
    /\ UNCHANGED <<layer, file, sftp, closed, fileRuntimes, misused, handle, client, closer>>

-----------------------------------------------------------------------------
WorkerStep ==
    \/ RunOperation \/ RunOpen \/ RunClose \/ RunTeardown
    \/ \E f \in Files : RunFileOperation(f) \/ RunFileClose(f) \/ RunFileDealloc(f)

Next ==
    \/ WorkerStep
    \/ CallOperation \/ DropClient \/ CallDisconnect \/ QueueTeardown
    \/ \E f \in Files : CallOpen(f) \/ CallFile(f) \/ DropHandle(f)
    \/ \E c \in Closers : CallClose(c)

Spec == Init /\ [][Next]_vars

\* A dispatch queue runs what it has; libssh's calls end, by their timeouts if need be.
FairSpec == Spec /\ WF_vars(WorkerStep)

-----------------------------------------------------------------------------
(***************************************************************************)
(* Properties.                                                             *)
(***************************************************************************)

\* Every variable has its type.
TypeOK ==
    /\ layer \in Layers
    /\ \A i \in DOMAIN queue : queue[i] \in
           [op : {"operation", "open", "fileOperation", "fileClose", "fileDealloc", "close", "teardown"},
            file : Files \cup {NoFile}, closer : Closers \cup {NoCloser}]
    /\ {session, sftp} \subseteq {"live", "open", "freed"}
    /\ {currentTask, closed, misused} \subseteq BOOLEAN
    /\ fileRuntimes \subseteq Files
    /\ file \in [Files -> {"none", "open", "orphan", "closed"}]
    /\ handle \in [Files -> {"none", "awaited", "held", "dropped"}]
    /\ \A f \in Files : handle[f] \in {"held", "dropped"} => file[f] # "none"
    /\ client \in {"held", "dropped"}
    /\ closer \in [Closers -> {"none", "waiting", "answered"}]
    /\ disconnect \in {"none", "cancelled", "queued", "done"}

\* Whatever the application drops, closes or disconnects, and in whatever order, no block
\* hands libssh a file, an sftp_session or an ssh_session that is freed.  What the
\* documentation says of it: "Runtime failures -- network loss, [...] server disconnect
\* [...] -- are always typed errors, never crashes" (Docs/architecture.html).
NoUseAfterFree == ~misused

\* The same for users of the Swift layer, whose handles close themselves (SFTPClient.swift).
SwiftUseIsSafe == layer = "swift" => NoUseAfterFree

\* In the Swift layer a file that is open on the server belongs to an open client, and an
\* open client to a live session: the order of the releases (closeWithCompletion:, closeSession).
FilesDieFirst ==
    /\ layer = "swift" => \A f \in Files : file[f] \in {"open", "orphan"} => f \in fileRuntimes /\ sftp = "open"
    /\ sftp = "open" => session = "live"

\* No call of the Swift layer uses what was freed, and no client is freed before its files
\* (SSHCoreLibSSHSFTPFileRuntime.m).
OwnersAreSafe == TypeOK /\ SwiftUseIsSafe /\ FilesDieFirst

\* A close is answered once everything the client had is released, its place as the
\* connection's task included.
Closable == INSTANCE ClosableRuntime WITH
    Closers <- Closers,
    released <- sftp = "freed" /\ ~currentTask /\ \A f \in Files : file[f] # "open",
    call <- closer

ImplementsClosable == Closable!Spec

\* A handle that the application dropped is closed on the server, whether it closed it or
\* not; so is a Swift client, and the connection takes other jobs again.
DroppedIsReleased ==
    /\ \A f \in Files : handle[f] = "dropped" ~> file[f] = "closed"
    /\ layer = "swift" /\ client = "dropped" ~> sftp = "freed" /\ ~currentTask

=============================================================================
