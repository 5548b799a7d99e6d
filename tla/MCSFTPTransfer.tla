--------------------------- MODULE MCSFTPTransfer ---------------------------
(***************************************************************************)
(* The instances of SFTPTransfer, SCPTransfer, SwiftSessions and Command-  *)
(* Stream that TLC checks in one run: what the Swift layer makes of        *)
(* transfers, of tasks, and of a command or shell, once with more output   *)
(* and once with more calls.  A behaviour is one of a single part; the     *)
(* others stay as they began.                                              *)
(***************************************************************************)
EXTENDS SFTPTransfer, TLC

VARIABLES
    part,            \* which part takes steps
    transfer, scpPc, buffer, errors, events, input, output, scp, stored, got, local, scpResult,
    body, handler, box, calls, state, queue, signalled, connected, taskResult, purpose,
    streamKind, said, exited, peerEof, peerClosed, wire, broken, channel, inputEnded, finished, didSendEOF,
    streamPc, running, exitStatus, blocks, timer, completion, asked, accepted, posted, sink, isFinished, timedOut

SCP == INSTANCE SCPTransfer WITH
    pc <- scpPc, result <- scpResult, Sizes <- {0, 1, 2, 3}, MaxSize <- 2, MaxEvent <- 2
Task == INSTANCE SwiftSessions WITH result <- taskResult, outcome <- connected
Streamed == INSTANCE CommandStream WITH
    kind <- streamKind, pc <- streamPc, failed <- broken, localEof <- inputEnded, status <- exitStatus,
    queue <- blocks, calls <- asked, input <- accepted,
    Kinds <- {"command"}, MaxOutput <- 2, MaxCalls <- 1
Called == INSTANCE CommandStream WITH
    kind <- streamKind, pc <- streamPc, failed <- broken, localEof <- inputEnded, status <- exitStatus,
    queue <- blocks, calls <- asked, input <- accepted,
    Kinds <- {"command", "shell"}, MaxOutput <- 0, MaxCalls <- 2

ASSUME Streamed!StreamAssumption /\ Called!StreamAssumption
ASSUME SCP!SCPAssumption

scpVars == <<transfer, scpPc, buffer, errors, events, input, output, scp, stored, got, local, scpResult>>
taskVars == <<purpose, body, handler, box, calls, state, queue, signalled, connected, taskResult>>
streamVars == <<streamKind, said, exited, peerEof, peerClosed, wire, broken, channel, inputEnded, finished,
                didSendEOF, streamPc, running, exitStatus, blocks, timer, completion, asked, accepted, posted,
                sink, isFinished, timedOut>>
allVars == <<part, vars, scpVars, taskVars, streamVars>>

PartsInit ==
    /\ part \in {"sftp", "scp", "task", "streamed", "called"} /\ Init /\ SCP!Init /\ Task!Init
    /\ IF part = "called" THEN Called!Init ELSE Streamed!Init
    /\ part # "sftp" => kind = "read" /\ source = 0 /\ dest = <<>>
    /\ part # "scp" => transfer = [upload |-> TRUE, size |-> 0]
    /\ part # "task" => purpose = "connect"
PartsNext ==
    \/ part = "sftp" /\ Next /\ UNCHANGED <<part, scpVars, taskVars, streamVars>>
    \/ part = "scp" /\ SCP!Next /\ UNCHANGED <<part, vars, taskVars, streamVars>>
    \/ part = "task" /\ Task!Next /\ UNCHANGED <<part, vars, scpVars, streamVars>>
    \/ part = "streamed" /\ Streamed!Next /\ UNCHANGED <<part, vars, scpVars, taskVars>>
    \/ part = "called" /\ Called!Next /\ UNCHANGED <<part, vars, scpVars, taskVars>>
PartsSpec ==
    /\ PartsInit /\ [][PartsNext]_allVars
    /\ WF_scpVars(part = "scp" /\ SCP!Helper)
    /\ WF_scpVars(part = "scp" /\ SCP!Program)
    /\ WF_scpVars(part = "scp" /\ SCP!Delivers)
    /\ WF_taskVars(part = "task" /\ Task!Task)
    /\ WF_taskVars(part = "task" /\ Task!CancelDisconnects)
    /\ WF_taskVars(part = "task" /\ Task!Completion)
    /\ WF_taskVars(part = "task" /\ Task!ConnectStarts)
    /\ WF_taskVars(part = "task" /\ Task!ConnectEnds)
    /\ \A c \in Task!Disconnects : WF_taskVars(part = "task" /\ Task!Disconnect(c))
    /\ WF_streamVars(part = "streamed" /\ Streamed!Worker)
    /\ WF_streamVars(part = "streamed" /\ Streamed!Complete)
    /\ WF_streamVars(part = "streamed" /\ Streamed!TimerFires)
    /\ WF_streamVars(part = "called" /\ Called!Worker)
    /\ WF_streamVars(part = "called" /\ Called!Complete)
    /\ WF_streamVars(part = "called" /\ Called!TimerFires)

\* An upload by SCP succeeds only if the program has stored every byte (uploadFileWithSCP).
UploadIsStored == SCP!UploadIsStored

\* A download by SCP changes the local file only into all of the remote one (downloadFileWithSCP).
DownloadIsWhole == SCP!DownloadIsWhole

\* Every transfer by SCP ends (SCPEventReader).
SCPEnds == part = "scp" => SCP!SCPEnds

\* A connection that a task returns is open and no disconnect of a cancellation reaches it
\* (SSHLockedSession.shouldReturnConnectedSession).
ReturnedIsUndisturbed == Task!ReturnedIsUndisturbed

\* A cancelled connect or discovery of a host key throws the error cancelled (SSHClient.connect).
CancelledThrowsCancelled == Task!CancelledThrowsCancelled

\* Every task that connects or discovers returns (SSHClient.connect).
TaskEnds == part = "task" => Task!TaskEnds

\* A connect or discovery that throws leaves no session open (SSHLockedSession.cancel).
NoSessionLeaks == Task!NothingLeaks

\* The output of a command or shell is handed on once, in order, and not before the application has the
\* object (drainStream).
OutputIsExact == Streamed!OutputIsExact /\ Streamed!OpenedBeforeOutput

\* Closed is the last event, comes once, and its status is the program's or has an excuse (finishWithExitStatus).
ClosedIsExact == Streamed!ClosedIsLast /\ Streamed!RealMeansWhole /\ Streamed!AbnormalHasReason

\* What the program reads is what was accepted, in the order of the calls (writeData:, sendEOF, close).
InputIsExact == Called!InputIsExact

\* A stream that has something to end for ends, and every call on it is answered (finishWithExitStatus).
StreamsEnd ==
    /\ part = "streamed" => Streamed!StreamEnds /\ Streamed!CallsAnswered
    /\ part = "called" => Called!StreamEnds /\ Called!CallsAnswered

\* Each event of a command or shell is heard once and at its place, each call has its effect at its own and
\* is answered, and the stream ends (SSHCoreLibSSHCommandRuntime.m, SSHCommand.swift).
StreamIsExact ==
    /\ [](IF part = "called" THEN Called!TypeOK ELSE Streamed!TypeOK)
    /\ [](OutputIsExact /\ ClosedIsExact /\ InputIsExact)
    /\ StreamsEnd

\* Every transfer by SCP ends, and with a whole file if it says so (SCPClient.swift).
SCPIsExact == [](SCP!TypeOK /\ UploadIsStored /\ DownloadIsWhole) /\ SCPEnds

\* Every task ends, cancelled if it was cancelled, and leaves either an open session that nobody
\* disturbs or none (SSHLockedSession).
TasksAreSound == [](Task!TypeOK /\ ReturnedIsUndisturbed) /\ CancelledThrowsCancelled /\ TaskEnds /\ NoSessionLeaks

=============================================================================
