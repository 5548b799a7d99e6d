---------------------------- MODULE CommandStream ----------------------------
(***************************************************************************)
(* A streamed command or shell that has been opened: the read loop of its  *)
(* runtime (SSHCoreLibSSHCommandRuntime.m, SSHCoreLibSSHShellRuntime.m) on *)
(* the serial worker queue, the calls that queue behind it, and the two    *)
(* ways its events reach the application (SSHConnection.swift): a callback *)
(* queue, which is serial here, and the AsyncStream of SSHCommand.swift.   *)
(*                                                                         *)
(* One message of output is what one read returns; the messages of a       *)
(* stream are numbered, so that one that is lost or repeated is seen.      *)
(***************************************************************************)
EXTENDS Integers, Sequences, FiniteSets, SequencesExt

CONSTANTS
    Kinds,         \* what may have been opened, of "command" and "shell"
    MaxOutput,     \* bound: messages the program writes, to both streams together
    MaxCalls       \* bound: calls on the stream, a cancel's close among them

StreamAssumption == Kinds \subseteq {"command", "shell"} /\ {MaxOutput, MaxCalls} \subseteq Nat

Streams == {"stdout", "stderr"}

VARIABLES
    kind,          \* what has been opened
    said, exited, peerEof, peerClosed,   \* the server's end
    wire,          \* packets to us, in order
    failed,        \* the session is in error
    channel,       \* struct ssh_channel: unread data, remote_eof, closed by the server, exit.status
    localEof,      \* local_eof of the channel
    finished, didSendEOF,                        \* the runtime
    pc, running,   \* the block that runs on the worker: where it is, and its call
    status,        \* the exit status the runtime finishes with
    queue,         \* blocks that wait for the worker
    timer,         \* the dispatch_after of the read loop is armed
    completion,    \* the open's completion has still to run
    calls,         \* the calls so far, with their answers
    input,         \* what we have sent
    posted,        \* blocks of the callback queue
    sink, isFinished,   \* the AsyncStream
    timedOut       \* the wait for the exit status gave up

server == <<said, exited, peerEof, peerClosed>>
runtime == <<finished, didSendEOF, status, timer>>
worker == <<pc, running, queue>>
events == <<posted, sink, isFinished>>
app == <<completion, calls, input, timedOut>>
vars == <<kind, server, wire, failed, channel, localEof, runtime, worker, app, events>>

Item(what, n) == [what |-> what, n |-> n]
NoCall == Item("none", 0)
Unread == \E s \in Streams : channel.unread[s] # <<>>

Init ==
    /\ kind \in Kinds
    /\ said = [s \in Streams |-> 0] /\ exited = FALSE /\ peerEof = FALSE /\ peerClosed = FALSE
    /\ wire = <<>> /\ failed = FALSE
    /\ channel = [unread |-> [s \in Streams |-> <<>>], remoteEof |-> FALSE, closed |-> FALSE, exit |-> FALSE]
    /\ localEof = FALSE /\ finished = FALSE /\ didSendEOF = FALSE /\ status = "none" /\ timer = FALSE
    /\ pc = "idle" /\ running = NoCall /\ queue = <<>>
    /\ completion = TRUE /\ calls = <<>> /\ input = <<>> /\ timedOut = FALSE
    /\ posted = <<>> /\ sink = <<>> /\ isFinished = FALSE

-----------------------------------------------------------------------------
(***************************************************************************)
(* The server: output, an exit status, an end of file and a close; output  *)
(* ends with the end of file, everything with the close.  What it sends to *)
(* a channel that we have closed is dropped, and left out.                 *)
(***************************************************************************)

ServerSends(packet) ==
    /\ ~failed /\ ~peerClosed /\ ~finished
    /\ wire' = Append(wire, packet)
    /\ UNCHANGED <<kind, failed, channel, localEof, runtime, worker, app, events>>

ServerWrites(s) ==
    /\ ~peerEof /\ said["stdout"] + said["stderr"] < MaxOutput
    /\ said' = [said EXCEPT ![s] = @ + 1]
    /\ ServerSends(Item(s, said'[s]))
    /\ UNCHANGED <<exited, peerEof, peerClosed>>

ServerExits == ~exited /\ exited' = TRUE /\ ServerSends(Item("exit", 0)) /\ UNCHANGED <<said, peerEof, peerClosed>>
ServerEof == ~peerEof /\ peerEof' = TRUE /\ ServerSends(Item("eof", 0)) /\ UNCHANGED <<said, exited, peerClosed>>
ServerCloses == peerClosed' = TRUE /\ ServerSends(Item("close", 0)) /\ UNCHANGED <<said, exited, peerEof>>

\* The connection breaks, or a disconnect has shut its socket down.
Fail ==
    /\ ~failed /\ failed' = TRUE /\ wire' = <<>>
    /\ UNCHANGED <<kind, server, channel, localEof, runtime, worker, app, events>>

-----------------------------------------------------------------------------
(***************************************************************************)
(* libssh handles packets only inside of calls, as many as have arrived.   *)
(***************************************************************************)

\* The channel once the handlers of the first k packets have run.
Handled(k) ==
    LET packets == SubSeq(wire, 1, k)
        Carry(what) == \E i \in DOMAIN packets : packets[i].what = what IN
    [unread |-> [s \in Streams |-> channel.unread[s] \o SelectSeq(packets, LAMBDA p : p.what = s)],
     remoteEof |-> channel.remoteEof \/ Carry("eof") \/ Carry("close"),
     closed |-> channel.closed \/ Carry("close"),
     exit |-> channel.exit \/ Carry("exit")]

Arrived == IF wire = <<>> THEN {0} ELSE 1..Len(wire)

-----------------------------------------------------------------------------
(***************************************************************************)
(* The application: the open's completion, and calls, each a block.        *)
(***************************************************************************)

\* Variant: reading may start before the application has its object.
CompleteStartsFirst ==
    /\ completion
    /\ IF queue = <<>> /\ pc = "idle" THEN queue' = <<Item("read", 0)>> /\ UNCHANGED <<completion, posted>>
       ELSE completion' = FALSE /\ posted' = Append(posted, Item("opened", 0)) /\ UNCHANGED queue
    /\ UNCHANGED <<kind, server, wire, failed, channel, localEof, runtime, pc, running, calls, input,
                   sink, isFinished, timedOut>>

\* completeStreamingCommandOnDefaultQueue: the application gets its object, then reading starts.
Complete ==
    /\ completion /\ completion' = FALSE
    /\ posted' = Append(posted, Item("opened", 0))
    /\ queue' = Append(queue, Item("read", 0))
    /\ UNCHANGED <<kind, server, wire, failed, channel, localEof, runtime, pc, running, calls, input,
                   sink, isFinished, timedOut>>

Call(what) ==
    /\ Len(calls) < MaxCalls
    /\ calls' = Append(calls, [what |-> what, answer |-> "pending"])
    /\ queue' = Append(queue, Item(what, Len(calls')))
    /\ UNCHANGED <<kind, server, wire, failed, channel, localEof, runtime, pc, running, completion, input,
                   events, timedOut>>

Write == ~completion /\ Call("write")
SendEOF == ~completion /\ kind = "command" /\ Call("eof")
Resize == ~completion /\ kind = "shell" /\ Call("resize")

\* The application's close, or that of a cancel, which need not wait for the completion.
Close == Call("close")

TimerFires ==
    /\ timer /\ timer' = FALSE
    /\ queue' = Append(queue, Item("read", 0))
    /\ UNCHANGED <<kind, server, wire, failed, channel, localEof, finished, didSendEOF, status, pc, running,
                   app, events>>

-----------------------------------------------------------------------------
(***************************************************************************)
(* The worker takes a block.                                               *)
(***************************************************************************)

Begin(what) ==
    /\ pc = "idle" /\ queue # <<>> /\ Head(queue).what = what
    /\ queue' = Tail(queue)
    /\ UNCHANGED <<kind, server, wire, failed, channel, localEof, finished, didSendEOF, timer,
                   completion, input, timedOut>>

Answer(call, answer) == calls' = [calls EXCEPT ![call].answer = answer]

\* readAvailableDataAndScheduleNextRead.
BeginRead ==
    /\ Begin("read")
    /\ pc' = IF finished THEN "idle" ELSE "stdout"
    /\ UNCHANGED <<running, status, calls, events>>

OpenForInput == ~finished /\ ~didSendEOF

\* A call that comes too late is answered at once.
BeginInput(what) ==
    /\ Begin(what)
    /\ IF OpenForInput
       THEN pc' = "input" /\ running' = Head(queue) /\ UNCHANGED calls
       ELSE Answer(Head(queue).n, "closed") /\ UNCHANGED <<pc, running>>
    /\ UNCHANGED <<status, events>>

\* Variant: a close of a stream that has ended is not answered.
AnswersEndedNot(call) == UNCHANGED calls

\* A close of a stream that has ended has nothing to do.
AnswersEnded(call) == Answer(call, "ok")

BeginClose ==
    /\ Begin("close")
    /\ IF finished
       THEN AnswersEnded(Head(queue).n) /\ UNCHANGED <<pc, running, status>>
       ELSE pc' = "finish" /\ running' = Head(queue) /\ status' = "abnormal" /\ UNCHANGED calls
    /\ UNCHANGED events

\* Variant: the stream goes on after its Closed event.
YieldOn(e) == sink' = Append(sink, e) /\ isFinished' = isFinished

\* SSHCommandEventSink.yield: the stream ends with its first Closed event.
Yield(e) ==
    IF isFinished THEN UNCHANGED <<sink, isFinished>>
    ELSE sink' = Append(sink, e) /\ isFinished' = (e.what \in {"real", "abnormal"})

\* The event handler of openCommand, or of openShell, which has no stream.
Deliver(e) ==
    /\ posted' = Append(posted, e)
    /\ IF kind = "command" THEN Yield(e) ELSE UNCHANGED <<sink, isFinished>>

\* The block that the close handler has queued behind the runtime's.
DeliverClosed ==
    /\ Begin("closed")
    /\ Deliver(Item(status, 0))
    /\ UNCHANGED <<pc, running, status, calls>>

-----------------------------------------------------------------------------
(***************************************************************************)
(* The read loop: both streams, one after the other, then the end.         *)
(***************************************************************************)

After(s) == IF s = "stdout" THEN "stderr" ELSE "check"

\* ssh_channel_poll handles packets unless the end of file is known.
Polled == IF channel.remoteEof THEN {0} ELSE Arrived

\* Variant: a read hands on data and takes it a second time.
TakenAgain(unread) == unread

Taken(unread) == Tail(unread)

\* One turn of drainStream.
Drain(s) ==
    /\ pc = s /\ ~failed
    /\ \E k \in Polled : LET c == Handled(k) IN
        /\ wire' = SubSeq(wire, k + 1, Len(wire))
        /\ IF c.unread[s] = <<>>
           THEN channel' = c /\ pc' = After(s) /\ UNCHANGED events
           ELSE /\ channel' = [c EXCEPT !.unread[s] = Taken(@)]
                /\ Deliver(Head(c.unread[s])) /\ UNCHANGED pc
    /\ UNCHANGED <<kind, server, failed, localEof, runtime, running, queue, app>>

\* Any read of a session in error fails, whatever is buffered.
DrainFails ==
    /\ pc \in Streams /\ failed
    /\ pc' = "finish" /\ status' = "abnormal"
    /\ UNCHANGED <<kind, server, wire, failed, channel, localEof, finished, didSendEOF, timer, running, queue,
                   app, events>>

\* Variant: the end of file is the end, although the other stream has something to read.
AtEndEarly == channel.remoteEof \/ failed

\* ssh_channel_is_eof, or ssh_channel_is_closed of a dead session.
AtEnd == (channel.remoteEof /\ ~Unread) \/ failed

\* At the end ask for the exit status; else come back in 50 ms.
Check ==
    /\ pc = "check"
    /\ IF AtEnd THEN pc' = "exit" /\ UNCHANGED timer ELSE pc' = "idle" /\ timer' = TRUE
    /\ UNCHANGED <<kind, server, wire, failed, channel, localEof, finished, didSendEOF, status, running, queue,
                   app, events>>

\* Variant: the exit status that has not come yet is not waited for.
ExitKnownAtOnce == TRUE

\* ssh_channel_exit_status_termination.
ExitKnown == channel.exit \/ channel.closed \/ failed

\* Packets that a call which waits lets in: for the exit status, or for room to write.
Wait ==
    /\ \/ pc = "exit" /\ ~ExitKnown
       \/ pc = "input" /\ running.what \in {"write", "eof"}
    /\ ~failed /\ wire # <<>>
    /\ \E k \in Arrived : channel' = Handled(k) /\ wire' = SubSeq(wire, k + 1, Len(wire))
    /\ UNCHANGED <<kind, server, failed, localEof, runtime, worker, app, events>>

\* ssh_channel_get_exit_state: the status, or none at a close, an error or a timeout.
GetExitStatus ==
    /\ pc = "exit" /\ pc' = "finish"
    /\ timedOut' = (timedOut \/ ~ExitKnown)
    /\ status' = IF channel.exit /\ ~failed THEN "real" ELSE "abnormal"
    /\ UNCHANGED <<kind, server, wire, failed, channel, localEof, finished, didSendEOF, timer, running, queue,
                   completion, calls, input, events>>

\* finishWithExitStatus: end of file, close and free; the Closed event is a block of its own.
Finish ==
    /\ pc = "finish" /\ pc' = "idle" /\ running' = NoCall
    /\ finished' = TRUE /\ localEof' = TRUE
    /\ input' = IF failed THEN input
                ELSE input \o (IF localEof THEN <<>> ELSE <<Item("eof", 0)>>) \o <<Item("close", 0)>>
    /\ queue' = Append(queue, Item("closed", 0))
    /\ IF running.what = "close" THEN Answer(running.n, "ok") ELSE UNCHANGED calls
    /\ wire' = <<>>
    /\ UNCHANGED <<kind, server, failed, channel, didSendEOF, status, timer, completion, events, timedOut>>

-----------------------------------------------------------------------------
(***************************************************************************)
(* Input.                                                                  *)
(***************************************************************************)

InputDone(answer) ==
    /\ pc = "input" /\ pc' = "idle" /\ running' = NoCall
    /\ Answer(running.n, answer)
    /\ UNCHANGED <<kind, server, wire, failed, channel, finished, status, timer, queue, completion, events, timedOut>>

\* Variant: only the runtime's flag, which a timed-out end of file leaves unset, stands before a write.
CanWriteOn == ~failed /\ ~channel.closed

\* channel_write_common refuses after our end of file and after the server's close.
CanWrite == ~failed /\ ~localEof /\ ~channel.closed

WriteAll ==
    /\ running.what = "write" /\ CanWrite
    /\ input' = Append(input, running)
    /\ InputDone("ok") /\ UNCHANGED <<localEof, didSendEOF>>

\* The window stays shut, the channel closes or the session breaks, before or in the middle of the data.
WriteFails ==
    /\ running.what = "write"
    /\ input' \in {input} \cup (IF localEof THEN {} ELSE {Append(input, Item("part", running.n))})
    /\ InputDone("error") /\ UNCHANGED <<localEof, didSendEOF>>

\* The end of file counts as sent although its flush timed out; the runtime goes by its own flag.
EofSent ==
    /\ running.what = "eof" /\ ~failed
    /\ localEof' = TRUE
    /\ input' = IF localEof THEN input ELSE Append(input, running)
    /\ \/ didSendEOF' = TRUE /\ InputDone("ok")
       \/ ~localEof /\ UNCHANGED didSendEOF /\ InputDone("error")

EofFails ==
    /\ running.what = "eof" /\ failed
    /\ InputDone("error") /\ UNCHANGED <<localEof, didSendEOF, input>>

Resized ==
    /\ running.what = "resize"
    /\ IF failed THEN InputDone("error") /\ UNCHANGED input
       ELSE InputDone("ok") /\ input' = Append(input, running)
    /\ UNCHANGED <<localEof, didSendEOF>>

-----------------------------------------------------------------------------
Worker ==
    \/ BeginRead \/ BeginClose \/ DeliverClosed \/ \E what \in {"write", "eof", "resize"} : BeginInput(what)
    \/ DrainFails \/ Check \/ GetExitStatus \/ Finish \/ \E s \in Streams : Drain(s)
    \/ WriteAll \/ WriteFails \/ EofSent \/ EofFails \/ Resized

Application == Write \/ SendEOF \/ Resize \/ Close
Server == ServerExits \/ ServerEof \/ ServerCloses \/ \E s \in Streams : ServerWrites(s)

Next == Worker \/ Wait \/ Complete \/ TimerFires \/ Application \/ Server \/ Fail

\* The queue runs what it has, every wait of libssh has a timeout, timers fire and completions run.
Fairness == WF_vars(Worker) /\ WF_vars(Complete) /\ WF_vars(TimerFires)

Spec == Init /\ [][Next]_vars
FairSpec == Spec /\ Fairness

-----------------------------------------------------------------------------
(***************************************************************************)
(* Properties.                                                             *)
(***************************************************************************)

Items == [what : STRING, n : Nat]
Closes == {"real", "abnormal"}
Of(s, seq) == SelectSeq(seq, LAMBDA e : e.what = s)
Asked(what) == \E i \in DOMAIN calls : calls[i].what = what
HasClosed(seq, how) == \E i \in DOMAIN seq : seq[i].what = how

\* Every variable has its type.
TypeOK ==
    /\ kind \in Kinds /\ said \in [Streams -> Nat] /\ wire \in Seq(Items)
    /\ {exited, peerEof, peerClosed, failed, localEof, finished, didSendEOF, timer, completion, isFinished, timedOut}
            \subseteq BOOLEAN
    /\ channel \in [unread : [Streams -> Seq(Items)], remoteEof : BOOLEAN, closed : BOOLEAN, exit : BOOLEAN]
    /\ pc \in {"idle", "check", "exit", "finish", "input"} \cup Streams /\ running \in Items
    /\ status \in {"none"} \cup Closes /\ queue \in Seq(Items)
    /\ calls \in Seq([what : {"write", "eof", "resize", "close"}, answer : {"pending", "ok", "error", "closed"}])
    /\ input \in Seq(Items) /\ posted \in Seq(Items) /\ sink \in Seq(Items)

\* Both ways, the output of a stream arrives from its first message on, each message once
\* and in order, whatever polls and timers did in between (drainStream).
OutputIsExact ==
    \A seq \in {posted, sink}, s \in Streams :
        LET got == Of(s, seq) IN \A i \in DOMAIN got : got[i].n = i

\* Closed is the last event and the only one of its kind, although the end of the output and any
\* number of closes may race for it; and the AsyncStream has ended exactly then (finishWithExitStatus,
\* SSHCommandEventSink).
ClosedIsLast ==
    /\ \A seq \in {posted, sink}, i \in DOMAIN posted :
        i \in DOMAIN seq /\ seq[i].what \in Closes => \A j \in DOMAIN seq : j > i => seq[j].what = "opened"
    /\ isFinished <=> \E i \in DOMAIN sink : sink[i].what \in Closes

\* The exit status of the program is reported only after all of its output, of both streams.
RealMeansWhole ==
    HasClosed(posted, "real") => exited /\ \A s \in Streams : Len(Of(s, posted)) = said[s]

\* An abnormal status has a reason: a close, a broken session, a server that gave no status or
\* gave it too late (getExitStatus:exitSignal:).
AbnormalHasReason ==
    HasClosed(posted, "abnormal") => Asked("close") \/ failed \/ timedOut \/ (peerClosed /\ ~exited)

\* No output is heard before the application has its command or shell.
OpenedBeforeOutput ==
    \A i \in DOMAIN posted : posted[i].what \in Streams => \E j \in 1..i : posted[j].what = "opened"

\* What the server gets is what was accepted, in the order of the calls: an accepted write is
\* whole and before the end of file and the close, and both come once.
InputIsExact ==
    /\ \A i, j \in DOMAIN input : i < j =>
        /\ input[i].what # "close"
        /\ input[i].what = "eof" => input[j].what \in {"resize", "close"}
        /\ input[i].n # 0 /\ input[j].n # 0 => input[i].n < input[j].n
    /\ \A c \in DOMAIN calls :
        calls[c].what # "close" /\ calls[c].answer = "ok" =>
            \E i \in DOMAIN input :
                input[i].what = calls[c].what /\ (input[i].n = c \/ (calls[c].what = "eof" /\ input[i].n < c))

\* Every call is answered.
CallsAnswered == \A c \in 1..MaxCalls :
    (c \in DOMAIN calls) ~> (c \in DOMAIN calls /\ calls[c].answer # "pending")

\* The stream ends: once the program's output has, the session broke or somebody asked.
StreamEnds == (peerEof \/ peerClosed \/ failed \/ Asked("close")) ~> \E i \in DOMAIN posted : posted[i].what \in Closes

=============================================================================
