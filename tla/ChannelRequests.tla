---------------------------- MODULE ChannelRequests ----------------------------
(***************************************************************************)
(* The calls that open a channel of libssh, make requests on it, wait for  *)
(* its exit status and give it up (Vendor/libssh/src/channels.c), as       *)
(* SSHKit makes them for one command or shell after another                *)
(* (SSHCoreOpenSSHClient+Commands.m, +Shell.m).  A call that times out     *)
(* leaves its request behind; the answer comes while later calls poll.     *)
(* What a channel carries once it is open is ChannelFlow.                  *)
(***************************************************************************)
EXTENDS Integers, Sequences, FiniteSets

CONSTANTS
    MaxChannels,    \* bound: channels opened on the session
    Kinds,          \* "command", "ptyCommand", "shell"
    Timeouts        \* the calls that may time out: "open", "request", "exit"

RequestsAssumption ==
    /\ MaxChannels \in Nat
    /\ Kinds \subseteq {"command", "ptyCommand", "shell"}
    /\ Timeouts \subseteq {"open", "request", "exit"}

Ids == 1..MaxChannels

\* What each kind asks of its channel before it runs.
Asks(k) == IF k = "command" THEN <<"exec">> ELSE IF k = "ptyCommand" THEN <<"pty", "exec">> ELSE <<"pty", "shell">>

VARIABLES
    jobPc,          \* where the worker is in its job
    kind, step,     \* the job, and the request it is at
    maxchannel,     \* the channel of the job is the last one
    channel,        \* struct ssh_channel of each id
    results,        \* how each job ended
    overdue,        \* channels whose open timed out
    up, down,       \* the packets on their way to the server and from it
    server,         \* the server's end of each channel
    granted         \* the requests that the server granted on it

job == <<jobPc, kind, step, maxchannel>>
jobVars == <<job, channel, results, overdue, up, down, server, granted>>

NoChannel == [state |-> "none", request |-> "none", flags |-> {}, eof |-> FALSE, exit |-> "none"]
Known(c) == channel[c].state # "none"
Current == channel[maxchannel]
JobPacket(type, c, what) == [type |-> type, channel |-> c, what |-> what]
SendPacket(type, what) == up' = Append(up, JobPacket(type, maxchannel, what))

JobsInit ==
    /\ jobPc = "idle" /\ kind = "command" /\ step = 1 /\ maxchannel = 0
    /\ channel = [c \in Ids |-> NoChannel]
    /\ results = [c \in Ids |-> "none"] /\ overdue = {}
    /\ up = <<>> /\ down = <<>>
    /\ server = [c \in Ids |-> [phase |-> "none", status |-> FALSE, closed |-> FALSE, gotClose |-> FALSE]]
    /\ granted = [c \in Ids |-> <<>>]

-----------------------------------------------------------------------------
(***************************************************************************)
(* Open: ssh_channel_new, channel_open.                                    *)
(***************************************************************************)

OpenChannel(k) ==
    /\ jobPc = "idle" /\ maxchannel < MaxChannels
    /\ maxchannel' = maxchannel + 1 /\ kind' = k /\ step' = 1
    /\ channel' = [channel EXCEPT ![maxchannel'] =
            [NoChannel EXCEPT !.state = "opening", !.flags = {"notBound"}]]
    /\ up' = Append(up, JobPacket("open", maxchannel', "session"))
    /\ jobPc' = "opening"
    /\ UNCHANGED <<results, overdue, down, server, granted>>

Opened ==
    /\ jobPc = "opening" /\ Current.state = "open"
    /\ jobPc' = "ready"
    /\ UNCHANGED <<kind, step, maxchannel, channel, results, overdue, up, down, server, granted>>

\* Variant: every channel is destroyed at once.
FreedAtOnce(ch) == NoChannel

\* ssh_channel_free: a channel that the server has closed, or that was never bound to one
\* of the server, is destroyed; any other waits for the server's close.
Freed(ch) ==
    IF ch.flags \cap {"closedRemote", "notBound"} # {} THEN NoChannel
    ELSE [ch EXCEPT !.flags = @ \cup {"freedLocal"}]

\* The open was refused, or has no answer in time (SSH_AGAIN); SSHKit frees the channel.
OpenFails ==
    /\ jobPc = "opening"
    /\ \/ Current.state = "denied" /\ UNCHANGED overdue
       \/ Current.state = "opening" /\ "open" \in Timeouts /\ overdue' = overdue \cup {maxchannel}
    /\ channel' = [channel EXCEPT ![maxchannel] = Freed(@)]
    /\ results' = [results EXCEPT ![maxchannel] = "failed"]
    /\ jobPc' = "idle"
    /\ UNCHANGED <<kind, step, maxchannel, up, down, server, granted>>

\* The server opened the channel and closed it again: the open fails, too, and the free
\* sends the close.
OpenedAndClosed ==
    /\ jobPc = "opening" /\ Current.state = "closed"
    /\ results' = [results EXCEPT ![maxchannel] = "failed"]
    /\ jobPc' = "closing"
    /\ UNCHANGED <<kind, step, maxchannel, channel, overdue, up, down, server, granted>>

-----------------------------------------------------------------------------
(***************************************************************************)
(* channel_request.                                                        *)
(***************************************************************************)

\* A request is sent only if none is pending on the channel.
CallRequest ==
    /\ jobPc = "ready" /\ step <= Len(Asks(kind))
    /\ IF Current.request = "none"
       THEN /\ SendPacket("request", Asks(kind)[step])
            /\ channel' = [channel EXCEPT ![maxchannel].request = "pending"]
       ELSE UNCHANGED <<up, channel>>
    /\ jobPc' = "requesting"
    /\ UNCHANGED <<kind, step, maxchannel, results, overdue, down, server, granted>>

\* Variant: the state of the request is not reset.
RequestAcceptedKeeps ==
    /\ jobPc = "requesting" /\ Current.request = "accepted"
    /\ step' = step + 1
    /\ jobPc' = IF step' > Len(Asks(kind)) THEN "running" ELSE "ready"
    /\ UNCHANGED <<channel, kind, maxchannel, results, overdue, up, down, server, granted>>

\* SSH_OK: the state is reset, and the job goes on.
RequestAccepted ==
    /\ jobPc = "requesting" /\ Current.request = "accepted"
    /\ channel' = [channel EXCEPT ![maxchannel].request = "none"]
    /\ step' = step + 1
    /\ jobPc' = IF step' > Len(Asks(kind)) THEN "running" ELSE "ready"
    /\ UNCHANGED <<kind, maxchannel, results, overdue, up, down, server, granted>>

\* Variant: a request without an answer is made again, on the same channel.
RequestFailsRetries ==
    /\ jobPc = "requesting"
    /\ Current.request = "denied" \/ (Current.request = "pending" /\ "request" \in Timeouts)
    /\ channel' = [channel EXCEPT ![maxchannel].request = "none"]
    /\ jobPc' = "ready"
    /\ UNCHANGED <<kind, step, results, maxchannel, overdue, up, down, server, granted>>

\* Refused, or no answer in time, which leaves the request pending: SSHKit gives the
\* channel up.
RequestFails ==
    /\ jobPc = "requesting"
    /\ \/ Current.request = "denied"
            /\ channel' = [channel EXCEPT ![maxchannel].request = "none"]
       \/ Current.request = "pending" /\ "request" \in Timeouts /\ UNCHANGED channel
    /\ results' = [results EXCEPT ![maxchannel] = "failed"]
    /\ jobPc' = "closing"
    /\ UNCHANGED <<kind, step, maxchannel, overdue, up, down, server, granted>>

\* A window-change wants no reply and is sent while the shell runs.
Resize ==
    /\ jobPc = "running" /\ kind = "shell" /\ Current.request = "none"
    /\ ~(\E i \in DOMAIN up : up[i].what = "window-change")
    /\ SendPacket("notice", "window-change")
    /\ UNCHANGED <<job, channel, results, overdue, down, server, granted>>

-----------------------------------------------------------------------------
(***************************************************************************)
(* Exit status, close and free.                                            *)
(***************************************************************************)

\* The read loop ends at the end of file; the user may close a shell before that.
ReadsEnd ==
    /\ jobPc = "running"
    /\ \/ Current.eof /\ jobPc' = "exiting"
       \/ kind = "shell" /\ jobPc' = "closing"
    /\ UNCHANGED <<kind, step, maxchannel, channel, results, overdue, up, down, server, granted>>

\* Variant: an end of file is taken for the end of the channel.
NoExitComesAfterEof(ch) == ch.eof

\* Variant: the close is not looked at.
NoExitComesEver(ch) == FALSE

\* After the server's close no exit status can come.
NoExitComes(ch) == "closedRemote" \in ch.flags

\* ssh_channel_get_exit_state: the status, or none; or the wait times out.
ExitState ==
    /\ jobPc = "exiting"
    /\ \/ Current.exit # "none" \/ NoExitComes(Current)
       \/ "exit" \in Timeouts
    /\ results' = [results EXCEPT ![maxchannel] =
            IF Current.exit # "none" THEN Current.exit
            ELSE IF NoExitComes(Current) THEN "noStatus" ELSE "failed"]
    /\ jobPc' = "closing"
    /\ UNCHANGED <<kind, step, maxchannel, channel, overdue, up, down, server, granted>>

\* Variant: the free comes without a close.
CloseAndFreeOnly ==
    /\ jobPc = "closing"
    /\ channel' = [channel EXCEPT ![maxchannel] = Freed(@)]
    /\ jobPc' = "idle"
    /\ UNCHANGED <<up, kind, step, maxchannel, results, overdue, down, server, granted>>

\* ssh_channel_close and ssh_channel_free.
CloseAndFree ==
    /\ jobPc = "closing"
    /\ SendPacket("close", "")
    /\ channel' = [channel EXCEPT ![maxchannel] =
            Freed([Current EXCEPT !.state = "closed", !.flags = Current.flags \cup {"closedLocal"}])]
    /\ jobPc' = "idle"
    /\ UNCHANGED <<kind, step, maxchannel, results, overdue, down, server, granted>>

-----------------------------------------------------------------------------
(***************************************************************************)
(* The packet handlers.  A packet for a channel that is not in the list is *)
(* dropped (ssh_channel_from_local).                                       *)
(***************************************************************************)

TakePacket(type) ==
    /\ down # <<>> /\ Head(down).type = type
    /\ down' = Tail(down)
    /\ UNCHANGED <<job, results, overdue, up, server, granted>>

Dest == Head(down).channel
Update(ch) == channel' = IF Known(Dest) THEN [channel EXCEPT ![Dest] = ch] ELSE channel

OpenConf ==
    /\ TakePacket("confirmation")
    /\ Update(IF channel[Dest].state = "opening"
              THEN [channel[Dest] EXCEPT !.state = "open", !.flags = @ \ {"notBound"}]
              ELSE channel[Dest])

OpenFail ==
    /\ TakePacket("refusal")
    /\ Update(IF channel[Dest].state = "opening" THEN [channel[Dest] EXCEPT !.state = "denied"] ELSE channel[Dest])

\* ssh_packet_channel_success and ssh_packet_channel_failure.
RequestReply ==
    /\ TakePacket("reply")
    /\ Update(IF channel[Dest].request = "pending" THEN [channel[Dest] EXCEPT !.request = Head(down).what]
              ELSE channel[Dest])

\* channel_rcv_request: exit-status or exit-signal.
RcvExit ==
    /\ TakePacket("exit")
    /\ Update([channel[Dest] EXCEPT !.exit = Head(down).what])

RcvServerEof ==
    /\ TakePacket("eof")
    /\ Update([channel[Dest] EXCEPT !.eof = TRUE])

\* channel_rcv_close, of a channel whose output is read; a freed one is destroyed.
RcvServerClose ==
    /\ TakePacket("close")
    /\ Update(IF "freedLocal" \in channel[Dest].flags THEN NoChannel
              ELSE [channel[Dest] EXCEPT !.state = "closed", !.eof = TRUE, !.flags = @ \cup {"closedRemote"}])

-----------------------------------------------------------------------------
(***************************************************************************)
(* The server.                                                             *)
(***************************************************************************)

Answer(type, c, what) == down' = Append(down, JobPacket(type, c, what))
Request == Head(up)

ServerTakes(type) ==
    /\ up # <<>> /\ Request.type = type
    /\ up' = Tail(up)
    /\ UNCHANGED <<job, channel, results, overdue>>

ServerOpens ==
    /\ ServerTakes("open")
    /\ \/ server' = [server EXCEPT ![Request.channel].phase = "open"]
            /\ Answer("confirmation", Request.channel, "")
       \/ UNCHANGED server /\ Answer("refusal", Request.channel, "")
    /\ UNCHANGED granted

\* A request on a channel that the server has closed is dropped.
ServerAnswers ==
    /\ ServerTakes("request")
    /\ LET c == Request.channel IN
        \/ /\ ~server[c].closed
           /\ granted' = [granted EXCEPT ![c] = Append(@, Request.what)]
           /\ server' = [server EXCEPT ![c].phase = IF Request.what = "pty" THEN @ ELSE "running"]
           /\ Answer("reply", c, "accepted")
        \/ ~server[c].closed /\ UNCHANGED <<granted, server>> /\ Answer("reply", c, "denied")
        \/ server[c].closed /\ UNCHANGED <<granted, server, down>>

\* The program ends: its status and the end of file, in either order; a program that was
\* killed has no status to report.
Endings == {<<"exit", "eof">>, <<"eof", "exit">>, <<"eof">>}

ProgramEnds(c, said) ==
    /\ server[c].phase = "running" /\ ~server[c].closed
    /\ down' = down \o [i \in DOMAIN said |-> JobPacket(said[i], c, "status")]
    /\ server' = [server EXCEPT ![c].phase = "ended", ![c].status = Len(said) = 2]
    /\ UNCHANGED <<job, channel, results, overdue, up, granted>>

\* The server closes a channel whose program has ended, or on which none was started.
ServerCloses(c) ==
    /\ server[c].phase \in {"open", "ended"} /\ ~server[c].closed
    /\ Answer("close", c, "")
    /\ server' = [server EXCEPT ![c].closed = TRUE]
    /\ UNCHANGED <<job, channel, results, overdue, up, granted>>

\* The client's close is answered by one, unless that was sent already.
ServerGetsClose ==
    /\ ServerTakes("close")
    /\ LET c == Request.channel IN
        /\ server' = [server EXCEPT ![c].closed = TRUE, ![c].gotClose = TRUE]
        /\ IF server[c].closed THEN UNCHANGED down ELSE Answer("close", c, "")
    /\ UNCHANGED granted

ServerGetsNotice == ServerTakes("notice") /\ UNCHANGED <<down, server, granted>>

-----------------------------------------------------------------------------
Worker ==
    \/ Opened \/ OpenFails \/ OpenedAndClosed
    \/ CallRequest \/ RequestAccepted \/ RequestFails \/ ExitState \/ CloseAndFree
JobHandlers == OpenConf \/ OpenFail \/ RequestReply \/ RcvExit \/ RcvServerEof \/ RcvServerClose
JobServer == ServerOpens \/ ServerAnswers \/ ServerGetsClose \/ ServerGetsNotice

JobsNext ==
    \/ \E k \in Kinds : OpenChannel(k)
    \/ Worker \/ Resize \/ ReadsEnd \/ JobHandlers \/ JobServer
    \/ \E c \in Ids : ServerCloses(c) \/ \E said \in Endings : ProgramEnds(c, said)

JobsSpec == JobsInit /\ [][JobsNext]_jobVars

\* The worker polls, the server answers and closes a channel whose program has ended.
FairJobsSpec ==
    /\ JobsSpec
    /\ WF_jobVars(Worker) /\ WF_jobVars(JobHandlers) /\ WF_jobVars(JobServer)
    /\ \A c \in Ids : WF_jobVars(server[c].phase = "ended" /\ ServerCloses(c))

-----------------------------------------------------------------------------
(***************************************************************************)
(* Properties.                                                             *)
(***************************************************************************)

Of(c, type, queue) == {i \in DOMAIN queue : queue[i].channel = c /\ queue[i].type = type}

\* Every variable has its type.
JobsTypeOK ==
    /\ jobPc \in {"idle", "opening", "ready", "requesting", "running", "exiting", "closing"}
    /\ kind \in Kinds \cup {"command"} /\ step \in 1..3 /\ maxchannel \in 0..MaxChannels
    /\ jobPc \notin {"idle", "closing"} => Known(maxchannel)
    /\ jobPc = "ready" => step <= Len(Asks(kind)) /\ Current.request = "none"
    /\ channel \in [Ids -> [state : {"none", "opening", "open", "denied", "closed"},
                            request : {"none", "pending", "accepted", "denied"},
                            flags : SUBSET {"notBound", "closedRemote", "closedLocal", "freedLocal"},
                            eof : BOOLEAN, exit : {"none", "status"}]]
    /\ results \in [Ids -> {"none", "failed", "status", "noStatus"}] /\ overdue \subseteq Ids
    /\ server \in [Ids -> [phase : {"none", "open", "running", "ended"},
                           status : BOOLEAN, closed : BOOLEAN, gotClose : BOOLEAN]]

\* A channel never has two requests under way, so that its next reply is for the request
\* the caller waits for (channel_request); timeouts do not change that.
ReplyIsOwn ==
    \A c \in Ids :
        LET underway == Cardinality(Of(c, "request", up)) + Cardinality(Of(c, "reply", down)) IN
        underway <= 1 /\ (underway = 1 /\ Known(c) => channel[c].request = "pending")

\* A command or shell that runs for SSHKit has been granted everything that was asked,
\* in that order.
RunsWhatWasAsked == jobPc = "running" => granted[maxchannel] = Asks(kind)

\* The exit status that a job returns is the server's, and a job that ends without one is
\* one whose program reported none (ssh_channel_get_exit_state): a late status is not lost.
ResultIsExact ==
    \A c \in Ids :
        /\ results[c] = "status" => server[c].status
        /\ results[c] = "noStatus" => ~server[c].status

\* Every channel that the server holds belongs to the job that runs, or gets a close; except
\* one whose open timed out, of which libssh has forgotten the number.
NoOrphans ==
    \A c \in Ids :
        server[c].phase # "none" /\ ~server[c].gotClose /\ Of(c, "close", up) = {} =>
            (c = maxchannel /\ jobPc # "idle") \/ c \in overdue

\* No packet of the server names a channel that libssh has destroyed ("Server specified
\* invalid channel"), unless its open timed out.
NoStrangers ==
    \A i \in DOMAIN down : Known(down[i].channel) \/ down[i].channel \in overdue

\* Every job of a session runs what was asked for, gets the result that the server reported, and leaves
\* no channel behind.
JobsAreExact == JobsTypeOK /\ ReplyIsOwn /\ RunsWhatWasAsked /\ ResultIsExact /\ NoOrphans /\ NoStrangers

\* A command whose output has ended gets its result, although no exit status comes.
ResultComes == jobPc = "exiting" ~> jobPc = "idle"

=============================================================================
