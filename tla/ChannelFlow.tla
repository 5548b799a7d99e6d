----------------------------- MODULE ChannelFlow -----------------------------
(***************************************************************************)
(* One open channel of libssh (Vendor/libssh/src/channels.c): its windows, *)
(* its two streams, end of file, close and free.  libssh handles packets   *)
(* only inside of calls, those of this channel and those of others on the  *)
(* session, so a packet may arrive in the middle of every blocking call.   *)
(*                                                                         *)
(* The bytes of a stream are numbered: a data packet carries a range of    *)
(* numbers, a window adjustment a range of permissions.  The peer is a     *)
(* server that keeps the protocol: it respects the window it was given.    *)
(***************************************************************************)
EXTENDS Integers, Sequences, FiniteSets

CONSTANTS
    WindowDefault,   \* WINDOW_DEFAULT
    PeerWindow,      \* the window the server gives
    MaxPacket,       \* the largest payload of a data packet, either way
    MaxIn,           \* bound: bytes the server has to say on a stream
    MaxOut           \* bound: bytes the application writes

ASSUME FlowAssumption ==
    /\ {WindowDefault, PeerWindow, MaxPacket} \subseteq Nat \ {0}
    /\ {MaxIn, MaxOut} \subseteq Nat

Streams == {"stdout", "stderr"}

VARIABLES
    state, flags, delayedClose, localEof, remoteEof,   \* struct ssh_channel
    localWindow, remoteWindow, buffer,
    freed,           \* ssh_channel_do_free has run
    pc,              \* the call that runs, and where it is
    caller,          \* who sends the end of file: "eof", "close" or "free"
    left,            \* bytes a write still has to send
    stream,          \* the stream a read waits for
    failed,          \* the session is in error, and not alive
    unsent,          \* packets at the end of toServer still in the output buffer
    toServer, toClient,
    read, ended,     \* what the application has read, and the streams that ended for it
    written,         \* bytes of the application sent so far
    demand,          \* what the server's program has to say
    peer             \* the server's end of the channel

struct == <<state, flags, delayedClose, localEof, remoteEof, localWindow, remoteWindow, buffer, freed>>
call == <<pc, caller, left, stream>>
app == <<read, ended, written>>
vars == <<struct, call, app, failed, unsent, toServer, toClient, demand, peer>>

Total(f) == f["stdout"] + f["stderr"]
None == [s \in Streams |-> 0]
Packet(type, s, from, len) == [type |-> type, stream |-> s, from |-> from, len |-> len]
Smallest(a, b) == IF a < b THEN a ELSE b

\* Bytes taken from the network, and bytes the server was ever allowed to send.
Received == Total(read) + Total(buffer)
Granted == localWindow + Received

\* ssh_channel_has_unread_data.
Unread == Total(buffer) > 0

Waiting == {"kex", "window", "writeFlush", "read", "eof", "closeFlush"}
Gone == "freedLocal" \in flags

Init ==
    /\ state = "open" /\ flags = {} /\ freed = FALSE
    /\ delayedClose = FALSE /\ localEof = FALSE /\ remoteEof = FALSE
    /\ localWindow = WindowDefault /\ remoteWindow = PeerWindow /\ buffer = None
    /\ pc = "idle" /\ caller = "eof" /\ left = 0 /\ stream = "stdout"
    /\ failed = FALSE /\ unsent = 0 /\ toServer = <<>> /\ toClient = <<>>
    /\ read = None /\ ended = {} /\ written = 0
    /\ demand \in [Streams -> 0..MaxIn]
    /\ peer = [sent |-> None, granted |-> WindowDefault, received |-> 0, allows |-> PeerWindow,
               eof |-> FALSE, closed |-> FALSE, gotEof |-> FALSE, gotClose |-> FALSE]

-----------------------------------------------------------------------------
(***************************************************************************)
(* Sending.  ssh_packet_send puts the packet into the output buffer of the *)
(* socket and tries to empty it.                                           *)
(***************************************************************************)

Send(p) ==
    /\ toServer' = Append(toServer, p)
    /\ unsent' \in {0, unsent + 1}

\* The call goes on at another place; or it returns, and its locals are gone.
To(place) == pc' = place /\ UNCHANGED <<caller, left, stream>>
Return == pc' = "idle" /\ caller' = "eof" /\ left' = 0 /\ stream' = "stdout"
AfterClose == IF caller = "free" THEN To("freeing") ELSE Return

\* A poll that can write empties the output buffer.
Flush ==
    /\ pc \in Waiting \/ pc = "idle"
    /\ unsent > 0 /\ ~failed
    /\ unsent' = 0
    /\ UNCHANGED <<struct, call, app, failed, toServer, toClient, demand, peer>>

\* The socket fails: ssh_socket_exception_callback.
Fail ==
    /\ ~failed /\ failed' = TRUE
    /\ UNCHANGED <<struct, call, app, unsent, toServer, toClient, demand, peer>>

\* A call that waited returns an error; a free goes on.
ReturnFailed ==
    /\ failed /\ pc \in Waiting \cup {"write", "sendClose"}
    /\ AfterClose
    /\ UNCHANGED <<struct, app, failed, unsent, toServer, toClient, demand, peer>>

-----------------------------------------------------------------------------
(***************************************************************************)
(* channel_write_common.                                                   *)
(***************************************************************************)

\* A write of n bytes; it may find a key exchange going on.
CallWrite(n) ==
    /\ pc = "idle" /\ ~Gone /\ ~failed
    /\ ~localEof /\ state = "open" /\ ~delayedClose
    /\ n > 0 /\ written + n <= MaxOut
    /\ left' = n
    /\ pc' \in {"write", "kex"}
    /\ UNCHANGED <<struct, caller, stream, app, failed, unsent, toServer, toClient, demand, peer>>

\* The key exchange ends, or does not in time.
KexWaited ==
    /\ pc = "kex" /\ ~failed
    /\ To("write") \/ Return
    /\ UNCHANGED <<struct, app, failed, unsent, toServer, toClient, demand, peer>>

\* Variant: a write that finds some window sends all it has.
WriteChunkIgnoresWindow ==
    /\ pc = "write" /\ left > 0 /\ remoteWindow > 0 /\ ~failed
    /\ LET effectivelen == Smallest(left, MaxPacket) IN
        /\ Send(Packet("data", "stdout", written, effectivelen))
        /\ remoteWindow' = remoteWindow - effectivelen
        /\ left' = left - effectivelen
        /\ written' = written + effectivelen
    /\ UNCHANGED <<state, flags, delayedClose, localEof, remoteEof, localWindow, buffer, freed,
                   pc, caller, stream, read, ended, failed, toClient, demand, peer>>

\* Variant: the window is spent after the whole write, not by each packet.
WriteChunkKeepsWindow ==
    /\ pc = "write" /\ left > 0 /\ remoteWindow > 0 /\ ~failed
    /\ LET effectivelen == Smallest(Smallest(left, remoteWindow), MaxPacket) IN
        /\ Send(Packet("data", "stdout", written, effectivelen))
        /\ left' = left - effectivelen
        /\ written' = written + effectivelen
        /\ remoteWindow' = IF left' = 0 THEN remoteWindow - effectivelen ELSE remoteWindow
    /\ UNCHANGED <<state, flags, delayedClose, localEof, remoteEof, localWindow, buffer, freed,
                   pc, caller, stream, read, ended, failed, toClient, demand, peer>>

\* One packet: as much as the window and the packet size allow.
WriteChunk ==
    /\ pc = "write" /\ left > 0 /\ remoteWindow > 0 /\ ~failed
    /\ LET effectivelen == Smallest(Smallest(left, remoteWindow), MaxPacket) IN
        /\ Send(Packet("data", "stdout", written, effectivelen))
        /\ remoteWindow' = remoteWindow - effectivelen
        /\ left' = left - effectivelen
        /\ written' = written + effectivelen
    /\ UNCHANGED <<state, flags, delayedClose, localEof, remoteEof, localWindow, buffer, freed,
                   pc, caller, stream, read, ended, failed, toClient, demand, peer>>

\* No window: wait for it to grow.
AwaitWindow ==
    /\ pc = "write" /\ left > 0 /\ remoteWindow = 0 /\ ~failed
    /\ To("window")
    /\ UNCHANGED <<struct, app, failed, unsent, toServer, toClient, demand, peer>>

\* The window grew; or the channel closed, and the write returns what it sent.
WindowWaited ==
    /\ pc = "window" /\ ~failed
    /\ \/ state = "closed" /\ Return
       \/ state # "closed" /\ remoteWindow > 0 /\ To("write")
    /\ UNCHANGED <<struct, app, failed, unsent, toServer, toClient, demand, peer>>

\* Everything is sent: flush.
WriteDone ==
    /\ pc = "write" /\ left = 0 /\ ~failed
    /\ IF unsent = 0 THEN Return ELSE To("writeFlush")
    /\ UNCHANGED <<struct, app, failed, unsent, toServer, toClient, demand, peer>>

\* A wait of a write or a read that its condition or its timeout ends.
WaitOver ==
    /\ ~failed
    /\ \/ pc = "window" /\ remoteWindow = 0
       \/ pc = "writeFlush"
       \/ pc = "read" /\ buffer[stream] = 0 /\ ~remoteEof
    /\ Return
    /\ UNCHANGED <<struct, app, failed, unsent, toServer, toClient, demand, peer>>

-----------------------------------------------------------------------------
(***************************************************************************)
(* ssh_channel_read_timeout, and read_nonblocking through it.              *)
(***************************************************************************)

\* Nothing there yet: wait, for a while.
CallRead(s) ==
    /\ pc = "idle" /\ ~Gone /\ ~failed
    /\ buffer[s] = 0 /\ ~remoteEof
    /\ pc' = "read" /\ stream' = s
    /\ UNCHANGED <<struct, caller, left, app, failed, unsent, toServer, toClient, demand, peer>>

\* Is a read of s about to return, at once or after its wait?
Reading(s) == ~failed /\ ~Gone /\ (pc = "idle" \/ (pc = "read" /\ stream = s))

\* Variant: what is buffered is not counted as used.
GrowWindowIgnoresBuffer(buf) ==
    LET increment == WindowDefault - localWindow IN
    IF increment < WindowDefault \div 2
    THEN UNCHANGED <<localWindow, toServer, unsent>>
    ELSE /\ Send(Packet("adjust", "stdout", localWindow + Total(read) + Total(buffer), increment))
         /\ localWindow' = localWindow + increment

\* Variant: only a read of the first stream gives the window back.
GrowWindowStdoutOnly(buf) ==
    LET used == localWindow + Total(buf)
        increment == IF WindowDefault > used THEN WindowDefault - used ELSE 0 IN
    IF increment < WindowDefault \div 2 \/ buf["stdout"] = buffer["stdout"]
    THEN UNCHANGED <<localWindow, toServer, unsent>>
    ELSE /\ Send(Packet("adjust", "stdout", Granted, increment))
         /\ localWindow' = localWindow + increment

\* grow_window: ask for what is neither allowed nor buffered, if it is half a window.
GrowWindow(buf) ==
    LET used == localWindow + Total(buf)
        increment == IF WindowDefault > used THEN WindowDefault - used ELSE 0 IN
    IF increment < WindowDefault \div 2
    THEN UNCHANGED <<localWindow, toServer, unsent>>
    ELSE /\ Send(Packet("adjust", "stdout", Granted, increment))
         /\ localWindow' = localWindow + increment

\* Some bytes are handed out; that may complete a close that was put off.
ReadData(s, n) ==
    /\ Reading(s) /\ n \in 1..buffer[s] /\ state # "closed"
    /\ buffer' = [buffer EXCEPT ![s] = @ - n]
    /\ read' = [read EXCEPT ![s] = @ + n]
    /\ state' = IF delayedClose /\ Total(buffer') = 0 THEN "closed" ELSE state
    /\ GrowWindow(buffer')
    /\ Return
    /\ UNCHANGED <<flags, delayedClose, localEof, remoteEof, remoteWindow, freed, ended, written, failed, toClient, demand, peer>>

\* "Remote channel is closed": an error although there is something to read.
ReadRefused(s) ==
    /\ Reading(s) /\ pc = "read" /\ buffer[s] > 0 /\ state = "closed"
    /\ Return
    /\ UNCHANGED <<struct, app, failed, unsent, toServer, toClient, demand, peer>>

\* Variant: the end of file is reported although there is something to read.
ReadEofEarly(s) ==
    /\ Reading(s) /\ remoteEof
    /\ ended' = ended \cup {s}
    /\ Return
    /\ UNCHANGED <<struct, read, written, failed, unsent, toServer, toClient, demand, peer>>

\* The stream has ended, and is empty.
ReadEof(s) ==
    /\ Reading(s) /\ remoteEof /\ buffer[s] = 0
    /\ ended' = ended \cup {s}
    /\ Return
    /\ UNCHANGED <<struct, read, written, failed, unsent, toServer, toClient, demand, peer>>

-----------------------------------------------------------------------------
(***************************************************************************)
(* ssh_channel_send_eof, ssh_channel_close, ssh_channel_free.              *)
(***************************************************************************)

\* The packet, and a flush, which handles packets unless it is done at once.
SendEof(who) ==
    /\ pc = "idle" /\ ~Gone /\ ~failed /\ ~localEof
    /\ Send(Packet("eof", "stdout", 0, 0))
    /\ \/ unsent' > 0 /\ pc' = "eof" /\ caller' = who /\ UNCHANGED <<localEof, left, stream>>
       \/ unsent' = 0 /\ localEof' = TRUE
            /\ IF who = "eof" THEN Return ELSE pc' = "sendClose" /\ caller' = who /\ UNCHANGED <<left, stream>>
    /\ UNCHANGED <<state, flags, delayedClose, remoteEof, localWindow, remoteWindow, buffer, freed,
                   app, failed, toClient, demand, peer>>

\* Variant: an end of file that could not be flushed in time counts as not sent.
EofFlushedForgets ==
    /\ pc = "eof" /\ ~failed
    /\ \/ unsent = 0 /\ localEof' = TRUE /\ IF caller = "eof" THEN Return ELSE To("sendClose")
       \/ unsent > 0 /\ AfterClose /\ UNCHANGED localEof
    /\ UNCHANGED <<state, flags, delayedClose, remoteEof, localWindow, remoteWindow, buffer, freed,
                   app, failed, unsent, toServer, toClient, demand, peer>>

\* The flush ends; one that times out ends a close, too, before its packet is sent.
EofFlushed ==
    /\ pc = "eof" /\ ~failed
    /\ localEof' = TRUE
    /\ \/ unsent = 0 /\ IF caller = "eof" THEN Return ELSE To("sendClose")
       \/ unsent > 0 /\ AfterClose
    /\ UNCHANGED <<state, flags, delayedClose, remoteEof, localWindow, remoteWindow, buffer, freed,
                   app, failed, unsent, toServer, toClient, demand, peer>>

\* A close whose end of file is already sent.
CallClose(who) ==
    /\ pc = "idle" /\ ~Gone /\ ~failed
    /\ localEof /\ "closedLocal" \notin flags
    /\ pc' = "sendClose" /\ caller' = who
    /\ UNCHANGED <<struct, left, stream, app, failed, unsent, toServer, toClient, demand, peer>>

SendClose ==
    /\ pc = "sendClose" /\ ~failed
    /\ Send(Packet("close", "stdout", 0, 0))
    /\ state' = "closed" /\ flags' = flags \cup {"closedLocal"}
    /\ IF unsent' = 0 THEN AfterClose ELSE To("closeFlush")
    /\ UNCHANGED <<delayedClose, localEof, remoteEof, localWindow, remoteWindow, buffer, freed,
                   app, failed, toClient, demand, peer>>

\* The flush of the close, complete or timed out.
CloseFlushed ==
    /\ pc = "closeFlush" /\ ~failed
    /\ AfterClose
    /\ UNCHANGED <<struct, app, failed, unsent, toServer, toClient, demand, peer>>

\* Variant: a channel that the server closed is not closed again.
FreeSendsCloseOnlyOpen == ~failed /\ state = "open"

\* Does ssh_channel_free close the channel first?
FreeSendsClose ==
    /\ ~failed
    /\ \/ state = "open"
       \/ state = "closed" /\ "closedRemote" \in flags /\ "closedLocal" \notin flags

\* A free with nothing to close; SSHKit sends the end of file, or a close, before every free.
CallFree ==
    /\ pc = "idle" /\ ~Gone /\ (localEof \/ failed)
    /\ ~FreeSendsClose
    /\ To("freeing")
    /\ UNCHANGED <<struct, app, failed, unsent, toServer, toClient, demand, peer>>

CallFreeCloses == FreeSendsClose /\ CallClose("free")

\* Variant: the channel is destroyed at once.
FinishFreeAtOnce ==
    /\ pc = "freeing" /\ Return
    /\ flags' = flags \cup {"freedLocal"} /\ freed' = TRUE
    /\ UNCHANGED <<state, delayedClose, localEof, remoteEof, localWindow, remoteWindow, buffer,
                   app, failed, unsent, toServer, toClient, demand, peer>>

\* The channel stays in the session's list until the server has closed it, too.
FinishFree ==
    /\ pc = "freeing" /\ Return
    /\ flags' = flags \cup {"freedLocal"}
    /\ freed' = ("closedRemote" \in flags)
    /\ UNCHANGED <<state, delayedClose, localEof, remoteEof, localWindow, remoteWindow, buffer,
                   app, failed, unsent, toServer, toClient, demand, peer>>

-----------------------------------------------------------------------------
(***************************************************************************)
(* The packet handlers.  channel_from_msg finds no channel once it is      *)
(* freed.                                                                  *)
(***************************************************************************)

Handle(type) ==
    /\ pc \in Waiting \cup {"idle"} /\ ~failed
    /\ toClient # <<>> /\ Head(toClient).type = type
    /\ toClient' = Tail(toClient)
    /\ UNCHANGED <<call, app, failed, unsent, toServer, demand, peer>>

\* channel_rcv_data: what exceeds the window is dropped.
RcvData ==
    /\ Handle("data")
    /\ LET p == Head(toClient) IN
        IF freed \/ p.len > localWindow
        THEN UNCHANGED <<localWindow, buffer>>
        ELSE /\ localWindow' = localWindow - p.len
             /\ buffer' = [buffer EXCEPT ![p.stream] = @ + p.len]
    /\ UNCHANGED <<state, flags, delayedClose, localEof, remoteEof, remoteWindow, freed>>

\* channel_rcv_change_window.
RcvChangeWindow ==
    /\ Handle("adjust")
    /\ remoteWindow' = IF freed THEN remoteWindow ELSE remoteWindow + Head(toClient).len
    /\ UNCHANGED <<state, flags, delayedClose, localEof, remoteEof, localWindow, buffer, freed>>

RcvEof ==
    /\ Handle("eof")
    /\ remoteEof' = (remoteEof \/ ~freed)
    /\ UNCHANGED <<state, flags, delayedClose, localEof, localWindow, remoteWindow, buffer, freed>>

\* Variant: the close takes effect although there is something to read.
RcvCloseNow ==
    /\ Handle("close")
    /\ IF freed THEN UNCHANGED <<state, flags, delayedClose, remoteEof, freed>>
       ELSE /\ state' = "closed" /\ UNCHANGED delayedClose
            /\ remoteEof' = TRUE
            /\ flags' = flags \cup {"closedRemote"}
            /\ freed' = Gone
    /\ UNCHANGED <<localEof, localWindow, remoteWindow, buffer>>

\* channel_rcv_close: put off while there is unread data; it implies the end of file.
RcvClose ==
    /\ Handle("close")
    /\ IF freed THEN UNCHANGED <<state, flags, delayedClose, remoteEof, freed>>
       ELSE /\ IF Unread THEN delayedClose' = TRUE /\ UNCHANGED state
                         ELSE state' = "closed" /\ UNCHANGED delayedClose
            /\ remoteEof' = TRUE
            /\ flags' = flags \cup {"closedRemote"}
            /\ freed' = Gone
    /\ UNCHANGED <<localEof, localWindow, remoteWindow, buffer>>

-----------------------------------------------------------------------------
(***************************************************************************)
(* The server.                                                             *)
(***************************************************************************)

ServerStep(p, more) ==
    /\ ~failed
    /\ peer' = p
    /\ toClient' = toClient \o more
    /\ UNCHANGED <<struct, call, app, failed, demand>>

ServerData(s, n) ==
    /\ ~peer.eof /\ ~peer.closed
    /\ n \in 1..Smallest(MaxPacket, demand[s] - peer.sent[s])
    /\ Total(peer.sent) + n <= peer.granted
    /\ ServerStep([peer EXCEPT !.sent[s] = @ + n], <<Packet("data", s, peer.sent[s], n)>>)
    /\ UNCHANGED <<toServer, unsent>>

\* The program has ended, perhaps early.
ServerEof ==
    /\ ~peer.eof /\ ~peer.closed
    /\ ServerStep([peer EXCEPT !.eof = TRUE], <<Packet("eof", "stdout", 0, 0)>>)
    /\ UNCHANGED <<toServer, unsent>>

ServerClose ==
    /\ ~peer.closed
    /\ ServerStep([peer EXCEPT !.closed = TRUE], <<Packet("close", "stdout", 0, 0)>>)
    /\ UNCHANGED <<toServer, unsent>>

\* The server reads input and gives the window back.
ServerGrows(n) ==
    /\ ~peer.closed
    /\ n \in 1..(PeerWindow - (peer.allows - peer.received))
    /\ ServerStep([peer EXCEPT !.allows = @ + n], <<Packet("adjust", "stdout", peer.allows, n)>>)
    /\ UNCHANGED <<toServer, unsent>>

ServerReceives ==
    /\ Len(toServer) > unsent
    /\ LET p == Head(toServer) IN
        ServerStep([peer EXCEPT !.received = IF p.type = "data" THEN @ + p.len ELSE @,
                                !.granted = IF p.type = "adjust" THEN @ + p.len ELSE @,
                                !.gotEof = @ \/ p.type = "eof",
                                !.gotClose = @ \/ p.type = "close"], <<>>)
    /\ toServer' = Tail(toServer)
    /\ UNCHANGED unsent

-----------------------------------------------------------------------------
Calls ==
    \/ \E n \in 1..MaxOut : CallWrite(n)
    \/ \E s \in Streams : CallRead(s)
    \/ SendEof("eof") \/ SendEof("close") \/ CallClose("close") \/ CallFree \/ CallFreeCloses

Reads == \E s \in Streams : ReadRefused(s) \/ ReadEof(s) \/ \E n \in 1..buffer[s] : ReadData(s, n)

Continues ==
    \/ KexWaited \/ WriteChunk \/ AwaitWindow \/ WindowWaited \/ WriteDone \/ WaitOver
    \/ EofFlushed \/ SendClose \/ CloseFlushed \/ FinishFree \/ ReturnFailed

Handles == RcvData \/ RcvChangeWindow \/ RcvEof \/ RcvClose

Server ==
    \/ ServerEof \/ ServerClose \/ ServerReceives
    \/ \E n \in 1..PeerWindow : ServerGrows(n)
    \/ \E s \in Streams, n \in 1..MaxPacket : ServerData(s, n)

Next == Calls \/ Reads \/ Continues \/ Handles \/ Flush \/ Fail \/ Server

\* Both streams are read again and again, as the read loops of SSHKit do, and every call
\* has a timeout; the server's program goes on as long as it may.
Fairness ==
    /\ WF_vars(Continues) /\ WF_vars(Handles) /\ WF_vars(Flush) /\ WF_vars(ServerReceives)
    /\ \A s \in Streams :
        /\ SF_vars(\E n \in 1..buffer[s] : ReadData(s, n))
        /\ WF_vars(\E n \in 1..MaxPacket : ServerData(s, n))

Spec == Init /\ [][Next]_vars
FairSpec == Spec /\ Fairness

-----------------------------------------------------------------------------
(***************************************************************************)
(* Properties.                                                             *)
(***************************************************************************)

Packets == [type : {"data", "adjust", "eof", "close"}, stream : Streams, from : Nat, len : Nat]

\* Every variable has its type.
TypeOK ==
    /\ state \in {"open", "closed"} /\ flags \subseteq {"closedLocal", "closedRemote", "freedLocal"}
    /\ {delayedClose, localEof, remoteEof, freed, failed} \subseteq BOOLEAN
    /\ localWindow \in Nat /\ remoteWindow \in Nat /\ buffer \in [Streams -> Nat]
    /\ pc \in Waiting \cup {"idle", "write", "sendClose", "freeing"}
    /\ caller \in {"eof", "close", "free"} /\ left \in Nat /\ stream \in Streams
    /\ unsent \in Nat /\ toServer \in Seq(Packets) /\ toClient \in Seq(Packets)
    /\ read \in [Streams -> Nat] /\ ended \subseteq Streams /\ written \in Nat
    /\ demand \in [Streams -> 0..MaxIn]
    /\ peer \in [sent : [Streams -> Nat], granted : Nat, received : Nat, allows : Nat,
                 eof : BOOLEAN, closed : BOOLEAN, gotEof : BOOLEAN, gotClose : BOOLEAN]

\* A server that respects the window it was given is never told "Window exceeded"
\* (channel_rcv_data), and libssh never sends a server more than it allows: the two
\* ends account for one window alike, whatever is still on its way.
NoOverrun ==
    /\ toClient # <<>> /\ Head(toClient).type = "data" /\ ~freed => Head(toClient).len <= localWindow
    /\ toServer # <<>> /\ Head(toServer).type = "data" =>
        Head(toServer).len <= peer.allows - peer.received

\* What a channel buffers, and what it may still be sent, is one window at most: memory
\* is bounded however slowly the application reads (grow_window).
BufferBounded == localWindow + Total(buffer) <= WindowDefault

\* A stream ends for the application only after everything the server said on it,
\* whatever close, end of file and data of the other stream did in between.
EofIsExact == \A s \in ended : read[s] = peer.sent[s]

\* The server's close takes no unread data away: a read is refused only after the
\* application's own close (delayed_close).
UnreadIsReadable == state = "closed" /\ "closedLocal" \notin flags => ~Unread

\* End of file and close are sent once, and nothing follows the close, nor data the end
\* of file.
LastWords ==
    /\ \A i, j \in DOMAIN toServer : i < j =>
        /\ toServer[i].type # "close"
        /\ toServer[i].type = "eof" => toServer[j].type \notin {"eof", "data"}
    /\ peer.gotClose => toServer = <<>>
    /\ peer.gotEof => \A j \in DOMAIN toServer : toServer[j].type \notin {"eof", "data"}

\* A channel that the application freed, on a session that works, has been closed to the
\* server: the server does not keep it for ever.
FreedIsClosed == Gone /\ ~failed => "closedLocal" \in flags

\* The memory of a channel is given up only after the last packet that names it: none is
\* ever "for an invalid channel" (ssh_channel_free).
FreedAfterLastPacket == freed => toClient = <<>>

\* The two ends of a channel agree on its window, its data, its end of file and its close
\* (channel_rcv_data, channel_rcv_close, ssh_channel_free).
ChannelIsExact ==
    /\ TypeOK /\ NoOverrun /\ BufferBounded /\ EofIsExact /\ UnreadIsReadable
    /\ LastWords /\ FreedIsClosed /\ FreedAfterLastPacket

\* All that the server's program has to say reaches a reader of both streams, although it
\* is longer than the window: windows never wait for each other.
OutputArrives ==
    <>(read = demand \/ failed \/ localEof \/ peer.eof \/ peer.closed)

=============================================================================
