------------------------------- MODULE JumpRelay -------------------------------
(***************************************************************************)
(* The relay of a ProxyJump (Vendor/libssh/src/connector.c in the loop of  *)
(* jump_thread_func, socket.c): one thread moves bytes between its end of  *)
(* a socket pair, at whose other end the session of the target writes and  *)
(* reads, and a channel to the jump host.  connector_in carries the pair   *)
(* to the channel, connector_out the channel to the pair.  Both ends of    *)
(* the pair block: a send of either side waits until its bytes have room.  *)
(* Bytes are numbered in the order they were written.                      *)
(***************************************************************************)
EXTENDS Integers, SequencesExt

CONSTANTS
    Chunk,          \* CHUNKSIZE, what one read of a connector takes at most
    Window,         \* the window the jump host grants at the start
    Room,           \* bytes the pair takes in each direction
    Packet,         \* bytes the target's session sends at once
    MaxUp, MaxDown  \* bounds: bytes written by the target's session, and sent by the jump host

JumpRelayAssumption ==
    /\ {Chunk, Window, Room, Packet} \subseteq Nat \ {0}
    /\ {MaxUp, MaxDown} \subseteq Nat

VARIABLES
    channel,        \* the forwarding channel of the jump session
    pair,           \* the socket pair
    connector_in,   \* its flags, and whether POLLIN is among its events
    connector_out,  \* its flags, and whether POLLOUT is among its events
    armed,          \* the jump session's socket waits for POLLOUT
    thread,         \* what the jump thread does
    root            \* the target's session

vars == <<channel, pair, connector_in, connector_out, armed, thread, root>>

World == [channel |-> channel, pair |-> pair, in |-> connector_in, out |-> connector_out,
          armed |-> armed, thread |-> thread]
Becomes(w) ==
    /\ channel' = w.channel /\ pair' = w.pair /\ armed' = w.armed /\ thread' = w.thread
    /\ connector_in' = w.in /\ connector_out' = w.out

First(s, n) == SubSeq(s, 1, IF n < Len(s) THEN n ELSE Len(s))
Rest(s, n) == SubSeq(s, n + 1, Len(s))

\* ssh_connector_set_event: data may have come before the connectors were there.
Init ==
    /\ \E early \in 0..MaxDown :
          channel = [window |-> Window, sent |-> <<>>, local_eof |-> FALSE, open |-> TRUE, delayed_close |-> FALSE,
                     buffer |-> [i \in 1..early |-> i], received |-> early, remote_eof |-> FALSE]
    /\ pair = [up |-> <<>>, down |-> <<>>, root |-> TRUE, thread |-> TRUE]
    /\ connector_in = [in_available |-> FALSE, out_wontblock |-> Window > 0, polled |-> TRUE]
    /\ connector_out = [in_available |-> channel.buffer # <<>>, out_wontblock |-> FALSE, polled |-> TRUE]
    /\ armed = FALSE
    /\ thread = [op |-> "polls", left |-> <<>>]
    /\ root = [left |-> 0, written |-> 0, got |-> <<>>]

-----------------------------------------------------------------------------
(***************************************************************************)
(* The connectors.                                                         *)
(***************************************************************************)

ssh_connector_update_in(w) ==
    [w EXCEPT !.in.in_available = FALSE, !.in.out_wontblock = w.channel.window > 0]

ssh_connector_update_out(w) ==
    [w EXCEPT !.out.in_available = w.channel.buffer # <<>>, !.out.out_wontblock = FALSE]

\* ssh_connector_reset_pollevents, of the connector whose callback has run.
ssh_connector_reset_in(w) == [w EXCEPT !.in.polled = ~w.in.in_available]
ssh_connector_reset_out(w) == [w EXCEPT !.out.polled = ~w.out.out_wontblock]

\* Variant: what one packet does not take is lost.
OnePacketOnly(w, bytes) ==
    [w EXCEPT !.channel.sent = Append(@, Head(bytes)), !.channel.window = @ - 1, !.armed = TRUE]

\* ssh_channel_write of at most a window, and ssh_channel_send_eof.
ssh_channel_write(w, bytes) ==
    [w EXCEPT !.channel.sent = @ \o bytes, !.channel.window = @ - Len(bytes), !.armed = TRUE]

ssh_channel_send_eof(w) ==
    IF w.channel.local_eof THEN w ELSE [w EXCEPT !.channel.local_eof = TRUE, !.armed = TRUE]

CanWrite(c) == c.open /\ ~c.delayed_close /\ ~c.local_eof

\* Variant: reads, and finds afterwards that nothing can be written.
ReadsFirst(w) ==
    LET toread == IF w.channel.window < Chunk THEN w.channel.window ELSE Chunk
        bytes == First(w.pair.up, Chunk)
        read == [w EXCEPT !.pair.up = Rest(@, Chunk)]
    IN  IF ~w.in.out_wontblock THEN [read EXCEPT !.in.in_available = TRUE]
        ELSE IF bytes = <<>> THEN [ssh_channel_send_eof(w) EXCEPT !.in.in_available = TRUE]
        ELSE IF ~CanWrite(w.channel) THEN read
        ELSE ssh_connector_update_in(ssh_channel_write(read, First(bytes, toread)))

\* Variant: an end that has closed has nothing more to say.
ClosedIsTheEnd(w) ==
    LET bytes == First(w.pair.up, IF w.channel.window < Chunk THEN w.channel.window ELSE Chunk)
    IN  IF ~w.in.out_wontblock THEN [w EXCEPT !.in.in_available = TRUE]
        ELSE IF bytes = <<>> \/ ~w.pair.root THEN [ssh_channel_send_eof(w) EXCEPT !.in.in_available = TRUE]
        ELSE ssh_connector_update_in(ssh_channel_write([w EXCEPT !.pair.up = Rest(@, Len(bytes))], bytes))

\* A read of no bytes returns 0, and 0 is taken for the end of the input.
ssh_connector_fd_in_cb(w) ==
    LET toread == IF w.channel.window < Chunk THEN w.channel.window ELSE Chunk
        bytes == First(w.pair.up, toread)
        read == [w EXCEPT !.pair.up = Rest(@, toread)]
    IN  IF ~w.in.out_wontblock THEN [w EXCEPT !.in.in_available = TRUE]
        ELSE IF toread > 0 /\ w.pair.up = <<>> /\ w.pair.root THEN [w EXCEPT !.thread.op = "recv"]
        ELSE IF bytes = <<>> THEN [ssh_channel_send_eof(w) EXCEPT !.in.in_available = TRUE]
        ELSE IF ~CanWrite(w.channel) THEN read
        ELSE ssh_connector_update_in(ssh_channel_write(read, bytes))

\* Variant: what waits is left to the next event of the descriptor.
OnlyNotes(w) == [w EXCEPT !.in.out_wontblock = TRUE]

\* The events are reset before the flags are set for good.
ssh_connector_channel_write_wontblock_cb(w) ==
    LET writable == [w EXCEPT !.in.out_wontblock = TRUE]
    IN  IF ~w.in.in_available THEN writable
        ELSE ssh_connector_update_in(ssh_connector_reset_in(ssh_connector_fd_in_cb(writable)))

\* ssh_channel_read_nonblocking: at the end of file SSH_EOF, which is not 0.
\* Variant: 0 at the end of file, as for an empty buffer.
EndIsZero(c) == 0

AtTheEnd(c) == IF c.remote_eof THEN -127 ELSE 0

Drained(c, bytes) ==
    LET rest == Rest(c.buffer, Len(bytes))
    IN  [c EXCEPT !.buffer = rest, !.open = @ /\ ~(c.delayed_close /\ rest = <<>>)]

ssh_connector_fd_out_cb(w) ==
    LET bytes == First(w.channel.buffer, Chunk)
    IN  IF ~w.out.in_available THEN ssh_connector_reset_out([w EXCEPT !.out.out_wontblock = TRUE])
        ELSE IF bytes # <<>>
        THEN [w EXCEPT !.channel = Drained(@, bytes), !.thread = [op |-> "fd_out_cb", left |-> bytes]]
        ELSE IF w.channel.remote_eof /\ AtTheEnd(w.channel) = 0 THEN [w EXCEPT !.pair.thread = FALSE]
        ELSE ssh_connector_reset_out(ssh_connector_update_out(w))

\* Variant: data that comes while the pair is full is left to the next data.
LeavesToNext(w) ==
    IF w.out.out_wontblock THEN [w EXCEPT !.thread = [op |-> "data_cb", left |-> w.channel.buffer]] ELSE w

\* The whole buffer goes to the pair at once.
ssh_connector_channel_data_cb(w) ==
    IF w.out.out_wontblock THEN [w EXCEPT !.thread = [op |-> "data_cb", left |-> w.channel.buffer]]
    ELSE [w EXCEPT !.out.in_available = TRUE]

-----------------------------------------------------------------------------
(***************************************************************************)
(* Events of the poll loop.                                                *)
(***************************************************************************)

Polls == thread.op = "polls" /\ channel.open /\ UNCHANGED root

\* A hang-up is reported whatever the events.
Readable ==
    /\ Polls /\ pair.thread
    /\ (connector_in.polled /\ pair.up # <<>>) \/ ~pair.root
    /\ Becomes(ssh_connector_reset_in(ssh_connector_fd_in_cb(World)))

Writable ==
    /\ Polls /\ pair.thread
    /\ (connector_out.polled /\ Len(pair.down) < Room) \/ ~pair.root
    /\ Becomes(ssh_connector_fd_out_cb(World))

\* Variant: a data callback that has written its bytes leaves them to the channel.
NotConsumed(w) ==
    ssh_connector_reset_out(ssh_connector_update_out([w EXCEPT !.thread = [op |-> "polls", left |-> <<>>]]))

Written(w) ==
    LET done == [w EXCEPT !.thread = [op |-> "polls", left |-> <<>>]]
        flags == ssh_connector_reset_out(ssh_connector_update_out(done))
    IN  IF w.thread.op = "fd_out_cb" THEN flags ELSE [flags EXCEPT !.channel = Drained(@, @.buffer)]

Failed(w) ==
    LET done == [w EXCEPT !.thread = [op |-> "polls", left |-> <<>>]]
    IN  ssh_connector_reset_out(IF w.thread.op = "fd_out_cb" THEN done ELSE ssh_connector_update_out(done))

\* send of a connector, byte by byte as the pair takes them; it fails when the other end is gone.
ssh_connector_fd_write ==
    /\ thread.op \in {"fd_out_cb", "data_cb"} /\ UNCHANGED root
    /\ \/ ~pair.root /\ Becomes(Failed(World))
       \/ /\ pair.root /\ Len(pair.down) < Room
          /\ LET w == [World EXCEPT !.pair.down = Append(@, Head(thread.left)), !.thread.left = Tail(@)]
             IN  Becomes(IF w.thread.left = <<>> THEN Written(w) ELSE w)

\* The socket has room again, the window perhaps none.
ssh_packet_socket_controlflow_callback ==
    /\ Polls /\ armed
    /\ Becomes(ssh_connector_channel_write_wontblock_cb([World EXCEPT !.armed = FALSE]))

channel_rcv_change_window ==
    /\ Polls
    /\ \E n \in 1..Window - channel.window :
          LET w == [World EXCEPT !.channel.window = @ + n]
          IN  Becomes(IF channel.window = 0 THEN ssh_connector_channel_write_wontblock_cb(w) ELSE w)

channel_rcv_data ==
    /\ Polls /\ ~channel.remote_eof /\ channel.received < MaxDown
    /\ \E n \in 1..MaxDown - channel.received :
          Becomes(ssh_connector_channel_data_cb(
              [World EXCEPT !.channel.buffer = @ \o [i \in 1..n |-> channel.received + i],
                            !.channel.received = @ + n]))

channel_rcv_eof ==
    /\ Polls /\ ~channel.remote_eof
    /\ Becomes([World EXCEPT !.channel.remote_eof = TRUE])

channel_rcv_close ==
    /\ Polls /\ ~channel.delayed_close
    /\ Becomes([World EXCEPT !.channel.remote_eof = TRUE, !.channel.open = channel.buffer # <<>>,
                             !.channel.delayed_close = channel.buffer # <<>>])

\* The end of jump_thread_func: shutdown and close of the thread's end.
jump_thread_exit ==
    /\ thread.op = "polls" /\ ~channel.open
    /\ thread' = [thread EXCEPT !.op = "gone"] /\ pair' = [pair EXCEPT !.thread = FALSE]
    /\ UNCHANGED <<channel, connector_in, connector_out, armed, root>>

Thread ==
    \/ Readable \/ Writable \/ ssh_connector_fd_write \/ ssh_packet_socket_controlflow_callback
    \/ channel_rcv_change_window \/ channel_rcv_data \/ channel_rcv_eof \/ channel_rcv_close \/ jump_thread_exit

-----------------------------------------------------------------------------
(***************************************************************************)
(* The target's session, one thread as well.                               *)
(***************************************************************************)

RootSends ==
    /\ pair.root /\ root.left = 0 /\ root.written + Packet <= MaxUp
    /\ root' = [root EXCEPT !.left = Packet]
    /\ UNCHANGED <<channel, pair, connector_in, connector_out, armed, thread>>

RootPushes ==
    /\ pair.root /\ root.left > 0 /\ thread.op # "gone" /\ Len(pair.up) < Room
    /\ pair' = [pair EXCEPT !.up = Append(@, root.written + 1)]
    /\ root' = [root EXCEPT !.written = @ + 1, !.left = @ - 1]
    /\ UNCHANGED <<channel, connector_in, connector_out, armed, thread>>

RootReads ==
    /\ pair.root /\ root.left = 0 /\ pair.down # <<>>
    /\ root' = [root EXCEPT !.got = Append(@, Head(pair.down))] /\ pair' = [pair EXCEPT !.down = Tail(@)]
    /\ UNCHANGED <<channel, connector_in, connector_out, armed, thread>>

\* Between its calls the session may close; a send to a thread that is gone fails.
RootCloses ==
    /\ pair.root /\ (root.left = 0 \/ thread.op = "gone")
    /\ root' = [root EXCEPT !.left = 0] /\ pair' = [pair EXCEPT !.root = FALSE, !.down = <<>>]
    /\ UNCHANGED <<channel, connector_in, connector_out, armed, thread>>

Root == RootSends \/ RootPushes \/ RootReads \/ RootCloses

Next == Thread \/ Root
Spec == Init /\ [][Next]_vars

(***************************************************************************)
(* The thread serves whatever poll reports, a descriptor as well as the    *)
(* socket; the jump host reads and grants the window again; the target's   *)
(* session goes on with a send and reads what is there.                    *)
(***************************************************************************)
Fairness ==
    /\ WF_vars(Readable) /\ WF_vars(Writable) /\ WF_vars(ssh_connector_fd_write)
    /\ WF_vars(ssh_packet_socket_controlflow_callback) /\ WF_vars(channel_rcv_change_window)
    /\ WF_vars(jump_thread_exit) /\ WF_vars(RootPushes) /\ SF_vars(RootReads)
FairSpec == Spec /\ Fairness

-----------------------------------------------------------------------------
TypeOK ==
    /\ channel.window \in 0..Window /\ channel.received \in 0..MaxDown
    /\ channel.sent \in Seq(1..MaxUp) /\ channel.buffer \in Seq(1..MaxDown)
    /\ pair.up \in Seq(1..MaxUp) /\ pair.down \in Seq(1..MaxDown)
    /\ Len(pair.up) <= Room /\ Len(pair.down) <= Room
    /\ thread.op \in {"polls", "recv", "fd_out_cb", "data_cb", "gone"}
    /\ root.left \in 0..Packet /\ root.written \in 0..MaxUp

\* What the jump host got is what the target's session wrote, from the start and in order: a callback
\* that reads and one that finds no room never drop, repeat or swap bytes.
UpInOrder == channel.sent = [i \in 1..Len(channel.sent) |-> i]

\* What the target's session got, what waits in the pair, what a send still holds and what the channel
\* holds are the bytes of the jump host, each once and in order, until that session closes: a thread
\* that ends has handed over everything it received.
DownInOrder ==
    LET held == thread.left \o (IF thread.op = "data_cb" THEN <<>> ELSE channel.buffer)
    IN  pair.root => root.got \o pair.down \o held = [i \in 1..channel.received |-> i]

\* The channel is told of the end only after the target's session has closed its end and every byte
\* it wrote has been passed on (connector.c:420-446).
EofIsReal == channel.local_eof => ~pair.root /\ (channel.sent = [i \in 1..root.written |-> i] \/ channel.delayed_close)

\* While the thread polls, nothing waits unseen: bytes of the target's session are polled for, or wait
\* for a window or for a socket that will report; bytes of the jump host wait for a POLLOUT.
NothingForgotten ==
    thread.op = "polls" /\ channel.open /\ pair.root /\ ~channel.local_eof =>
        /\ pair.up # <<>> => connector_in.polled \/ channel.window = 0 \/ armed \/ channel.delayed_close
        /\ channel.buffer # <<>> => connector_out.in_available /\ connector_out.polled

\* The connectors never close the descriptor that jump_thread_func closes when it ends, and never
\* wait for input that poll has not reported.
DescriptorIsTheThreads == (pair.thread \/ thread.op = "gone") /\ thread.op # "recv"

\* Every byte the target's session writes reaches the jump host, unless the channel ends.
UpEnds == \A n \in 1..MaxUp : root.written >= n ~> Len(channel.sent) >= n \/ ~channel.open \/ channel.delayed_close

\* Every byte of the jump host reaches the target's session, unless that has closed or the relay has ended.
DownEnds == \A n \in 1..MaxDown : channel.received >= n ~> Len(root.got) >= n \/ ~pair.root \/ thread.op = "gone"
=============================================================================
