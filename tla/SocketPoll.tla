------------------------------ MODULE SocketPoll ------------------------------
(***************************************************************************)
(* The socket of a libssh session and the poll loop that drives it         *)
(* (Vendor/libssh/src/socket.c, poll.c, session.c), on the descriptor that *)
(* SSHKit lends it.  One thread runs it; the kernel and the peer go on     *)
(* while it sleeps in poll.  A packet is two bytes, so that it can come in *)
(* halves; bytes are numbered in the order they were written.              *)
(***************************************************************************)
EXTENDS Integers, SequencesExt

CONSTANTS
    Room,           \* bytes the kernel takes before the peer reads
    MaxOut, MaxIn   \* bounds: packets written, packets the peer sends

SocketPollAssumption == Room \in Nat \ {0} /\ MaxOut \in Nat /\ MaxIn \in Nat

VARIABLES
    socket,         \* the ssh_socket, its poll handle and the handle's slot
    kernel,         \* the connection as the kernel has it, and the peer
    call,           \* the libssh call that runs
    session         \* state, packets written and packets handled

vars == <<socket, kernel, call, session>>

MaxLocks == 3       \* bound: from the third lock on nothing but POLLOUT is passed
Bytes(n) == [i \in 1..2 * n |-> i]

\* ssh_socket_set_fd, called by ssh_connect for SSH_OPTIONS_FD.
Init ==
    /\ socket = [state |-> "connecting", open |-> TRUE, in |-> <<>>, out |-> <<>>, write_wontblock |-> FALSE,
                 data_except |-> FALSE, fd |-> "lent", attached |-> FALSE, events |-> {"OUT"}, slot |-> {},
                 lock_cnt |-> 0]
    /\ kernel = [connect |-> "pending", to |-> <<>>, sent |-> 0, eof |-> FALSE, reset |-> FALSE,
                 from |-> <<>>, peer |-> <<>>]
    /\ call = [op |-> "none", asleep |-> FALSE, mark |-> 0]
    /\ session = [state |-> "live", written |-> 0, handled |-> 0]

World == [socket |-> socket, kernel |-> kernel, session |-> session]
Becomes(w) == socket' = w.socket /\ kernel' = w.kernel /\ session' = w.session

-----------------------------------------------------------------------------
(***************************************************************************)
(* The poll handle.                                                        *)
(***************************************************************************)

ssh_poll_set_events(s, events) ==
    [s EXCEPT !.events = events,
              !.slot = IF ~s.attached THEN @ ELSE IF s.lock_cnt = 0 THEN events
                       ELSE IF "OUT" \in @ THEN @ ELSE events \cap {"OUT"}]

ssh_poll_add_events(s, events) == ssh_poll_set_events(s, s.events \union events)
ssh_poll_remove_events(s, events) == ssh_poll_set_events(s, s.events \ events)

ssh_poll_ctx_add(s) == IF s.attached THEN s ELSE [s EXCEPT !.attached = TRUE, !.slot = s.events]

\* A handle that is polled from its own callback, or was left locked, waits for POLLOUT only.
LockedOnlyOut(s) == IF s.lock_cnt > 0 THEN [s EXCEPT !.slot = @ \cap {"OUT"}] ELSE s

\* What poll reports: a closed number may be nobody's, or by now somebody else's with data.
Ready ==
    IF socket.fd = "none" THEN {}
    ELSE IF ~socket.open THEN {{"NVAL"}, {"IN"}}
    ELSE {(IF kernel.to # <<>> \/ kernel.eof \/ kernel.reset THEN {"IN"} ELSE {})
          \union (IF kernel.reset \/ (kernel.connect = "done" /\ Len(kernel.from) < Room) THEN {"OUT"} ELSE {})
          \union (IF kernel.reset \/ kernel.connect = "refused" THEN {"ERR", "HUP"} ELSE {})}
Reported == {(r \cap socket.slot) \union (r \ {"IN", "OUT"}) : r \in Ready} \ {{}}

-----------------------------------------------------------------------------
(***************************************************************************)
(* Writing.                                                                *)
(***************************************************************************)

ssh_socket_exception_callback(w) == [w EXCEPT !.session.state = "error"]

\* Variant: the socket stays connected.
ClosesOnlyNumber(w) ==
    LET closed == [w EXCEPT !.socket.open = FALSE]
    IN  IF w.socket.lock_cnt > 0 THEN closed
        ELSE [closed EXCEPT !.socket.attached = FALSE, !.socket.fd = "none", !.socket.events = {}, !.socket.slot = {}]

\* A locked handle stays, and its slot keeps the number; otherwise the next poll makes a
\* handle for no descriptor.
ssh_socket_close(w) ==
    LET closed == [w EXCEPT !.socket.open = FALSE, !.socket.state = "closed"]
    IN  IF w.socket.lock_cnt > 0 THEN closed
        ELSE [closed EXCEPT !.socket.attached = FALSE, !.socket.fd = "none", !.socket.events = {}, !.socket.slot = {}]

\* Variants: a failed write tells nobody; the bytes stay in the buffer.
FailsInSilence(w) ==
    LET armed == [w EXCEPT !.socket = ssh_poll_add_events([w.socket EXCEPT !.write_wontblock = FALSE], {"OUT"})]
    IN  IF w.kernel.reset THEN ssh_socket_close([armed EXCEPT !.socket.data_except = TRUE])
        ELSE [armed EXCEPT !.socket.out = <<>>, !.kernel.from = @ \o w.socket.out]

SentTwice(w) ==
    LET armed == [w EXCEPT !.socket = ssh_poll_add_events([w.socket EXCEPT !.write_wontblock = FALSE], {"OUT"})]
    IN  IF w.kernel.reset
        THEN ssh_socket_exception_callback(ssh_socket_close([armed EXCEPT !.socket.data_except = TRUE]))
        ELSE [armed EXCEPT !.socket.out = Tail(w.socket.out), !.kernel.from = @ \o w.socket.out]

\* send on a socket that ssh_socket_set_blocking has made blocking: it takes all, and
\* returns when the kernel has taken the last of it (InSend).
ssh_socket_unbuffered_write(w) ==
    LET armed == [w EXCEPT !.socket = ssh_poll_add_events([w.socket EXCEPT !.write_wontblock = FALSE], {"OUT"})]
    IN  IF w.kernel.reset
        THEN ssh_socket_exception_callback(ssh_socket_close([armed EXCEPT !.socket.data_except = TRUE]))
        ELSE [armed EXCEPT !.socket.out = <<>>, !.kernel.from = @ \o w.socket.out]

InSend == Len(kernel.from) > Room

ssh_socket_nonblocking_flush(w) ==
    IF ~w.socket.open THEN ssh_socket_exception_callback(w)
    ELSE IF w.socket.out = <<>> THEN w
    ELSE IF ~w.socket.write_wontblock
    THEN [w EXCEPT !.socket = ssh_poll_add_events(w.socket, {"OUT"})]
    ELSE IF w.socket.data_except THEN ssh_socket_exception_callback(ssh_socket_close(w))
    ELSE ssh_socket_unbuffered_write(w)

\* The packet is buffered, and the outcome of the flush is not looked at.
ssh_socket_write(w) ==
    LET n == w.session.written + 1
    IN  ssh_socket_nonblocking_flush(
            [w EXCEPT !.session.written = n, !.socket.out = @ \o <<2 * n - 1, 2 * n>>])

-----------------------------------------------------------------------------
(***************************************************************************)
(* The callback of the poll.                                               *)
(***************************************************************************)

\* ssh_packet_socket_callback for the packets that are complete; some are answered
\* at once, and one may be refused.
Data(w, answered, refused) ==
    LET Handle(v, i) ==
            IF v.session.state = "error" THEN v
            ELSE LET n == v.session.handled + 1
                     taken == [v EXCEPT !.session.handled = n, !.socket.in = SubSeq(@, 3, Len(@))]
                 IN  IF i = refused THEN [taken EXCEPT !.session.state = "error"]
                     ELSE IF i \in answered /\ taken.session.written < MaxOut THEN ssh_socket_write(taken) ELSE taken
    IN  FoldLeft(Handle, w, [i \in 1..Len(w.socket.in) \div 2 |-> i])

\* Variant: what was read before is lost with the next read.
ReadForgets(w) == [w EXCEPT !.socket.in = w.kernel.to, !.kernel.to = <<>>]

Read(w) == [w EXCEPT !.socket.in = @ \o w.kernel.to, !.kernel.to = <<>>]

\* What the callback returned, and the state it left.
Result(rc, w) == [rc |-> rc, w |-> w]

\* Variant: what waits is left to the next write.
OnlyNotesRoom(w, handled) ==
    IF w.socket.state = "connecting"
    THEN [w EXCEPT !.socket = ssh_poll_set_events([w.socket EXCEPT !.state = "connected"], {"IN", "OUT"})]
    ELSE [w EXCEPT !.socket = ssh_poll_remove_events([w.socket EXCEPT !.write_wontblock = TRUE], {"OUT"})]

\* POLLOUT stays when data was handled before, as the handle may be gone.
WriteEvent(w, handled) ==
    IF w.socket.state = "connecting"
    THEN [w EXCEPT !.socket = ssh_poll_set_events([w.socket EXCEPT !.state = "connected"], {"IN", "OUT"})]
    ELSE LET free == [w EXCEPT !.socket.write_wontblock = TRUE]
             noted == IF handled THEN free ELSE [free EXCEPT !.socket = ssh_poll_remove_events(@, {"OUT"})]
         IN  IF noted.socket.out = <<>> THEN noted ELSE ssh_socket_nonblocking_flush(noted)

ssh_socket_pollcallback(w, reported, answered, refused) ==
    LET revents == IF reported \cap {"ERR", "HUP"} # {} THEN reported \union {"IN"} ELSE reported
        reading == "IN" \in revents /\ w.socket.state = "connected"
        failed == [w EXCEPT !.socket = ssh_poll_remove_events([w.socket EXCEPT !.data_except = @ \/ w.kernel.reset], {"IN"})]
        read == IF reading THEN Data(Read(w), answered, refused) ELSE w
    IN  IF ~w.socket.open THEN Result(-1, w)
        ELSE IF reported \cap {"ERR", "HUP"} # {} /\ w.socket.state = "connecting"
        THEN Result(-1, ssh_socket_exception_callback(ssh_socket_close(w)))
        ELSE IF reading /\ (w.kernel.reset \/ w.socket.data_except \/ w.kernel.to = <<>>)
        THEN Result(-2, ssh_socket_exception_callback(failed))
        ELSE Result(0, IF "OUT" \in revents THEN WriteEvent(read, reading) ELSE read)

\* Variant: the lock of a callback that went well is kept.
KeepsLock(w, reported, answered, refused) ==
    LET revents == IF w.socket.lock_cnt >= MaxLocks THEN reported \cap {"OUT"} ELSE reported
        locked == [w EXCEPT !.socket.slot = {}, !.socket.lock_cnt = IF @ = MaxLocks THEN @ ELSE @ + 1]
        done == ssh_socket_pollcallback(locked, revents, answered, refused)
    IN  IF revents = {} THEN w
        ELSE CASE done.rc = 0 -> [done.w EXCEPT !.socket.slot = done.w.socket.events]
               [] done.rc = -1 -> done.w
               [] done.rc = -2 -> [done.w EXCEPT !.session.state = "error"]

\* ssh_poll_ctx_dopoll once poll has returned.  A callback that fails leaves the handle locked.
Dispatch(w, reported, answered, refused) ==
    LET revents == IF w.socket.lock_cnt >= MaxLocks THEN reported \cap {"OUT"} ELSE reported
        locked == [w EXCEPT !.socket.slot = {}, !.socket.lock_cnt = IF @ = MaxLocks THEN @ ELSE @ + 1]
        done == ssh_socket_pollcallback(locked, revents, answered, refused)
    IN  IF revents = {} THEN w
        ELSE CASE done.rc = 0 -> [done.w EXCEPT !.socket.slot = done.w.socket.events, !.socket.lock_cnt = @ - 1]
               [] done.rc = -1 -> done.w
               [] done.rc = -2 -> [done.w EXCEPT !.session.state = "error"]

-----------------------------------------------------------------------------
(***************************************************************************)
(* The calls.                                                              *)
(***************************************************************************)

Write ==
    /\ call.op = "none" /\ ~InSend /\ session.state = "live" /\ session.written < MaxOut
    /\ socket.state = "connected"
    /\ Becomes(ssh_socket_write(World)) /\ UNCHANGED call

\* ssh_blocking_flush, a call that waits for a packet, and ssh_channel_accept, which polls
\* once and does not ask for the state of the session.
Begin(op) ==
    /\ call.op = "none" /\ ~InSend
    /\ op # "read" => socket.state # "connecting"
    /\ call' = [op |-> op, asleep |-> FALSE, mark |-> session.handled]
    /\ UNCHANGED <<socket, kernel, session>>

\* Variant: a flush waits for the output alone.
WaitsForOutput ==
    CASE call.op = "flush"  -> socket.out = <<>>
      [] call.op = "read"   -> session.handled > call.mark \/ session.state = "error"
      [] call.op = "accept" -> FALSE

Terminates ==
    CASE call.op = "flush"  -> socket.out = <<>> \/ session.state = "error"
      [] call.op = "read"   -> session.handled > call.mark \/ session.state = "error"
      [] call.op = "accept" -> FALSE

\* ssh_handle_packets, to where it sleeps.
ssh_handle_packets ==
    /\ call.op # "none" /\ ~call.asleep /\ ~InSend /\ ~Terminates
    /\ socket' = LockedOnlyOut(ssh_poll_ctx_add(ssh_poll_add_events(socket, {"IN"})))
    /\ call' = [call EXCEPT !.asleep = TRUE]
    /\ UNCHANGED <<kernel, session>>

Returned == call' = IF call.op = "accept" THEN [call EXCEPT !.op = "none", !.asleep = FALSE] ELSE [call EXCEPT !.asleep = FALSE]

Wakes ==
    /\ call.asleep
    /\ \E reported \in Reported, answered \in SUBSET (1..MaxIn), refused \in 0..MaxIn :
           Becomes(Dispatch(World, reported, answered, refused))
    /\ Returned

\* The time of the call is up: SSH_AGAIN.
TimesOut == call.asleep /\ call' = [call EXCEPT !.op = "none", !.asleep = FALSE] /\ UNCHANGED <<socket, kernel, session>>

Ends ==
    /\ call.op # "none" /\ ~call.asleep /\ ~InSend /\ Terminates
    /\ call' = [call EXCEPT !.op = "none"] /\ UNCHANGED <<socket, kernel, session>>

-----------------------------------------------------------------------------
(***************************************************************************)
(* The kernel and the peer.                                                *)
(***************************************************************************)

Connects(outcome) ==
    /\ kernel.connect = "pending" /\ kernel' = [kernel EXCEPT !.connect = outcome]
    /\ UNCHANGED <<socket, call, session>>

PeerUp == kernel.connect = "done" /\ ~kernel.eof /\ ~kernel.reset

PeerSends ==
    /\ PeerUp /\ kernel.sent < 2 * MaxIn
    /\ kernel' = [kernel EXCEPT !.to = Append(@, kernel.sent + 1), !.sent = @ + 1]
    /\ UNCHANGED <<socket, call, session>>

PeerReads ==
    /\ kernel.from # <<>> /\ ~kernel.reset
    /\ kernel' = [kernel EXCEPT !.from = Tail(@), !.peer = Append(@, Head(kernel.from))]
    /\ UNCHANGED <<socket, call, session>>

PeerCloses == PeerUp /\ kernel' = [kernel EXCEPT !.eof = TRUE] /\ UNCHANGED <<socket, call, session>>

\* A reset, or the shutdown of a cancel: what is under way is lost.
Resets ==
    /\ kernel.connect = "done" /\ ~kernel.reset
    /\ kernel' = [kernel EXCEPT !.reset = TRUE, !.to = <<>>, !.from = <<>>]
    /\ UNCHANGED <<socket, call, session>>

-----------------------------------------------------------------------------
CallStep == ssh_handle_packets \/ Wakes \/ Ends

Next ==
    \/ CallStep \/ Write \/ TimesOut \/ \E op \in {"flush", "read", "accept"} : Begin(op)
    \/ \E outcome \in {"done", "refused"} : Connects(outcome)
    \/ PeerSends \/ PeerReads \/ PeerCloses \/ Resets

Spec == Init /\ [][Next]_vars

\* The thread goes on, the connect comes to something, and the peer reads.
Fairness ==
    /\ WF_vars(CallStep) /\ WF_vars(PeerReads)
    /\ WF_vars(\E outcome \in {"done", "refused"} : Connects(outcome))
FairSpec == Spec /\ Fairness

-----------------------------------------------------------------------------
(***************************************************************************)
(* Properties.                                                             *)
(***************************************************************************)

\* Every variable has its type.
TypeOK ==
    /\ socket \in [state : {"connecting", "connected", "closed"}, open : BOOLEAN, in : Seq(Nat), out : Seq(Nat),
                   write_wontblock : BOOLEAN, data_except : BOOLEAN, fd : {"lent", "none"}, attached : BOOLEAN,
                   events : SUBSET {"IN", "OUT"}, slot : SUBSET {"IN", "OUT"}, lock_cnt : 0..MaxLocks]
    /\ kernel.connect \in {"pending", "done", "refused"} /\ {kernel.eof, kernel.reset} \subseteq BOOLEAN
    /\ call \in [op : {"none", "flush", "read", "accept"}, asleep : BOOLEAN, mark : 0..MaxIn]
    /\ session \in [state : {"live", "error"}, written : 0..MaxOut, handled : 0..MaxIn]
    /\ socket.open <=> socket.state # "closed"

\* No wake-up is lost: a live session that sleeps in poll watches for input, and for room
\* whenever output waits, although POLLOUT is taken off and put back from inside the
\* callback, where the handle is locked (poll.c "allow only setting POLLOUT").
SleepsArmed ==
    call.asleep /\ session.state = "live" =>
        /\ "IN" \in socket.slot
        /\ socket.out # <<>> \/ socket.state = "connecting" => "OUT" \in socket.slot

\* The callback gives the lock back as long as the session lives: a lock that stayed
\* would take POLLIN off for good.
LockIsReturned == session.state = "live" => socket.lock_cnt = 0

\* What was written reaches the peer once and in order; on a connection that was not
\* lost, nothing of it is missing.
WrittenOnce ==
    LET wire == kernel.peer \o kernel.from
    IN  /\ IsPrefix(wire, Bytes(session.written))
        /\ ~kernel.reset => wire \o socket.out = Bytes(session.written)

\* Packets are handled in order and once, in whatever pieces their bytes came.
HandledInOrder ==
    ~kernel.reset =>
        Bytes(session.handled) \o socket.in \o kernel.to = [i \in 1..kernel.sent |-> i]

\* A socket that was closed or failed is known to the session, so that every call that
\* waits for it gives up.
FailureIsAnnounced == socket.state = "closed" \/ socket.data_except => session.state = "error"

\* ssh_blocking_flush comes to an end, with the output sent or the session failed.
FlushEnds == call.op = "flush" ~> call.op # "flush"

=============================================================================
