------------------------- MODULE MCConnectionSocket -------------------------
(***************************************************************************)
(* The instances of ConnectionSocket and of SocketPoll that TLC checks in  *)
(* one run: the two layers that own the descriptor of a connection.  A     *)
(* behaviour is one of a single part; the other one stays as it began.     *)
(***************************************************************************)
EXTENDS ConnectionSocket, TLC

CONSTANTS k1, k2

VARIABLES
    part,            \* which part takes steps
    socket, kernel, call, session

Poll == INSTANCE SocketPoll WITH Room <- 3, MaxOut <- 3, MaxIn <- 2

ASSUME SocketAssumption
ASSUME Poll!SocketPollAssumption

pollVars == <<socket, kernel, call, session>>
allVars == <<part, vars, pollVars>>

PartsInit == part \in {"handle", "poll"} /\ Init /\ Poll!Init
PartsNext ==
    \/ part = "handle" /\ Next /\ UNCHANGED <<part, pollVars>>
    \/ part = "poll" /\ Poll!Next /\ UNCHANGED <<part, vars>>
PartsSpec ==
    /\ PartsInit /\ [][PartsNext]_allVars
    /\ WF_pollVars(part = "poll" /\ Poll!CallStep)
    /\ WF_pollVars(part = "poll" /\ Poll!PeerReads)
    /\ WF_pollVars(part = "poll" /\ \E outcome \in {"done", "refused"} : Poll!Connects(outcome))

\* Every variable of libssh's socket and of its poll handle has its type (socket.c, poll.c).
PollTypeOK == Poll!TypeOK

\* A live session that sleeps in poll watches for all it waits for (ssh_poll_set_events).
SleepsArmed == Poll!SleepsArmed

\* The callback of the poll handle gives its lock back (ssh_poll_ctx_dopoll).
LockIsReturned == Poll!LockIsReturned

\* What was written reaches the peer once and in order (ssh_socket_nonblocking_flush).
WrittenOnce == Poll!WrittenOnce

\* Packets are handled in order and once (ssh_socket_pollcallback, ssh_packet_socket_callback).
HandledInOrder == Poll!HandledInOrder

\* A socket that was closed or failed is known to the session (ssh_socket_exception_callback).
FailureIsAnnounced == Poll!FailureIsAnnounced

\* A flush comes to an end, with the output sent or the session failed (ssh_blocking_flush).
FlushEnds == part = "poll" => Poll!FlushEnds

\* Bytes and packets pass the poll loop once and in order, whatever is armed, locked or failed meanwhile
\* (ssh_socket_pollcallback, ssh_poll_ctx_dopoll).
PollIsExact ==
    /\ PollTypeOK /\ SleepsArmed /\ LockIsReturned
    /\ WrittenOnce /\ HandledInOrder /\ FailureIsAnnounced

=============================================================================
