------------------------------- MODULE ProxyJump -------------------------------
(***************************************************************************)
(* Connections through jump hosts (Vendor/libssh/src/socket.c, client.c,   *)
(* SSHCoreOpenSSHClient+ProxyJump.m and +Connect.m).  The session of a     *)
(* connection is the root; every hop has a detached thread with a session  *)
(* of its own, which may start the thread of the next hop, and a socket    *)
(* pair to the session that started it.  All threads of the process share  *)
(* one flag, proxy_disconnect.  The callbacks of the first hop belong to   *)
(* the client of the connection; later hops (from ~/.ssh/config) have none. *)
(***************************************************************************)
EXTENDS Naturals

CONSTANTS
    Connections,    \* the SSHKit clients of the process
    Hops            \* the number of jump hosts of each, 0 without a ProxyJump

ProxyJumpAssumption == Hops \in [Connections -> Nat]

Threads == UNION {{c} \X (1..Hops[c]) : c \in Connections}
NextHop(t) == <<t[1], t[2] + 1>>
Last(t) == t[2] = Hops[t[1]]

VARIABLES
    proxy_disconnect,   \* the global of libssh
    client,             \* each client: its session and the host key policy of its jump
    callbacks,          \* the ssh_jump_callbacks_struct of each client
    thread,             \* each thread: what it does next, and what it has found
    pair,               \* the socket pair of each thread: which ends are open
    signalled           \* history: a root session disconnected since the client called ssh_connect

jumpVars == <<proxy_disconnect, client, callbacks, thread, pair, signalled>>

NoThread == [op |-> "none", key |-> FALSE, authenticated |-> FALSE, open |-> FALSE, told |-> FALSE]

JumpInit ==
    /\ proxy_disconnect = 0
    /\ client = [c \in Connections |-> [state |-> "idle", policy |-> "strict"]]
    /\ callbacks = [c \in Connections |-> "none"]
    /\ thread = [t \in Threads |-> NoThread]
    /\ pair = [t \in Threads |-> [parent |-> FALSE, thread |-> FALSE]]
    /\ signalled = [c \in Connections |-> FALSE]

-----------------------------------------------------------------------------
(***************************************************************************)
(* Starting a thread.                                                      *)
(***************************************************************************)

\* The pair and the thread of t; when pthread_create fails the thread's end stays open.
Started(t, created) ==
    /\ pair' = [pair EXCEPT ![t] = [parent |-> created, thread |-> TRUE]]
    /\ \E key \in BOOLEAN :
          thread' = [thread EXCEPT ![t].op = IF created THEN "before" ELSE "not_created", ![t].key = key]

\* Variant: the flag of earlier connections is left as it is.
KeepsFlag(c) == UNCHANGED proxy_disconnect

\* ssh_socket_connect_proxyjump of a root session.
ResetsFlag(c) == proxy_disconnect' = IF Hops[c] > 0 THEN 0 ELSE proxy_disconnect

\* configureProxyJumpForSession and ssh_connect of a client.
ssh_connect(c) ==
    /\ client[c].state = "idle"
    /\ \E policy \in {"insecure", "strict"}, created \in BOOLEAN :
          /\ client' = [client EXCEPT ![c] = [state |-> IF created THEN "connecting" ELSE "failed", policy |-> policy]]
          /\ IF Hops[c] > 0 THEN Started(<<c, 1>>, created) ELSE created /\ UNCHANGED <<thread, pair>>
    /\ callbacks' = [callbacks EXCEPT ![c] = IF Hops[c] > 0 THEN "allocated" ELSE @]
    /\ ResetsFlag(c)
    /\ signalled' = [signalled EXCEPT ![c] = FALSE]

-----------------------------------------------------------------------------
(***************************************************************************)
(* The client, on the worker queue of its connection.                      *)
(***************************************************************************)

ConnectionMade(c) ==
    /\ client[c].state = "connecting"
    /\ Hops[c] > 0 => thread[<<c, 1>>].op \in {"looks", "polls"}
    /\ client' = [client EXCEPT ![c].state = "connected"]
    /\ UNCHANGED <<proxy_disconnect, callbacks, thread, pair, signalled>>

\* A timeout, an end of file of the pair or an error of the handshake.
Fails(c) ==
    /\ client[c].state = "connecting"
    /\ client' = [client EXCEPT ![c].state = "failed"]
    /\ UNCHANGED <<proxy_disconnect, callbacks, thread, pair, signalled>>

\* Variant: the flag counts the disconnects.
CountsSignals(c) == proxy_disconnect' = proxy_disconnect + 1

\* A root session tells all threads of the process.
TellsThreads(c) == proxy_disconnect' = 1

\* ssh_disconnect in clearLibSSHSession, closeSession or dealloc.
ssh_disconnect(c) ==
    /\ client[c].state \in {"connected", "failed"}
    /\ client' = [client EXCEPT ![c].state = "disconnected"]
    /\ TellsThreads(c)
    /\ signalled' = [d \in Connections |-> TRUE]
    /\ pair' = [t \in Threads |-> IF t = <<c, 1>> THEN [pair[t] EXCEPT !.parent = FALSE] ELSE pair[t]]
    /\ UNCHANGED <<callbacks, thread>>

freeProxyJumpCallbacks(c) ==
    /\ client[c].state = "disconnected" /\ callbacks[c] = "allocated"
    /\ callbacks' = [callbacks EXCEPT ![c] = "freed"]
    /\ UNCHANGED <<proxy_disconnect, client, thread, pair, signalled>>

-----------------------------------------------------------------------------
(***************************************************************************)
(* jump_thread_func.                                                       *)
(***************************************************************************)

ThreadOnly == UNCHANGED <<proxy_disconnect, client, callbacks, signalled>>
Goes(t, op) == thread' = [thread EXCEPT ![t].op = op] /\ UNCHANGED pair

before_connection(t) ==
    /\ thread[t].op = "before" /\ \E op \in {"connects", "exits"} : Goes(t, op)
    /\ ThreadOnly

\* ssh_connect of the jump session, which is no root: the last hop connects, an earlier one starts the next.
jump_connect(t) ==
    /\ thread[t].op = "connects"
    /\ IF Last(t) THEN \E op \in {"verifies", "exits"} : Goes(t, op)
       ELSE \E created, key \in BOOLEAN :
           /\ pair' = [pair EXCEPT ![NextHop(t)] = [parent |-> created, thread |-> TRUE]]
           /\ thread' = [thread EXCEPT ![t].op = IF created THEN "waits" ELSE "exits", ![NextHop(t)].key = key,
                                       ![NextHop(t)].op = IF created THEN "before" ELSE "not_created"]
    /\ ThreadOnly

jump_connected(t) ==
    /\ thread[t].op = "waits"
    /\ \/ thread[NextHop(t)].op \in {"looks", "polls"} /\ Goes(t, "verifies")
       \/ Goes(t, "exits")
    /\ ThreadOnly

\* Variant: without a callback the next hop is taken as it comes.
AcceptsWithoutCallback(t) == thread[t].key \/ client[t[1]].policy = "insecure" \/ t[2] > 1

\* SSHCoreProxyJumpVerifyKnownHost, and verify_knownhost for a hop without callbacks.
KeyAccepted(t) == thread[t].key \/ (t[2] = 1 /\ client[t[1]].policy = "insecure")

verify_knownhost(t) ==
    /\ thread[t].op = "verifies" /\ Goes(t, IF KeyAccepted(t) THEN "authenticates" ELSE "exits")
    /\ ThreadOnly

authenticate(t) ==
    /\ thread[t].op = "authenticates" /\ UNCHANGED pair
    /\ \E success \in BOOLEAN :
          thread' = [thread EXCEPT ![t].op = IF success THEN "opens" ELSE "exits", ![t].authenticated = success]
    /\ ThreadOnly

ssh_channel_open_forward(t) ==
    /\ thread[t].op = "opens" /\ UNCHANGED pair
    /\ \E success \in BOOLEAN :
          thread' = [thread EXCEPT ![t].op = IF success THEN "looks" ELSE "exits", ![t].open = success]
    /\ ThreadOnly

\* Variant: looks at the flag only before the first wait.
LooksOnce(t) == proxy_disconnect = 1 /\ client[t[1]].state = "connecting"

SeesDisconnect(t) == proxy_disconnect = 1

\* The head of the loop.
looks(t) ==
    /\ thread[t].op = "looks" /\ UNCHANGED pair
    /\ thread' = [thread EXCEPT ![t].op = IF thread[t].open /\ ~SeesDisconnect(t) THEN "polls" ELSE "exits",
                                ![t].told = thread[t].open /\ SeesDisconnect(t)]
    /\ ThreadOnly

\* Events, a hang-up or 60 seconds; an error, or the next hop's thread has gone.
ssh_event_dopoll(t) ==
    /\ thread[t].op = "polls"
    /\ \/ (~Last(t) => pair[NextHop(t)].thread) /\ Goes(t, "looks")
       \/ Goes(t, "exits")
    /\ ThreadOnly

\* The jump host closes the channel, which ssh_event_dopoll finds.
HostCloses(t) ==
    /\ thread[t].op = "polls" /\ thread[t].open /\ UNCHANGED pair
    /\ thread' = [thread EXCEPT ![t].open = FALSE]
    /\ ThreadOnly

\* Variant: shuts its end down and leaves the closing to the session that reads from it.
ShutsDown(t) ==
    /\ thread[t].op = "exits"
    /\ thread' = [thread EXCEPT ![t].op = "gone", ![t].open = FALSE]
    /\ pair' = [u \in Threads |-> IF u = NextHop(t) THEN [pair[u] EXCEPT !.parent = FALSE] ELSE pair[u]]
    /\ ThreadOnly

\* exit: disconnects the jump session, which is no root, and closes the thread's end.
jump_thread_exit(t) ==
    /\ thread[t].op = "exits"
    /\ thread' = [thread EXCEPT ![t].op = "gone", ![t].open = FALSE]
    /\ pair' = [u \in Threads |-> IF u = t THEN [pair[u] EXCEPT !.thread = FALSE]
                                  ELSE IF u = NextHop(t) THEN [pair[u] EXCEPT !.parent = FALSE] ELSE pair[u]]
    /\ ThreadOnly

-----------------------------------------------------------------------------
ClientStep(c) == ssh_connect(c) \/ ConnectionMade(c) \/ Fails(c) \/ ssh_disconnect(c) \/ freeProxyJumpCallbacks(c)
ThreadStep(t) ==
    \/ before_connection(t) \/ jump_connect(t) \/ jump_connected(t) \/ verify_knownhost(t) \/ authenticate(t)
    \/ ssh_channel_open_forward(t) \/ looks(t) \/ ssh_event_dopoll(t) \/ jump_thread_exit(t)

JumpNext == (\E c \in Connections : ClientStep(c)) \/ (\E t \in Threads : ThreadStep(t) \/ HostCloses(t))
JumpSpec == JumpInit /\ [][JumpNext]_jumpVars

\* Every call of libssh in a thread ends, at the latest at its timeout, and so does a failed connect.
JumpFairness ==
    /\ \A t \in Threads : WF_jumpVars(ThreadStep(t))
    /\ \A c \in Connections : WF_jumpVars(client[c].state = "failed" /\ ssh_disconnect(c))
FairJumpSpec == JumpSpec /\ JumpFairness

-----------------------------------------------------------------------------
Live(t) == thread[t].op \notin {"none", "not_created", "gone"}

JumpTypeOK ==
    /\ proxy_disconnect \in {0, 1}
    /\ client \in [Connections -> [state : {"idle", "connecting", "connected", "failed", "disconnected"},
                                   policy : {"insecure", "strict"}]]
    /\ callbacks \in [Connections -> {"none", "allocated", "freed"}]
    /\ pair \in [Threads -> [parent : BOOLEAN, thread : BOOLEAN]]
    /\ signalled \in [Connections -> BOOLEAN]
    /\ thread \in [Threads -> [op : {"none", "not_created", "before", "connects", "waits", "verifies",
                                     "authenticates", "opens", "looks", "polls", "exits", "gone"},
                               key : BOOLEAN, authenticated : BOOLEAN, open : BOOLEAN, told : BOOLEAN]]

\* A connection that is made through jump hosts has had the key of every one of them accepted by the
\* policy for it, and has authenticated to every one of them.
ReachedThroughTrusted ==
    \A c \in Connections : client[c].state = "connected" =>
        \A t \in Threads : t[1] = c =>
            /\ thread[t].authenticated
            /\ thread[t].key \/ (t[2] = 1 /\ client[c].policy = "insecure")

\* A thread is ended only by a disconnect that came after its connection began: one that an earlier
\* connection left in the flag does not count.
OnlyLaterDisconnects == \A t \in Threads : thread[t].told => signalled[t[1]]

\* The end of the pair that a thread was given is open exactly as long as the thread lives, save
\* the one whose thread could not be created.
EndsHaveOwners == \A t \in Threads : pair[t].thread = (Live(t) \/ thread[t].op = "not_created")

\* No connection passes through a jump host that was not trusted, and threads end for a reason, each
\* with the end of its pair (jump_thread_func).
HopsAreSafe == JumpTypeOK /\ ReachedThroughTrusted /\ OnlyLaterDisconnects /\ EndsHaveOwners
=============================================================================
