---------------------------- MODULE RemoteForwards ----------------------------
(***************************************************************************)
(* Remote forwards of one session, one after the other: the global         *)
(* requests of libssh (Vendor/libssh/src/channels.c), the channel opens    *)
(* that it queues (messages.c), and the runtime of SSHKit that listens,    *)
(* accepts, bridges and cancels (SSHCoreLibSSHRemoteForwardRuntime.m).     *)
(* The server is one that keeps the protocol.                              *)
(***************************************************************************)
EXTENDS Integers, Sequences, FiniteSets

CONSTANTS
    Ports,           \* ports of the server
    Asks,            \* ports that callers ask for; 0 lets the server choose
    MaxForwards,     \* bound: forwards started
    MaxConnections   \* bound: connections to the server's ports

ForwardsAssumption ==
    /\ Ports \subseteq Nat \ {0} /\ Asks \subseteq Ports \cup {0}
    /\ {MaxForwards, MaxConnections} \subseteq Nat

NoForward == 0

VARIABLES
    remotePc,        \* what the worker does with the forward
    forward,         \* the current forward: its number stands for its target
    started,         \* forwards so far
    remoteClosed,    \* the runtime was asked to close
    globalReqState,  \* global_req_state
    abandoned,       \* has a global request timed out?
    inBuffer,        \* the port in the packet that was handled last, 0 if there is none
    messages,        \* ssh_message_list
    serving,         \* the connection that is bridged
    toServer, toClient,
    listener,        \* the server: whose listener a port is
    connections      \* where each connection went in, and which target it was bridged to

remoteClient == <<remotePc, forward, started, remoteClosed, globalReqState, abandoned, inBuffer, messages, serving>>
remoteVars == <<remoteClient, toServer, toClient, listener, connections>>

Forwards == 1..MaxForwards
Request(type, port) == [type |-> type, port |-> port, for |-> forward'.id]
Reply(type, port) == [type |-> type, port |-> port, connection |-> 0]
OpenPacket(c, port) == [type |-> "open", port |-> port, connection |-> c]
Requests == {i \in DOMAIN toServer : toServer[i].type \in {"listen", "cancel"}}
Replies == {i \in DOMAIN toClient : toClient[i].type \in {"success", "failure"}}

RemoteInit ==
    /\ remotePc = "idle" /\ forward = [id |-> NoForward, asked |-> 0, bound |-> 0]
    /\ started = 0 /\ remoteClosed = FALSE
    /\ globalReqState = "none" /\ abandoned = FALSE /\ inBuffer = 0 /\ messages = <<>> /\ serving = 0
    /\ toServer = <<>> /\ toClient = <<>>
    /\ listener = [p \in Ports |-> NoForward]
    /\ connections = <<>>

-----------------------------------------------------------------------------
(***************************************************************************)
(* ssh_global_request: the request is sent only if none is pending, and    *)
(* the call waits for an answer in both cases.                             *)
(***************************************************************************)

\* Variant: a request is sent even while another has no answer yet.
GlobalRequestAlways(type, port) ==
    /\ toServer' = Append(toServer, Request(type, port))
    /\ globalReqState' = "pending"

GlobalRequest(type, port) ==
    IF globalReqState = "none"
    THEN /\ toServer' = Append(toServer, Request(type, port))
         /\ globalReqState' = "pending"
    ELSE UNCHANGED <<toServer, globalReqState>>

\* Variant: the state is not reset when the answer is taken.
GlobalAnswerKeeps(answer) ==
    /\ globalReqState = answer
    /\ UNCHANGED <<globalReqState, abandoned>>

\* The answer is there: it is taken, and the next request may be sent.
GlobalAnswer(answer) ==
    /\ globalReqState = answer
    /\ globalReqState' = "none" /\ UNCHANGED abandoned

\* SSH_AGAIN: the request stays pending.
GlobalTimeout ==
    /\ globalReqState = "pending" /\ abandoned' = TRUE
    /\ UNCHANGED globalReqState

-----------------------------------------------------------------------------
(***************************************************************************)
(* startRemoteForwardFromHost.                                             *)
(***************************************************************************)

CallListen(port) ==
    /\ remotePc = "idle" /\ started < MaxForwards
    /\ started' = started + 1
    /\ forward' = [id |-> started + 1, asked |-> port, bound |-> 0]
    /\ remoteClosed' = FALSE
    /\ GlobalRequest("listen", port)
    /\ remotePc' = "listening"
    /\ UNCHANGED <<abandoned, inBuffer, messages, serving, toClient, listener, connections>>

\* Only a port that the server chose is read from the packet handled last; the caller's
\* variable keeps its 0 otherwise.
BoundPort(asked) == IF asked = 0 THEN inBuffer ELSE 0

ListenSucceeds ==
    /\ remotePc = "listening" /\ GlobalAnswer("accepted")
    /\ forward' = [forward EXCEPT !.bound = BoundPort(forward.asked)]
    /\ remotePc' = "accept"
    /\ UNCHANGED <<started, remoteClosed, inBuffer, messages, serving, toServer, toClient, listener, connections>>

ListenFails ==
    /\ remotePc = "listening" /\ (GlobalAnswer("denied") \/ GlobalTimeout)
    /\ forward' = [forward EXCEPT !.id = NoForward]
    /\ remotePc' = "idle"
    /\ UNCHANGED <<started, remoteClosed, inBuffer, messages, serving, toServer, toClient, listener, connections>>

-----------------------------------------------------------------------------
(***************************************************************************)
(* The runtime.                                                            *)
(***************************************************************************)

\* closeWithCompletion:, on any thread.
CallClose ==
    /\ remotePc \in {"accept", "bridge"} /\ ~remoteClosed
    /\ remoteClosed' = TRUE
    /\ UNCHANGED <<remotePc, forward, started, globalReqState, abandoned, inBuffer, messages, serving,
                   toServer, toClient, listener, connections>>

\* Variant: the message stays in the list.
AcceptForwardKeeps ==
    /\ remotePc = "accept" /\ messages # <<>>
    /\ serving' = Head(messages)
    /\ connections' = [connections EXCEPT ![serving'].target = forward.id,
                                          ![serving'].accepted = @ + 1]
    /\ toServer' = Append(toServer, [type |-> "confirmation", port |-> 0, for |-> serving'])
    /\ remotePc' = "bridge"
    /\ UNCHANGED <<messages, forward, started, remoteClosed, globalReqState, abandoned, inBuffer, toClient, listener>>

\* ssh_channel_accept_forward takes the oldest open, for whatever port it is; one that
\* began before the close may still return after it.
AcceptForward ==
    /\ remotePc = "accept" /\ messages # <<>>
    /\ serving' = Head(messages) /\ messages' = Tail(messages)
    /\ connections' = [connections EXCEPT ![serving'].target = forward.id,
                                          ![serving'].accepted = @ + 1]
    /\ toServer' = Append(toServer, [type |-> "confirmation", port |-> 0, for |-> serving'])
    /\ remotePc' = "bridge"
    /\ UNCHANGED <<forward, started, remoteClosed, globalReqState, abandoned, inBuffer, toClient, listener>>

\* The bridge ends, or the target could not be reached; the channel is closed.
BridgeEnds ==
    /\ remotePc = "bridge"
    /\ serving' = 0 /\ remotePc' = "accept"
    /\ toServer' = Append(toServer, [type |-> "close", port |-> 0, for |-> serving])
    /\ UNCHANGED <<forward, started, remoteClosed, globalReqState, abandoned, inBuffer, messages, toClient, listener,
                   connections>>

\* Variant: the port is given up as it was asked for.
InvalidateAsked ==
    /\ remotePc = "accept" /\ remoteClosed
    /\ UNCHANGED forward /\ GlobalRequest("cancel", forward.asked)
    /\ remotePc' = "cancelling"
    /\ UNCHANGED <<started, remoteClosed, abandoned, inBuffer, messages, serving, toClient, listener, connections>>

\* invalidateOnWorkerQueue: the bound port is given up.
Invalidate ==
    /\ remotePc = "accept" /\ remoteClosed
    /\ UNCHANGED forward /\ GlobalRequest("cancel", forward.bound)
    /\ remotePc' = "cancelling"
    /\ UNCHANGED <<started, remoteClosed, abandoned, inBuffer, messages, serving, toClient, listener, connections>>

\* Whatever the answer, the forward has ended.
Cancelled ==
    /\ remotePc = "cancelling"
    /\ GlobalAnswer("accepted") \/ GlobalAnswer("denied") \/ GlobalTimeout
    /\ remotePc' = "idle" /\ forward' = [forward EXCEPT !.id = NoForward]
    /\ UNCHANGED <<started, remoteClosed, inBuffer, messages, serving, toServer, toClient, listener, connections>>

-----------------------------------------------------------------------------
(***************************************************************************)
(* The packet handlers, which run in any call of the session; one poll may *)
(* handle several packets.                                                 *)
(***************************************************************************)

Handle(type) ==
    /\ toClient # <<>> /\ Head(toClient).type = type
    /\ toClient' = Tail(toClient)
    /\ inBuffer' = IF type = "success" THEN Head(toClient).port ELSE 0
    /\ UNCHANGED <<remotePc, forward, started, remoteClosed, abandoned, serving, toServer, listener, connections>>

RequestSuccess ==
    /\ Handle("success")
    /\ globalReqState' = IF globalReqState = "pending" THEN "accepted" ELSE globalReqState
    /\ UNCHANGED messages

RequestDenied ==
    /\ Handle("failure")
    /\ globalReqState' = IF globalReqState = "pending" THEN "denied" ELSE globalReqState
    /\ UNCHANGED messages

\* Variant: an open that finds another one waiting is dropped.
ChannelOpenKeepsOne ==
    /\ Handle("open")
    /\ messages' = IF messages = <<>> THEN <<Head(toClient).connection>> ELSE messages
    /\ UNCHANGED globalReqState

\* ssh_packet_channel_open: no callback is set, so the message is queued.
ChannelOpen ==
    /\ Handle("open")
    /\ messages' = Append(messages, Head(toClient).connection)
    /\ UNCHANGED globalReqState

-----------------------------------------------------------------------------
(***************************************************************************)
(* The server.                                                             *)
(***************************************************************************)

Free == {p \in Ports : listener[p] = NoForward}

ServerListens ==
    /\ toServer # <<>> /\ Head(toServer).type = "listen"
    /\ LET r == Head(toServer) IN
        \/ \E p \in IF r.port = 0 THEN Free ELSE {r.port} \cap Free :
            /\ listener' = [listener EXCEPT ![p] = r.for]
            /\ toClient' = Append(toClient, Reply("success", IF r.port = 0 THEN p ELSE 0))
        \/ /\ toClient' = Append(toClient, Reply("failure", 0))
           /\ UNCHANGED listener
    /\ toServer' = Tail(toServer)
    /\ UNCHANGED <<remoteClient, connections>>

ServerCancels ==
    /\ toServer # <<>> /\ Head(toServer).type = "cancel"
    /\ LET p == Head(toServer).port IN
        IF p \in Ports \ Free
        THEN /\ listener' = [listener EXCEPT ![p] = NoForward]
             /\ toClient' = Append(toClient, Reply("success", 0))
        ELSE /\ toClient' = Append(toClient, Reply("failure", 0))
             /\ UNCHANGED listener
    /\ toServer' = Tail(toServer)
    /\ UNCHANGED <<remoteClient, connections>>

ServerReceives ==
    /\ toServer # <<>> /\ Head(toServer).type \in {"confirmation", "close"}
    /\ toServer' = Tail(toServer)
    /\ UNCHANGED <<remoteClient, toClient, listener, connections>>

Connect(p) ==
    /\ listener[p] # NoForward /\ Len(connections) < MaxConnections
    /\ connections' = Append(connections, [for |-> listener[p], target |-> NoForward, accepted |-> 0])
    /\ toClient' = Append(toClient, OpenPacket(Len(connections'), p))
    /\ UNCHANGED <<remoteClient, toServer, listener>>

-----------------------------------------------------------------------------
Handles == RequestSuccess \/ RequestDenied \/ ChannelOpen
Worker == ListenSucceeds \/ ListenFails \/ BridgeEnds \/ Invalidate \/ Cancelled
Server == ServerListens \/ ServerCancels \/ ServerReceives

RemoteNext ==
    \/ \E port \in Asks : CallListen(port)
    \/ CallClose \/ AcceptForward \/ Worker \/ Handles \/ Server
    \/ \E p \in Ports : Connect(p)

RemoteSpec == RemoteInit /\ [][RemoteNext]_remoteVars

\* The accept loop polls, the server answers, bridges end; nobody has to connect or close.
RemoteFairness ==
    WF_remoteVars(AcceptForward) /\ WF_remoteVars(Worker) /\ WF_remoteVars(Handles) /\ WF_remoteVars(Server)
FairRemoteSpec == RemoteSpec /\ RemoteFairness

-----------------------------------------------------------------------------
(***************************************************************************)
(* Properties.                                                             *)
(***************************************************************************)

\* Every variable has its type.
RemoteTypeOK ==
    /\ remotePc \in {"idle", "listening", "accept", "bridge", "cancelling"}
    /\ forward \in [id : Forwards \cup {NoForward}, asked : Asks, bound : Ports \cup {0}]
        \/ started = 0
    /\ started \in 0..MaxForwards /\ {remoteClosed, abandoned} \subseteq BOOLEAN
    /\ globalReqState \in {"none", "pending", "accepted", "denied"}
    /\ inBuffer \in Ports \cup {0}
    /\ serving \in 0..Len(connections) /\ (remotePc = "bridge" <=> serving # 0)
    /\ \A i \in DOMAIN messages : messages[i] \in DOMAIN connections
    /\ listener \in [Ports -> Forwards \cup {NoForward}]
    /\ \A i \in DOMAIN toServer : toServer[i].type \in {"listen", "cancel", "confirmation", "close"}
    /\ \A i \in DOMAIN toClient : toClient[i].type \in {"success", "failure", "open"}

\* A global request is on its way, or its reply is, exactly while one is pending: replies
\* carry no number, so two at once could not be told apart (ssh_global_request).
OneRequest == Cardinality(Requests) + Cardinality(Replies) = IF globalReqState = "pending" THEN 1 ELSE 0

\* A connection is in one place: on its way, in the message list, or accepted, once.
AcceptedOnce ==
    \A c \in DOMAIN connections :
        connections[c].accepted
          + Cardinality({i \in DOMAIN messages : messages[i] = c})
          + Cardinality({i \in DOMAIN toClient : toClient[i].connection = c}) = 1

\* Where the server listens for the forward.
Waits == {p \in Ports : listener[p] = forward.id}

\* A forward that was started has a listener at the server until it is given up: the
\* success was the answer to its own request (doc of ssh_global_request).
ListenIsReal == remotePc \in {"accept", "bridge"} => Waits # {}

\* A forward that knew its port and was closed has no listener left at the server.
KnownPortStops ==
    remotePc = "cancelling" /\ globalReqState # "pending" /\ forward.bound # 0 => listener[forward.bound] # forward.id

\* The runtime, libssh and the server agree on the ports that are listened at and on who accepts a
\* connection; on the ports only until a request times out.
PortsAgree == RemoteTypeOK /\ OneRequest /\ AcceptedOnce /\ (~abandoned => ListenIsReal /\ KnownPortStops)

\* While a forward is open, who connects is served, whoever else does.
ConnectionsServed ==
    \A c \in 1..MaxConnections :
        c \in DOMAIN connections ~>
            /\ c \in DOMAIN connections
            /\ connections[c].accepted > 0 \/ remoteClosed \/ remotePc \in {"idle", "listening"}

=============================================================================
