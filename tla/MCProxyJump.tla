------------------------------ MODULE MCProxyJump ------------------------------
(***************************************************************************)
(* The instances of ProxyJump and of JumpRelay that TLC checks in one run: *)
(* the threads of one connection through two jump hosts (lone), those of   *)
(* two connections through one each (two), and the bytes that a thread     *)
(* passes on, with tight buffers and, with liveness, with room for all.    *)
(* A behaviour is one of a single part; the others stay as they began.     *)
(***************************************************************************)
EXTENDS ProxyJump

CONSTANTS c1, c2, c3

JumpHosts == [c \in Connections |-> IF c = c1 THEN 2 ELSE 1]

VARIABLES
    part,           \* which part takes steps
    channel, ends, connector_in, connector_out, armed, relay, root

Tight == INSTANCE JumpRelay WITH
    pair <- ends, thread <- relay, Chunk <- 2, Window <- 2, Room <- 2, Packet <- 2, MaxUp <- 4, MaxDown <- 3
Roomy == INSTANCE JumpRelay WITH
    pair <- ends, thread <- relay, Chunk <- 2, Window <- 5, Room <- 4, Packet <- 2, MaxUp <- 4, MaxDown <- 2

ASSUME ProxyJumpAssumption
ASSUME Tight!JumpRelayAssumption /\ Roomy!JumpRelayAssumption

relayVars == <<channel, ends, connector_in, connector_out, armed, relay, root>>
allVars == <<part, jumpVars, relayVars>>

PartsInit ==
    /\ part \in {"lone", "two", "tight", "roomy"} /\ JumpInit
    /\ IF part = "roomy" THEN Roomy!Init ELSE Tight!Init
    /\ part \in {"lone", "two"} => channel.received = 0
PartsNext ==
    \/ part = "lone" /\ JumpNext /\ client'[c2] = client[c2] /\ client'[c3] = client[c3] /\ UNCHANGED <<part, relayVars>>
    \/ part = "two" /\ JumpNext /\ client'[c1] = client[c1] /\ UNCHANGED <<part, relayVars>>
    \/ part = "tight" /\ Tight!Next /\ UNCHANGED <<part, jumpVars>>
    \/ part = "roomy" /\ Roomy!Next /\ UNCHANGED <<part, jumpVars>>
PartsSpec ==
    /\ PartsInit /\ [][PartsNext]_allVars
    /\ \A t \in Threads : WF_jumpVars(part = "lone" /\ ThreadStep(t))
    /\ WF_jumpVars(part = "lone" /\ client[c1].state = "failed" /\ ssh_disconnect(c1))
    /\ WF_relayVars(part = "roomy" /\ Roomy!Readable)
    /\ WF_relayVars(part = "roomy" /\ Roomy!Writable)
    /\ WF_relayVars(part = "roomy" /\ Roomy!ssh_connector_fd_write)
    /\ WF_relayVars(part = "roomy" /\ Roomy!ssh_packet_socket_controlflow_callback)
    /\ WF_relayVars(part = "roomy" /\ Roomy!channel_rcv_change_window)
    /\ WF_relayVars(part = "roomy" /\ Roomy!jump_thread_exit)
    /\ WF_relayVars(part = "roomy" /\ Roomy!RootPushes)
    /\ SF_relayVars(part = "roomy" /\ Roomy!RootReads)

\* When the session of the only connection has disconnected, all its threads end (proxy_disconnect).
LoneThreadsEnd ==
    \A t \in Threads : (part = "lone" /\ client[t[1]].state = "disconnected") ~> (part = "lone" => ~Live(t))

\* Every variable of the relay has its type (connector.c).
RelayTypeOK == IF part = "roomy" THEN Roomy!TypeOK ELSE Tight!TypeOK

\* The jump host gets what the target's session wrote, in order (ssh_connector_fd_in_cb).
UpInOrder == Tight!UpInOrder

\* The target's session gets what the jump host sent, once and in order (ssh_connector_channel_data_cb).
DownInOrder == Tight!DownInOrder

\* While the thread polls, nothing waits unseen (ssh_connector_reset_pollevents).
NothingForgotten == Tight!NothingForgotten

\* The connectors never close the descriptor that the thread closes (jump_thread_func).
DescriptorIsTheThreads == Tight!DescriptorIsTheThreads

\* With room for all, the channel is told of the end only after the target's session has closed its end
\* and all of it was passed on (ssh_connector_fd_in_cb).
EofIsReal == part = "roomy" => Roomy!EofIsReal

\* Every byte the target's session writes reaches the jump host, unless the channel ends (ssh_connector_fd_in_cb).
UpEnds == part = "roomy" => Roomy!UpEnds

\* Every byte of the jump host reaches the target's session, unless that has closed (ssh_connector_fd_out_cb).
DownEnds == part = "roomy" => Roomy!DownEnds

\* The relay passes every byte on once and in order, tells only of a real end, and closes no descriptor
\* but its own (connector.c).
RelayIsExact ==
    /\ [](RelayTypeOK /\ UpInOrder /\ DownInOrder /\ NothingForgotten /\ DescriptorIsTheThreads /\ EofIsReal)
    /\ UpEnds /\ DownEnds

================================================================================
