------------------------------- MODULE Transport -------------------------------
(***************************************************************************)
(* The transport of libssh as a client: banner, key exchange, service, and *)
(* the key re-exchanges that either end starts while data flows            *)
(* (Vendor/libssh/src/client.c, kex.c, packet.c, packet_cb.c, dh-gex.c,    *)
(* hybrid_mlkem.c).  Keys are the pair of KEXINIT cookies they come from;  *)
(* a packet carries the key and the sequence number of its MAC.            *)
(* The server is any server that follows RFC 4253.                         *)
(***************************************************************************)
EXTENDS Integers, SequencesExt

CONSTANTS
    Strict,         \* the server offers strict key exchange
    KexTypes,       \* the key exchanges it may come to: "hybrid", "gex", "none"
    Limit,          \* max_blocks: packets of a key before a rekey is due
    MaxOut, MaxIn,  \* bounds: data packets each way
    MaxServerKex,   \* bound: exchanges the server starts
    MaxNoise        \* bound: other packets of the server

TransportAssumption ==
    /\ Strict \in BOOLEAN /\ KexTypes \subseteq {"hybrid", "gex", "none"} /\ KexTypes # {}
    /\ Limit \in Nat \ {0} /\ {MaxOut, MaxIn, MaxServerKex, MaxNoise} \subseteq Nat

VARIABLES
    session,        \* the ssh_session
    submitted,      \* data packets given to ssh_packet_send
    received,       \* data packets handed to the channels
    asked,          \* the user has asked to authenticate
    toClient,       \* bytes on their way from the server
    server

vars == <<session, submitted, received, asked, toClient, server>>

NoCrypto == [client_kex |-> 0, server_kex |-> 0, kex_type |-> "unset", used |-> {}, out |-> 0, in |-> 0]
Plain == <<0, 0>>
KeyOf(crypto) == <<crypto.client_kex, crypto.server_kex>>
Packet(type, n, kex, key, seq) == [type |-> type, n |-> n, kex |-> kex, key |-> key, seq |-> seq]

TransportTypes == {"DISCONNECT", "IGNORE", "UNIMPLEMENTED", "KEXINIT", "NEWKEYS", "KEX_INIT", "KEX_REPLY",
                   "GEX_REQUEST", "GEX_GROUP", "GEX_INIT", "GEX_REPLY"}
KexMethodTypes == {"KEX_INIT", "KEX_REPLY", "GEX_REQUEST", "GEX_GROUP", "GEX_INIT", "GEX_REPLY"}

Init ==
    /\ session = [state |-> "socket_connected", dh |-> "init", flags |-> {}, cookies |-> 0,
                  current |-> NoCrypto, next |-> NoCrypto, out_queue |-> <<>>,
                  send_seq |-> 0, recv_seq |-> 0,
                  wire |-> <<Packet("BANNER", 0, "none", Plain, 0)>>]
    /\ submitted = 0 /\ received = 0 /\ asked = FALSE /\ toClient = <<>>
    /\ server = [banner |-> FALSE, sent |-> FALSE, got |-> FALSE, keyed |-> FALSE, in |-> Plain, out |-> Plain,
                 cookies |-> 0, client_kex |-> 0, kex_type |-> "unset", kexes |-> 0, noise |-> 0,
                 send_seq |-> 0, recv_seq |-> 0, auth |-> FALSE, data |-> 0, delivered |-> 0,
                 ok |-> TRUE, quit |-> FALSE]

-----------------------------------------------------------------------------
(***************************************************************************)
(* The crypto contexts.                                                    *)
(***************************************************************************)

\* ssh_packet_get_current_crypto: the context that a direction uses, of an exchange
\* half done the next one.
CryptoSlot(s, dir) ==
    IF dir \in s.current.used THEN "current" ELSE IF dir \in s.next.used THEN "next" ELSE "none"
CryptoOf(s, dir) == IF CryptoSlot(s, dir) = "none" THEN NoCrypto ELSE s[CryptoSlot(s, dir)]
Count(s, dir) == IF CryptoSlot(s, dir) = "none" THEN s ELSE [s EXCEPT ![CryptoSlot(s, dir)][dir] = @ + 1]

\* Variants: the next exchange starts from the context of this one; no switch is made.
KeepsNext(s, dir) ==
    LET moved == [s EXCEPT !.next.used = @ \union {dir}, !.current.used = @ \ {dir}]
    IN  IF moved.next.used = {"in", "out"}
        THEN [moved EXCEPT !.current = moved.next, !.next = [NoCrypto EXCEPT !.client_kex = moved.next.client_kex]]
        ELSE [moved EXCEPT !.next.out = 0, !.next.in = 0]

NeverSwitches(s, dir) ==
    LET moved == [s EXCEPT !.next.used = @ \union {dir}, !.current.used = @ \ {dir}]
    IN  [moved EXCEPT !.next.out = 0, !.next.in = 0]

ssh_packet_set_newkeys(s, dir) ==
    LET moved == [s EXCEPT !.next.used = @ \union {dir}, !.current.used = @ \ {dir}]
    IN  IF moved.next.used = {"in", "out"}
        THEN [moved EXCEPT !.current = moved.next, !.next = NoCrypto]
        ELSE [moved EXCEPT !.next.out = 0, !.next.in = 0]

\* The blocks of the next packet are added to those of either direction.
ssh_packet_need_rekey(s, blocks) ==
    /\ "authenticated" \in s.flags /\ s.dh = "finished"
    /\ s.current.out > 0 \/ s.current.in > 0
    /\ s.current.out + blocks > Limit \/ s.current.in + blocks > Limit

\* Variant: only a full key holds a packet back, an exchange that runs does not.
NeverHeldBack(s) == FALSE

ssh_packet_in_rekey(s) == "authenticated" \in s.flags /\ s.dh \notin {"finished", "newkeys_sent"}

-----------------------------------------------------------------------------
(***************************************************************************)
(* Sending.                                                                *)
(***************************************************************************)

packet_send2(s, p) ==
    LET sent == [Count(s, "out") EXCEPT
                    !.wire = Append(@, Packet(p.type, p.n, "none", KeyOf(CryptoOf(s, "out")), s.send_seq)),
                    !.send_seq = @ + 1]
    IN  IF p.type = "NEWKEYS" THEN ssh_packet_set_newkeys(sent, "out") ELSE sent

ssh_set_client_kex(s) ==
    IF s.next.client_kex # 0 THEN s
    ELSE [s EXCEPT !.next.client_kex = s.cookies + 1, !.cookies = @ + 1]

\* A KEXINIT is never held back: its ssh_packet_send comes to packet_send2.
ssh_send_kex(s) ==
    [packet_send2(s, [type |-> "KEXINIT", n |-> s.next.client_kex]) EXCEPT !.flags = @ \union {"kexinit_sent"}]

ssh_send_rekex(s) == [ssh_send_kex([ssh_set_client_kex(s) EXCEPT !.dh = "init"]) EXCEPT !.dh = "init_sent"]

\* Variant: the last packet queued goes first.
DrainBackwards(s) == FoldLeft(packet_send2, [s EXCEPT !.out_queue = <<>>], Reverse(s.out_queue))

\* The queue after our NEWKEYS.  The check of each packet against the limit has one answer for all
\* of them, since it asks for an exchange that is over.
DrainQueue(s) ==
    IF s.out_queue # <<>> /\ ssh_packet_need_rekey(s, 1) THEN ssh_send_rekex(s)
    ELSE FoldLeft(packet_send2, [s EXCEPT !.out_queue = <<>>], s.out_queue)

ssh_packet_send(s, p) ==
    LET held == [s EXCEPT !.out_queue = Append(@, p)]
        sent == packet_send2(s, p)
        reset == IF "kex_strict" \in s.flags THEN [sent EXCEPT !.send_seq = 0] ELSE sent
    IN  IF ssh_packet_need_rekey(s, 1) THEN ssh_send_rekex(held)
        ELSE IF ssh_packet_in_rekey(s) /\ p.type \notin TransportTypes \ {"IGNORE"} THEN held
        ELSE IF p.type = "NEWKEYS" THEN DrainQueue(reset)
        ELSE sent

SendPacket(s, type, n) == ssh_packet_send(s, [type |-> type, n |-> n])

-----------------------------------------------------------------------------
(***************************************************************************)
(* The steps of a key exchange.                                            *)
(***************************************************************************)

ssh_client_hybrid_mlkem_init(s) == SendPacket([s EXCEPT !.dh = "init_sent"], "KEX_INIT", 0)
ssh_client_dhgex_init(s) == SendPacket([s EXCEPT !.dh = "request_sent"], "GEX_REQUEST", 0)

\* ssh_kex_select_methods finds no common method ("none"), or what the first message is.
dh_handshake(s) ==
    CASE s.next.kex_type = "none" -> [s EXCEPT !.state = "error"]
      [] s.next.kex_type = "gex" -> ssh_client_dhgex_init(s)
      [] s.next.kex_type = "hybrid" -> ssh_client_hybrid_mlkem_init(s)

\* ssh_client_connection_callback, after the banner, a KEXINIT and NEWKEYS.
AfterBanner(s) == ssh_send_kex(ssh_set_client_kex([s EXCEPT !.state = "initial_kex"]))
AfterKexinit(s) ==
    LET answered == IF "kexinit_sent" \in s.flags THEN s ELSE ssh_send_kex(ssh_set_client_kex(s))
    IN  dh_handshake([answered EXCEPT !.state = "dh"])
AfterNewkeys(s) ==
    [s EXCEPT !.state = IF "authenticated" \in s.flags THEN "authenticated" ELSE "authenticating"]

\* Variant: a KEXINIT that starts an exchange is not answered.
ForgetsToAnswer(s, p) ==
    LET strict == IF Strict THEN {"kex_strict"} ELSE {}
    IN  AfterKexinit([ssh_set_client_kex(s) EXCEPT
                !.next.server_kex = p.n, !.next.kex_type = p.kex,
                !.flags = @ \union strict, !.state = "kexinit_received", !.dh = "init"])

ssh_packet_kexinit(s, p) ==
    LET answers == s.state = "initial_kex" \/ ("kexinit_sent" \in s.flags /\ s.dh = "init_sent")
        starts == s.state = "authenticated" /\ s.dh = "finished"
        strict == IF Strict THEN {"kex_strict"} ELSE {}
        old == IF starts THEN {"kexinit_sent"} ELSE {}
    IN  IF ~ (answers \/ starts) THEN [s EXCEPT !.state = "error"]
        ELSE AfterKexinit([ssh_set_client_kex(s) EXCEPT
                !.next.server_kex = p.n, !.next.kex_type = p.kex,
                !.flags = (@ \ old) \union strict, !.state = "kexinit_received", !.dh = "init"])

ssh_packet_client_dhgex_group(s) == SendPacket([s EXCEPT !.dh = "init_sent"], "GEX_INIT", 0)

\* Both replies: the shared secret, NEWKEYS, and the queue behind it.
ssh_packet_client_hybrid_mlkem_reply(s) == [SendPacket(s, "NEWKEYS", 0) EXCEPT !.dh = "newkeys_sent"]
ssh_packet_client_dhgex_reply(s) == [SendPacket(s, "NEWKEYS", 0) EXCEPT !.dh = "newkeys_sent"]

\* Variant: the connection is not told that the exchange is over.
KeepsStateDH(s) == [ssh_packet_set_newkeys(s, "in") EXCEPT !.dh = "finished"]

ssh_packet_newkeys(s) ==
    LET reset == IF "kex_strict" \in s.flags THEN [s EXCEPT !.recv_seq = 0] ELSE s
    IN  IF {"kex_strict", "kex_tainted"} \subseteq s.flags THEN [reset EXCEPT !.state = "error"]
        ELSE AfterNewkeys([ssh_packet_set_newkeys(reset, "in") EXCEPT !.dh = "finished"])

ssh_packet_userauth_success(s) == [s EXCEPT !.state = "authenticated", !.flags = @ \union {"authenticated"}]

\* ssh_session_socket_close.
ssh_packet_disconnect_callback(s) == [s EXCEPT !.state = "error"]

\* A global request of the server has no handler in a client.
Unimplemented(s) == SendPacket(s, "UNIMPLEMENTED", 0)

-----------------------------------------------------------------------------
(***************************************************************************)
(* Receiving: ssh_packet_socket_callback.                                  *)
(***************************************************************************)

ssh_packet_incoming_filter(s, type) ==
    CASE type \in {"DISCONNECT", "IGNORE", "UNIMPLEMENTED"} -> TRUE
      [] type = "KEXINIT" -> /\ s.state \in {"authenticated", "initial_kex"}
                             /\ s.dh \in {"init", "init_sent", "request_sent", "finished"}
      [] type = "NEWKEYS" -> s.state = "dh" /\ s.dh = "newkeys_sent"
      [] type \in {"KEX_REPLY", "GEX_GROUP"} -> s.state = "dh" /\ s.dh \in {"init_sent", "request_sent"}
      [] type = "GEX_REPLY" -> s.state = "dh" /\ s.dh = "init_sent"
      [] type = "EXT_INFO" -> s.state \in {"authenticating", "authenticated"} /\ s.dh = "finished"
      [] type = "SUCCESS" -> s.state = "authenticating" /\ s.dh = "finished"
      [] OTHER -> s.state = "authenticated"

ssh_packet_process(s, p) ==
    CASE p.type = "KEXINIT" -> ssh_packet_kexinit(s, p)
      [] p.type = "KEX_REPLY" -> ssh_packet_client_hybrid_mlkem_reply(s)
      [] p.type = "GEX_GROUP" -> ssh_packet_client_dhgex_group(s)
      [] p.type = "GEX_REPLY" -> ssh_packet_client_dhgex_reply(s)
      [] p.type = "NEWKEYS" -> ssh_packet_newkeys(s)
      [] p.type = "SUCCESS" -> ssh_packet_userauth_success(s)
      [] p.type = "DISCONNECT" -> ssh_packet_disconnect_callback(s)
      [] p.type = "GLOBAL_REQUEST" -> Unimplemented(s)
      [] OTHER -> s

Decrypted(s, p) ==
    LET read == [Count(s, "in") EXCEPT !.recv_seq = @ + 1]
    IN  IF CryptoSlot(s, "in") = "none" /\ p.type \notin {"KEXINIT", "NEWKEYS"} \union KexMethodTypes
        THEN [read EXCEPT !.flags = @ \union {"kex_tainted"}]
        ELSE read

\* The MAC is over the sequence number, under the key of the direction.
Verifies(s, p) == p.key = KeyOf(CryptoOf(s, "in")) /\ (p.key # Plain => p.seq = s.recv_seq)

\* answer: the data that the handler of the packet sends at once, 0 if it sends none.
ssh_packet_socket_callback(s, p, answer) ==
    IF ~ Verifies(s, p) \/ ~ ssh_packet_incoming_filter(s, p.type) THEN [s EXCEPT !.state = "error"]
    ELSE LET processed == ssh_packet_process(Decrypted(s, p), p)
             done == IF answer = 0 THEN processed ELSE SendPacket(processed, "DATA", answer)
         IN  IF ssh_packet_need_rekey(done, 0) THEN ssh_send_rekex(done) ELSE done

ReceiveBanner ==
    /\ toClient # <<>> /\ session.state = "socket_connected"
    /\ toClient' = Tail(toClient)
    /\ session' = IF Head(toClient).type = "LINE" THEN session ELSE AfterBanner(session)
    /\ UNCHANGED <<submitted, received, asked, server>>

Receivable == toClient # <<>> /\ session.state \notin {"socket_connected", "error"}

Receive ==
    /\ Receivable /\ Head(toClient).type # "DATA"
    /\ toClient' = Tail(toClient)
    /\ session' = ssh_packet_socket_callback(session, Head(toClient), 0)
    /\ UNCHANGED <<submitted, received, asked, server>>

\* The channel that takes the data may answer it at once, with a window adjust or a close.
ReceiveData ==
    /\ Receivable /\ Head(toClient).type = "DATA"
    /\ toClient' = Tail(toClient)
    /\ \E answer \in {0} \union (IF submitted < MaxOut THEN {submitted + 1} ELSE {}) :
        /\ session' = ssh_packet_socket_callback(session, Head(toClient), answer)
        /\ submitted' = IF answer = 0 THEN submitted ELSE answer
    /\ received' = IF session'.state = "error" THEN received ELSE Head(toClient).n
    /\ UNCHANGED <<asked, server>>

-----------------------------------------------------------------------------
(***************************************************************************)
(* What the client sends of itself.                                        *)
(***************************************************************************)

Authenticate ==
    /\ session.state = "authenticating" /\ ~ asked
    /\ asked' = TRUE
    /\ session' = SendPacket(session, "AUTH", 0)
    /\ UNCHANGED <<submitted, received, toClient, server>>

Submit ==
    /\ "authenticated" \in session.flags /\ session.state # "error"
    /\ submitted < MaxOut
    /\ submitted' = submitted + 1
    /\ session' = SendPacket(session, "DATA", submitted')
    /\ UNCHANGED <<received, asked, toClient, server>>

-----------------------------------------------------------------------------
(***************************************************************************)
(* The server.  w is the server with the packets it has sent.              *)
(***************************************************************************)

World == [srv |-> server, net |-> toClient]
SetWorld(w) == server' = w.srv /\ toClient' = w.net

ServerSends(w, type, n, kex) ==
    [srv |-> [w.srv EXCEPT !.send_seq = @ + 1],
     net |-> Append(w.net, Packet(type, n, kex, w.srv.out, w.srv.send_seq))]

ServerKexinit(w, k) ==
    ServerSends([w EXCEPT !.srv.sent = TRUE, !.srv.cookies = @ + 1, !.srv.kex_type = k],
                "KEXINIT", w.srv.cookies + 1, k)

\* The reply, NEWKEYS, and at the first exchange the extensions.
ServerKeys(w, reply) ==
    LET first == w.srv.out = Plain
        told == ServerSends(ServerSends(w, reply, 0, "none"), "NEWKEYS", 0, "none")
        keyed == [told EXCEPT !.srv.keyed = TRUE, !.srv.out = <<w.srv.client_kex, w.srv.cookies>>,
                              !.srv.send_seq = IF Strict THEN 0 ELSE @]
    IN  IF first THEN ServerSends(keyed, "EXT_INFO", 0, "none") ELSE keyed

Refused(w) == [w EXCEPT !.srv.ok = FALSE]

ServerHandles(w, p) ==
    CASE p.type = "BANNER" -> w
      [] p.type = "UNIMPLEMENTED" -> w
      [] p.type = "KEXINIT" /\ ~ w.srv.got ->
            [w EXCEPT !.srv.got = TRUE, !.srv.client_kex = p.n]
      [] p.type = "KEX_INIT" /\ w.srv.got /\ w.srv.sent /\ ~ w.srv.keyed /\ w.srv.kex_type = "hybrid" ->
            ServerKeys(w, "KEX_REPLY")
      [] p.type = "GEX_REQUEST" /\ w.srv.got /\ w.srv.sent /\ ~ w.srv.keyed /\ w.srv.kex_type = "gex" ->
            ServerSends(w, "GEX_GROUP", 0, "none")
      [] p.type = "GEX_INIT" /\ w.srv.got /\ w.srv.sent /\ ~ w.srv.keyed /\ w.srv.kex_type = "gex" ->
            ServerKeys(w, "GEX_REPLY")
      [] p.type = "NEWKEYS" /\ w.srv.keyed ->
            [w EXCEPT !.srv.sent = FALSE, !.srv.got = FALSE, !.srv.keyed = FALSE, !.srv.in = w.srv.out,
                      !.srv.recv_seq = IF Strict THEN 0 ELSE @]
      [] p.type = "AUTH" /\ ~ w.srv.got ->
            ServerSends([w EXCEPT !.srv.auth = TRUE], "SUCCESS", 0, "none")
      [] p.type = "DATA" /\ ~ w.srv.got /\ p.n = w.srv.delivered + 1 ->
            [w EXCEPT !.srv.delivered = p.n]
      [] OTHER -> Refused(w)

ServerReceive ==
    /\ session.wire # <<>> /\ server.ok /\ server.banner /\ ~ server.quit
    /\ LET p == Head(session.wire)
           counted == IF p.type = "BANNER" THEN World ELSE [World EXCEPT !.srv.recv_seq = @ + 1]
       IN  IF p.key = server.in /\ (p.key # Plain => p.seq = server.recv_seq)
           THEN \/ /\ ~ (p.type = "KEXINIT" /\ ~ server.sent)
                   /\ SetWorld(ServerHandles(counted, p))
                \/ /\ p.type = "KEXINIT" /\ ~ server.sent
                   /\ \E k \in KexTypes : SetWorld(ServerKexinit(ServerHandles(counted, p), k))
           ELSE SetWorld(Refused(World))
    /\ session' = [session EXCEPT !.wire = Tail(@)]
    /\ UNCHANGED <<submitted, received, asked>>

ServerUp == server.ok /\ server.banner /\ ~ server.quit
ServerFree == ServerUp /\ (server.sent => server.keyed)

\* A server may send lines of text before its banner.
ServerBanner ==
    /\ ~ server.banner
    /\ \/ /\ toClient = <<>> /\ toClient' = <<Packet("LINE", 0, "none", Plain, 0)>> /\ UNCHANGED server
       \/ /\ toClient' = Append(toClient, Packet("BANNER", 0, "none", Plain, 0))
          /\ server' = [server EXCEPT !.banner = TRUE]
    /\ UNCHANGED <<session, submitted, received, asked>>

ServerStartsKex ==
    /\ ServerUp /\ ~ server.sent
    /\ server.out = Plain \/ (server.auth /\ ~ server.got /\ server.kexes < MaxServerKex)
    /\ \E k \in KexTypes :
        SetWorld(ServerKexinit([World EXCEPT !.srv.kexes = IF server.auth THEN @ + 1 ELSE @], k))
    /\ UNCHANGED <<session, submitted, received, asked>>

ServerData ==
    /\ ServerFree /\ server.auth /\ server.data < MaxIn
    /\ SetWorld(ServerSends([World EXCEPT !.srv.data = @ + 1], "DATA", server.data + 1, "none"))
    /\ UNCHANGED <<session, submitted, received, asked>>

\* An ignored packet at any time but in a strict first exchange, a keep-alive request, a disconnect.
ServerNoise ==
    /\ ServerUp /\ server.noise < MaxNoise
    /\ LET w == [World EXCEPT !.srv.noise = @ + 1]
       IN  \/ /\ ~ (Strict /\ server.out = Plain)
             /\ SetWorld(ServerSends(w, "IGNORE", 0, "none"))
          \/ /\ ServerFree /\ server.auth
             /\ SetWorld(ServerSends(w, "GLOBAL_REQUEST", 0, "none"))
          \/ SetWorld(ServerSends([w EXCEPT !.srv.quit = TRUE], "DISCONNECT", 0, "none"))
    /\ UNCHANGED <<session, submitted, received, asked>>

Next ==
    \/ ReceiveBanner \/ Receive \/ ReceiveData
    \/ Authenticate \/ Submit
    \/ ServerBanner \/ ServerReceive \/ ServerStartsKex \/ ServerData \/ ServerNoise

Spec == Init /\ [][Next]_vars

(***************************************************************************)
(* A call of the client polls, and the server answers; SSHKit authenticates *)
(* as soon as it is connected.                                             *)
(***************************************************************************)
FairSpec ==
    /\ Spec /\ WF_vars(ReceiveBanner \/ Receive \/ ReceiveData) /\ WF_vars(ServerReceive)
    /\ WF_vars(ServerBanner /\ server'.banner) /\ WF_vars(Authenticate)

-----------------------------------------------------------------------------
(***************************************************************************)
(* Properties.                                                             *)
(***************************************************************************)

SessionStates == {"socket_connected", "initial_kex", "dh", "authenticating", "authenticated", "error"}

\* The values of the state; of the contexts, never both directions on the next one.
TypeOK ==
    /\ session.state \in SessionStates
    /\ session.dh \in {"init", "init_sent", "request_sent", "newkeys_sent", "finished"}
    /\ session.flags \subseteq {"kexinit_sent", "authenticated", "kex_strict", "kex_tainted"}
    /\ session.next.used \in {{}, {"out"}}
    /\ session.current.used \in {{}, {"in"}, {"in", "out"}}
    /\ session.cookies \in Nat /\ session.send_seq \in Nat /\ session.recv_seq \in Nat
    /\ submitted \in 0..MaxOut /\ received \in 0..MaxIn /\ asked \in BOOLEAN

\* Whoever starts an exchange, both at once included, the two ends agree on the key and the sequence
\* number of every packet, and neither gets one that the state of its exchange does not allow: the
\* session fails only if the server leaves or no method is common.
Understood ==
    /\ server.ok
    /\ session.state = "error" => server.quit \/ session.next.kex_type = "none"

Payload(packets) == SelectSeq(packets, LAMBDA p : p.type = "DATA")
Numbered(packets, first, last) ==
    /\ Len(Payload(packets)) = last - first + 1
    /\ \A i \in 1..Len(Payload(packets)) : Payload(packets)[i].n = first + i - 1

\* No packet is lost, doubled or overtaken by another across the exchanges: what was submitted and
\* not delivered is on the wire and then in the queue, in order; and so is what the server sent.
NothingLost ==
    /\ Numbered(session.wire \o session.out_queue, server.delivered + 1, submitted)
    /\ Numbered(toClient, received + 1, server.data)

\* Every exchange makes a key of two fresh cookies (ssh_set_client_kex skips a context that has one).
KeysAreFresh ==
    [][KeyOf(session'.current) # KeyOf(session.current) =>
            /\ session'.current.client_kex > session.current.client_kex
            /\ session'.current.server_kex > session.current.server_kex]_vars

Ended == server.quit \/ session.next.kex_type = "none"

\* ssh_connect ends, and the user is authenticated.
Connects == <>("authenticated" \in session.flags \/ Ended)

\* A packet that waits for an exchange is sent in the end.
QueueIsSent == \A i \in 1..MaxOut : submitted >= i ~> (server.delivered >= i \/ Ended)

=============================================================================
