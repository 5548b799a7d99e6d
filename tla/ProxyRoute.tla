------------------------------ MODULE ProxyRoute ------------------------------
(***************************************************************************)
(* A connection through a proxy: the client's exchange with a SOCKS5 or an *)
(* HTTP CONNECT proxy (SSHCoreOpenSSHClient+Sockets.m), and the SOCKS5     *)
(* server of SSHKit's own dynamic forwards (SSHCoreLibSSHLocalForward-     *)
(* Runtime+SOCKS.m), with which it is composed.  Each may also face        *)
(* another program, whose words are parameters.                            *)
(*                                                                         *)
(* The two directions are sequences of bytes.  A blocking read of n bytes  *)
(* takes n bytes off them, and fails at an end before that.                *)
(***************************************************************************)
EXTENDS Integers, Sequences, FiniteSets, SequencesExt

CONSTANTS
    Hosts,        \* what may be configured as the host of the connection
    Users,        \* and as the user of the proxy, whose password is the same word; <<>> for none
    Accounts,     \* credentials the dynamic forward asks for: sets of at most one word
    Peers,        \* who is met: "forward", "proxy", "http" (by the client), "client" (by the forward)
    ProxyWords,   \* what another proxy may answer: records of selection, auth, reply
    HTTPWords,    \* the same of an HTTP proxy: sequences of bytes
    ClientWords,  \* what another client may say: records of the bytes, and what it means by them
    MaxHeader     \* 16 * 1024, the limit of an HTTP response

Bytes == 0..255
RouteAssumption ==
    /\ Hosts \cup Users \subseteq Seq(Bytes) /\ HTTPWords \subseteq Seq(Bytes)
    /\ Peers \subseteq {"forward", "proxy", "http", "client"} /\ MaxHeader \in Nat

VARIABLES
    peer,              \* who meets whom
    host, user,        \* the client's configuration
    account,           \* the forward's
    words,             \* what the other program says
    client, server,    \* how far each side is
    up, down,          \* bytes on their way to the proxy, and back
    upEnded, downEnded,   \* the writer of a direction has closed its socket
    cancelled,         \* the client's task
    target,            \* what the forward has been asked to connect to
    opened,            \* the forward has its channel
    header             \* bytes of the HTTP response read so far

config == <<peer, host, user, account, words>>
vars == <<config, client, server, up, down, upEnded, downEnded, cancelled, target, opened, header>>

Nothing == [host |-> <<>>, port |-> <<>>]
Port == <<0, 22>>            \* two bytes, as they are sent
TargetSays == <<83, 83>>     \* what the far end says first
ClientSays == <<67, 67>>     \* and the near one

OwnServer == peer \in {"forward", "client"}
OwnClient == peer # "client"
NoWords == [selection |-> <<>>, auth |-> <<>>, reply |-> <<>>]

Init ==
    /\ peer \in Peers
    /\ IF OwnClient THEN host \in Hosts /\ user \in Users ELSE host = <<>> /\ user = <<>>
    /\ IF OwnServer THEN account \in Accounts ELSE account = {}
    /\ words \in CASE peer = "forward" -> {NoWords} [] peer = "proxy" -> ProxyWords
                   [] peer = "http" -> HTTPWords [] peer = "client" -> ClientWords
    /\ client = IF OwnClient THEN "start" ELSE "gone"
    /\ server = IF OwnServer THEN "hello" ELSE "selection"
    /\ \/ OwnClient /\ up = <<>> /\ upEnded = FALSE
       \/ ~OwnClient /\ \E k \in 0..Len(words.bytes) : up = SubSeq(words.bytes, 1, k) /\ upEnded = (k < Len(words.bytes))
    /\ down = <<>> /\ downEnded = FALSE /\ cancelled = FALSE
    /\ target = Nothing /\ opened = FALSE /\ header = <<>>

-----------------------------------------------------------------------------
\* Can a read of n bytes be completed?  What does it leave?
Readable(stream, n) == Len(stream) >= n
From(stream, n) == SubSeq(stream, n + 1, Len(stream))

(***************************************************************************)
(* The client, on the worker queue.                                        *)
(***************************************************************************)

WantsPassword == user # <<>>
ByteOf(n) == n % 256    \* (uint8_t)

ClientAt(place) == client = place /\ ~cancelled
ClientKeeps == UNCHANGED <<config, server, downEnded, cancelled, target, opened>>

\* writeBytes:toProxySocket:; a socket that the other side has closed may still take bytes.
Writes(bytes, place) ==
    /\ up' = up \o bytes /\ client' = place
    /\ ClientKeeps /\ UNCHANGED <<down, upEnded, header>>

\* The route fails: its socket is closed.
ClientFails ==
    /\ client' = "failed" /\ upEnded' = TRUE
    /\ ClientKeeps /\ UNCHANGED <<up, down, header>>

\* readBytes:fromProxySocket:, n bytes, and on.
Reads(n, place) ==
    /\ down' = From(down, n) /\ client' = place
    /\ ClientKeeps /\ UNCHANGED <<up, upEnded, header>>

\* Variant: the greeting of a client with credentials gives the length of one method.
GreetingOneMethod == IF WantsPassword THEN <<5, 1, 0, 2>> ELSE <<5, 1, 0>>

Greeting == IF WantsPassword THEN <<5, 2, 0, 2>> ELSE <<5, 1, 0>>
Greet == ClientAt("start") /\ peer # "http" /\ Writes(Greeting, "selection")

\* Variant: whatever method the proxy selects is taken for the one without credentials.
SelectionAny(method) == "request"

\* Where a selected method leads: no credentials, or exactly the configured ones.
Selection(method) ==
    IF WantsPassword THEN IF method = 2 THEN "auth" ELSE "fail"
    ELSE IF method = 0 THEN "request" ELSE "fail"

ReadSelection ==
    /\ ClientAt("selection") /\ Readable(down, 2)
    /\ IF down[1] # 5 \/ Selection(down[2]) = "fail" THEN ClientFails ELSE Reads(2, Selection(down[2]))

\* Variant: lengths are cut to a byte.
TooLongNever(word) == FALSE

TooLong(word) == Len(word) > 255

\* authenticateSOCKS5ProxyRouteOnSocket.
Authenticate ==
    /\ ClientAt("auth")
    /\ IF TooLong(user) THEN ClientFails
       ELSE Writes(<<1, ByteOf(Len(user))>> \o user \o <<ByteOf(Len(user))>> \o user, "authReply")

ReadAuthReply ==
    /\ ClientAt("authReply") /\ Readable(down, 2)
    /\ IF down[1] # 1 \/ down[2] # 0 THEN ClientFails ELSE Reads(2, "request")

Request ==
    /\ ClientAt("request")
    /\ IF host = <<>> \/ TooLong(host) THEN ClientFails
       ELSE Writes(<<5, 1, 0, 3, ByteOf(Len(host))>> \o host \o Port, "reply")

\* Variant: the address of every reply is taken for one of IPv4.
ReplyLengthV4 == 10

\* The length of the reply that begins a stream, known once its fourth byte is, or its fifth.
ReplyLength ==
    CASE down[4] = 1 -> 4 + 4 + 2 [] down[4] = 4 -> 4 + 16 + 2
      [] down[4] = 3 -> IF Readable(down, 5) THEN 5 + down[5] + 2 ELSE 5

ReadReply ==
    /\ ClientAt("reply") /\ Readable(down, 4)
    /\ IF down[1] # 5 \/ down[2] # 0 \/ down[4] \notin {1, 3, 4} THEN ClientFails
       ELSE Readable(down, ReplyLength) /\ (down[4] = 3 => Readable(down, 5)) /\ Reads(ReplyLength, "done")

\* completeHTTPConnectProxyRouteOnSocket: credentials, if there are any, are part of the request.
SendConnect == ClientAt("start") /\ peer = "http" /\ Writes(<<1>> \o host \o Port \o user, "connect")

\* Variant: the end of the status line ends the header.
HeaderEndsAtLine(bytes) == Len(bytes) >= 2 /\ SubSeq(bytes, Len(bytes) - 1, Len(bytes)) = <<13, 10>>

HeaderEnds(bytes) == Len(bytes) >= 4 /\ SubSeq(bytes, Len(bytes) - 3, Len(bytes)) = <<13, 10, 13, 10>>

\* The status line says 200; 200 stands for these letters.
Granted(bytes) ==
    \E i \in DOMAIN bytes : bytes[i] = 200 /\ \A j \in 1..(i - 1) : SubSeq(bytes, j, j + 1) # <<13, 10>>

\* Byte by byte, so that nothing behind the header is read; up to 16 KiB.
ReadHeader ==
    /\ ClientAt("connect")
    /\ IF Len(header) >= MaxHeader THEN ClientFails
       ELSE /\ Readable(down, 1)
            /\ LET bytes == Append(header, Head(down)) IN
                IF HeaderEnds(bytes) /\ ~Granted(bytes) THEN ClientFails
                ELSE /\ down' = Tail(down) /\ header' = bytes
                     /\ client' = IF HeaderEnds(bytes) THEN "done" ELSE "connect"
                     /\ ClientKeeps /\ UNCHANGED <<up, upEnded>>

\* How much the client's read waits for.
Needs ==
    CASE client \in {"selection", "authReply"} -> 2 [] client = "connect" -> 1
      [] client = "reply" -> IF Readable(down, 4) /\ down[4] \in {1, 3, 4} THEN ReplyLength ELSE 4
      [] OTHER -> 0

\* A read meets the end of the stream, a write a closed socket, or either the cancel of the task.
ClientGivesUp ==
    /\ client \notin {"done", "failed", "gone"}
    /\ cancelled \/ (downEnded /\ (Needs = 0 \/ ~Readable(down, Needs)))
    /\ ClientFails

\* SSH takes over the socket.
ClientSpeaks ==
    /\ client = "done" /\ client' = "gone"
    /\ up' = up \o ClientSays
    /\ UNCHANGED <<config, server, down, upEnded, downEnded, cancelled, target, opened, header>>

Client ==
    \/ Greet \/ ReadSelection \/ Authenticate \/ ReadAuthReply \/ Request \/ ReadReply
    \/ SendConnect \/ ReadHeader \/ ClientGivesUp \/ ClientSpeaks

\* cancelCurrentTask shuts the socket down as well.
Cancel ==
    /\ OwnClient /\ client \notin {"done", "failed", "gone"} /\ ~cancelled
    /\ cancelled' = TRUE
    /\ UNCHANGED <<config, client, server, up, down, upEnded, downEnded, target, opened, header>>

-----------------------------------------------------------------------------
(***************************************************************************)
(* The dynamic forward, on its worker queue, with one client at a time.    *)
(***************************************************************************)

ServerKeeps == UNCHANGED <<config, client, upEnded, cancelled, header>>

Serves(n, answer, place) ==
    /\ up' = From(up, n) /\ down' = down \o answer /\ server' = place
    /\ ServerKeeps /\ UNCHANGED <<downEnded, target, opened>>

\* The client's socket is closed, perhaps after an answer.
Refuses(answer) ==
    /\ down' = down \o answer /\ downEnded' = TRUE /\ server' = "closed"
    /\ ServerKeeps /\ UNCHANGED <<up, target, opened>>

\* Variant: a client without credentials is served as well.
AcceptsNone(methods) ==
    IF account = {} \/ 2 \notin methods THEN IF 0 \in methods THEN 0 ELSE 255 ELSE 2

\* The method that is selected: the one that fits the account, or none.
Selected(methods) ==
    IF account = {} THEN IF 0 \in methods THEN 0 ELSE 255
    ELSE IF 2 \in methods THEN 2 ELSE 255

\* readSOCKSTargetHost:port:fromClientSocket:, its first part.
Hello ==
    /\ OwnServer /\ server = "hello" /\ Readable(up, 2)
    /\ IF up[1] # 5 \/ up[2] = 0 THEN Refuses(<<>>)
       ELSE /\ Readable(up, 2 + up[2])
            /\ LET method == Selected(ToSet(SubSeq(up, 3, 2 + up[2]))) IN
                IF method = 255 THEN Refuses(<<5, 255>>)
                ELSE Serves(2 + up[2], <<5, method>>, IF method = 2 THEN "auth" ELSE "request")

\* Variant: the password is not compared.
RightUserOnly(name, password) == {name} = account

Right(name, password) == {name} = account /\ {password} = account

\* authenticateSOCKSUserPasswordOnSocket.
CheckAuth ==
    /\ OwnServer /\ server = "auth" /\ Readable(up, 2)
    /\ IF up[1] # 1 THEN Refuses(<<>>)
       ELSE LET n == up[2] IN
        /\ Readable(up, 3 + n) /\ Readable(up, 3 + n + up[3 + n])
        /\ LET m == up[3 + n] IN
            IF Right(SubSeq(up, 3, 2 + n), SubSeq(up, 4 + n, 3 + n + m))
            THEN Serves(3 + n + m, <<1, 0>>, "request")
            ELSE Refuses(<<1, 1>>)

Reply(code) == <<5, code, 0, 1, 0, 0, 0, 0, 0, 0>>

\* Variant: the length of a domain counts as a part of it.
AddressWithLength == CASE up[4] = 1 -> <<5, 8>> [] up[4] = 4 -> <<5, 20>> [] up[4] = 3 -> <<5, 4 + up[5]>>

\* The first and the last byte of the address in a request.
Address == CASE up[4] = 1 -> <<5, 8>> [] up[4] = 4 -> <<5, 20>> [] up[4] = 3 -> <<6, 5 + up[5]>>

\* Is it UTF-8?  255 stands for what is not.
IsText(bytes) == 255 \notin ToSet(bytes)

\* The second part: the request, which only names what to connect to.
ServeRequest ==
    /\ OwnServer /\ server = "request" /\ Readable(up, 4)
    /\ IF SubSeq(up, 1, 3) # <<5, 1, 0>> THEN Refuses(Reply(7))
       ELSE IF up[4] \notin {1, 3, 4} THEN Refuses(Reply(8))
       ELSE /\ up[4] = 3 => Readable(up, 5)
            /\ IF up[4] = 3 /\ up[5] = 0 THEN Refuses(<<>>)
               ELSE LET first == Address[1]  last == Address[2] IN
                IF up[4] = 3 /\ Readable(up, last) /\ ~IsText(SubSeq(up, first, last)) THEN Refuses(Reply(1))
                ELSE /\ Readable(up, last + 2)
                     /\ target' = [host |-> SubSeq(up, first, last), port |-> SubSeq(up, last + 1, last + 2)]
                     /\ up' = From(up, last + 2) /\ server' = "open"
                     /\ ServerKeeps /\ UNCHANGED <<down, downEnded, opened>>

\* Variant: success is reported before the channel is open.
OpenReportsFirst ==
    /\ OwnServer /\ server = "open"
    /\ down' = down \o Reply(0)
    /\ \/ server' = "bridge" /\ opened' = TRUE /\ UNCHANGED downEnded
       \/ server' = "closed" /\ downEnded' = TRUE /\ UNCHANGED opened
    /\ ServerKeeps /\ UNCHANGED <<up, target>>

\* openForwardChannelForClientSocket:, and the reply.
Open ==
    /\ OwnServer /\ server = "open"
    /\ \/ Refuses(Reply(5))
       \/ /\ down' = down \o Reply(0) /\ server' = "bridge" /\ opened' = TRUE
          /\ ServerKeeps /\ UNCHANGED <<up, downEnded, target>>

\* bridgeClientSocket:channel:, as far as the far end's first words.
Bridge ==
    /\ OwnServer /\ server = "bridge"
    /\ down' = down \o TargetSays /\ server' = "bridged"
    /\ ServerKeeps /\ UNCHANGED <<up, downEnded, target, opened>>

\* Its client has closed: a read meets the end of the stream, or a write fails.
\* Only that of the request's fixed header is answered.
ServerGivesUp ==
    /\ OwnServer /\ server \in {"hello", "auth", "request"} /\ upEnded
    /\ Refuses(IF server = "request" /\ ~Readable(up, 4) THEN Reply(7) ELSE <<>>)

Forward == Hello \/ CheckAuth \/ ServeRequest \/ Open \/ Bridge \/ ServerGivesUp

-----------------------------------------------------------------------------
(***************************************************************************)
(* Another proxy answers each message, in its own words, or closes.        *)
(***************************************************************************)

Says(bytes, place) ==
    /\ up # <<>> /\ up' = <<>>
    /\ down' = down \o bytes /\ server' = place
    /\ UNCHANGED <<config, client, upEnded, downEnded, cancelled, target, opened, header>>

ProxySelects == peer = "proxy" /\ server = "selection" /\ Says(words.selection, IF 2 \in ToSet(words.selection) THEN "auth" ELSE "reply")
ProxyJudges == peer = "proxy" /\ server = "auth" /\ Says(words.auth, "reply")
ProxyReplies == peer = "proxy" /\ server = "reply" /\ Says(words.reply \o TargetSays, "bridged")
ProxyConnects == peer = "http" /\ server = "selection" /\ Says(words \o TargetSays, "bridged")
ProxyCloses ==
    /\ peer \in {"proxy", "http"} /\ ~downEnded /\ server # "bridged"
    /\ downEnded' = TRUE /\ server' = "closed"
    /\ UNCHANGED <<config, client, up, down, upEnded, cancelled, target, opened, header>>

Others == ProxySelects \/ ProxyJudges \/ ProxyReplies \/ ProxyConnects \/ ProxyCloses

Next == Client \/ Cancel \/ Forward \/ Others

\* Both run on a dispatch queue; what they read need not come.
Fairness == WF_vars(Client) /\ WF_vars(Forward)

Spec == Init /\ [][Next]_vars
FairSpec == Spec /\ Fairness

-----------------------------------------------------------------------------
(***************************************************************************)
(* Properties.                                                             *)
(***************************************************************************)

\* Every variable has its type.
TypeOK ==
    /\ peer \in Peers /\ host \in Hosts \cup {<<>>} /\ user \in Users \cup {<<>>} /\ account \in Accounts \cup {{}}
    /\ client \in {"start", "selection", "auth", "authReply", "request", "reply", "connect", "done", "failed", "gone"}
    /\ server \in {"hello", "selection", "auth", "request", "reply", "open", "bridge", "bridged", "closed"}
    /\ {up, down, header} \subseteq Seq(Bytes)
    /\ {upEnded, downEnded, cancelled, opened} \subseteq BOOLEAN
    /\ target \in [host : Seq(Bytes), port : Seq(Bytes)]

\* When the route is complete, the next byte of the socket is the first that the server has
\* said: SSH finds nothing of the proxy's answer, and misses nothing (readBytes:).
LeftForSSH == OwnClient /\ client \in {"done", "gone"} => down \in {<<>>, TargetSays}

\* A forward connects to nothing but what its client named, whatever lengths, methods and
\* kinds of addresses came before (readSOCKSTargetHost:).
TargetIsMeant ==
    target # Nothing => target = IF peer = "forward" THEN [host |-> host, port |-> Port] ELSE words.target

\* The first byte that goes to the target is the first behind the request.
BridgeGetsTheRest ==
    server \in {"bridge", "bridged"} =>
        CASE peer = "forward" -> up \in {<<>>, ClientSays}
          [] peer = "client" -> IsPrefix(up, words.data)
          [] OTHER -> TRUE

\* A forward with an account connects for nobody who did not name its user and its password
\* (authenticateSOCKSUserPasswordOnSocket:).
AuthorizedOnly ==
    target # Nothing /\ account # {} =>
        IF peer = "forward" THEN {user} = account ELSE {words.user} = account /\ {words.password} = account

\* A route is complete only when the forward has its channel to the server.
DoneMeansOpened == peer = "forward" /\ client \in {"done", "gone"} => opened

\* A route through a forward fails for a cancel, a name that does not fit, an account that the
\* two sides do not share, or because the server cannot be reached, and for nothing else.
FailureHasReason ==
    peer = "forward" /\ client = "failed" =>
        \/ cancelled \/ host = <<>> \/ TooLong(host) \/ TooLong(user)
        \/ {user} \ {<<>>} # account
        \/ target # Nothing /\ ~opened

\* Client and forward never wait for each other: the route is complete, or both have given up.
RouteEnds ==
    peer = "forward" ~> client \in {"gone", "failed"} /\ server \in {"bridged", "closed"}

\* A forward is done with a client that closes, wherever that was.
ClientIsLetGo == peer = "client" /\ upEnded ~> server \in {"bridged", "closed"}

=============================================================================
