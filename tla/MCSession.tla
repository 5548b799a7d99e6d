------------------------------ MODULE MCSession ------------------------------
(***************************************************************************)
(* The instances of Buffer, Transport and ClientAuth that TLC checks in    *)
(* one run: what libssh's session is made of, from the bytes of a packet   *)
(* to the user's authentication.  A behaviour is one of a single part, the *)
(* others stay as they began.  A part is a module with bounds:             *)
(*   "buffer"     words of four bits, so that a length of 14 wraps;        *)
(*   "rekeys"     strict key exchange, data both ways;                     *)
(*   "plain"      no strict key exchange, a limit of one packet a key, and *)
(*                servers that have no method in common;                   *)
(*   "connects"   with liveness;                                           *)
(*   "methods"    calls of every method, in any order, that time out;      *)
(*   "questions"  rounds of keyboard-interactive, some refused by libssh;  *)
(*   "ends"       with liveness, one method, keys of a file only.          *)
(***************************************************************************)
EXTENDS Buffer, ClientAuth

MCData == {<<>>, <<1>>, <<2, 1>>, <<0>>, [i \in 1..14 |-> 1]}
MCLengths == {0, 1, 2, 14}
MCPowers == {1, 2, 4, 8}

VARIABLES
    part,            \* which part takes steps
    connection, submitted, received, asked, arriving, server

Rekeys == INSTANCE Transport WITH
    session <- connection, toClient <- arriving,
    Strict <- TRUE, KexTypes <- {"hybrid", "gex"}, Limit <- 2, MaxOut <- 4, MaxIn <- 2,
    MaxServerKex <- 1, MaxNoise <- 1
Plain == INSTANCE Transport WITH
    session <- connection, toClient <- arriving,
    Strict <- FALSE, KexTypes <- {"hybrid", "gex", "none"}, Limit <- 1, MaxOut <- 3, MaxIn <- 1,
    MaxServerKex <- 1, MaxNoise <- 1
Connects == INSTANCE Transport WITH
    session <- connection, toClient <- arriving,
    Strict <- TRUE, KexTypes <- {"hybrid"}, Limit <- 1, MaxOut <- 2, MaxIn <- 1,
    MaxServerKex <- 1, MaxNoise <- 1

AnyCalls == INSTANCE ClientAuth WITH Methods <- Methods \ {"kbdint"}, MaxCalls <- 3
Questions == INSTANCE ClientAuth WITH
    Methods <- {"kbdint"}, Keys <- {1}, Usable <- {1}, BadPrompts <- TRUE
Ends == INSTANCE ClientAuth WITH
    Methods <- {"password", "agent", "kbdint"}, OneMethod <- TRUE, MaxCalls <- 4,
    Keys <- {1, 2}, Usable <- {1, 2}, IdentitiesOnly <- TRUE, Listed <- {1}, Certified <- {2}

ASSUME Rekeys!TransportAssumption /\ Plain!TransportAssumption /\ Connects!TransportAssumption
ASSUME AuthAssumption /\ AnyCalls!AuthAssumption /\ Questions!AuthAssumption /\ Ends!AuthAssumption
ASSUME AnyCalls!OneAtATime /\ Questions!OneAtATime /\ Ends!OneAtATime

transportVars == <<connection, submitted, received, asked, arriving, server>>
allVars == <<part, vars, transportVars, authVars>>

Exchanges == {"rekeys", "plain", "connects"}
PartsInit ==
    /\ Init /\ Rekeys!Init
    /\ \/ part \in {"buffer"} \cup Exchanges /\ Questions!AuthInit /\ agent.keys = {}
       \/ part = "methods" /\ AnyCalls!AuthInit
       \/ part = "questions" /\ Questions!AuthInit
       \/ part = "ends" /\ Ends!AuthInit
PartsNext ==
    \/ part = "buffer" /\ Next /\ UNCHANGED <<part, transportVars, authVars>>
    \/ part = "rekeys" /\ Rekeys!Next /\ UNCHANGED <<part, vars, authVars>>
    \/ part = "plain" /\ Plain!Next /\ UNCHANGED <<part, vars, authVars>>
    \/ part = "connects" /\ Connects!Next /\ UNCHANGED <<part, vars, authVars>>
    \/ part = "methods" /\ AnyCalls!AuthNext /\ UNCHANGED <<part, vars, transportVars>>
    \/ part = "questions" /\ Questions!AuthNext /\ UNCHANGED <<part, vars, transportVars>>
    \/ part = "ends" /\ Ends!AuthNext /\ UNCHANGED <<part, vars, transportVars>>
PartsSpec ==
    /\ PartsInit /\ [][PartsNext]_allVars
    /\ WF_transportVars(part = "connects" /\ (Connects!ReceiveBanner \/ Connects!Receive \/ Connects!ReceiveData))
    /\ WF_transportVars(part = "connects" /\ Connects!ServerReceive)
    /\ WF_transportVars(part = "connects" /\ Connects!ServerBanner /\ server'.banner)
    /\ WF_transportVars(part = "connects" /\ Connects!Authenticate)
    /\ WF_authVars(part = "ends" /\ Ends!Waits)
    /\ WF_authVars(part = "ends" /\ Ends!ServerAnswers)

\* Every variable of a key exchange has its type, and no context is used that has no keys (packet.c).
TransportTypeOK == Rekeys!TypeOK

\* The two ends agree on the key and the number of every packet, and neither gets one that its exchange
\* does not allow (ssh_packet_in_rekey, ssh_packet_set_newkeys).
Understood == Rekeys!Understood

\* No packet is lost, doubled or overtaken across the exchanges (ssh_packet_send, ssh_packet_newkeys).
NothingLost == Rekeys!NothingLost

\* Every exchange makes a key of two fresh cookies (ssh_set_client_kex).
KeysAreFresh == Rekeys!KeysAreFresh

\* ssh_connect ends, and the user is authenticated (ssh_packet_newkeys).
ConnectEnds == part = "connects" => Connects!Connects

\* A packet that waits for an exchange is sent in the end (ssh_packet_kexinit).
QueueIsSent == part = "connects" => Connects!QueueIsSent

\* A call that the server answers ends without waiting for its time to be up (ssh_packet_userauth_info_request).
LoneCallsEnd == part = "ends" => Ends!CallsEnd

\* Across all key exchanges each packet arrives once, in order, under the key both ends mean, and each
\* key is fresh (ssh_packet_send, ssh_packet_set_newkeys).
ExchangesAgree == [](TransportTypeOK /\ Understood /\ NothingLost) /\ KeysAreFresh

\* A connect ends, and so does the wait of packets for an exchange (ssh_packet_newkeys).
ExchangesEnd == ConnectEnds /\ QueueIsSent

\* Whoever waits for the server's answer goes on once it is there: a connect, a packet that an exchange
\* holds back, a call of an authentication (ssh_packet_newkeys, ssh_packet_userauth_info_request).
WaitsEnd == ExchangesEnd /\ LoneCallsEnd

==============================================================================
