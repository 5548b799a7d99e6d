------------------------------ MODULE ClientAuth ------------------------------
(***************************************************************************)
(* The authentication calls of libssh's client (Vendor/libssh/src/auth.c)  *)
(* and the way SSHKit makes them.  A call sends a request and polls for    *)
(* the answer; when its time is up it returns AGAIN, remembers itself in   *)
(* pending_call_state and leaves the request with the server.  The agent's *)
(* call makes two calls for each key, and keyboard-interactive is a call   *)
(* for each round.                                                         *)
(***************************************************************************)
EXTENDS Integers, Sequences, FiniteSets, FiniteSetsExt

CONSTANTS
    Methods,        \* the calls made: "none", "password", "publickey", "agent", "kbdint"
    OneMethod,      \* TRUE: as SSHKit calls, who gives the session up at the first refusal
    MaxCalls,       \* bound: calls made on the session
    Keys,           \* the keys that the agent may hold, in its order
    Usable,         \* the keys whose algorithm and size the client allows
    IdentitiesOnly, \* only keys of the configuration, by key or by certificate
    Listed, Certified,
    BadPrompts      \* whether the server may ask more questions than libssh takes

AuthAssumption ==
    /\ Methods \subseteq {"none", "password", "publickey", "agent", "kbdint"}
    /\ OneMethod \in BOOLEAN /\ IdentitiesOnly \in BOOLEAN /\ BadPrompts \in BOOLEAN
    /\ MaxCalls \in Nat
    /\ IsFiniteSet(Keys) /\ Keys \subseteq Nat \ {0} /\ Keys # {}
    /\ Usable \subseteq Keys /\ Listed \subseteq Keys /\ Certified \subseteq Keys

\* Whoever asks questions makes no other call before they are answered.
OneAtATime == OneMethod \/ Methods = {"kbdint"} \/ "kbdint" \notin Methods

VARIABLES
    authCall,       \* the call under way: its method, its part, its key, where it is
    calls,          \* how many have been made
    last,           \* the method, part and key of the last call, and its result
    auth,           \* session->auth.state
    pending,        \* session->pending_call_state
    service,        \* session->auth.service_state
    kbdint,         \* session->kbdint: "none", "asked", "answered"
    agent,          \* session->agent_state and the keys of the agent
    session,        \* session->session_state
    toServer, toClient,
    asking,         \* the server: a USERAUTH_INFO_REQUEST of its is open
    requests        \* what was requested, and the server's verdict on it

authClient == <<authCall, calls, last, auth, pending, service, kbdint, agent, session>>
authVars == <<authClient, toServer, toClient, asking, requests>>

\* The states in which an answer is awaited, by the part that sent the request.
SentState == [none |-> "AUTH_NONE_SENT", password |-> "PASSWORD_AUTH_SENT",
              publickey |-> "PUBKEY_AUTH_SENT", sign |-> "PUBKEY_AUTH_SENT",
              offer |-> "PUBKEY_OFFER_SENT",
              init |-> "KBDINT_SENT", send |-> "KBDINT_SENT"]
Parts == DOMAIN SentState
Awaiting == {SentState[p] : p \in Parts}

Result == [NONE |-> "ERROR", ERROR |-> "ERROR", FAILED |-> "DENIED", INFO |-> "INFO",
           PARTIAL |-> "PARTIAL", PK_OK |-> "SUCCESS", SUCCESS |-> "SUCCESS"]

NoCall == [method |-> "none", part |-> "none", key |-> 0, at |-> "idle"]
FreshAgent(keys) == [key |-> 0, state |-> "NONE", keys |-> keys]

AuthInit ==
    /\ authCall = NoCall /\ calls = 0
    /\ last = [method |-> "none", part |-> "none", key |-> 0, rc |-> "none"]
    /\ auth = "NONE" /\ pending = "nothing" /\ service = "NONE" /\ kbdint = "none"
    /\ \E keys \in SUBSET Keys : agent = FreshAgent(keys)
    /\ session = "AUTHENTICATING"
    /\ toServer = <<>> /\ toClient = <<>> /\ asking = FALSE /\ requests = <<>>

-----------------------------------------------------------------------------
(***************************************************************************)
(* The end of a part: the call returns, or the agent's loop goes on.       *)
(***************************************************************************)
Goto(at) == authCall' = [authCall EXCEPT !.at = at]

Ended(rc) ==
    /\ authCall' = NoCall
    /\ last' = [method |-> authCall.method, part |-> authCall.part, key |-> authCall.key, rc |-> rc]

Candidates ==
    IF IdentitiesOnly THEN agent.keys \cap (Listed \cup Certified) ELSE agent.keys
\* Variants: the cursor of the agent is moved past the last key, or on twice.
RunsOn(k) == k + 1
SkipsIdent(k) ==
    LET later == {c \in Candidates : c > k + 1} IN IF later = {} THEN 0 ELSE Min(later)
NextIdent(k) ==
    LET later == {c \in Candidates : c > k} IN IF later = {} THEN 0 ELSE Min(later)

\* The next key is offered; without one the loop ends with the last result.
TryNext(rc) ==
    LET k == NextIdent(authCall.key) IN
    \/ /\ k # 0
       /\ authCall' = [authCall EXCEPT !.part = "offer", !.key = k, !.at = "enter"]
       /\ agent' = [agent EXCEPT !.key = k, !.state = "NONE"]
       /\ UNCHANGED last
    \/ k = 0 /\ Ended(rc) /\ agent' = FreshAgent(agent.keys)

\* The certificate that is put in the place of a refused key is freed before it
\* is used: the `continue' there goes on with the loop over the certificates.
AgentGoesOn(rc) ==
    \/ /\ rc = "AGAIN" /\ Ended(rc)
       /\ agent' = [agent EXCEPT !.state = IF @ = "NONE" THEN "PUBKEY" ELSE @]
    \/ rc = "ERROR" /\ Ended(rc) /\ agent' = FreshAgent(agent.keys)
    \/ authCall.part = "offer" /\ rc \in {"DENIED", "PARTIAL", "INFO"} /\ TryNext(rc)
    \/ /\ authCall.part = "offer" /\ rc = "SUCCESS"
       /\ authCall' = [authCall EXCEPT !.part = "sign", !.at = "enter"]
       /\ agent' = [agent EXCEPT !.state = "AUTH"]
       /\ UNCHANGED last
    \/ /\ authCall.part = "sign" /\ rc \in {"PARTIAL", "SUCCESS"}
       /\ Ended(rc) /\ agent' = FreshAgent(agent.keys)
    \/ authCall.part = "sign" /\ rc \in {"DENIED", "INFO"} /\ TryNext(rc)

Return(rc) ==
    \/ authCall.method = "agent" /\ AgentGoesOn(rc)
    \/ authCall.method # "agent" /\ Ended(rc) /\ UNCHANGED agent

-----------------------------------------------------------------------------
(***************************************************************************)
(* A part: the check of the pending call, the service, the request.        *)
(***************************************************************************)
ToServer(m) == toServer' = Append(toServer, m)

\* Variant: the answers are kept after they are sent.
AnswersKept == kbdint
\* The answers are burnt when they are sent.
Burnt == IF authCall.part = "send" THEN "none" ELSE kbdint

SendRequest ==
    /\ session = "AUTHENTICATING"
    /\ auth' = SentState[authCall.part] /\ pending' = authCall.part
    /\ kbdint' = Burnt
    /\ ToServer(authCall.part)
    /\ requests' = Append(requests, [part |-> authCall.part, key |-> authCall.key,
                                     verdict |-> "none", asked |-> asking])
    /\ Goto("response")
    /\ UNCHANGED <<last, agent>>

\* A key that may not be used, or that nobody signs with, is not sent; neither is
\* anything on a socket that is closed.
NotSent ==
    /\ \/ session # "AUTHENTICATING" /\ Return("ERROR")
       \/ authCall.part \in {"offer", "publickey", "sign"} /\ authCall.key \notin Usable /\ Return("DENIED")
       \/ authCall.part \in {"publickey", "sign"} /\ authCall.key \in Usable /\ Return("ERROR")
    /\ UNCHANGED <<auth, pending, kbdint, toServer, requests>>

Request ==
    /\ \/ (authCall.part \in {"offer", "publickey", "sign"} => authCall.key \in Usable) /\ SendRequest
       \/ NotSent
    /\ UNCHANGED service

\* Variant: whoever calls takes up the pending call.
NeverOther(part) == FALSE
\* A pending call may only be taken up by itself.
PendingOther(part) == pending # "nothing" /\ pending # part

Enter ==
    /\ authCall.at = "enter"
    /\ \/ /\ PendingOther(authCall.part)
          /\ Return("ERROR")
          /\ UNCHANGED <<auth, pending, service, kbdint, toServer, requests>>
       \/ /\ ~PendingOther(authCall.part) /\ pending # "nothing"
          /\ Goto("response")
          /\ UNCHANGED <<last, agent, auth, pending, service, kbdint, toServer, requests>>
       \/ /\ pending = "nothing" /\ (service = "ACCEPTED" \/ authCall.part = "send")
          /\ Request
       \/ /\ pending = "nothing" /\ service # "ACCEPTED" /\ authCall.part # "send"
          /\ IF service = "NONE"
             THEN service' = "SENT" /\ ToServer("service")
             ELSE UNCHANGED <<service, toServer>>
          /\ Goto("service")
          /\ UNCHANGED <<last, agent, auth, pending, kbdint, requests>>
    /\ UNCHANGED <<calls, session, toClient, asking>>

ssh_service_request ==
    /\ authCall.at = "service"
    /\ \/ service = "ACCEPTED" /\ Request
       \/ /\ service = "SENT"
          /\ \/ session = "DISCONNECTED" /\ Return("ERROR")
             \/ session = "AUTHENTICATING" /\ toClient = <<>> /\ Return("AGAIN")
          /\ UNCHANGED <<auth, pending, service, kbdint, toServer, requests>>
    /\ UNCHANGED <<calls, session, toClient, asking>>

ssh_userauth_get_response ==
    /\ authCall.at = "response"
    /\ auth \notin Awaiting
    /\ Return(Result[auth])
    /\ pending' = "nothing"
    /\ UNCHANGED <<calls, auth, service, kbdint, session, toServer, toClient, asking, requests>>

\* The time of the session's options is up, with nothing to read.
Timeout ==
    /\ authCall.at = "response"
    /\ auth \in Awaiting
    /\ toClient = <<>>
    /\ Return("AGAIN")
    /\ UNCHANGED <<calls, auth, pending, service, kbdint, session, toServer, toClient, asking, requests>>

-----------------------------------------------------------------------------
(***************************************************************************)
(* The calls, by the caller.                                               *)
(***************************************************************************)
Start(method, part, key) ==
    /\ authCall.at = "idle" /\ calls < MaxCalls
    /\ session = "AUTHENTICATING" /\ method \in Methods
    /\ OneMethod => calls = 0 \/ (method = "kbdint" /\ last.rc = "INFO" /\ kbdint = "answered")
    /\ calls' = calls + 1
    /\ authCall' = [method |-> method, part |-> part, key |-> key, at |-> "enter"]
    /\ last' = [last EXCEPT !.rc = "none"]
    /\ UNCHANGED <<auth, pending, service, kbdint, session, toServer, toClient, asking, requests>>

ssh_userauth_none == Start("none", "none", 0) /\ UNCHANGED agent
ssh_userauth_password == Start("password", "password", 0) /\ UNCHANGED agent
\* The configuration names one key file: a call that is made again is for that key.
KeyFile == Min(Keys)
ssh_userauth_publickey == Start("publickey", "publickey", KeyFile) /\ UNCHANGED agent

\* With neither questions nor a call pending it starts over; otherwise it sends
\* what is there, answers or not.
KbdintPart ==
    IF \/ pending = "nothing" /\ kbdint = "none"
       \/ pending = "init"
    THEN "init" ELSE "send"

ssh_userauth_kbdint == Start("kbdint", KbdintPart, 0) /\ UNCHANGED agent

\* Without an agent, or without a key in it, there is nothing to call.  A key that
\* was left at a timeout is taken up where it was.
ssh_userauth_agent ==
    LET resumed == agent.key # 0
        key == IF resumed THEN agent.key ELSE NextIdent(0)
    IN /\ key # 0
       /\ Start("agent", IF resumed /\ agent.state = "AUTH" THEN "sign" ELSE "offer", key)
       /\ agent' = [agent EXCEPT !.key = key]

ssh_userauth_kbdint_setanswer ==
    /\ authCall.at = "idle" /\ kbdint = "asked"
    /\ kbdint' = "answered"
    /\ UNCHANGED <<authCall, calls, last, auth, pending, service, agent, session, toServer, toClient, asking, requests>>

-----------------------------------------------------------------------------
(***************************************************************************)
(* What a poll hands to the packet handlers.                               *)
(***************************************************************************)
ssh_packet_service_accept ==
    service' = "ACCEPTED" /\ UNCHANGED <<auth, kbdint, session>>

ssh_packet_userauth_failure(partial) ==
    /\ auth' = IF partial THEN "PARTIAL" ELSE "FAILED"
    /\ UNCHANGED <<service, kbdint, session>>

\* The filter lets a success through only to a request that can earn it.
ssh_packet_userauth_success ==
    /\ IF auth \in Awaiting \ {"PUBKEY_OFFER_SENT"}
       THEN auth' = "SUCCESS" /\ session' = "AUTHENTICATED"
       ELSE session' = "ERROR" /\ UNCHANGED auth
    /\ UNCHANGED <<service, kbdint>>

\* Variant: the state is not set.
ForgetsToTell(readable) ==
    /\ kbdint' = IF readable THEN "asked" ELSE "none"
    /\ UNCHANGED <<auth, service, session>>

\* Questions that cannot be taken leave the call waiting.
ssh_packet_userauth_info_request(readable) ==
    /\ kbdint' = IF readable THEN "asked" ELSE "none"
    /\ IF readable THEN auth' = "INFO" ELSE UNCHANGED auth
    /\ UNCHANGED <<service, session>>

\* Variant: an offer that is taken counts as a success.
OfferSucceeds(readable) ==
    \/ auth = "KBDINT_SENT" /\ ssh_packet_userauth_info_request(readable)
    \/ auth = "PUBKEY_OFFER_SENT" /\ auth' = "PK_OK" /\ session' = "AUTHENTICATED" /\ UNCHANGED <<service, kbdint>>
    \/ /\ auth \notin {"KBDINT_SENT", "PUBKEY_OFFER_SENT"}
       /\ auth' = "ERROR" /\ UNCHANGED <<service, kbdint, session>>

ssh_packet_userauth_pk_ok(readable) ==
    \/ auth = "KBDINT_SENT" /\ ssh_packet_userauth_info_request(readable)
    \/ auth = "PUBKEY_OFFER_SENT" /\ auth' = "PK_OK" /\ UNCHANGED <<service, kbdint, session>>
    \/ /\ auth \notin {"KBDINT_SENT", "PUBKEY_OFFER_SENT"}
       /\ auth' = "ERROR" /\ UNCHANGED <<service, kbdint, session>>

ssh_packet_disconnect_callback ==
    session' = "DISCONNECTED" /\ auth' = "FAILED" /\ UNCHANGED <<service, kbdint>>

Handle(packet) ==
    \/ packet = "service_accept" /\ ssh_packet_service_accept
    \/ packet = "failure" /\ ssh_packet_userauth_failure(FALSE)
    \/ packet = "partial" /\ ssh_packet_userauth_failure(TRUE)
    \/ packet = "success" /\ ssh_packet_userauth_success
    \/ packet \in {"pk_ok", "info"} /\ ssh_packet_userauth_pk_ok(TRUE)
    \/ packet = "bad_info" /\ ssh_packet_userauth_pk_ok(FALSE)
    \/ packet = "disconnect" /\ ssh_packet_disconnect_callback
    \/ packet = "unimplemented" /\ UNCHANGED <<auth, service, kbdint, session>>

Poll ==
    /\ authCall.at \in {"service", "response"}
    /\ session = "AUTHENTICATING" /\ toClient # <<>>
    /\ Handle(Head(toClient))
    /\ toClient' = Tail(toClient)
    /\ UNCHANGED <<authCall, calls, last, pending, agent, toServer, asking, requests>>

-----------------------------------------------------------------------------
(***************************************************************************)
(* The server (RFC 4252, RFC 4256): it answers one request after another,  *)
(* and a new request abandons the questions it has open.                   *)
(***************************************************************************)
ToClient(m) == toClient' = Append(toClient, m)
Connected == session = "AUTHENTICATING" /\ "disconnect" \notin {toClient[i] : i \in DOMAIN toClient}
Verdicts(part) ==
    {"failure"}
    \cup (IF part = "offer" THEN {"pk_ok"} ELSE {"success", "partial"})
    \cup (IF part \in {"init", "send"} THEN {"info"} ELSE {})
    \cup (IF part \in {"init", "send"} /\ BadPrompts THEN {"bad_info"} ELSE {})

\* The request at the head is the first that has no verdict.
Judged(verdict) ==
    LET n == Min({i \in DOMAIN requests : requests[i].verdict = "none"})
    IN requests' = [requests EXCEPT ![n].verdict = verdict]

ServerAnswers ==
    /\ Connected /\ toServer # <<>> /\ toServer' = Tail(toServer)
    /\ LET m == Head(toServer) IN
       \/ m = "service" /\ ToClient("service_accept") /\ UNCHANGED <<asking, requests>>
       \/ /\ m # "service" /\ (m = "send" => asking)
          /\ \E v \in Verdicts(m) :
                ToClient(v) /\ Judged(v) /\ asking' = (v \in {"info", "bad_info"})
       \/ /\ m = "send" /\ ~asking
          /\ ToClient("unimplemented") /\ Judged("unimplemented") /\ UNCHANGED asking
    /\ UNCHANGED authClient

\* The server gives up, after too many attempts or too long a time.
ServerDisconnects ==
    /\ Connected /\ toServer # <<>>
    /\ toServer' = <<>> /\ ToClient("disconnect")
    /\ UNCHANGED <<authClient, asking, requests>>

-----------------------------------------------------------------------------
Calls ==
    \/ ssh_userauth_none \/ ssh_userauth_password \/ ssh_userauth_publickey
    \/ ssh_userauth_agent \/ ssh_userauth_kbdint
Waits == Enter \/ ssh_service_request \/ ssh_userauth_get_response \/ Poll
AuthNext == Calls \/ ssh_userauth_kbdint_setanswer \/ Waits \/ Timeout \/ ServerAnswers \/ ServerDisconnects

AuthSpec == AuthInit /\ [][AuthNext]_authVars
\* A caller waits in its call, and the server answers.
FairAuthSpec == AuthSpec /\ WF_authVars(Waits) /\ WF_authVars(ServerAnswers)

-----------------------------------------------------------------------------
(***************************************************************************)
(* Properties.                                                             *)
(***************************************************************************)
\* Every variable has values of its kind.
AuthTypeOK ==
    /\ authCall \in [method : Methods \cup {"none"}, part : Parts, key : Keys \cup {0},
                 at : {"idle", "enter", "service", "response"}]
    /\ calls \in 0..MaxCalls
    /\ last \in [method : Methods \cup {"none"}, part : Parts, key : Keys \cup {0},
                 rc : {"none", "AGAIN", "ERROR", "DENIED", "INFO", "PARTIAL", "SUCCESS"}]
    /\ auth \in Awaiting \cup DOMAIN Result /\ pending \in Parts \cup {"nothing"}
    /\ service \in {"NONE", "SENT", "ACCEPTED"} /\ kbdint \in {"none", "asked", "answered"}
    /\ agent \in [key : Keys \cup {0}, state : {"NONE", "PUBKEY", "AUTH"}, keys : SUBSET Keys]
    /\ session \in {"AUTHENTICATING", "AUTHENTICATED", "DISCONNECTED", "ERROR"}
    /\ asking \in BOOLEAN

Told == [success |-> "SUCCESS", partial |-> "PARTIAL", failure |-> "DENIED", info |-> "INFO"]

\* What a call returns is the server's verdict on the request of that very call,
\* however late it came and whatever calls were made in between (auth.c,
\* pending_call_state).
AnswersAreOwn ==
    last.rc \in {"SUCCESS", "DENIED", "PARTIAL", "INFO"} /\ session # "DISCONNECTED" =>
        \/ last.rc = "DENIED" /\ last.key # 0 /\ last.key \notin Usable
        \/ /\ requests # <<>>
           /\ LET r == requests[Len(requests)] IN
              r.part = last.part /\ r.key = last.key /\ r.verdict \in DOMAIN Told /\ Told[r.verdict] = last.rc

\* The session counts as authenticated only after a request that proves something
\* and that the server accepted: an offered key is no proof (auth.c,
\* ssh_packet_userauth_success; packet.c, the filter).
AuthenticatedIsGranted ==
    session = "AUTHENTICATED" =>
        \E i \in DOMAIN requests : requests[i].verdict = "success" /\ requests[i].part # "offer"

\* ssh_userauth_agent answers "denied" only when the server refused each key that
\* it could offer, also when it was called again after a timeout.
AgentIsThorough ==
    last.method = "agent" /\ last.rc = "DENIED" /\ session = "AUTHENTICATING" =>
        \A k \in Candidates \cap Usable :
            \E i \in DOMAIN requests :
                /\ requests[i].part \in {"offer", "sign"} /\ requests[i].key = k
                /\ requests[i].verdict = "failure"

\* Answers are sent only to questions that are open (auth.c, ssh_userauth_kbdint:
\* "It means the user has set some information there we need to send the server").
QuestionsAreOpen ==
    \A i \in DOMAIN requests : requests[i].part = "send" => requests[i].asked

\* No answer is taken for that to another call, and no call succeeds without proof
\* (pending_call_state, ssh_userauth_agent).
VerdictsAreOwn ==
    AuthTypeOK /\ AnswersAreOwn /\ AuthenticatedIsGranted /\ AgentIsThorough /\ QuestionsAreOpen

\* A call that the server answers ends without waiting for its time to be up.
CallsEnd == (authCall.at # "idle") ~> (authCall.at = "idle")

=============================================================================
