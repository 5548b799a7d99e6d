-------------------------- MODULE MCForwardRuntime --------------------------
(***************************************************************************)
(* The instances of ForwardRuntime, of RemoteForwards and of ProxyRoute    *)
(* that TLC checks in one run.  A behaviour is one of a single part: the   *)
(* runtime of a forward, the requests and connections of remote forwards,  *)
(* or a route through a proxy.  The other parts stay as they began.        *)
(***************************************************************************)
EXTENDS ForwardRuntime, RemoteForwards, TLC

CONSTANTS c1, c2

VARIABLES
    part,            \* which part takes steps
    peer, host, user, account, words, routeClient, routeServer, up, down, upEnded, downEnded, cancelled,
    target, opened, header

-----------------------------------------------------------------------------
\* Words of a proxy and of a client: right ones, wrong ones, and lengths on both sides of a limit.

Word(n) == [i \in 1..n |-> 97]
Of16 == [i \in 1..16 |-> i]
RouteHosts == {<<>>, <<104>>, Word(255), Word(256)}
RouteUsers == {<<>>, <<117>>, <<118>>, Word(255), Word(256)}
RouteAccounts == {{}, {<<117>>}, {Word(255)}}
ProxyAnswers ==
    [selection : {<<5, 0>>, <<5, 2>>, <<5, 255>>, <<4, 0>>}, auth : {<<1, 0>>, <<1, 1>>},
     reply : {<<5, 0, 0, 1, 0, 0, 0, 0, 0, 0>>, <<5, 0, 0, 3, 0, 0, 0>>, <<5, 0, 0, 3, 2, 1, 1, 0, 0>>,
              <<5, 0, 0, 4>> \o Of16 \o <<0, 0>>, <<5, 5, 0, 1, 0, 0, 0, 0, 0, 0>>, <<5, 0, 0, 9, 0, 0>>}]
HTTPAnswers ==
    {<<1, 200, 13, 10, 13, 10>>, <<200, 13, 10, 2, 10, 10, 2, 13, 10, 13, 10>>,
     <<1, 13, 10, 200, 13, 10, 13, 10>>, <<200, 10, 10>>, <<200, 13, 10>> \o Of16 \o Of16}

\* A client's greeting, its authentication and its request; what the last two mean.
Hellos == {<<5, 1, 0>>, <<5, 1, 2>>, <<5, 2, 0, 2>>, <<5, 2, 2, 0>>, <<5, 0>>, <<4, 1, 0>>, <<5, 3, 1, 2, 0>>}
Auths ==
    {[bytes |-> <<>>, user |-> <<>>, password |-> <<>>]}
    \cup {[bytes |-> <<v, 1, u, 1, p>>, user |-> <<u>>, password |-> <<p>>] : v \in {1, 2}, u, p \in {117, 118}}
Target(h) == [host |-> h, port |-> <<0, 9>>]
NoTarget == [host |-> <<>>, port |-> <<>>]
ConnectRequests ==
    {[bytes |-> <<5, 1, 0, 1, 1, 2, 3, 4, 0, 9>>, target |-> Target(<<1, 2, 3, 4>>)],
     [bytes |-> <<5, 1, 0, 3, 2, 7, 8, 0, 9>>, target |-> Target(<<7, 8>>)],
     [bytes |-> <<5, 1, 0, 4>> \o Of16 \o <<0, 9>>, target |-> Target(Of16)]}
    \cup {[bytes |-> b, target |-> NoTarget] : b \in
          {<<5, 1, 0, 3, 0, 0, 9>>, <<5, 1, 0, 3, 1, 255, 0, 9>>, <<5, 2, 0, 1, 1, 2, 3, 4, 0, 9>>,
           <<5, 1, 0, 9, 1, 2, 3, 4, 0, 9>>}}
ClientsWords ==
    {[bytes |-> h \o a.bytes \o r.bytes \o <<67>>, target |-> r.target, user |-> a.user,
      password |-> a.password, data |-> <<67>>] : h \in Hellos, a \in Auths, r \in ConnectRequests}

Route == INSTANCE ProxyRoute WITH
    client <- routeClient, server <- routeServer,
    Hosts <- RouteHosts, Users <- RouteUsers, Accounts <- RouteAccounts,
    Peers <- {"forward", "proxy", "http", "client"}, ProxyWords <- ProxyAnswers, HTTPWords <- HTTPAnswers,
    ClientWords <- ClientsWords, MaxHeader <- 16

-----------------------------------------------------------------------------
ASSUME Route!RouteAssumption
ASSUME ForwardsAssumption

routeVars == <<peer, host, user, account, words, routeClient, routeServer, up, down, upEnded, downEnded,
               cancelled, target, opened, header>>
allVars == <<part, vars, remoteVars, routeVars>>

PartsInit ==
    /\ part \in {"runtime", "remote", "route"} /\ Init /\ RemoteInit
    /\ part # "runtime" => kind = "remote"
    /\ Route!Init
    /\ part # "route" => peer = "http" /\ host = <<>> /\ user = <<>> /\ words = <<200, 10, 10>>
PartsNext ==
    \/ part = "runtime" /\ Next /\ UNCHANGED <<part, remoteVars, routeVars>>
    \/ part = "remote" /\ RemoteNext /\ UNCHANGED <<part, vars, routeVars>>
    \/ part = "route" /\ Route!Next /\ UNCHANGED <<part, vars, remoteVars>>
PartsSpec ==
    /\ PartsInit /\ [][PartsNext]_allVars
    /\ WF_vars(part = "runtime" /\ WorkerStep)
    /\ WF_vars(part = "runtime" /\ client \in shut /\ ClientStep)
    /\ \A c \in Closers : WF_vars(part = "runtime" /\ CloseShutdown(c))
    /\ WF_remoteVars(part = "remote" /\ AcceptForward)
    /\ WF_remoteVars(part = "remote" /\ Worker)
    /\ WF_remoteVars(part = "remote" /\ Handles)
    /\ WF_remoteVars(part = "remote" /\ Server)
    /\ WF_routeVars(part = "route" /\ Route!Client)
    /\ WF_routeVars(part = "route" /\ Route!Forward)

\* While a remote forward is open, who connects to it is served (the accept loop of a forward).
RemoteIsServed == part = "remote" => ConnectionsServed

\* What a route through a proxy, or a SOCKS forward, leaves in the sockets is what comes behind the exchange
\* (readBytes:, readExactly:).
NothingOfTheExchange == Route!LeftForSSH /\ Route!BridgeGetsTheRest

\* A SOCKS forward connects to what its client named, and for nobody who did not name its account
\* (readSOCKSTargetHost:, authenticateSOCKSUserPasswordOnSocket:).
ServesWhatWasAsked == Route!TargetIsMeant /\ Route!AuthorizedOnly

\* A route is complete only when the channel behind it is, and fails only for a reason
\* (completeSOCKS5ProxyRouteOnSocket:).
OutcomeIsReal == Route!DoneMeansOpened /\ Route!FailureHasReason

\* Client and forward never wait for each other, and a forward is done with a client that closes
\* (completeSOCKS5ProxyRouteOnSocket:, readSOCKSTargetHost:).
RoutesEnd == part = "route" => Route!RouteEnds /\ Route!ClientIsLetGo

\* The two ends of a SOCKS5 or HTTP exchange agree on where it ends and on what came of it
\* (completeSOCKS5ProxyRouteOnSocket:, completeHTTPConnectProxyRouteOnSocket:, readSOCKSTargetHost:).
RoutesAreExact == Route!TypeOK /\ NothingOfTheExchange /\ ServesWhatWasAsked /\ OutcomeIsReal

\* Nobody waits for a forward: neither who closes it, nor who connects to it, nor who opens a route through it
\* (closeWithCompletion:, the accept loop of a remote forward, completeSOCKS5ProxyRouteOnSocket:).
ForwardsAnswer == CloseCompletes /\ RemoteIsServed /\ RoutesEnd

=============================================================================
