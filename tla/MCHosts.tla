-------------------------------- MODULE MCHosts --------------------------------
(***************************************************************************)
(* The instances of SSHConfig and of KnownHosts that TLC checks in one     *)
(* run: the lines of ~/.ssh/config for a session that connects directly    *)
(* (lines), the ways to reach the server for one with a jump host and no   *)
(* descriptor (proxies), any known_hosts files (files), and such files as  *)
(* were written for a server (servers).  A behaviour is one of a single    *)
(* part; the others stay as they began.                                    *)
(***************************************************************************)
EXTENDS SSHConfig

Configured(jumps, known_hosts) ==
    [host |-> "h1", user |-> "u1", port |-> 22, known_hosts |-> known_hosts, methods |-> "own",
     jumps |-> jumps, command |-> NULL]
Direct == Configured(NULL, "own")

Option(keyword, args) == {[keyword |-> keyword, arg |-> a] : a \in args}
Token(pattern, negated) == [pattern |-> pattern, negated |-> negated]
Cond(kind, pattern, negated, last) == [kind |-> kind, pattern |-> pattern, negated |-> negated, last |-> last]

Patterns == {Token("h1", FALSE), Token("h1", TRUE), Token("h2", FALSE), Token("*", FALSE)}
HostLines == {[keyword |-> "host", tokens |-> t] : t \in {<<>>} \cup {<<p>> : p \in Patterns} \cup (Patterns \X Patterns)}

Conds == {<<"host", "h1", FALSE>>, <<"host", "h2", TRUE>>, <<"user", "u2", FALSE>>, <<"user", "missing", FALSE>>,
          <<"exec", "succeeds", TRUE>>, <<"exec", "fails", TRUE>>, <<"all", "", FALSE>>, <<"all", "", TRUE>>,
          <<"final", "", FALSE>>, <<"originalhost", "h1", FALSE>>, <<"unknown", "", FALSE>>}
MatchLines ==
    {[keyword |-> "match", tokens |-> t] :
        t \in {<<>>} \cup {<<Cond(c[1], c[2], c[3], TRUE)>> : c \in Conds}
              \cup {<<Cond(c[1], c[2], c[3], FALSE), Cond(d[1], d[2], d[3], TRUE)>> : c \in Conds, d \in Conds}}

Proxies == Option("proxycommand", {"empty", "none", "nc"}) \cup Option("proxyjump", {"missing", "invalid", "none", "j2"})
OptionLines ==
    Option("hostname", {"missing", "invalid", "h2", "u2@h2"}) \cup Option("user", {"missing", "invalid", "u2"})
    \cup Option("port", {"missing", "invalid", "65536", "2222"})
    \cup Option("userknownhostsfile", {"missing", "theirs"}) \cup Option("ciphers", {"missing", "invalid", "theirs"})
    \cup Option("addressfamily", {"missing", "invalid", "any"}) \cup Proxies
Includes == {[keyword |-> "include"]}

AllLines == HostLines \cup MatchLines \cup OptionLines \cup Includes
ShortLines ==
    Proxies \cup Includes \cup Option("userknownhostsfile", {"theirs"}) \cup Option("hostname", {"h2"})
    \cup {[keyword |-> "host", tokens |-> <<p>>] : p \in Patterns}

Key(type, id) == [type |-> type, id |-> id]
TwoEach == {Key(t, i) : t \in {"rsa", "ed25519"}, i \in 1..2} \cup {Key("p256", 1)}

DefaultOrder == <<"ssh-ed25519", "ecdsa-sha2-nistp256", "rsa-sha2-512", "rsa-sha2-256">>
SigsOf == [rsa |-> <<"rsa-sha2-512", "rsa-sha2-256", "ssh-rsa">>, ed25519 |-> <<"ssh-ed25519">>,
           p256 |-> <<"ecdsa-sha2-nistp256">>]
Lengths == ("rsa-sha2-512" :> 12) @@ ("rsa-sha2-256" :> 12) @@ ("ssh-rsa" :> 7) @@ ("ssh-ed25519" :> 11)
           @@ ("ecdsa-sha2-nistp256" :> 19)

Line(kind, k, hosts) == [kind |-> kind, key |-> k, hosts |-> hosts]
Host == <<Token("h", FALSE)>>
AnotherHost == <<Token("other", FALSE)>>
Port22 == <<Token("[h]:22", FALSE)>>
WithPort == <<Token("other", FALSE), Token("[h]:p", FALSE)>>

Anything ==
    {Line("key", k, h) : k \in TwoEach, h \in {Host, WithPort}} \cup {Line("key", Key("rsa", 1), Port22)}
    \cup {Line(kind, Key("rsa", 1), h) : kind \in {"bad", "marker"}, h \in {Host, AnotherHost}} \cup {Line("long", Key("rsa", 1), Host)}
Written == {Line("key", k, Host) : k \in TwoEach} \cup {Line("key", Key("rsa", 1), AnotherHost)}

VARIABLES
    part,           \* which part takes steps
    file, server, phase, algorithms, key, verdict, known

Proxied == INSTANCE SSHConfig WITH
    Own <- Configured("j1", NULL), Fd <- FALSE, Lines <- ShortLines, MaxDepth <- 2, MaxLines <- 5

AnyFiles == INSTANCE KnownHosts WITH
    Keys <- TwoEach, Wanted <- DefaultOrder, Sigs <- SigsOf, Size <- Lengths, Room <- 256,
    StandardPort <- TRUE, Strict <- TRUE, Lines <- Anything, MaxLines <- 2
Servers == INSTANCE KnownHosts WITH
    Keys <- TwoEach, Wanted <- DefaultOrder, Sigs <- SigsOf, Size <- Lengths, Room <- 256,
    StandardPort <- TRUE, Strict <- TRUE, Lines <- Written, MaxLines <- 3

ASSUME AnyFiles!KnownHostsAssumption /\ Servers!KnownHostsAssumption

knownVars == <<file, server, phase, algorithms, key, verdict, known>>
allVars == <<part, vars, knownVars>>

PartsInit ==
    /\ part \in {"lines", "proxies", "files", "servers"}
    /\ IF part = "proxies" THEN Proxied!Init ELSE Init
    /\ AnyFiles!Init
    /\ part \in {"lines", "proxies"} => server = {}
PartsNext ==
    \/ part = "lines" /\ Next /\ UNCHANGED <<part, knownVars>>
    \/ part = "proxies" /\ Proxied!Next /\ UNCHANGED <<part, knownVars>>
    \/ part = "files" /\ AnyFiles!Next /\ UNCHANGED <<part, vars>>
    \/ part = "servers" /\ Servers!Next /\ UNCHANGED <<part, vars>>
PartsSpec == PartsInit /\ [][PartsNext]_allVars

\* Every variable of every part has its type (config.c, knownhosts.c).
TypesOK == (part = "lines" => TypeOK) /\ (part = "files" => AnyFiles!TypeOK)

\* An option of SSHKit that no line has set is used as SSHKit has set it (ssh_options_apply).
OwnSurvive == part = "lines" => UnnamedSurvive

\* Across both files and everything they include, one line at most of each keyword takes effect (ssh_config_parse_line).
OptionsAppliedOnce == part = "proxies" => Proxied!AppliedOnce

\* A session has a proxy command or jump hosts, never both (ssh_config_parse_proxy_jump).
OneProxy == part = "proxies" => Proxied!ProxyExclusive

\* A key is taken for known only when a file records it (ssh_session_get_known_hosts_entry).
OkMeansRecorded == part = "files" => AnyFiles!OkMeansRecorded

\* A key is called changed only when another one of its type is recorded (ssh_known_hosts_check_server_key).
ChangedMeansChanged == part = "files" => AnyFiles!ChangedMeansChanged

\* A host of which the user's file records another key of this type is reported as changed, and as one with
\* other keys at most if the global file has some (ssh_session_get_known_hosts_entry).
ChangeIsReported == part = "files" => AnyFiles!ChangeIsReported

\* A server that has a recorded key of a wanted type, and no others of types with recorded keys, is asked for
\* one that is recorded and accepted, whatever the files' order (ssh_client_select_hostkeys).
KnownServerAccepted == part = "servers" => Servers!KnownServerAccepted

\* The lines that count are those of the sections that hold, each keyword once, and a connection is given
\* up exactly for errors of its own files (ssh_config_parse_line).
ConfigIsExact ==
    TypesOK /\ SectionsAreRight /\ FailsByItsOwnFiles /\ OwnSurvive /\ OptionsAppliedOnce /\ OneProxy

\* A host key is judged by all that both files record (ssh_session_is_known_server).
HostKeysAreJudged == OkMeansRecorded /\ ChangedMeansChanged /\ ChangeIsReported /\ KnownServerAccepted

================================================================================
