------------------------------ MODULE KnownHosts ------------------------------
(***************************************************************************)
(* What libssh makes of known_hosts files (Vendor/libssh/src/knownhosts.c, *)
(* kex.c), twice per connection: before the key exchange the recorded keys *)
(* decide which host key algorithms the client asks for first, and after   *)
(* it the key the server has shown is looked up.  Other programs append to *)
(* the user's file meanwhile.                                              *)
(***************************************************************************)
EXTENDS Integers, SequencesExt

CONSTANTS
    NULL,
    Keys,           \* host keys [type, id] that the server or a file may hold
    Wanted,         \* wanted_methods[SSH_HOSTKEYS]: signature algorithms, in order
    Sigs,           \* Sigs[type]: the signature algorithms of a key type, in order
    Size,           \* Size[algorithm]: the length of its name
    Room,           \* the characters methods_buffer holds
    StandardPort,   \* the session's port is 22
    Strict,         \* StrictHostKeyChecking
    Lines,          \* the lines a file may hold
    MaxLines        \* bound: lines in the two files

KnownHostsAssumption ==
    /\ {Room, MaxLines} \subseteq Nat /\ {StandardPort, Strict} \subseteq BOOLEAN
    /\ \A l \in Lines : l.kind \in {"key", "bad", "marker", "long"}

VARIABLES
    file,           \* file["user"], file["global"]: the lines of knownhosts and global_knownhosts
    server,         \* the server's keys, one of a type at most
    phase,          \* "files", "kex", "key", "checked"
    algorithms,     \* the host key algorithms of the client's KEXINIT
    key,            \* the key the server has shown
    verdict,        \* ssh_session_is_known_server
    known           \* history: what both files recorded when the algorithms were chosen

vars == <<file, server, phase, algorithms, key, verdict, known>>

Init ==
    /\ file = [f \in {"user", "global"} |-> <<>>]
    /\ server \in {ks \in SUBSET Keys : \A k, l \in ks : k.type = l.type => k = l}
    /\ phase = "files" /\ algorithms = <<>> /\ key = NULL /\ verdict = NULL /\ known = {}

-----------------------------------------------------------------------------
(***************************************************************************)
(* One file.                                                               *)
(***************************************************************************)

\* match_hostname of one pattern against ssh_session_get_host_port: -1 for a negated match, 1, 0.
\* A pattern in brackets is matched with the port also when the port is the standard one.
Applies(pattern) == pattern = "*" \/ pattern = (IF StandardPort THEN "h" ELSE "[h]:p")
                    \/ (StandardPort /\ pattern = "[h]:22")
match_hostname(token) == IF ~Applies(token.pattern) THEN 0 ELSE IF token.negated THEN -1 ELSE 1

\* ssh_known_hosts_parse_line takes the list apart and hands each pattern on alone.
NamesHost(line) == \E i \in DOMAIN line.hosts : match_hostname(line.hosts[i]) = 1

\* ssh_known_hosts_read_entries: markers and other hosts' lines are passed over, a line that is too
\* long ends the file, a line of this host that cannot be parsed loses all of it.
ReadLine(acc, line) ==
    IF acc.rc # "reads" \/ line.kind = "marker" THEN acc
    ELSE IF line.kind = "long" THEN [acc EXCEPT !.rc = "ends"]
    ELSE IF ~NamesHost(line) THEN acc
    ELSE IF line.kind = "bad" THEN [acc EXCEPT !.rc = "error"]
    ELSE [acc EXCEPT !.entries = IF line.key \in Range(@) THEN @ ELSE Append(@, line.key)]

read_entries(entries, f) == FoldLeft(ReadLine, [rc |-> "reads", entries |-> entries], file[f])

-----------------------------------------------------------------------------
(***************************************************************************)
(* Before the key exchange.                                                *)
(***************************************************************************)

\* The names that fit into methods_buffer; what is cut off is no name any more.
Fits(acc, name) ==
    IF acc.room < Size[name] THEN [acc EXCEPT !.room = 0]
    ELSE [room |-> IF acc.room = Size[name] THEN 0 ELSE acc.room - Size[name] - 1, names |-> Append(acc.names, name)]

get_algorithms_names ==
    LET user == read_entries(<<>>, "user")
        both == read_entries(user.entries, "global")
        names == FlattenSeq([i \in DOMAIN both.entries |-> Sigs[both.entries[i].type]])
    IN  IF "error" \in {user.rc, both.rc} THEN <<>>
        ELSE FoldLeft(Fits, [room |-> Room, names |-> <<>>], names).names

\* Variant: what is wanted is asked for in its own order.
OwnOrder == Wanted

\* The recorded algorithms first, in the order of what is wanted, then the rest of what is wanted.
ssh_client_select_hostkeys ==
    LET first == Range(get_algorithms_names)
    IN  SelectSeq(Wanted, LAMBDA a : a \in first) \o SelectSeq(Wanted, LAMBDA a : a \notin first)

-----------------------------------------------------------------------------
(***************************************************************************)
(* After it.                                                               *)
(***************************************************************************)

\* Variant: the type of a key is taken for the key.
ComparesTypes(entries) ==
    IF \E i \in DOMAIN entries : entries[i].type = key.type THEN "ok" ELSE IF entries = <<>> THEN "unknown" ELSE "other"

\* Variant: an entry of another type is a change.
AnyOther(entries) == IF key \in Range(entries) THEN "ok" ELSE IF entries = <<>> THEN "unknown" ELSE "changed"

Compare(entries) ==
    IF key \in Range(entries) THEN "ok"
    ELSE IF \E k \in Range(entries) : k.type = key.type THEN "changed"
    ELSE IF entries = <<>> THEN "unknown" ELSE "other"

check_server_key(f) == IF read_entries(<<>>, f).rc = "error" THEN "unknown" ELSE Compare(read_entries(<<>>, f).entries)

\* Variant: the global file has the last word.
ForgetsUser == IF check_server_key("user") = "ok" THEN "ok" ELSE check_server_key("global")

ssh_session_get_known_hosts_entry ==
    LET old_rv == check_server_key("user")
        rv == check_server_key("global")
    IN  IF old_rv = "ok" THEN old_rv
        ELSE IF rv # "unknown" THEN rv
        ELSE IF Strict THEN old_rv ELSE "ok"

-----------------------------------------------------------------------------
\* The keys a file records for the host, whatever its order.
Recorded(f) == {l.key : l \in {m \in Range(file[f]) : m.kind = "key" /\ NamesHost(m)}}
AllRecorded == Recorded("user") \cup Recorded("global")
Readable == \A f \in DOMAIN file : \A l \in Range(file[f]) : l.kind \in {"key", "marker"}

\* A program appends a line; the global file is not written while sessions run.
FileGrows == \E f \in {"user", "global"}, line \in Lines :
    /\ phase # "checked" /\ (f = "global" => phase = "files")
    /\ Len(file["user"]) + Len(file["global"]) < MaxLines
    /\ file' = [file EXCEPT ![f] = Append(@, line)]
    /\ UNCHANGED <<server, phase, algorithms, key, verdict, known>>

\* ssh_set_client_kex
ssh_set_client_kex ==
    /\ phase = "files" /\ phase' = "kex"
    /\ algorithms' = ssh_client_select_hostkeys /\ known' = AllRecorded
    /\ UNCHANGED <<file, server, key, verdict>>

\* The server takes the first algorithm of the client for which it has a key.
ServerShowsKey == \E i \in DOMAIN algorithms, k \in server :
    /\ phase = "kex" /\ phase' = "key"
    /\ algorithms[i] \in Range(Sigs[k.type])
    /\ \A j \in 1..i - 1, l \in server : algorithms[j] \notin Range(Sigs[l.type])
    /\ key' = k
    /\ UNCHANGED <<file, server, algorithms, verdict, known>>

\* ssh_session_is_known_server, called by verifyLibSSHHostKeyForSession:.
ssh_session_is_known_server ==
    /\ phase = "key" /\ phase' = "checked"
    /\ verdict' = ssh_session_get_known_hosts_entry
    /\ UNCHANGED <<file, server, algorithms, key, known>>

Next == FileGrows \/ ssh_set_client_kex \/ ServerShowsKey \/ ssh_session_is_known_server
Spec == Init /\ [][Next]_vars

-----------------------------------------------------------------------------
TypeOK ==
    /\ \A f \in DOMAIN file : file[f] \in Seq(Lines)
    /\ server \subseteq Keys /\ key \in Keys \cup {NULL}
    /\ phase \in {"files", "kex", "key", "checked"}
    /\ phase # "files" => Range(algorithms) = Range(Wanted) /\ Len(algorithms) = Len(Wanted)
    /\ verdict \in {NULL, "ok", "changed", "other", "unknown"}

\* A key is accepted only if a file records it for the host.
OkMeansRecorded == verdict = "ok" => key \in AllRecorded

\* A changed key is reported only for a host of which a file records another key of that type.
ChangedMeansChanged == verdict = "changed" => \E k \in AllRecorded : k.type = key.type /\ k # key

\* A host of which the user's file records another key of this type, and nothing else, is never
\* reported as unknown or as one with keys of other types only.
ChangeIsReported ==
    verdict # NULL /\ Readable /\ (\E k \in Recorded("user") : k.type = key.type) /\ key \notin AllRecorded
        => verdict = "changed" \/ (verdict = "other" /\ Recorded("global") # {})

\* A server that had a recorded key of a wanted type when the algorithms were chosen, and whose other
\* keys were recorded too or were of types of which nothing was, is accepted, in whatever file and
\* order the keys are recorded and whatever readable lines were appended since.
KnownServerAccepted ==
    /\ verdict # NULL /\ Readable
    /\ \E k \in server \cap known : Range(Sigs[k.type]) \cap Range(Wanted) # {}
    /\ \A k \in server \ known : \A l \in known : l.type # k.type
    => verdict = "ok"
=============================================================================
