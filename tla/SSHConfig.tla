------------------------------- MODULE SSHConfig -------------------------------
(***************************************************************************)
(* What ssh_connect makes of a session SSHKit has configured               *)
(* (Vendor/libssh/src/client.c, options.c, config.c): it reads             *)
(* ~/.ssh/config and then /etc/ssh/ssh_config line by line, with the files *)
(* they include, into the same options, applies them and chooses how to    *)
(* reach the server.  Lines are chosen as they are read.                   *)
(***************************************************************************)
EXTENDS Integers, SequencesExt

CONSTANTS
    NULL,           \* an option that is not set
    Own,            \* the options SSHKit has set
    Fd,             \* SSHKit has set SSH_OPTIONS_FD
    Lines,          \* the lines a file may hold
    MaxDepth,       \* LIBSSH_CONF_MAX_DEPTH
    MaxLines        \* bound: lines that are read

ASSUME SSHConfigAssumption == Fd \in BOOLEAN /\ {MaxDepth, MaxLines} \subseteq Nat

VARIABLES
    opts,           \* session->opts
    seen,           \* options_seen
    parsing,        \* whether the lines of the section count
    files,          \* the file being read and the files that included it, innermost first
    state,          \* where ssh_connect is, and in the end how it connects
    read,           \* lines read
    applied,        \* history: how often a line of each keyword has taken effect
    section,        \* history: the last Host or Match line that was read holds
    broken          \* history: the kinds of files in which a line was an error

vars == <<opts, seen, parsing, files, state, read, applied, section, broken>>

Settings == {"hostname", "user", "port", "userknownhostsfile", "ciphers", "addressfamily"}
Keywords == Settings \cup {"proxycommand", "proxyjump"}

Init ==
    /\ opts = Own /\ seen = {} /\ parsing = TRUE /\ files = <<"user">> /\ state = "parses" /\ read = 0
    /\ applied = [k \in Keywords |-> 0] /\ section = TRUE /\ broken = {}

-----------------------------------------------------------------------------
(***************************************************************************)
(* Sections.                                                               *)
(***************************************************************************)

\* match_hostname and match_pattern_list of one pattern: 1, -1 for a negated match, 0.
Matches(pattern, value) == pattern = "*" \/ pattern = value
match_hostname(token) ==
    IF ~Matches(token.pattern, opts.host) THEN 0 ELSE IF token.negated THEN -1 ELSE 1

\* Variant: the last match counts.
LastMatch(result, ok) == IF ok = 0 THEN result ELSE IF ok < 0 THEN 0 ELSE 1

\* The first match counts.
HostResult(result, ok) == IF result # -1 \/ ok = 0 THEN result ELSE IF ok < 0 THEN 0 ELSE 1

ParseHost(line) ==
    LET Step(acc, token) ==
            IF acc.ok < 0 THEN acc
            ELSE [ok |-> match_hostname(token), result |-> HostResult(acc.result, match_hostname(token))]
    IN  FoldLeft(Step, [ok |-> 0, result |-> -1], line.tokens).result = 1

\* ssh_config_match and ssh_match_exec.
ssh_config_match(cond) ==
    cond.negated # (CASE cond.kind = "host" -> Matches(cond.pattern, opts.host)
                      [] cond.kind = "user" -> Matches(cond.pattern, opts.user)
                      [] cond.kind = "exec" -> cond.pattern = "succeeds")

\* One keyword of a Match line; all stands alone or after final or canonical, and ends the line.
\* A command is not run once a condition has failed, and its argument not counted.
MatchCond(acc, cond) ==
    IF acc.rc < 0 \/ acc.ended THEN acc
    ELSE CASE cond.kind = "all" ->
                  IF acc.args < 2 /\ cond.last THEN [acc EXCEPT !.result = @ /\ ~cond.negated, !.ended = TRUE]
                  ELSE [acc EXCEPT !.rc = -1]
           [] cond.kind = "final" -> [acc EXCEPT !.args = @ + 1]
           [] cond.kind \notin {"all", "final"} /\ cond.pattern = "missing" -> [acc EXCEPT !.rc = -1]
           [] cond.kind = "exec" /\ cond.pattern # "missing" /\ ~acc.result -> [acc EXCEPT !.args = @ + 1]
           [] \/ cond.kind \in {"host", "user"} /\ cond.pattern # "missing"
              \/ cond.kind = "exec" /\ cond.pattern # "missing" /\ acc.result ->
                  [acc EXCEPT !.args = @ + 2, !.result = @ /\ ssh_config_match(cond)]
           [] cond.kind = "originalhost" /\ cond.pattern # "missing" ->
                  [acc EXCEPT !.args = @ + 2, !.result = FALSE]
           [] OTHER -> [acc EXCEPT !.args = @ + 1, !.result = FALSE]

ParseMatch(line) ==
    LET acc == FoldLeft(MatchCond, [rc |-> 0, result |-> TRUE, args |-> 0, ended |-> FALSE], line.tokens)
    IN  [rc |-> acc.rc, parsing |-> acc.rc = 0 /\ acc.args + (IF acc.ended THEN 1 ELSE 0) > 0 /\ acc.result]

\* What a section line says, of the line as a whole.
Holds(line) ==
    IF line.keyword = "host"
    THEN \E i \in DOMAIN line.tokens :
            /\ Matches(line.tokens[i].pattern, opts.host) /\ ~line.tokens[i].negated
            /\ \A j \in 1..i - 1 : ~Matches(line.tokens[j].pattern, opts.host)
    ELSE /\ line.tokens # <<>>
         /\ \A i \in DOMAIN line.tokens :
               LET cond == line.tokens[i]
               IN  CASE cond.kind = "all" ->
                        ~cond.negated /\ cond.last /\ \A j \in 1..i - 1 : line.tokens[j].kind = "final"
                     [] cond.kind = "final" -> TRUE
                     [] cond.kind \in {"host", "user", "exec"} -> cond.pattern # "missing" /\ ssh_config_match(cond)
                     [] OTHER -> FALSE

-----------------------------------------------------------------------------
(***************************************************************************)
(* Options.                                                                *)
(***************************************************************************)

\* ssh_options_set as the lines use it, whose result they do not look at: an argument that is refused
\* leaves the option as it is, save a user name, which is stored before its syntax is checked.
ssh_options_set(o, keyword, arg) ==
    CASE keyword = "hostname" /\ arg = "u2@h2" -> [o EXCEPT !.host = "h2", !.user = "u2"]
      [] keyword = "hostname" /\ arg \notin {"invalid", "u2@h2"} -> [o EXCEPT !.host = arg]
      [] keyword = "user" -> [o EXCEPT !.user = arg]
      [] keyword = "port" /\ arg # "invalid" -> [o EXCEPT !.port = (IF arg = "65536" THEN 65536 ELSE 2222) % 65536]
      [] keyword = "userknownhostsfile" -> [o EXCEPT !.known_hosts = arg]
      [] keyword = "ciphers" /\ arg # "invalid" -> [o EXCEPT !.methods = arg]
      [] keyword = "proxycommand" /\ arg # "empty" -> [o EXCEPT !.command = IF arg = "none" THEN NULL ELSE arg]
      [] OTHER -> o

\* A list that is refused frees the jumps in any case.
ssh_config_parse_proxy_jump(s, arg, do_parsing) ==
    CASE arg = "invalid" -> [s EXCEPT !.rc = -1, !.opts.jumps = NULL]
      [] arg = "none" -> [s EXCEPT !.opts.jumps = IF do_parsing THEN NULL ELSE @]
      [] OTHER -> [s EXCEPT !.opts.jumps = IF do_parsing THEN arg ELSE @]

\* Variant: nothing is marked.
SeesNothing(line) == seen

\* A line that counts is marked before its argument is looked at.
Seen(line) == IF parsing THEN seen \cup {line.keyword} ELSE seen

\* Variant: each proxy keyword looks at its own mark only.
NoOther(keyword) == "none"

\* ProxyCommand and ProxyJump look at each other's mark.
Other(keyword) == IF keyword = "proxycommand" THEN "proxyjump" ELSE "proxycommand"

\* The rest of ssh_config_parse_line_internal for a line that is not skipped.
ParseOption(line) ==
    LET marked == [opts |-> opts, seen |-> Seen(line), rc |-> 0, takes |-> FALSE]
        counts == parsing /\ (line.keyword \in {"proxycommand", "proxyjump"} => Other(line.keyword) \notin marked.seen)
        set == [marked EXCEPT !.opts = ssh_options_set(@, line.keyword, line.arg), !.takes = TRUE]
    IN  CASE line.keyword = "proxyjump" ->
                 IF line.arg = "missing" THEN [marked EXCEPT !.rc = -1]
                 ELSE [ssh_config_parse_proxy_jump(marked, line.arg, counts) EXCEPT !.takes = counts]
          [] line.keyword = "addressfamily" ->
                 [marked EXCEPT !.rc = IF line.arg = "missing" \/ (line.arg = "invalid" /\ parsing) THEN -1 ELSE 0]
          [] OTHER -> IF line.arg = "missing" \/ ~counts THEN marked ELSE set

-----------------------------------------------------------------------------
(***************************************************************************)
(* Files.                                                                  *)
(***************************************************************************)

\* Variant: a line that is an error is passed over.
PassesOver == UNCHANGED <<files, state>>

\* A line that is an error ends its file; in an included file nobody hears of it.
Breaks ==
    IF Len(files) > 1 THEN files' = Tail(files) /\ UNCHANGED state
    ELSE files' = <<>> /\ state' = "failed"

Broken == Breaks /\ broken' = broken \cup {IF Len(files) > 1 THEN "included" ELSE Head(files)}

Reads(line) == state = "parses" /\ files # <<>> /\ read < MaxLines /\ read' = read + 1 /\ line \in Lines

HostLine == \E line \in Lines :
    /\ Reads(line) /\ line.keyword = "host"
    /\ parsing' = ParseHost(line) /\ section' = Holds(line)
    /\ UNCHANGED <<opts, seen, files, state, applied, broken>>

MatchLine == \E line \in Lines :
    /\ Reads(line) /\ line.keyword = "match"
    /\ parsing' = ParseMatch(line).parsing /\ section' = Holds(line)
    /\ IF ParseMatch(line).rc < 0 THEN Broken ELSE UNCHANGED <<files, state, broken>>
    /\ UNCHANGED <<opts, seen, applied>>

\* Variant: the limit is looked at after the file was opened.
LimitAfter(depth) == depth < MaxDepth + 1

WithinDepth(depth) == depth < MaxDepth

\* The files of a glob are read one after the other, each to its end; too deep or missing ones are passed over.
IncludeLine == \E line \in Lines :
    /\ Reads(line) /\ line.keyword = "include"
    /\ \/ parsing /\ WithinDepth(Len(files) - 1) /\ files' = <<"included">> \o files
       \/ UNCHANGED files
    /\ UNCHANGED <<opts, seen, parsing, state, applied, section, broken>>

OptionLine == \E line \in Lines :
    /\ Reads(line) /\ line.keyword \in Keywords
    /\ IF parsing /\ line.keyword \in seen
       THEN UNCHANGED <<opts, seen, files, state, applied, broken>>
       ELSE LET s == ParseOption(line)
            IN  /\ opts' = s.opts /\ seen' = s.seen
                /\ applied' = IF s.takes THEN [applied EXCEPT ![line.keyword] = @ + 1] ELSE applied
                /\ IF s.rc < 0 THEN Broken ELSE UNCHANGED <<files, state, broken>>
    /\ UNCHANGED <<parsing, section>>

\* Of an included file, of ~/.ssh/config, which may be missing, and of the global file.
EndOfFile ==
    /\ state = "parses" /\ files # <<>>
    /\ files' = IF Head(files) = "user" THEN <<"global">> ELSE Tail(files)
    /\ parsing' = (parsing \/ Head(files) = "user") /\ section' = (section \/ Head(files) = "user")
    /\ UNCHANGED <<opts, seen, state, read, applied, broken>>

\* Variant: the default replaces what is set.
AppliesDefaults ==
    /\ state = "parses" /\ files = <<>> /\ state' = "connects"
    /\ opts' = [opts EXCEPT !.known_hosts = "default"]
    /\ UNCHANGED <<seen, parsing, files, read, applied, section, broken>>

\* ssh_options_apply and the choice of ssh_connect.
ssh_connect ==
    /\ state = "parses" /\ files = <<>>
    /\ opts' = [opts EXCEPT !.known_hosts = IF @ = NULL THEN "default" ELSE @]
    /\ state' = IF Fd THEN "fd" ELSE IF opts.jumps # NULL THEN "jumps"
                ELSE IF opts.command # NULL THEN "command" ELSE "connects"
    /\ UNCHANGED <<seen, parsing, files, read, applied, section, broken>>

Next == HostLine \/ MatchLine \/ IncludeLine \/ OptionLine \/ EndOfFile \/ ssh_connect
Spec == Init /\ [][Next]_vars

-----------------------------------------------------------------------------
TypeOK ==
    /\ seen \subseteq Keywords /\ parsing \in BOOLEAN /\ opts.port \in 0..65535
    /\ files \in Seq({"user", "global", "included"}) /\ Len(files) <= MaxDepth + 1
    /\ state \in {"parses", "failed", "fd", "jumps", "command", "connects"}

\* Across both files and everything they include, one line at most of each keyword takes effect: what
\* the user's file has settled the global file does not change.
AppliedOnce == \A k \in Keywords : applied[k] <= 1

\* ProxyCommand and ProxyJump lines exclude each other, whichever comes first.
ProxyExclusive == applied["proxycommand"] = 0 \/ applied["proxyjump"] = 0

\* Lines count exactly while the last Host or Match line holds, read with the host and user of that
\* moment, also after an include and after an error in an included file.
SectionsAreRight == parsing = section

\* The connection is given up exactly if a line of a file that is not included is an error.
FailsByItsOwnFiles == state = "failed" <=> broken \cap {"user", "global"} # {}

\* An option of SSHKit that no line has set is used as SSHKit has set it.
UnnamedSurvive ==
    /\ applied["hostname"] = 0 => opts.host = Own.host
    /\ applied["hostname"] = 0 /\ applied["user"] = 0 => opts.user = Own.user
    /\ applied["port"] = 0 => opts.port = Own.port
    /\ applied["userknownhostsfile"] = 0 /\ Own.known_hosts # NULL => opts.known_hosts = Own.known_hosts
    /\ applied["ciphers"] = 0 => opts.methods = Own.methods
=============================================================================
