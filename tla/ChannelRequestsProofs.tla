------------------------ MODULE ChannelRequestsProofs ------------------------
(***************************************************************************)
(* Proof that every job of a session runs what was asked for, returns the  *)
(* result that the server reported, and leaves no channel behind, for      *)
(* every number of channels, whichever calls time out.                     *)
(***************************************************************************)
EXTENDS ChannelRequests, FiniteSetTheorems, SequenceTheorems, TLAPS

-----------------------------------------------------------------------------
(***************************************************************************)
(* Queues: what is in one, and in which order.                             *)
(***************************************************************************)

Types == {"open", "request", "notice", "close", "confirmation", "refusal", "reply", "exit", "eof"}
Whats == {"session", "exec", "pty", "shell", "window-change", "", "accepted", "denied", "status"}
Packets == [type : Types, channel : Ids, what : Whats]
Words(c) == {p \in Packets : p.channel = c}
Word(c, type) == {p \in Packets : p.channel = c /\ p.type = type}

In(q, S) == \E i \in 1..Len(q) : q[i] \in S

\* Nothing of R comes before something of S.
Before(q, S, R) == \A i, j \in 1..Len(q) : q[i] \in S /\ q[j] \in R => i <= j

LEMMA InTail ==
    ASSUME NEW T, NEW q \in Seq(T), q # <<>>
    PROVE  \A S : In(q, S) <=> (Head(q) \in S \/ In(Tail(q), S))
  <1>1. Len(q) \in Nat /\ Len(q) >= 1 /\ Len(Tail(q)) = Len(q) - 1 /\ Head(q) = q[1]
        /\ \A i \in 1..(Len(q) - 1) : Tail(q)[i] = q[i + 1]
    OBVIOUS
  <1>2. ASSUME NEW S, In(q, S) PROVE Head(q) \in S \/ In(Tail(q), S)
    <2>1. PICK i \in 1..Len(q) : q[i] \in S  BY <1>2 DEF In
    <2>2. CASE i = 1  BY <1>1, <2>1, <2>2
    <2>3. CASE i # 1
      <3>1. i - 1 \in 1..(Len(q) - 1) /\ i = (i - 1) + 1  BY <1>1, <2>3
      <3>2. Tail(q)[i - 1] = q[i]  BY <1>1, <3>1
      <3>. QED  BY <1>1, <2>1, <3>1, <3>2 DEF In
    <2>. QED  BY <2>2, <2>3
  <1>3. ASSUME NEW S, Head(q) \in S PROVE In(q, S)  BY <1>1, <1>3 DEF In
  <1>4. ASSUME NEW S, In(Tail(q), S) PROVE In(q, S)
    <2>1. PICK i \in 1..(Len(q) - 1) : Tail(q)[i] \in S  BY <1>1, <1>4 DEF In
    <2>2. i + 1 \in 1..Len(q) /\ q[i + 1] \in S  BY <1>1, <2>1
    <2>. QED  BY <2>2 DEF In
  <1>. QED  BY <1>2, <1>3, <1>4

LEMMA InAppend ==
    ASSUME NEW T, NEW q \in Seq(T), NEW e \in T
    PROVE  \A S : In(Append(q, e), S) <=> (In(q, S) \/ e \in S)
  <1>1. Len(q) \in Nat /\ Len(Append(q, e)) = Len(q) + 1 /\ Append(q, e)[Len(q) + 1] = e
        /\ \A i \in 1..Len(q) : Append(q, e)[i] = q[i]
    OBVIOUS
  <1>2. ASSUME NEW S, In(Append(q, e), S) PROVE In(q, S) \/ e \in S
    <2>1. PICK i \in 1..(Len(q) + 1) : Append(q, e)[i] \in S  BY <1>1, <1>2 DEF In
    <2>2. CASE i = Len(q) + 1  BY <1>1, <2>1, <2>2
    <2>3. CASE i # Len(q) + 1
      <3>1. i \in 1..Len(q)  BY <1>1, <2>3
      <3>. QED  BY <1>1, <2>1, <3>1 DEF In
    <2>. QED  BY <2>2, <2>3
  <1>3. ASSUME NEW S, In(q, S) PROVE In(Append(q, e), S)
    <2>1. PICK i \in 1..Len(q) : q[i] \in S  BY <1>3 DEF In
    <2>2. i \in 1..(Len(q) + 1) /\ Append(q, e)[i] \in S  BY <1>1, <2>1
    <2>. QED  BY <1>1, <2>2 DEF In
  <1>4. ASSUME NEW S, e \in S PROVE In(Append(q, e), S)
    <2>1. Len(q) + 1 \in 1..(Len(q) + 1)  BY <1>1
    <2>. QED  BY <1>1, <1>4, <2>1 DEF In
  <1>. QED  BY <1>2, <1>3, <1>4

\* What is taken out first leaves the order of the others as it was.
LEMMA BeforeTail ==
    ASSUME NEW T, NEW q \in Seq(T), q # <<>>
    PROVE  \A S, R : Before(q, S, R) => Before(Tail(q), S, R) /\ (Head(q) \in R => ~In(Tail(q), S))
  <1>1. Len(q) \in Nat /\ Len(q) >= 1 /\ Len(Tail(q)) = Len(q) - 1 /\ Head(q) = q[1]
        /\ \A i \in 1..(Len(q) - 1) : Tail(q)[i] = q[i + 1]
    OBVIOUS
  <1>2. ASSUME NEW S, NEW R, Before(q, S, R) PROVE Before(Tail(q), S, R)
    <2>1. ASSUME NEW i \in 1..Len(Tail(q)), NEW j \in 1..Len(Tail(q)), Tail(q)[i] \in S, Tail(q)[j] \in R
          PROVE  i <= j
      <3>1. i + 1 \in 1..Len(q) /\ j + 1 \in 1..Len(q) /\ q[i + 1] \in S /\ q[j + 1] \in R  BY <1>1, <2>1
      <3>2. i + 1 <= j + 1  BY <1>2, <3>1 DEF Before
      <3>. QED  BY <1>1, <3>2
    <2>. QED  BY <2>1 DEF Before
  <1>3. ASSUME NEW S, NEW R, Before(q, S, R), Head(q) \in R, In(Tail(q), S) PROVE FALSE
    <2>1. PICK i \in 1..(Len(q) - 1) : Tail(q)[i] \in S  BY <1>1, <1>3 DEF In
    <2>2. i + 1 \in 1..Len(q) /\ q[i + 1] \in S /\ 1 \in 1..Len(q) /\ q[1] \in R  BY <1>1, <1>3, <2>1
    <2>3. i + 1 <= 1  BY <1>3, <2>2 DEF Before
    <2>. QED  BY <1>1, <2>3
  <1>. QED  BY <1>2, <1>3

LEMMA BeforeAppend ==
    ASSUME NEW T, NEW q \in Seq(T), NEW e \in T
    PROVE  \A S, R : Before(q, S, R) /\ (e \in S => ~In(q, R)) => Before(Append(q, e), S, R)
  <1>1. Len(q) \in Nat /\ Len(Append(q, e)) = Len(q) + 1 /\ Append(q, e)[Len(q) + 1] = e
        /\ \A i \in 1..Len(q) : Append(q, e)[i] = q[i]
    OBVIOUS
  <1>2. ASSUME NEW S, NEW R, Before(q, S, R), e \in S => ~In(q, R),
               NEW i \in 1..(Len(q) + 1), NEW j \in 1..(Len(q) + 1), Append(q, e)[i] \in S, Append(q, e)[j] \in R
        PROVE  i <= j
    <2>1. CASE j = Len(q) + 1  BY <1>1, <2>1
    <2>2. CASE j # Len(q) + 1 /\ i # Len(q) + 1
      <3>1. i \in 1..Len(q) /\ j \in 1..Len(q)  BY <1>1, <2>2
      <3>. QED  BY <1>1, <1>2, <3>1 DEF Before
    <2>3. CASE j # Len(q) + 1 /\ i = Len(q) + 1
      <3>1. j \in 1..Len(q)  BY <1>1, <2>3
      <3>. QED  BY <1>1, <1>2, <2>3, <3>1 DEF In
    <2>. QED  BY <2>1, <2>2, <2>3
  <1>. QED  BY <1>1, <1>2 DEF Before

-----------------------------------------------------------------------------
(***************************************************************************)
(* The inductive invariant.                                                *)
(***************************************************************************)

NoServer == [phase |-> "none", status |-> FALSE, closed |-> FALSE, gotClose |-> FALSE]
Untouched(c) == server[c] = NoServer /\ granted[c] = <<>>
Silent(c) == ~In(down, Words(c))
NothingSent(c) == ~In(up, Words(c))

\* The job of the channel is the one that runs, and waits for the channel to open.
Runs(c) == c = maxchannel /\ jobPc # "idle"
Opens(c) == c = maxchannel /\ jobPc = "opening"
Waits(c) == c \in overdue \/ (Opens(c) /\ channel[c].state = "opening")

\* A channel that was not opened yet.
Unused(c) ==
    c > maxchannel =>
        /\ channel[c] = NoChannel /\ results[c] = "none" /\ c \notin overdue
        /\ Untouched(c) /\ Silent(c) /\ NothingSent(c)

\* The open, and what answers it, are alone.
Asked(c) ==
    In(up, Word(c, "open")) =>
        /\ Untouched(c) /\ Silent(c) /\ Waits(c)
        /\ Before(up, Word(c, "open"), Words(c)) /\ Before(up, Words(c), Word(c, "open"))
Refused(c) ==
    In(down, Word(c, "refusal")) =>
        /\ Untouched(c) /\ NothingSent(c) /\ Waits(c)
        /\ Before(down, Word(c, "refusal"), Words(c)) /\ Before(down, Words(c), Word(c, "refusal"))
Confirmed(c) ==
    In(down, Word(c, "confirmation")) =>
        /\ server[c].phase # "none" /\ NothingSent(c) /\ Waits(c)
        /\ Before(down, Word(c, "confirmation"), Words(c))

\* The state of the channel is that of its open.
StateInv(c) ==
    /\ c \in overdue => ~Known(c)
    /\ channel[c].state = "none" => channel[c] = NoChannel
    /\ channel[c].state = "opening" =>
        /\ Opens(c) /\ channel[c].flags = {"notBound"} /\ channel[c].request = "none" /\ channel[c].exit = "none"
        /\ server[c].phase # "none" => In(down, Word(c, "confirmation"))
    /\ channel[c].state = "denied" =>
        Opens(c) /\ channel[c].flags = {"notBound"} /\ Untouched(c) /\ Silent(c) /\ NothingSent(c)
    /\ channel[c].state \in {"open", "closed"} =>
        /\ "notBound" \notin channel[c].flags /\ server[c].phase # "none"
        /\ ~In(down, Word(c, "confirmation")) /\ ~In(down, Word(c, "refusal"))
        /\ ~In(up, Word(c, "open"))

\* The server's close is its last word, and a channel is destroyed only when none can come.
CloseInv(c) ==
    /\ Before(down, Words(c), Word(c, "close"))
    /\ In(down, Word(c, "close")) => server[c].closed
    /\ In(down, Words(c) \ Word(c, "refusal")) \/ server[c].closed \/ In(up, Words(c) \ Word(c, "open")) =>
        server[c].phase # "none"
    /\ "closedRemote" \in channel[c].flags => server[c].closed /\ Silent(c)
    /\ ~Known(c) /\ c \notin overdue => Silent(c) /\ (server[c].closed \/ (Untouched(c) /\ NothingSent(c)))

\* A channel that the server holds is the one of the job, or its close was sent.
HeldInv(c) ==
    server[c].phase # "none" /\ ~server[c].gotClose /\ ~In(up, Word(c, "close")) => Runs(c) \/ c \in overdue

\* The exit status is on its way or known, until the channel is destroyed.
ExitInv(c) ==
    /\ In(down, Word(c, "exit")) \/ channel[c].exit = "status" => server[c].status
    /\ server[c].status => server[c].phase = "ended"
    /\ server[c].status /\ Known(c) => channel[c].exit = "status" \/ In(down, Word(c, "exit"))
    /\ results[c] = "status" => server[c].status
    /\ results[c] = "noStatus" => ~server[c].status /\ server[c].closed

\* A channel has one request under way.
RequestInv(c) ==
    /\ In(up, Word(c, "request")) => server[c].phase = "open" /\ ~In(down, Word(c, "reply"))
    /\ Before(up, Word(c, "request"), Word(c, "request"))
    /\ Before(down, Word(c, "reply"), Word(c, "reply"))
    /\ (In(up, Word(c, "request")) \/ In(down, Word(c, "reply"))) /\ Known(c) =>
        channel[c].request = "pending"

OpenInv(c) == Unused(c) /\ Asked(c) /\ Refused(c) /\ Confirmed(c) /\ StateInv(c) /\ CloseInv(c) /\ HeldInv(c)
ChannelInv(c) == OpenInv(c) /\ ExitInv(c) /\ RequestInv(c)

\* What the server has granted is what the job has asked so far.
Prefix(n) == IF n = 0 THEN <<>> ELSE IF n = Len(Asks(kind)) THEN Asks(kind) ELSE <<Asks(kind)[1]>>
Requested == JobPacket("request", maxchannel, Asks(kind)[step])
AcceptedReply == JobPacket("reply", maxchannel, "accepted")
JobInv ==
    /\ jobPc = "opening" =>
        /\ step = 1 /\ granted[maxchannel] = <<>>
        /\ Current.request = "none" /\ server[maxchannel].phase \in {"none", "open"}
    /\ jobPc = "ready" =>
        /\ step <= Len(Asks(kind)) /\ Current.request = "none"
        /\ granted[maxchannel] = Prefix(step - 1) /\ server[maxchannel].phase = "open"
    /\ jobPc = "requesting" =>
        /\ step <= Len(Asks(kind)) /\ Current.request # "none"
        /\ ~In(up, Word(maxchannel, "request") \ {Requested})
        /\ In(up, Word(maxchannel, "request")) => granted[maxchannel] = Prefix(step - 1)
        /\ Current.request = "accepted" \/ In(down, {AcceptedReply}) =>
            granted[maxchannel] = Prefix(step) /\ (step < Len(Asks(kind)) => server[maxchannel].phase = "open")
    /\ jobPc = "running" => Current.request = "none" /\ granted[maxchannel] = Asks(kind)
    /\ jobPc \notin {"idle", "opening"} => Current.state \in {"open", "closed"}

Channel == [state : {"none", "opening", "open", "denied", "closed"},
            request : {"none", "pending", "accepted", "denied"},
            flags : SUBSET {"notBound", "closedRemote", "closedLocal", "freedLocal"},
            eof : BOOLEAN, exit : {"none", "status"}]
Serving == [phase : {"none", "open", "running", "ended"}, status : BOOLEAN, closed : BOOLEAN, gotClose : BOOLEAN]

Sent ==
    {p \in Packets :
        /\ p.type \in {"open", "request", "notice", "close"}
        /\ p.type = "request" => p.what \in {"exec", "pty", "shell"}}
Received ==
    {p \in Packets :
        /\ p.type \in {"confirmation", "refusal", "reply", "exit", "eof", "close"}
        /\ p.type = "reply" => p.what \in {"accepted", "denied"}
        /\ p.type = "exit" => p.what = "status"}

Typed ==
    /\ jobPc \in {"idle", "opening", "ready", "requesting", "running", "exiting", "closing"}
    /\ kind \in {"command", "ptyCommand", "shell"} /\ kind \in Kinds \cup {"command"}
    /\ step \in 1..3 /\ maxchannel \in 0..MaxChannels
    /\ channel \in [Ids -> Channel]
    /\ results \in [Ids -> {"none", "failed", "status", "noStatus"}] /\ overdue \in SUBSET Ids
    /\ server \in [Ids -> Serving] /\ granted \in [Ids -> Seq({"exec", "pty", "shell"})]
    /\ up \in Seq(Sent) /\ down \in Seq(Received)
    /\ jobPc # "idle" =>
        maxchannel \in Ids /\ Known(maxchannel) /\ "freedLocal" \notin Current.flags /\ maxchannel \notin overdue

IInv == Typed /\ JobInv /\ \A c \in Ids : ChannelInv(c)

-----------------------------------------------------------------------------
(***************************************************************************)
(* What a step leaves alone.                                               *)
(***************************************************************************)

\* For the channel c, the queue r says what q did.
SameQueue(q, r, c) ==
    /\ \A S \in SUBSET Words(c) : In(r, S) <=> In(q, S)
    /\ \A S, R \in SUBSET Words(c) : Before(q, S, R) => Before(r, S, R)

LEMMA SameSame == ASSUME NEW q, NEW c PROVE SameQueue(q, q, c)
  BY DEF SameQueue

LEMMA SameTail ==
    ASSUME NEW T, NEW q \in Seq(T), q # <<>>, NEW c, Head(q) \notin Words(c)
    PROVE  SameQueue(q, Tail(q), c)
  <1>1. \A S \in SUBSET Words(c) : In(Tail(q), S) <=> In(q, S)
    <2>1. \A S : In(q, S) <=> (Head(q) \in S \/ In(Tail(q), S))  BY InTail
    <2>. QED  BY <2>1
  <1>2. \A S, R \in SUBSET Words(c) : Before(q, S, R) => Before(Tail(q), S, R)  BY BeforeTail
  <1>. QED  BY <1>1, <1>2 DEF SameQueue

LEMMA SameAppend ==
    ASSUME NEW T, NEW q \in Seq(T), NEW e \in T, NEW c, e \notin Words(c)
    PROVE  SameQueue(q, Append(q, e), c)
  <1>1. \A S \in SUBSET Words(c) : In(Append(q, e), S) <=> In(q, S)
    <2>1. \A S : In(Append(q, e), S) <=> (In(q, S) \/ e \in S)  BY InAppend
    <2>. QED  BY <2>1
  <1>2. \A S, R \in SUBSET Words(c) : Before(q, S, R) => Before(Append(q, e), S, R)
    <2>1. ASSUME NEW S \in SUBSET Words(c), NEW R \in SUBSET Words(c), Before(q, S, R)
          PROVE  Before(Append(q, e), S, R)
      <3>1. e \notin S  OBVIOUS
      <3>. QED  BY <2>1, <3>1, BeforeAppend
    <2>. QED  BY <2>1
  <1>. QED  BY <1>1, <1>2 DEF SameQueue

LEMMA WordsOf == ASSUME NEW c PROVE /\ \A type : Word(c, type) \in SUBSET Words(c)
                                    /\ Words(c) \in SUBSET Words(c)
                                    /\ \A type : Words(c) \ Word(c, type) \in SUBSET Words(c)
  BY DEF Word, Words

\* The same for the sets of words that the invariant is about.
LEMMA SameWords ==
    ASSUME NEW q, NEW r, NEW c, SameQueue(q, r, c)
    PROVE  /\ \A type : In(r, Word(c, type)) <=> In(q, Word(c, type))
           /\ In(r, Words(c)) <=> In(q, Words(c))
           /\ \A type : In(r, Words(c) \ Word(c, type)) <=> In(q, Words(c) \ Word(c, type))
           /\ \A type : Before(q, Word(c, type), Words(c)) => Before(r, Word(c, type), Words(c))
           /\ \A type : Before(q, Words(c), Word(c, type)) => Before(r, Words(c), Word(c, type))
           /\ \A type : Before(q, Word(c, type), Word(c, type)) => Before(r, Word(c, type), Word(c, type))
  BY WordsOf DEF SameQueue

LEMMA OpenFrame ==
    ASSUME NEW c \in Ids, OpenInv(c), SameQueue(up, up', c), SameQueue(down, down', c),
           server'[c] = server[c], granted'[c] = granted[c], c \in overdue' <=> c \in overdue,
           Runs(c)' <=> Runs(c), (Opens(c)' <=> Opens(c)) \/ channel[c].state \in {"open", "closed"},
           c > maxchannel' => c > maxchannel, c > maxchannel => results'[c] = results[c],
           channel'[c].state = channel[c].state, channel'[c].flags = channel[c].flags,
           channel'[c].exit = channel[c].exit,
           channel'[c] = channel[c] \/ channel[c].state \in {"open", "closed"}
    PROVE  OpenInv(c)'
  <1>1. /\ \A type : In(up', Word(c, type)) <=> In(up, Word(c, type))
        /\ In(up', Words(c)) <=> In(up, Words(c))
        /\ \A type : In(up', Words(c) \ Word(c, type)) <=> In(up, Words(c) \ Word(c, type))
        /\ \A type : Before(up, Word(c, type), Words(c)) => Before(up', Word(c, type), Words(c))
        /\ \A type : Before(up, Words(c), Word(c, type)) => Before(up', Words(c), Word(c, type))
    BY SameWords
  <1>2. /\ \A type : In(down', Word(c, type)) <=> In(down, Word(c, type))
        /\ In(down', Words(c)) <=> In(down, Words(c))
        /\ \A type : In(down', Words(c) \ Word(c, type)) <=> In(down, Words(c) \ Word(c, type))
        /\ \A type : Before(down, Word(c, type), Words(c)) => Before(down', Word(c, type), Words(c))
        /\ \A type : Before(down, Words(c), Word(c, type)) => Before(down', Words(c), Word(c, type))
    BY SameWords
  <1>3. Untouched(c)' <=> Untouched(c)  BY DEF Untouched
  <1>4. (Silent(c)' <=> Silent(c)) /\ (NothingSent(c)' <=> NothingSent(c))  BY <1>1, <1>2 DEF Silent, NothingSent
  <1>5. Waits(c) => Waits(c)'  BY DEF Waits
  <1>6. (Known(c)' <=> Known(c))  BY DEF Known
  <1>7. Unused(c)'  BY <1>3, <1>4 DEF OpenInv, Unused, NoChannel
  <1>8. Asked(c)'  BY <1>1, <1>3, <1>4, <1>5 DEF OpenInv, Asked
  <1>9. Refused(c)'  BY <1>2, <1>3, <1>4, <1>5 DEF OpenInv, Refused
  <1>10. Confirmed(c)'  BY <1>2, <1>4, <1>5 DEF OpenInv, Confirmed
  <1>11. StateInv(c)'  BY <1>1, <1>2, <1>3, <1>4, <1>6 DEF OpenInv, StateInv
  <1>12. CloseInv(c)'  BY <1>1, <1>2, <1>3, <1>4, <1>6 DEF OpenInv, CloseInv
  <1>13. HeldInv(c)'  BY <1>1 DEF OpenInv, HeldInv
  <1>. QED  BY <1>7, <1>8, <1>9, <1>10, <1>11, <1>12, <1>13 DEF OpenInv

LEMMA ExitFrame ==
    ASSUME NEW c \in Ids, ExitInv(c), SameQueue(down, down', c), server'[c] = server[c],
           results'[c] = results[c], channel'[c].state = channel[c].state, channel'[c].exit = channel[c].exit
    PROVE  ExitInv(c)'
  BY SameWords DEF ExitInv, Known

LEMMA RequestFrame ==
    ASSUME NEW c \in Ids, RequestInv(c), SameQueue(up, up', c), SameQueue(down, down', c),
           server'[c] = server[c], channel'[c].state = channel[c].state,
           channel'[c].request = channel[c].request \/ channel[c].request # "pending"
    PROVE  RequestInv(c)'
  <1>1. /\ \A type : In(up', Word(c, type)) <=> In(up, Word(c, type))
        /\ \A type : Before(up, Word(c, type), Word(c, type)) => Before(up', Word(c, type), Word(c, type))
    BY SameWords
  <1>2. /\ \A type : In(down', Word(c, type)) <=> In(down, Word(c, type))
        /\ \A type : Before(down, Word(c, type), Word(c, type)) => Before(down', Word(c, type), Word(c, type))
    BY SameWords
  <1>. QED  BY <1>1, <1>2 DEF RequestInv, Known

\* A channel that the step has nothing to do with.
LEMMA Frame ==
    ASSUME NEW c \in Ids, ChannelInv(c), SameQueue(up, up', c), SameQueue(down, down', c),
           server'[c] = server[c], granted'[c] = granted[c], c \in overdue' <=> c \in overdue,
           Runs(c)' <=> Runs(c), Opens(c)' <=> Opens(c), c > maxchannel' => c > maxchannel,
           results'[c] = results[c], channel'[c] = channel[c]
    PROVE  ChannelInv(c)'
  <1>1. OpenInv(c)'  BY OpenFrame DEF ChannelInv
  <1>2. ExitInv(c)'  BY ExitFrame DEF ChannelInv
  <1>3. RequestInv(c)'  BY RequestFrame DEF ChannelInv
  <1>. QED  BY <1>1, <1>2, <1>3 DEF ChannelInv

\* Who is not in a channel's words is in none of its kinds.
LEMMA InWords ==
    ASSUME NEW q, NEW c
    PROVE  /\ \A type : In(q, Word(c, type)) => In(q, Words(c))
           /\ \A type, other : type # other /\ In(q, Word(c, type)) => In(q, Words(c) \ Word(c, other))
           /\ \A type : In(q, Words(c) \ Word(c, type)) => In(q, Words(c))
  BY DEF In, Word, Words

-----------------------------------------------------------------------------
(***************************************************************************)
(* What a job asks for.                                                    *)
(***************************************************************************)

LEMMA Pair == ASSUME NEW a, NEW b PROVE Append(<<a>>, b) = <<a, b>>
  <1>. DEFINE p == Append(<<a>>, b)
              q == <<a, b>>
  <1>1. <<a>> \in Seq({a, b}) /\ Len(<<a>>) = 1 /\ <<a>>[1] = a  OBVIOUS
  <1>2. p \in Seq({a, b}) /\ Len(p) = 2 /\ p[1] = a /\ p[2] = b  BY <1>1
  <1>3. q \in Seq({a, b}) /\ Len(q) = 2 /\ q[1] = a /\ q[2] = b  OBVIOUS
  <1>. HIDE DEF p, q
  <1>4. \A i \in 1..2 : i = 1 \/ i = 2  OBVIOUS
  <1>5. p = q  BY <1>2, <1>3, <1>4
  <1>. QED  BY <1>5 DEF p, q

LEMMA AsksOf ==
    ASSUME kind \in {"command", "ptyCommand", "shell"}
    PROVE  /\ Len(Asks(kind)) \in {1, 2}
           /\ \A n \in 1..Len(Asks(kind)) : /\ Asks(kind)[n] \in {"exec", "pty", "shell"}
                                            /\ Asks(kind)[n] = "pty" <=> n < Len(Asks(kind))
           /\ Prefix(0) = <<>> /\ Prefix(Len(Asks(kind))) = Asks(kind)
           /\ \A n \in 1..Len(Asks(kind)) : Append(Prefix(n - 1), Asks(kind)[n]) = Prefix(n)
  <1>1. CASE kind = "command"
    <2>1. Asks(kind) = <<"exec">>  BY <1>1 DEF Asks
    <2>. QED  BY <2>1 DEF Prefix
  <1>2. ASSUME NEW last \in {"exec", "shell"}, Asks(kind) = <<"pty", last>>
        PROVE  /\ Len(Asks(kind)) = 2
               /\ \A n \in 1..2 : /\ Asks(kind)[n] \in {"exec", "pty", "shell"}
                                  /\ Asks(kind)[n] = "pty" <=> n < 2
               /\ Prefix(0) = <<>> /\ Prefix(2) = Asks(kind) /\ Prefix(1) = <<"pty">>
               /\ \A n \in 1..2 : Append(Prefix(n - 1), Asks(kind)[n]) = Prefix(n)
    <2>1. Len(Asks(kind)) = 2 /\ Asks(kind)[1] = "pty" /\ Asks(kind)[2] = last  BY <1>2
    <2>2. Prefix(0) = <<>> /\ Prefix(2) = <<"pty", last>> /\ Prefix(1) = <<"pty">>  BY <1>2, <2>1 DEF Prefix
    <2>3. Append(Prefix(0), Asks(kind)[1]) = Prefix(1)
      <3>1. Append(<<>>, "pty") = <<"pty">>  OBVIOUS
      <3>. QED  BY <2>1, <2>2, <3>1
    <2>4. Append(Prefix(1), Asks(kind)[2]) = Prefix(2)
      <3>1. Append(<<"pty">>, last) = <<"pty", last>>  BY Pair
      <3>. QED  BY <2>1, <2>2, <3>1
    <2>5. \A n \in 1..2 : n = 1 \/ n = 2  OBVIOUS
    <2>6. \A n \in 1..2 : Append(Prefix(n - 1), Asks(kind)[n]) = Prefix(n)
      <3>1. 1 - 1 = 0 /\ 2 - 1 = 1  OBVIOUS
      <3>. QED  BY <2>3, <2>4, <2>5, <3>1
    <2>7. \A n \in 1..2 : /\ Asks(kind)[n] \in {"exec", "pty", "shell"} /\ (Asks(kind)[n] = "pty" <=> n < 2)
      BY <1>2, <2>1
    <2>. QED  BY <1>2, <2>1, <2>2, <2>6, <2>7
  <1>3. CASE kind = "ptyCommand"
    <2>1. Asks(kind) = <<"pty", "exec">>  BY <1>3 DEF Asks
    <2>. QED  BY <2>1, <1>2
  <1>4. CASE kind = "shell"
    <2>1. Asks(kind) = <<"pty", "shell">>  BY <1>4 DEF Asks
    <2>. QED  BY <2>1, <1>2
  <1>. QED  BY <1>1, <1>3, <1>4

-----------------------------------------------------------------------------
(***************************************************************************)
(* Steps of the job that send nothing.                                     *)
(***************************************************************************)

LEMMA InvFacts ==
    ASSUME RequestsAssumption, IInv
    PROVE  /\ channel \in [Ids -> Channel] /\ results \in [Ids -> {"none", "failed", "status", "noStatus"}]
           /\ server \in [Ids -> Serving] /\ granted \in [Ids -> Seq({"exec", "pty", "shell"})]
           /\ overdue \in SUBSET Ids /\ kind \in {"command", "ptyCommand", "shell"} /\ step \in 1..3
           /\ up \in Seq(Sent) /\ down \in Seq(Received) /\ maxchannel \in 0..MaxChannels
           /\ jobPc # "idle" =>
                /\ maxchannel \in Ids /\ Known(maxchannel)
                /\ "freedLocal" \notin channel[maxchannel].flags /\ maxchannel \notin overdue
           /\ maxchannel \in Nat /\ \A c \in Ids : c \in Nat /\ c > 0
           /\ \A c \in Ids : OpenInv(c) /\ ExitInv(c) /\ RequestInv(c) /\ ChannelInv(c)
  BY DEF IInv, Typed, ChannelInv, RequestsAssumption, Ids, Current

LEMMA NewRequest ==
    ASSUME RequestsAssumption, IInv, NEW c \in Ids, NEW request \in {"none", "pending", "accepted", "denied"},
           channel' = [channel EXCEPT ![c] = [channel[c] EXCEPT !.request = request]]
    PROVE  /\ channel' \in [Ids -> Channel] /\ \A d \in Ids : d # c => channel'[d] = channel[d]
           /\ channel'[c].state = channel[c].state /\ channel'[c].flags = channel[c].flags
           /\ channel'[c].exit = channel[c].exit /\ channel'[c].request = request
  <1>1. PICK ch : ch = [channel[c] EXCEPT !.request = request]  OBVIOUS
  <1>2. /\ ch \in Channel /\ ch.state = channel[c].state /\ ch.flags = channel[c].flags
        /\ ch.exit = channel[c].exit /\ ch.request = request
    <2>1. channel[c] \in Channel  BY InvFacts
    <2>. QED  BY <1>1, <2>1 DEF Channel
  <1>3. channel' = [channel EXCEPT ![c] = ch]  BY <1>1
  <1>. QED  BY <1>2, <1>3, InvFacts

\* The job goes on with its channel, which is open or was.
JobGoesOn(to) ==
    /\ jobPc # "idle" /\ channel[maxchannel].state \in {"open", "closed"}
    /\ jobPc' = to /\ to \in {"ready", "requesting", "running", "exiting", "closing"} /\ step' \in 1..3
    /\ channel' \in [Ids -> Channel] /\ results' \in [Ids -> {"none", "failed", "status", "noStatus"}]
    /\ \A c \in Ids : c # maxchannel => channel'[c] = channel[c] /\ results'[c] = results[c]
    /\ UNCHANGED <<kind, maxchannel, overdue, up, down, server, granted>>
    /\ channel'[maxchannel].state = channel[maxchannel].state
    /\ channel'[maxchannel].flags = channel[maxchannel].flags
    /\ channel'[maxchannel].exit = channel[maxchannel].exit
    /\ channel'[maxchannel].request = channel[maxchannel].request \/ channel[maxchannel].request # "pending"
    /\ results'[maxchannel] = "status" => server[maxchannel].status
    /\ results'[maxchannel] = "noStatus" => ~server[maxchannel].status /\ server[maxchannel].closed

LEMMA JobStep ==
    ASSUME RequestsAssumption, IInv, NEW to, JobGoesOn(to)
    PROVE  Typed' /\ \A c \in Ids : ChannelInv(c)'
  <1>. DEFINE m == maxchannel
  <1>1. m \in Ids /\ Known(m) /\ "freedLocal" \notin channel[m].flags /\ m \notin overdue
    BY InvFacts DEF JobGoesOn
  <1>2. maxchannel' = m  BY DEF JobGoesOn
  <1>3. Typed'
    <2>1. channel'[m].state # "none" /\ "freedLocal" \notin channel'[m].flags /\ m \notin overdue' /\ jobPc' # "idle"
      BY <1>1 DEF JobGoesOn, Known
    <2>. QED  BY <1>1, <1>2, <2>1 DEF JobGoesOn, IInv, Typed, Known, Current
  <1>4. \A c \in Ids : /\ server'[c] = server[c] /\ granted'[c] = granted[c] /\ (c \in overdue' <=> c \in overdue)
                       /\ Runs(c)' <=> Runs(c)
                       /\ (Opens(c)' <=> Opens(c)) \/ channel[c].state \in {"open", "closed"}
                       /\ SameQueue(up, up', c) /\ SameQueue(down, down', c)
    BY SameSame DEF JobGoesOn, Runs, Opens
  <1>5. ASSUME NEW c \in Ids, c # m PROVE ChannelInv(c)'
    <2>1. Opens(c)' <=> Opens(c)  BY <1>2, <1>5 DEF Opens
    <2>. QED  BY <1>2, <1>4, <1>5, <2>1, Frame, InvFacts DEF JobGoesOn
  <1>6. ASSUME NEW c \in Ids, c = m PROVE ChannelInv(c)'
    <2>1. OpenInv(c)'
      <3>1. ~(c > maxchannel)  BY <1>6, InvFacts
      <3>. QED  BY <1>2, <1>4, <1>6, <3>1, OpenFrame, InvFacts DEF JobGoesOn
    <2>2. RequestInv(c)'  BY <1>4, <1>6, RequestFrame, InvFacts DEF JobGoesOn
    <2>3. ExitInv(c)'
      <3>1. /\ down' = down /\ server' = server /\ channel'[c].state = channel[c].state
            /\ channel'[c].exit = channel[c].exit
            /\ results'[c] = "status" => server[c].status
            /\ results'[c] = "noStatus" => ~server[c].status /\ server[c].closed
        BY <1>6 DEF JobGoesOn
      <3>2. ExitInv(c)  BY InvFacts
      <3>. QED  BY <3>1, <3>2 DEF ExitInv, Known
    <2>. QED  BY <2>1, <2>2, <2>3 DEF ChannelInv
  <1>. QED  BY <1>3, <1>5, <1>6

LEMMA OpenedKeeps == ASSUME RequestsAssumption, IInv, Opened PROVE IInv'
  <1>1. JobGoesOn("ready")
    <2>1. maxchannel \in Ids  BY InvFacts DEF Opened, Current
    <2>. QED  BY <2>1, InvFacts DEF Opened, JobGoesOn, ExitInv, Current
  <1>2. JobInv'
    <2>1. step = 1 /\ granted[maxchannel] = <<>> /\ channel[maxchannel].request = "none"
          /\ server[maxchannel].phase \in {"none", "open"}
      BY DEF Opened, IInv, JobInv, Current
    <2>2. server[maxchannel].phase # "none"
      BY InvFacts DEF Opened, OpenInv, StateInv, Current
    <2>3. kind \in {"command", "ptyCommand", "shell"}  BY InvFacts
    <2>4. Prefix(0) = <<>> /\ Len(Asks(kind)) \in {1, 2}  BY <2>3, AsksOf
    <2>5. (Prefix(0))' = Prefix(0)  BY DEF Opened, Prefix, Current
    <2>6. step' = 1 /\ kind' = kind  BY <2>1 DEF Opened
    <2>7. 1 - 1 = 0  OBVIOUS
    <2>8. step' <= Len(Asks(kind')) /\ (Prefix(step - 1))' = <<>>  BY <2>4, <2>6, <2>7 DEF Prefix
    <2>. QED  BY <2>1, <2>2, <2>6, <2>8 DEF Opened, JobInv, Current
  <1>. QED  BY <1>1, <1>2, JobStep DEF IInv

\* What is left of JobInv when the job only has to close its channel.
LEMMA ClosingKeeps ==
    ASSUME RequestsAssumption, IInv, NEW to \in {"exiting", "closing"}, JobGoesOn(to)
    PROVE  IInv'
  <1>1. JobInv'  BY DEF JobGoesOn, JobInv, Current
  <1>. QED  BY <1>1, JobStep DEF IInv

LEMMA OpenedAndClosedKeeps == ASSUME RequestsAssumption, IInv, OpenedAndClosed PROVE IInv'
  <1>1. maxchannel \in Ids  BY InvFacts DEF OpenedAndClosed, Current
  <1>2. JobGoesOn("closing")  BY <1>1, InvFacts DEF OpenedAndClosed, JobGoesOn, Current
  <1>. QED  BY <1>2, ClosingKeeps

LEMMA ReadsEndKeeps == ASSUME RequestsAssumption, IInv, ReadsEnd PROVE IInv'
  <1>1. maxchannel \in Ids /\ channel[maxchannel].state \in {"open", "closed"}
    BY InvFacts DEF ReadsEnd, IInv, JobInv, Current
  <1>2. ASSUME NEW to \in {"exiting", "closing"}, jobPc' = to PROVE IInv'
    <2>1. JobGoesOn(to)  BY <1>1, <1>2, InvFacts DEF ReadsEnd, JobGoesOn, ExitInv, Current
    <2>. QED  BY <2>1, ClosingKeeps
  <1>. QED  BY <1>2 DEF ReadsEnd, Current

LEMMA RequestFailsKeeps == ASSUME RequestsAssumption, IInv, RequestFails PROVE IInv'
  <1>1. maxchannel \in Ids /\ channel[maxchannel].state \in {"open", "closed"}
    BY InvFacts DEF RequestFails, IInv, JobInv, Current
  <1>2. /\ channel' \in [Ids -> Channel] /\ \A c \in Ids : c # maxchannel => channel'[c] = channel[c]
        /\ channel'[maxchannel].state = channel[maxchannel].state
        /\ channel'[maxchannel].flags = channel[maxchannel].flags
        /\ channel'[maxchannel].exit = channel[maxchannel].exit
        /\ channel'[maxchannel].request = channel[maxchannel].request \/ channel[maxchannel].request # "pending"
    <2>1. CASE UNCHANGED channel  BY <1>1, <2>1, InvFacts
    <2>2. CASE channel[maxchannel].request = "denied" /\ channel' = [channel EXCEPT ![maxchannel].request = "none"]
      <3>1. channel' = [channel EXCEPT ![maxchannel] = [channel[maxchannel] EXCEPT !.request = "none"]]
        BY <1>1, <2>2, InvFacts
      <3>. QED  BY <1>1, <2>2, <3>1, NewRequest
    <2>. QED  BY <2>1, <2>2 DEF RequestFails, Current
  <1>3. JobGoesOn("closing")  BY <1>1, <1>2, InvFacts DEF RequestFails, JobGoesOn, Current
  <1>. QED  BY <1>3, ClosingKeeps

LEMMA ExitStateKeeps == ASSUME RequestsAssumption, IInv, ExitState PROVE IInv'
  <1>1. maxchannel \in Ids /\ channel[maxchannel].state \in {"open", "closed"}
    BY InvFacts DEF ExitState, IInv, JobInv, Current
  <1>2. results'[maxchannel] = "status" => server[maxchannel].status
    <2>1. channel[maxchannel].exit \in {"none", "status"}  BY <1>1, InvFacts DEF Channel
    <2>2. channel[maxchannel].exit = "status" => server[maxchannel].status  BY <1>1, InvFacts DEF ExitInv
    <2>. QED  BY <1>1, <2>1, <2>2, InvFacts DEF ExitState, Current
  <1>3. results'[maxchannel] = "noStatus" => ~server[maxchannel].status /\ server[maxchannel].closed
    <2>1. results'[maxchannel] = "noStatus" =>
            channel[maxchannel].exit = "none" /\ "closedRemote" \in channel[maxchannel].flags
      <3>1. channel[maxchannel].exit \in {"none", "status"}  BY <1>1, InvFacts DEF Channel
      <3>. QED  BY <1>1, <3>1, InvFacts DEF ExitState, NoExitComes, Current
    <2>2. "closedRemote" \in channel[maxchannel].flags =>
            server[maxchannel].closed /\ ~In(down, Words(maxchannel))
      BY <1>1, InvFacts DEF OpenInv, CloseInv, Silent
    <2>3. server[maxchannel].status => channel[maxchannel].exit = "status" \/ In(down, Word(maxchannel, "exit"))
      BY <1>1, InvFacts DEF ExitInv, ExitState, Current
    <2>. QED  BY <2>1, <2>2, <2>3, InWords
  <1>4. channel[maxchannel].exit \in {"none", "status"}  BY <1>1, InvFacts DEF Channel
  <1>5. results' \in [Ids -> {"none", "failed", "status", "noStatus"}]
    BY <1>1, <1>4, InvFacts DEF ExitState, Current
  <1>6. JobGoesOn("closing")  BY <1>1, <1>2, <1>3, <1>5, InvFacts DEF ExitState, JobGoesOn, Current
  <1>. QED  BY <1>6, ClosingKeeps

LEMMA AcceptedKeeps == ASSUME RequestsAssumption, IInv, RequestAccepted PROVE IInv'
  <1>1. maxchannel \in Ids /\ channel[maxchannel].state \in {"open", "closed"} /\ step \in 1..3
    BY InvFacts DEF RequestAccepted, IInv, JobInv, Current
  <1>2. /\ step <= Len(Asks(kind)) /\ granted[maxchannel] = Prefix(step)
        /\ step < Len(Asks(kind)) => server[maxchannel].phase = "open"
    BY DEF RequestAccepted, IInv, JobInv, Current
  <1>3. Len(Asks(kind)) \in {1, 2} /\ Prefix(Len(Asks(kind))) = Asks(kind)  BY InvFacts, AsksOf
  <1>4. step' = step + 1 /\ step' \in 1..3 /\ step' - 1 = step
    <2>1. PICK n \in {1, 2} : n = Len(Asks(kind))  BY <1>3
    <2>2. step <= n /\ step \in 1..3  BY <1>1, <1>2, <2>1
    <2>3. step' = step + 1  BY DEF RequestAccepted
    <2>. QED  BY <2>2, <2>3
  <1>5. /\ channel' \in [Ids -> Channel] /\ \A c \in Ids : c # maxchannel => channel'[c] = channel[c]
        /\ channel'[maxchannel].state = channel[maxchannel].state
        /\ channel'[maxchannel].flags = channel[maxchannel].flags
        /\ channel'[maxchannel].exit = channel[maxchannel].exit
        /\ channel'[maxchannel].request = "none"
    <2>1. channel' = [channel EXCEPT ![maxchannel] = [channel[maxchannel] EXCEPT !.request = "none"]]
      BY <1>1, InvFacts DEF RequestAccepted
    <2>. QED  BY <1>1, <2>1, NewRequest
  <1>6. /\ kind' = kind /\ maxchannel' = maxchannel /\ granted' = granted /\ server' = server
        /\ jobPc' = IF step' > Len(Asks(kind)) THEN "running" ELSE "ready"
    BY DEF RequestAccepted
  <1>7. JobGoesOn(IF step' > Len(Asks(kind)) THEN "running" ELSE "ready")
    BY <1>1, <1>4, <1>5, InvFacts DEF RequestAccepted, JobGoesOn, ExitInv, Current
  <1>8. JobInv'
    <2>1. CASE step = Len(Asks(kind))
      <3>1. jobPc' = "running" /\ granted'[maxchannel'] = Asks(kind')  BY <1>2, <1>3, <1>4, <1>6, <2>1
      <3>. QED  BY <1>1, <1>5, <1>6, <3>1 DEF JobInv, Current
    <2>2. CASE step < Len(Asks(kind))
      <3>1. jobPc' = "ready" /\ step' <= Len(Asks(kind')) /\ server'[maxchannel'].phase = "open"
        BY <1>1, <1>2, <1>3, <1>4, <1>6, <2>2
      <3>2. granted'[maxchannel'] = (Prefix(step - 1))'  BY <1>2, <1>4, <1>6 DEF Prefix
      <3>. QED  BY <1>1, <1>5, <1>6, <3>1, <3>2 DEF JobInv, Current
    <2>. QED  BY <1>1, <1>2, <1>3, <2>1, <2>2
  <1>9. PICK to : JobGoesOn(to)  BY <1>7
  <1>10. Typed' /\ \A c \in Ids : ChannelInv(c)'  BY <1>9, JobStep
  <1>. QED  BY <1>8, <1>10 DEF IInv

-----------------------------------------------------------------------------
(***************************************************************************)
(* Packets that come into a queue and go out of it.                        *)
(***************************************************************************)

LEMMA PacketIn ==
    ASSUME NEW c \in Ids, NEW type \in Types, NEW what \in Whats
    PROVE  /\ JobPacket(type, c, what) \in Packets /\ JobPacket(type, c, what) \in Words(c)
           /\ JobPacket(type, c, what).type = type /\ JobPacket(type, c, what).what = what
           /\ \A t : JobPacket(type, c, what) \in Word(c, t) <=> t = type
           /\ \A d : d # c => JobPacket(type, c, what) \notin Words(d)
  BY DEF JobPacket, Packets, Word, Words

\* An empty queue has every order.
LEMMA NothingBefore ==
    ASSUME NEW q, NEW c
    PROVE  /\ \A t : ~In(q, Word(c, t)) => Before(q, Word(c, t), Words(c)) /\ Before(q, Words(c), Word(c, t))
                                           /\ Before(q, Word(c, t), Word(c, t))
  BY DEF In, Before

\* A packet e of the channel c is put at the end.
Put(q, r, e, c) ==
    /\ \A d \in Ids : d # c => SameQueue(q, r, d)
    /\ \A S : In(r, S) <=> (In(q, S) \/ e \in S)
    /\ In(r, Words(c))
    /\ \A t : In(r, Word(c, t)) <=> (In(q, Word(c, t)) \/ t = e.type)
    /\ \A t : In(r, Words(c) \ Word(c, t)) <=> (In(q, Words(c) \ Word(c, t)) \/ t # e.type)
    /\ \A t : Before(q, Word(c, t), Word(c, t)) /\ (t = e.type => ~In(q, Word(c, t))) =>
              Before(r, Word(c, t), Word(c, t))
    /\ \A t : Before(q, Word(c, t), Words(c)) /\ (t = e.type => ~In(q, Words(c))) =>
              Before(r, Word(c, t), Words(c))
    /\ \A t : Before(q, Words(c), Word(c, t)) /\ ~In(q, Word(c, t)) => Before(r, Words(c), Word(c, t))

LEMMA Puts ==
    ASSUME NEW T \in SUBSET Packets, NEW q \in Seq(T), NEW e \in T, NEW r, r = Append(q, e),
           NEW c \in Ids, c = e.channel
    PROVE  r \in Seq(T) /\ Put(q, r, e, c)
  <1>1. e \in Packets  OBVIOUS
  <1>3. e \in Words(c) /\ (\A t : e \in Word(c, t) <=> t = e.type) /\ (\A d : d # c => e \notin Words(d))
    BY <1>1 DEF Words, Word
  <1>4. r \in Seq(T)  OBVIOUS
  <1>5. \A d \in Ids : d # c => SameQueue(q, r, d)  BY <1>3, SameAppend
  <1>6. \A S : In(r, S) <=> (In(q, S) \/ e \in S)  BY InAppend
  <1>7. \A S, R : Before(q, S, R) /\ (e \in S => ~In(q, R)) => Before(r, S, R)  BY BeforeAppend
  <1>8. \A t : Before(q, Word(c, t), Word(c, t)) /\ (t = e.type => ~In(q, Word(c, t))) =>
               Before(r, Word(c, t), Word(c, t))
    BY <1>3, <1>7
  <1>9. \A t : Before(q, Word(c, t), Words(c)) /\ (t = e.type => ~In(q, Words(c))) => Before(r, Word(c, t), Words(c))
    BY <1>3, <1>7
  <1>10. \A t : Before(q, Words(c), Word(c, t)) /\ ~In(q, Word(c, t)) => Before(r, Words(c), Word(c, t))
    BY <1>7
  <1>11. In(r, Words(c)) /\ \A t : In(r, Word(c, t)) <=> (In(q, Word(c, t)) \/ t = e.type)  BY <1>3, <1>6
  <1>12. \A t : In(r, Words(c) \ Word(c, t)) <=> (In(q, Words(c) \ Word(c, t)) \/ t # e.type)
    <2>1. \A t : e \in Words(c) \ Word(c, t) <=> t # e.type  BY <1>3
    <2>. QED  BY <1>6, <2>1
  <1>. QED  BY <1>4, <1>5, <1>6, <1>8, <1>9, <1>10, <1>11, <1>12 DEF Put

\* A packet is taken from the head.
LEMMA Takes ==
    ASSUME NEW T \in SUBSET Packets, NEW q \in Seq(T), q # <<>>, NEW r, r = Tail(q)
    PROVE  /\ r \in Seq(T) /\ Head(q) \in T /\ Head(q).channel \in Ids
           /\ \A d \in Ids : d # Head(q).channel => SameQueue(q, r, d)
           /\ \A S : In(q, S) <=> (Head(q) \in S \/ In(r, S))
           /\ LET c == Head(q).channel IN
              /\ In(q, Words(c))
              /\ \A t : In(q, Word(c, t)) <=> (In(r, Word(c, t)) \/ t = Head(q).type)
              /\ \A t : In(q, Words(c) \ Word(c, t)) <=> (In(r, Words(c) \ Word(c, t)) \/ t # Head(q).type)
              /\ \A t : Before(q, Word(c, t), Word(c, t)) =>
                        Before(r, Word(c, t), Word(c, t)) /\ (t = Head(q).type => ~In(r, Word(c, t)))
              /\ \A t : Before(q, Word(c, t), Words(c)) => Before(r, Word(c, t), Words(c)) /\ ~In(r, Word(c, t))
              /\ \A t : Before(q, Words(c), Word(c, t)) =>
                        Before(r, Words(c), Word(c, t)) /\ (t = Head(q).type => ~In(r, Words(c)))
  <1>1. Head(q) \in T /\ Head(q) \in Packets /\ r \in Seq(T)  OBVIOUS
  <1>2. PICK c \in Ids : c = Head(q).channel  BY <1>1 DEF Packets
  <1>. DEFINE e == Head(q)
  <1>3. e \in Words(c) /\ (\A t : e \in Word(c, t) <=> t = e.type) /\ (\A d : d # c => e \notin Words(d))
    BY <1>1, <1>2 DEF Words, Word
  <1>5. \A d \in Ids : d # c => SameQueue(q, r, d)  BY <1>3, SameTail
  <1>6. \A S : In(q, S) <=> (Head(q) \in S \/ In(r, S))  BY InTail
  <1>7. \A S, R : Before(q, S, R) => Before(r, S, R) /\ (e \in R => ~In(r, S))  BY BeforeTail
  <1>. HIDE DEF e
  <1>8. \A t : Before(q, Word(c, t), Word(c, t)) =>
               Before(r, Word(c, t), Word(c, t)) /\ (t = e.type => ~In(r, Word(c, t)))
    BY <1>3, <1>7
  <1>9. \A t : Before(q, Word(c, t), Words(c)) => Before(r, Word(c, t), Words(c)) /\ ~In(r, Word(c, t))
    BY <1>3, <1>7
  <1>10. \A t : Before(q, Words(c), Word(c, t)) =>
                Before(r, Words(c), Word(c, t)) /\ (t = e.type => ~In(r, Words(c)))
    BY <1>3, <1>7
  <1>11. In(q, Words(c)) /\ \A t : In(q, Word(c, t)) <=> (In(r, Word(c, t)) \/ t = e.type)
    BY <1>3, <1>6 DEF e
  <1>12. \A t : In(q, Words(c) \ Word(c, t)) <=> (In(r, Words(c) \ Word(c, t)) \/ t # e.type)
    <2>1. \A t : e \in Words(c) \ Word(c, t) <=> t # e.type  BY <1>3
    <2>. QED  BY <1>6, <2>1 DEF e
  <1>. QED  BY <1>1, <1>2, <1>5, <1>6, <1>8, <1>9, <1>10, <1>11, <1>12 DEF e

-----------------------------------------------------------------------------
(***************************************************************************)
(* Steps in which the job sends something, or gives its channel up.        *)
(***************************************************************************)

\* What the client sends, and the channels that it does not name.
LEMMA ClientSends ==
    ASSUME RequestsAssumption, IInv, NEW c \in Ids, NEW type \in {"open", "request", "notice", "close"},
           NEW what \in Whats, type = "request" => what \in {"exec", "pty", "shell"},
           up' = Append(up, JobPacket(type, c, what))
    PROVE  /\ up' \in Seq(Sent)
           /\ \A d \in Ids : d # c => SameQueue(up, up', d)
           /\ \A S : In(up', S) <=> (In(up, S) \/ JobPacket(type, c, what) \in S)
           /\ \A t : In(up', Word(c, t)) <=> (In(up, Word(c, t)) \/ t = type)
           /\ \A t : In(up', Words(c) \ Word(c, t)) <=> (In(up, Words(c) \ Word(c, t)) \/ t # type)
           /\ \A t : Before(up, Word(c, t), Word(c, t)) /\ (t = type => ~In(up, Word(c, t))) =>
                     Before(up', Word(c, t), Word(c, t))
           /\ \A t : Before(up, Word(c, t), Words(c)) /\ (t = type => ~In(up, Words(c))) =>
                     Before(up', Word(c, t), Words(c))
           /\ \A t : Before(up, Words(c), Word(c, t)) /\ ~In(up, Word(c, t)) =>
                     Before(up', Words(c), Word(c, t))
  <1>. DEFINE e == JobPacket(type, c, what)
  <1>1. type \in Types  BY DEF Types
  <1>2. e \in Packets /\ e.type = type /\ e.channel = c /\ e.what = what  BY <1>1, PacketIn DEF JobPacket
  <1>3. e \in Sent  BY <1>2 DEF Sent
  <1>4. Sent \in SUBSET Packets  BY DEF Sent
  <1>5. up \in Seq(Sent)  BY InvFacts
  <1>6. up' = Append(up, e)  OBVIOUS
  <1>. HIDE DEF e
  <1>7. up' \in Seq(Sent) /\ Put(up, up', e, c)  BY <1>2, <1>3, <1>4, <1>5, <1>6, Puts
  <1>8. /\ up' \in Seq(Sent)
        /\ \A d \in Ids : d # c => SameQueue(up, up', d)
        /\ \A S : In(up', S) <=> (In(up, S) \/ e \in S)
    BY <1>7 DEF Put
  <1>9. /\ \A t : In(up', Word(c, t)) <=> (In(up, Word(c, t)) \/ t = type)
        /\ \A t : In(up', Words(c) \ Word(c, t)) <=> (In(up, Words(c) \ Word(c, t)) \/ t # type)
        /\ \A t : Before(up, Word(c, t), Word(c, t)) /\ (t = type => ~In(up, Word(c, t))) =>
                  Before(up', Word(c, t), Word(c, t))
        /\ \A t : Before(up, Word(c, t), Words(c)) /\ (t = type => ~In(up, Words(c))) =>
                  Before(up', Word(c, t), Words(c))
        /\ \A t : Before(up, Words(c), Word(c, t)) /\ ~In(up, Word(c, t)) =>
                  Before(up', Words(c), Word(c, t))
    BY <1>2, <1>7 DEF Put
  <1>. QED  BY <1>8, <1>9 DEF e

\* The channels that the job has nothing to do with.
LEMMA OthersKeep ==
    ASSUME RequestsAssumption, IInv, NEW c \in Ids, NEW d \in Ids, d # c,
           maxchannel' = maxchannel, Runs(d)' <=> Runs(d), Opens(d)' <=> Opens(d),
           SameQueue(up, up', d), SameQueue(down, down', d),
           server'[d] = server[d], granted'[d] = granted[d], channel'[d] = channel[d], results'[d] = results[d],
           d \in overdue' <=> d \in overdue
    PROVE  ChannelInv(d)'
  BY Frame, InvFacts

\* The job sends c, which it has open, a packet of this type, which is no open.
LEMMA SendKeeps ==
    ASSUME RequestsAssumption, IInv, NEW c \in Ids, c = maxchannel, jobPc # "idle", jobPc # "opening",
           NEW type \in {"request", "notice", "close"},
           NEW what \in Whats, type = "request" => what \in {"exec", "pty", "shell"},
           up' = Append(up, JobPacket(type, c, what)),
           maxchannel' = maxchannel, overdue' = overdue, down' = down, server' = server,
           granted' = granted, results' = results,
           \A d \in Ids : d # c => channel'[d] = channel[d], jobPc' # "opening",
           Runs(c)' \/ type = "close",
           \/ /\ channel'[c].state \in {"open", "closed"} /\ "notBound" \notin channel'[c].flags
              /\ channel'[c].exit = channel[c].exit
              /\ "closedRemote" \in channel'[c].flags <=> "closedRemote" \in channel[c].flags
           \/ channel'[c] = NoChannel /\ "closedRemote" \in channel[c].flags,
           type = "request" => channel[c].request = "none" /\ server[c].phase = "open",
           Known(c)' => channel'[c].request = IF type = "request" THEN "pending" ELSE channel[c].request
    PROVE  up' \in Seq(Sent) /\ \A d \in Ids : ChannelInv(d)'
  <1>1. /\ up' \in Seq(Sent)
        /\ \A d \in Ids : d # c => SameQueue(up, up', d)
        /\ \A t : In(up', Word(c, t)) <=> (In(up, Word(c, t)) \/ t = type)
        /\ \A t : Before(up, Word(c, t), Word(c, t)) /\ (t = type => ~In(up, Word(c, t))) =>
                  Before(up', Word(c, t), Word(c, t))
    BY ClientSends
  <1>2. ASSUME NEW d \in Ids, d # c PROVE ChannelInv(d)'
    <2>1. (Runs(d)' <=> Runs(d)) /\ (Opens(d)' <=> Opens(d))  BY <1>2 DEF Runs, Opens
    <2>2. SameQueue(down, down', d)  BY SameSame
    <2>. QED  BY <1>1, <1>2, <2>1, <2>2, OthersKeep
  <1>3. /\ channel[c].state \in {"open", "closed"} /\ Known(c) /\ c \notin overdue /\ ~(c > maxchannel)
        /\ server[c].phase # "none" /\ "notBound" \notin channel[c].flags
        /\ ~In(down, Word(c, "confirmation")) /\ ~In(down, Word(c, "refusal"))
        /\ ~In(up, Word(c, "open"))
    <2>1. channel[c].state \in {"open", "closed"}  BY DEF IInv, JobInv, Current
    <2>. QED  BY <2>1, InvFacts DEF OpenInv, StateInv
  <1>4. OpenInv(c) /\ ExitInv(c) /\ RequestInv(c)  BY InvFacts
  <1>5. Unused(c)'  BY <1>3 DEF Unused
  <1>6. Asked(c)' /\ Refused(c)' /\ Confirmed(c)'
    BY <1>1, <1>3 DEF Asked, Refused, Confirmed
  <1>7. StateInv(c)'  BY <1>1, <1>3, <1>4 DEF OpenInv, StateInv, Known, NoChannel
  <1>8. CloseInv(c)'  BY <1>3, <1>4 DEF OpenInv, CloseInv, Silent, Known, NoChannel
  <1>9. HeldInv(c)'  BY <1>1 DEF HeldInv
  <1>10. ExitInv(c)'  BY <1>3, <1>4 DEF ExitInv, Known, NoChannel
  <1>11. RequestInv(c)'
    <2>1. type = "request" => ~In(up, Word(c, "request")) /\ ~In(down, Word(c, "reply"))
      BY <1>3, <1>4 DEF RequestInv
    <2>. QED  BY <1>1, <1>3, <1>4, <2>1 DEF RequestInv, Known
  <1>12. ChannelInv(c)'  BY <1>5, <1>6, <1>7, <1>8, <1>9, <1>10, <1>11 DEF OpenInv, ChannelInv
  <1>. QED  BY <1>1, <1>2, <1>12

LEMMA CallRequestKeeps == ASSUME RequestsAssumption, IInv, CallRequest PROVE IInv'
  <1>1. PICK c \in Ids : c = maxchannel  BY InvFacts DEF CallRequest
  <1>2. /\ jobPc = "ready" /\ channel[c].request = "none" /\ step <= Len(Asks(kind)) /\ granted[c] = Prefix(step - 1)
        /\ server[c].phase = "open" /\ channel[c].state \in {"open", "closed"}
    BY <1>1 DEF CallRequest, IInv, JobInv, Current
  <1>3. /\ up' = Append(up, JobPacket("request", c, Asks(kind)[step]))
        /\ channel' = [channel EXCEPT ![c].request = "pending"] /\ jobPc' = "requesting"
        /\ UNCHANGED <<kind, step, maxchannel, results, overdue, down, server, granted>>
    BY <1>1, <1>2 DEF CallRequest, Current, SendPacket
  <1>4. step \in 1..Len(Asks(kind))
    <2>1. Len(Asks(kind)) \in {1, 2} /\ step \in 1..3  BY InvFacts, AsksOf
    <2>. QED  BY <1>2, <2>1
  <1>5. Asks(kind)[step] \in {"exec", "pty", "shell"}  BY <1>4, InvFacts, AsksOf
  <1>6. PICK what \in Whats : what = Asks(kind)[step]  BY <1>5 DEF Whats
  <1>7. /\ channel' \in [Ids -> Channel] /\ \A d \in Ids : d # c => channel'[d] = channel[d]
        /\ channel'[c].state = channel[c].state /\ channel'[c].flags = channel[c].flags
        /\ channel'[c].exit = channel[c].exit /\ channel'[c].request = "pending"
    <2>1. channel' = [channel EXCEPT ![c] = [channel[c] EXCEPT !.request = "pending"]]  BY <1>3, InvFacts
    <2>. QED  BY <2>1, NewRequest
  <1>8. Known(c) /\ "freedLocal" \notin channel[c].flags /\ "notBound" \notin channel[c].flags /\ c \notin overdue
    BY <1>1, <1>2, InvFacts DEF OpenInv, StateInv, Known, Current
  <1>9. Runs(c)'  BY <1>1, <1>3 DEF Runs
  <1>10. up' \in Seq(Sent) /\ \A d \in Ids : ChannelInv(d)'
    BY <1>1, <1>2, <1>3, <1>5, <1>6, <1>7, <1>8, <1>9, SendKeeps
  <1>11. Typed'
    <2>1. channel'[c].state # "none" /\ "freedLocal" \notin channel'[c].flags  BY <1>7, <1>8 DEF Known
    <2>. QED  BY <1>1, <1>3, <1>7, <1>8, <1>10, <2>1 DEF IInv, Typed, Known, Current
  <1>12. JobInv'
    <2>1. ~In(up, Word(c, "request")) /\ ~In(down, Word(c, "reply"))
      BY <1>2, <1>8, InvFacts DEF RequestInv
    <2>2. \A S : In(up', S) <=> (In(up, S) \/ JobPacket("request", c, what) \in S)
      BY <1>3, <1>5, <1>6, ClientSends
    <2>3. Requested' = JobPacket("request", c, what)  BY <1>1, <1>3, <1>6 DEF Requested, JobPacket
    <2>4. ~In(up', Word(c, "request") \ {JobPacket("request", c, what)})
      <3>1. In(up, Word(c, "request") \ {JobPacket("request", c, what)}) => In(up, Word(c, "request"))
        BY DEF In
      <3>. QED  BY <2>1, <2>2, <3>1
    <2>5. ~In(down', {AcceptedReply}')
      <3>1. AcceptedReply \in Word(c, "reply")
        <4>1. "reply" \in Types /\ "accepted" \in Whats  BY DEF Types, Whats
        <4>. QED  BY <1>1, <4>1, PacketIn DEF AcceptedReply
      <3>2. AcceptedReply' = AcceptedReply  BY <1>1, <1>3 DEF AcceptedReply, JobPacket
      <3>. QED  BY <1>3, <2>1, <3>1, <3>2 DEF In
    <2>6. granted'[c] = (Prefix(step - 1))'  BY <1>2, <1>3 DEF Prefix
    <2>. QED  BY <1>1, <1>2, <1>3, <1>7, <2>3, <2>4, <2>5, <2>6 DEF JobInv, Current
  <1>. QED  BY <1>10, <1>11, <1>12 DEF IInv

LEMMA ResizeKeeps == ASSUME RequestsAssumption, IInv, Resize PROVE IInv'
  <1>1. PICK c \in Ids : c = maxchannel  BY InvFacts DEF Resize
  <1>2. /\ jobPc = "running" /\ up' = Append(up, JobPacket("notice", c, "window-change"))
        /\ UNCHANGED <<jobPc, kind, step, maxchannel, channel, results, overdue, down, server, granted>>
    BY <1>1 DEF Resize, job, SendPacket
  <1>3. channel[c].state \in {"open", "closed"} /\ "notBound" \notin channel[c].flags /\ Runs(c)'
    BY <1>1, <1>2, InvFacts DEF IInv, JobInv, Current, OpenInv, StateInv, Runs
  <1>4. up' \in Seq(Sent) /\ \A d \in Ids : ChannelInv(d)'
    BY <1>1, <1>2, <1>3, SendKeeps DEF Whats
  <1>5. Typed'  BY <1>2, <1>4 DEF IInv, Typed, Known, Current
  <1>6. JobInv'
    <2>1. /\ channel[maxchannel].request = "none" /\ granted[maxchannel] = Asks(kind)
          /\ channel[maxchannel].state \in {"open", "closed"}
      BY <1>2 DEF IInv, JobInv, Current
    <2>. QED  BY <1>2, <2>1 DEF JobInv, Current
  <1>. QED  BY <1>4, <1>5, <1>6 DEF IInv

LEMMA CloseAndFreeKeeps == ASSUME RequestsAssumption, IInv, CloseAndFree PROVE IInv'
  <1>1. PICK c \in Ids : c = maxchannel  BY InvFacts DEF CloseAndFree
  <1>2. /\ jobPc = "closing" /\ up' = Append(up, JobPacket("close", c, "")) /\ jobPc' = "idle"
        /\ channel' = [channel EXCEPT ![c] =
              Freed([channel[c] EXCEPT !.state = "closed", !.flags = channel[c].flags \cup {"closedLocal"}])]
        /\ UNCHANGED <<kind, step, maxchannel, results, overdue, down, server, granted>>
    BY <1>1 DEF CloseAndFree, SendPacket, Current
  <1>3. channel[c].state \in {"open", "closed"} /\ "notBound" \notin channel[c].flags /\ channel[c] \in Channel
    BY <1>1, <1>2, InvFacts DEF IInv, JobInv, Current, OpenInv, StateInv
  <1>4. PICK ch : ch = Freed([channel[c] EXCEPT !.state = "closed", !.flags = channel[c].flags \cup {"closedLocal"}])
    OBVIOUS
  <1>5. CASE "closedRemote" \in channel[c].flags
    <2>1. ch = NoChannel  BY <1>3, <1>4, <1>5 DEF Freed, Channel
    <2>2. channel'[c] = NoChannel /\ channel' \in [Ids -> Channel] /\ \A d \in Ids : d # c => channel'[d] = channel[d]
      <3>1. NoChannel \in Channel  BY DEF NoChannel, Channel
      <3>. QED  BY <1>2, <1>4, <2>1, <3>1, InvFacts
    <2>3. ~Known(c)'  BY <2>2 DEF Known, NoChannel
    <2>4. up' \in Seq(Sent) /\ \A d \in Ids : ChannelInv(d)'
      BY <1>1, <1>2, <1>5, <2>2, <2>3, SendKeeps DEF Whats
    <2>5. Typed'  BY <1>2, <2>2, <2>4 DEF IInv, Typed
    <2>6. JobInv'  BY <1>2 DEF JobInv
    <2>. QED  BY <2>4, <2>5, <2>6 DEF IInv
  <1>6. CASE "closedRemote" \notin channel[c].flags
    <2>1. /\ ch \in Channel /\ ch.state = "closed" /\ ch.flags = channel[c].flags \cup {"closedLocal", "freedLocal"}
          /\ ch.exit = channel[c].exit /\ ch.request = channel[c].request
      BY <1>3, <1>4, <1>6 DEF Freed, Channel
    <2>2. channel'[c] = ch /\ channel' \in [Ids -> Channel] /\ \A d \in Ids : d # c => channel'[d] = channel[d]
      BY <1>2, <1>4, <2>1, InvFacts
    <2>4. up' \in Seq(Sent) /\ \A d \in Ids : ChannelInv(d)'
      BY <1>1, <1>2, <1>3, <1>6, <2>1, <2>2, SendKeeps DEF Whats
    <2>5. Typed'  BY <1>2, <2>2, <2>4 DEF IInv, Typed
    <2>6. JobInv'  BY <1>2 DEF JobInv
    <2>. QED  BY <2>4, <2>5, <2>6 DEF IInv
  <1>. QED  BY <1>5, <1>6
LEMMA OpenFailsKeeps == ASSUME RequestsAssumption, IInv, OpenFails PROVE IInv'
  <1>1. PICK c \in Ids : c = maxchannel  BY InvFacts DEF OpenFails
  <1>2. /\ jobPc = "opening" /\ jobPc' = "idle" /\ channel' = [channel EXCEPT ![c] = Freed(channel[c])]
        /\ results' = [results EXCEPT ![c] = "failed"]
        /\ UNCHANGED <<kind, step, maxchannel, up, down, server, granted>>
        /\ \/ channel[c].state = "denied" /\ overdue' = overdue
           \/ channel[c].state = "opening" /\ overdue' = overdue \cup {c}
    BY <1>1 DEF OpenFails, Current
  <1>3. OpenInv(c) /\ ExitInv(c) /\ RequestInv(c) /\ c \notin overdue /\ ~(c > maxchannel)  BY <1>1, <1>2, InvFacts
  <1>4. NoChannel \in Channel /\ NoChannel.state = "none" /\ NoChannel.flags = {} /\ NoChannel.exit = "none"
    BY DEF NoChannel, Channel
  <1>5. channel[c].flags = {"notBound"}  BY <1>2, <1>3 DEF OpenInv, StateInv
  <1>6. Freed(channel[c]) = NoChannel  BY <1>5 DEF Freed
  <1>7. /\ channel'[c] = NoChannel /\ channel' \in [Ids -> Channel]
        /\ \A d \in Ids : d # c => channel'[d] = channel[d]
    BY <1>2, <1>4, <1>6, InvFacts
  <1>8. /\ results'[c] = "failed" /\ results' \in [Ids -> {"none", "failed", "status", "noStatus"}]
        /\ \A d \in Ids : d # c => results'[d] = results[d]
    BY <1>2, InvFacts
  <1>9. ~Known(c)'  BY <1>4, <1>7 DEF Known
  <1>10. Unused(c)'  BY <1>2, <1>3 DEF Unused
  <1>11. channel[c].state = "denied" => Untouched(c) /\ Silent(c) /\ NothingSent(c)  BY <1>3 DEF OpenInv, StateInv
  <1>12. channel[c].state # "denied" => c \in overdue'  BY <1>2
  <1>13. c \in overdue' => Waits(c)'  BY DEF Waits
  <1>14. (Untouched(c)' <=> Untouched(c)) /\ (Silent(c)' <=> Silent(c)) /\ (NothingSent(c)' <=> NothingSent(c))
    BY <1>2 DEF Untouched, Silent, NothingSent
  <1>15. Asked(c)'  BY <1>2, <1>3, <1>11, <1>12, <1>13, <1>14, InWords DEF OpenInv, Asked, NothingSent
  <1>16. Refused(c)'  BY <1>2, <1>3, <1>11, <1>12, <1>13, <1>14, InWords DEF OpenInv, Refused, Silent
  <1>17. Confirmed(c)'  BY <1>2, <1>3, <1>11, <1>12, <1>13, <1>14, InWords DEF OpenInv, Confirmed, Silent
  <1>18. StateInv(c)'  BY <1>4, <1>7, <1>9 DEF StateInv
  <1>19. CloseInv(c)'  BY <1>2, <1>3, <1>4, <1>7, <1>11, <1>12, <1>14 DEF OpenInv, CloseInv
  <1>20. HeldInv(c)'  BY <1>2, <1>11, <1>12 DEF HeldInv, Untouched, NoServer
  <1>21. ExitInv(c)'  BY <1>2, <1>3, <1>4, <1>7, <1>8, <1>9 DEF ExitInv
  <1>22. RequestInv(c)'  BY <1>2, <1>3, <1>9 DEF RequestInv
  <1>23. ChannelInv(c)'
    BY <1>10, <1>15, <1>16, <1>17, <1>18, <1>19, <1>20, <1>21, <1>22 DEF OpenInv, ChannelInv
  <1>24. ASSUME NEW d \in Ids, d # c PROVE ChannelInv(d)'
    <2>1. (Runs(d)' <=> Runs(d)) /\ (Opens(d)' <=> Opens(d))  BY <1>1, <1>2, <1>24 DEF Runs, Opens
    <2>2. SameQueue(up, up', d) /\ SameQueue(down, down', d)  BY <1>2, SameSame
    <2>3. d \in overdue' <=> d \in overdue  BY <1>2, <1>24
    <2>. QED  BY <1>2, <1>7, <1>8, <1>24, <2>1, <2>2, <2>3, OthersKeep
  <1>25. Typed'
    <2>1. overdue' \in SUBSET Ids  BY <1>2, InvFacts
    <2>. QED  BY <1>2, <1>7, <1>8, <2>1 DEF IInv, Typed
  <1>26. JobInv'  BY <1>2 DEF JobInv
  <1>. QED  BY <1>23, <1>24, <1>25, <1>26 DEF IInv

LEMMA OpenKeeps == ASSUME RequestsAssumption, IInv, NEW k \in Kinds, OpenChannel(k) PROVE IInv'
  <1>1. PICK c \in Ids : c = maxchannel + 1
    BY InvFacts DEF OpenChannel, Ids, RequestsAssumption
  <1>2. PICK ch : ch = [NoChannel EXCEPT !.state = "opening", !.flags = {"notBound"}]  OBVIOUS
  <1>3. /\ jobPc = "idle" /\ jobPc' = "opening" /\ maxchannel' = c /\ kind' = k /\ step' = 1
        /\ channel' = [channel EXCEPT ![c] = ch] /\ up' = Append(up, JobPacket("open", c, "session"))
        /\ UNCHANGED <<results, overdue, down, server, granted>>
    BY <1>1, <1>2 DEF OpenChannel
  <1>4. /\ ch \in Channel /\ ch.state = "opening" /\ ch.flags = {"notBound"} /\ ch.request = "none"
        /\ ch.exit = "none"
    BY <1>2 DEF NoChannel, Channel
  <1>5. channel'[c] = ch /\ channel' \in [Ids -> Channel] /\ \A d \in Ids : d # c => channel'[d] = channel[d]
    BY <1>3, <1>4, InvFacts
  <1>6. /\ channel[c] = NoChannel /\ results[c] = "none" /\ c \notin overdue
        /\ Untouched(c) /\ Silent(c) /\ NothingSent(c)
    <2>1. c > maxchannel  BY <1>1, InvFacts
    <2>. QED  BY <2>1, InvFacts DEF OpenInv, Unused
  <1>7. /\ up' \in Seq(Sent)
        /\ \A d \in Ids : d # c => SameQueue(up, up', d)
        /\ \A t : In(up', Word(c, t)) <=> (In(up, Word(c, t)) \/ t = "open")
        /\ \A t : In(up', Words(c) \ Word(c, t)) <=> (In(up, Words(c) \ Word(c, t)) \/ t # "open")
        /\ \A t : Before(up, Word(c, t), Word(c, t)) /\ (t = "open" => ~In(up, Word(c, t))) =>
                  Before(up', Word(c, t), Word(c, t))
        /\ \A t : Before(up, Word(c, t), Words(c)) /\ (t = "open" => ~In(up, Words(c))) =>
                  Before(up', Word(c, t), Words(c))
        /\ \A t : Before(up, Words(c), Word(c, t)) /\ ~In(up, Word(c, t)) =>
                  Before(up', Words(c), Word(c, t))
    BY <1>3, ClientSends DEF Whats
  <1>8. /\ \A t : ~In(up, Word(c, t)) /\ ~In(down, Word(c, t))
        /\ \A t : ~In(down, Words(c) \ Word(c, t)) /\ ~In(up, Words(c) \ Word(c, t))
    BY <1>6, InWords DEF Silent, NothingSent
  <1>9. /\ \A t : Before(up, Word(c, t), Words(c)) /\ Before(up, Words(c), Word(c, t))
                  /\ Before(up, Word(c, t), Word(c, t))
        /\ \A t : Before(down, Words(c), Word(c, t)) /\ Before(down, Word(c, t), Word(c, t))
    BY <1>8, NothingBefore
  <1>10. Waits(c)' /\ Opens(c)' /\ Runs(c)' /\ Known(c)'
    BY <1>3, <1>4, <1>5 DEF Waits, Opens, Runs, Known
  <1>11. Untouched(c)' /\ Silent(c)'  BY <1>3, <1>6 DEF Untouched, Silent
  <1>12. /\ server'[c].phase = "none" /\ ~server'[c].status /\ ~server'[c].closed /\ results'[c] = "none"
         /\ granted'[c] = <<>>
    BY <1>3, <1>6 DEF Untouched, NoServer
  <1>13. Unused(c)'  BY <1>3, InvFacts DEF Unused
  <1>14. Asked(c)'  BY <1>6, <1>7, <1>8, <1>9, <1>10, <1>11 DEF Asked, NothingSent
  <1>15. Refused(c)' /\ Confirmed(c)'  BY <1>3, <1>8 DEF Refused, Confirmed
  <1>16. StateInv(c)'  BY <1>3, <1>4, <1>5, <1>6, <1>10, <1>12 DEF StateInv
  <1>17. CloseInv(c)'  BY <1>3, <1>4, <1>5, <1>7, <1>8, <1>9, <1>10, <1>12 DEF CloseInv
  <1>18. HeldInv(c)'  BY <1>10 DEF HeldInv
  <1>19. ExitInv(c)'  BY <1>3, <1>4, <1>5, <1>8, <1>12 DEF ExitInv
  <1>20. RequestInv(c)'  BY <1>3, <1>7, <1>8, <1>9 DEF RequestInv
  <1>21. ChannelInv(c)'
    BY <1>13, <1>14, <1>15, <1>16, <1>17, <1>18, <1>19, <1>20 DEF OpenInv, ChannelInv
  <1>22. ASSUME NEW d \in Ids, d # c PROVE ChannelInv(d)'
    <2>1. (Runs(d)' <=> Runs(d)) /\ (Opens(d)' <=> Opens(d))  BY <1>3, <1>22 DEF Runs, Opens
    <2>2. SameQueue(up, up', d) /\ SameQueue(down, down', d)  BY <1>3, <1>7, <1>22, SameSame
    <2>3. d > maxchannel' => d > maxchannel  BY <1>1, <1>3, InvFacts
    <2>. QED  BY <1>3, <1>5, <1>22, <2>1, <2>2, <2>3, Frame, InvFacts
  <1>23. Typed'
    <2>1. k \in {"command", "ptyCommand", "shell"}  BY DEF RequestsAssumption
    <2>2. c \in 0..MaxChannels  BY DEF Ids
    <2>3. "freedLocal" \notin channel'[c].flags  BY <1>4, <1>5
    <2>. QED  BY <1>3, <1>5, <1>6, <1>7, <1>10, <2>1, <2>2, <2>3 DEF IInv, Typed, Current
  <1>24. JobInv'
    <2>1. /\ granted'[maxchannel'] = <<>>
          /\ channel'[maxchannel'].request = "none" /\ server'[maxchannel'].phase = "none"
      BY <1>3, <1>4, <1>5, <1>12
    <2>. QED  BY <1>3, <2>1 DEF JobInv, Current
  <1>. QED  BY <1>21, <1>22, <1>23, <1>24 DEF IInv
-----------------------------------------------------------------------------
(***************************************************************************)
(* Steps of the connection and of the server.                              *)
(***************************************************************************)

\* What is left of JobInv when no request of the job is answered or granted.
LEMMA JobFrame ==
    ASSUME RequestsAssumption, IInv, UNCHANGED job, NEW c \in Ids, c = maxchannel,
           channel'[c].request = channel[c].request,
           channel[c].state \in {"open", "closed"} => channel'[c].state \in {"open", "closed"},
           granted'[c] = granted[c],
           server[c].phase = "open" => server'[c].phase = "open",
           server[c].phase = "none" => server'[c].phase \in {"none", "open"},
           \A S \in SUBSET Word(c, "request") : In(up', S) => In(up, S),
           \A S \in SUBSET Word(c, "reply") : In(down', S) => In(down, S)
    PROVE  JobInv'
  <1>1. /\ jobPc' = jobPc /\ kind' = kind /\ step' = step /\ maxchannel' = c /\ Requested' = Requested
        /\ AcceptedReply' = AcceptedReply
    BY DEF job, Requested, AcceptedReply, JobPacket
  <1>2. In(up', Word(c, "request")) => In(up, Word(c, "request"))  OBVIOUS
  <1>3. In(up', Word(c, "request") \ {Requested}) => In(up, Word(c, "request") \ {Requested})
    <2>1. Word(c, "request") \ {Requested} \in SUBSET Word(c, "request")  OBVIOUS
    <2>. QED  BY <2>1
  <1>4. In(down', {AcceptedReply}) => In(down, {AcceptedReply})
    <2>1. AcceptedReply \in Word(c, "reply")
      <3>1. "reply" \in Types /\ "accepted" \in Whats  BY DEF Types, Whats
      <3>. QED  BY <3>1, PacketIn DEF AcceptedReply
    <2>. QED  BY <2>1
  <1>5. (Prefix(step))' = Prefix(step) /\ (Prefix(step - 1))' = Prefix(step - 1)  BY <1>1 DEF Prefix
  <1>6. JobInv  BY DEF IInv
  <1>7. jobPc = "opening" => JobInv'  BY <1>1, <1>6 DEF JobInv, Current
  <1>8. jobPc = "ready" => JobInv'  BY <1>1, <1>5, <1>6 DEF JobInv, Current
  <1>9. jobPc = "requesting" => JobInv'  BY <1>1, <1>2, <1>3, <1>4, <1>5, <1>6 DEF JobInv, Current
  <1>10. jobPc \notin {"opening", "ready", "requesting"} => JobInv'  BY <1>1, <1>6 DEF JobInv, Current
  <1>. QED  BY <1>7, <1>8, <1>9, <1>10

\* A step that is about the channel c alone.
LEMMA ChannelStep ==
    ASSUME RequestsAssumption, IInv, UNCHANGED <<job, results, overdue>>, NEW c \in Ids,
           channel' \in [Ids -> Channel], server' \in [Ids -> Serving],
           granted' \in [Ids -> Seq({"exec", "pty", "shell"})],
           up' \in Seq(Sent), down' \in Seq(Received),
           \A d \in Ids : d # c => /\ channel'[d] = channel[d] /\ server'[d] = server[d] /\ granted'[d] = granted[d]
                                   /\ SameQueue(up, up', d) /\ SameQueue(down, down', d),
           ChannelInv(c)', Runs(c) => Known(c)' /\ "freedLocal" \notin channel'[c].flags /\ JobInv'
    PROVE  IInv'
  <1>1. /\ jobPc' = jobPc /\ maxchannel' = maxchannel /\ kind' = kind /\ step' = step
        /\ results' = results /\ overdue' = overdue
    BY DEF job
  <1>2. ASSUME NEW d \in Ids, d # c PROVE ChannelInv(d)'
    <2>1. (Runs(d)' <=> Runs(d)) /\ (Opens(d)' <=> Opens(d))  BY <1>1 DEF Runs, Opens
    <2>. QED  BY <1>1, <1>2, <2>1, OthersKeep
  <1>3. jobPc # "idle" => /\ maxchannel \in Ids /\ Known(maxchannel) /\ "freedLocal" \notin channel[maxchannel].flags
                          /\ maxchannel \notin overdue
    BY InvFacts
  <1>4. jobPc # "idle" => channel'[maxchannel].state # "none" /\ "freedLocal" \notin channel'[maxchannel].flags
    <2>1. CASE maxchannel = c  BY <2>1 DEF Runs, Known
    <2>2. CASE maxchannel # c  BY <1>3, <2>2 DEF Known
    <2>. QED  BY <2>1, <2>2
  <1>5. Typed'  BY <1>1, <1>3, <1>4 DEF IInv, Typed, Known, Current
  <1>6. JobInv'
    <2>1. CASE jobPc = "idle"  BY <1>1, <2>1 DEF JobInv
    <2>2. CASE jobPc # "idle" /\ maxchannel = c  BY <2>2 DEF Runs
    <2>3. CASE jobPc # "idle" /\ maxchannel # c
      <3>1. PICK d \in Ids : d = maxchannel  BY <1>3, <2>3
      <3>2. /\ channel'[d] = channel[d] /\ server'[d] = server[d] /\ granted'[d] = granted[d]
            /\ \A S \in SUBSET Words(d) : (In(up', S) <=> In(up, S)) /\ (In(down', S) <=> In(down, S))
        BY <2>3, <3>1 DEF SameQueue
      <3>3. Word(d, "request") \in SUBSET Words(d) /\ Word(d, "reply") \in SUBSET Words(d)  BY WordsOf
      <3>. QED  BY <3>1, <3>2, <3>3, JobFrame
    <2>. QED  BY <2>1, <2>2, <2>3
  <1>. QED  BY <1>2, <1>5, <1>6 DEF IInv
\* A packet of the server is taken: what was known of its channel.
LEMMA Handled ==
    ASSUME RequestsAssumption, IInv, NEW type, TakePacket(type)
    PROVE  /\ Dest \in Ids /\ Head(down) \in Received /\ Head(down).type = type /\ down' \in Seq(Received)
           /\ UNCHANGED <<jobPc, kind, step, maxchannel, results, overdue, up, server, granted>>
           /\ \A d \in Ids : d # Dest => SameQueue(up, up', d) /\ SameQueue(down, down', d)
           /\ \A S : In(down, S) <=> (Head(down) \in S \/ In(down', S))
           /\ \A t : In(down, Word(Dest, t)) <=> (In(down', Word(Dest, t)) \/ t = type)
           /\ ~In(down', Word(Dest, "confirmation")) /\ ~In(down', Word(Dest, "refusal"))
           /\ ~(Dest > maxchannel)
           /\ ~In(up, Word(Dest, "open")) /\ channel[Dest].state # "denied"
           /\ channel[Dest].state # "none" \/ Dest \in overdue
           /\ channel[Dest].state = "none" => channel[Dest] = NoChannel
           /\ type # "confirmation" /\ type # "refusal" => channel[Dest].state \in {"open", "closed", "none"}
  <1>1. /\ down # <<>> /\ Head(down).type = type /\ down' = Tail(down)
        /\ UNCHANGED <<jobPc, kind, step, maxchannel, results, overdue, up, server, granted>>
    BY DEF TakePacket, job
  <1>2. Received \in SUBSET Packets /\ down \in Seq(Received)  BY InvFacts DEF Received
  <1>3. PICK c \in Ids : c = Head(down).channel  BY <1>1, <1>2, Takes
  <1>4. /\ down' \in Seq(Received) /\ Head(down) \in Received
        /\ \A d \in Ids : d # c => SameQueue(down, down', d)
        /\ \A S : In(down, S) <=> (Head(down) \in S \/ In(down', S))
    BY <1>1, <1>2, <1>3, Takes
  <1>5. /\ In(down, Words(c))
        /\ \A t : In(down, Word(c, t)) <=> (In(down', Word(c, t)) \/ t = type)
        /\ \A t : In(down, Words(c) \ Word(c, t)) <=> (In(down', Words(c) \ Word(c, t)) \/ t # type)
        /\ \A t : Before(down, Word(c, t), Words(c)) => ~In(down', Word(c, t))
    BY <1>1, <1>2, <1>3, Takes
  <1>6. OpenInv(c)  BY InvFacts
  <1>7. ~Silent(c)  BY <1>5 DEF Silent
  <1>8. ~(c > maxchannel)  BY <1>6, <1>7 DEF OpenInv, Unused
  <1>9. ~In(down', Word(c, "confirmation")) /\ ~In(down', Word(c, "refusal"))
    BY <1>5, <1>6 DEF OpenInv, Confirmed, Refused
  <1>10. ~In(up, Word(c, "open")) /\ channel[c].state # "denied"
    BY <1>6, <1>7 DEF OpenInv, Asked, StateInv
  <1>11. channel[c].state # "none" \/ c \in overdue  BY <1>6, <1>7 DEF OpenInv, CloseInv, Known
  <1>12. channel[c].state = "none" => channel[c] = NoChannel  BY <1>6 DEF OpenInv, StateInv
  <1>13. type # "confirmation" /\ type # "refusal" => channel[c].state # "opening"
    <2>1. type # "refusal" => server[c].phase # "none"  BY <1>5, <1>6 DEF OpenInv, CloseInv
    <2>. QED  BY <1>5, <1>6, <1>9, <2>1 DEF OpenInv, StateInv
  <1>14. channel[c].state \in {"none", "opening", "open", "denied", "closed"}  BY InvFacts DEF Channel
  <1>15. \A d \in Ids : SameQueue(up, up', d)  BY <1>1, SameSame
  <1>. QED
    BY <1>1, <1>3, <1>4, <1>5, <1>8, <1>9, <1>10, <1>11, <1>12, <1>13, <1>14, <1>15 DEF Dest

\* A packet of the server is handled, and this becomes of its channel.
LEMMA HandledKeeps ==
    ASSUME RequestsAssumption, IInv, NEW type, TakePacket(type), NEW c \in Ids, c = Dest,
           channel' \in [Ids -> Channel], \A d \in Ids : d # c => channel'[d] = channel[d],
           StateInv(c)',
           "closedRemote" \in channel'[c].flags => "closedRemote" \in channel[c].flags \/ type = "close",
           channel'[c].state = "none" => channel[c].state = "none" \/ type = "close",
           channel'[c].state # "none" => channel[c].state # "none",
           channel'[c].exit = "status" => channel[c].exit = "status" \/ type = "exit",
           channel'[c].state # "none" /\ (channel[c].exit = "status" \/ type = "exit") => channel'[c].exit = "status",
           type # "reply" /\ channel'[c].state # "none" => channel'[c].request = channel[c].request,
           Runs(c) => channel'[c].state # "none" /\ "freedLocal" \notin channel'[c].flags /\ JobInv'
    PROVE  IInv'
  <1>1. /\ Head(down).type = type /\ down' \in Seq(Received) /\ down # <<>> /\ down' = Tail(down)
        /\ UNCHANGED <<jobPc, kind, step, maxchannel, results, overdue, up, server, granted>>
        /\ \A d \in Ids : d # c => SameQueue(up, up', d) /\ SameQueue(down, down', d)
        /\ \A t : In(down, Word(c, t)) <=> (In(down', Word(c, t)) \/ t = type)
        /\ ~In(down', Word(c, "confirmation")) /\ ~In(down', Word(c, "refusal"))
        /\ ~In(up, Word(c, "open"))
    BY Handled DEF TakePacket
  <1>2. Received \in SUBSET Packets /\ down \in Seq(Received) /\ c = Head(down).channel
    BY InvFacts DEF Received, Dest
  <1>3. /\ In(down, Words(c))
        /\ \A t : In(down', Words(c) \ Word(c, t)) => In(down, Words(c) \ Word(c, t))
        /\ \A t : Before(down, Word(c, t), Word(c, t)) =>
                  Before(down', Word(c, t), Word(c, t)) /\ (t = type => ~In(down', Word(c, t)))
        /\ \A t : Before(down, Words(c), Word(c, t)) =>
                  Before(down', Words(c), Word(c, t)) /\ (t = type => ~In(down', Words(c)))
    BY <1>1, <1>2, Takes
  <1>4. OpenInv(c) /\ ExitInv(c) /\ RequestInv(c)  BY InvFacts
  <1>5. ~Silent(c)  BY <1>3 DEF Silent
  <1>6. Unused(c)'
    <2>1. ~(c > maxchannel)  BY <1>4, <1>5 DEF OpenInv, Unused
    <2>. QED  BY <1>1, <2>1 DEF Unused
  <1>7. Asked(c)' /\ Refused(c)' /\ Confirmed(c)'  BY <1>1 DEF Asked, Refused, Confirmed
  <1>8. CloseInv(c)'
    <2>1. Before(down', Words(c), Word(c, "close")) /\ (type = "close" => ~In(down', Words(c)))
      BY <1>3, <1>4 DEF OpenInv, CloseInv
    <2>2. type = "close" => server[c].closed  BY <1>1, <1>4 DEF OpenInv, CloseInv
    <2>3. "closedRemote" \notin channel[c].flags  BY <1>4, <1>5 DEF OpenInv, CloseInv
    <2>4. channel[c].state = "none" => c \in overdue  BY <1>4, <1>5 DEF OpenInv, CloseInv, Known
    <2>5. In(down', Word(c, "close")) => server'[c].closed  BY <1>1, <1>4 DEF OpenInv, CloseInv
    <2>6. In(down', Words(c) \ Word(c, "refusal")) \/ server'[c].closed
            \/ In(up', Words(c) \ Word(c, "open")) => server'[c].phase # "none"
      BY <1>1, <1>3, <1>4 DEF OpenInv, CloseInv
    <2>7. "closedRemote" \in channel'[c].flags => server'[c].closed /\ Silent(c)'
      BY <1>1, <2>1, <2>2, <2>3 DEF Silent
    <2>8. ~Known(c)' /\ c \notin overdue' => Silent(c)' /\ server'[c].closed
      BY <1>1, <2>1, <2>2, <2>4 DEF Silent, Known
    <2>. QED  BY <2>1, <2>5, <2>6, <2>7, <2>8 DEF CloseInv
  <1>9. HeldInv(c)'  BY <1>1, <1>4 DEF OpenInv, HeldInv, Runs
  <1>10. ExitInv(c)'  BY <1>1, <1>4 DEF ExitInv, Known
  <1>11. RequestInv(c)'
    <2>1. /\ Before(down', Word(c, "reply"), Word(c, "reply"))
          /\ type = "reply" => ~In(down', Word(c, "reply")) /\ ~In(up, Word(c, "request"))
      BY <1>1, <1>3, <1>4 DEF RequestInv
    <2>. QED  BY <1>1, <1>4, <2>1 DEF RequestInv, Known
  <1>12. ChannelInv(c)'
    BY <1>6, <1>7, <1>8, <1>9, <1>10, <1>11 DEF ChannelInv, OpenInv
  <1>. QED  BY <1>1, <1>12, InvFacts, ChannelStep DEF job, Known
\* A packet that is no answer to the open and changes neither the requests nor the state of its channel.
LEMMA NewsKeeps ==
    ASSUME RequestsAssumption, IInv, NEW type \in {"exit", "eof"}, TakePacket(type), NEW ch, Update(ch),
           channel[Dest] \in Channel =>
               /\ ch \in Channel /\ ch.state = channel[Dest].state /\ ch.flags = channel[Dest].flags
               /\ ch.request = channel[Dest].request
               /\ ch.exit = IF type = "exit" THEN "status" ELSE channel[Dest].exit
    PROVE  IInv'
  <1>1. PICK c \in Ids : c = Dest  BY Handled
  <1>2. /\ UNCHANGED <<jobPc, kind, step, maxchannel, results, overdue, up, server, granted>>
        /\ \A t : In(down, Word(c, t)) <=> (In(down', Word(c, t)) \/ t = type)
        /\ ~In(down', Word(c, "confirmation")) /\ ~In(down', Word(c, "refusal"))
        /\ ~In(up, Word(c, "open")) /\ (channel[c].state # "none" \/ c \in overdue)
        /\ channel[c].state \in {"open", "closed", "none"}
    BY <1>1, Handled
  <1>3. OpenInv(c) /\ channel[c] \in Channel  BY InvFacts
  <1>4. /\ channel' \in [Ids -> Channel] /\ \A d \in Ids : d # c => channel'[d] = channel[d]
        /\ channel[c].state = "none" => channel'[c] = channel[c]
        /\ channel'[c].state = channel[c].state /\ channel'[c].flags = channel[c].flags
        /\ channel'[c].request = channel[c].request
        /\ channel[c].state # "none" => channel'[c].exit = IF type = "exit" THEN "status" ELSE channel[c].exit
    BY <1>1, <1>3, InvFacts DEF Update, Known
  <1>5. StateInv(c)'
    <2>1. CASE channel[c].state = "none"  BY <1>2, <1>3, <1>4, <2>1 DEF OpenInv, StateInv, Known
    <2>2. CASE channel[c].state \in {"open", "closed"}  BY <1>2, <1>3, <1>4, <2>2 DEF OpenInv, StateInv, Known
    <2>. QED  BY <1>2, <2>1, <2>2
  <1>6. Runs(c) => channel'[c].state # "none" /\ "freedLocal" \notin channel'[c].flags /\ JobInv'
    <2>1. ASSUME Runs(c) PROVE JobInv'
      <3>1. \A S \in SUBSET Word(c, "reply") : In(down', S) => In(down, S)
        BY <1>1, Handled
      <3>. QED  BY <1>2, <1>4, <2>1, <3>1, JobFrame DEF Runs, job
    <2>. QED  BY <1>4, <2>1, InvFacts DEF Runs, Known
  <1>7. channel'[c].exit = "status" => channel[c].exit = "status" \/ type = "exit"  BY <1>4
  <1>. QED  BY <1>1, <1>4, <1>5, <1>6, <1>7, HandledKeeps

LEMMA RcvExitKeeps == ASSUME RequestsAssumption, IInv, RcvExit PROVE IInv'
  <1>1. TakePacket("exit") /\ Dest \in Ids /\ Head(down).what = "status"
    <2>1. TakePacket("exit")  BY DEF RcvExit
    <2>. QED  BY <2>1, Handled DEF Received
  <1>2. PICK ch : ch = [channel[Dest] EXCEPT !.exit = Head(down).what]  OBVIOUS
  <1>3. Update(ch)  BY <1>2 DEF RcvExit
  <1>4. channel[Dest] \in Channel =>
            /\ ch \in Channel /\ ch.state = channel[Dest].state /\ ch.flags = channel[Dest].flags
            /\ ch.request = channel[Dest].request /\ ch.exit = "status"
    BY <1>1, <1>2 DEF Channel
  <1>. QED  BY <1>1, <1>3, <1>4, NewsKeeps

LEMMA RcvEofKeeps == ASSUME RequestsAssumption, IInv, RcvServerEof PROVE IInv'
  <1>1. TakePacket("eof")  BY DEF RcvServerEof
  <1>2. PICK ch : ch = [channel[Dest] EXCEPT !.eof = TRUE]  OBVIOUS
  <1>3. Update(ch)  BY <1>2 DEF RcvServerEof
  <1>4. channel[Dest] \in Channel =>
            /\ ch \in Channel /\ ch.state = channel[Dest].state /\ ch.flags = channel[Dest].flags
            /\ ch.request = channel[Dest].request /\ ch.exit = channel[Dest].exit
    BY <1>2 DEF Channel
  <1>. QED  BY <1>1, <1>3, <1>4, NewsKeeps

LEMMA OpenConfKeeps == ASSUME RequestsAssumption, IInv, OpenConf PROVE IInv'
  <1>. DEFINE type == "confirmation"
  <1>1. TakePacket(type)  BY DEF OpenConf
  <1>2. PICK c \in Ids : c = Dest  BY <1>1, Handled
  <1>3. /\ UNCHANGED <<jobPc, kind, step, maxchannel, results, overdue, up, server, granted>>
        /\ \A t : In(down, Word(c, t)) <=> (In(down', Word(c, t)) \/ t = type)
        /\ ~In(down', Word(c, "confirmation")) /\ ~In(down', Word(c, "refusal"))
        /\ ~In(up, Word(c, "open")) /\ (channel[c].state # "none" \/ c \in overdue)
    BY <1>1, <1>2, Handled
  <1>4. OpenInv(c) /\ channel[c] \in Channel  BY InvFacts
  <1>5. /\ server[c].phase # "none"
        /\ c \in overdue \/ (Opens(c) /\ channel[c].state = "opening" /\ channel[c].flags = {"notBound"})
    BY <1>3, <1>4 DEF OpenInv, Confirmed, Waits, StateInv
  <1>6. CASE channel[c].state = "none"
    <2>1. channel' = channel  BY <1>2, <1>6 DEF OpenConf, Update, Known
    <2>2. StateInv(c)'  BY <1>3, <1>4, <1>6, <2>1 DEF OpenInv, StateInv, Known
    <2>3. ~Runs(c)  BY <1>6, InvFacts DEF Runs, Known
    <2>. QED  BY <1>1, <1>2, <1>6, <2>1, <2>2, <2>3, InvFacts, HandledKeeps
  <1>7. CASE channel[c].state # "none"
    <2>1. c \notin overdue  BY <1>4, <1>7 DEF OpenInv, StateInv, Known
    <2>2. Opens(c) /\ channel[c].state = "opening" /\ channel[c].flags = {"notBound"}  BY <1>5, <2>1
    <2>3. PICK ch : ch = [channel[c] EXCEPT !.state = "open", !.flags = channel[c].flags \ {"notBound"}]  OBVIOUS
    <2>4. channel' = [channel EXCEPT ![c] = ch]  BY <1>2, <2>2, <2>3 DEF OpenConf, Update, Known
    <2>5. /\ ch \in Channel /\ ch.state = "open" /\ ch.flags = {} /\ ch.request = channel[c].request
          /\ ch.exit = channel[c].exit
      BY <1>4, <2>2, <2>3 DEF Channel
    <2>6. channel'[c] = ch /\ channel' \in [Ids -> Channel] /\ \A d \in Ids : d # c => channel'[d] = channel[d]
      BY <2>4, <2>5, InvFacts
    <2>7. StateInv(c)'  BY <1>3, <1>5, <2>1, <2>5, <2>6 DEF StateInv
    <2>8. JobInv'
      <3>1. \A S \in SUBSET Word(c, "reply") : In(down', S) => In(down, S)  BY <1>1, Handled
      <3>. QED  BY <1>3, <2>2, <2>5, <2>6, <3>1, JobFrame DEF Opens, job
    <2>. QED  BY <1>1, <1>2, <2>2, <2>5, <2>6, <2>7, <2>8, HandledKeeps
  <1>. QED  BY <1>6, <1>7

LEMMA OpenFailKeeps == ASSUME RequestsAssumption, IInv, OpenFail PROVE IInv'
  <1>. DEFINE type == "refusal"
  <1>1. TakePacket(type)  BY DEF OpenFail
  <1>2. PICK c \in Ids : c = Dest  BY <1>1, Handled
  <1>3. /\ UNCHANGED <<jobPc, kind, step, maxchannel, results, overdue, up, server, granted>>
        /\ \A t : In(down, Word(c, t)) <=> (In(down', Word(c, t)) \/ t = type)
        /\ ~In(down', Word(c, "confirmation")) /\ ~In(down', Word(c, "refusal"))
        /\ ~In(up, Word(c, "open")) /\ (channel[c].state # "none" \/ c \in overdue)
    BY <1>1, <1>2, Handled
  <1>4. OpenInv(c) /\ channel[c] \in Channel  BY InvFacts
  <1>5. /\ Untouched(c) /\ NothingSent(c) /\ Before(down, Words(c), Word(c, "refusal"))
        /\ c \in overdue \/ (Opens(c) /\ channel[c].state = "opening" /\ channel[c].flags = {"notBound"})
    BY <1>3, <1>4 DEF OpenInv, Refused, Waits, StateInv
  <1>6. CASE channel[c].state = "none"
    <2>1. channel' = channel  BY <1>2, <1>6 DEF OpenFail, Update, Known
    <2>2. StateInv(c)'  BY <1>3, <1>4, <1>6, <2>1 DEF OpenInv, StateInv, Known
    <2>3. ~Runs(c)  BY <1>6, InvFacts DEF Runs, Known
    <2>. QED  BY <1>1, <1>2, <1>6, <2>1, <2>2, <2>3, InvFacts, HandledKeeps
  <1>7. CASE channel[c].state # "none"
    <2>1. c \notin overdue  BY <1>4, <1>7 DEF OpenInv, StateInv, Known
    <2>2. Opens(c) /\ channel[c].state = "opening" /\ channel[c].flags = {"notBound"}  BY <1>5, <2>1
    <2>3. PICK ch : ch = [channel[c] EXCEPT !.state = "denied"]  OBVIOUS
    <2>4. channel' = [channel EXCEPT ![c] = ch]  BY <1>2, <2>2, <2>3 DEF OpenFail, Update, Known
    <2>5. /\ ch \in Channel /\ ch.state = "denied" /\ ch.flags = {"notBound"} /\ ch.request = channel[c].request
          /\ ch.exit = channel[c].exit
      BY <1>4, <2>2, <2>3 DEF Channel
    <2>6. channel'[c] = ch /\ channel' \in [Ids -> Channel] /\ \A d \in Ids : d # c => channel'[d] = channel[d]
      BY <2>4, <2>5, InvFacts
    <2>7. Silent(c)'
      <3>1. down # <<>> /\ down' = Tail(down) /\ Head(down).type = type  BY <1>1 DEF TakePacket
      <3>2. Received \in SUBSET Packets /\ down \in Seq(Received) /\ c = Head(down).channel
        BY <1>2, InvFacts DEF Received, Dest
      <3>3. ~In(down', Words(c))  BY <1>5, <3>1, <3>2, Takes
      <3>. QED  BY <3>3 DEF Silent
    <2>8. StateInv(c)'
      BY <1>3, <1>5, <2>1, <2>2, <2>5, <2>6, <2>7 DEF StateInv, Untouched, NothingSent, Opens
    <2>9. JobInv'
      <3>1. \A S \in SUBSET Word(c, "reply") : In(down', S) => In(down, S)  BY <1>1, Handled
      <3>. QED  BY <1>3, <2>2, <2>5, <2>6, <3>1, JobFrame DEF Opens, job
    <2>. QED  BY <1>1, <1>2, <2>2, <2>5, <2>6, <2>8, <2>9, HandledKeeps
  <1>. QED  BY <1>6, <1>7
LEMMA RequestReplyKeeps == ASSUME RequestsAssumption, IInv, RequestReply PROVE IInv'
  <1>. DEFINE type == "reply"
  <1>1. TakePacket(type)  BY DEF RequestReply
  <1>2. PICK c \in Ids : c = Dest  BY <1>1, Handled
  <1>3. /\ UNCHANGED <<jobPc, kind, step, maxchannel, results, overdue, up, server, granted>>
        /\ \A t : In(down, Word(c, t)) <=> (In(down', Word(c, t)) \/ t = type)
        /\ ~In(down', Word(c, "confirmation")) /\ ~In(down', Word(c, "refusal"))
        /\ ~In(up, Word(c, "open")) /\ (channel[c].state # "none" \/ c \in overdue)
        /\ channel[c].state \in {"open", "closed", "none"}
    BY <1>1, <1>2, Handled
  <1>4. OpenInv(c) /\ RequestInv(c) /\ channel[c] \in Channel  BY InvFacts
  <1>5. PICK e \in Received : e = Head(down) /\ e.type = type /\ e.channel = c /\ e.what \in {"accepted", "denied"}
    <2>1. Head(down) \in Received /\ Head(down).type = type  BY <1>1, Handled
    <2>. QED  BY <1>2, <2>1 DEF Received, Dest
  <1>6. CASE channel[c].state = "none"
    <2>1. channel' = channel  BY <1>2, <1>6 DEF RequestReply, Update, Known
    <2>2. StateInv(c)'  BY <1>3, <1>4, <1>6, <2>1 DEF OpenInv, StateInv, Known
    <2>3. ~Runs(c)  BY <1>6, InvFacts DEF Runs, Known
    <2>. QED  BY <1>1, <1>2, <1>6, <2>1, <2>2, <2>3, InvFacts, HandledKeeps
  <1>7. CASE channel[c].state \in {"open", "closed"}
    <2>1. channel[c].request = "pending" /\ ~In(up, Word(c, "request"))
      BY <1>3, <1>4, <1>7 DEF RequestInv, Known
    <2>2. PICK ch : ch = [channel[c] EXCEPT !.request = e.what]  OBVIOUS
    <2>3. channel' = [channel EXCEPT ![c] = ch]  BY <1>2, <1>5, <1>7, <2>1, <2>2 DEF RequestReply, Update, Known
    <2>4. /\ ch \in Channel /\ ch.state = channel[c].state /\ ch.flags = channel[c].flags
          /\ ch.request = e.what /\ ch.exit = channel[c].exit
      BY <1>4, <1>5, <2>2 DEF Channel
    <2>5. channel'[c] = ch /\ channel' \in [Ids -> Channel] /\ \A d \in Ids : d # c => channel'[d] = channel[d]
      BY <2>3, <2>4, InvFacts
    <2>6. StateInv(c)'  BY <1>3, <1>4, <1>7, <2>4, <2>5 DEF OpenInv, StateInv, Known
    <2>7. ASSUME Runs(c) PROVE "freedLocal" \notin channel'[c].flags /\ JobInv'
      <3>1. "freedLocal" \notin channel'[c].flags  BY <2>4, <2>5, <2>7, InvFacts DEF Runs
      <3>2. c = maxchannel /\ JobInv  BY <2>7 DEF Runs, IInv
      <3>3. jobPc \notin {"opening", "ready", "running"}  BY <2>1, <3>2 DEF JobInv, Current
      <3>4. CASE jobPc = "requesting"
        <4>1. PICK R : R = AcceptedReply  OBVIOUS
        <4>2. AcceptedReply' = R  BY <1>3, <4>1 DEF AcceptedReply, JobPacket
        <4>3. e.what = "accepted" => e = R  BY <1>5, <3>2, <4>1 DEF AcceptedReply, JobPacket, Received, Packets
        <4>4. e.what = "accepted" \/ In(down', {R}) => In(down, {R})
          <5>1. \A S : In(down, S) <=> (Head(down) \in S \/ In(down', S))  BY <1>1, Handled
          <5>. QED  BY <1>5, <4>3, <5>1
        <4>5. In(down, {R}) => granted[c] = Prefix(step) /\ (step < Len(Asks(kind)) => server[c].phase = "open")
          BY <3>2, <3>4, <4>1 DEF JobInv
        <4>6. (Prefix(step))' = Prefix(step) /\ step <= Len(Asks(kind))  BY <1>3, <3>2, <3>4 DEF Prefix, JobInv
        <4>7. PICK W : W = Word(c, "request") \ {Requested}  OBVIOUS
        <4>8. (Word(maxchannel, "request") \ {Requested})' = W  BY <1>3, <3>2, <4>7 DEF Requested, JobPacket, Word
        <4>9. ~In(up', W)
          <5>1. \A S \in SUBSET Word(c, "request") : ~In(up, S)  BY <2>1 DEF In
          <5>. QED  BY <1>3, <4>7, <5>1
        <4>10. ~In(up', Word(maxchannel', "request"))  BY <1>3, <2>1, <3>2
        <4>11. channel'[maxchannel'].request = e.what /\ channel'[maxchannel'].state \in {"open", "closed"}
          BY <1>3, <1>7, <2>4, <2>5, <3>2
        <4>12. e.what = "accepted" \/ In(down', {R}) =>
                  (/\ granted[maxchannel] = Prefix(step)
                   /\ step < Len(Asks(kind)) => server[maxchannel].phase = "open")'
          BY <1>3, <3>2, <4>4, <4>5, <4>6
        <4>13. step' <= Len(Asks(kind')) /\ jobPc' = "requesting" /\ e.what # "none"  BY <1>3, <1>5, <3>4, <4>6
        <4>. QED  BY <3>1, <4>2, <4>8, <4>9, <4>10, <4>11, <4>12, <4>13 DEF JobInv, Current
      <3>5. CASE jobPc \in {"idle", "exiting", "closing"}
        BY <1>3, <1>7, <2>4, <2>5, <3>1, <3>2, <3>5 DEF JobInv, Current
      <3>6. jobPc \in {"idle", "opening", "ready", "requesting", "running", "exiting", "closing"}  BY DEF IInv, Typed
      <3>. QED  BY <3>1, <3>3, <3>4, <3>5, <3>6
    <2>. QED  BY <1>1, <1>2, <1>7, <2>4, <2>5, <2>6, <2>7, HandledKeeps
  <1>. QED  BY <1>3, <1>6, <1>7

LEMMA RcvCloseKeeps == ASSUME RequestsAssumption, IInv, RcvServerClose PROVE IInv'
  <1>. DEFINE type == "close"
  <1>1. TakePacket(type)  BY DEF RcvServerClose
  <1>2. PICK c \in Ids : c = Dest  BY <1>1, Handled
  <1>3. /\ UNCHANGED <<jobPc, kind, step, maxchannel, results, overdue, up, server, granted>>
        /\ \A t : In(down, Word(c, t)) <=> (In(down', Word(c, t)) \/ t = type)
        /\ ~In(down', Word(c, "confirmation")) /\ ~In(down', Word(c, "refusal"))
        /\ ~In(up, Word(c, "open")) /\ (channel[c].state # "none" \/ c \in overdue)
        /\ channel[c].state \in {"open", "closed", "none"}
    BY <1>1, <1>2, Handled
  <1>4. OpenInv(c) /\ channel[c] \in Channel  BY InvFacts
  <1>5. \A S \in SUBSET Word(c, "reply") : In(down', S) => In(down, S)  BY <1>1, Handled
  <1>6. CASE channel[c].state = "none"
    <2>1. channel' = channel  BY <1>2, <1>6 DEF RcvServerClose, Update, Known
    <2>2. StateInv(c)'  BY <1>3, <1>4, <1>6, <2>1 DEF OpenInv, StateInv, Known
    <2>3. ~Runs(c)  BY <1>6, InvFacts DEF Runs, Known
    <2>. QED  BY <1>1, <1>2, <1>6, <2>1, <2>2, <2>3, InvFacts, HandledKeeps
  <1>7. CASE channel[c].state # "none" /\ "freedLocal" \in channel[c].flags
    <2>1. channel' = [channel EXCEPT ![c] = NoChannel]  BY <1>2, <1>7 DEF RcvServerClose, Update, Known
    <2>2. NoChannel \in Channel /\ NoChannel.state = "none" /\ NoChannel.flags = {} /\ NoChannel.exit = "none"
      BY DEF NoChannel, Channel
    <2>3. channel'[c] = NoChannel /\ channel' \in [Ids -> Channel] /\ \A d \in Ids : d # c => channel'[d] = channel[d]
      BY <2>1, <2>2, InvFacts
    <2>4. StateInv(c)'  BY <2>2, <2>3 DEF StateInv, Known
    <2>5. ~Runs(c)  BY <1>7, InvFacts DEF Runs
    <2>. QED  BY <1>1, <1>2, <2>2, <2>3, <2>4, <2>5, HandledKeeps
  <1>8. CASE channel[c].state # "none" /\ "freedLocal" \notin channel[c].flags
    <2>1. PICK ch : ch = [channel[c] EXCEPT !.state = "closed", !.eof = TRUE,
                                            !.flags = channel[c].flags \cup {"closedRemote"}]
      OBVIOUS
    <2>2. channel' = [channel EXCEPT ![c] = ch]  BY <1>2, <1>8, <2>1 DEF RcvServerClose, Update, Known
    <2>3. /\ ch \in Channel /\ ch.state = "closed" /\ ch.flags = channel[c].flags \cup {"closedRemote"}
          /\ ch.request = channel[c].request /\ ch.exit = channel[c].exit
      BY <1>4, <2>1 DEF Channel
    <2>4. channel'[c] = ch /\ channel' \in [Ids -> Channel] /\ \A d \in Ids : d # c => channel'[d] = channel[d]
      BY <2>2, <2>3, InvFacts
    <2>5. StateInv(c)'  BY <1>3, <1>4, <1>8, <2>3, <2>4 DEF OpenInv, StateInv, Known
    <2>6. Runs(c) => JobInv'  BY <1>3, <1>5, <2>3, <2>4, JobFrame DEF Runs, job
    <2>7. "freedLocal" \notin channel'[c].flags  BY <1>8, <2>3, <2>4
    <2>. QED  BY <1>1, <1>2, <1>8, <2>3, <2>4, <2>5, <2>6, <2>7, HandledKeeps
  <1>. QED  BY <1>6, <1>7, <1>8

\* A packet of the client is taken: what was known of its channel.
LEMMA Taken ==
    ASSUME RequestsAssumption, IInv, NEW type, ServerTakes(type)
    PROVE  /\ Request.channel \in Ids /\ Request \in Sent /\ Request.type = type /\ up' \in Seq(Sent)
           /\ UNCHANGED <<jobPc, kind, step, maxchannel, channel, results, overdue>>
           /\ \A d \in Ids : d # Request.channel => SameQueue(up, up', d)
           /\ \A S : In(up, S) <=> (Request \in S \/ In(up', S))
           /\ LET c == Request.channel IN
              /\ ~NothingSent(c) /\ ~(c > maxchannel) /\ channel[c].state # "denied"
              /\ \A t : In(up, Word(c, t)) <=> (In(up', Word(c, t)) \/ t = type)
              /\ \A t : In(up, Words(c) \ Word(c, t)) <=> (In(up', Words(c) \ Word(c, t)) \/ t # type)
              /\ ~In(up', Word(c, "open"))
              /\ Before(up, Word(c, "request"), Word(c, "request")) =>
                    /\ Before(up', Word(c, "request"), Word(c, "request"))
                    /\ type = "request" => ~In(up', Word(c, "request"))
              /\ type = "open" => ~In(up', Words(c))
  <1>1. /\ up # <<>> /\ Head(up).type = type /\ up' = Tail(up)
        /\ UNCHANGED <<jobPc, kind, step, maxchannel, channel, results, overdue>>
    BY DEF ServerTakes, Request, job
  <1>2. Sent \in SUBSET Packets /\ up \in Seq(Sent)  BY InvFacts DEF Sent
  <1>3. PICK c \in Ids : c = Head(up).channel  BY <1>1, <1>2, Takes
  <1>4. /\ up' \in Seq(Sent) /\ Head(up) \in Sent
        /\ \A d \in Ids : d # c => SameQueue(up, up', d)
        /\ \A S : In(up, S) <=> (Head(up) \in S \/ In(up', S))
    BY <1>1, <1>2, <1>3, Takes
  <1>5. /\ In(up, Words(c))
        /\ \A t : In(up, Word(c, t)) <=> (In(up', Word(c, t)) \/ t = type)
        /\ \A t : In(up, Words(c) \ Word(c, t)) <=> (In(up', Words(c) \ Word(c, t)) \/ t # type)
        /\ \A t : Before(up, Word(c, t), Word(c, t)) =>
                  Before(up', Word(c, t), Word(c, t)) /\ (t = type => ~In(up', Word(c, t)))
        /\ \A t : Before(up, Word(c, t), Words(c)) => ~In(up', Word(c, t))
        /\ \A t : Before(up, Words(c), Word(c, t)) => (t = type => ~In(up', Words(c)))
    BY <1>1, <1>2, <1>3, Takes
  <1>6. OpenInv(c)  BY InvFacts
  <1>7. ~NothingSent(c)  BY <1>5 DEF NothingSent
  <1>8. ~(c > maxchannel) /\ channel[c].state # "denied"  BY <1>6, <1>7 DEF OpenInv, Unused, StateInv
  <1>9. ~In(up', Word(c, "open")) /\ (type = "open" => ~In(up', Words(c)))
    BY <1>5, <1>6 DEF OpenInv, Asked
  <1>. QED  BY <1>1, <1>3, <1>4, <1>5, <1>7, <1>8, <1>9 DEF Request
\* A packet that the server puts into the queue.
LEMMA ServerSends ==
    ASSUME RequestsAssumption, IInv, NEW c \in Ids, NEW type, NEW what,
           down' = Append(down, JobPacket(type, c, what)), JobPacket(type, c, what) \in Received
    PROVE  /\ down' \in Seq(Received)
           /\ \A d \in Ids : d # c => SameQueue(down, down', d)
           /\ \A S : In(down', S) <=> (In(down, S) \/ JobPacket(type, c, what) \in S)
           /\ \A t : In(down', Word(c, t)) <=> (In(down, Word(c, t)) \/ t = type)
           /\ \A t : In(down', Words(c) \ Word(c, t)) <=> (In(down, Words(c) \ Word(c, t)) \/ t # type)
           /\ \A t : Before(down, Word(c, t), Word(c, t)) /\ (t = type => ~In(down, Word(c, t))) =>
                     Before(down', Word(c, t), Word(c, t))
           /\ \A t : Before(down, Word(c, t), Words(c)) /\ (t = type => ~In(down, Words(c))) =>
                     Before(down', Word(c, t), Words(c))
           /\ \A t : Before(down, Words(c), Word(c, t)) /\ ~In(down, Word(c, t)) =>
                     Before(down', Words(c), Word(c, t))
  <1>. DEFINE e == JobPacket(type, c, what)
  <1>1. e \in Received /\ e.type = type /\ e.channel = c  BY DEF JobPacket
  <1>2. down' = Append(down, e)  OBVIOUS
  <1>. HIDE DEF e
  <1>3. Received \in SUBSET Packets  BY DEF Received
  <1>4. down \in Seq(Received)  BY InvFacts
  <1>5. e \in Received  BY <1>1
  <1>6. down' \in Seq(Received) /\ Put(down, down', e, c)  BY <1>1, <1>2, <1>3, <1>4, <1>5, Puts
  <1>7. /\ down' \in Seq(Received)
        /\ \A d \in Ids : d # c => SameQueue(down, down', d)
        /\ \A S : In(down', S) <=> (In(down, S) \/ e \in S)
    BY <1>6 DEF Put
  <1>8. /\ \A t : In(down', Word(c, t)) <=> (In(down, Word(c, t)) \/ t = type)
        /\ \A t : In(down', Words(c) \ Word(c, t)) <=> (In(down, Words(c) \ Word(c, t)) \/ t # type)
        /\ \A t : Before(down, Word(c, t), Word(c, t)) /\ (t = type => ~In(down, Word(c, t))) =>
                  Before(down', Word(c, t), Word(c, t))
        /\ \A t : Before(down, Word(c, t), Words(c)) /\ (t = type => ~In(down, Words(c))) =>
                  Before(down', Word(c, t), Words(c))
        /\ \A t : Before(down, Words(c), Word(c, t)) /\ ~In(down, Word(c, t)) =>
                  Before(down', Words(c), Word(c, t))
    BY <1>1, <1>6 DEF Put
  <1>. QED  BY <1>7, <1>8 DEF e

LEMMA ReceivedIn ==
    ASSUME NEW c \in Ids
    PROVE  /\ \A type \in {"confirmation", "refusal", "close", "eof"} : JobPacket(type, c, "") \in Received
           /\ \A type \in {"exit", "eof"} : JobPacket(type, c, "status") \in Received
           /\ \A what \in {"accepted", "denied"} : JobPacket("reply", c, what) \in Received
  <1>1. \A type \in {"confirmation", "refusal", "close", "reply", "exit", "eof"} : type \in Types  BY DEF Types
  <1>2. \A what \in {"", "status", "accepted", "denied"} : what \in Whats  BY DEF Whats
  <1>. QED  BY <1>1, <1>2 DEF JobPacket, Packets, Received

LEMMA ServerOpensKeeps == ASSUME RequestsAssumption, IInv, ServerOpens PROVE IInv'
  <1>. DEFINE type == "open"
  <1>1. ServerTakes(type)  BY DEF ServerOpens
  <1>2. PICK c \in Ids : c = Request.channel  BY <1>1, Taken
  <1>3. /\ UNCHANGED <<jobPc, kind, step, maxchannel, channel, results, overdue, granted>>
        /\ up' \in Seq(Sent) /\ \A d \in Ids : d # c => SameQueue(up, up', d)
    BY <1>1, <1>2, Taken DEF ServerOpens
  <1>4. /\ ~NothingSent(c) /\ ~(c > maxchannel) /\ channel[c].state # "denied"
        /\ \A t : In(up, Word(c, t)) <=> (In(up', Word(c, t)) \/ t = type)
        /\ ~In(up', Words(c))
    BY <1>1, <1>2, Taken
  <1>5. OpenInv(c) /\ ExitInv(c) /\ RequestInv(c)  BY InvFacts
  <1>6. Untouched(c) /\ Silent(c) /\ Waits(c)  BY <1>4, <1>5 DEF OpenInv, Asked
  <1>7. /\ \A t : ~In(up', Word(c, t)) /\ ~In(up', Words(c) \ Word(c, t))
        /\ \A t : ~In(down, Word(c, t)) /\ ~In(down, Words(c) \ Word(c, t)) /\ ~In(down, Words(c))
    BY <1>4, <1>6, InWords DEF Silent
  <1>8. /\ \A t : Before(up', Word(c, t), Word(c, t))
        /\ \A t : Before(down, Word(c, t), Words(c)) /\ Before(down, Words(c), Word(c, t))
                  /\ Before(down, Word(c, t), Word(c, t))
    BY <1>7, NothingBefore
  <1>9. /\ server[c].phase = "none" /\ ~server[c].status /\ ~server[c].closed
        /\ server[c] = NoServer /\ granted[c] = <<>>
    BY <1>6 DEF Untouched, NoServer
  <1>10. channel[c].state \in {"none", "opening"} /\ "closedRemote" \notin channel[c].flags
    <2>1. channel[c].state \in {"none", "opening", "open", "denied", "closed"}  BY InvFacts DEF Channel
    <2>. QED  BY <1>4, <1>5, <1>9, <2>1 DEF OpenInv, StateInv, CloseInv
  <1>11. Waits(c)' /\ (channel[c].state = "none" => c \in overdue)
    BY <1>3, <1>6 DEF Waits, Opens
  <1>12. PICK verdict \in {"confirmation", "refusal"} :
            /\ down' = Append(down, JobPacket(verdict, c, ""))
            /\ server' = IF verdict = "confirmation" THEN [server EXCEPT ![c].phase = "open"] ELSE server
    BY <1>2 DEF ServerOpens, Answer
  <1>13. /\ down' \in Seq(Received)
         /\ \A d \in Ids : d # c => SameQueue(down, down', d)
         /\ \A t : In(down', Word(c, t)) <=> t = verdict
         /\ \A t : In(down', Words(c) \ Word(c, t)) <=> t # verdict
         /\ \A t : Before(down', Word(c, t), Word(c, t))
         /\ Before(down', Word(c, verdict), Words(c)) /\ Before(down', Words(c), Word(c, verdict))
         /\ Before(down', Words(c), Word(c, "close"))
    <2>1. JobPacket(verdict, c, "") \in Received  BY ReceivedIn
    <2>2. down' = Append(down, JobPacket(verdict, c, ""))  BY <1>12
    <2>3. /\ down' \in Seq(Received)
          /\ \A d \in Ids : d # c => SameQueue(down, down', d)
          /\ \A t : In(down', Word(c, t)) <=> (In(down, Word(c, t)) \/ t = verdict)
          /\ \A t : In(down', Words(c) \ Word(c, t)) <=> (In(down, Words(c) \ Word(c, t)) \/ t # verdict)
      BY <2>1, <2>2, ServerSends
    <2>4. /\ \A t : Before(down, Word(c, t), Word(c, t)) /\ (t = verdict => ~In(down, Word(c, t))) =>
                    Before(down', Word(c, t), Word(c, t))
          /\ \A t : Before(down, Word(c, t), Words(c)) /\ (t = verdict => ~In(down, Words(c))) =>
                    Before(down', Word(c, t), Words(c))
          /\ \A t : Before(down, Words(c), Word(c, t)) /\ ~In(down, Word(c, t)) =>
                    Before(down', Words(c), Word(c, t))
      BY <2>1, <2>2, ServerSends
    <2>. QED  BY <1>7, <1>8, <2>3, <2>4
  <1>14. /\ server' \in [Ids -> Serving] /\ \A d \in Ids : d # c => server'[d] = server[d]
         /\ server'[c].phase = IF verdict = "confirmation" THEN "open" ELSE "none"
         /\ server'[c].status = server[c].status /\ server'[c].closed = server[c].closed
         /\ verdict = "refusal" => server'[c] = NoServer
    BY <1>9, <1>12, InvFacts DEF Serving
  <1>15. Unused(c)' /\ Asked(c)'  BY <1>3, <1>4, <1>7 DEF Unused, Asked
  <1>16. Refused(c)'  BY <1>3, <1>4, <1>9, <1>11, <1>13, <1>14 DEF Refused, Untouched, NothingSent
  <1>17. Confirmed(c)'  BY <1>3, <1>4, <1>11, <1>13, <1>14 DEF Confirmed, NothingSent
  <1>18. StateInv(c)'  BY <1>3, <1>5, <1>10, <1>13, <1>14 DEF OpenInv, StateInv, Known, Opens
  <1>19. CloseInv(c)'  BY <1>3, <1>7, <1>9, <1>10, <1>11, <1>13, <1>14 DEF CloseInv, Known
  <1>20. HeldInv(c)'  BY <1>11, <1>3 DEF HeldInv, Waits, Runs, Opens
  <1>21. ExitInv(c)'  BY <1>3, <1>5, <1>9, <1>13, <1>14 DEF ExitInv, Known
  <1>22. RequestInv(c)'  BY <1>7, <1>8, <1>13 DEF RequestInv
  <1>23. ChannelInv(c)'
    BY <1>15, <1>16, <1>17, <1>18, <1>19, <1>20, <1>21, <1>22 DEF OpenInv, ChannelInv
  <1>24. Runs(c) => Known(c)' /\ "freedLocal" \notin channel'[c].flags /\ JobInv'
    <2>1. \A S \in SUBSET Word(c, "request") : ~In(up', S)  BY <1>7 DEF In
    <2>2. \A S \in SUBSET Word(c, "reply") : ~In(down', S)  BY <1>13 DEF In
    <2>3. server'[c].phase \in {"none", "open"}  BY <1>14
    <2>4. Runs(c) => JobInv'  BY <1>3, <1>9, <2>1, <2>2, <2>3, JobFrame DEF Runs, job
    <2>. QED  BY <1>3, <2>4, InvFacts DEF Runs, Known
  <1>. QED  BY <1>3, <1>13, <1>14, <1>23, <1>24, InvFacts, ChannelStep DEF job
\* The server takes a packet that is no open, and answers it or does not.
LEMMA TakenKeeps ==
    ASSUME RequestsAssumption, IInv, NEW type, type # "open", ServerTakes(type), NEW c \in Ids, c = Request.channel,
           server' \in [Ids -> Serving], granted' \in [Ids -> Seq({"exec", "pty", "shell"})],
           down' \in Seq(Received),
           \A d \in Ids : d # c => /\ server'[d] = server[d] /\ granted'[d] = granted[d]
                                   /\ SameQueue(down, down', d),
           \A t \in {"confirmation", "refusal", "exit"} : In(down', Word(c, t)) <=> In(down, Word(c, t)),
           server'[c].status = server[c].status, server'[c].phase = "ended" <=> server[c].phase = "ended",
           server[c].phase # "none" => server'[c].phase # "none",
           server[c].closed => server'[c].closed /\ down' = down,
           Before(down', Words(c), Word(c, "close")), In(down', Word(c, "close")) => server'[c].closed,
           server[c].gotClose \/ type = "close" => server'[c].gotClose,
           In(up', Word(c, "request")) => server'[c].phase = "open" /\ ~In(down', Word(c, "reply")),
           Before(down', Word(c, "reply"), Word(c, "reply")),
           In(down', Word(c, "reply")) => In(down, Word(c, "reply")) \/ type = "request",
           Runs(c) => JobInv'
    PROVE  IInv'
  <1>1. /\ UNCHANGED <<jobPc, kind, step, maxchannel, channel, results, overdue>>
        /\ up' \in Seq(Sent) /\ \A d \in Ids : d # c => SameQueue(up, up', d)
    BY Taken
  <1>2. /\ ~NothingSent(c) /\ ~(c > maxchannel) /\ channel[c].state # "denied"
        /\ \A t : In(up, Word(c, t)) <=> (In(up', Word(c, t)) \/ t = type)
        /\ \A t : In(up, Words(c) \ Word(c, t)) <=> (In(up', Words(c) \ Word(c, t)) \/ t # type)
        /\ ~In(up', Word(c, "open"))
        /\ Before(up, Word(c, "request"), Word(c, "request")) =>
                    /\ Before(up', Word(c, "request"), Word(c, "request"))
    BY Taken
  <1>3. OpenInv(c) /\ ExitInv(c) /\ RequestInv(c)  BY InvFacts
  <1>4. server[c].phase # "none" /\ server'[c].phase # "none"  BY <1>2, <1>3 DEF OpenInv, CloseInv
  <1>5. ~In(down, Word(c, "confirmation")) /\ ~In(down, Word(c, "refusal"))
    BY <1>2, <1>3 DEF OpenInv, Confirmed, Refused
  <1>6. ~In(down', Word(c, "confirmation")) /\ ~In(down', Word(c, "refusal"))  BY <1>5
  <1>7. Unused(c)' /\ Asked(c)' /\ Refused(c)' /\ Confirmed(c)'
    BY <1>1, <1>2, <1>6 DEF Unused, Asked, Refused, Confirmed
  <1>8. StateInv(c)'
    <2>1. channel[c].state # "opening"  BY <1>3, <1>4, <1>5 DEF OpenInv, StateInv
    <2>. QED  BY <1>1, <1>2, <1>3, <1>4, <1>6, <2>1 DEF OpenInv, StateInv, Known
  <1>9. CloseInv(c)'
    <2>1. "closedRemote" \in channel[c].flags => server[c].closed /\ Silent(c)  BY <1>3 DEF OpenInv, CloseInv
    <2>2. ~Known(c) /\ c \notin overdue => server[c].closed /\ Silent(c)  BY <1>2, <1>3 DEF OpenInv, CloseInv
    <2>3. server[c].closed /\ Silent(c) => server'[c].closed /\ Silent(c)'  BY DEF Silent
    <2>. QED  BY <1>1, <1>4, <2>1, <2>2, <2>3 DEF CloseInv, Known
  <1>10. HeldInv(c)'  BY <1>1, <1>2, <1>3, <1>4 DEF OpenInv, HeldInv, Runs
  <1>11. ExitInv(c)'  BY <1>1, <1>3 DEF ExitInv, Known
  <1>12. RequestInv(c)'  BY <1>1, <1>2, <1>3 DEF RequestInv, Known
  <1>13. ChannelInv(c)'  BY <1>7, <1>8, <1>9, <1>10, <1>11, <1>12 DEF OpenInv, ChannelInv
  <1>14. Runs(c) => Known(c)' /\ "freedLocal" \notin channel'[c].flags /\ JobInv'
    BY <1>1, InvFacts DEF Runs, Known
  <1>. QED  BY <1>1, <1>13, <1>14, InvFacts, ChannelStep DEF job

LEMMA ServerGetsNoticeKeeps == ASSUME RequestsAssumption, IInv, ServerGetsNotice PROVE IInv'
  <1>. DEFINE type == "notice"
  <1>1. ServerTakes(type) /\ UNCHANGED <<down, server, granted>>  BY DEF ServerGetsNotice
  <1>2. PICK c \in Ids : c = Request.channel  BY <1>1, Taken
  <1>3. /\ UNCHANGED <<jobPc, kind, step, maxchannel, channel, results, overdue>>
        /\ \A S : In(up', S) => In(up, S)
    BY <1>1, Taken
  <1>4. OpenInv(c) /\ RequestInv(c)  BY InvFacts
  <1>5. /\ In(up', Word(c, "request")) => server[c].phase = "open" /\ ~In(down, Word(c, "reply"))
        /\ Before(down, Word(c, "reply"), Word(c, "reply"))
        /\ Before(down, Words(c), Word(c, "close")) /\ (In(down, Word(c, "close")) => server[c].closed)
    BY <1>3, <1>4 DEF RequestInv, OpenInv, CloseInv
  <1>6. Runs(c) => JobInv'  BY <1>1, <1>3, JobFrame DEF Runs, job
  <1>7. \A d \in Ids : SameQueue(down, down', d)  BY <1>1, SameSame
  <1>8. down' = down /\ server' = server /\ granted' = granted  BY <1>1
  <1>9. /\ server' \in [Ids -> Serving] /\ granted' \in [Ids -> Seq({"exec", "pty", "shell"})]
        /\ down' \in Seq(Received)
    BY <1>8, InvFacts
  <1>10. type # "open" /\ type # "close" /\ type # "request"  OBVIOUS
  <1>11. ServerTakes(type)  BY <1>1
  <1>. HIDE DEF type
  <1>. QED  BY <1>2, <1>5, <1>6, <1>7, <1>8, <1>9, <1>10, <1>11, TakenKeeps

LEMMA ServerGetsCloseKeeps == ASSUME RequestsAssumption, IInv, ServerGetsClose PROVE IInv'
  <1>. DEFINE type == "close"
  <1>1. ServerTakes(type) /\ granted' = granted  BY DEF ServerGetsClose
  <1>2. PICK c \in Ids : c = Request.channel  BY <1>1, Taken
  <1>3. /\ UNCHANGED <<jobPc, kind, step, maxchannel, channel, results, overdue>>
        /\ \A S : In(up', S) => In(up, S)
    BY <1>1, Taken
  <1>4. OpenInv(c) /\ RequestInv(c)  BY InvFacts
  <1>5. /\ In(up', Word(c, "request")) => server[c].phase = "open" /\ ~In(down, Word(c, "reply"))
        /\ Before(down, Word(c, "reply"), Word(c, "reply"))
        /\ Before(down, Words(c), Word(c, "close")) /\ (In(down, Word(c, "close")) => server[c].closed)
    BY <1>3, <1>4 DEF RequestInv, OpenInv, CloseInv
  <1>6. PICK sv : sv = [server[c] EXCEPT !.closed = TRUE, !.gotClose = TRUE]  OBVIOUS
  <1>7. sv \in Serving /\ sv.closed /\ sv.gotClose /\ sv.phase = server[c].phase /\ sv.status = server[c].status
    BY <1>6, InvFacts DEF Serving
  <1>8. server' = [server EXCEPT ![c] = sv]
    BY <1>2, <1>6, InvFacts DEF ServerGetsClose, Serving
  <1>9. server'[c] = sv /\ server' \in [Ids -> Serving] /\ \A d \in Ids : d # c => server'[d] = server[d]
    BY <1>7, <1>8, InvFacts
  <1>10. CASE server[c].closed
    <2>1. down' = down  BY <1>2, <1>10 DEF ServerGetsClose
    <2>2. Runs(c) => JobInv'  BY <1>1, <1>3, <1>7, <1>9, <2>1, JobFrame DEF Runs, job
    <2>3. \A d \in Ids : SameQueue(down, down', d)  BY <2>1, SameSame
    <2>. QED  BY <1>1, <1>2, <1>5, <1>7, <1>9, <2>1, <2>2, <2>3, InvFacts, TakenKeeps
  <1>11. CASE ~server[c].closed
    <2>1. down' = Append(down, JobPacket("close", c, ""))  BY <1>2, <1>11 DEF ServerGetsClose, Answer
    <2>2. JobPacket("close", c, "") \in Received  BY ReceivedIn
    <2>3. /\ down' \in Seq(Received)
          /\ \A d \in Ids : d # c => SameQueue(down, down', d)
          /\ \A t : In(down', Word(c, t)) <=> (In(down, Word(c, t)) \/ t = "close")
      BY <2>1, <2>2, ServerSends
    <2>4. /\ Before(down', Word(c, "reply"), Word(c, "reply"))
          /\ ~In(down, Word(c, "close")) => Before(down', Words(c), Word(c, "close"))
      BY <1>5, <2>1, <2>2, ServerSends
    <2>5. \A S \in SUBSET Word(c, "reply") : In(down', S) => In(down, S)
      <3>1. \A S : In(down', S) <=> (In(down, S) \/ JobPacket("close", c, "") \in S)
        BY <2>1, <2>2, ServerSends
      <3>2. JobPacket("close", c, "") \notin Word(c, "reply")  BY DEF JobPacket, Word
      <3>. QED  BY <3>1, <3>2
    <2>6. Runs(c) => JobInv'  BY <1>1, <1>3, <1>7, <1>9, <2>5, JobFrame DEF Runs, job
    <2>. QED  BY <1>1, <1>2, <1>5, <1>7, <1>9, <1>11, <2>3, <2>4, <2>6, InvFacts, TakenKeeps
  <1>. QED  BY <1>10, <1>11
LEMMA ServerAnswersKeeps == ASSUME RequestsAssumption, IInv, ServerAnswers PROVE IInv'
  <1>. DEFINE type == "request"
  <1>1. ServerTakes(type)  BY DEF ServerAnswers
  <1>2. PICK c \in Ids : c = Request.channel  BY <1>1, Taken
  <1>3. /\ UNCHANGED <<jobPc, kind, step, maxchannel, channel, results, overdue>>
        /\ \A S : In(up, S) <=> (Request \in S \/ In(up', S))
    BY <1>1, Taken
  <1>4. OpenInv(c) /\ RequestInv(c)  BY InvFacts
  <1>5. /\ In(up, Word(c, "request")) /\ ~In(up', Word(c, "request"))
    BY <1>1, <1>2, <1>4, Taken DEF RequestInv
  <1>6. /\ server[c].phase = "open" /\ ~In(down, Word(c, "reply"))
        /\ Before(down, Word(c, "reply"), Word(c, "reply"))
        /\ Before(down, Words(c), Word(c, "close")) /\ (In(down, Word(c, "close")) => server[c].closed)
        /\ Known(c) => channel[c].request = "pending"
    BY <1>4, <1>5 DEF RequestInv, OpenInv, CloseInv
  <1>7. CASE server[c].closed
    <2>1. UNCHANGED <<granted, server, down>>  BY <1>2, <1>7 DEF ServerAnswers
    <2>2. down' = down /\ server' = server /\ granted' = granted  BY <2>1
    <2>3. /\ server' \in [Ids -> Serving] /\ granted' \in [Ids -> Seq({"exec", "pty", "shell"})]
          /\ down' \in Seq(Received)
      BY <2>2, InvFacts
    <2>4. \A S : In(up', S) => In(up, S)  BY <1>3
    <2>5. Runs(c) => JobInv'  BY <1>3, <2>2, <2>4, JobFrame DEF Runs, job
    <2>6. \A d \in Ids : SameQueue(down, down', d)  BY <2>2, SameSame
    <2>7. type # "open" /\ type # "close"  OBVIOUS
    <2>. QED  BY <1>1, <1>2, <1>5, <1>6, <2>2, <2>3, <2>5, <2>6, <2>7, TakenKeeps
  <1>8. CASE ~server[c].closed
    <2>1. PICK verdict \in {"accepted", "denied"} :
            /\ down' = Append(down, JobPacket("reply", c, verdict))
            /\ granted' = IF verdict = "accepted" THEN [granted EXCEPT ![c] = Append(granted[c], Request.what)]
                          ELSE granted
            /\ server' = IF verdict = "accepted"
                         THEN [server EXCEPT ![c].phase = IF Request.what = "pty" THEN server[c].phase ELSE "running"]
                         ELSE server
      BY <1>2, <1>8 DEF ServerAnswers, Answer
    <2>2. JobPacket("reply", c, verdict) \in Received  BY ReceivedIn
    <2>3. down' = Append(down, JobPacket("reply", c, verdict))  BY <2>1
    <2>4. /\ down' \in Seq(Received)
          /\ \A d \in Ids : d # c => SameQueue(down, down', d)
          /\ \A t : In(down', Word(c, t)) <=> (In(down, Word(c, t)) \/ t = "reply")
      BY <2>2, <2>3, ServerSends
    <2>5. /\ Before(down', Word(c, "reply"), Word(c, "reply"))
          /\ Before(down', Words(c), Word(c, "close"))
      <3>1. ~In(down, Word(c, "close"))  BY <1>6, <1>8
      <3>. QED  BY <1>6, <2>2, <2>3, <3>1, ServerSends
    <2>6. PICK e \in Sent : e = Request /\ e.type = type /\ e.channel = c /\ e.what \in {"exec", "pty", "shell"}
      <3>1. Request \in Sent /\ Request.type = type  BY <1>1, Taken
      <3>. QED  BY <1>2, <3>1 DEF Sent
    <2>7. /\ server' \in [Ids -> Serving] /\ \A d \in Ids : d # c => server'[d] = server[d]
          /\ server'[c].status = server[c].status /\ server'[c].gotClose = server[c].gotClose
          /\ server'[c].phase \in {"open", "running"} /\ (e.what = "pty" => server'[c].phase = "open")
          /\ verdict = "denied" => server'[c].phase = "open"
      <3>1. CASE verdict = "denied"
        <4>1. server' = server  BY <2>1, <3>1
        <4>. QED  BY <1>6, <3>1, <4>1, InvFacts
      <3>2. CASE verdict = "accepted"
        <4>1. PICK ph \in {"open", "running"} : ph = IF e.what = "pty" THEN server[c].phase ELSE "running"  BY <1>6
        <4>2. server' = [server EXCEPT ![c].phase = ph]  BY <2>1, <2>6, <3>2, <4>1
        <4>3. /\ server' \in [Ids -> Serving] /\ \A d \in Ids : d # c => server'[d] = server[d]
              /\ server'[c].status = server[c].status /\ server'[c].gotClose = server[c].gotClose
              /\ server'[c].phase = ph
          BY <4>2, InvFacts DEF Serving
        <4>. QED  BY <1>6, <3>2, <4>1, <4>3
      <3>. QED  BY <3>1, <3>2
    <2>8. /\ granted' \in [Ids -> Seq({"exec", "pty", "shell"})] /\ \A d \in Ids : d # c => granted'[d] = granted[d]
          /\ granted'[c] = IF verdict = "accepted" THEN Append(granted[c], e.what) ELSE granted[c]
      <3>1. granted[c] \in Seq({"exec", "pty", "shell"})  BY InvFacts
      <3>2. Append(granted[c], e.what) \in Seq({"exec", "pty", "shell"})  BY <2>6, <3>1
      <3>. QED  BY <2>1, <2>6, <3>2, InvFacts
    <2>9. ASSUME Runs(c) PROVE JobInv'
      <3>1. c = maxchannel /\ JobInv /\ channel[c].request = "pending"  BY <1>6, <2>9, InvFacts DEF Runs, IInv
      <3>2. jobPc \notin {"opening", "ready", "running"}  BY <3>1 DEF JobInv, Current
      <3>3. CASE jobPc = "requesting"
        <4>1. /\ step <= Len(Asks(kind)) /\ granted[c] = Prefix(step - 1)
              /\ ~In(up, Word(c, "request") \ {Requested}) /\ channel[c].state \in {"open", "closed"}
          BY <1>5, <3>1, <3>3 DEF JobInv, Current
        <4>2. e = Requested
          <5>1. e \in Word(c, "request")  BY <2>6 DEF Word, Sent
          <5>2. e \in Word(c, "request") \ {Requested} => In(up, Word(c, "request") \ {Requested})
            BY <1>3, <2>6
          <5>. QED  BY <4>1, <5>1, <5>2
        <4>3. e.what = Asks(kind)[step]  BY <4>2 DEF Requested, JobPacket
        <4>4. kind \in {"command", "ptyCommand", "shell"} /\ step \in 1..3  BY InvFacts
        <4>5. step \in 1..Len(Asks(kind))
          <5>1. PICK n \in {1, 2} : n = Len(Asks(kind))  BY <4>4, AsksOf
          <5>. QED  BY <4>1, <4>4, <5>1
        <4>6. /\ Append(Prefix(step - 1), Asks(kind)[step]) = Prefix(step)
              /\ Asks(kind)[step] = "pty" <=> step < Len(Asks(kind))
          BY <4>4, <4>5, AsksOf
        <4>7. verdict = "accepted" =>
                granted'[c] = Prefix(step) /\ (step < Len(Asks(kind)) => server'[c].phase = "open")
          BY <2>7, <2>8, <4>1, <4>3, <4>6
        <4>8. PICK R : R = AcceptedReply  OBVIOUS
        <4>9. AcceptedReply' = R /\ R = JobPacket("reply", c, "accepted")
          BY <1>3, <3>1, <4>8 DEF AcceptedReply, JobPacket
        <4>10. In(down', {R}) => verdict = "accepted"
          <5>1. In(down', {R}) <=> (In(down, {R}) \/ JobPacket("reply", c, verdict) \in {R})
            BY <2>2, <2>3, ServerSends
          <5>2. R \in Word(c, "reply")
            <6>1. "reply" \in Types /\ "accepted" \in Whats  BY DEF Types, Whats
            <6>. QED  BY <4>9, <6>1, PacketIn
          <5>3. ~In(down, {R})  BY <1>6, <5>2 DEF In
          <5>4. JobPacket("reply", c, verdict) = R => verdict = "accepted"  BY <4>9 DEF JobPacket
          <5>. QED  BY <5>1, <5>3, <5>4
        <4>11. PICK W : W = Word(c, "request") \ {Requested}  OBVIOUS
        <4>12. (Word(maxchannel, "request") \ {Requested})' = W
          BY <1>3, <3>1, <4>11 DEF Requested, JobPacket, Word
        <4>13. ~In(up', W) /\ ~In(up', Word(maxchannel', "request"))
          <5>1. \A S \in SUBSET Word(c, "request") : ~In(up', S)  BY <1>5 DEF In
          <5>. QED  BY <1>3, <3>1, <4>11, <5>1
        <4>14. channel'[maxchannel'].request = "pending" /\ channel'[maxchannel'].state \in {"open", "closed"}
          BY <1>3, <3>1, <4>1
        <4>15. In(down', {R}) =>
                  (/\ granted[maxchannel] = Prefix(step)
                   /\ step < Len(Asks(kind)) => server[maxchannel].phase = "open")'
          <5>1. (Prefix(step))' = Prefix(step)  BY <1>3 DEF Prefix
          <5>. QED  BY <1>3, <3>1, <4>7, <4>10, <5>1
        <4>16. step' <= Len(Asks(kind')) /\ jobPc' = "requesting"  BY <1>3, <3>3, <4>1
        <4>. QED  BY <4>9, <4>12, <4>13, <4>14, <4>15, <4>16 DEF JobInv, Current
      <3>4. CASE jobPc \in {"idle", "exiting", "closing"}  BY <1>3, <3>1, <3>4 DEF JobInv, Current
      <3>5. jobPc \in {"idle", "opening", "ready", "requesting", "running", "exiting", "closing"}  BY DEF IInv, Typed
      <3>. QED  BY <3>2, <3>3, <3>4, <3>5
    <2>10. type # "open" /\ type # "close" /\ (server'[c].phase = "ended" <=> server[c].phase = "ended")
      BY <1>6, <2>7
    <2>11. \A t \in {"confirmation", "refusal", "exit"} : In(down', Word(c, t)) <=> In(down, Word(c, t))
      BY <2>4
    <2>12. ~In(down', Word(c, "close"))  BY <1>6, <1>8, <2>4
    <2>13. /\ server[c].phase # "none" => server'[c].phase # "none"
           /\ server[c].gotClose \/ type = "close" => server'[c].gotClose
      BY <2>7
    <2>. QED
      BY <1>1, <1>2, <1>5, <1>8, <2>4, <2>5, <2>7, <2>8, <2>9, <2>10, <2>11, <2>12, <2>13, TakenKeeps
  <1>. QED  BY <1>7, <1>8
\* What the server says of itself on a channel that it holds: packets that are no answers.
LEMMA TellsKeeps ==
    ASSUME RequestsAssumption, IInv, NEW c \in Ids,
           UNCHANGED <<job, channel, results, overdue, up, granted>>,
           server' \in [Ids -> Serving], down' \in Seq(Received),
           \A d \in Ids : d # c => server'[d] = server[d] /\ SameQueue(down, down', d),
           server[c].phase # "none", ~server[c].closed, server'[c].gotClose = server[c].gotClose,
           server'[c].phase \in {server[c].phase, "ended"}, server[c].phase = "open" => server'[c].phase = "open",
           \A S \in SUBSET Word(c, "reply") : In(down', S) => In(down, S),
           In(down', Word(c, "confirmation")) <=> In(down, Word(c, "confirmation")),
           ~In(down, Word(c, "refusal")) => ~In(down', Word(c, "refusal")),
           Before(down, Word(c, "confirmation"), Words(c)) => Before(down', Word(c, "confirmation"), Words(c)),
           Before(down, Word(c, "reply"), Word(c, "reply")) => Before(down', Word(c, "reply"), Word(c, "reply")),
           Before(down, Words(c), Word(c, "close")) /\ ~In(down, Word(c, "close")) =>
                Before(down', Words(c), Word(c, "close")),
           In(down', Word(c, "close")) => In(down, Word(c, "close")) \/ server'[c].closed,
           \/ server'[c].status = server[c].status /\ server'[c].phase = server[c].phase
              /\ (In(down', Word(c, "exit")) <=> In(down, Word(c, "exit")))
           \/ server[c].phase = "running" /\ server'[c].phase = "ended"
              /\ (In(down', Word(c, "exit")) <=> In(down, Word(c, "exit")) \/ server'[c].status)
    PROVE  IInv'
  <1>1. UNCHANGED <<jobPc, kind, step, maxchannel, channel, results, overdue, up, granted>>  BY DEF job
  <1>2. OpenInv(c) /\ ExitInv(c) /\ RequestInv(c)  BY InvFacts
  <1>3. ~Untouched(c)  BY DEF Untouched, NoServer
  <1>4. ~(c > maxchannel) /\ channel[c].state # "denied" /\ ~In(up, Word(c, "open"))
        /\ ~In(down', Word(c, "refusal"))
    BY <1>2, <1>3 DEF OpenInv, Unused, StateInv, Asked, Refused
  <1>5. Unused(c)' /\ Asked(c)' /\ Refused(c)'  BY <1>1, <1>4 DEF Unused, Asked, Refused
  <1>6. server'[c].phase # "none"  OBVIOUS
  <1>7. Confirmed(c)'  BY <1>1, <1>2, <1>6 DEF OpenInv, Confirmed, NothingSent, Waits, Opens
  <1>8. StateInv(c)'  BY <1>1, <1>2, <1>4, <1>6 DEF OpenInv, StateInv, Known, Opens
  <1>9. CloseInv(c)'
    <2>1. ~In(down, Word(c, "close")) /\ "closedRemote" \notin channel[c].flags /\ (~Known(c) => c \in overdue)
          /\ Before(down', Words(c), Word(c, "close"))
      BY <1>2, <1>3 DEF OpenInv, CloseInv
    <2>. QED  BY <1>1, <1>6, <2>1 DEF CloseInv, Known
  <1>10. HeldInv(c)'  BY <1>1, <1>2 DEF OpenInv, HeldInv, Runs
  <1>11. ExitInv(c)'  BY <1>1, <1>2 DEF ExitInv, Known
  <1>12. RequestInv(c)'
    <2>1. Word(c, "reply") \in SUBSET Word(c, "reply")  OBVIOUS
    <2>. QED  BY <1>1, <1>2, <2>1 DEF RequestInv, Known
  <1>13. ChannelInv(c)'  BY <1>5, <1>7, <1>8, <1>9, <1>10, <1>11, <1>12 DEF OpenInv, ChannelInv
  <1>14. \A d \in Ids : SameQueue(up, up', d)  BY <1>1, SameSame
  <1>15. Runs(c) => JobInv'  BY <1>1, JobFrame DEF Runs
  <1>16. Runs(c) => Known(c)' /\ "freedLocal" \notin channel'[c].flags /\ JobInv'
    BY <1>1, <1>15, InvFacts DEF Runs, Known
  <1>. QED  BY <1>1, <1>13, <1>14, <1>16, InvFacts, ChannelStep

LEMMA ServerClosesKeeps == ASSUME RequestsAssumption, IInv, NEW c \in Ids, ServerCloses(c) PROVE IInv'
  <1>1. /\ UNCHANGED <<job, channel, results, overdue, up, granted>>
        /\ server[c].phase \in {"open", "ended"} /\ ~server[c].closed
        /\ down' = Append(down, JobPacket("close", c, ""))
        /\ server' = [server EXCEPT ![c].closed = TRUE]
    BY DEF ServerCloses, Answer
  <1>2. JobPacket("close", c, "") \in Received  BY ReceivedIn
  <1>3. /\ down' \in Seq(Received)
        /\ \A d \in Ids : d # c => SameQueue(down, down', d)
        /\ \A S : In(down', S) <=> (In(down, S) \/ JobPacket("close", c, "") \in S)
        /\ \A t : In(down', Word(c, t)) <=> (In(down, Word(c, t)) \/ t = "close")
    BY <1>1, <1>2, ServerSends
  <1>4. /\ \A t : Before(down, Word(c, t), Word(c, t)) /\ (t = "close" => ~In(down, Word(c, t))) =>
                  Before(down', Word(c, t), Word(c, t))
        /\ \A t : Before(down, Word(c, t), Words(c)) /\ (t = "close" => ~In(down, Words(c))) =>
                  Before(down', Word(c, t), Words(c))
        /\ \A t : Before(down, Words(c), Word(c, t)) /\ ~In(down, Word(c, t)) =>
                  Before(down', Words(c), Word(c, t))
    BY <1>1, <1>2, ServerSends
  <1>5. \A S \in SUBSET Word(c, "reply") : In(down', S) => In(down, S)
    <2>1. JobPacket("close", c, "") \notin Word(c, "reply")  BY DEF JobPacket, Word
    <2>. QED  BY <1>3, <2>1
  <1>6. /\ server' \in [Ids -> Serving] /\ \A d \in Ids : d # c => server'[d] = server[d]
        /\ server'[c].status = server[c].status /\ server'[c].gotClose = server[c].gotClose
        /\ server'[c].phase = server[c].phase /\ server'[c].closed
    BY <1>1, InvFacts DEF Serving
  <1>7. ~In(down, Word(c, "refusal")) => ~In(down', Word(c, "refusal"))  BY <1>3
  <1>8. /\ In(down', Word(c, "confirmation")) <=> In(down, Word(c, "confirmation"))
        /\ In(down', Word(c, "exit")) <=> In(down, Word(c, "exit"))
    BY <1>3
  <1>. QED  BY <1>1, <1>3, <1>4, <1>5, <1>6, <1>7, <1>8, TellsKeeps
\* The end of a program is told in one or two packets, which answer nothing.
Tells(q, r, c) ==
    /\ r \in Seq(Received) /\ \A d \in Ids : d # c => SameQueue(q, r, d)
    /\ \A S \in SUBSET Word(c, "reply") : In(r, S) => In(q, S)
    /\ \A t \in {"confirmation", "refusal", "close"} : In(r, Word(c, t)) <=> In(q, Word(c, t))
    /\ Before(q, Word(c, "confirmation"), Words(c)) => Before(r, Word(c, "confirmation"), Words(c))
    /\ Before(q, Word(c, "reply"), Word(c, "reply")) => Before(r, Word(c, "reply"), Word(c, "reply"))
    /\ Before(q, Words(c), Word(c, "close")) /\ ~In(q, Word(c, "close")) => Before(r, Words(c), Word(c, "close"))

LEMMA TellsOne ==
    ASSUME NEW c \in Ids, NEW q \in Seq(Received), NEW type \in {"exit", "eof"}, NEW r,
           r = Append(q, JobPacket(type, c, "status"))
    PROVE  Tells(q, r, c) /\ (In(r, Word(c, "exit")) <=> In(q, Word(c, "exit")) \/ type = "exit")
  <1>. DEFINE e == JobPacket(type, c, "status")
  <1>1. e \in Received  BY ReceivedIn
  <1>2. e.type = type /\ e.channel = c  BY DEF JobPacket
  <1>3. r = Append(q, e)  OBVIOUS
  <1>4. e \notin Word(c, "reply")  BY <1>2 DEF Word
  <1>. HIDE DEF e
  <1>5. Received \in SUBSET Packets  BY DEF Received
  <1>6. r \in Seq(Received) /\ Put(q, r, e, c)  BY <1>1, <1>2, <1>3, <1>5, Puts
  <1>7. /\ r \in Seq(Received)
        /\ \A d \in Ids : d # c => SameQueue(q, r, d)
        /\ \A S : In(r, S) <=> (In(q, S) \/ e \in S)
    BY <1>6 DEF Put
  <1>8. /\ \A t : In(r, Word(c, t)) <=> (In(q, Word(c, t)) \/ t = e.type)
        /\ \A t : Before(q, Word(c, t), Word(c, t)) /\ (t = e.type => ~In(q, Word(c, t))) =>
                  Before(r, Word(c, t), Word(c, t))
        /\ \A t : Before(q, Word(c, t), Words(c)) /\ (t = e.type => ~In(q, Words(c))) =>
                  Before(r, Word(c, t), Words(c))
        /\ \A t : Before(q, Words(c), Word(c, t)) /\ ~In(q, Word(c, t)) => Before(r, Words(c), Word(c, t))
    BY <1>6 DEF Put
  <1>9. \A S \in SUBSET Word(c, "reply") : In(r, S) => In(q, S)  BY <1>4, <1>7
  <1>. QED  BY <1>2, <1>7, <1>8, <1>9 DEF Tells

LEMMA TellsTwo ==
    ASSUME NEW c \in Ids, NEW q, NEW r, NEW s, Tells(q, r, c), Tells(r, s, c)
    PROVE  Tells(q, s, c)
  <1>1. \A d \in Ids : d # c => SameQueue(q, s, d)
    <2>1. ASSUME NEW d \in Ids, d # c PROVE SameQueue(q, s, d)
      <3>1. SameQueue(q, r, d) /\ SameQueue(r, s, d)  BY <2>1 DEF Tells
      <3>. QED  BY <3>1 DEF SameQueue
    <2>. QED  BY <2>1
  <1>. QED  BY <1>1 DEF Tells

LEMMA OneMore == ASSUME NEW T, NEW q \in Seq(T), NEW s \in Seq(T), Len(s) = 1 PROVE q \o s = Append(q, s[1])
  <1>1. PICK n \in Nat : n = Len(q)  OBVIOUS
  <1>2. 1 \in 1..Len(s)  OBVIOUS
  <1>3. PICK e \in T : e = s[1]  BY <1>2, ElementOfSeq
  <1>4. PICK a : a = q \o s  OBVIOUS
  <1>5. a \in Seq(T) /\ Len(a) = n + 1 /\ (\A i \in 1..n : a[i] = q[i]) /\ a[n + 1] = s[1]
    <2>1. \A i \in 1..(n + 1) : a[i] = IF i <= n THEN q[i] ELSE s[i - n]  BY <1>1, <1>4, ConcatProperties
    <2>2. a \in Seq(T) /\ Len(a) = n + 1  BY <1>1, <1>4, ConcatProperties
    <2>3. (n + 1) - n = 1 /\ n + 1 \in 1..(n + 1) /\ ~(n + 1 <= n) /\ \A i \in 1..n : i \in 1..(n + 1) /\ i <= n
      OBVIOUS
    <2>. QED  BY <2>1, <2>2, <2>3
  <1>6. PICK b : b = Append(q, e)  OBVIOUS
  <1>7. b \in Seq(T) /\ Len(b) = n + 1 /\ b[n + 1] = e /\ \A i \in 1..n : b[i] = q[i]  BY <1>1, <1>3, <1>6
  <1>8. \A i \in 1..(n + 1) : a[i] = b[i]
    <2>1. ASSUME NEW i \in 1..(n + 1) PROVE a[i] = b[i]
      <3>1. i \in 1..n \/ i = n + 1  OBVIOUS
      <3>2. a[n + 1] = s[1]  BY <1>5
      <3>. QED  BY <1>3, <1>5, <1>7, <3>1, <3>2
    <2>. QED  BY <2>1
  <1>9. a = b  BY <1>5, <1>7, <1>8
  <1>. QED  BY <1>3, <1>4, <1>6, <1>9

LEMMA TwoMore ==
    ASSUME NEW T, NEW q \in Seq(T), NEW s \in Seq(T), Len(s) = 2
    PROVE  q \o s = Append(Append(q, s[1]), s[2])
  <1>1. s[1] \in T /\ s[2] \in T
    <2>1. 1 \in 1..Len(s) /\ 2 \in 1..Len(s)  OBVIOUS
    <2>. QED  BY <2>1
  <1>2. PICK n \in Nat : n = Len(q)  OBVIOUS
  <1>3. PICK m : m = Append(q, s[1])  OBVIOUS
  <1>4. m \in Seq(T) /\ Len(m) = n + 1 /\ m[n + 1] = s[1] /\ \A i \in 1..n : m[i] = q[i]  BY <1>1, <1>2, <1>3
  <1>5. PICK b : b = Append(m, s[2])  OBVIOUS
  <1>6. b \in Seq(T) /\ Len(b) = n + 2 /\ b[n + 2] = s[2] /\ \A i \in 1..(n + 1) : b[i] = m[i]
    BY <1>1, <1>4, <1>5
  <1>7. PICK a : a = q \o s  OBVIOUS
  <1>8. a \in Seq(T) /\ Len(a) = n + 2 /\ (\A i \in 1..n : a[i] = q[i]) /\ a[n + 1] = s[1] /\ a[n + 2] = s[2]
    <2>1. /\ \A i \in 1..Len(q) + Len(s) : a[i] = IF i <= Len(q) THEN q[i] ELSE s[i - Len(q)]
          /\ a \in Seq(T) /\ Len(a) = Len(q) + Len(s)
      BY <1>7, ConcatProperties
    <2>2. a \in Seq(T) /\ Len(a) = n + 2 /\ \A i \in 1..(n + 2) : a[i] = IF i <= n THEN q[i] ELSE s[i - n]
      <3>1. Len(q) + Len(s) = n + 2  BY <1>2
      <3>. QED  BY <1>2, <2>1, <3>1
    <2>3. /\ (n + 1) - n = 1 /\ n + 1 \in 1..(n + 2) /\ ~(n + 1 <= n)
          /\ (n + 2) - n = 2 /\ n + 2 \in 1..(n + 2) /\ ~(n + 2 <= n)
          /\ \A i \in 1..n : i \in 1..(n + 2) /\ i <= n
      OBVIOUS
    <2>. QED  BY <2>1, <2>2, <2>3
  <1>9. \A i \in 1..(n + 2) : a[i] = b[i]
    <2>1. ASSUME NEW i \in 1..(n + 2) PROVE a[i] = b[i]
      <3>1. i \in 1..n \/ i = n + 1 \/ i = n + 2  OBVIOUS
      <3>. QED  BY <1>4, <1>6, <1>8, <3>1
    <2>. QED  BY <2>1
  <1>10. a = b  BY <1>6, <1>8, <1>9
  <1>. QED  BY <1>3, <1>5, <1>7, <1>10
LEMMA ProgramEndsKeeps ==
    ASSUME RequestsAssumption, IInv, NEW c \in Ids, NEW said \in Endings, ProgramEnds(c, said)
    PROVE  IInv'
  <1>1. /\ UNCHANGED <<job, channel, results, overdue, up, granted>>
        /\ server[c].phase = "running" /\ ~server[c].closed
        /\ down' = down \o [i \in DOMAIN said |-> JobPacket(said[i], c, "status")]
        /\ server' = [server EXCEPT ![c].phase = "ended", ![c].status = Len(said) = 2]
    BY DEF ProgramEnds
  <1>2. PICK s : s = [i \in DOMAIN said |-> JobPacket(said[i], c, "status")]  OBVIOUS
  <1>6. down \in Seq(Received) /\ down' = down \o s  BY <1>1, <1>2, InvFacts
  <1>7. /\ Tells(down, down', c)
        /\ In(down', Word(c, "exit")) <=> In(down, Word(c, "exit")) \/ Len(said) = 2
    <2>1. CASE said = <<"eof">>
      <3>1. PICK u \in Received : u = JobPacket("eof", c, "status")  BY ReceivedIn
      <3>2. s = <<u>>  BY <1>2, <2>1, <3>1
      <3>3. s \in Seq(Received) /\ Len(s) = 1 /\ s[1] = u /\ Len(said) = 1  BY <2>1, <3>2
      <3>4. down' = Append(down, u)  BY <1>6, <3>3, OneMore
      <3>5. PICK w \in {"exit", "eof"} : w = "eof"  OBVIOUS
      <3>6. down' = Append(down, JobPacket(w, c, "status"))  BY <3>1, <3>4, <3>5
      <3>7. /\ Tells(down, down', c)
            /\ In(down', Word(c, "exit")) <=> In(down, Word(c, "exit")) \/ w = "exit"
        BY <1>6, <3>6, TellsOne
      <3>. QED  BY <3>3, <3>5, <3>7
    <2>2. ASSUME NEW a \in {"exit", "eof"}, NEW b \in {"exit", "eof"}, said = <<a, b>>, a = "exit" \/ b = "exit"
          PROVE  /\ Tells(down, down', c)
                 /\ In(down', Word(c, "exit")) <=> In(down, Word(c, "exit")) \/ Len(said) = 2
      <3>1. PICK u \in Received : u = JobPacket(a, c, "status")  BY ReceivedIn
      <3>2. PICK v \in Received : v = JobPacket(b, c, "status")  BY ReceivedIn
      <3>3. s = <<u, v>>  BY <1>2, <2>2, <3>1, <3>2
      <3>4. s \in Seq(Received) /\ Len(s) = 2 /\ s[1] = u /\ s[2] = v /\ Len(said) = 2  BY <2>2, <3>3
      <3>5. down' = Append(Append(down, u), v)  BY <1>6, <3>4, TwoMore
      <3>6. PICK r : r = Append(down, u)  OBVIOUS
      <3>7. Tells(down, r, c) /\ (In(r, Word(c, "exit")) <=> In(down, Word(c, "exit")) \/ a = "exit")
        BY <1>6, <3>1, <3>6, TellsOne
      <3>8. r \in Seq(Received)  BY <3>7 DEF Tells
      <3>9. down' = Append(r, JobPacket(b, c, "status"))  BY <3>2, <3>5, <3>6
      <3>10. /\ Tells(r, down', c)
             /\ In(down', Word(c, "exit")) <=> In(r, Word(c, "exit")) \/ b = "exit"
        BY <3>8, <3>9, TellsOne
      <3>. QED  BY <2>2, <3>4, <3>7, <3>10, TellsTwo
    <2>. QED  BY <2>1, <2>2 DEF Endings
  <1>8. /\ server' \in [Ids -> Serving] /\ \A d \in Ids : d # c => server'[d] = server[d]
        /\ server'[c].status <=> Len(said) = 2
        /\ server'[c].gotClose = server[c].gotClose /\ server'[c].phase = "ended"
    <2>1. PICK two \in BOOLEAN : two <=> Len(said) = 2  OBVIOUS
    <2>2. PICK sv : sv = [server[c] EXCEPT !.phase = "ended", !.status = two]  OBVIOUS
    <2>3. sv \in Serving /\ sv.phase = "ended" /\ sv.status = two /\ sv.gotClose = server[c].gotClose
      BY <2>2, InvFacts DEF Serving
    <2>4. server' = [server EXCEPT ![c] = sv]  BY <1>1, <2>1, <2>2, InvFacts DEF Serving
    <2>. QED  BY <2>1, <2>3, <2>4, InvFacts
  <1>9. /\ down' \in Seq(Received) /\ \A d \in Ids : d # c => SameQueue(down, down', d)
        /\ \A S \in SUBSET Word(c, "reply") : In(down', S) => In(down, S)
        /\ In(down', Word(c, "confirmation")) <=> In(down, Word(c, "confirmation"))
        /\ In(down', Word(c, "refusal")) <=> In(down, Word(c, "refusal"))
        /\ In(down', Word(c, "close")) <=> In(down, Word(c, "close"))
        /\ Before(down, Word(c, "confirmation"), Words(c)) => Before(down', Word(c, "confirmation"), Words(c))
        /\ Before(down, Word(c, "reply"), Word(c, "reply")) => Before(down', Word(c, "reply"), Word(c, "reply"))
        /\ Before(down, Words(c), Word(c, "close")) /\ ~In(down, Word(c, "close")) =>
                Before(down', Words(c), Word(c, "close"))
    BY <1>7 DEF Tells
  <1>10. In(down', Word(c, "exit")) <=> In(down, Word(c, "exit")) \/ server'[c].status  BY <1>7, <1>8
  <1>. QED  BY <1>1, <1>8, <1>9, <1>10, TellsKeeps

-----------------------------------------------------------------------------
(***************************************************************************)
(* The invariant, and what follows from it.                                *)
(***************************************************************************)

LEMMA StaysStill == ASSUME RequestsAssumption, IInv, UNCHANGED jobVars PROVE IInv'
  <1>1. /\ UNCHANGED <<job, results, overdue>> /\ channel' = channel /\ server' = server /\ granted' = granted
        /\ up' = up /\ down' = down /\ jobPc' = jobPc /\ maxchannel' = maxchannel
        /\ kind' = kind /\ step' = step /\ results' = results /\ overdue' = overdue
    BY DEF jobVars, job
  <1>2. \A d \in Ids : SameQueue(up, up', d) /\ SameQueue(down, down', d)  BY <1>1, SameSame
  <1>3. \A d \in Ids : (Runs(d)' <=> Runs(d)) /\ (Opens(d)' <=> Opens(d))  BY <1>1 DEF Runs, Opens
  <1>4. \A d \in Ids : ChannelInv(d)'  BY <1>1, <1>2, <1>3, Frame, InvFacts
  <1>5. Typed'  BY <1>1 DEF IInv, Typed, Known, Current
  <1>6. JobInv'
    <2>1. CASE jobPc = "idle"  BY <1>1, <2>1 DEF JobInv
    <2>2. CASE jobPc # "idle"
      <3>1. PICK d \in Ids : d = maxchannel  BY <2>2, InvFacts
      <3>. QED  BY <1>1, <3>1, JobFrame
    <2>. QED  BY <2>1, <2>2
  <1>. QED  BY <1>4, <1>5, <1>6 DEF IInv

LEMMA NextKeeps == ASSUME RequestsAssumption, IInv, [JobsNext]_jobVars PROVE IInv'
  <1>1. CASE \E k \in Kinds : OpenChannel(k)  BY <1>1, OpenKeeps
  <1>2. CASE Worker
    BY <1>2, OpenedKeeps, OpenFailsKeeps, OpenedAndClosedKeeps, CallRequestKeeps, AcceptedKeeps, RequestFailsKeeps,
       ExitStateKeeps, CloseAndFreeKeeps DEF Worker
  <1>3. CASE Resize \/ ReadsEnd  BY <1>3, ResizeKeeps, ReadsEndKeeps
  <1>4. CASE JobHandlers
    BY <1>4, OpenConfKeeps, OpenFailKeeps, RequestReplyKeeps, RcvExitKeeps, RcvEofKeeps, RcvCloseKeeps DEF JobHandlers
  <1>5. CASE JobServer
    BY <1>5, ServerOpensKeeps, ServerAnswersKeeps, ServerGetsCloseKeeps, ServerGetsNoticeKeeps DEF JobServer
  <1>6. ASSUME NEW c \in Ids, ServerCloses(c) \/ \E said \in Endings : ProgramEnds(c, said) PROVE IInv'
    BY <1>6, ServerClosesKeeps, ProgramEndsKeeps
  <1>7. CASE UNCHANGED jobVars  BY <1>7, StaysStill
  <1>. QED  BY <1>1, <1>2, <1>3, <1>4, <1>5, <1>6, <1>7 DEF JobsNext
LEMMA InitHolds == ASSUME RequestsAssumption, JobsInit PROVE IInv
  <1>1. /\ jobPc = "idle" /\ kind = "command" /\ step = 1 /\ maxchannel = 0
        /\ channel = [c \in Ids |-> NoChannel] /\ results = [c \in Ids |-> "none"] /\ overdue = {}
        /\ up = <<>> /\ down = <<>> /\ server = [c \in Ids |-> NoServer] /\ granted = [c \in Ids |-> <<>>]
    BY DEF JobsInit, NoServer
  <1>2. NoChannel \in Channel /\ NoServer \in Serving  BY DEF NoChannel, Channel, NoServer, Serving
  <1>3. maxchannel \in 0..MaxChannels  BY <1>1 DEF RequestsAssumption
  <1>4. up \in Seq(Sent) /\ down \in Seq(Received) /\ granted \in [Ids -> Seq({"exec", "pty", "shell"})]
    BY <1>1
  <1>5. Typed  BY <1>1, <1>2, <1>3, <1>4 DEF Typed
  <1>6. JobInv  BY <1>1 DEF JobInv
  <1>7. ASSUME NEW c \in Ids PROVE ChannelInv(c)
    <2>1. \A S : ~In(up, S) /\ ~In(down, S)  BY <1>1 DEF In
    <2>2. \A S, R : Before(up, S, R) /\ Before(down, S, R)  BY <1>1 DEF Before
    <2>3. /\ channel[c] = NoChannel /\ NoChannel.state = "none" /\ NoChannel.flags = {} /\ NoChannel.exit = "none"
          /\ server[c] = NoServer /\ NoServer.phase = "none" /\ ~NoServer.status /\ ~NoServer.closed
          /\ granted[c] = <<>> /\ results[c] = "none" /\ c \notin overdue
      BY <1>1 DEF NoChannel, NoServer
    <2>4. Untouched(c) /\ Silent(c) /\ NothingSent(c) /\ ~Known(c)
      BY <2>1, <2>3 DEF Untouched, Silent, NothingSent, Known
    <2>5. Unused(c) /\ Asked(c) /\ Refused(c) /\ Confirmed(c)
      BY <2>1, <2>3, <2>4 DEF Unused, Asked, Refused, Confirmed
    <2>6. StateInv(c) /\ CloseInv(c) /\ HeldInv(c)  BY <2>1, <2>2, <2>3, <2>4 DEF StateInv, CloseInv, HeldInv
    <2>7. ExitInv(c) /\ RequestInv(c)  BY <2>1, <2>2, <2>3, <2>4 DEF ExitInv, RequestInv
    <2>. QED  BY <2>5, <2>6, <2>7 DEF OpenInv, ChannelInv
  <1>. QED  BY <1>5, <1>6, <1>7 DEF IInv

\* The packets of one kind are counted: none, or one if none comes before another.
LEMMA AtMostOne ==
    ASSUME NEW T \in SUBSET Packets, NEW q \in Seq(T), NEW c, NEW type, Before(q, Word(c, type), Word(c, type))
    PROVE  /\ Cardinality(Of(c, type, q)) = IF In(q, Word(c, type)) THEN 1 ELSE 0
           /\ Of(c, type, q) = {} <=> ~In(q, Word(c, type))
  <1>. DEFINE O == Of(c, type, q)
  <1>1. DOMAIN q = 1..Len(q) /\ \A i \in 1..Len(q) : q[i] \in Packets  BY ElementOfSeq
  <1>2. O = {i \in 1..Len(q) : q[i] \in Word(c, type)}  BY <1>1 DEF Of, Word
  <1>. HIDE DEF O
  <1>3. CASE ~In(q, Word(c, type))
    <2>1. O = {}  BY <1>2, <1>3 DEF In
    <2>. QED  BY <1>3, <2>1, FS_EmptySet DEF O
  <1>4. CASE In(q, Word(c, type))
    <2>1. PICK i \in 1..Len(q) : q[i] \in Word(c, type)  BY <1>4 DEF In
    <2>2. ASSUME NEW j \in O PROVE j = i
      <3>1. j \in 1..Len(q) /\ q[j] \in Word(c, type)  BY <1>2, <2>2
      <3>2. i <= j /\ j <= i  BY <2>1, <3>1 DEF Before
      <3>. QED  BY <2>1, <3>1, <3>2
    <2>3. O = {i}  BY <1>2, <2>1, <2>2
    <2>4. Cardinality({i}) = 1  BY FS_Singleton
    <2>. QED  BY <1>4, <2>3, <2>4 DEF O
  <1>. QED  BY <1>3, <1>4

LEMMA InvExact == ASSUME RequestsAssumption, IInv PROVE JobsAreExact
  <1>1. Sent \in SUBSET Packets /\ Received \in SUBSET Packets /\ up \in Seq(Sent) /\ down \in Seq(Received)
    BY InvFacts DEF Sent, Received
  <1>2. JobsTypeOK
    <2>1. jobPc \notin {"idle", "closing"} => Known(maxchannel)  BY InvFacts
    <2>2. jobPc = "ready" => step <= Len(Asks(kind)) /\ Current.request = "none"  BY DEF IInv, JobInv
    <2>. QED  BY <2>1, <2>2 DEF IInv, Typed, JobsTypeOK, Channel, Serving
  <1>3. ReplyIsOwn
    <2>1. ASSUME NEW c \in Ids
          PROVE  LET underway == Cardinality(Of(c, "request", up)) + Cardinality(Of(c, "reply", down)) IN
                 underway <= 1 /\ (underway = 1 /\ Known(c) => channel[c].request = "pending")
      <3>1. RequestInv(c)  BY InvFacts
      <3>2. Cardinality(Of(c, "request", up)) = IF In(up, Word(c, "request")) THEN 1 ELSE 0
        BY <1>1, <3>1, AtMostOne DEF RequestInv
      <3>3. Cardinality(Of(c, "reply", down)) = IF In(down, Word(c, "reply")) THEN 1 ELSE 0
        BY <1>1, <3>1, AtMostOne DEF RequestInv
      <3>4. ~In(up, Word(c, "request")) \/ ~In(down, Word(c, "reply"))  BY <3>1 DEF RequestInv
      <3>5. (In(up, Word(c, "request")) \/ In(down, Word(c, "reply"))) /\ Known(c) =>
                channel[c].request = "pending"
        BY <3>1 DEF RequestInv
      <3>. QED  BY <3>2, <3>3, <3>4, <3>5
    <2>. QED  BY <2>1 DEF ReplyIsOwn
  <1>4. RunsWhatWasAsked  BY DEF IInv, JobInv, RunsWhatWasAsked
  <1>5. ResultIsExact  BY InvFacts DEF ExitInv, ResultIsExact
  <1>6. NoOrphans
    <2>1. ASSUME NEW c \in Ids, server[c].phase # "none", ~server[c].gotClose, Of(c, "close", up) = {}
          PROVE  (c = maxchannel /\ jobPc # "idle") \/ c \in overdue
      <3>1. ~In(up, Word(c, "close"))
        <4>1. \A i \in 1..Len(up) : up[i] \in Packets  BY <1>1, ElementOfSeq
        <4>2. DOMAIN up = 1..Len(up)  BY <1>1
        <4>. QED  BY <2>1, <4>1, <4>2 DEF Of, In, Word
      <3>. QED  BY <2>1, <3>1, InvFacts DEF OpenInv, HeldInv, Runs
    <2>. QED  BY <2>1 DEF NoOrphans
  <1>7. NoStrangers
    <2>1. ASSUME NEW i \in DOMAIN down PROVE Known(down[i].channel) \/ down[i].channel \in overdue
      <3>1. i \in 1..Len(down) /\ down[i] \in Packets  BY <1>1, ElementOfSeq
      <3>2. PICK c \in Ids : c = down[i].channel  BY <3>1 DEF Packets
      <3>3. ~Silent(c)  BY <3>1, <3>2 DEF Silent, In, Words
      <3>. QED  BY <3>2, <3>3, InvFacts DEF OpenInv, CloseInv
    <2>. QED  BY <2>1 DEF NoStrangers
  <1>. QED  BY <1>2, <1>3, <1>4, <1>5, <1>6, <1>7 DEF JobsAreExact

\* A command or shell runs what was asked for and returns what the server reported of it, a channel never has
\* two requests under way, and one that the server holds is that of the job, or gets its close, or is one
\* whose open timed out (channel_open, channel_request, ssh_channel_get_exit_state, ssh_channel_free).
THEOREM JobsStayExact == ASSUME RequestsAssumption PROVE JobsSpec => []JobsAreExact
  <1>1. JobsInit => IInv  BY InitHolds
  <1>2. IInv /\ [JobsNext]_jobVars => IInv'  BY NextKeeps
  <1>3. IInv => JobsAreExact  BY InvExact
  <1>. QED  BY <1>1, <1>2, <1>3, PTL DEF JobsSpec

=================================================================================
