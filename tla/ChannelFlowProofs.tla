-------------------------- MODULE ChannelFlowProofs --------------------------
(***************************************************************************)
(* Proof that the two ends of a channel account for its windows, its data, *)
(* its ends of file and its closes alike, for windows and packets of every *)
(* size and any amount of data.                                            *)
(***************************************************************************)
EXTENDS ChannelFlow, TLAPS

-----------------------------------------------------------------------------
(***************************************************************************)
(* The inductive invariant.  What is under way is described by the numbers *)
(* that the packets carry.                                                 *)
(***************************************************************************)

\* The numbers that the packets of a kind carry ascend from lo to hi, on the streams in s.
Carries(p, type, s) == p.type = type /\ p.stream \in s
Within(q, type, s, lo, hi) ==
    /\ lo <= hi
    /\ \A i \in 1..Len(q) : Carries(q[i], type, s) => lo <= q[i].from /\ q[i].from + q[i].len <= hi
    /\ \A i, j \in 1..Len(q) :
        i < j /\ Carries(q[i], type, s) /\ Carries(q[j], type, s) => q[i].from + q[i].len <= q[j].from

\* None of those numbers is missing.
Carried(q, s, b) ==
    \E i \in 1..Len(q) : Carries(q[i], "data", s) /\ q[i].from <= b /\ b < q[i].from + q[i].len
Covered(q, s, lo, hi) == \A b \in lo..(hi - 1) : Carried(q, s, b)

Got(s) == read[s] + buffer[s]

\* What the server said on a stream was received, or is under way.
OutputInv ==
    \A s \in Streams :
        /\ Within(toClient, "data", {s}, Got(s), peer.sent[s])
        /\ Covered(toClient, {s}, Got(s), peer.sent[s])

\* The window of the server: what it gives is spent, or known here, or under way.
InputInv ==
    /\ Within(toServer, "data", Streams, peer.received, written)
    /\ Within(toClient, "adjust", Streams, remoteWindow + written, peer.allows)

\* The window of the client: what the server may send is known to both, or under way.
GrantInv ==
    /\ Within(toServer, "adjust", Streams, peer.granted, Granted)
    /\ Total(peer.sent) <= peer.granted
    /\ BufferBounded

Has(q, type) == \E i \in 1..Len(q) : q[i].type = type

\* Behind a close comes nothing, and behind an end of file neither another nor data.
EndsLast(q) ==
    \A i, j \in DOMAIN q : i < j =>
        /\ q[i].type # "close"
        /\ q[i].type = "eof" => q[j].type \notin {"eof", "data"}

\* How the channel ends for the client: what it has seen, the server has said.
ServerEndInv ==
    /\ EndsLast(toClient)
    /\ Has(toClient, "eof") => peer.eof
    /\ Has(toClient, "close") => peer.closed
    /\ remoteEof => (peer.eof \/ peer.closed) /\ ~Has(toClient, "data")
    /\ "closedRemote" \in flags => toClient = <<>> /\ peer.closed
ClosedInv ==
    /\ freed \/ delayedClose => "closedRemote" \in flags
    /\ state = "closed" => "closedLocal" \in flags \/ ("closedRemote" \in flags /\ ~Unread)
    /\ \A s \in ended : remoteEof /\ buffer[s] = 0

EofSent == peer.gotEof \/ Has(toServer, "eof")
CloseSent == peer.gotClose \/ Has(toServer, "close")

\* How it ends for the server: which call sends the end of file and the close, and when.
SentInv ==
    /\ LastWords
    /\ EofSent => localEof \/ pc = "eof" \/ failed
    /\ CloseSent => "closedLocal" \in flags
CallInv ==
    /\ pc \in {"write", "kex", "window", "eof"} => ~localEof
    /\ pc = "sendClose" => localEof /\ "closedLocal" \notin flags
    /\ pc = "closeFlush" => "closedLocal" \in flags
    /\ caller = "free" => pc \in {"sendClose", "closeFlush", "freeing"}
    /\ pc = "freeing" \/ Gone => failed \/ "closedLocal" \in flags
    /\ "closedLocal" \in flags => state = "closed" /\ localEof

FlowInv ==
    TypeOK /\ OutputInv /\ InputInv /\ GrantInv /\ ServerEndInv /\ ClosedInv /\ SentInv /\ CallInv

-----------------------------------------------------------------------------
(***************************************************************************)
(* Packets under way.                                                      *)
(***************************************************************************)

\* A queue with one more packet.
Longer(q, p, r) ==
    /\ r \in Seq(Packets) /\ Len(r) = Len(q) + 1 /\ r[Len(q) + 1] = p
    /\ \A i \in 1..Len(q) : r[i] = q[i]

\* A queue without its first packet.
Shorter(q, r) ==
    /\ r \in Seq(Packets) /\ Len(r) = Len(q) - 1
    /\ \A i \in 1..Len(r) : r[i] = q[i + 1]
    /\ q[1] = Head(q) /\ Head(q) \in Packets

LEMMA AppendIsLonger ==
    ASSUME NEW q \in Seq(Packets), NEW p \in Packets PROVE Longer(q, p, Append(q, p))
BY DEF Longer

LEMMA ConcatIsLonger ==
    ASSUME NEW q \in Seq(Packets), NEW p \in Packets PROVE Longer(q, p, q \o <<p>>)
<1>1. <<p>> \in Seq(Packets) /\ Len(<<p>>) = 1 /\ <<p>>[1] = p
  OBVIOUS
<1>2. q \o <<p>> \in Seq(Packets) /\ Len(q \o <<p>>) = Len(q) + 1 /\ Len(q) \in Nat
  BY <1>1
<1>3. \A i \in 1..Len(q) : (q \o <<p>>)[i] = q[i]
  BY <1>1
<1>4. (q \o <<p>>)[Len(q) + 1] = p
  BY <1>1, <1>2
<1> QED
  BY <1>2, <1>3, <1>4 DEF Longer

LEMMA ConcatNothing == ASSUME NEW q \in Seq(Packets) PROVE q \o <<>> = q
OBVIOUS

LEMMA TailIsShorter ==
    ASSUME NEW q \in Seq(Packets), q # <<>> PROVE Shorter(q, Tail(q)) /\ Len(q) \in Nat \ {0}
BY DEF Shorter

LEMMA PacketAt ==
    ASSUME NEW q \in Seq(Packets)
    PROVE  /\ Len(q) \in Nat /\ (q = <<>> <=> Len(q) = 0)
           /\ \A i \in 1..Len(q) : q[i] \in Packets /\ q[i].from \in Nat /\ q[i].len \in Nat
<1>1. Len(q) \in Nat /\ (q = <<>> <=> Len(q) = 0) /\ \A i \in 1..Len(q) : q[i] \in Packets
  OBVIOUS
<1> QED
  BY <1>1 DEF Packets

LEMMA LongerWithin ==
    ASSUME NEW q \in Seq(Packets), NEW p \in Packets, NEW r, Longer(q, p, r),
           NEW type, NEW s, NEW lo \in Nat, NEW hi \in Nat, Within(q, type, s, lo, hi)
    PROVE  /\ Carries(p, type, s) /\ p.from = hi => Within(r, type, s, lo, hi + p.len)
           /\ ~Carries(p, type, s) => Within(r, type, s, lo, hi)
<1>1. /\ Len(q) \in Nat /\ p.from \in Nat /\ p.len \in Nat
      /\ \A i \in 1..Len(q) : q[i].from \in Nat /\ q[i].len \in Nat
  BY PacketAt DEF Packets
<1>2. \A i \in 1..Len(r) : IF i = Len(q) + 1 THEN r[i] = p ELSE i \in 1..Len(q) /\ r[i] = q[i]
  BY <1>1 DEF Longer
<1>3. ASSUME ~Carries(p, type, s) PROVE Within(r, type, s, lo, hi)
  <2>1. \A i \in 1..Len(r) : Carries(r[i], type, s) => i \in 1..Len(q) /\ r[i] = q[i]
    BY <1>2, <1>3
  <2> QED
    BY <2>1 DEF Within
<1>4. ASSUME Carries(p, type, s), p.from = hi PROVE Within(r, type, s, lo, hi + p.len)
  <2>1. lo <= hi + p.len
    BY <1>1 DEF Within
  <2>2. ASSUME NEW i \in 1..Len(r), Carries(r[i], type, s)
        PROVE  lo <= r[i].from /\ r[i].from + r[i].len <= hi + p.len
    <3>1. CASE i = Len(q) + 1
      BY <1>1, <1>2, <1>4, <3>1 DEF Within
    <3>2. CASE i # Len(q) + 1
      <4>1. i \in 1..Len(q) /\ r[i] = q[i]
        BY <1>2, <3>2
      <4>2. lo <= q[i].from /\ q[i].from + q[i].len <= hi
        BY <2>2, <4>1 DEF Within
      <4> QED
        BY <1>1, <4>1, <4>2
    <3> QED
      BY <3>1, <3>2
  <2>3. ASSUME NEW i \in 1..Len(r), NEW j \in 1..Len(r), i < j,
               Carries(r[i], type, s), Carries(r[j], type, s)
        PROVE  r[i].from + r[i].len <= r[j].from
    <3>1. i \in 1..Len(q) /\ r[i] = q[i]
      BY <1>1, <1>2, <2>3 DEF Longer
    <3>2. CASE j = Len(q) + 1
      BY <1>2, <1>4, <2>3, <3>1, <3>2 DEF Within
    <3>3. CASE j # Len(q) + 1
      BY <1>2, <2>3, <3>1, <3>3 DEF Within
    <3> QED
      BY <3>2, <3>3
  <2> QED
    BY <2>1, <2>2, <2>3 DEF Within
<1> QED
  BY <1>3, <1>4

LEMMA ShorterWithin ==
    ASSUME NEW q \in Seq(Packets), q # <<>>, NEW r, Shorter(q, r),
           NEW type, NEW s, NEW lo \in Nat, NEW hi \in Nat, Within(q, type, s, lo, hi)
    PROVE  /\ Carries(Head(q), type, s) =>
                lo <= Head(q).from /\ Head(q).from + Head(q).len <= hi
                  /\ Within(r, type, s, lo + Head(q).len, hi)
           /\ ~Carries(Head(q), type, s) => Within(r, type, s, lo, hi)
<1>1. /\ Len(q) \in Nat /\ Len(q) >= 1 /\ Len(r) = Len(q) - 1
      /\ \A i \in 1..Len(q) : q[i].from \in Nat /\ q[i].len \in Nat
  <2>1. Len(q) \in Nat /\ Len(q) # 0 /\ \A i \in 1..Len(q) : q[i].from \in Nat /\ q[i].len \in Nat
    BY PacketAt
  <2>2. Len(r) = Len(q) - 1
    BY DEF Shorter
  <2> QED
    BY <2>1, <2>2
<1>2. /\ q[1] = Head(q) /\ 1 \in 1..Len(q)
      /\ \A i \in 1..Len(r) : r[i] = q[i + 1] /\ i + 1 \in 1..Len(q) /\ 1 < i + 1
  BY <1>1 DEF Shorter
<1>3. ASSUME NEW i \in 1..Len(r), NEW j \in 1..Len(r), i < j, Carries(r[i], type, s), Carries(r[j], type, s)
      PROVE  r[i].from + r[i].len <= r[j].from
  <2>1. i + 1 \in 1..Len(q) /\ j + 1 \in 1..Len(q) /\ i + 1 < j + 1 /\ r[i] = q[i + 1] /\ r[j] = q[j + 1]
    BY <1>1, <1>2, <1>3
  <2> QED
    BY <1>3, <2>1 DEF Within
<1>4. ASSUME ~Carries(Head(q), type, s) PROVE Within(r, type, s, lo, hi)
  BY <1>1, <1>2, <1>3, <1>4 DEF Within
<1>5. ASSUME Carries(Head(q), type, s)
      PROVE  lo <= Head(q).from /\ Head(q).from + Head(q).len <= hi /\ Within(r, type, s, lo + Head(q).len, hi)
  <2>1. lo <= Head(q).from /\ Head(q).from + Head(q).len <= hi
    BY <1>1, <1>2, <1>5 DEF Within
  <2>2. \A i \in 1..Len(r) : Carries(r[i], type, s) => Head(q).from + Head(q).len <= r[i].from /\ r[i].from + r[i].len <= hi
    BY <1>1, <1>2, <1>5 DEF Within
  <2>3. Head(q).from \in Nat /\ Head(q).len \in Nat /\ \A i \in 1..Len(r) : r[i].from \in Nat
    BY <1>1, <1>2
  <2> QED
    <3>1. lo + Head(q).len <= hi
      BY <2>1, <2>3
    <3>2. ASSUME NEW i \in 1..Len(r), Carries(r[i], type, s)
          PROVE  lo + Head(q).len <= r[i].from /\ r[i].from + r[i].len <= hi
      BY <2>1, <2>2, <2>3, <3>2
    <3> QED
      BY <1>3, <2>1, <3>1, <3>2 DEF Within
<1> QED
  BY <1>4, <1>5

LEMMA LongerCovered ==
    ASSUME NEW q \in Seq(Packets), NEW p \in Packets, NEW r, Longer(q, p, r),
           NEW s, NEW lo \in Nat, NEW hi \in Nat, Covered(q, s, lo, hi)
    PROVE  /\ Carries(p, "data", s) /\ p.from = hi => Covered(r, s, lo, hi + p.len)
           /\ Covered(r, s, lo, hi)
<1>1. Len(q) \in Nat /\ p.len \in Nat
  BY PacketAt DEF Packets
<1>2. /\ \A i \in 1..Len(q) : i \in 1..Len(r) /\ r[i] = q[i]
      /\ Len(q) + 1 \in 1..Len(r) /\ r[Len(q) + 1] = p
  BY <1>1 DEF Longer
<1>3. Covered(r, s, lo, hi)
  BY <1>2 DEF Covered, Carried
<1>4. ASSUME Carries(p, "data", s), p.from = hi PROVE Covered(r, s, lo, hi + p.len)
  <2>1. ASSUME NEW b \in lo..((hi + p.len) - 1) PROVE Carried(r, s, b)
    <3>1. CASE b < hi
      BY <1>3, <3>1 DEF Covered
    <3>2. CASE ~(b < hi)
      <4>1. hi <= b /\ b < hi + p.len
        BY <1>1, <3>2
      <4> QED
        BY <1>2, <1>4, <4>1 DEF Carried
    <3> QED
      BY <3>1, <3>2
  <2> QED
    BY <2>1 DEF Covered
<1> QED
  BY <1>3, <1>4

\* The first packet of a stream carries the first number that was not received.
LEMMA ShorterCovered ==
    ASSUME NEW q \in Seq(Packets), q # <<>>, NEW r, Shorter(q, r), NEW s, NEW lo \in Nat, NEW hi \in Nat,
           Within(q, "data", s, lo, hi), Covered(q, s, lo, hi)
    PROVE  /\ Carries(Head(q), "data", s) => Covered(r, s, lo + Head(q).len, hi)
           /\ ~Carries(Head(q), "data", s) => Covered(r, s, lo, hi)
<1>1. /\ Len(q) \in Nat /\ Len(q) >= 1 /\ Len(r) = Len(q) - 1 /\ q[1] = Head(q)
      /\ \A i \in 1..Len(q) : q[i].from \in Nat /\ q[i].len \in Nat
      /\ \A i \in 1..Len(r) : r[i] = q[i + 1]
  <2>1. Len(q) \in Nat /\ Len(q) # 0 /\ \A i \in 1..Len(q) : q[i].from \in Nat /\ q[i].len \in Nat
    BY PacketAt
  <2>2. Len(r) = Len(q) - 1 /\ q[1] = Head(q) /\ \A i \in 1..Len(r) : r[i] = q[i + 1]
    BY DEF Shorter
  <2> QED
    BY <2>1, <2>2
<1> DEFINE Number(i, b) == Carries(q[i], "data", s) /\ q[i].from <= b /\ b < q[i].from + q[i].len
<1>2. ASSUME NEW b \in Int, NEW i \in 1..Len(q), i # 1, Number(i, b)
      PROVE  Carried(r, s, b)
  <2>1. i - 1 \in 1..Len(r) /\ r[i - 1] = q[i]
    BY <1>1, <1>2
  <2> QED
    BY <1>2, <2>1 DEF Carried
<1>3. ASSUME ~Carries(Head(q), "data", s) PROVE Covered(r, s, lo, hi)
  <2>1. ASSUME NEW b \in lo..(hi - 1) PROVE Carried(r, s, b)
    <3>1. PICK i \in 1..Len(q) : Number(i, b)
      BY DEF Covered, Carried
    <3> QED
      BY <1>1, <1>2, <1>3, <3>1
  <2> QED
    BY <2>1 DEF Covered
<1>4. ASSUME Carries(Head(q), "data", s) PROVE Covered(r, s, lo + Head(q).len, hi)
  <2>0. Head(q).from \in Nat /\ Head(q).len \in Nat /\ 1 \in 1..Len(q)
    BY <1>1
  <2>1. /\ lo <= Head(q).from /\ Head(q).from + Head(q).len <= hi
        /\ \A i \in 1..Len(q) : i # 1 /\ Carries(q[i], "data", s) => Head(q).from + Head(q).len <= q[i].from
    BY <1>1, <1>4, <2>0 DEF Within
  <2>2. ASSUME Head(q).len > 0 PROVE Head(q).from = lo
    <3>1. lo < hi
      BY <2>0, <2>1, <2>2
    <3>2. PICK i \in 1..Len(q) : Number(i, lo)
      BY <3>1 DEF Covered, Carried
    <3>3. i = 1
      BY <1>1, <2>0, <2>1, <2>2, <3>2
    <3> QED
      BY <1>1, <2>0, <2>1, <3>2, <3>3
  <2>3. ASSUME NEW b \in (lo + Head(q).len)..(hi - 1) PROVE Carried(r, s, b)
    <3>1. b \in lo..(hi - 1)
      BY <2>0, <2>3
    <3>2. PICK i \in 1..Len(q) : Number(i, b)
      BY <3>1 DEF Covered, Carried
    <3>3. i # 1
      BY <1>1, <2>0, <2>2, <2>3, <3>2
    <3> QED
      BY <1>2, <3>2, <3>3
  <2> QED
    BY <2>3 DEF Covered
<1> QED
  BY <1>3, <1>4

\* With no packet of a stream under way nothing of it is missing.
LEMMA NothingUnderWay ==
    ASSUME NEW q, NEW s, NEW lo \in Nat, NEW hi \in Nat, lo <= hi, ~Has(q, "data"), Covered(q, s, lo, hi)
    PROVE  lo = hi
<1> SUFFICES ASSUME lo < hi PROVE FALSE
  OBVIOUS
<1>1. \E i \in 1..Len(q) : Carries(q[i], "data", s)
  BY DEF Covered, Carried
<1> QED
  BY <1>1 DEF Has, Carries

LEMMA LongerEnds ==
    ASSUME NEW q \in Seq(Packets), NEW p \in Packets, NEW r, Longer(q, p, r)
    PROVE  /\ \A type : Has(r, type) <=> Has(q, type) \/ p.type = type
           /\ EndsLast(q) /\ ~Has(q, "close") /\ (p.type \in {"eof", "data"} => ~Has(q, "eof")) => EndsLast(r)
<1>1. Len(q) \in Nat /\ Len(r) = Len(q) + 1 /\ DOMAIN r = 1..Len(r) /\ DOMAIN q = 1..Len(q)
  BY PacketAt DEF Longer
<1>2. /\ \A i \in 1..Len(r) : IF i = Len(q) + 1 THEN r[i] = p ELSE i \in 1..Len(q) /\ r[i] = q[i]
      /\ \A i \in 1..Len(q) : i \in 1..Len(r) /\ r[i] = q[i]
      /\ Len(q) + 1 \in 1..Len(r) /\ r[Len(q) + 1] = p
  BY <1>1 DEF Longer
<1>3. \A type : Has(r, type) <=> Has(q, type) \/ p.type = type
  BY <1>2 DEF Has
<1>4. ASSUME EndsLast(q), ~Has(q, "close"), p.type \in {"eof", "data"} => ~Has(q, "eof") PROVE EndsLast(r)
  <2>1. ASSUME NEW i \in 1..Len(r), NEW j \in 1..Len(r), i < j
        PROVE  r[i].type # "close" /\ (r[i].type = "eof" => r[j].type \notin {"eof", "data"})
    <3>1. i \in 1..Len(q) /\ r[i] = q[i]
      BY <1>1, <1>2, <2>1
    <3>2. CASE j = Len(q) + 1
      BY <1>2, <1>4, <3>1, <3>2 DEF Has
    <3>3. CASE j # Len(q) + 1
      BY <1>1, <1>2, <1>4, <2>1, <3>1, <3>3 DEF EndsLast
    <3> QED
      BY <3>2, <3>3
  <2> QED
    BY <1>1, <2>1 DEF EndsLast
<1> QED
  BY <1>3, <1>4

LEMMA ShorterEnds ==
    ASSUME NEW q \in Seq(Packets), q # <<>>, NEW r, Shorter(q, r)
    PROVE  /\ \A type : Has(r, type) => Has(q, type)
           /\ Has(q, Head(q).type)
           /\ \A type : type # Head(q).type => (Has(r, type) <=> Has(q, type))
           /\ EndsLast(q) => /\ EndsLast(r)
                             /\ Head(q).type = "close" => r = <<>>
                             /\ Head(q).type = "eof" => ~Has(r, "eof") /\ ~Has(r, "data")
<1>1. /\ Len(q) \in Nat /\ Len(q) >= 1 /\ Len(r) = Len(q) - 1 /\ DOMAIN q = 1..Len(q) /\ DOMAIN r = 1..Len(r)
      /\ (r = <<>> <=> Len(r) = 0)
  BY PacketAt DEF Shorter
<1>2. /\ q[1] = Head(q) /\ 1 \in 1..Len(q)
      /\ \A i \in 1..Len(r) : i + 1 \in 1..Len(q) /\ r[i] = q[i + 1] /\ 1 < i + 1
      /\ \A i \in 1..Len(q) : i # 1 => i - 1 \in 1..Len(r) /\ r[i - 1] = q[i]
  BY <1>1 DEF Shorter
<1>3. \A type : (Has(r, type) => Has(q, type)) /\ (type # Head(q).type => (Has(r, type) <=> Has(q, type)))
  BY <1>2 DEF Has
<1>4. Has(q, Head(q).type)
  BY <1>2 DEF Has
<1>5. ASSUME EndsLast(q) PROVE EndsLast(r)
  <2>1. ASSUME NEW i \in 1..Len(r), NEW j \in 1..Len(r), i < j
        PROVE  r[i].type # "close" /\ (r[i].type = "eof" => r[j].type \notin {"eof", "data"})
    <3>1. i + 1 < j + 1
      BY <1>1, <2>1
    <3> QED
      BY <1>1, <1>2, <1>5, <3>1 DEF EndsLast
  <2> QED
    BY <1>1, <2>1 DEF EndsLast
<1>6. ASSUME EndsLast(q), Head(q).type = "close" PROVE r = <<>>
  <2>1. ~(1 \in 1..Len(r))
    BY <1>1, <1>2, <1>6 DEF EndsLast
  <2> QED
    BY <1>1, <2>1
<1>7. ASSUME EndsLast(q), Head(q).type = "eof" PROVE ~Has(r, "eof") /\ ~Has(r, "data")
  <2>1. ASSUME NEW i \in 1..Len(r) PROVE r[i].type \notin {"eof", "data"}
    BY <1>1, <1>2, <1>7 DEF EndsLast
  <2> QED
    BY <2>1 DEF Has
<1> QED
  BY <1>3, <1>4, <1>5, <1>6, <1>7

-----------------------------------------------------------------------------
(***************************************************************************)
(* Types.                                                                  *)
(***************************************************************************)

Peers == [sent : [Streams -> Nat], granted : Nat, received : Nat, allows : Nat,
          eof : BOOLEAN, closed : BOOLEAN, gotEof : BOOLEAN, gotClose : BOOLEAN]
Flags == SUBSET {"closedLocal", "closedRemote", "freedLocal"}
Places == Waiting \cup {"idle", "write", "sendClose", "freeing"}

\* TypeOK, apart from the queues.
StructType ==
    /\ state \in {"open", "closed"} /\ flags \in Flags
    /\ delayedClose \in BOOLEAN /\ localEof \in BOOLEAN /\ remoteEof \in BOOLEAN /\ freed \in BOOLEAN
    /\ localWindow \in Nat /\ remoteWindow \in Nat /\ buffer \in [Streams -> Nat]
CallType == pc \in Places /\ caller \in {"eof", "close", "free"} /\ left \in Nat /\ stream \in Streams
AppType == read \in [Streams -> Nat] /\ ended \in SUBSET Streams /\ written \in Nat
RestType == demand \in [Streams -> 0..MaxIn] /\ failed \in BOOLEAN
WireType == unsent \in Nat /\ toServer \in Seq(Packets) /\ toClient \in Seq(Packets)

AllTyped == StructType /\ CallType /\ AppType /\ RestType /\ WireType /\ peer \in Peers

LEMMA Typed == TypeOK <=> AllTyped
<1>1. {delayedClose, localEof, remoteEof, freed, failed} \subseteq BOOLEAN <=>
        /\ delayedClose \in BOOLEAN /\ localEof \in BOOLEAN /\ remoteEof \in BOOLEAN /\ freed \in BOOLEAN
        /\ failed \in BOOLEAN
  OBVIOUS
<1> QED
  BY <1>1 DEF TypeOK, StructType, CallType, AppType, RestType, WireType, Flags, Places, Peers, AllTyped

LEMMA TypedNext == AllTyped' => TypeOK'
BY Typed, PTL

LEMMA Numbers ==
    ASSUME TypeOK
    PROVE  /\ Got("stdout") \in Nat /\ Got("stderr") \in Nat /\ Granted \in Nat /\ Received \in Nat
           /\ \A s \in Streams : Got(s) \in Nat /\ read[s] \in Nat /\ buffer[s] \in Nat /\ peer.sent[s] \in Nat
           /\ Total(peer.sent) \in Nat /\ Total(buffer) \in Nat /\ Total(read) \in Nat
           /\ Granted = localWindow + Got("stdout") + Got("stderr")
           /\ "stdout" \in Streams /\ "stderr" \in Streams
           /\ {peer.granted, peer.received, peer.allows, localWindow, remoteWindow, written, left} \subseteq Nat
           /\ Smallest(left, MaxPacket) \in Nat
           /\ WindowDefault \in Nat
<1>1. "stdout" \in Streams /\ "stderr" \in Streams
  BY DEF Streams
<1>2. /\ \A s \in Streams : read[s] \in Nat /\ buffer[s] \in Nat /\ peer.sent[s] \in Nat
      /\ {peer.granted, peer.received, peer.allows, localWindow, remoteWindow, written, left} \subseteq Nat
  BY Typed DEF AllTyped, StructType, AppType, Peers, CallType
<1>3. MaxPacket \in Nat /\ WindowDefault \in Nat
  BY FlowAssumption
<1> QED
  BY <1>1, <1>2, <1>3 DEF Got, Granted, Received, Total, Smallest

\* The same, of what is on its way to the client.
LEMMA ToClient ==
    ASSUME TypeOK
    PROVE  /\ toClient \in Seq(Packets) /\ remoteWindow + written \in Nat /\ peer.allows \in Nat
           /\ \A s \in Streams : Got(s) \in Nat /\ peer.sent[s] \in Nat
<1>1. {remoteWindow, written, peer.allows} \subseteq Nat /\ \A s \in Streams : Got(s) \in Nat /\ peer.sent[s] \in Nat
  BY Numbers
<1>2. toClient \in Seq(Packets)
  BY DEF TypeOK
<1>3. \A a, b \in Nat : a + b \in Nat
  OBVIOUS
<1> QED
  BY <1>1, <1>2, <1>3

\* Both ways a packet goes into a queue.
LEMMA SentIs ==
    ASSUME WireType, NEW p \in Packets, Send(p)
    PROVE  Longer(toServer, p, toServer') /\ toServer' \in Seq(Packets) /\ unsent' \in Nat
BY AppendIsLonger DEF Send, WireType

LEMMA MadePacket ==
    ASSUME NEW type \in {"data", "adjust", "eof", "close"}, NEW s \in Streams, NEW n \in Nat, NEW l \in Nat
    PROVE  /\ Packet(type, s, n, l) \in Packets
           /\ Packet(type, s, n, l).type = type /\ Packet(type, s, n, l).stream = s
           /\ Packet(type, s, n, l).from = n /\ Packet(type, s, n, l).len = l
BY DEF Packet, Packets

-----------------------------------------------------------------------------
LEMMA TypeCalls == TypeOK /\ (Calls \/ Flush \/ Fail) => TypeOK'
<1> SUFFICES ASSUME TypeOK, Calls \/ Flush \/ Fail
             PROVE  AllTyped'
  BY TypedNext
<1> USE DEF AllTyped, StructType, CallType, AppType, RestType, WireType, Places, Waiting, struct, app, call
<1>1. AllTyped
  BY Typed
<1>2. ASSUME NEW n \in 1..MaxOut, CallWrite(n) PROVE AllTyped'
  BY <1>1, <1>2, FlowAssumption DEF CallWrite
<1>3. ASSUME NEW s \in Streams, CallRead(s) PROVE AllTyped'
  BY <1>1, <1>3 DEF CallRead
<1>4. ASSUME NEW who \in {"eof", "close"}, SendEof(who)
      PROVE AllTyped'
  <2>1. Packet("eof", "stdout", 0, 0) \in Packets
    BY MadePacket DEF Streams
  <2>2. toServer' \in Seq(Packets) /\ unsent' \in Nat
    BY <1>1, <1>4, <2>1, SentIs DEF SendEof
  <2> QED
    BY <1>1, <1>4, <2>2 DEF SendEof, Return, Streams
<1>5. ASSUME NEW who \in {"free", "close"}, CallClose(who)
      PROVE AllTyped'
  BY <1>1, <1>5 DEF CallClose
<1>6. ASSUME CallFree PROVE AllTyped'
  BY <1>1, <1>6 DEF CallFree, To
<1>7. ASSUME Flush PROVE AllTyped'
  BY <1>1, <1>7 DEF Flush
<1>8. ASSUME Fail PROVE AllTyped'
  BY <1>1, <1>8 DEF Fail
<1> QED
  BY <1>2, <1>3, <1>4, <1>5, <1>6, <1>7, <1>8 DEF Calls, CallFreeCloses

LEMMA GrowsTyped ==
    ASSUME StructType, AppType, WireType, NEW buf \in [Streams -> Nat], GrowWindow(buf)
    PROVE  localWindow' \in Nat /\ unsent' \in Nat /\ toServer' \in Seq(Packets)
<1>1. "stdout" \in Streams /\ "stderr" \in Streams
  BY DEF Streams
<1>2. PICK used \in Nat : used = localWindow + Total(buf)
  BY <1>1 DEF Total, StructType
<1>3. PICK more \in Nat : more = IF WindowDefault > used THEN WindowDefault - used ELSE 0
  BY FlowAssumption
<1>4. CASE UNCHANGED <<localWindow, toServer, unsent>>
  BY <1>4 DEF StructType, WireType
<1>5. CASE Send(Packet("adjust", "stdout", Granted, more)) /\ localWindow' = localWindow + more
  <2>1. Granted \in Nat
    BY <1>1 DEF Granted, Received, Total, StructType, AppType
  <2>2. Packet("adjust", "stdout", Granted, more) \in Packets
    BY <1>1, <2>1, MadePacket
  <2> QED
    BY <1>5, <2>2, SentIs DEF StructType
<1> QED
  BY <1>2, <1>3, <1>4, <1>5 DEF GrowWindow

LEMMA TypeReads == TypeOK /\ Reads => TypeOK'
<1> SUFFICES ASSUME TypeOK, Reads PROVE AllTyped'
  BY TypedNext
<1> USE DEF AllTyped, StructType, CallType, AppType, RestType, WireType, Places, Waiting, struct, app, call
<1>1. AllTyped
  BY Typed
<1>2. ASSUME NEW s \in Streams, ReadRefused(s) PROVE AllTyped'
  BY <1>1, <1>2 DEF ReadRefused, Return, Streams
<1>3. ASSUME NEW s \in Streams, ReadEof(s) PROVE AllTyped'
  BY <1>1, <1>3 DEF ReadEof, Return, Streams
<1>4. ASSUME NEW s \in Streams, NEW n \in 1..buffer[s], ReadData(s, n) PROVE AllTyped'
  <2>1. buffer[s] \in Nat /\ read[s] \in Nat /\ n \in Nat /\ buffer[s] - n \in Nat /\ read[s] + n \in Nat
    BY <1>1, <1>4
  <2>2. buffer' = [buffer EXCEPT ![s] = @ - n] /\ read' = [read EXCEPT ![s] = @ + n]
    BY <1>4 DEF ReadData
  <2>3. buffer' \in [Streams -> Nat] /\ read' \in [Streams -> Nat]
    BY <1>1, <2>1, <2>2
  <2>4. localWindow' \in Nat /\ unsent' \in Nat /\ toServer' \in Seq(Packets)
    BY <1>1, <1>4, <2>3, GrowsTyped DEF ReadData
  <2>5. state' \in {"open", "closed"}
    BY <1>1, <1>4 DEF ReadData
  <2> QED
    BY <1>1, <1>4, <2>3, <2>4, <2>5 DEF ReadData, Return, Streams
<1> QED
  BY <1>2, <1>3, <1>4 DEF Reads

LEMMA TypeContinues == TypeOK /\ Continues => TypeOK'
<1> SUFFICES ASSUME TypeOK, Continues PROVE AllTyped'
  BY TypedNext
<1> USE DEF AllTyped, StructType, CallType, AppType, RestType, WireType, Places, Waiting, struct, app, call
<1>1. AllTyped
  BY Typed
<1>2. ASSUME To("write") \/ To("window") \/ To("writeFlush") \/ To("sendClose") \/ To("closeFlush") \/ To("freeing") \/ Return
      PROVE  CallType'
  BY <1>1, <1>2 DEF To, Return, Streams
<1>3. AfterClose => CallType'
  BY <1>2 DEF AfterClose
<1> HIDE DEF CallType
<1>4. ASSUME KexWaited \/ AwaitWindow \/ WindowWaited \/ WriteDone \/ WaitOver \/ CloseFlushed \/ ReturnFailed
      PROVE  AllTyped'
  <2>1. CallType'
    BY <1>2, <1>3, <1>4 DEF KexWaited, AwaitWindow, WindowWaited, WriteDone, WaitOver, CloseFlushed, ReturnFailed
  <2>2. UNCHANGED <<struct, app, failed, unsent, toServer, toClient, demand, peer>>
    BY <1>4 DEF KexWaited, AwaitWindow, WindowWaited, WriteDone, WaitOver, CloseFlushed, ReturnFailed
  <2> QED
    BY <1>1, <2>1, <2>2
<1>5. ASSUME WriteChunk PROVE AllTyped'
  <2>1. PICK len \in Nat : /\ len = Smallest(Smallest(left, remoteWindow), MaxPacket)
                           /\ len <= left /\ len <= remoteWindow
    BY <1>1, FlowAssumption DEF Smallest, CallType
  <2>2. Packet("data", "stdout", written, len) \in Packets
    BY <1>1, MadePacket DEF Streams
  <2>3. toServer' \in Seq(Packets) /\ unsent' \in Nat
    BY <1>1, <1>5, <2>1, <2>2, SentIs DEF WriteChunk
  <2>4. remoteWindow' = remoteWindow - len /\ left' = left - len /\ written' = written + len
    BY <1>5, <2>1 DEF WriteChunk
  <2>5. remoteWindow \in Nat /\ left \in Nat /\ written \in Nat
    BY <1>1 DEF CallType
  <2>6. remoteWindow' \in Nat /\ left' \in Nat /\ written' \in Nat
    BY <2>1, <2>4, <2>5
  <2> QED
    BY <1>1, <1>5, <2>3, <2>6 DEF WriteChunk, CallType
<1>6. ASSUME EofFlushed PROVE AllTyped'
  <2>1. CallType'
    BY <1>2, <1>3, <1>6 DEF EofFlushed
  <2> QED
    BY <1>1, <1>6, <2>1 DEF EofFlushed
<1>7. ASSUME SendClose PROVE AllTyped'
  <2>1. Packet("close", "stdout", 0, 0) \in Packets
    BY MadePacket DEF Streams
  <2>2. toServer' \in Seq(Packets) /\ unsent' \in Nat
    BY <1>1, <1>7, <2>1, SentIs DEF SendClose
  <2>3. CallType'
    BY <1>2, <1>3, <1>7 DEF SendClose
  <2>4. flags' \in Flags
    BY <1>1, <1>7 DEF SendClose, Flags
  <2> QED
    BY <1>1, <1>7, <2>2, <2>3, <2>4 DEF SendClose
<1>8. ASSUME FinishFree PROVE AllTyped'
  <2>1. flags' \in Flags /\ freed' \in BOOLEAN
    BY <1>1, <1>8 DEF FinishFree, Flags
  <2>2. CallType'
    BY <1>2, <1>8 DEF FinishFree
  <2> QED
    BY <1>1, <1>8, <2>1, <2>2 DEF FinishFree
<1> QED
  BY <1>4, <1>5, <1>6, <1>7, <1>8 DEF Continues

LEMMA TypeHandles == TypeOK /\ Handles => TypeOK'
<1> SUFFICES ASSUME TypeOK, Handles PROVE AllTyped'
  BY TypedNext
<1> USE DEF AllTyped, StructType, CallType, AppType, RestType, WireType, struct, app, call
<1>1. AllTyped
  BY Typed
<1>2. ASSUME NEW type, Handle(type)
      PROVE  /\ CallType' /\ AppType' /\ RestType' /\ WireType' /\ peer' \in Peers
             /\ Head(toClient) \in Packets /\ Head(toClient).len \in Nat /\ Head(toClient).stream \in Streams
  <2>1. toClient # <<>> /\ toClient' = Tail(toClient)
    BY <1>2 DEF Handle
  <2>2. Head(toClient) \in Packets /\ toClient' \in Seq(Packets)
    BY <1>1, <2>1, TailIsShorter DEF Shorter
  <2> QED
    BY <1>1, <1>2, <2>2 DEF Handle, Packets
<1>3. ASSUME RcvData PROVE AllTyped'
  <2>1. Handle("data")
    BY <1>3 DEF RcvData
  <2>2. PICK p : p = Head(toClient) /\ p.len \in Nat /\ p.stream \in Streams
    BY <1>2, <2>1
  <2>3. CASE UNCHANGED <<localWindow, buffer>>
    BY <1>1, <1>2, <1>3, <2>1, <2>3 DEF RcvData
  <2>4. CASE ~(p.len > localWindow) /\ localWindow' = localWindow - p.len /\ buffer' = [buffer EXCEPT ![p.stream] = @ + p.len]
    <3>1. localWindow' \in Nat
      BY <1>1, <2>2, <2>4
    <3>2. buffer[p.stream] + p.len \in Nat
      BY <1>1, <2>2
    <3>3. buffer' \in [Streams -> Nat]
      BY <1>1, <2>4, <3>2
    <3> QED
      BY <1>1, <1>2, <1>3, <2>1, <3>1, <3>3 DEF RcvData
  <2> QED
    BY <1>3, <2>2, <2>3, <2>4 DEF RcvData
<1>4. ASSUME RcvChangeWindow PROVE AllTyped'
  <2>1. Handle("adjust")
    BY <1>4 DEF RcvChangeWindow
  <2>3. PICK l \in Nat : l = Head(toClient).len
    BY <1>2, <2>1
  <2>2. remoteWindow' \in Nat
    BY <1>1, <1>4, <2>3 DEF RcvChangeWindow
  <2> QED
    BY <1>1, <1>2, <1>4, <2>1, <2>2 DEF RcvChangeWindow
<1>5. ASSUME RcvEof PROVE AllTyped'
  <2>1. Handle("eof")
    BY <1>5 DEF RcvEof
  <2>2. remoteEof' \in BOOLEAN
    BY <1>1, <1>5 DEF RcvEof
  <2> QED
    BY <1>1, <1>2, <1>5, <2>1, <2>2 DEF RcvEof
<1>6. ASSUME RcvClose PROVE AllTyped'
  <2>1. Handle("close")
    BY <1>6 DEF RcvClose
  <2>2. state' \in {"open", "closed"} /\ delayedClose' \in BOOLEAN /\ remoteEof' \in BOOLEAN
    BY <1>1, <1>6 DEF RcvClose
  <2>3. flags' \in Flags
    BY <1>1, <1>6 DEF RcvClose, Flags
  <2>5. Gone \in BOOLEAN
    BY DEF Gone
  <2>6. freed' = freed \/ freed' = Gone
    BY <1>6 DEF RcvClose
  <2>4. freed' \in BOOLEAN
    BY <1>1, <2>5, <2>6
  <2> QED
    BY <1>1, <1>2, <1>6, <2>1, <2>2, <2>3, <2>4 DEF RcvClose
<1> QED
  BY <1>3, <1>4, <1>5, <1>6 DEF Handles

LEMMA TypeServer == TypeOK /\ Server => TypeOK'
<1> SUFFICES ASSUME TypeOK, Server PROVE AllTyped'
  BY TypedNext
<1> USE DEF AllTyped, WireType
<1>1. AllTyped
  BY Typed
<1>2. ASSUME NEW p, NEW q, ServerStep(p, q), p \in Peers, toClient \o q \in Seq(Packets),
             toServer' \in Seq(Packets), unsent' \in Nat
      PROVE  AllTyped'
  BY <1>1, <1>2 DEF ServerStep, StructType, CallType, AppType, RestType, struct, app, call
<1>3. ASSUME NEW p \in Packets PROVE toClient \o <<p>> \in Seq(Packets)
  BY <1>1, ConcatIsLonger DEF Longer
<1>4. CASE ServerEof
  <2>1. [peer EXCEPT !.eof = TRUE] \in Peers
    BY <1>1 DEF Peers
  <2>2. Packet("eof", "stdout", 0, 0) \in Packets
    BY MadePacket DEF Streams
  <2> QED
    BY <1>1, <1>2, <1>3, <1>4, <2>1, <2>2 DEF ServerEof
<1>5. CASE ServerClose
  <2>1. [peer EXCEPT !.closed = TRUE] \in Peers
    BY <1>1 DEF Peers
  <2>2. Packet("close", "stdout", 0, 0) \in Packets
    BY MadePacket DEF Streams
  <2> QED
    BY <1>1, <1>2, <1>3, <1>5, <2>1, <2>2 DEF ServerClose
<1>6. ASSUME NEW n \in 1..PeerWindow, ServerGrows(n) PROVE AllTyped'
  <2>1. peer.allows \in Nat /\ n \in Nat
    BY <1>1, FlowAssumption DEF Peers
  <2>4. PICK m \in Nat : m = peer.allows + n
    BY <2>1
  <2>3. [peer EXCEPT !.allows = @ + n] \in Peers
    BY <1>1, <2>4 DEF Peers
  <2>2. Packet("adjust", "stdout", peer.allows, n) \in Packets
    BY <2>1, MadePacket DEF Streams
  <2> QED
    BY <1>1, <1>2, <1>3, <1>6, <2>3, <2>2 DEF ServerGrows
<1>7. ASSUME NEW s \in Streams, NEW n \in 1..MaxPacket, ServerData(s, n) PROVE AllTyped'
  <2>1. peer.sent[s] \in Nat /\ n \in Nat /\ peer.sent \in [Streams -> Nat]
    BY <1>1, FlowAssumption DEF Peers
  <2>3. [peer.sent EXCEPT ![s] = @ + n] \in [Streams -> Nat]
    BY <2>1
  <2>4. [peer EXCEPT !.sent[s] = @ + n] = [peer EXCEPT !.sent = [peer.sent EXCEPT ![s] = @ + n]]
    BY <1>1 DEF Peers
  <2>5. [peer EXCEPT !.sent[s] = @ + n] \in Peers
    BY <1>1, <2>3, <2>4 DEF Peers
  <2>2. Packet("data", s, peer.sent[s], n) \in Packets
    BY <2>1, MadePacket
  <2> QED
    BY <1>1, <1>2, <1>3, <1>7, <2>2, <2>5 DEF ServerData
<1>8. CASE ServerReceives
  <2> DEFINE new == [peer EXCEPT !.received = IF Head(toServer).type = "data" THEN @ + Head(toServer).len ELSE @,
                                 !.granted = IF Head(toServer).type = "adjust" THEN @ + Head(toServer).len ELSE @,
                                 !.gotEof = @ \/ Head(toServer).type = "eof",
                                 !.gotClose = @ \/ Head(toServer).type = "close"]
  <2>1. toServer # <<>>
    BY <1>1, <1>8 DEF ServerReceives
  <2>2. Head(toServer) \in Packets /\ Tail(toServer) \in Seq(Packets)
    BY <1>1, <2>1, TailIsShorter DEF Shorter
  <2>3. Head(toServer).len \in Nat /\ peer.received \in Nat /\ peer.granted \in Nat
    BY <1>1, <2>2 DEF Peers, Packets
  <2>4. PICK d \in Nat, a \in Nat, e \in BOOLEAN, c \in BOOLEAN :
          new = [peer EXCEPT !.received = d, !.granted = a, !.gotEof = e, !.gotClose = c]
    <3>1. /\ (IF Head(toServer).type = "data" THEN peer.received + Head(toServer).len ELSE peer.received) \in Nat
          /\ (IF Head(toServer).type = "adjust" THEN peer.granted + Head(toServer).len ELSE peer.granted) \in Nat
      BY <2>3
    <3>2. (peer.gotEof \/ Head(toServer).type = "eof") \in BOOLEAN /\ (peer.gotClose \/ Head(toServer).type = "close") \in BOOLEAN
      OBVIOUS
    <3> QED
      BY <3>1, <3>2
  <2>5. new \in Peers
    BY <1>1, <2>4 DEF Peers
  <2>6. toClient \o <<>> \in Seq(Packets)
    BY <1>1, ConcatNothing
  <2> QED
    BY <1>1, <1>2, <1>8, <2>2, <2>5, <2>6 DEF ServerReceives
<1> QED
  BY <1>4, <1>5, <1>6, <1>7, <1>8 DEF Server

LEMMA TypeNext == TypeOK /\ [Next]_vars => TypeOK'
<1>1. TypeOK /\ UNCHANGED vars => TypeOK'
  BY DEF vars, struct, call, app, TypeOK
<1> QED
  BY <1>1, TypeCalls, TypeReads, TypeContinues, TypeHandles, TypeServer DEF Next

-----------------------------------------------------------------------------
(***************************************************************************)
(* Windows and data.                                                       *)
(***************************************************************************)

DataInv == OutputInv /\ InputInv /\ GrantInv
FlowEnd == freed => toClient = <<>>

\* The first packet of a queue, and the queue without it.
LEMMA First ==
    ASSUME NEW q \in Seq(Packets), q # <<>>
    PROVE  /\ Shorter(q, Tail(q)) /\ Tail(q) \in Seq(Packets) /\ Head(q) \in Packets
           /\ Head(q).stream \in Streams /\ Head(q).from \in Nat /\ Head(q).len \in Nat
BY TailIsShorter DEF Shorter, Packets

\* A data packet fits the window, whichever stream it is of and whatever is behind it.
LEMMA DataFits ==
    ASSUME TypeOK, OutputInv, GrantInv, toClient # <<>>, Head(toClient).type = "data"
    PROVE  Head(toClient).len <= localWindow
<1>1. PICK p : p = Head(toClient)
  OBVIOUS
<1>2. toClient \in Seq(Packets)
  BY DEF TypeOK
<1>3. Shorter(toClient, Tail(toClient)) /\ p.stream \in Streams /\ p.from \in Nat /\ p.len \in Nat
  BY <1>1, <1>2, First
<1>4. /\ Got("stdout") \in Nat /\ Got("stderr") \in Nat /\ localWindow \in Nat /\ peer.granted \in Nat
      /\ Granted \in Nat /\ Granted = localWindow + Got("stdout") + Got("stderr")
      /\ \A s \in Streams : Got(s) \in Nat /\ peer.sent[s] \in Nat
  BY Numbers
<1>5. Got(p.stream) <= p.from /\ p.from + p.len <= peer.sent[p.stream]
  <2>1. Within(toClient, "data", {p.stream}, Got(p.stream), peer.sent[p.stream])
    BY <1>3 DEF OutputInv
  <2>2. Carries(p, "data", {p.stream})
    BY <1>1 DEF Carries
  <2> QED
    BY <1>1, <1>2, <1>3, <1>4, <2>1, <2>2, ShorterWithin
<1>6. Got("stdout") <= peer.sent["stdout"] /\ Got("stderr") <= peer.sent["stderr"]
  BY DEF OutputInv, Within, Streams
<1>7. peer.sent["stdout"] + peer.sent["stderr"] <= peer.granted /\ peer.granted <= Granted
  BY DEF GrantInv, Within, Total
<1>8. p.len <= localWindow
  <2>1. PICK g1, g2, s1, s2 \in Nat :
            /\ g1 = Got("stdout") /\ g2 = Got("stderr")
            /\ s1 = peer.sent["stdout"] /\ s2 = peer.sent["stderr"]
    BY <1>4 DEF Streams
  <2>2. g1 <= s1 /\ g2 <= s2 /\ s1 + s2 <= localWindow + g1 + g2
    <3>1. s1 + s2 <= peer.granted /\ peer.granted <= localWindow + g1 + g2
      BY <1>4, <1>7, <2>1
    <3>2. peer.granted \in Nat /\ localWindow \in Nat
      BY <1>4
    <3>3. g1 <= s1 /\ g2 <= s2
      BY <1>6, <2>1
    <3> QED
      BY <3>1, <3>2, <3>3
  <2>3. g1 + p.len <= s1 \/ g2 + p.len <= s2
    <3>1. \A g, m, l, u \in Nat : g <= m /\ m + l <= u => g + l <= u
      OBVIOUS
    <3>2. \A t \in Streams : p.stream = t => Got(t) + p.len <= peer.sent[t]
      BY <1>3, <1>4, <1>5, <3>1
    <3> QED
      BY <1>3, <2>1, <3>2 DEF Streams
  <2> QED
    BY <1>3, <1>4, <2>2, <2>3
<1> QED
  BY <1>1, <1>8

LEMMA Overruns ==
    ASSUME TypeOK, DataInv PROVE NoOverrun
<1>1. ASSUME toClient # <<>>, Head(toClient).type = "data" PROVE Head(toClient).len <= localWindow
  BY <1>1, DataFits DEF DataInv
<1>2. ASSUME toServer # <<>>, Head(toServer).type = "data"
      PROVE  Head(toServer).len <= peer.allows - peer.received
  <2>1. toServer \in Seq(Packets)
    BY DEF TypeOK
  <2>2. PICK p : p = Head(toServer)
    OBVIOUS
  <2>3. Shorter(toServer, Tail(toServer)) /\ p.stream \in Streams /\ p.from \in Nat /\ p.len \in Nat
    BY <1>2, <2>1, <2>2, First
  <2>4. {peer.received, peer.allows, written, remoteWindow} \subseteq Nat
    BY Numbers
  <2>5. peer.received <= p.from /\ p.from + p.len <= written
    <3>1. Within(toServer, "data", Streams, peer.received, written) /\ Carries(p, "data", Streams)
      BY <1>2, <2>2, <2>3 DEF DataInv, InputInv, Carries
    <3> QED
      BY <1>2, <2>1, <2>2, <2>3, <2>4, <3>1, ShorterWithin
  <2>6. remoteWindow + written <= peer.allows
    BY DEF DataInv, InputInv, Within
  <2>7. p.len <= peer.allows - peer.received
    BY <2>3, <2>4, <2>5, <2>6
  <2> QED
    BY <2>2, <2>7
<1> QED
  BY <1>1, <1>2 DEF NoOverrun


\* Steps that take nothing from a queue, and no data and no adjustment into one.
DataFrame == UNCHANGED <<localWindow, remoteWindow, buffer, read, written,
                         peer.sent, peer.granted, peer.received, peer.allows>>
Bare(p) == p.type \notin {"data", "adjust"}

LEMMA DataStays ==
    ASSUME DataInv, DataFrame, UNCHANGED <<toServer, toClient>> PROVE DataInv'
BY DEF DataInv, DataFrame, OutputInv, InputInv, GrantInv, BufferBounded, Got, Granted, Received, Total

\* Words without data, from the client and from the server.
LEMMA ClientSpeaks ==
    ASSUME TypeOK, DataInv, DataFrame, UNCHANGED toClient,
           NEW p \in Packets, Bare(p), Longer(toServer, p, toServer')
    PROVE  DataInv'
<1>1. toServer \in Seq(Packets) /\ Granted \in Nat /\ {peer.received, peer.granted, written} \subseteq Nat
  BY Numbers DEF TypeOK
<1>2. ~Carries(p, "data", Streams) /\ ~Carries(p, "adjust", Streams)
  BY DEF Bare, Carries
<1>3. Within(toServer', "data", Streams, peer.received, written)
  BY <1>1, <1>2, LongerWithin DEF DataInv, InputInv
<1>4. Within(toServer', "adjust", Streams, peer.granted, Granted)
  BY <1>1, <1>2, LongerWithin DEF DataInv, GrantInv
<1>5. OutputInv'
  BY DEF DataInv, DataFrame, OutputInv, Got
<1>6. InputInv'
  BY <1>3 DEF DataInv, DataFrame, InputInv
<1>7. GrantInv'
  BY <1>4 DEF DataInv, DataFrame, GrantInv, BufferBounded, Granted, Received, Total
<1> QED
  BY <1>5, <1>6, <1>7 DEF DataInv

LEMMA ServerSpeaks ==
    ASSUME TypeOK, DataInv, DataFrame, UNCHANGED toServer,
           NEW p \in Packets, Bare(p), Longer(toClient, p, toClient')
    PROVE  DataInv'
<1>1. /\ toClient \in Seq(Packets) /\ remoteWindow + written \in Nat /\ peer.allows \in Nat
      /\ \A s \in Streams : Got(s) \in Nat /\ peer.sent[s] \in Nat
  BY ToClient
<1>2. ~Carries(p, "adjust", Streams) /\ \A s : ~Carries(p, "data", {s})
  BY DEF Bare, Carries
<1>3. Within(toClient', "adjust", Streams, remoteWindow + written, peer.allows)
  BY <1>1, <1>2, LongerWithin DEF DataInv, InputInv
<1>4. ASSUME NEW s \in Streams
      PROVE  Within(toClient', "data", {s}, Got(s), peer.sent[s]) /\ Covered(toClient', {s}, Got(s), peer.sent[s])
  BY <1>1, <1>2, LongerWithin, LongerCovered DEF DataInv, OutputInv
<1>5. OutputInv'
  BY <1>4 DEF DataFrame, OutputInv, Got
<1>6. InputInv'
  BY <1>3 DEF DataInv, DataFrame, InputInv
<1>7. GrantInv'
  BY DEF DataInv, DataFrame, GrantInv, BufferBounded, Granted, Received, Total
<1> QED
  BY <1>5, <1>6, <1>7 DEF DataInv

\* The end of file and the close of the server are handled.
LEMMA ServerHeard ==
    ASSUME TypeOK, DataInv, DataFrame, UNCHANGED toServer,
           toClient # <<>>, Bare(Head(toClient)), toClient' = Tail(toClient)
    PROVE  DataInv'
<1>1. /\ toClient \in Seq(Packets) /\ remoteWindow + written \in Nat /\ peer.allows \in Nat
      /\ \A s \in Streams : Got(s) \in Nat /\ peer.sent[s] \in Nat
  BY ToClient
<1>2. ~Carries(Head(toClient), "adjust", Streams) /\ \A s : ~Carries(Head(toClient), "data", {s})
  BY DEF Bare, Carries
<1>r. PICK r : r = toClient' /\ Shorter(toClient, r)
  BY <1>1, First
<1>3. Within(r, "adjust", Streams, remoteWindow + written, peer.allows)
  BY <1>1, <1>2, <1>r, ShorterWithin DEF DataInv, InputInv
<1>4. ASSUME NEW s \in Streams
      PROVE  Within(r, "data", {s}, Got(s), peer.sent[s]) /\ Covered(r, {s}, Got(s), peer.sent[s])
  BY <1>1, <1>2, <1>r, ShorterWithin, ShorterCovered DEF DataInv, OutputInv
<1>5. OutputInv'
  BY <1>4, <1>r DEF DataFrame, OutputInv, Got
<1>6. InputInv'
  BY <1>3, <1>r DEF DataInv, DataFrame, InputInv
<1>7. GrantInv'
  BY DEF DataInv, DataFrame, GrantInv, BufferBounded, Granted, Received, Total
<1> QED
  BY <1>5, <1>6, <1>7 DEF DataInv

\* The client writes.
LEMMA DataWriteChunk == TypeOK /\ DataInv /\ WriteChunk => DataInv'
<1> SUFFICES ASSUME TypeOK, DataInv, WriteChunk PROVE DataInv'
  OBVIOUS
<1>1. /\ toServer \in Seq(Packets) /\ Granted \in Nat /\ MaxPacket \in Nat
      /\ {peer.received, peer.granted, written, remoteWindow, left} \subseteq Nat
  BY Numbers, FlowAssumption DEF TypeOK
<1>2. PICK n \in Nat : n = Smallest(Smallest(left, remoteWindow), MaxPacket) /\ n <= remoteWindow
  BY <1>1 DEF Smallest
<1>3. PICK p \in Packets : /\ p = Packet("data", "stdout", written, n)
                           /\ p.type = "data" /\ p.stream = "stdout" /\ p.from = written /\ p.len = n
  <2>1. written \in Nat /\ "stdout" \in Streams
    BY <1>1 DEF Streams
  <2> QED
    BY <2>1, MadePacket
<1>4. Longer(toServer, p, toServer')
  <2>1. WireType
    BY Typed DEF AllTyped
  <2> QED
    BY <1>2, <1>3, <2>1, SentIs DEF WriteChunk
<1>5. /\ remoteWindow' = remoteWindow - n /\ written' = written + n
      /\ UNCHANGED <<localWindow, buffer, read, toClient, peer>>
  BY <1>2, <1>3 DEF WriteChunk
<1>6. Carries(p, "data", Streams) /\ ~Carries(p, "adjust", Streams)
  BY <1>3 DEF Carries, Streams
<1>7. Within(toServer', "data", Streams, peer.received, written + n)
  BY <1>1, <1>3, <1>4, <1>6, LongerWithin DEF DataInv, InputInv
<1>8. Within(toServer', "adjust", Streams, peer.granted, Granted)
  BY <1>1, <1>4, <1>6, LongerWithin DEF DataInv, GrantInv
<1>9. remoteWindow' + written' = remoteWindow + written
  BY <1>1, <1>2, <1>5
<1>10. OutputInv'
  BY <1>5 DEF DataInv, OutputInv, Got
<1>11. InputInv'
  BY <1>5, <1>7, <1>9 DEF DataInv, InputInv
<1>12. GrantInv'
  BY <1>5, <1>8 DEF DataInv, GrantInv, BufferBounded, Granted, Received, Total
<1> QED
  BY <1>10, <1>11, <1>12 DEF DataInv

\* The client reads, and may give the window back.
LEMMA DataReadData ==
    ASSUME TypeOK, DataInv, NEW s \in Streams, NEW n \in 1..buffer[s], ReadData(s, n)
    PROVE  DataInv'
<1>1. /\ toServer \in Seq(Packets) /\ Granted \in Nat /\ localWindow \in Nat /\ WindowDefault \in Nat
      /\ {peer.received, peer.granted, written} \subseteq Nat
  BY Numbers DEF TypeOK
<1>2. /\ buffer[s] \in Nat /\ read[s] \in Nat /\ n \in Nat /\ n <= buffer[s]
      /\ \A t \in Streams : buffer[t] \in Nat /\ read[t] \in Nat
  BY Numbers
<1>3. \A t \in Streams : /\ buffer'[t] = IF t = s THEN buffer[t] - n ELSE buffer[t]
                         /\ read'[t] = IF t = s THEN read[t] + n ELSE read[t]
  BY DEF ReadData, TypeOK
<1>4. \A t \in Streams : Got(t)' = Got(t)
  BY <1>2, <1>3 DEF Got
<1>5. Total(buffer') \in Nat /\ Total(buffer') <= Total(buffer) /\ Total(buffer) \in Nat
  BY <1>2, <1>3 DEF Total, Streams
<1>6. Received' = Received /\ Received \in Nat /\ Granted = localWindow + Received
  <2>1. Total(read') + Total(buffer') = Total(read) + Total(buffer)
    BY <1>2, <1>3 DEF Total, Streams
  <2> QED
    BY <2>1, Numbers DEF Received, Granted
<1>7. UNCHANGED <<remoteWindow, written, toClient, peer>> /\ GrowWindow(buffer')
  BY DEF ReadData
<1>8. OutputInv'
  BY <1>4, <1>7 DEF DataInv, OutputInv
<1>9. CASE UNCHANGED <<localWindow, toServer, unsent>>
  <2>1. InputInv'
    BY <1>7, <1>9 DEF DataInv, InputInv
  <2>2. BufferBounded'
    BY <1>1, <1>5, <1>9 DEF DataInv, GrantInv, BufferBounded
  <2>3. GrantInv'
    BY <1>6, <1>7, <1>9, <2>2 DEF DataInv, GrantInv, Granted
  <2> QED
    BY <1>8, <2>1, <2>3 DEF DataInv
<1>10. CASE ~UNCHANGED <<localWindow, toServer, unsent>>
  <2>1. PICK used \in Nat : used = localWindow + Total(buffer')
    BY <1>1, <1>5
  <2>2. PICK more \in Nat : more = IF WindowDefault > used THEN WindowDefault - used ELSE 0
    BY FlowAssumption
  <2>3. Send(Packet("adjust", "stdout", Granted, more)) /\ localWindow' = localWindow + more
    BY <1>7, <1>10, <2>1, <2>2 DEF GrowWindow
  <2>4. PICK p \in Packets : /\ p = Packet("adjust", "stdout", Granted, more)
                             /\ p.type = "adjust" /\ p.stream = "stdout" /\ p.from = Granted /\ p.len = more
    <3>1. "stdout" \in Streams
      BY DEF Streams
    <3>2. Granted \in Nat
      BY <1>1
    <3> QED
      BY <3>1, <3>2, MadePacket
  <2>5. Longer(toServer, p, toServer')
    BY <2>3, <2>4, SentIs, Typed DEF AllTyped
  <2>6. Carries(p, "adjust", Streams) /\ ~Carries(p, "data", Streams)
    BY <2>4 DEF Carries, Streams
  <2>7. Within(toServer', "adjust", Streams, peer.granted, Granted + more)
    BY <1>1, <2>4, <2>5, <2>6, LongerWithin DEF DataInv, GrantInv
  <2>8. Within(toServer', "data", Streams, peer.received, written)
    BY <1>1, <2>5, <2>6, LongerWithin DEF DataInv, InputInv
  <2>9. Granted' = Granted + more
    BY <1>1, <1>6, <2>3 DEF Granted
  <2>10. BufferBounded'
    <3>1. localWindow + Total(buffer') <= WindowDefault
      BY <1>1, <1>5 DEF DataInv, GrantInv, BufferBounded
    <3>2. PICK b \in Nat : b = Total(buffer')
      BY <1>5
    <3>3. localWindow \in Nat /\ WindowDefault \in Nat
      BY <1>1
    <3>4. used = localWindow + b /\ used <= WindowDefault
      BY <2>1, <3>1, <3>2
    <3>5. (localWindow + more) + b <= WindowDefault
      BY <2>2, <3>3, <3>4
    <3> QED
      BY <2>3, <3>2, <3>5 DEF BufferBounded, Total
  <2>11. InputInv'
    BY <1>7, <2>8 DEF DataInv, InputInv
  <2>12. GrantInv'
    BY <1>7, <2>7, <2>9, <2>10 DEF DataInv, GrantInv
  <2> QED
    BY <1>8, <2>11, <2>12 DEF DataInv
<1> QED
  BY <1>9, <1>10

\* A packet of data comes, and is never dropped.
LEMMA Received1 ==
    ASSUME TypeOK, DataInv, FlowEnd, RcvData, NEW p, p = Head(toClient)
    PROVE  /\ toClient # <<>> /\ p.type = "data" /\ p.len <= localWindow
           /\ localWindow' = localWindow - p.len /\ buffer' = [buffer EXCEPT ![p.stream] = @ + p.len]
<1>1. toClient # <<>> /\ p.type = "data"
  BY DEF RcvData, Handle
<1>2. ~freed
  BY <1>1 DEF FlowEnd
<1>3. p.len <= localWindow /\ localWindow \in Nat /\ p.len \in Nat
  BY <1>1, DataFits, First DEF DataInv, TypeOK
<1> QED
  BY <1>1, <1>2, <1>3 DEF RcvData

LEMMA DataRcvData == TypeOK /\ DataInv /\ FlowEnd /\ RcvData => DataInv'
<1> SUFFICES ASSUME TypeOK, DataInv, FlowEnd, RcvData PROVE DataInv'
  OBVIOUS
<1>1. PICK p : p = Head(toClient)
  OBVIOUS
<1>2. /\ toClient # <<>> /\ p.type = "data" /\ p.len <= localWindow
      /\ localWindow' = localWindow - p.len /\ buffer' = [buffer EXCEPT ![p.stream] = @ + p.len]
  BY <1>1, Received1
<1>3. /\ toClient' = Tail(toClient) /\ UNCHANGED <<remoteWindow, written, read, toServer, peer>>
  BY DEF RcvData, Handle, app
<1>4. /\ toClient \in Seq(Packets) /\ localWindow \in Nat /\ WindowDefault \in Nat
      /\ remoteWindow + written \in Nat /\ peer.allows \in Nat
      /\ \A s \in Streams : Got(s) \in Nat /\ peer.sent[s] \in Nat /\ buffer[s] \in Nat /\ read[s] \in Nat
  BY Numbers DEF TypeOK
<1>5. PICK r : r = toClient' /\ Shorter(toClient, r)
  BY <1>2, <1>3, <1>4, First
<1>6. p \in Packets /\ p.stream \in Streams /\ p.len \in Nat /\ p.from \in Nat
  BY <1>1, <1>2, <1>4, First
<1>7. \A s \in Streams : /\ buffer'[s] = IF s = p.stream THEN buffer[s] + p.len ELSE buffer[s]
                         /\ Carries(p, "data", {s}) <=> s = p.stream
  BY <1>2 DEF TypeOK, Carries
<1>8. \A s \in Streams : Got(s)' = IF s = p.stream THEN Got(s) + p.len ELSE Got(s)
  <2> SUFFICES ASSUME NEW s \in Streams PROVE Got(s)' = IF s = p.stream THEN Got(s) + p.len ELSE Got(s)
    OBVIOUS
  <2>1. read' = read /\ buffer[s] \in Nat /\ read[s] \in Nat
    BY <1>3, <1>4
  <2>2. Got(s) = read[s] + buffer[s] /\ Got(s)' = read[s] + buffer'[s]
    BY <2>1 DEF Got
  <2>3. CASE s = p.stream
    <3>1. buffer'[s] = buffer[s] + p.len /\ p.len \in Nat
      BY <1>6, <1>7, <2>3
    <3> QED
      BY <2>1, <2>2, <2>3, <3>1
  <2>4. CASE s # p.stream
    BY <1>7, <2>2, <2>4
  <2> QED
    BY <2>3, <2>4
<1>9. Total(buffer') = Total(buffer) + p.len
  BY <1>4, <1>6, <1>7 DEF Total, Streams
<1>10. Granted' = Granted /\ localWindow' + Total(buffer') = localWindow + Total(buffer)
  <2>1. Total(buffer) \in Nat /\ Total(read) \in Nat /\ Total(read') = Total(read)
    BY <1>3, Numbers
  <2> QED
    BY <1>2, <1>4, <1>6, <1>9, <2>1 DEF Granted, Received
<1>11. ASSUME NEW s \in Streams
       PROVE  Within(r, "data", {s}, Got(s)', peer.sent[s]) /\ Covered(r, {s}, Got(s)', peer.sent[s])
  <2>1. Within(toClient, "data", {s}, Got(s), peer.sent[s]) /\ Covered(toClient, {s}, Got(s), peer.sent[s])
    BY DEF DataInv, OutputInv
  <2>2. Got(s) \in Nat /\ peer.sent[s] \in Nat
    BY <1>4
  <2>3. /\ Carries(p, "data", {s}) =>
             Within(r, "data", {s}, Got(s) + p.len, peer.sent[s]) /\ Covered(r, {s}, Got(s) + p.len, peer.sent[s])
        /\ ~Carries(p, "data", {s}) =>
             Within(r, "data", {s}, Got(s), peer.sent[s]) /\ Covered(r, {s}, Got(s), peer.sent[s])
    BY <1>1, <1>2, <1>4, <1>5, <2>1, <2>2, ShorterWithin, ShorterCovered
  <2> QED
    BY <1>7, <1>8, <2>3
<1>12. Within(r, "adjust", Streams, remoteWindow + written, peer.allows)
  <2>1. ~Carries(p, "adjust", Streams)
    BY <1>2 DEF Carries
  <2> QED
    BY <1>1, <1>2, <1>4, <1>5, <2>1, ShorterWithin DEF DataInv, InputInv
<1>13. OutputInv'
  BY <1>3, <1>5, <1>11 DEF OutputInv
<1>14. InputInv'
  BY <1>3, <1>5, <1>12 DEF DataInv, InputInv
<1>15. GrantInv'
  BY <1>3, <1>10 DEF DataInv, GrantInv, BufferBounded
<1> QED
  BY <1>13, <1>14, <1>15 DEF DataInv

\* The server's window grows for the client.
LEMMA DataRcvChangeWindow == TypeOK /\ DataInv /\ FlowEnd /\ RcvChangeWindow => DataInv'
<1> SUFFICES ASSUME TypeOK, DataInv, FlowEnd, RcvChangeWindow PROVE DataInv'
  OBVIOUS
<1>1. PICK p : p = Head(toClient)
  OBVIOUS
<1>2. /\ toClient # <<>> /\ p.type = "adjust" /\ remoteWindow' = remoteWindow + p.len
      /\ toClient' = Tail(toClient)
      /\ UNCHANGED <<localWindow, buffer, written, read, toServer, peer>>
  BY <1>1 DEF RcvChangeWindow, Handle, app, FlowEnd
<1>3. /\ toClient \in Seq(Packets) /\ remoteWindow \in Nat /\ written \in Nat /\ peer.allows \in Nat
      /\ \A s \in Streams : Got(s) \in Nat /\ peer.sent[s] \in Nat
  BY Numbers DEF TypeOK
<1>4. PICK r : r = toClient' /\ Shorter(toClient, r)
  BY <1>2, <1>3, First
<1>5. p.stream \in Streams /\ p.len \in Nat
  BY <1>1, <1>2, <1>3, First
<1>6. Carries(p, "adjust", Streams) /\ \A s : ~Carries(p, "data", {s})
  BY <1>2, <1>5 DEF Carries
<1>7. Within(r, "adjust", Streams, (remoteWindow + written) + p.len, peer.allows)
  <2>1. remoteWindow + written \in Nat
    BY <1>3
  <2> QED
    BY <1>1, <1>2, <1>3, <1>4, <1>6, <2>1, ShorterWithin DEF DataInv, InputInv
<1>8. ASSUME NEW s \in Streams
      PROVE  Within(r, "data", {s}, Got(s), peer.sent[s]) /\ Covered(r, {s}, Got(s), peer.sent[s])
  BY <1>1, <1>2, <1>3, <1>4, <1>6, ShorterWithin, ShorterCovered DEF DataInv, OutputInv
<1>9. remoteWindow' + written' = (remoteWindow + written) + p.len
  BY <1>2, <1>3, <1>5
<1>10. OutputInv'
  BY <1>2, <1>4, <1>8 DEF OutputInv, Got
<1>11. InputInv'
  BY <1>2, <1>4, <1>7, <1>9 DEF DataInv, InputInv
<1>12. GrantInv'
  BY <1>2 DEF DataInv, GrantInv, BufferBounded, Granted, Received, Total
<1> QED
  BY <1>10, <1>11, <1>12 DEF DataInv

\* The server gives its window back.
LEMMA DataServerGrows ==
    ASSUME TypeOK, DataInv, NEW n \in 1..PeerWindow, ServerGrows(n)
    PROVE  DataInv'
<1>1. /\ toClient \in Seq(Packets) /\ remoteWindow + written \in Nat /\ peer.allows \in Nat /\ n \in Nat
      /\ \A s \in Streams : Got(s) \in Nat /\ peer.sent[s] \in Nat
  <2>1. PeerWindow \in Nat /\ MaxPacket \in Nat
    BY FlowAssumption
  <2>2. n \in Nat
    BY <2>1
  <2> QED
    BY <2>2, ToClient
<1>2. PICK p \in Packets : /\ p = Packet("adjust", "stdout", peer.allows, n)
                           /\ p.type = "adjust" /\ p.stream = "stdout" /\ p.from = peer.allows /\ p.len = n
  <2>1. "stdout" \in Streams /\ peer.allows \in Nat /\ n \in Nat
    BY <1>1 DEF Streams
  <2> QED
    BY <2>1, MadePacket
<1>3. /\ peer' = [peer EXCEPT !.allows = @ + n] /\ toClient' = toClient \o <<p>>
      /\ UNCHANGED <<localWindow, remoteWindow, buffer, read, written, toServer>>
  BY <1>2 DEF ServerGrows, ServerStep, struct, app
<1>4. /\ peer'.allows = peer.allows + n
      /\ peer'.sent = peer.sent /\ peer'.granted = peer.granted /\ peer'.received = peer.received
  BY <1>3 DEF TypeOK
<1>5. Longer(toClient, p, toClient')
  BY <1>1, <1>3, ConcatIsLonger
<1>6. Carries(p, "adjust", Streams) /\ \A s : ~Carries(p, "data", {s})
  BY <1>2 DEF Carries, Streams
<1>7. Within(toClient', "adjust", Streams, remoteWindow + written, peer.allows + n)
  BY <1>1, <1>2, <1>5, <1>6, LongerWithin DEF DataInv, InputInv
<1>8. ASSUME NEW s \in Streams
      PROVE  Within(toClient', "data", {s}, Got(s), peer.sent[s]) /\ Covered(toClient', {s}, Got(s), peer.sent[s])
  BY <1>1, <1>5, <1>6, LongerWithin, LongerCovered DEF DataInv, OutputInv
<1>9. OutputInv'
  BY <1>3, <1>4, <1>8 DEF OutputInv, Got
<1>10. InputInv'
  BY <1>3, <1>4, <1>7 DEF DataInv, InputInv
<1>11. GrantInv'
  BY <1>3, <1>4 DEF DataInv, GrantInv, BufferBounded, Granted, Received, Total
<1> QED
  BY <1>9, <1>10, <1>11 DEF DataInv

\* The server's program says something.
LEMMA DataServerData ==
    ASSUME TypeOK, DataInv, NEW t \in Streams, NEW n \in 1..MaxPacket, ServerData(t, n)
    PROVE  DataInv'
<1>1. /\ toClient \in Seq(Packets) /\ remoteWindow + written \in Nat /\ peer.allows \in Nat /\ n \in Nat
      /\ \A s \in Streams : Got(s) \in Nat /\ peer.sent[s] \in Nat
  <2>1. PeerWindow \in Nat /\ MaxPacket \in Nat
    BY FlowAssumption
  <2>2. n \in Nat
    BY <2>1
  <2> QED
    BY <2>2, ToClient
<1>2. PICK p \in Packets : /\ p = Packet("data", t, peer.sent[t], n)
                           /\ p.type = "data" /\ p.stream = t /\ p.from = peer.sent[t] /\ p.len = n
  <2>1. peer.sent[t] \in Nat /\ n \in Nat
    BY <1>1
  <2> QED
    BY <2>1, MadePacket
<1>3. /\ peer' = [peer EXCEPT !.sent[t] = @ + n] /\ toClient' = toClient \o <<p>>
      /\ UNCHANGED <<localWindow, remoteWindow, buffer, read, written, toServer>>
      /\ Total(peer.sent) + n <= peer.granted
  BY <1>2 DEF ServerData, ServerStep, struct, app
<1>4. /\ \A s \in Streams : peer'.sent[s] = IF s = t THEN peer.sent[s] + n ELSE peer.sent[s]
      /\ peer'.allows = peer.allows /\ peer'.granted = peer.granted /\ peer'.received = peer.received
  BY <1>3 DEF TypeOK
<1>5. Longer(toClient, p, toClient')
  BY <1>1, <1>3, ConcatIsLonger
<1>6. ~Carries(p, "adjust", Streams) /\ \A s : Carries(p, "data", {s}) <=> s = t
  BY <1>2 DEF Carries, Streams
<1>7. Within(toClient', "adjust", Streams, remoteWindow + written, peer.allows)
  BY <1>1, <1>5, <1>6, LongerWithin DEF DataInv, InputInv
<1>8. ASSUME NEW s \in Streams
      PROVE  Within(toClient', "data", {s}, Got(s), peer'.sent[s]) /\ Covered(toClient', {s}, Got(s), peer'.sent[s])
  <2>1. Within(toClient, "data", {s}, Got(s), peer.sent[s]) /\ Covered(toClient, {s}, Got(s), peer.sent[s])
    BY DEF DataInv, OutputInv
  <2>2. CASE s = t
    <3>1. Carries(p, "data", {s}) /\ p.from = peer.sent[s] /\ peer'.sent[s] = peer.sent[s] + p.len
      BY <1>2, <1>4, <1>6, <2>2
    <3> QED
      BY <1>1, <1>5, <2>1, <3>1, LongerWithin, LongerCovered
  <2>3. CASE s # t
    <3>1. ~Carries(p, "data", {s}) /\ peer'.sent[s] = peer.sent[s]
      BY <1>4, <1>6, <2>3
    <3> QED
      BY <1>1, <1>5, <2>1, <3>1, LongerWithin, LongerCovered
  <2> QED
    BY <2>2, <2>3
<1>9. OutputInv'
  BY <1>3, <1>8 DEF OutputInv, Got
<1>10. InputInv'
  BY <1>3, <1>4, <1>7 DEF DataInv, InputInv
<1>11. Total(peer'.sent) <= peer'.granted
  <2>1. Total(peer'.sent) = Total(peer.sent) + n
    BY <1>1, <1>4 DEF Total, Streams
  <2> QED
    BY <1>3, <1>4, <2>1
<1>12. GrantInv'
  BY <1>3, <1>4, <1>11 DEF DataInv, GrantInv, BufferBounded, Granted, Received, Total
<1> QED
  BY <1>9, <1>10, <1>12 DEF DataInv

\* What the server makes of a packet.
LEMMA ServerTakes ==
    ASSUME TypeOK, ServerReceives, NEW p, p = Head(toServer)
    PROVE  /\ toServer # <<>> /\ toServer' = Tail(toServer) /\ toClient' = toClient
           /\ UNCHANGED <<struct, call, app, failed>>
           /\ peer'.sent = peer.sent /\ peer'.allows = peer.allows /\ peer'.eof = peer.eof /\ peer'.closed = peer.closed
           /\ peer'.received = IF p.type = "data" THEN peer.received + p.len ELSE peer.received
           /\ peer'.granted = IF p.type = "adjust" THEN peer.granted + p.len ELSE peer.granted
           /\ peer'.gotEof <=> peer.gotEof \/ p.type = "eof"
           /\ peer'.gotClose <=> peer.gotClose \/ p.type = "close"
<1>1. toServer # <<>> /\ toServer' = Tail(toServer)
  BY DEF ServerReceives, TypeOK
<1>2. toClient' = toClient /\ UNCHANGED <<struct, call, app, failed>>
  BY ConcatNothing DEF ServerReceives, ServerStep, TypeOK
<1>3. peer' = [peer EXCEPT !.received = IF p.type = "data" THEN @ + p.len ELSE @,
                           !.granted = IF p.type = "adjust" THEN @ + p.len ELSE @,
                           !.gotEof = @ \/ p.type = "eof",
                           !.gotClose = @ \/ p.type = "close"]
  BY DEF ServerReceives, ServerStep
<1>4. /\ peer'.sent = peer.sent /\ peer'.allows = peer.allows /\ peer'.eof = peer.eof /\ peer'.closed = peer.closed
      /\ peer'.received = IF p.type = "data" THEN peer.received + p.len ELSE peer.received
      /\ peer'.granted = IF p.type = "adjust" THEN peer.granted + p.len ELSE peer.granted
  BY <1>3 DEF TypeOK
<1>5. peer'.gotEof = (peer.gotEof \/ p.type = "eof")
  BY <1>3 DEF TypeOK
<1>6. peer'.gotClose = (peer.gotClose \/ p.type = "close")
  BY <1>3 DEF TypeOK
<1>7. (peer'.gotEof <=> peer.gotEof \/ p.type = "eof") /\ (peer'.gotClose <=> peer.gotClose \/ p.type = "close")
  BY <1>5, <1>6
<1> QED
  BY <1>1, <1>2, <1>4, <1>7

LEMMA DataServerReceives == TypeOK /\ DataInv /\ ServerReceives => DataInv'
<1> SUFFICES ASSUME TypeOK, DataInv, ServerReceives PROVE DataInv'
  OBVIOUS
<1>1. PICK p : p = Head(toServer)
  OBVIOUS
<1>2. /\ toServer # <<>> /\ toServer' = Tail(toServer) /\ toClient' = toClient
      /\ UNCHANGED <<localWindow, remoteWindow, buffer, read, written>>
      /\ peer'.sent = peer.sent /\ peer'.allows = peer.allows
      /\ peer'.received = IF p.type = "data" THEN peer.received + p.len ELSE peer.received
      /\ peer'.granted = IF p.type = "adjust" THEN peer.granted + p.len ELSE peer.granted
  BY <1>1, ServerTakes DEF struct, app
<1>3. /\ toServer \in Seq(Packets) /\ Granted \in Nat
      /\ peer.received \in Nat /\ peer.granted \in Nat /\ written \in Nat /\ Total(peer.sent) \in Nat
  BY Numbers DEF TypeOK
<1>4. PICK r : r = toServer' /\ Shorter(toServer, r)
  BY <1>2, <1>3, First
<1>5. p.stream \in Streams /\ p.len \in Nat
  BY <1>1, <1>2, <1>3, First
<1>6. (Carries(p, "data", Streams) <=> p.type = "data") /\ (Carries(p, "adjust", Streams) <=> p.type = "adjust")
  BY <1>5 DEF Carries
<1>7. Within(r, "data", Streams, peer'.received, written)
  <2>1. Within(toServer, "data", Streams, peer.received, written)
    BY DEF DataInv, InputInv
  <2> QED
    BY <1>1, <1>2, <1>3, <1>4, <1>6, <2>1, ShorterWithin
<1>8. Within(r, "adjust", Streams, peer'.granted, Granted)
  <2>1. Within(toServer, "adjust", Streams, peer.granted, Granted)
    BY DEF DataInv, GrantInv
  <2> QED
    BY <1>1, <1>2, <1>3, <1>4, <1>6, <2>1, ShorterWithin
<1>9. Total(peer'.sent) <= peer'.granted
  <2>1. peer.granted <= peer'.granted
    BY <1>2, <1>3, <1>5
  <2>2. Total(peer.sent) <= peer.granted /\ peer'.granted \in Nat
    BY <1>2, <1>3, <1>5 DEF DataInv, GrantInv
  <2> QED
    BY <1>2, <1>3, <2>1, <2>2
<1>10. OutputInv'
  BY <1>2 DEF DataInv, OutputInv, Got
<1>11. InputInv'
  BY <1>2, <1>4, <1>7 DEF DataInv, InputInv
<1>12. GrantInv'
  BY <1>2, <1>4, <1>8, <1>9 DEF DataInv, GrantInv, BufferBounded, Granted, Received, Total
<1> QED
  BY <1>10, <1>11, <1>12 DEF DataInv

\* Which steps take no part in any of this.
Quiet == UNCHANGED <<localWindow, remoteWindow, buffer, read, written, toServer, toClient, peer>>

LEMMA QuietSteps ==
    \/ CallFree \/ CallFreeCloses \/ Flush \/ Fail \/ (\E n : CallWrite(n)) \/ (\E s : CallRead(s))
    \/ (\E who : CallClose(who)) \/ (\E s : ReadRefused(s) \/ ReadEof(s))
    \/ KexWaited \/ AwaitWindow \/ WindowWaited \/ WriteDone \/ WaitOver
    \/ EofFlushed \/ CloseFlushed \/ FinishFree \/ ReturnFailed
    => Quiet
<1>1. CallFree \/ CallFreeCloses \/ Flush \/ Fail \/ (\E n : CallWrite(n)) \/ (\E s : CallRead(s))
      \/ (\E who : CallClose(who)) \/ (\E s : ReadRefused(s) \/ ReadEof(s)) => Quiet
  BY DEF Quiet, CallFree, CallFreeCloses, Flush, Fail, CallWrite, CallRead, CallClose, ReadRefused, ReadEof, struct, app
<1>2. KexWaited \/ AwaitWindow \/ WindowWaited \/ WriteDone \/ WaitOver
      \/ EofFlushed \/ CloseFlushed \/ FinishFree \/ ReturnFailed => Quiet
  BY DEF Quiet, KexWaited, AwaitWindow, WindowWaited, WriteDone, WaitOver, EofFlushed, CloseFlushed, FinishFree,
         ReturnFailed, struct, app
<1> QED
  BY <1>1, <1>2

LEMMA DataNext == TypeOK /\ DataInv /\ FlowEnd /\ [Next]_vars => DataInv'
<1> SUFFICES ASSUME TypeOK, DataInv, FlowEnd, [Next]_vars PROVE DataInv'
  OBVIOUS
<1>1. CASE Quiet
  BY <1>1, DataStays DEF Quiet, DataFrame
<1>2. ASSUME NEW who, SendEof(who) PROVE DataInv'
  <2>1. Packet("eof", "stdout", 0, 0) \in Packets /\ Bare(Packet("eof", "stdout", 0, 0))
    BY MadePacket DEF Bare, Streams
  <2>2. Longer(toServer, Packet("eof", "stdout", 0, 0), toServer')
    BY <1>2, <2>1, SentIs, Typed DEF SendEof, AllTyped
  <2> QED
    BY <1>2, <2>1, <2>2, ClientSpeaks DEF SendEof, DataFrame, app
<1>3. CASE SendClose
  <2>1. Packet("close", "stdout", 0, 0) \in Packets /\ Bare(Packet("close", "stdout", 0, 0))
    BY MadePacket DEF Bare, Streams
  <2>2. Longer(toServer, Packet("close", "stdout", 0, 0), toServer')
    BY <1>3, <2>1, SentIs, Typed DEF SendClose, AllTyped
  <2> QED
    BY <1>3, <2>1, <2>2, ClientSpeaks DEF SendClose, DataFrame, app
<1>4. CASE RcvEof \/ RcvClose
  <2>1. toClient # <<>> /\ Bare(Head(toClient)) /\ toClient' = Tail(toClient)
    BY <1>4 DEF RcvEof, RcvClose, Handle, Bare
  <2>2. DataFrame /\ UNCHANGED toServer
    BY <1>4 DEF RcvEof, RcvClose, Handle, DataFrame, app
  <2> QED
    BY <2>1, <2>2, ServerHeard
<1>5. CASE ServerEof
  <2>1. Packet("eof", "stdout", 0, 0) \in Packets /\ Bare(Packet("eof", "stdout", 0, 0))
    BY MadePacket DEF Bare, Streams
  <2>2. Longer(toClient, Packet("eof", "stdout", 0, 0), toClient')
    BY <1>5, <2>1, ConcatIsLonger DEF ServerEof, ServerStep, TypeOK
  <2>3. DataFrame /\ UNCHANGED toServer
    BY <1>5 DEF ServerEof, ServerStep, DataFrame, struct, app, TypeOK
  <2> QED
    BY <2>1, <2>2, <2>3, ServerSpeaks
<1>6. CASE ServerClose
  <2>1. Packet("close", "stdout", 0, 0) \in Packets /\ Bare(Packet("close", "stdout", 0, 0))
    BY MadePacket DEF Bare, Streams
  <2>2. Longer(toClient, Packet("close", "stdout", 0, 0), toClient')
    BY <1>6, <2>1, ConcatIsLonger DEF ServerClose, ServerStep, TypeOK
  <2>3. DataFrame /\ UNCHANGED toServer
    BY <1>6 DEF ServerClose, ServerStep, DataFrame, struct, app, TypeOK
  <2> QED
    BY <2>1, <2>2, <2>3, ServerSpeaks
<1>7. CASE UNCHANGED vars
  BY <1>1, <1>7 DEF vars, struct, app, Quiet
<1>8. CASE Calls \/ Flush \/ Fail
  BY <1>1, <1>2, <1>8, QuietSteps DEF Calls
<1>9. CASE Reads
  BY <1>1, <1>9, QuietSteps, DataReadData DEF Reads
<1>10. CASE Continues
  BY <1>1, <1>3, <1>10, QuietSteps, DataWriteChunk DEF Continues
<1>11. CASE Handles
  BY <1>4, <1>11, DataRcvData, DataRcvChangeWindow DEF Handles
<1>12. CASE Server
  BY <1>5, <1>6, <1>12, DataServerReceives, DataServerGrows, DataServerData DEF Server
<1> QED
  BY <1>7, <1>8, <1>9, <1>10, <1>11, <1>12 DEF Next

-----------------------------------------------------------------------------
(***************************************************************************)
(* The end of file and the close of the server.                            *)
(***************************************************************************)

\* Flags and marks that are never taken back.
LEMMA ServerEndStays ==
    ASSUME ServerEndInv, UNCHANGED <<toClient, remoteEof>>, peer'.eof = peer.eof, peer'.closed = peer.closed,
           "closedRemote" \in flags' => "closedRemote" \in flags
    PROVE  ServerEndInv'
BY DEF ServerEndInv, EndsLast, Has

LEMMA EndHandles == TypeOK /\ ServerEndInv /\ Handles => ServerEndInv'
<1> SUFFICES ASSUME TypeOK, ServerEndInv, Handles PROVE ServerEndInv'
  OBVIOUS
<1>1. toClient # <<>> /\ toClient' = Tail(toClient) /\ peer' = peer
  BY DEF Handles, RcvData, RcvChangeWindow, RcvEof, RcvClose, Handle
<1>2. toClient \in Seq(Packets)
  BY DEF TypeOK
<1>3. PICK r : r = toClient' /\ Shorter(toClient, r)
  BY <1>1, <1>2, First
<1>4. /\ EndsLast(r)
      /\ \A type : Has(r, type) => Has(toClient, type)
      /\ Head(toClient).type = "close" => r = <<>>
      /\ Head(toClient).type = "eof" => ~Has(r, "data")
      /\ Has(toClient, Head(toClient).type)
  BY <1>1, <1>2, <1>3, ShorterEnds DEF ServerEndInv
<1>5. ~("closedRemote" \in flags)
  BY <1>1 DEF ServerEndInv
<1>6. CASE RcvData \/ RcvChangeWindow
  <2>1. UNCHANGED <<remoteEof, flags>>
    BY <1>6 DEF RcvData, RcvChangeWindow
  <2> QED
    BY <1>1, <1>3, <1>4, <1>5, <2>1 DEF ServerEndInv
<1>7. CASE RcvEof
  <2>1. Head(toClient).type = "eof" /\ flags' = flags
    BY <1>7 DEF RcvEof, Handle
  <2> QED
    BY <1>1, <1>3, <1>4, <1>5, <2>1 DEF ServerEndInv
<1>8. CASE RcvClose
  <2>1. Head(toClient).type = "close"
    BY <1>8 DEF RcvClose, Handle
  <2>2. r = <<>> /\ ~Has(r, "data") /\ peer.closed
    BY <1>4, <2>1, PacketAt DEF Has, ServerEndInv
  <2> QED
    BY <1>1, <1>3, <1>4, <2>2 DEF ServerEndInv
<1> QED
  BY <1>6, <1>7, <1>8 DEF Handles

LEMMA EndServer == TypeOK /\ ServerEndInv /\ Server => ServerEndInv'
<1> SUFFICES ASSUME TypeOK, ServerEndInv, Server PROVE ServerEndInv'
  OBVIOUS
<1>1. UNCHANGED <<flags, remoteEof>>
  BY DEF Server, ServerEof, ServerClose, ServerReceives, ServerGrows, ServerData, ServerStep, struct
<1>2. toClient \in Seq(Packets)
  BY DEF TypeOK
<1>3. ASSUME NEW p \in Packets, toClient' = toClient \o <<p>>, ~peer.closed, p.type \in {"eof", "data"} => ~peer.eof,
             peer'.eof = (IF p.type = "eof" THEN TRUE ELSE peer.eof),
             peer'.closed = (IF p.type = "close" THEN TRUE ELSE peer.closed)
      PROVE  ServerEndInv'
  <2>1. Longer(toClient, p, toClient')
    BY <1>2, <1>3, ConcatIsLonger
  <2>2. ~Has(toClient, "close") /\ ~("closedRemote" \in flags) /\ (p.type \in {"eof", "data"} => ~Has(toClient, "eof"))
    BY <1>3 DEF ServerEndInv
  <2>3. EndsLast(toClient') /\ \A type : Has(toClient', type) <=> Has(toClient, type) \/ p.type = type
    BY <1>2, <2>1, <2>2, LongerEnds DEF ServerEndInv
  <2>4. remoteEof => peer.eof /\ ~Has(toClient', "data")
    BY <1>3, <2>3 DEF ServerEndInv
  <2> QED
    BY <1>1, <1>3, <2>2, <2>3, <2>4 DEF ServerEndInv
<1>4. CASE ServerEof
  <2>1. /\ toClient' = toClient \o <<Packet("eof", "stdout", 0, 0)>> /\ ~peer.eof /\ ~peer.closed
        /\ peer' = [peer EXCEPT !.eof = TRUE]
    BY <1>4 DEF ServerEof, ServerStep
  <2>2. Packet("eof", "stdout", 0, 0) \in Packets /\ Packet("eof", "stdout", 0, 0).type = "eof"
    BY MadePacket DEF Streams
  <2>3. peer'.eof = TRUE /\ peer'.closed = peer.closed
    BY <2>1 DEF TypeOK
  <2> QED
    BY <1>3, <2>1, <2>2, <2>3
<1>5. CASE ServerClose
  <2>1. /\ toClient' = toClient \o <<Packet("close", "stdout", 0, 0)>> /\ ~peer.closed
        /\ peer' = [peer EXCEPT !.closed = TRUE]
    BY <1>5 DEF ServerClose, ServerStep
  <2>2. Packet("close", "stdout", 0, 0) \in Packets /\ Packet("close", "stdout", 0, 0).type = "close"
    BY MadePacket DEF Streams
  <2>3. peer'.eof = peer.eof /\ peer'.closed = TRUE
    BY <2>1 DEF TypeOK
  <2> QED
    BY <1>3, <2>1, <2>2, <2>3
<1>6. ASSUME NEW n \in 1..PeerWindow, ServerGrows(n) PROVE ServerEndInv'
  <2>1. /\ toClient' = toClient \o <<Packet("adjust", "stdout", peer.allows, n)>> /\ ~peer.closed
        /\ peer' = [peer EXCEPT !.allows = @ + n]
    BY <1>6 DEF ServerGrows, ServerStep
  <2>2. /\ Packet("adjust", "stdout", peer.allows, n) \in Packets
        /\ Packet("adjust", "stdout", peer.allows, n).type = "adjust"
    <3>1. peer.allows \in Nat /\ n \in Nat
      BY FlowAssumption DEF TypeOK
    <3> QED
      BY <3>1, MadePacket DEF Streams
  <2>3. peer'.eof = peer.eof /\ peer'.closed = peer.closed
    BY <2>1 DEF TypeOK
  <2> QED
    BY <1>3, <2>1, <2>2, <2>3
<1>7. ASSUME NEW s \in Streams, NEW n \in 1..MaxPacket, ServerData(s, n) PROVE ServerEndInv'
  <2>1. /\ toClient' = toClient \o <<Packet("data", s, peer.sent[s], n)>> /\ ~peer.eof /\ ~peer.closed
        /\ peer' = [peer EXCEPT !.sent[s] = @ + n]
    BY <1>7 DEF ServerData, ServerStep
  <2>2. /\ Packet("data", s, peer.sent[s], n) \in Packets
        /\ Packet("data", s, peer.sent[s], n).type = "data"
    <3>1. peer.sent[s] \in Nat /\ n \in Nat
      BY FlowAssumption DEF TypeOK
    <3> QED
      BY <3>1, MadePacket
  <2>3. peer'.eof = peer.eof /\ peer'.closed = peer.closed
    BY <2>1 DEF TypeOK
  <2> QED
    BY <1>3, <2>1, <2>2, <2>3
<1>8. CASE ServerReceives
  <2>1. toClient' = toClient /\ peer'.eof = peer.eof /\ peer'.closed = peer.closed
    BY <1>8, ServerTakes
  <2> QED
    BY <1>1, <2>1, ServerEndStays
<1> QED
  BY <1>4, <1>5, <1>6, <1>7, <1>8 DEF Server

LEMMA ServerEndNext == TypeOK /\ ServerEndInv /\ [Next]_vars => ServerEndInv'
<1> SUFFICES ASSUME TypeOK, ServerEndInv, [Next]_vars, ~Handles, ~Server PROVE ServerEndInv'
  BY EndHandles, EndServer
<1>1. CASE Calls \/ Flush \/ Fail \/ UNCHANGED vars
  <2>1. UNCHANGED <<toClient, remoteEof, peer, flags>>
    BY <1>1 DEF Calls, Flush, Fail, CallWrite, CallRead, SendEof, CallClose, CallFree, CallFreeCloses, vars, struct
  <2> QED
    BY <2>1, ServerEndStays
<1>2. CASE Reads
  <2>1. UNCHANGED <<toClient, remoteEof, peer, flags>>
    BY <1>2 DEF Reads, ReadRefused, ReadEof, ReadData, struct
  <2> QED
    BY <2>1, ServerEndStays
<1>3. CASE Continues
  <2>1. UNCHANGED <<toClient, remoteEof, peer>> /\ ("closedRemote" \in flags' => "closedRemote" \in flags)
    <3>1. CASE KexWaited \/ WriteChunk \/ AwaitWindow \/ WindowWaited \/ WriteDone \/ WaitOver
      BY <3>1 DEF KexWaited, WriteChunk, AwaitWindow, WindowWaited, WriteDone, WaitOver, struct
    <3>2. CASE EofFlushed \/ SendClose \/ CloseFlushed \/ FinishFree \/ ReturnFailed
      BY <3>2 DEF EofFlushed, SendClose, CloseFlushed, FinishFree, ReturnFailed, struct
    <3> QED
      BY <1>3, <3>1, <3>2 DEF Continues
  <2> QED
    BY <2>1, ServerEndStays
<1> QED
  BY <1>1, <1>2, <1>3 DEF Next

LEMMA ClosedNext == TypeOK /\ ServerEndInv /\ ClosedInv /\ [Next]_vars => ClosedInv'
<1> SUFFICES ASSUME TypeOK, ServerEndInv, ClosedInv, [Next]_vars PROVE ClosedInv'
  OBVIOUS
<1>0. state \in {"open", "closed"} /\ \A s \in Streams : buffer[s] \in Nat
  BY DEF TypeOK
<1>1. ASSUME UNCHANGED <<freed, delayedClose, flags, state, buffer, ended, remoteEof>> PROVE ClosedInv'
  BY <1>1 DEF ClosedInv, Unread, Total
<1>2. CASE Calls \/ Flush \/ Fail \/ UNCHANGED vars
  <2>1. UNCHANGED <<freed, delayedClose, flags, state, buffer, ended, remoteEof>>
    BY <1>2 DEF Calls, Flush, Fail, CallWrite, CallRead, SendEof, CallClose, CallFree, CallFreeCloses, vars, struct, app
  <2> QED
    BY <1>1, <2>1
<1>3. ASSUME NEW s \in Streams, ReadRefused(s) PROVE ClosedInv'
  BY <1>1, <1>3 DEF ReadRefused, struct, app
<1>4. ASSUME NEW s \in Streams, ReadEof(s) PROVE ClosedInv'
  <2>1. UNCHANGED <<freed, delayedClose, flags, state, buffer, remoteEof>>
    BY <1>4 DEF ReadEof, struct
  <2>2. ended' = ended \cup {s} /\ remoteEof /\ buffer[s] = 0
    BY <1>4 DEF ReadEof
  <2> QED
    BY <2>1, <2>2 DEF ClosedInv, Unread, Total
<1>5. ASSUME NEW s \in Streams, NEW n \in 1..buffer[s], ReadData(s, n) PROVE ClosedInv'
  <2>1. /\ UNCHANGED <<flags, delayedClose, remoteEof, freed, ended>> /\ state # "closed"
        /\ state' = IF delayedClose /\ Total(buffer') = 0 THEN "closed" ELSE state
    BY <1>5 DEF ReadData
  <2>2. \A t \in ended : t # s /\ t \in Streams
    BY <1>0 DEF ClosedInv, TypeOK
  <2>3. \A t \in Streams : t # s => buffer'[t] = buffer[t]
    BY <1>5 DEF ReadData, TypeOK
  <2>4. state' = "closed" => "closedRemote" \in flags' /\ ~Unread'
    BY <2>1 DEF ClosedInv, Unread
  <2> QED
    BY <2>1, <2>2, <2>3, <2>4 DEF ClosedInv
<1>6. CASE Continues
  <2>1. CASE KexWaited \/ WriteChunk \/ AwaitWindow \/ WindowWaited \/ WriteDone \/ WaitOver
             \/ EofFlushed \/ CloseFlushed \/ ReturnFailed
    BY <1>1, <2>1 DEF KexWaited, WriteChunk, AwaitWindow, WindowWaited, WriteDone, WaitOver, EofFlushed, CloseFlushed,
                      ReturnFailed, struct, app
  <2>2. CASE SendClose
    <3>1. /\ UNCHANGED <<freed, delayedClose, buffer, ended, remoteEof>> /\ flags' = flags \cup {"closedLocal"}
      BY <2>2 DEF SendClose, app
    <3> QED
      BY <3>1 DEF ClosedInv
  <2>3. CASE FinishFree
    <3>1. /\ UNCHANGED <<state, delayedClose, buffer, ended, remoteEof>> /\ flags' = flags \cup {"freedLocal"}
          /\ freed' => "closedRemote" \in flags
      BY <2>3 DEF FinishFree, app
    <3> QED
      BY <3>1 DEF ClosedInv, Unread, Total
  <2> QED
    BY <1>6, <2>1, <2>2, <2>3 DEF Continues
<1>7. CASE RcvData
  <2>1. toClient # <<>> /\ Head(toClient).type = "data"
    BY <1>7 DEF RcvData, Handle
  <2>2. Has(toClient, "data")
    BY <2>1, ShorterEnds, TailIsShorter DEF TypeOK
  <2>3. ~remoteEof /\ "closedRemote" \notin flags
    BY <2>1, <2>2 DEF ServerEndInv
  <2>4. UNCHANGED <<freed, delayedClose, flags, state, ended, remoteEof>>
    BY <1>7 DEF RcvData, Handle, app
  <2> QED
    BY <2>3, <2>4 DEF ClosedInv
<1>8. CASE RcvChangeWindow
  BY <1>1, <1>8 DEF RcvChangeWindow, Handle, app
<1>9. CASE RcvEof
  BY <1>9 DEF RcvEof, Handle, app, ClosedInv, Unread, Total
<1>10. CASE RcvClose
  <2>1. buffer' = buffer /\ ended' = ended /\ (remoteEof => remoteEof')
    BY <1>10 DEF RcvClose, Handle, app
  <2>2. CASE UNCHANGED <<state, flags, delayedClose, remoteEof, freed>>
    BY <1>1, <2>1, <2>2
  <2>3. CASE ~UNCHANGED <<state, flags, delayedClose, remoteEof, freed>>
    <3>1. /\ flags' = flags \cup {"closedRemote"} /\ remoteEof' = TRUE
          /\ state' = "closed" => state = "closed" \/ ~Unread
      BY <1>10, <2>3 DEF RcvClose
    <3>2. state' = "closed" => "closedLocal" \in flags \/ ~Unread
      BY <3>1 DEF ClosedInv
    <3> QED
      BY <2>1, <3>1, <3>2 DEF ClosedInv, Unread, Total
  <2> QED
    BY <2>2, <2>3
<1>11. CASE Server
  BY <1>1, <1>11 DEF Server, ServerEof, ServerClose, ServerReceives, ServerGrows, ServerData, ServerStep, struct, app
<1> QED
  BY <1>2, <1>3, <1>4, <1>5, <1>6, <1>7, <1>8, <1>9, <1>10, <1>11 DEF Next, Reads, Handles

-----------------------------------------------------------------------------
(***************************************************************************)
(* The end of file and the close of the client.                            *)
(***************************************************************************)

\* Which call runs, and what it may still send.
LEMMA CallNext == TypeOK /\ ClosedInv /\ CallInv /\ [Next]_vars => CallInv'
<1> SUFFICES ASSUME TypeOK, ClosedInv, CallInv, [Next]_vars PROVE CallInv'
  OBVIOUS
<1>1. ASSUME UNCHANGED <<call, localEof>>, state = "closed" => state' = "closed", failed => failed',
             "closedLocal" \in flags' <=> "closedLocal" \in flags, Gone' <=> Gone
      PROVE  CallInv'
  BY <1>1 DEF CallInv, call
<1>2. ASSUME UNCHANGED <<localEof, state, failed, flags>>, Return PROVE CallInv'
  BY <1>2 DEF CallInv, Return, Gone
<1>3. CASE Flush \/ Fail \/ Handles \/ Server \/ UNCHANGED vars
  <2>1. CASE Flush \/ Fail \/ UNCHANGED vars
    BY <1>1, <2>1 DEF Flush, Fail, vars, struct, Gone
  <2>2. CASE Server
    BY <1>1, <2>2 DEF Server, ServerEof, ServerClose, ServerReceives, ServerGrows, ServerData, ServerStep, struct, Gone
  <2>3. CASE Handles
    <3>1. UNCHANGED <<call, localEof, failed>> /\ (state = "closed" => state' = "closed")
      BY <2>3 DEF Handles, RcvData, RcvChangeWindow, RcvEof, RcvClose, Handle
    <3>2. flags' = flags \/ flags' = flags \cup {"closedRemote"}
      BY <2>3 DEF Handles, RcvData, RcvChangeWindow, RcvEof, RcvClose
    <3> QED
      BY <1>1, <3>1, <3>2 DEF Gone
  <2> QED
    BY <1>3, <2>1, <2>2, <2>3
<1>4. CASE Reads
  <2>1. ASSUME NEW s \in Streams, ReadRefused(s) \/ ReadEof(s) PROVE CallInv'
    BY <1>2, <2>1 DEF ReadRefused, ReadEof, struct
  <2>2. ASSUME NEW s \in Streams, NEW n \in 1..buffer[s], ReadData(s, n) PROVE CallInv'
    <3>1. UNCHANGED <<localEof, failed, flags>> /\ Return /\ state # "closed"
      BY <2>2 DEF ReadData
    <3> QED
      BY <3>1 DEF CallInv, Return, Gone
  <2> QED
    BY <1>4, <2>1, <2>2 DEF Reads
<1>5. ASSUME NEW n, CallWrite(n) PROVE CallInv'
  BY <1>5 DEF CallWrite, CallInv, struct, Gone
<1>6. ASSUME NEW s, CallRead(s) PROVE CallInv'
  BY <1>6 DEF CallRead, CallInv, struct, Gone
<1>7. ASSUME NEW who \in {"eof", "close"}, SendEof(who) PROVE CallInv'
  <2>1. /\ UNCHANGED <<state, flags, failed>> /\ ~localEof /\ "closedLocal" \notin flags /\ ~Gone
        /\ \/ pc' = "eof" /\ caller' = who /\ ~localEof'
           \/ localEof' = TRUE /\ Return
           \/ localEof' = TRUE /\ pc' = "sendClose" /\ caller' = who
    BY <1>7 DEF SendEof, CallInv
  <2> QED
    BY <1>7, <2>1 DEF CallInv, Return, Gone
<1>8. ASSUME NEW who, CallClose(who) PROVE CallInv'
  BY <1>8 DEF CallClose, CallInv, struct, Gone
<1>9. CASE CallFree
  <2>1. UNCHANGED <<state, flags, failed, localEof, caller>> /\ pc' = "freeing" /\ ~FreeSendsClose /\ pc = "idle" /\ ~Gone
    BY <1>9 DEF CallFree, To, struct
  <2>2. failed \/ "closedLocal" \in flags
    BY <2>1 DEF FreeSendsClose, TypeOK, ClosedInv
  <2> QED
    BY <2>1, <2>2 DEF CallInv, Gone
<1>10. CASE KexWaited \/ WriteChunk \/ AwaitWindow \/ WindowWaited \/ WriteDone \/ WaitOver
  <2>1. /\ UNCHANGED <<localEof, state, failed, flags>>
        /\ Return \/ (/\ pc \in {"write", "kex", "window"} /\ pc' \in {"write", "window", "writeFlush"}
                      /\ caller' = caller)
    BY <1>10 DEF KexWaited, WriteChunk, AwaitWindow, WindowWaited, WriteDone, WaitOver, To, struct
  <2>2. CASE Return
    BY <1>2, <2>1, <2>2
  <2>3. CASE ~Return
    BY <2>1, <2>3 DEF CallInv, Gone
  <2> QED
    BY <2>2, <2>3
<1>11. CASE EofFlushed
  <2>1. UNCHANGED <<state, failed, flags>> /\ pc = "eof" /\ localEof' = TRUE /\ caller # "free"
    BY <1>11 DEF EofFlushed, CallInv
  <2>2. Return \/ To("sendClose")
    BY <1>11, <2>1 DEF EofFlushed, AfterClose
  <2> QED
    BY <2>1, <2>2 DEF CallInv, Return, To, Gone
<1>12. CASE SendClose
  <2>1. /\ state' = "closed" /\ flags' = flags \cup {"closedLocal"} /\ localEof' = localEof /\ failed' = failed
        /\ pc = "sendClose" /\ (AfterClose \/ To("closeFlush"))
    BY <1>12 DEF SendClose
  <2> QED
    BY <2>1 DEF CallInv, AfterClose, Return, To, Gone
<1>13. CASE CloseFlushed
  BY <1>13 DEF CloseFlushed, CallInv, AfterClose, Return, To, struct, Gone
<1>14. CASE ReturnFailed
  BY <1>14 DEF ReturnFailed, CallInv, AfterClose, Return, To, struct, Gone
<1>15. CASE FinishFree
  BY <1>15 DEF FinishFree, CallInv, Return, Gone
<1>16. CASE Calls
  BY <1>5, <1>6, <1>7, <1>8, <1>9, <1>16 DEF Calls, CallFreeCloses
<1>17. CASE Continues
  BY <1>10, <1>11, <1>12, <1>13, <1>14, <1>15, <1>17 DEF Continues
<1> QED
  BY <1>3, <1>4, <1>16, <1>17 DEF Next

\* The marks that the client keeps of what it sent.
EofMark == localEof \/ pc = "eof" \/ failed
Marks == (EofMark => EofMark') /\ ("closedLocal" \in flags => "closedLocal" \in flags')

LEMMA MarksStay == [Next]_vars => Marks
<1> SUFFICES ASSUME [Next]_vars PROVE Marks
  OBVIOUS
<1>1. CASE Calls \/ Flush \/ Fail \/ UNCHANGED vars
  <2>1. ASSUME NEW who, SendEof(who) PROVE Marks
    BY <2>1 DEF SendEof, Marks, EofMark
  <2>2. CASE Flush \/ Fail \/ UNCHANGED vars
    BY <2>2 DEF Flush, Fail, vars, struct, call, Marks, EofMark
  <2>3. CASE CallFree \/ CallFreeCloses \/ (\E n : CallWrite(n)) \/ (\E t : CallRead(t)) \/ (\E who : CallClose(who))
    BY <2>3 DEF CallWrite, CallRead, CallClose, CallFree, CallFreeCloses, To, struct, Marks, EofMark
  <2> QED
    BY <1>1, <2>1, <2>2, <2>3 DEF Calls
<1>2. CASE Reads
  BY <1>2 DEF Reads, Reading, ReadRefused, ReadEof, ReadData, struct, Marks, EofMark
<1>3. CASE KexWaited \/ WriteChunk \/ AwaitWindow \/ WindowWaited \/ WriteDone \/ WaitOver
  BY <1>3 DEF KexWaited, WriteChunk, AwaitWindow, WindowWaited, WriteDone, WaitOver, struct, Marks, EofMark
<1>4. CASE EofFlushed \/ SendClose \/ CloseFlushed \/ FinishFree \/ ReturnFailed
  BY <1>4 DEF EofFlushed, SendClose, CloseFlushed, FinishFree, ReturnFailed, struct, Marks, EofMark
<1>5. CASE Handles
  BY <1>5 DEF Handles, RcvData, RcvChangeWindow, RcvEof, RcvClose, Handle, call, Marks, EofMark
<1>6. CASE Server
  <2>1. UNCHANGED <<struct, call, failed>>
    BY <1>6 DEF Server, ServerEof, ServerClose, ServerReceives, ServerGrows, ServerData, ServerStep
  <2> QED
    BY <2>1 DEF struct, call, Marks, EofMark
<1> QED
  BY <1>1, <1>2, <1>3, <1>4, <1>5, <1>6 DEF Next, Continues

\* LastWords in the terms of the packets under way.
LEMMA LastWordsAre ==
    ASSUME TypeOK
    PROVE  LastWords <=> /\ EndsLast(toServer)
                         /\ peer.gotClose => toServer = <<>>
                         /\ peer.gotEof => ~Has(toServer, "eof") /\ ~Has(toServer, "data")
<1>1. DOMAIN toServer = 1..Len(toServer)
  BY DEF TypeOK
<1> QED
  BY <1>1 DEF LastWords, EndsLast, Has

LEMMA LastWordsNext ==
    TypeOK' => (LastWords' <=> /\ EndsLast(toServer)'
                               /\ (peer.gotClose => toServer = <<>>)'
                               /\ (peer.gotEof => ~Has(toServer, "eof") /\ ~Has(toServer, "data"))')
<1>1. TypeOK => (LastWords <=> /\ EndsLast(toServer)
                               /\ (peer.gotClose => toServer = <<>>)
                               /\ (peer.gotEof => ~Has(toServer, "eof") /\ ~Has(toServer, "data")))
  BY LastWordsAre
<1> QED
  BY <1>1, PTL

\* Nothing is sent, or one packet that may be.
LEMMA SentStays ==
    ASSUME SentInv, Marks, toServer' = toServer, peer'.gotEof = peer.gotEof, peer'.gotClose = peer.gotClose
    PROVE  SentInv'
BY DEF SentInv, LastWords, EofSent, CloseSent, Has, Marks, EofMark

LEMMA SentSpeaks ==
    ASSUME TypeOK, TypeOK', SentInv, Marks, NEW p \in Packets, Longer(toServer, p, toServer'), peer' = peer,
           ~CloseSent, p.type \in {"eof", "data"} => ~EofSent,
           p.type = "eof" => EofMark', p.type = "close" => "closedLocal" \in flags'
    PROVE  SentInv'
<1>1. toServer \in Seq(Packets)
  BY DEF TypeOK
<1>2. /\ EndsLast(toServer)
      /\ peer.gotEof => ~Has(toServer, "eof") /\ ~Has(toServer, "data")
  BY LastWordsAre DEF SentInv
<1>3. ~Has(toServer, "close") /\ ~peer.gotClose /\ (p.type \in {"eof", "data"} => ~Has(toServer, "eof") /\ ~peer.gotEof)
  BY DEF CloseSent, EofSent
<1>4. EndsLast(toServer') /\ \A type : Has(toServer', type) <=> Has(toServer, type) \/ p.type = type
  BY <1>1, <1>2, <1>3, LongerEnds
<1>5. LastWords'
  <2>1. peer.gotEof => ~Has(toServer', "eof") /\ ~Has(toServer', "data")
    BY <1>2, <1>3, <1>4
  <2> QED
    BY <1>3, <1>4, <2>1, LastWordsNext
<1>6. EofSent' => EofMark'
  BY <1>4 DEF EofSent, SentInv, Marks, EofMark
<1>7. CloseSent' => "closedLocal" \in flags'
  BY <1>4 DEF CloseSent, SentInv, Marks
<1> QED
  BY <1>5, <1>6, <1>7 DEF SentInv, EofMark

LEMMA SentReceives == TypeOK /\ TypeOK' /\ SentInv /\ ServerReceives => SentInv'
<1> SUFFICES ASSUME TypeOK, TypeOK', SentInv, ServerReceives PROVE SentInv'
  OBVIOUS
<1>1. PICK p : p = Head(toServer)
  OBVIOUS
<1>2. /\ toServer # <<>> /\ toServer' = Tail(toServer) /\ UNCHANGED <<localEof, pc, failed, flags>>
      /\ peer'.gotEof <=> peer.gotEof \/ p.type = "eof"
      /\ peer'.gotClose <=> peer.gotClose \/ p.type = "close"
  BY <1>1, ServerTakes DEF struct, call
<1>3. toServer \in Seq(Packets)
  BY DEF TypeOK
<1>4. PICK r : r = toServer' /\ Shorter(toServer, r)
  BY <1>2, <1>3, First
<1>5. /\ EndsLast(toServer)
      /\ peer.gotClose => toServer = <<>>
      /\ peer.gotEof => ~Has(toServer, "eof") /\ ~Has(toServer, "data")
  BY LastWordsAre DEF SentInv
<1>6. /\ EndsLast(r)
      /\ \A type : Has(r, type) => Has(toServer, type)
      /\ p.type = "close" => r = <<>>
      /\ p.type = "eof" => ~Has(r, "eof") /\ ~Has(r, "data")
      /\ Has(toServer, p.type)
  BY <1>1, <1>2, <1>3, <1>4, <1>5, ShorterEnds
<1>7. LastWords'
  <2>1. peer'.gotClose => r = <<>>
    BY <1>2, <1>5, <1>6
  <2>2. peer'.gotEof => ~Has(r, "eof") /\ ~Has(r, "data")
    BY <1>2, <1>5, <1>6
  <2> QED
    BY <1>4, <1>6, <2>1, <2>2, LastWordsNext
<1>8. (EofSent' => EofSent) /\ (CloseSent' => CloseSent)
  BY <1>2, <1>4, <1>6 DEF EofSent, CloseSent
<1> QED
  BY <1>2, <1>7, <1>8 DEF SentInv

LEMMA SentNext == TypeOK /\ TypeOK' /\ CallInv /\ SentInv /\ [Next]_vars => SentInv'
<1> SUFFICES ASSUME TypeOK, TypeOK', CallInv, SentInv, [Next]_vars PROVE SentInv'
  OBVIOUS
<1>1. Marks
  BY MarksStay
<1>2. WireType /\ "stdout" \in Streams /\ written \in Nat /\ left \in Nat
  BY Typed DEF AllTyped, TypeOK, Streams
<1>3. CASE Quiet
  BY <1>1, <1>3, SentStays DEF Quiet
<1>4. ASSUME NEW who, SendEof(who) PROVE SentInv'
  <2>1. /\ ~localEof /\ ~failed /\ pc = "idle" /\ peer' = peer /\ EofMark'
        /\ Send(Packet("eof", "stdout", 0, 0))
    BY <1>4 DEF SendEof, EofMark
  <2>2. ~EofSent /\ ~CloseSent
    BY <2>1 DEF SentInv, CallInv
  <2>3. PICK p \in Packets : p = Packet("eof", "stdout", 0, 0) /\ p.type = "eof"
    BY <1>2, MadePacket
  <2> QED
    BY <1>1, <1>2, <2>1, <2>2, <2>3, SentIs, SentSpeaks
<1>5. CASE SendClose
  <2>1. /\ pc = "sendClose" /\ peer' = peer /\ "closedLocal" \in flags' /\ Send(Packet("close", "stdout", 0, 0))
    BY <1>5 DEF SendClose
  <2>2. ~CloseSent
    BY <2>1 DEF SentInv, CallInv
  <2>3. PICK p \in Packets : p = Packet("close", "stdout", 0, 0) /\ p.type = "close"
    BY <1>2, MadePacket
  <2> QED
    BY <1>1, <1>2, <2>1, <2>2, <2>3, SentIs, SentSpeaks
<1>6. CASE WriteChunk
  <2>1. PICK n : /\ pc = "write" /\ ~failed /\ peer' = peer /\ Send(Packet("data", "stdout", written, n))
                 /\ n = Smallest(Smallest(left, remoteWindow), MaxPacket)
    BY <1>6 DEF WriteChunk
  <2>2. ~EofSent /\ ~CloseSent
    BY <2>1 DEF SentInv, CallInv
  <2>3. n \in Nat
    BY <1>2, <2>1, FlowAssumption DEF Smallest, TypeOK
  <2>4. PICK p \in Packets : p = Packet("data", "stdout", written, n) /\ p.type = "data"
    BY <1>2, <2>3, MadePacket
  <2> QED
    BY <1>1, <1>2, <2>1, <2>2, <2>4, SentIs, SentSpeaks
<1>7. ASSUME NEW s \in Streams, NEW n \in 1..buffer[s], ReadData(s, n) PROVE SentInv'
  <2>1. state # "closed" /\ peer' = peer /\ GrowWindow(buffer')
    BY <1>7 DEF ReadData
  <2>2. ~CloseSent
    BY <2>1 DEF SentInv, CallInv
  <2>3. CASE toServer' = toServer
    BY <1>1, <2>1, <2>3, SentStays
  <2>4. CASE toServer' # toServer
    <3>1. PICK m : /\ Send(Packet("adjust", "stdout", Granted, m))
                   /\ m = IF WindowDefault > localWindow + Total(buffer')
                          THEN WindowDefault - (localWindow + Total(buffer')) ELSE 0
      BY <2>1, <2>4 DEF GrowWindow
    <3>2. PICK used \in Nat : used = localWindow + Total(buffer')
      <4>1. localWindow \in Nat /\ buffer'["stdout"] \in Nat /\ buffer'["stderr"] \in Nat
        BY DEF TypeOK, Streams
      <4> QED
        BY <4>1 DEF Total
    <3>3. m \in Nat
      BY <3>1, <3>2, FlowAssumption
    <3>4. Granted \in Nat
      BY Numbers
    <3>5. PICK p \in Packets : p = Packet("adjust", "stdout", Granted, m) /\ p.type = "adjust"
      BY <1>2, <3>3, <3>4, MadePacket
    <3> QED
      BY <1>1, <1>2, <2>1, <2>2, <3>1, <3>5, SentIs, SentSpeaks
  <2> QED
    BY <2>3, <2>4
<1>8. CASE UNCHANGED vars
  BY <1>3, <1>8 DEF vars, struct, app, Quiet
<1>9. CASE Calls \/ Flush \/ Fail
  BY <1>3, <1>4, <1>9, QuietSteps DEF Calls
<1>10. CASE Reads
  BY <1>3, <1>7, <1>10, QuietSteps DEF Reads
<1>11. CASE Continues
  BY <1>3, <1>5, <1>6, <1>11, QuietSteps DEF Continues
<1>12. CASE Handles
  BY <1>1, <1>12, SentStays DEF Handles, RcvData, RcvChangeWindow, RcvEof, RcvClose, Handle
<1>13. CASE Server
  <2>1. CASE ServerEof \/ ServerClose \/ (\E n : ServerGrows(n)) \/ (\E s, n : ServerData(s, n))
    <3>1. toServer' = toServer /\ peer'.gotEof = peer.gotEof /\ peer'.gotClose = peer.gotClose
      BY <2>1 DEF ServerEof, ServerClose, ServerGrows, ServerData, ServerStep, TypeOK
    <3> QED
      BY <1>1, <3>1, SentStays
  <2> QED
    BY <1>13, <2>1, SentReceives DEF Server
<1> QED
  BY <1>8, <1>9, <1>10, <1>11, <1>12, <1>13 DEF Next

-----------------------------------------------------------------------------
(***************************************************************************)
(* The theorems.                                                           *)
(***************************************************************************)

LEMMA FlowInit == Init => FlowInv
<1> SUFFICES ASSUME Init PROVE FlowInv
  OBVIOUS
<1>1. WindowDefault \in Nat /\ PeerWindow \in Nat /\ MaxIn \in Nat
  BY FlowAssumption
<1>2. /\ toServer = <<>> /\ toClient = <<>> /\ Len(<<>>) = 0
      /\ \A s \in Streams : read[s] = 0 /\ buffer[s] = 0 /\ peer.sent[s] = 0
      /\ "stdout" \in Streams /\ "stderr" \in Streams
      /\ localWindow = WindowDefault /\ remoteWindow = PeerWindow /\ written = 0
      /\ peer.granted = WindowDefault /\ peer.received = 0 /\ peer.allows = PeerWindow
      /\ peer.gotEof = FALSE /\ peer.gotClose = FALSE /\ flags = {}
  BY DEF Init, None, Streams
<1>3. \A type : ~Has(<<>>, type)
  BY <1>2 DEF Has
<1>4. \A type, s : \A n \in Nat : Within(<<>>, type, s, n, n) /\ Covered(<<>>, s, n, n)
  BY <1>2 DEF Within, Covered
<1>5. Total(read) = 0 /\ Total(buffer) = 0 /\ Total(peer.sent) = 0
  BY <1>2 DEF Total
<1>6. TypeOK
  <2>1. <<>> \in Seq(Packets)
    OBVIOUS
  <2>2. None \in [Streams -> Nat] /\ "stdout" \in Streams
    BY DEF None, Streams
  <2> QED
    BY <1>1, <2>1, <2>2 DEF Init, TypeOK
<1>7. OutputInv
  BY <1>2, <1>4 DEF OutputInv, Got
<1>8. InputInv
  <2>1. remoteWindow + written = PeerWindow
    BY <1>1, <1>2
  <2> QED
    BY <1>1, <1>2, <1>4, <2>1 DEF InputInv
<1>9. GrantInv
  <2>1. Granted = WindowDefault /\ localWindow + Total(buffer) = WindowDefault
    BY <1>1, <1>2, <1>5 DEF Granted, Received
  <2> QED
    BY <1>1, <1>2, <1>4, <1>5, <2>1 DEF GrantInv, BufferBounded
<1>10. ServerEndInv
  BY <1>2, <1>3 DEF ServerEndInv, EndsLast, Init
<1>11. ClosedInv /\ CallInv
  BY DEF ClosedInv, CallInv, Init, Gone
<1>12. SentInv
  BY <1>2, <1>3 DEF SentInv, LastWords, EofSent, CloseSent
<1> QED
  BY <1>6, <1>7, <1>8, <1>9, <1>10, <1>11, <1>12 DEF FlowInv

LEMMA FlowNext == FlowInv /\ [Next]_vars => FlowInv'
<1> SUFFICES ASSUME FlowInv, [Next]_vars PROVE FlowInv'
  OBVIOUS
<1>1. TypeOK /\ DataInv /\ ServerEndInv /\ ClosedInv /\ SentInv /\ CallInv
  BY DEF FlowInv, DataInv
<1>2. FlowEnd
  BY <1>1 DEF FlowEnd, ClosedInv, ServerEndInv
<1>3. TypeOK'
  BY <1>1, TypeNext
<1>4. DataInv' /\ ServerEndInv' /\ ClosedInv' /\ CallInv'
  BY <1>1, <1>2, DataNext, ServerEndNext, ClosedNext, CallNext
<1>5. SentInv'
  BY <1>1, <1>3, SentNext
<1> QED
  BY <1>3, <1>4, <1>5 DEF FlowInv, DataInv

\* Windows, data, ends of file and closes of the two ends agree with the packets under
\* way, after every step of the calls, the packet handlers and the server
\* (channel_write_common, channel_rcv_data, channel_rcv_close, ssh_channel_free).
THEOREM FlowInvariant == Spec => []FlowInv
BY FlowInit, FlowNext, PTL DEF Spec

\* A stream ends for the application with the last byte the server said on it.
LEMMA EofExact == ASSUME FlowInv PROVE EofIsExact
<1> SUFFICES ASSUME NEW s \in ended PROVE read[s] = peer.sent[s]
  BY DEF EofIsExact
<1>1. s \in Streams /\ remoteEof /\ buffer[s] = 0
  BY DEF FlowInv, ClosedInv, TypeOK
<1>2. ~Has(toClient, "data")
  BY <1>1 DEF FlowInv, ServerEndInv
<1>3. Got(s) \in Nat /\ peer.sent[s] \in Nat /\ read[s] \in Nat
  BY <1>1, Numbers DEF FlowInv
<1>4. Got(s) <= peer.sent[s] /\ Covered(toClient, {s}, Got(s), peer.sent[s])
  BY <1>1 DEF FlowInv, OutputInv, Within
<1>5. Got(s) = peer.sent[s]
  BY <1>2, <1>3, <1>4, NothingUnderWay
<1> QED
  BY <1>1, <1>3, <1>5 DEF Got

\* The two ends of a channel agree on its windows, its data, its ends of file and its
\* closes: no window is overrun, no byte is lost before an end of file, nothing follows a
\* close, and no packet names a channel whose memory is given up (channel_rcv_data,
\* channel_rcv_close, ssh_channel_free).
THEOREM ChannelExact == Spec => []ChannelIsExact
<1>1. FlowInv => ChannelIsExact
  <2> SUFFICES ASSUME FlowInv PROVE ChannelIsExact
    OBVIOUS
  <2>1. TypeOK /\ DataInv /\ LastWords /\ BufferBounded
    BY DEF FlowInv, DataInv, SentInv, GrantInv
  <2>2. NoOverrun
    BY <2>1, Overruns
  <2>3. UnreadIsReadable /\ FreedAfterLastPacket
    BY DEF FlowInv, ClosedInv, ServerEndInv, UnreadIsReadable, FreedAfterLastPacket
  <2>4. FreedIsClosed
    BY DEF FlowInv, CallInv, FreedIsClosed
  <2> QED
    BY <2>1, <2>2, <2>3, <2>4, EofExact DEF ChannelIsExact
<1> QED
  BY <1>1, FlowInvariant, PTL

=============================================================================
