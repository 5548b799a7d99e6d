---------------------------- MODULE SessionProofs ----------------------------
(***************************************************************************)
(* Proofs about two parts of libssh's session.  Buffer, for every size of  *)
(* a word, of a buffer and of what is added: the bounds of buffer_verify   *)
(* hold, nothing is written past the memory, and the buffer implements a   *)
(* queue of bytes.  ClientAuth, for any methods, keys and number of calls: *)
(* what a call returns is the server's verdict on its own request.         *)
(***************************************************************************)
EXTENDS Buffer, ClientAuth, SequenceTheorems, WellFoundedInduction, TLAPS


Any == Cell \cup {Junk}

\* BufferTypeOK, of any buffer.
Valid(b) ==
    /\ b = Block(b.mem, b.allocated, b.used, b.pos)
    /\ b.allocated \in Powers /\ b.mem \in [1..b.allocated -> Any] /\ b.used \in Nat /\ b.pos \in Nat
    /\ b.pos <= b.used /\ b.used <= b.allocated /\ b.allocated <= SizeMax

Clean(b) == \A i \in b.pos + 1..b.used : b.mem[i] \in Cell

Inv == Valid(buf) /\ Clean(buf)

LEMMA Sizes ==
    /\ (\A p \in Powers : p \in Nat) /\ WordSize \in Nat \ {0} /\ SizeMax \in 1..WordSize - 1
    /\ {NewSize, KeepSize} \subseteq 1..SizeMax /\ Cell \subseteq Nat
<1>1. \A p \in Powers : p \in 1..WordSize - 1
  BY BufferAssumption DEF BufferAssumption
<1>2. {SizeMax, NewSize, KeepSize} \subseteq Powers /\ NewSize <= SizeMax /\ KeepSize <= SizeMax
  BY BufferAssumption DEF BufferAssumption
<1>3. WordSize \in Nat \ {0} /\ Cell \subseteq Nat
  BY BufferAssumption DEF BufferAssumption
<1>4. SizeMax \in 1..WordSize - 1 /\ NewSize \in 1..WordSize - 1 /\ KeepSize \in 1..WordSize - 1
  BY <1>1, <1>2
<1>5. \A p \in Powers : p \in Nat
  BY <1>1, <1>3
<1> QED
  BY <1>2, <1>3, <1>4, <1>5

LEMMA ValidFields ==
    ASSUME NEW b, Valid(b)
    PROVE  /\ b.mem \in [1..b.allocated -> Any] /\ b.allocated \in Powers
           /\ b.allocated \in 0..SizeMax /\ b.used \in 0..SizeMax /\ b.pos \in 0..SizeMax
           /\ b.pos <= b.used /\ b.used <= b.allocated
<1>1. b.allocated \in Nat /\ SizeMax \in Nat
  <2>1. b.allocated \in Powers
    BY DEF Valid
  <2> QED
    BY <2>1, Sizes
<1>2. b.used \in Nat /\ b.pos \in Nat /\ b.pos <= b.used /\ b.used <= b.allocated /\ b.allocated <= SizeMax
  BY DEF Valid
<1>3. b.mem \in [1..b.allocated -> Any] /\ b.allocated \in Powers
  BY DEF Valid
<1> QED
  BY <1>1, <1>2, <1>3

\* A block is valid if its fields are.
LEMMA BlockIsValid ==
    ASSUME NEW n \in Powers, n <= SizeMax, NEW m \in [1..n -> Any], NEW u \in 0..n, NEW p \in 0..u
    PROVE  Valid(Block(m, n, u, p)) /\ Block(m, n, u, p).mem = m /\ Block(m, n, u, p).allocated = n
           /\ Block(m, n, u, p).used = u /\ Block(m, n, u, p).pos = p
BY Sizes DEF Valid, Block

\* What is in a buffer is a sequence as long as its used part that is not read.
LEMMA ContentIsSeq ==
    ASSUME NEW b, Valid(b)
    PROVE  /\ Content(b) \in Seq(Any) /\ Len(Content(b)) = b.used - b.pos
           /\ \A i \in 1..b.used - b.pos : Content(b)[i] = b.mem[b.pos + i]
           /\ Clean(b) => Content(b) \in Seq(Cell)
<1>1. b.used - b.pos \in Nat /\ \A i \in 1..b.used - b.pos : b.pos + i \in 1..b.allocated /\ b.pos + i \in b.pos + 1..b.used
  BY ValidFields, Sizes
<1>2. Content(b) \in [1..b.used - b.pos -> Any]
  BY <1>1, ValidFields DEF Content
<1>3. Clean(b) => Content(b) \in [1..b.used - b.pos -> Cell]
  BY <1>1 DEF Content, Clean
<1> QED
  BY <1>1, <1>2, <1>3, SeqDef, LenProperties DEF Content

\* The memory after a copy.
LEMMA CopyProperties ==
    ASSUME NEW n \in Nat, NEW m \in [1..n -> Any], NEW d \in Seq(Any), NEW at \in Nat, at + Len(d) <= n
    PROVE  /\ Copy(m, at, d) \in [1..n -> Any]
           /\ \A i \in 1..Len(d) : Copy(m, at, d)[at + i] = d[i]
           /\ \A i \in 1..at : Copy(m, at, d)[i] = m[i]
           /\ \A i \in at + Len(d) + 1..n : Copy(m, at, d)[i] = m[i]
<1>1. Len(d) \in Nat /\ \A i \in 1..Len(d) : d[i] \in Any
  BY LenProperties, ElementOfSeq
<1>2. DOMAIN m \cup (at + 1)..(at + Len(d)) = 1..n
  BY <1>1
<1>3. \A i \in (at + 1)..(at + Len(d)) : i - at \in 1..Len(d)
  BY <1>1
<1>4. Copy(m, at, d) = [i \in 1..n |-> IF i \in (at + 1)..(at + Len(d)) THEN d[i - at] ELSE m[i]]
  BY <1>2 DEF Copy
<1>5. Copy(m, at, d) \in [1..n -> Any]
  <2> SUFFICES ASSUME NEW i \in 1..n
               PROVE  (IF i \in (at + 1)..(at + Len(d)) THEN d[i - at] ELSE m[i]) \in Any
    BY <1>4
  <2>1. CASE i \in (at + 1)..(at + Len(d))
    BY <2>1, <1>1, <1>3
  <2>2. CASE i \notin (at + 1)..(at + Len(d))
    BY <2>2
  <2> QED
    BY <2>1, <2>2
<1>6. \A i \in 1..Len(d) : at + i \in (at + 1)..(at + Len(d)) /\ at + i \in 1..n /\ (at + i) - at = i
  BY <1>1
<1>7. \A i \in 1..Len(d) : Copy(m, at, d)[at + i] = d[i]
  BY <1>4, <1>6
<1>8. /\ \A i \in 1..at : i \in 1..n /\ i \notin (at + 1)..(at + Len(d))
      /\ \A i \in at + Len(d) + 1..n : i \in 1..n /\ i \notin (at + 1)..(at + Len(d))
  BY <1>1
<1> QED
  BY <1>4, <1>5, <1>7, <1>8

\* A sum of two words wraps if, and only if, it is less than either.
LEMMA WrapProperties ==
    ASSUME NEW a \in 0..WordSize - 1, NEW b \in 0..WordSize - 1
    PROVE  /\ a + b < WordSize => Wrap(a + b) = a + b
           /\ a + b >= WordSize => Wrap(a + b) < b
<1>1. WordSize \in Nat \ {0}
  BY Sizes
<1>2. CASE a + b < WordSize
  BY <1>1, <1>2 DEF Wrap
<1>3. CASE a + b >= WordSize
  BY <1>1, <1>3 DEF Wrap
<1> QED
  BY <1>2, <1>3

\* Shifting moves what is in the buffer to its begin.
LEMMA Shift ==
    ASSUME NEW b, Valid(b)
    PROVE  LET s == buffer_shift(b) IN
           /\ Valid(s) /\ Content(s) = Content(b) /\ (Clean(b) => Clean(s))
           /\ s.used = b.used - b.pos /\ s.pos = 0 /\ s.allocated = b.allocated
<1> DEFINE m == Copy(b.mem, 0, Content(b))
           s == buffer_shift(b)
<1>1. b.allocated \in Nat /\ b.used - b.pos \in 0..b.allocated
  BY ValidFields, Sizes
<1>2. Content(b) \in Seq(Any) /\ Len(Content(b)) = b.used - b.pos
  BY ContentIsSeq
<1>3. m \in [1..b.allocated -> Any] /\ \A i \in 1..b.used - b.pos : m[i] = Content(b)[i]
  <2>1. 0 + Len(Content(b)) <= b.allocated
    BY <1>1, <1>2
  <2>2. m \in [1..b.allocated -> Any] /\ \A i \in 1..Len(Content(b)) : m[0 + i] = Content(b)[i]
    <3>1. 0 \in Nat /\ b.allocated \in Nat /\ b.mem \in [1..b.allocated -> Any] /\ Content(b) \in Seq(Any)
      BY <1>1, <1>2, ValidFields
    <3> QED
      BY <2>1, <3>1, CopyProperties, ZenonT(40)
  <2>3. \A i \in 1..b.used - b.pos : 0 + i = i
    BY <1>1
  <2> QED
    BY <1>2, <2>2, <2>3
<1>4. Valid(s) /\ s.mem = m /\ s.used = b.used - b.pos /\ s.pos = 0 /\ s.allocated = b.allocated
  <2> HIDE DEF m
  <2>1. s = Block(m, b.allocated, b.used - b.pos, 0)
    BY DEF buffer_shift, m
  <2>2. b.allocated \in Powers /\ b.allocated <= SizeMax /\ 0 \in 0..b.used - b.pos
    BY <1>1, ValidFields, Sizes
  <2> QED
    BY <1>1, <1>3, <2>1, <2>2, BlockIsValid
<1> HIDE DEF m, s
<1>5. Content(s) \in Seq(Any) /\ Len(Content(s)) = b.used - b.pos
      /\ \A i \in 1..b.used - b.pos : Content(s)[i] = Content(b)[i]
  <2>1. /\ Content(s) \in Seq(Any) /\ Len(Content(s)) = (b.used - b.pos) - 0
        /\ \A i \in 1..(b.used - b.pos) - 0 : Content(s)[i] = m[0 + i]
    BY <1>4, ContentIsSeq
  <2>2. (b.used - b.pos) - 0 = b.used - b.pos /\ \A i \in 1..b.used - b.pos : 0 + i = i
    BY <1>1
  <2> QED
    BY <1>3, <2>1, <2>2
<1>6. Content(s) = Content(b)
  BY <1>1, <1>2, <1>5, SeqEqual
<1>7. Clean(b) => Clean(s)
  <2> SUFFICES ASSUME Clean(b), NEW i \in 1..b.used - b.pos PROVE s.mem[i] \in Cell
    BY <1>1, <1>4 DEF Clean
  <2>1. s.mem[i] = b.mem[b.pos + i]
    BY <1>3, <1>4, ContentIsSeq
  <2>2. b.pos + i \in b.pos + 1..b.used
    BY ValidFields
  <2> QED
    BY <2>1, <2>2 DEF Clean
<1> QED
  BY <1>4, <1>6, <1>7 DEF s

\* Reallocating keeps what is in a buffer, if there is room for it.
LEMMA Realloc ==
    ASSUME NEW b, Valid(b), NEW needed \in Nat, b.used <= needed, NEW g \in realloc_buffer(b, needed)
    PROVE  /\ Valid(g) /\ Content(g) = Content(b) /\ (Clean(b) => Clean(g))
           /\ g.used = b.used /\ g.pos = b.pos /\ needed < g.allocated
<1>1. PICK n \in Room(needed) :
          g = Block([i \in 1..n |-> IF i <= b.allocated THEN b.mem[i] ELSE Junk], n, b.used, b.pos)
  BY DEF realloc_buffer
<1> DEFINE m == [i \in 1..n |-> IF i <= b.allocated THEN b.mem[i] ELSE Junk]
<1>2. n \in Powers /\ n <= SizeMax /\ n > needed /\ n \in Nat
  BY Sizes DEF Room
<1>3. m \in [1..n -> Any] /\ \A i \in 1..b.used : m[i] = b.mem[i]
  <2>1. \A i \in 1..n : i <= b.allocated => b.mem[i] \in Any
    BY <1>2, ValidFields
  <2>2. \A i \in 1..b.used : i \in 1..n /\ i <= b.allocated
    BY <1>2, ValidFields
  <2>3. m \in [1..n -> Any]
    BY <2>1 DEF Any
  <2> QED
    BY <2>2, <2>3
<1> HIDE DEF m
<1>4. Valid(g) /\ g.mem = m /\ g.used = b.used /\ g.pos = b.pos /\ g.allocated = n
  <2>1. g = Block(m, n, b.used, b.pos)
    BY <1>1 DEF m
  <2>2. b.used \in 0..n /\ b.pos \in 0..b.used
    BY <1>2, ValidFields
  <2> QED
    BY <1>2, <1>3, <2>1, <2>2, BlockIsValid
<1>5. \A i \in b.pos + 1..b.used : m[i] = b.mem[i]
  BY <1>3, ValidFields
<1>6. \A i \in 1..b.used - b.pos : m[b.pos + i] = b.mem[b.pos + i]
  <2>1. \A i \in 1..b.used - b.pos : b.pos + i \in b.pos + 1..b.used
    BY ValidFields
  <2> QED
    BY <1>5, <2>1
<1>7. Content(g) = Content(b)
  BY <1>4, <1>6 DEF Content
<1>8. Clean(b) => Clean(g)
  BY <1>4, <1>5 DEF Clean
<1> QED
  BY <1>2, <1>4, <1>7, <1>8

\* A call that asks for room leaves what is in the buffer, and has the room if it succeeds.
LEMMA TailRoomProperties ==
    ASSUME NEW b, Valid(b), NEW len \in 0..WordSize - 1, NEW r \in TailRoom(b, len)
    PROVE  /\ r.ok \in BOOLEAN /\ Valid(r.b) /\ Content(r.b) = Content(b) /\ (Clean(b) => Clean(r.b))
           /\ r.ok => r.b.used + len <= r.b.allocated
<1>1. b.used \in 0..WordSize - 1 /\ WordSize \in Nat
  BY ValidFields, Sizes
<1>2. CASE Wrap(b.used + len) < len
  <2>1. r = Failed(b)
    BY <1>2 DEF TailRoom
  <2> QED
    BY <2>1 DEF Failed
<1>3. CASE ~(Wrap(b.used + len) < len) /\ b.allocated >= Wrap(b.used + len)
  <2>1. r = Done(b)
    BY <1>3 DEF TailRoom
  <2>2. b.used + len <= b.allocated
    BY <1>1, <1>3, WrapProperties, ValidFields
  <2> QED
    BY <2>1, <2>2 DEF Done
<1>4. CASE ~(Wrap(b.used + len) < len) /\ ~(b.allocated >= Wrap(b.used + len))
  <2> DEFINE s == buffer_shift(b)
  <2>1. Valid(s) /\ Content(s) = Content(b) /\ (Clean(b) => Clean(s)) /\ s.used \in Nat
    BY Shift, ValidFields
  <2> HIDE DEF s
  <2>2. r = Failed(s) \/ \E g \in realloc_buffer(s, s.used + len) : r = Done(g)
    BY <1>4 DEF TailRoom, s
  <2>3. CASE r = Failed(s)
    <3>1. r.ok = FALSE /\ r.b = s
      BY <2>3 DEF Failed
    <3> QED
      BY <2>1, <3>1
  <2>4. ASSUME NEW g \in realloc_buffer(s, s.used + len), r = Done(g)
        PROVE  /\ r.ok = TRUE /\ r.b = g /\ Valid(g) /\ Content(g) = Content(b) /\ (Clean(b) => Clean(g)) /\ g.used + len <= g.allocated
    <3>1. s.used + len \in Nat /\ s.used <= s.used + len
      BY <2>1
    <3>2. /\ Valid(g) /\ Content(g) = Content(s) /\ (Clean(s) => Clean(g))
          /\ g.used = s.used /\ s.used + len < g.allocated
      BY <2>1, <2>4, <3>1, Realloc
    <3>3. g.used + len <= g.allocated
      BY <2>1, <3>2, ValidFields, Sizes
    <3>4. r.ok = TRUE /\ r.b = g
      BY <2>4 DEF Done
    <3> QED
      BY <2>1, <3>2, <3>3, <3>4
  <2>5. CASE r # Failed(s)
    <3>1. PICK g \in realloc_buffer(s, s.used + len) : r = Done(g)
      BY <2>2, <2>5
    <3> QED
      BY <2>4, <3>1
  <2> QED
    BY <2>3, <2>5
<1> QED
  BY <1>2, <1>3, <1>4

\* What is in a buffer is the one sequence and then the other, if its cells are.
LEMMA SplitContent ==
    ASSUME NEW b, Valid(b), NEW x \in Seq(Any), NEW y \in Seq(Any), b.used - b.pos = Len(x) + Len(y),
           \A i \in 1..Len(x) : b.mem[b.pos + i] = x[i],
           \A i \in 1..Len(y) : b.mem[(b.pos + Len(x)) + i] = y[i]
    PROVE  Content(b) = x \o y
<1> DEFINE p == b.pos
           m == b.mem
           c == Content(b)
<1>1. p \in Nat /\ Len(x) \in Nat /\ Len(y) \in Nat
  BY ValidFields, Sizes, LenProperties
<1>2. /\ c \in Seq(Any) /\ Len(c) = Len(x) + Len(y)
      /\ \A i \in 1..Len(x) + Len(y) : c[i] = m[p + i]
  <2>1. /\ c \in Seq(Any) /\ Len(c) = b.used - p /\ \A i \in 1..b.used - p : c[i] = m[p + i]
    BY ContentIsSeq
  <2> QED
    BY <2>1
<1>3. /\ x \o y \in Seq(Any) /\ Len(x \o y) = Len(x) + Len(y)
      /\ \A i \in 1..Len(x) + Len(y) : (x \o y)[i] = IF i <= Len(x) THEN x[i] ELSE y[i - Len(x)]
  BY ConcatProperties
<1>4. /\ \A i \in 1..Len(x) : m[p + i] = x[i]
      /\ \A i \in 1..Len(y) : m[(p + Len(x)) + i] = y[i]
  OBVIOUS
<1> HIDE DEF p, m, c
<1>5. ASSUME NEW i \in 1..Len(x) + Len(y) PROVE c[i] = (x \o y)[i]
  <2>1. CASE i <= Len(x)
    <3>1. i \in 1..Len(x)
      BY <1>1, <2>1
    <3> QED
      BY <1>2, <1>3, <1>4, <2>1, <3>1
  <2>2. CASE ~(i <= Len(x))
    <3> DEFINE j == i - Len(x)
    <3>1. j \in 1..Len(y) /\ (p + Len(x)) + j = p + i
      BY <1>1, <2>2
    <3>2. (x \o y)[i] = y[j]
      BY <1>3, <2>2
    <3> HIDE DEF j
    <3>3. m[(p + Len(x)) + j] = y[j]
      BY <1>4, <3>1
    <3> QED
      BY <1>2, <3>1, <3>2, <3>3
  <2> QED
    BY <2>1, <2>2
<1>6. c = x \o y
  BY <1>2, <1>3, <1>5, SeqEqual
<1> QED
  BY <1>6 DEF c

\* Data that is put where there is room is appended.
LEMMA PutAppends ==
    ASSUME NEW b, Valid(b), NEW d \in Seq(Cell), b.used + Len(d) <= b.allocated
    PROVE  /\ Valid(Put(b, d)) /\ Content(Put(b, d)) = Content(b) \o d
           /\ Clean(b) => Clean(Put(b, d))
<1> DEFINE m == Copy(b.mem, b.used, d)
           p == Put(b, d)
<1>1. /\ b.allocated \in Nat /\ b.used \in Nat /\ b.pos \in Nat /\ b.pos <= b.used
      /\ b.mem \in [1..b.allocated -> Any] /\ Len(d) \in Nat /\ d \in Seq(Any)
  BY ValidFields, LenProperties, SeqMonotonic DEF Any
<1>2. /\ m \in [1..b.allocated -> Any] /\ \A i \in 1..Len(d) : m[b.used + i] = d[i]
      /\ \A i \in 1..b.used : m[i] = b.mem[i]
  <2>1. b.used + Len(d) <= b.allocated
    OBVIOUS
  <2> QED
    <3>1. m \in [1..b.allocated -> Any]
      BY <1>1, <2>1, CopyProperties, ZenonT(40)
    <3>2. \A i \in 1..Len(d) : m[b.used + i] = d[i]
      BY <1>1, <2>1, CopyProperties, ZenonT(40)
    <3>3. \A i \in 1..b.used : m[i] = b.mem[i]
      <4> DEFINE mem == b.mem
      <4>1. mem \in [1..b.allocated -> Any]
        BY <1>1
      <4> HIDE DEF mem
      <4>2. \A i \in 1..b.used : Copy(mem, b.used, d)[i] = mem[i]
        BY <1>1, <2>1, <4>1, CopyProperties, ZenonT(40)
      <4> QED
        BY <4>2 DEF mem
    <3> QED
      BY <3>1, <3>2, <3>3
<1>3. Valid(p) /\ p.mem = m /\ p.used = b.used + Len(d) /\ p.pos = b.pos /\ p.allocated = b.allocated
  <2> HIDE DEF m
  <2>1. p = Block(m, b.allocated, b.used + Len(d), b.pos)
    BY DEF Put, m
  <2>2. b.used + Len(d) \in 0..b.allocated /\ b.pos \in 0..b.used + Len(d)
    BY <1>1, ValidFields
  <2>3. b.allocated \in Powers /\ b.allocated <= SizeMax
    BY <1>1, ValidFields, Sizes
  <2> DEFINE k == Block(m, b.allocated, b.used + Len(d), b.pos)
  <2>4. Valid(k) /\ k.mem = m /\ k.used = b.used + Len(d) /\ k.pos = b.pos /\ k.allocated = b.allocated
    <3>1. Valid(k)
      BY <1>2, <2>2, <2>3, BlockIsValid, Zenon
    <3>2. k.mem = m /\ k.used = b.used + Len(d) /\ k.pos = b.pos /\ k.allocated = b.allocated
      BY DEF Block
    <3> QED
      BY <3>1, <3>2
  <2> HIDE DEF k, p
  <2> QED
    BY <2>1, <2>4 DEF k
<1> HIDE DEF m, p
<1>4. Content(p) = Content(b) \o d
  <2>1. /\ Content(b) \in Seq(Any) /\ Len(Content(b)) = b.used - b.pos
        /\ \A i \in 1..b.used - b.pos : Content(b)[i] = b.mem[b.pos + i]
    BY ContentIsSeq
  <2>2. \A i \in 1..Len(Content(b)) : p.mem[p.pos + i] = Content(b)[i]
    <3>1. \A i \in 1..b.used - b.pos : b.pos + i \in 1..b.used
      BY <1>1
    <3> QED
      BY <1>2, <1>3, <2>1, <3>1
  <2>3. \A i \in 1..Len(d) : p.mem[(p.pos + Len(Content(b))) + i] = d[i]
    <3>1. p.pos + Len(Content(b)) = b.used
      BY <1>1, <1>3, <2>1
    <3> QED
      BY <1>2, <1>3, <3>1
  <2>4. p.used - p.pos = Len(Content(b)) + Len(d)
    BY <1>1, <1>3, <2>1
  <2> QED
    BY <1>1, <1>3, <2>1, <2>2, <2>3, <2>4, SplitContent
<1>5. ASSUME Clean(b), NEW i \in b.pos + 1..b.used + Len(d) PROVE m[i] \in Cell
  <2>1. CASE i <= b.used
    <3>1. i \in b.pos + 1..b.used /\ i \in 1..b.used
      BY <1>1, <2>1
    <3> QED
      BY <1>2, <1>5, <2>1, <3>1 DEF Clean
  <2>2. CASE i > b.used
    <3>1. i - b.used \in 1..Len(d) /\ i = b.used + (i - b.used)
      BY <1>1, <2>2
    <3> QED
      BY <1>2, <3>1, ElementOfSeq
  <2> QED
    BY <1>1, <2>1, <2>2
<1> QED
  BY <1>3, <1>4, <1>5 DEF Clean, p

\* A buffer is clean if what is in it is.
LEMMA CleanContent ==
    ASSUME NEW b, Valid(b), Content(b) \in Seq(Cell)
    PROVE  Clean(b)
<1> SUFFICES ASSUME NEW i \in b.pos + 1..b.used PROVE b.mem[i] \in Cell
  BY DEF Clean
<1>1. i - b.pos \in 1..b.used - b.pos /\ b.pos + (i - b.pos) = i
  BY ValidFields, Sizes
<1>2. Content(b)[i - b.pos] \in Cell
  BY <1>1, ContentIsSeq, ElementOfSeq
<1> QED
  BY <1>1, <1>2, ContentIsSeq

\* Data that is put before what is moved behind it is prepended.
LEMMA HeadPutPrepends ==
    ASSUME NEW b, Valid(b), NEW d \in Seq(Cell), (b.used - b.pos) + Len(d) <= b.allocated
    PROVE  Valid(HeadPut(b, d)) /\ Content(HeadPut(b, d)) = d \o Content(b)
<1> DEFINE c == Content(b)
           n == b.allocated
           k == Copy(b.mem, Len(d), c)
           m == Copy(k, 0, d)
           p == HeadPut(b, d)
<1>1. /\ c \in Seq(Any) /\ d \in Seq(Any) /\ Len(c) = b.used - b.pos /\ Len(c) \in Nat /\ Len(d) \in Nat
      /\ 0 \in Nat /\ n \in Nat /\ b.mem \in [1..n -> Any] /\ Len(d) + Len(c) <= n /\ 0 + Len(d) <= n
  BY ContentIsSeq, ValidFields, LenProperties, SeqMonotonic DEF Any
<1>2. k \in [1..n -> Any] /\ \A i \in 1..Len(c) : k[Len(d) + i] = c[i]
  <2> DEFINE mem == b.mem
  <2>1. mem \in [1..n -> Any]
    BY <1>1
  <2> HIDE DEF mem, c, n
  <2> QED
    BY <1>1, <2>1, CopyProperties, ZenonT(40) DEF mem
<1>3. /\ m \in [1..n -> Any] /\ \A i \in 1..Len(d) : m[0 + i] = d[i]
      /\ \A i \in 0 + Len(d) + 1..n : m[i] = k[i]
  <2> HIDE DEF k, c, n
  <2>1. m \in [1..n -> Any]
    BY <1>1, <1>2, CopyProperties, ZenonT(40)
  <2>2. \A i \in 1..Len(d) : m[0 + i] = d[i]
    BY <1>1, <1>2, CopyProperties, ZenonT(40)
  <2>3. \A i \in 0 + Len(d) + 1..n : m[i] = k[i]
    BY <1>1, <1>2, CopyProperties, ZenonT(40)
  <2> QED
    BY <2>1, <2>2, <2>3
<1>4. Valid(p) /\ p.mem = m /\ p.used = Len(c) + Len(d) /\ p.pos = 0
  <2>1. p = Block(m, n, Len(c) + Len(d), 0)
    BY <1>1 DEF HeadPut
  <2>2. Len(c) + Len(d) \in 0..n /\ 0 \in 0..Len(c) + Len(d)
    BY <1>1
  <2>3. n \in Powers /\ n <= SizeMax
    BY ValidFields, Sizes
  <2> HIDE DEF m, n, c, p
  <2>4. Valid(Block(m, n, Len(c) + Len(d), 0))
    BY <1>3, <2>2, <2>3, BlockIsValid, Zenon
  <2> QED
    BY <2>1, <2>4 DEF Block
<1> HIDE DEF m, k, n, c, p
<1>5. \A i \in 1..Len(d) : p.mem[p.pos + i] = d[i]
  BY <1>3, <1>4
<1>6. \A i \in 1..Len(c) : p.mem[(p.pos + Len(d)) + i] = c[i]
  <2>1. \A i \in 1..Len(c) : Len(d) + i \in 0 + Len(d) + 1..n /\ (0 + Len(d)) + i = Len(d) + i
    BY <1>1
  <2> QED
    BY <1>2, <1>3, <1>4, <2>1
<1>7. p.used - p.pos = Len(d) + Len(c)
  BY <1>1, <1>4
<1>8. Content(p) = d \o c
  BY <1>1, <1>4, <1>5, <1>6, <1>7, SplitContent
<1> QED
  BY <1>4, <1>8 DEF c, p

\* Clean sequences make clean sequences.
LEMMA CleanConcat ==
    ASSUME NEW b, Valid(b), Clean(b), NEW d \in Seq(Cell), NEW c, Valid(c),
           Content(c) = Content(b) \o d \/ Content(c) = d \o Content(b)
    PROVE  Clean(c)
<1>1. Content(b) \in Seq(Cell)
  BY ContentIsSeq
<1>2. Content(b) \o d \in Seq(Cell) /\ d \o Content(b) \in Seq(Cell)
  BY <1>1, ConcatProperties
<1> QED
  BY <1>2, CleanContent

\* Prepending has all of its effect or none.
LEMMA PrependProperties ==
    ASSUME NEW b, Valid(b), Clean(b), NEW d \in Seq(Cell), Len(d) < WordSize, NEW r \in prepend_data(b, d)
    PROVE  /\ r.ok \in BOOLEAN /\ Valid(r.b) /\ Clean(r.b)
           /\ Content(r.b) = IF r.ok THEN d \o Content(b) ELSE Content(b)
<1> DEFINE len == b.used - b.pos + Len(d)
<1>1. /\ b.allocated \in Nat /\ b.used \in Nat /\ b.pos \in Nat /\ b.pos <= b.used /\ b.used <= b.allocated
      /\ b.mem \in [1..b.allocated -> Any] /\ Len(d) \in Nat /\ d \in Seq(Any) /\ len \in Nat
  BY ValidFields, LenProperties, SeqMonotonic DEF Any
<1>2. b.used - b.pos \in 0..WordSize - 1 /\ Len(d) \in 0..WordSize - 1 /\ WordSize \in Nat
  BY <1>1, ValidFields, Sizes
<1>3. CASE Len(d) <= b.pos
  <2> DEFINE n == b.allocated
             at == b.pos - Len(d)
             m == Copy(b.mem, at, d)
             p == Block(m, n, b.used, at)
  <2>1. r = Done(p)
    BY <1>3 DEF prepend_data
  <2>2. at \in Nat /\ at + Len(d) <= n /\ at + Len(d) = b.pos /\ n \in Nat
    BY <1>1, <1>3
  <2>3. /\ m \in [1..n -> Any] /\ \A i \in 1..Len(d) : m[at + i] = d[i]
        /\ \A i \in at + Len(d) + 1..n : m[i] = b.mem[i]
    <3> DEFINE mem == b.mem
               c == Copy(mem, at, d)
    <3>1. mem \in [1..n -> Any] /\ d \in Seq(Any)
      BY <1>1
    <3> HIDE DEF at, n, mem
    <3>2. c \in [1..n -> Any]
      BY <2>2, <3>1, CopyProperties, ZenonT(40)
    <3>3. \A i \in 1..Len(d) : c[at + i] = d[i]
      BY <2>2, <3>1, CopyProperties, ZenonT(40)
    <3>4. \A i \in at + Len(d) + 1..n : c[i] = mem[i]
      BY <2>2, <3>1, CopyProperties, ZenonT(40)
    <3> QED
      BY <3>2, <3>3, <3>4 DEF mem
  <2>6. Valid(p) /\ p.mem = m /\ p.used = b.used /\ p.pos = at
    <3>1. b.used \in 0..n /\ at \in 0..b.used /\ n \in Powers /\ n <= SizeMax
      BY <1>1, <2>2, ValidFields, Sizes, SMTT(30)
    <3> HIDE DEF m, n, at
    <3>2. m \in [1..n -> Any]
      BY <2>3
    <3>3. Valid(p)
      BY <3>1, <3>2, BlockIsValid, Zenon
    <3> QED
      BY <3>3 DEF Block
  <2> HIDE DEF m, p
  <2>7. Content(p) = d \o Content(b)
    <3>1. Content(b) \in Seq(Any) /\ Len(Content(b)) = b.used - b.pos
      BY ContentIsSeq
    <3>2. \A i \in 1..Len(d) : p.mem[p.pos + i] = d[i]
      BY <2>3, <2>6
    <3>3. \A i \in 1..Len(Content(b)) : p.mem[(p.pos + Len(d)) + i] = Content(b)[i]
      <4>1. p.pos + Len(d) = b.pos
        BY <2>2, <2>6
      <4>2. \A i \in 1..b.used - b.pos : b.pos + i \in at + Len(d) + 1..n
        <5> DEFINE q == at + Len(d)
        <5>1. q = b.pos /\ b.used <= n /\ n \in Nat
          BY <1>1, <2>2
        <5> HIDE DEF q, n
        <5>2. \A i \in 1..b.used - b.pos : b.pos + i \in q + 1..n
          BY <1>1, <5>1
        <5> QED
          BY <5>2 DEF q
      <4>3. \A i \in 1..b.used - b.pos : Content(b)[i] = b.mem[b.pos + i]
        BY ContentIsSeq
      <4> HIDE DEF at, n
      <4> QED
        BY <2>3, <2>6, <3>1, <4>1, <4>2, <4>3
    <3>4. p.used - p.pos = Len(d) + Len(Content(b))
      BY <1>1, <2>6, <3>1
    <3> QED
      BY <1>1, <2>6, <3>1, <3>2, <3>3, <3>4, SplitContent
  <2>8. Clean(p)
    BY <2>6, <2>7, CleanConcat
  <2> QED
    BY <2>1, <2>6, <2>7, <2>8 DEF Done
<1>4. CASE ~(Len(d) <= b.pos) /\ Wrap(len) < Len(d)
  <2>1. r = Failed(b)
    BY <1>4 DEF prepend_data
  <2> QED
    BY <2>1 DEF Failed
<1>5. CASE ~(Len(d) <= b.pos) /\ ~(Wrap(len) < Len(d)) /\ b.allocated >= Wrap(len)
  <2>1. r = Done(HeadPut(b, d))
    BY <1>5 DEF prepend_data
  <2>2. (b.used - b.pos) + Len(d) <= b.allocated
    BY <1>1, <1>2, <1>5, WrapProperties
  <2>3. Valid(HeadPut(b, d)) /\ Content(HeadPut(b, d)) = d \o Content(b)
    BY <2>2, HeadPutPrepends
  <2>4. Clean(HeadPut(b, d))
    BY <2>3, CleanConcat
  <2> QED
    BY <2>1, <2>3, <2>4 DEF Done
<1>6. CASE ~(Len(d) <= b.pos) /\ ~(Wrap(len) < Len(d)) /\ ~(b.allocated >= Wrap(len))
  <2>1. r = Failed(b) \/ \E g \in realloc_buffer(b, len) : r = Done(HeadPut(g, d))
    BY <1>6 DEF prepend_data
  <2>2. CASE r = Failed(b)
    BY <2>2 DEF Failed
  <2>3. CASE r # Failed(b)
    <3>1. PICK g \in realloc_buffer(b, len) : r = Done(HeadPut(g, d))
      BY <2>1, <2>3
    <3>2. b.used <= len
      BY <1>1, <1>2, <1>6, WrapProperties
    <3> HIDE DEF len
    <3>3. /\ Valid(g) /\ Content(g) = Content(b) /\ Clean(g)
          /\ g.used = b.used /\ g.pos = b.pos /\ len < g.allocated
      BY <1>1, <3>2, Realloc
    <3>4. (g.used - g.pos) + Len(d) <= g.allocated
      <4>1. g.allocated \in Nat
        BY <3>3, ValidFields, Sizes
      <4> QED
        BY <1>1, <3>3, <4>1 DEF len
    <3>5. Valid(HeadPut(g, d)) /\ Content(HeadPut(g, d)) = d \o Content(g)
      BY <3>3, <3>4, HeadPutPrepends
    <3>6. Clean(HeadPut(g, d))
      BY <3>3, <3>5, CleanConcat
    <3> QED
      BY <3>1, <3>3, <3>5, <3>6 DEF Done
  <2> QED
    BY <2>2, <2>3
<1> QED
  BY <1>3, <1>4, <1>5, <1>6

\* What is passed is the begin of what was in the buffer.
LEMMA PassTakes ==
    ASSUME NEW b, Valid(b), Clean(b), NEW len \in Nat, b.pos + len <= b.used
    PROVE  /\ Front(b, len) \in Seq(Cell) /\ Len(Front(b, len)) = len
           /\ Valid(Pass(b, len)) /\ Clean(Pass(b, len)) /\ Content(b) = Front(b, len) \o Content(Pass(b, len))
<1> DEFINE f == Front(b, len)
           p == Pass(b, len)
<1>1. /\ b.allocated \in Nat /\ b.used \in Nat /\ b.pos \in Nat /\ b.used <= b.allocated
      /\ b.mem \in [1..b.allocated -> Any] /\ b.allocated \in Powers /\ b.allocated <= SizeMax
  BY ValidFields, Sizes
<1>2. f \in Seq(Cell) /\ Len(f) = len /\ \A i \in 1..len : f[i] = b.mem[b.pos + i]
  <2>1. \A i \in 1..len : b.mem[b.pos + i] \in Cell
    <3>1. \A i \in 1..len : b.pos + i \in b.pos + 1..b.used
      BY <1>1
    <3> QED
      BY <3>1 DEF Clean
  <2>2. f \in [1..len -> Cell]
    BY <2>1 DEF Front
  <2> QED
    BY <2>2, SeqDef, LenProperties DEF Front
<1>3. Valid(p) /\ p.mem = b.mem /\ p.used = b.used /\ p.pos = b.pos + len
  <2>1. b.used \in 0..b.allocated /\ b.pos + len \in 0..b.used
    BY <1>1
  <2> QED
    BY <1>1, <2>1, BlockIsValid DEF Pass, Block
<1> HIDE DEF f, p
<1>4. Content(p) \in Seq(Any) /\ Len(Content(p)) = b.used - (b.pos + len)
      /\ \A i \in 1..b.used - (b.pos + len) : Content(p)[i] = b.mem[(b.pos + len) + i]
  BY <1>3, ContentIsSeq
<1>5. Content(b) = f \o Content(p)
  <2>1. b.used - b.pos = Len(f) + Len(Content(p))
    BY <1>1, <1>2, <1>4
  <2>2. f \in Seq(Any)
    BY <1>2, SeqMonotonic DEF Any
  <2>3. \A i \in 1..Len(f) : b.mem[b.pos + i] = f[i]
    BY <1>2
  <2>4. \A i \in 1..Len(Content(p)) : b.mem[(b.pos + Len(f)) + i] = Content(p)[i]
    BY <1>2, <1>4
  <2> QED
    BY <1>4, <2>1, <2>2, <2>3, <2>4, SplitContent
<1>6. Clean(p)
  <2>1. \A i \in (b.pos + len) + 1..b.used : i \in b.pos + 1..b.used
    BY <1>1
  <2> QED
    BY <1>3, <2>1 DEF Clean
<1> QED
  BY <1>2, <1>3, <1>5, <1>6 DEF f, p

\* What is cut off is the end of what was in the buffer.
LEMMA CutTakes ==
    ASSUME NEW b, Valid(b), Clean(b), NEW len \in Nat, len <= b.used - b.pos
    PROVE  LET c == Block(b.mem, b.allocated, b.used - len, b.pos) IN
           /\ Valid(c) /\ Clean(c) /\ Content(b) = Content(c) \o [i \in 1..len |-> b.mem[b.used - len + i]]
<1> DEFINE f == [i \in 1..len |-> b.mem[b.used - len + i]]
           c == Block(b.mem, b.allocated, b.used - len, b.pos)
<1>1. /\ b.allocated \in Nat /\ b.used \in Nat /\ b.pos \in Nat /\ b.used <= b.allocated
      /\ b.mem \in [1..b.allocated -> Any] /\ b.allocated \in Powers /\ b.allocated <= SizeMax
  BY ValidFields, Sizes
<1>2. f \in Seq(Cell) /\ Len(f) = len /\ \A i \in 1..len : f[i] = b.mem[b.used - len + i]
  <2>1. \A i \in 1..len : b.mem[b.used - len + i] \in Cell
    <3>1. \A i \in 1..len : b.used - len + i \in b.pos + 1..b.used
      BY <1>1
    <3> QED
      BY <3>1 DEF Clean
  <2>2. f \in [1..len -> Cell]
    BY <2>1
  <2> QED
    BY <2>2, SeqDef, LenProperties
<1>3. Valid(c) /\ c.mem = b.mem /\ c.used = b.used - len /\ c.pos = b.pos
  <2>1. b.used - len \in 0..b.allocated /\ b.pos \in 0..b.used - len
    BY <1>1
  <2> QED
    BY <1>1, <2>1, BlockIsValid DEF Block
<1> HIDE DEF f, c
<1>4. Content(c) \in Seq(Any) /\ Len(Content(c)) = (b.used - len) - b.pos
      /\ \A i \in 1..(b.used - len) - b.pos : Content(c)[i] = b.mem[b.pos + i]
  BY <1>3, ContentIsSeq
<1>5. Content(b) = Content(c) \o f
  <2>1. b.used - b.pos = Len(Content(c)) + Len(f) /\ b.pos + Len(Content(c)) = b.used - len
    BY <1>1, <1>2, <1>4
  <2>2. f \in Seq(Any)
    BY <1>2, SeqMonotonic DEF Any
  <2>3. \A i \in 1..Len(f) : b.mem[(b.pos + Len(Content(c))) + i] = f[i]
    BY <1>2, <2>1
  <2>4. \A i \in 1..Len(Content(c)) : b.mem[b.pos + i] = Content(c)[i]
    BY <1>4
  <2> QED
    BY <1>4, <2>1, <2>2, <2>3, <2>4, SplitContent
<1>6. Clean(c)
  <2>1. \A i \in b.pos + 1..b.used - len : i \in b.pos + 1..b.used
    BY <1>1
  <2> QED
    BY <1>3, <2>1 DEF Clean
<1> QED
  BY <1>3, <1>5, <1>6 DEF f, c

\* A buffer whose block is not in use is valid and empty.
LEMMA EmptyBlock ==
    ASSUME NEW n \in Powers, n <= SizeMax, NEW m \in [1..n -> Any]
    PROVE  LET b == Block(m, n, 0, 0) IN Valid(b) /\ Clean(b) /\ Content(b) = <<>> /\ b.used = 0 /\ b.allocated = n
<1> DEFINE b == Block(m, n, 0, 0)
<1>1. 0 \in 0..n /\ 0 \in 0..0
  BY Sizes
<1>2. Valid(b) /\ b.used = 0 /\ b.pos = 0 /\ b.allocated = n
  BY <1>1, BlockIsValid
<1> HIDE DEF b
<1>3. Clean(b)
  BY <1>2 DEF Clean
<1>4. Content(b) \in Seq(Any) /\ Len(Content(b)) = 0
  BY <1>2, ContentIsSeq
<1> QED
  BY <1>2, <1>3, <1>4, EmptySeq DEF b

\* A place that is asked for is filled, or nothing happens.
LEMMA RoomIsFilled ==
    ASSUME NEW b, Valid(b), Clean(b), NEW len \in 0..WordSize - 1, NEW d \in Seq(Cell), Len(d) <= len,
           NEW q \in TailRoom(b, len), NEW r, r = IF q.ok THEN Done(Put(q.b, d)) ELSE q
    PROVE  /\ r.ok \in BOOLEAN /\ Valid(r.b) /\ Clean(r.b)
           /\ Content(r.b) = IF r.ok THEN Content(b) \o d ELSE Content(b)
<1>1. /\ q.ok \in BOOLEAN /\ Valid(q.b) /\ Content(q.b) = Content(b) /\ Clean(q.b)
      /\ q.ok => q.b.used + len <= q.b.allocated
  BY TailRoomProperties
<1>2. CASE q.ok
  <2>1. q.b.used + Len(d) <= q.b.allocated
    BY <1>1, <1>2, ValidFields, LenProperties, Sizes
  <2>2. Valid(Put(q.b, d)) /\ Content(Put(q.b, d)) = Content(b) \o d /\ Clean(Put(q.b, d))
    BY <1>1, <2>1, PutAppends
  <2> QED
    BY <1>2, <2>2 DEF Done
<1>3. CASE ~q.ok
  BY <1>1, <1>3
<1> QED
  BY <1>2, <1>3

-----------------------------------------------------------------------------
(***************************************************************************)
(* The calls: each keeps the invariant and is a step of the queue.         *)
(***************************************************************************)

\* A call that leaves a valid and clean buffer keeps the invariant.
LEMMA ReturnsKeeps ==
    ASSUME NEW op, NEW n, NEW d, NEW r, Returns(op, n, d, r), Valid(r.b), Clean(r.b)
    PROVE  /\ Inv' /\ buf' = r.b /\ Content(buf)' = Content(r.b)
           /\ call'.op = op /\ call'.n = n /\ call'.data = d /\ call'.ok = r.ok
<1>1. buf' = r.b /\ call'.op = op /\ call'.n = n /\ call'.data = d /\ call'.ok = r.ok
  BY DEF Returns
<1>2. Content(buf)' = Content(r.b)
  BY <1>1
<1>3. Inv'
  <2>1. Valid(buf') /\ Clean(buf')
    BY <1>1
  <2> QED
    BY <2>1 DEF Inv
<1> QED
  BY <1>1, <1>2, <1>3

\* What is added, copied or received.
LEMMA AddStep ==
    ASSUME Inv, NEW d \in Data, AddData(d) \/ \E len \in Lengths : Receive(len, d)
    PROVE  Inv' /\ Queue!Add
<1>1. d \in Seq(Cell) /\ Len(d) \in 0..WordSize - 1 /\ Len(d) <= Len(d)
  BY BufferAssumption, Sizes, LenProperties DEF BufferAssumption
<1>2. PICK len, q, r :
          /\ len \in 0..WordSize - 1
          /\ q \in TailRoom(buf, len) /\ Len(d) <= len /\ r = IF q.ok THEN Done(Put(q.b, d)) ELSE q
          /\ Returns("add", Len(d), d, r)
  <2>1. CASE AddData(d)
    <3>1. PICK r \in add_data(buf, d) : Returns("add", Len(d), d, r)
      BY <2>1 DEF AddData
    <3>2. PICK q \in TailRoom(buf, Len(d)) : r = IF q.ok THEN Done(Put(q.b, d)) ELSE q
      BY <3>1 DEF add_data
    <3> QED
      BY <1>1, <3>1, <3>2
  <2>2. CASE \E len \in Lengths : Receive(len, d)
    <3>1. PICK len \in Lengths : Receive(len, d)
      BY <2>2
    <3>2. len \in 0..WordSize - 1
      BY BufferAssumption DEF BufferAssumption
    <3>3. Len(d) <= len /\ \E q \in TailRoom(buf, len) : Returns("add", Len(d), d, IF q.ok THEN Done(Put(q.b, d)) ELSE q)
      BY <3>1 DEF Receive
    <3> QED
      BY <3>2, <3>3
  <2> QED
    BY <2>1, <2>2
<1>3. /\ r.ok \in BOOLEAN /\ Valid(r.b) /\ Clean(r.b)
      /\ Content(r.b) = IF r.ok THEN Content(buf) \o d ELSE Content(buf)
  BY <1>1, <1>2, RoomIsFilled DEF Inv
<1>4. /\ Inv' /\ Content(buf)' = Content(r.b)
      /\ call'.op = "add" /\ call'.data = d /\ call'.ok = r.ok
  BY <1>2, <1>3, ReturnsKeeps
<1> QED
  BY <1>3, <1>4 DEF Queue!Add, Queue!Changes

LEMMA PrependStep ==
    ASSUME Inv, NEW d \in Data, PrependData(d)
    PROVE  Inv' /\ Queue!Prepend
<1>1. d \in Seq(Cell) /\ Len(d) < WordSize
  BY BufferAssumption DEF BufferAssumption
<1>2. PICK r \in prepend_data(buf, d) : Returns("prepend", Len(d), d, r)
  BY DEF PrependData
<1>3. /\ r.ok \in BOOLEAN /\ Valid(r.b) /\ Clean(r.b)
      /\ Content(r.b) = IF r.ok THEN d \o Content(buf) ELSE Content(buf)
  BY <1>1, <1>2, PrependProperties DEF Inv
<1>4. /\ Inv' /\ Content(buf)' = Content(r.b)
      /\ call'.op = "prepend" /\ call'.data = d /\ call'.ok = r.ok
  BY <1>2, <1>3, ReturnsKeeps
<1> QED
  BY <1>3, <1>4 DEF Queue!Prepend, Queue!Changes

LEMMA ReserveStep ==
    ASSUME Inv, NEW len \in Lengths, allocate_size(len)
    PROVE  Inv' /\ Queue!Reserve
<1> DEFINE s == buffer_shift(buf)
<1>1. len \in Nat /\ Valid(buf) /\ Clean(buf)
  BY BufferAssumption, Sizes DEF BufferAssumption, Inv
<1>2. Valid(s) /\ Content(s) = Content(buf) /\ Clean(s) /\ s.used <= buf.allocated
  BY <1>1, Shift, ValidFields, Sizes
<1> HIDE DEF s
<1>3. PICK r :
          /\ Returns("reserve", len, <<>>, r)
          /\ \/ buf.allocated >= len /\ r = Done(buf)
             \/ r = Failed(s)
             \/ ~(buf.allocated >= len) /\ \E g \in realloc_buffer(s, len) : r = Done(g)
  BY DEF allocate_size, s
<1>4. Valid(r.b) /\ Clean(r.b) /\ Content(r.b) = Content(buf)
  <2>1. CASE r = Done(buf)
    BY <1>1, <2>1 DEF Done
  <2>2. CASE r = Failed(s)
    BY <1>2, <2>2 DEF Failed
  <2>3. ASSUME ~(buf.allocated >= len), NEW g \in realloc_buffer(s, len), r = Done(g)
        PROVE  Valid(r.b) /\ Clean(r.b) /\ Content(r.b) = Content(buf)
    <3>1. s.used <= len
      BY <1>1, <1>2, <2>3, ValidFields, Sizes
    <3>2. Valid(g) /\ Content(g) = Content(s) /\ Clean(g)
      BY <1>1, <1>2, <2>3, <3>1, Realloc
    <3>3. r.b = g
      BY <2>3 DEF Done
    <3> QED
      BY <1>2, <3>2, <3>3
  <2> QED
    BY <1>3, <2>1, <2>2, <2>3
<1>5. Inv' /\ Content(buf)' = Content(r.b) /\ call'.op = "reserve"
  BY <1>3, <1>4, ReturnsKeeps
<1> QED
  BY <1>4, <1>5 DEF Queue!Reserve, Queue!Changes

LEMMA TakeStep ==
    ASSUME Inv, NEW len \in Lengths, get_data(len) \/ pass_bytes(len)
    PROVE  Inv' /\ Queue!Take
<1>1. /\ len \in 0..WordSize - 1 /\ len \in Nat /\ Valid(buf) /\ Clean(buf) /\ WordSize \in Nat
      /\ buf.pos \in 0..WordSize - 1 /\ buf.used \in 0..WordSize - 1 /\ buf.pos <= buf.used
      /\ Len(Content(buf)) = buf.used - buf.pos
  BY BufferAssumption, Sizes, ValidFields, ContentIsSeq DEF BufferAssumption, Inv
<1>2. CASE ~(buf.pos + len <= buf.used)
  <2>1. Wrap(buf.pos + len) < len \/ buf.used < Wrap(buf.pos + len)
    BY <1>1, <1>2, WrapProperties
  <2>2. Returns("take", len, <<>>, Failed(buf))
    BY <1>2, <2>1 DEF get_data, pass_bytes, validate_length
  <2>3. Failed(buf).b = buf /\ Failed(buf).ok = FALSE
    BY DEF Failed
  <2>4. Inv' /\ Content(buf)' = Content(buf) /\ call'.op = "take" /\ call'.n = len /\ call'.ok = FALSE
    BY <1>1, <2>2, <2>3, ReturnsKeeps
  <2>5. (len <= Len(Content(buf))) = FALSE
    BY <1>1, <1>2
  <2> QED
    BY <2>4, <2>5, Zenon DEF Queue!Take, Queue!Changes
<1>3. CASE buf.pos + len <= buf.used
  <2> DEFINE empty == Block(buf.mem, buf.allocated, 0, 0)
             f == Front(buf, len)
             p == Pass(buf, len)
  <2>1. ~(Wrap(buf.pos + len) < len) /\ ~(buf.used < Wrap(buf.pos + len))
    BY <1>1, <1>3, WrapProperties
  <2>2. PICK b : Returns("take", len, f, Done(b)) /\ (b = p \/ (buf.pos + len = buf.used /\ b = empty))
    BY <1>3, <2>1 DEF get_data, pass_bytes, validate_length
  <2>3. f \in Seq(Cell) /\ Len(f) = len /\ Valid(p) /\ Clean(p) /\ Content(buf) = f \o Content(p)
    BY <1>1, <1>3, PassTakes
  <2>4. Valid(b) /\ Clean(b) /\ Content(b) = Content(p)
    <3>1. CASE b = p
      BY <2>3, <3>1
    <3>2. CASE buf.pos + len = buf.used /\ b = empty
      <4>1. Valid(empty) /\ Clean(empty) /\ Content(empty) = <<>>
        BY <1>1, ValidFields, EmptyBlock
      <4>2. Content(p) \in Seq(Any) /\ Len(Content(p)) = 0
        <5>1. p.used = buf.used /\ p.pos = buf.pos + len
          BY DEF Pass, Block
        <5> QED
          BY <1>1, <2>3, <3>2, <5>1, ContentIsSeq
      <4>3. Content(p) = <<>>
        BY <4>2, EmptySeq
      <4> QED
        BY <3>2, <4>1, <4>3
    <3> QED
      BY <2>2, <3>1, <3>2
  <2> HIDE DEF f, p
  <2>5. Done(b).b = b /\ Done(b).ok = TRUE
    BY DEF Done
  <2>6. Inv' /\ Content(buf)' = Content(b) /\ call'.op = "take" /\ call'.n = len /\ call'.data = f /\ call'.ok = TRUE
    BY <2>2, <2>4, <2>5, ReturnsKeeps
  <2>7. (len <= Len(Content(buf))) = TRUE
    BY <1>1, <1>3
  <2> QED
    BY <2>3, <2>4, <2>6, <2>7, Zenon DEF Queue!Take, Queue!Changes
<1> QED
  BY <1>2, <1>3

LEMMA CutStep ==
    ASSUME Inv, NEW len \in Lengths, pass_bytes_end(len)
    PROVE  Inv' /\ Queue!Cut
<1> DEFINE f == [i \in 1..len |-> buf.mem[buf.used - len + i]]
           c == Block(buf.mem, buf.allocated, buf.used - len, buf.pos)
<1>1. len \in Nat /\ Valid(buf) /\ Clean(buf) /\ len <= buf.used - buf.pos
  BY BufferAssumption, Sizes DEF BufferAssumption, Inv, pass_bytes_end
<1>2. Returns("cut", len, f, Done(c))
  BY DEF pass_bytes_end
<1>3. Valid(c) /\ Clean(c) /\ Content(buf) = Content(c) \o f
  BY <1>1, CutTakes
<1> HIDE DEF c, f
<1>4. Done(c).b = c /\ Done(c).ok = TRUE
  BY DEF Done
<1>5. Inv' /\ Content(buf)' = Content(c) /\ call'.op = "cut" /\ call'.data = f /\ call'.ok = TRUE
  BY <1>2, <1>3, <1>4, ReturnsKeeps
<1> QED
  BY <1>3, <1>5 DEF Queue!Cut, Queue!Changes

LEMMA StringStep ==
    ASSUME Inv, get_ssh_string
    PROVE  Inv' /\ Queue!TakeString
<1> DEFINE n == buf.mem[buf.pos + 1]
           rest == Pass(buf, 1)
           c == Content(buf)
<1>1. Valid(buf) /\ Clean(buf) /\ buf.pos \in Nat /\ buf.used \in Nat
  BY ValidFields, Sizes DEF Inv
<1>2. CASE ~(buf.pos + 1 <= buf.used)
  <2>1. Returns("string", 0, <<>>, Failed(buf))
    BY <1>2 DEF get_ssh_string, validate_length
  <2>2. Failed(buf).b = buf /\ Failed(buf).ok = FALSE
    BY DEF Failed
  <2>3. Inv' /\ Content(buf)' = c /\ call'.op = "string" /\ call'.ok = FALSE
    BY <1>1, <2>1, <2>2, ReturnsKeeps
  <2> HIDE DEF c
  <2> QED
    BY <2>3 DEF Queue!TakeString, c
<1>3. CASE buf.pos + 1 <= buf.used
  <2> DEFINE h == Front(buf, 1)
             t == Content(rest)
  <2>1. h \in Seq(Cell) /\ Len(h) = 1 /\ Valid(rest) /\ Clean(rest) /\ c = h \o t
    BY <1>1, <1>3, PassTakes
  <2>2. h = <<n>> /\ n \in Nat
    <3>1. buf.pos + 1 \in buf.pos + 1..buf.used
      BY <1>1, <1>3
    <3>2. n \in Cell
      BY <1>1, <3>1 DEF Clean
    <3>3. h = <<n>>
      BY DEF Front
    <3> QED
      BY <3>2, <3>3, Sizes
  <2>3. t \in Seq(Any)
    BY <2>1, ContentIsSeq
  <2>4. CASE ~(rest.pos + n <= rest.used)
    <3>1. Returns("string", n, <<>>, Failed(rest))
      BY <1>3, <2>4 DEF get_ssh_string, validate_length
    <3>2. Failed(rest).b = rest /\ Failed(rest).ok = FALSE
      BY DEF Failed
    <3> HIDE DEF n, rest
    <3>3. Inv' /\ Content(buf)' = t /\ call'.op = "string" /\ call'.ok = FALSE
      BY <2>1, <3>1, <3>2, ReturnsKeeps
    <3>4. c # <<>> /\ Tail(c) = t
      <4> HIDE DEF t, c, h
      <4>1. n \in Any \cup Nat /\ <<n>> \in Seq(Any \cup Nat) /\ t \in Seq(Any \cup Nat)
        BY <2>2, <2>3
      <4> QED
        BY <2>1, <2>2, <2>3, <4>1
    <3> HIDE DEF c, t
    <3> QED
      BY <3>3, <3>4 DEF Queue!TakeString, c
  <2>5. CASE rest.pos + n <= rest.used
    <3> DEFINE f == Front(rest, n)
               p == Pass(rest, n)
    <3>1. Returns("string", n, f, Done(p))
      BY <1>3, <2>5 DEF get_ssh_string, validate_length
    <3>2. Done(p).b = p /\ Done(p).ok = TRUE
      BY DEF Done
    <3> HIDE DEF n, rest
    <3>3. Valid(p) /\ Clean(p) /\ t = f \o Content(p)
      BY <2>1, <2>2, <2>5, PassTakes
    <3> HIDE DEF f, p
    <3>4. Inv' /\ Content(buf)' = Content(p) /\ call'.op = "string" /\ call'.n = n /\ call'.data = f /\ call'.ok = TRUE
      BY <3>1, <3>2, <3>3, ReturnsKeeps
    <3> HIDE DEF h, t, c
    <3>5. c = <<n>> \o (f \o Content(p))
      BY <2>1, <2>2, <3>3
    <3> QED
      BY <3>4, <3>5 DEF Queue!TakeString, c
  <2> QED
    BY <2>4, <2>5
<1> QED
  BY <1>2, <1>3

LEMMA ClearStep ==
    ASSUME Inv, reinit
    PROVE  Inv' /\ Queue!Clear
<1> DEFINE e == Block(buf.mem, buf.allocated, 0, 0)
<1>1. Valid(e) /\ Clean(e) /\ Content(e) = <<>> /\ e.used = 0
  <2>1. Valid(buf)
    BY DEF Inv
  <2>2. buf.allocated \in Powers /\ buf.allocated <= SizeMax /\ buf.mem \in [1..buf.allocated -> Any]
    BY <2>1, ValidFields, Sizes
  <2> QED
    BY <2>2, EmptyBlock
<1>2. PICK r : /\ Returns("clear", 0, <<>>, r)
               /\ r = Done(e) \/ r = Failed(e) \/ \E g \in realloc_buffer(e, KeepSize - 1) : r = Done(g)
  BY DEF reinit
<1> HIDE DEF e
<1>3. Valid(r.b) /\ Clean(r.b) /\ Content(r.b) = <<>>
  <2>1. CASE r = Done(e) \/ r = Failed(e)
    BY <1>1, <2>1 DEF Done, Failed
  <2>2. ASSUME NEW g \in realloc_buffer(e, KeepSize - 1), r = Done(g)
        PROVE  Valid(r.b) /\ Clean(r.b) /\ Content(r.b) = <<>>
    <3>1. KeepSize - 1 \in Nat /\ e.used <= KeepSize - 1
      BY <1>1, Sizes
    <3>2. Valid(g) /\ Content(g) = Content(e) /\ Clean(g)
      BY <1>1, <2>2, <3>1, Realloc
    <3>3. r.b = g
      BY <2>2 DEF Done
    <3> QED
      BY <1>1, <3>2, <3>3
  <2> QED
    BY <1>2, <2>1, <2>2
<1>4. Inv' /\ Content(buf)' = Content(r.b) /\ call'.op = "clear"
  BY <1>2, <1>3, ReturnsKeeps
<1> QED
  BY <1>3, <1>4 DEF Queue!Clear

\* A new buffer is an empty queue.
LEMMA InvInit == Init => Inv /\ Queue!Init
<1> SUFFICES ASSUME Init PROVE Inv /\ Queue!Init
  OBVIOUS
<1> DEFINE m == [i \in 1..NewSize |-> Junk]
<1>1. NewSize \in Powers /\ NewSize <= SizeMax
  BY BufferAssumption DEF BufferAssumption
<1>2. m \in [1..NewSize -> Any]
  BY DEF Any
<1>3. buf = Block(m, NewSize, 0, 0) /\ call.op = "new"
  BY DEF Init, New
<1> HIDE DEF m
<1>4. Valid(buf) /\ Clean(buf) /\ Content(buf) = <<>>
  BY <1>1, <1>2, <1>3, EmptyBlock
<1> QED
  BY <1>3, <1>4 DEF Inv, Queue!Init

\* Every call keeps the invariant and is a step of the queue.
LEMMA InvNext == Inv /\ [Next]_vars => Inv' /\ [Queue!Next]_<<Content(buf), call>>
<1> SUFFICES ASSUME Inv, [Next]_vars PROVE Inv' /\ [Queue!Next]_<<Content(buf), call>>
  OBVIOUS
<1>1. CASE UNCHANGED vars
  <2>1. buf' = buf /\ call' = call
    BY <1>1 DEF vars
  <2>2. Inv' /\ Content(buf)' = Content(buf)
    BY <2>1 DEF Inv
  <2> QED
    BY <2>1, <2>2
<1>2. ASSUME NEW d \in Data, AddData(d) \/ \E len \in Lengths : Receive(len, d) PROVE Inv' /\ Queue!Next
  BY <1>2, AddStep DEF Queue!Next
<1>3. ASSUME NEW d \in Data, PrependData(d) PROVE Inv' /\ Queue!Next
  BY <1>3, PrependStep DEF Queue!Next
<1>4. ASSUME NEW len \in Lengths, allocate_size(len) PROVE Inv' /\ Queue!Next
  BY <1>4, ReserveStep DEF Queue!Next
<1>5. ASSUME NEW len \in Lengths, get_data(len) \/ pass_bytes(len) PROVE Inv' /\ Queue!Next
  BY <1>5, TakeStep DEF Queue!Next
<1>6. ASSUME NEW len \in Lengths, pass_bytes_end(len) PROVE Inv' /\ Queue!Next
  BY <1>6, CutStep DEF Queue!Next
<1>7. CASE get_ssh_string
  BY <1>7, StringStep DEF Queue!Next
<1>8. CASE reinit
  BY <1>8, ClearStep DEF Queue!Next
<1> QED
  BY <1>1, <1>2, <1>3, <1>4, <1>5, <1>6, <1>7, <1>8 DEF Next

-----------------------------------------------------------------------------
\* The bounds of buffer_verify hold after every call, and nothing is written past the memory.
THEOREM TypeCorrect == Spec => []BufferTypeOK
<1>1. Inv => BufferTypeOK
  BY DEF Inv, Valid, BufferTypeOK, Block, Any
<1> QED
  BY <1>1, InvInit, InvNext, PTL DEF Spec

\* No byte is in a buffer that no caller has put there.
THEOREM Invented == Spec => []NothingInvented
<1>1. ASSUME Inv PROVE NothingInvented
  <2>1. Valid(buf) /\ Clean(buf)
    BY <1>1 DEF Inv
  <2>2. Content(buf) \in Seq(Cell) /\ Len(Content(buf)) = buf.used - buf.pos
    BY <2>1, ContentIsSeq
  <2> QED
    BY <2>2, ElementOfSeq DEF NothingInvented
<1> QED
  BY <1>1, InvInit, InvNext, PTL DEF Spec

\* A buffer is a queue of bytes, whatever it shifts, moves and reallocates.
THEOREM Implements == Spec => IsByteQueue
BY InvInit, InvNext, PTL DEF Spec, IsByteQueue, Queue!Spec

-----------------------------------------------------------------------------
(***************************************************************************)
(* ClientAuth.  AuthInv ties the call under way, the request that is       *)
(* pending, the one packet that is on its way and session->auth.state to   *)
(* each other: an answer is always that to the newest request, and a call  *)
(* only waits for a request that it made itself, now or before it timed    *)
(* out.  A session that was closed promises only its types.                *)
(***************************************************************************)
Requests == [part : Parts, key : Keys \cup {0}, asked : BOOLEAN,
             verdict : {"none", "success", "partial", "failure", "pk_ok", "info", "bad_info", "unimplemented"}]
AuthTyped == AuthTypeOK /\ requests \in Seq(Requests)
Newest == requests[Len(requests)]

\* Whose part it is, and what key it is about.
Owner(part) ==
    IF part \in {"offer", "sign"} THEN "agent" ELSE IF part \in {"init", "send"} THEN "kbdint" ELSE part
KeyOf(part) ==
    IF part \in {"offer", "sign"} THEN agent.key ELSE IF part = "publickey" THEN KeyFile ELSE 0

\* A call that runs, and what the next one goes on with.
AuthCallInv ==
    /\ authCall.at = "idle" => authCall = NoCall
    /\ authCall.at # "idle" =>
        /\ authCall.method \in Methods /\ authCall.method = Owner(authCall.part) /\ authCall.key = KeyOf(authCall.part)
        /\ last.rc = "none" /\ calls # 0
        /\ authCall.method = "agent" => agent.key # 0 /\ (authCall.part = "sign" <=> agent.state = "AUTH")
    /\ authCall.at = "response" => pending = authCall.part
    /\ authCall.at = "service" => pending = "nothing" /\ authCall.part # "send"
    /\ authCall.at # "idle" /\ pending = "nothing" /\ authCall.part = "send" => kbdint # "none"

\* What the server may say to a request, and what a verdict makes of the state.
Possible(part) == Verdicts(part) \cup (IF part = "send" THEN {"unimplemented"} ELSE {})
StateOf == [success |-> "SUCCESS", partial |-> "PARTIAL", failure |-> "FAILED", pk_ok |-> "PK_OK", info |-> "INFO"]

\* One packet at most is under way, and it belongs to the request that is pending.
Sent == toServer = <<pending>> /\ toClient = <<>> /\ Newest.verdict = "none" /\ auth = SentState[pending]
Coming ==
    /\ toServer = <<>> /\ toClient = <<Newest.verdict>> /\ Newest.verdict \in Possible(pending)
    /\ auth = SentState[pending] /\ (Newest.verdict = "info" => asking)
Broken == toServer = <<>> /\ toClient = <<"disconnect">>
Arrived ==
    /\ toServer = <<>> /\ toClient = <<>> /\ Newest.verdict \in Possible(pending)
    /\ auth = IF Newest.verdict \in {"bad_info", "unimplemented"} THEN SentState[pending] ELSE StateOf[Newest.verdict]
WireInv ==
    /\ \A i \in 1..(Len(requests) - 1) : requests[i].verdict # "none"
    /\ service # "ACCEPTED" => requests = <<>> /\ pending = "nothing" /\ kbdint = "none"
    /\ service = "NONE" => toServer = <<>> /\ toClient = <<>>
    /\ service = "SENT" =>
        \/ toServer = <<"service">> /\ toClient = <<>>
        \/ toServer = <<>> /\ toClient = <<"service_accept">>
        \/ Broken
    /\ service = "ACCEPTED" /\ pending = "nothing" =>
        toServer = <<>> /\ toClient = <<>> /\ (requests # <<>> => Newest.verdict # "none")
    /\ pending # "nothing" =>
        /\ requests # <<>> /\ Newest.part = pending /\ Newest.key = KeyOf(pending) /\ calls # 0
        /\ pending \in {"offer", "sign"} => agent.key # 0 /\ (pending = "sign" <=> agent.state = "AUTH")
        /\ Sent \/ Coming \/ (Broken /\ auth = SentState[pending]) \/ Arrived
    /\ session \in {"AUTHENTICATING", "AUTHENTICATED"}

\* The keys before the agent's key were refused.
Refused(k) ==
    \E i \in 1..Len(requests) :
        requests[i].part \in {"offer", "sign"} /\ requests[i].key = k /\ requests[i].verdict = "failure"
AgentInv ==
    /\ agent.key = 0 => agent.state # "AUTH"
    /\ agent.key # 0 =>
        agent.key \in Candidates /\ \A k \in Candidates \cap Usable : k < agent.key => Refused(k)

ReturnInv ==
    last.rc \in {"SUCCESS", "DENIED", "PARTIAL", "INFO"} => pending = "nothing"

\* The questions that were taken are open as long as nobody else asks.
AskInv ==
    OneAtATime /\ kbdint # "none" =>
        /\ asking /\ toServer = <<>> /\ calls # 0
        /\ pending \in {"nothing", "init", "send"}
        /\ authCall.at # "idle" /\ pending = "nothing" => authCall.part = "send"
KbdInv ==
    "kbdint" \notin Methods => kbdint = "none" /\ pending \notin {"init", "send"}

AuthLive ==
    /\ AuthCallInv /\ WireInv /\ AgentInv /\ ReturnInv /\ AskInv /\ KbdInv
    /\ AnswersAreOwn /\ AuthenticatedIsGranted /\ AgentIsThorough
AuthInv ==
    /\ AuthTyped
    /\ OneAtATime => QuestionsAreOpen
    /\ session # "DISCONNECTED" => AuthLive

-----------------------------------------------------------------------------
LEMMA MinProperties ==
    ASSUME NEW S \in SUBSET Nat, S # {}
    PROVE  Min(S) \in S /\ \A n \in S : Min(S) <= n
  <1>. DEFINE R == {ss \in Nat \X Nat : ss[1] < ss[2]}
  <1>1. IsWellFoundedOn(R, Nat)  BY NatLessThanWellFounded DEF OpToRel
  <1>. HIDE DEF R
  <1>2. PICK m \in S : \A n \in S : ~(<<n, m>> \in R)
    BY <1>1, WFMin
  <1>3. ASSUME NEW n \in S  PROVE m <= n
    <2>1. n \in Nat /\ m \in Nat  OBVIOUS
    <2>2. n < m => <<n, m>> \in R  BY <2>1 DEF R
    <2>. QED  BY <1>2, <2>1, <2>2
  <1>. QED  BY <1>3 DEF Min

\* One packet in a queue.
LEMMA OnePacket ==
    ASSUME NEW m
    PROVE  Append(<<>>, m) = <<m>> /\ Head(<<m>>) = m /\ Tail(<<m>>) = <<>> /\ <<m>> # <<>>
  OBVIOUS

\* The parts and the states.
LEMMA PartFacts ==
    /\ Parts = {"none", "password", "publickey", "sign", "offer", "init", "send"}
    /\ Awaiting = {"AUTH_NONE_SENT", "PASSWORD_AUTH_SENT", "PUBKEY_AUTH_SENT", "PUBKEY_OFFER_SENT", "KBDINT_SENT"}
    /\ \A p \in Parts :
        /\ SentState[p] \in Awaiting
        /\ SentState[p] = "PUBKEY_OFFER_SENT" <=> p = "offer"
        /\ SentState[p] = "KBDINT_SENT" <=> p \in {"init", "send"}
  <1>1. Parts = {"none", "password", "publickey", "sign", "offer", "init", "send"}  BY DEF Parts, SentState
  <1>2. /\ SentState["none"] = "AUTH_NONE_SENT" /\ SentState["password"] = "PASSWORD_AUTH_SENT"
        /\ SentState["publickey"] = "PUBKEY_AUTH_SENT" /\ SentState["sign"] = "PUBKEY_AUTH_SENT"
        /\ SentState["offer"] = "PUBKEY_OFFER_SENT" /\ SentState["init"] = "KBDINT_SENT"
        /\ SentState["send"] = "KBDINT_SENT"
    BY DEF SentState
  <1>. QED  BY <1>1, <1>2 DEF Awaiting

LEMMA VerdictFacts ==
    /\ DOMAIN StateOf = {"success", "partial", "failure", "pk_ok", "info"}
    /\ DOMAIN Told = {"success", "partial", "failure", "info"}
    /\ DOMAIN Result = {"NONE", "ERROR", "FAILED", "INFO", "PARTIAL", "PK_OK", "SUCCESS"}
    /\ \A v \in DOMAIN StateOf : StateOf[v] \in DOMAIN Result /\ StateOf[v] \notin Awaiting
    /\ \A v \in DOMAIN Told : Result[StateOf[v]] = Told[v]
    /\ \A v \in DOMAIN Told : Told[v] \in {"SUCCESS", "DENIED", "PARTIAL", "INFO"}
    /\ \A v \in DOMAIN Told : (Told[v] = "DENIED" <=> v = "failure") /\ (Told[v] = "INFO" <=> v = "info")
    /\ \A v \in DOMAIN Told : (Told[v] = "PARTIAL" <=> v = "partial")
    /\ Result[StateOf["pk_ok"]] = "SUCCESS"
    /\ \A a \in DOMAIN Result : Result[a] \in {"ERROR", "SUCCESS", "DENIED", "PARTIAL", "INFO"}
  <1>1. /\ StateOf["success"] = "SUCCESS" /\ StateOf["partial"] = "PARTIAL" /\ StateOf["failure"] = "FAILED"
        /\ StateOf["pk_ok"] = "PK_OK" /\ StateOf["info"] = "INFO"
        /\ DOMAIN StateOf = {"success", "partial", "failure", "pk_ok", "info"}
    BY DEF StateOf
  <1>2. /\ Told["success"] = "SUCCESS" /\ Told["partial"] = "PARTIAL" /\ Told["failure"] = "DENIED"
        /\ Told["info"] = "INFO" /\ DOMAIN Told = {"success", "partial", "failure", "info"}
    BY DEF Told
  <1>3. /\ Result["NONE"] = "ERROR" /\ Result["ERROR"] = "ERROR" /\ Result["FAILED"] = "DENIED"
        /\ Result["INFO"] = "INFO" /\ Result["PARTIAL"] = "PARTIAL" /\ Result["PK_OK"] = "SUCCESS"
        /\ Result["SUCCESS"] = "SUCCESS"
        /\ DOMAIN Result = {"NONE", "ERROR", "FAILED", "INFO", "PARTIAL", "PK_OK", "SUCCESS"}
    BY DEF Result
  <1>. QED  BY <1>1, <1>2, <1>3, PartFacts

\* The keys of the agent, in order.
LEMMA KeyFacts ==
    ASSUME AuthAssumption, AuthTyped
    PROVE  /\ KeyFile \in Keys /\ 0 \notin Keys /\ Keys \subseteq Nat /\ Candidates \subseteq Keys
           /\ \A c \in Nat :
                /\ NextIdent(c) \in Candidates \cup {0} /\ (NextIdent(c) # 0 => NextIdent(c) > c)
                /\ NextIdent(c) # 0 => \A k \in Candidates : k < NextIdent(c) => k <= c
                /\ NextIdent(c) = 0 => \A k \in Candidates : k <= c
  <1>1. Keys \subseteq Nat /\ Keys # {} /\ 0 \notin Keys  BY DEF AuthAssumption
  <1>2. KeyFile \in Keys  BY <1>1, MinProperties DEF KeyFile
  <1>3. Candidates \subseteq Keys  BY DEF AuthTyped, AuthTypeOK, Candidates
  <1>4. ASSUME NEW c \in Nat
        PROVE  /\ NextIdent(c) \in Candidates \cup {0} /\ (NextIdent(c) # 0 => NextIdent(c) > c)
               /\ NextIdent(c) # 0 => \A k \in Candidates : k < NextIdent(c) => k <= c
               /\ NextIdent(c) = 0 => \A k \in Candidates : k <= c
    <2>. DEFINE later == {k \in Candidates : k > c}
    <2>1. NextIdent(c) = IF later = {} THEN 0 ELSE Min(later)  BY DEF NextIdent
    <2>2. later \in SUBSET Nat /\ later \subseteq Candidates  BY <1>1, <1>3
    <2>3. CASE later = {}
      <3>1. \A k \in Candidates : ~(k > c)  BY <2>3
      <3>. QED  BY <1>1, <1>3, <2>1, <2>3, <3>1
    <2>4. CASE later # {}
      <3>1. NextIdent(c) \in later /\ \A k \in later : NextIdent(c) <= k
        BY <2>1, <2>2, <2>4, MinProperties
      <3>2. NextIdent(c) \in Candidates /\ NextIdent(c) > c /\ NextIdent(c) # 0  BY <1>1, <1>3, <3>1
      <3>3. \A k \in Candidates : k > c => NextIdent(c) <= k  BY <3>1
      <3>4. ASSUME NEW k \in Candidates, k < NextIdent(c)  PROVE k <= c
        <4>1. k \in Nat /\ NextIdent(c) \in Nat  BY <1>1, <1>3, <3>2
        <4>. QED  BY <3>3, <3>4, <4>1
      <3>. QED  BY <3>2, <3>4
    <2>. QED  BY <2>3, <2>4
  <1>. QED  BY <1>1, <1>2, <1>3, <1>4

-----------------------------------------------------------------------------
Rcs == {"AGAIN", "ERROR", "DENIED", "INFO", "PARTIAL", "SUCCESS"}
CallRecords ==
    [method : Methods \cup {"none"}, part : Parts, key : Keys \cup {0},
     at : {"idle", "enter", "service", "response"}]
LastRecords == [method : Methods \cup {"none"}, part : Parts, key : Keys \cup {0}, rc : {"none"} \cup Rcs]
AgentRecords == [key : Keys \cup {0}, state : {"NONE", "PUBKEY", "AUTH"}, keys : SUBSET Keys]

LEMMA EndedTyped ==
    ASSUME AuthTyped, NEW rc \in Rcs, Ended(rc)
    PROVE  authCall' \in CallRecords /\ last' \in LastRecords
  <1>1. authCall \in CallRecords  BY DEF AuthTyped, AuthTypeOK, CallRecords
  <1>2. NoCall \in CallRecords  BY PartFacts DEF NoCall, CallRecords
  <1>. QED  BY <1>1, <1>2 DEF Ended, LastRecords, CallRecords

LEMMA ReturnTyped ==
    ASSUME AuthAssumption, AuthTyped, NEW rc \in Rcs, Return(rc)
    PROVE  authCall' \in CallRecords /\ last' \in LastRecords /\ agent' \in AgentRecords
  <1>1. authCall \in CallRecords /\ last \in LastRecords /\ agent \in AgentRecords
    BY DEF AuthTyped, AuthTypeOK, CallRecords, LastRecords, AgentRecords, Rcs
  <1>2. FreshAgent(agent.keys) \in AgentRecords  BY <1>1 DEF FreshAgent, AgentRecords
  <1>3. CASE TryNext(rc)
    <2>1. authCall.key \in Nat  BY <1>1, KeyFacts DEF CallRecords
    <2>2. NextIdent(authCall.key) \in Keys \cup {0}  BY <2>1, KeyFacts
    <2>. DEFINE k == NextIdent(authCall.key)
    <2>. HIDE DEF k
    <2>3. \/ /\ authCall' = [authCall EXCEPT !.part = "offer", !.key = k, !.at = "enter"]
             /\ agent' = [agent EXCEPT !.key = k, !.state = "NONE"] /\ last' = last
          \/ Ended(rc) /\ agent' = FreshAgent(agent.keys)
      BY <1>3 DEF TryNext, k
    <2>4. k \in Keys \cup {0}  BY <2>2 DEF k
    <2>5. CASE Ended(rc) /\ agent' = FreshAgent(agent.keys)  BY <1>2, <2>5, EndedTyped
    <2>6. CASE /\ authCall' = [authCall EXCEPT !.part = "offer", !.key = k, !.at = "enter"]
               /\ agent' = [agent EXCEPT !.key = k, !.state = "NONE"] /\ last' = last
      BY <1>1, <2>4, <2>6, PartFacts DEF CallRecords, AgentRecords
    <2>. QED  BY <2>3, <2>5, <2>6
  <1>4. CASE Ended(rc) /\ agent' = FreshAgent(agent.keys)  BY <1>2, <1>4, EndedTyped
  <1>5. CASE Ended(rc) /\ agent' = [agent EXCEPT !.state = IF @ = "NONE" THEN "PUBKEY" ELSE @]
    BY <1>1, <1>5, EndedTyped DEF AgentRecords
  <1>6. CASE Ended(rc) /\ UNCHANGED agent  BY <1>1, <1>6, EndedTyped
  <1>7. CASE authCall' = [authCall EXCEPT !.part = "sign", !.at = "enter"] /\ agent' = [agent EXCEPT !.state = "AUTH"]
             /\ UNCHANGED last
    BY <1>1, <1>7, PartFacts DEF CallRecords, AgentRecords
  <1>. QED  BY <1>3, <1>4, <1>5, <1>6, <1>7 DEF Return, AgentGoesOn

LEMMA RequestTyped ==
    ASSUME AuthAssumption, AuthTyped, Request, UNCHANGED <<calls, session, toClient, asking>>
    PROVE  AuthTyped'
  <1>1. authCall \in CallRecords /\ last \in LastRecords /\ agent \in AgentRecords
    BY DEF AuthTyped, AuthTypeOK, CallRecords, LastRecords, AgentRecords, Rcs
  <1>2. CASE SendRequest
    <2>. DEFINE r == [part |-> authCall.part, key |-> authCall.key, verdict |-> "none", asked |-> asking]
    <2>1. r \in Requests  BY <1>1 DEF Requests, CallRecords, AuthTyped, AuthTypeOK
    <2>. HIDE DEF r
    <2>2. requests' = Append(requests, r)  BY <1>2 DEF SendRequest, r
    <2>3. requests' \in Seq(Requests)  BY <2>1, <2>2, AppendProperties DEF AuthTyped
    <2>4. authCall' \in CallRecords  BY <1>1, <1>2 DEF SendRequest, Goto, CallRecords
    <2>5. auth' \in Awaiting /\ pending' \in Parts /\ kbdint' \in {"none", "asked", "answered"}
      BY <1>1, <1>2, PartFacts DEF SendRequest, CallRecords, Burnt, AuthTyped, AuthTypeOK
    <2>6. UNCHANGED <<last, agent, service, calls, session, asking>>  BY <1>2 DEF SendRequest, Request
    <2>. QED  BY <1>1, <2>3, <2>4, <2>5, <2>6 DEF AuthTyped, AuthTypeOK, CallRecords
  <1>3. CASE NotSent
    <2>1. authCall' \in CallRecords /\ last' \in LastRecords /\ agent' \in AgentRecords
      BY <1>3, ReturnTyped DEF NotSent, Rcs
    <2>2. UNCHANGED <<auth, pending, service, kbdint, calls, session, asking, requests>>
      BY <1>3 DEF NotSent, Request
    <2>. QED  BY <2>1, <2>2 DEF AuthTyped, AuthTypeOK, CallRecords, LastRecords, AgentRecords, Rcs
  <1>. QED  BY <1>2, <1>3 DEF Request

\* The verdict is that on the newest request.
LEMMA JudgedIsNewest ==
    ASSUME AuthTyped, WireInv, pending # "nothing", Sent, NEW v, Judged(v)
    PROVE  requests # <<>> /\ requests' = [requests EXCEPT ![Len(requests)].verdict = v]
  <1>1. requests # <<>> /\ requests \in Seq(Requests)  BY DEF WireInv, AuthTyped
  <1>2. Len(requests) \in Nat /\ Len(requests) \in 1..Len(requests) /\ DOMAIN requests = 1..Len(requests)
    BY <1>1, EmptySeq, LenProperties
  <1>. DEFINE S == {i \in DOMAIN requests : requests[i].verdict = "none"}
  <1>3. S = {Len(requests)}
    <2>1. \A i \in 1..Len(requests) : i # Len(requests) => i \in 1..(Len(requests) - 1)
      <3>1. \A n \in Nat : \A i \in 1..n : i # n => i \in 1..(n - 1)  OBVIOUS
      <3>. QED  BY <1>2, <3>1
    <2>2. requests[Len(requests)].verdict = "none"  BY DEF Sent, Newest
    <2>. QED  BY <1>2, <2>1, <2>2 DEF WireInv
  <1>4. Min(S) = Len(requests)
    <2>. HIDE DEF S
    <2>1. S \in SUBSET Nat /\ S # {}  BY <1>2, <1>3
    <2>. QED  BY <1>3, <2>1, MinProperties
  <1>. QED  BY <1>1, <1>4 DEF Judged

LEMMA Judgement ==
    ASSUME AuthTyped, WireInv, pending # "nothing", Sent,
           NEW v \in {"success", "partial", "failure", "pk_ok", "info", "bad_info", "unimplemented"}, Judged(v)
    PROVE  /\ requests' \in Seq(Requests) /\ Len(requests') = Len(requests) /\ requests' # <<>>
           /\ \A i \in 1..Len(requests) :
                /\ requests'[i].part = requests[i].part /\ requests'[i].key = requests[i].key
                /\ requests'[i].asked = requests[i].asked
                /\ i # Len(requests) => requests'[i] = requests[i]
           /\ Newest'.part = Newest.part /\ Newest'.key = Newest.key /\ Newest'.verdict = v
  <1>1. /\ requests # <<>> /\ requests' = [requests EXCEPT ![Len(requests)].verdict = v]
        /\ requests \in Seq(Requests)
    BY JudgedIsNewest DEF AuthTyped
  <1>2. Len(requests) \in Nat /\ Len(requests) \in 1..Len(requests)  BY <1>1, EmptySeq, LenProperties
  <1>3. requests[Len(requests)] \in Requests  BY <1>1, <1>2, ElementOfSeq
  <1>4. PICK r \in Requests :
            /\ r = [requests[Len(requests)] EXCEPT !.verdict = v]
            /\ r.part = Newest.part /\ r.key = Newest.key /\ r.asked = Newest.asked /\ r.verdict = v
    <2>. PICK q \in Requests : q = Newest  BY <1>3 DEF Newest
    <2>1. [q EXCEPT !.verdict = v] \in Requests  BY DEF Requests
    <2>2. /\ [q EXCEPT !.verdict = v].part = q.part /\ [q EXCEPT !.verdict = v].key = q.key
          /\ [q EXCEPT !.verdict = v].asked = q.asked /\ [q EXCEPT !.verdict = v].verdict = v
      BY DEF Requests
    <2>. QED  BY <2>1, <2>2 DEF Newest
  <1>5. requests' = [requests EXCEPT ![Len(requests)] = r]  BY <1>1, <1>4
  <1>6. /\ requests' \in Seq(Requests) /\ Len(requests') = Len(requests)
        /\ \A i \in 1..Len(requests) : requests'[i] = IF i = Len(requests) THEN r ELSE requests[i]
    BY <1>1, <1>2, <1>5, ExceptSeq
  <1>7. requests' # <<>>  BY <1>2, <1>6, EmptySeq
  <1>. QED  BY <1>2, <1>4, <1>6, <1>7 DEF Newest

-----------------------------------------------------------------------------
\* Nothing is under way.
Quiet ==
    /\ service = "ACCEPTED" /\ toServer = <<>> /\ toClient = <<>>
    /\ requests # <<>> => Newest.verdict # "none"

\* The call under way has its answer.
Earned(rc) ==
    \/ rc = "DENIED" /\ authCall.part \in {"offer", "publickey", "sign"} /\ authCall.key \notin Usable
    \/ /\ requests # <<>> /\ Newest.part = authCall.part /\ Newest.key = authCall.key
       /\ Newest.verdict \in DOMAIN Told /\ Told[Newest.verdict] = rc
AllRefused == \A k \in Candidates \cap Usable : Refused(k)

LEMMA RefusedStays ==
    ASSUME UNCHANGED requests
    PROVE  (AllRefused /\ agent'.keys = agent.keys => AllRefused') /\ \A k : Refused(k)' <=> Refused(k)
  BY DEF AllRefused, Refused, Candidates

LEMMA CallEnds ==
    ASSUME AuthAssumption, AuthTyped, AuthLive, authCall.at # "idle", NEW rc \in Rcs, Ended(rc),
           UNCHANGED <<calls, auth, service, kbdint, session, toServer, toClient, asking, requests>>,
           agent'.keys = agent.keys,
           \/ agent'.key = agent.key /\ (agent'.state = "AUTH" <=> agent.state = "AUTH")
           \/ agent'.key = 0 /\ agent'.state = "NONE" /\ pending' \notin {"offer", "sign"},
           \/ rc \in {"AGAIN", "ERROR"} /\ pending' = pending
           \/ pending' = "nothing" /\ Quiet,
           rc \notin {"AGAIN", "ERROR"} =>
                Earned(rc) /\ (authCall.method = "agent" /\ rc = "DENIED" => AllRefused)
    PROVE  AuthLive'
  <1>1. /\ authCall' = NoCall /\ NoCall.at = "idle"
        /\ last'.method = authCall.method /\ last'.part = authCall.part /\ last'.key = authCall.key /\ last'.rc = rc
    BY DEF Ended, NoCall
  <1>2. Candidates' = Candidates  BY DEF Candidates
  <1>3. AuthCallInv'  BY <1>1 DEF AuthCallInv
  <1>4. WireInv'
    <2>1. Newest' = Newest  BY DEF Newest
    <2>2. CASE pending' = pending /\ pending # "nothing"
      <3>1. KeyOf(pending)' = KeyOf(pending)  BY <2>2 DEF KeyOf, KeyFile
      <3>2. Sent' = Sent /\ Coming' = Coming /\ Broken' = Broken /\ Arrived' = Arrived
        BY <2>1, <2>2 DEF Sent, Coming, Broken, Arrived
      <3>. QED  BY <2>1, <2>2, <3>1, <3>2 DEF AuthLive, WireInv
    <2>3. CASE pending' = "nothing" /\ pending' = pending  BY <2>1, <2>3 DEF AuthLive, WireInv, Broken
    <2>4. CASE pending' = "nothing" /\ Quiet  BY <2>1, <2>4 DEF AuthLive, WireInv, Quiet
    <2>. QED  BY <2>2, <2>3, <2>4
  <1>5. AgentInv'  BY <1>2, RefusedStays DEF AuthLive, AgentInv
  <1>6. ReturnInv'  BY <1>1 DEF ReturnInv
  <1>7. AskInv' /\ KbdInv'  BY <1>1 DEF AuthLive, AskInv, KbdInv
  <1>8. AnswersAreOwn'
    <2>. SUFFICES ASSUME rc \notin {"AGAIN", "ERROR"}
                  PROVE  \/ rc = "DENIED" /\ authCall.key # 0 /\ authCall.key \notin Usable
                         \/ /\ requests # <<>> /\ Newest.part = authCall.part /\ Newest.key = authCall.key
                            /\ Newest.verdict \in DOMAIN Told /\ Told[Newest.verdict] = rc
      BY <1>1 DEF AnswersAreOwn, Newest, Rcs
    <2>1. authCall.part \in {"offer", "publickey", "sign"} => authCall.key # 0
      BY KeyFacts DEF AuthLive, AuthCallInv, KeyOf, Owner
    <2>. QED  BY <2>1 DEF Earned
  <1>9. AuthenticatedIsGranted'  BY DEF AuthLive, AuthenticatedIsGranted
  <1>10. AgentIsThorough'
    BY <1>1, <1>2 DEF AgentIsThorough, AllRefused, Refused, AuthTyped
  <1>. QED  BY <1>3, <1>4, <1>5, <1>6, <1>7, <1>8, <1>9, <1>10 DEF AuthLive

\* The agent's call goes on with another part.
LEMMA CallGoesOn ==
    ASSUME AuthAssumption, AuthTyped, AuthLive, authCall.at # "idle", authCall.method = "agent",
           UNCHANGED <<calls, last, auth, service, kbdint, session, toServer, toClient, asking, requests>>,
           NEW part \in {"offer", "sign"}, NEW key \in Keys,
           authCall' = [authCall EXCEPT !.part = part, !.key = key, !.at = "enter"],
           agent'.keys = agent.keys, agent'.key = key, agent'.state = "AUTH" <=> part = "sign",
           key \in Candidates, \A k \in Candidates \cap Usable : k < key => Refused(k),
           pending' = "nothing", Quiet, authCall.part = pending \/ pending = "nothing"
    PROVE  AuthLive'
  <1>1. /\ authCall'.method = "agent" /\ authCall'.part = part /\ authCall'.key = key /\ authCall'.at = "enter"
    BY DEF AuthTyped, AuthTypeOK
  <1>2. Candidates' = Candidates /\ Newest' = Newest  BY DEF Candidates, Newest
  <1>3. AuthCallInv'
    <2>1. "agent" \in Methods /\ last'.rc = "none" /\ calls' # 0  BY DEF AuthLive, AuthCallInv
    <2>2. key # 0  BY KeyFacts
    <2>. QED  BY <1>1, <2>1, <2>2 DEF AuthCallInv, Owner, KeyOf
  <1>4. WireInv'  BY <1>2 DEF AuthLive, WireInv, Quiet
  <1>5. AgentInv'  BY <1>2, RefusedStays, KeyFacts DEF AgentInv
  <1>6. ReturnInv'  BY DEF ReturnInv
  <1>7. KbdInv'  BY DEF AuthLive, KbdInv
  <1>8. AskInv'
    <2>1. authCall.part \in {"offer", "sign"}  BY PartFacts DEF AuthLive, AuthCallInv, Owner, AuthTyped, AuthTypeOK
    <2>2. ~(OneAtATime /\ kbdint # "none")  BY <2>1 DEF AuthLive, AskInv
    <2>. QED  BY <2>2 DEF AskInv
  <1>9. last.rc = "none" /\ last' = last  BY DEF AuthLive, AuthCallInv
  <1>10. AnswersAreOwn'  BY <1>9 DEF AnswersAreOwn
  <1>11. AuthenticatedIsGranted'  BY DEF AuthLive, AuthenticatedIsGranted
  <1>12. AgentIsThorough'  BY <1>9 DEF AgentIsThorough
  <1>. QED  BY <1>3, <1>4, <1>5, <1>6, <1>7, <1>8, <1>10, <1>11, <1>12 DEF AuthLive

\* The answer that a call may take for its own.
Answer(rc) ==
    \/ rc \in {"ERROR"}
    \/ Earned(rc)
    \/ rc = "SUCCESS" /\ authCall.part = "offer"

LEMMA AnswerEnds ==
    ASSUME AuthAssumption, AuthTyped, AuthLive, authCall.at # "idle", NEW rc \in Rcs \ {"AGAIN"}, Return(rc),
           UNCHANGED <<calls, auth, service, kbdint, session, toServer, toClient, asking, requests>>,
           pending' = "nothing", Quiet, authCall.part = pending \/ pending = "nothing", Answer(rc),
           \* an offer is taken or refused, and a signature accepted or refused
           authCall.part = "offer" => rc \in {"ERROR", "DENIED", "SUCCESS"},
           authCall.part = "sign" => rc # "INFO"
    PROVE  AuthLive'
  <1>1. CASE authCall.method # "agent"
    <2>1. Ended(rc) /\ UNCHANGED agent  BY <1>1 DEF Return
    <2>2. authCall.part # "offer"  BY <1>1 DEF AuthLive, AuthCallInv, Owner
    <2>. QED  BY <1>1, <2>1, <2>2, CallEnds DEF Answer
  <1>2. CASE authCall.method = "agent"
    <2>1. /\ authCall.part \in {"offer", "sign"} /\ authCall.key = agent.key /\ agent.key \in Candidates
          /\ \A k \in Candidates \cap Usable : k < agent.key => Refused(k)
          /\ agent.key \in Keys /\ agent.key \in Nat
      BY <1>2, PartFacts, KeyFacts DEF AuthLive, AuthCallInv, AgentInv, Owner, KeyOf, AuthTyped, AuthTypeOK
    <2>2. AgentGoesOn(rc)  BY <1>2 DEF Return
    <2>3. /\ FreshAgent(agent.keys).key = 0 /\ FreshAgent(agent.keys).keys = agent.keys
          /\ FreshAgent(agent.keys).state = "NONE"
      BY DEF FreshAgent
    <2>4. CASE rc \in {"ERROR"} \/ (authCall.part = "sign" /\ rc \in {"PARTIAL", "SUCCESS"})
      <3>1. Ended(rc) /\ agent' = FreshAgent(agent.keys)  BY <2>2, <2>4 DEF AgentGoesOn
      <3>. QED  BY <2>3, <2>4, <3>1, CallEnds DEF Answer
    <2>5. CASE authCall.part = "offer" /\ rc = "SUCCESS"
      <3>1. /\ authCall' = [authCall EXCEPT !.part = "sign", !.at = "enter"] /\ UNCHANGED last
            /\ agent' = [agent EXCEPT !.state = "AUTH"]
        BY <2>2, <2>5 DEF AgentGoesOn
      <3>2. authCall' = [authCall EXCEPT !.part = "sign", !.key = agent.key, !.at = "enter"]
        BY <2>1, <3>1 DEF AuthTyped, AuthTypeOK
      <3>3. agent'.keys = agent.keys /\ agent'.key = agent.key /\ agent'.state = "AUTH"
        BY <3>1 DEF AuthTyped, AuthTypeOK
      <3>. QED  BY <1>2, <2>1, <3>1, <3>2, <3>3, CallGoesOn
    <2>6. CASE rc = "DENIED"
      <3>1. TryNext(rc)  BY <2>1, <2>2, <2>6 DEF AgentGoesOn
      <3>2. agent.key \in Usable => Refused(agent.key)
        <4>1. Earned(rc)  BY <2>6 DEF Answer
        <4>2. ASSUME agent.key \in Usable
              PROVE  /\ requests # <<>> /\ Newest.part = authCall.part /\ Newest.key = agent.key
                     /\ Newest.verdict = "failure"
          BY <2>1, <2>6, <4>1, <4>2, VerdictFacts DEF Earned
        <4>3. requests # <<>> => Len(requests) \in 1..Len(requests)
          BY EmptySeq, LenProperties DEF AuthTyped
        <4>. QED  BY <2>1, <4>2, <4>3 DEF Refused, Newest
      <3>3. \A k \in Candidates \cap Usable : k <= agent.key => Refused(k)
        <4>1. \A k \in Candidates : k \in Nat  BY KeyFacts
        <4>. QED  BY <2>1, <3>2, <4>1
      <3>. DEFINE k == NextIdent(agent.key)
      <3>4. /\ k \in Candidates \cup {0}
            /\ k # 0 => \A c \in Candidates : c < k => c <= agent.key
            /\ k = 0 => \A c \in Candidates : c <= agent.key
        BY <2>1, KeyFacts
      <3>5. \/ /\ k # 0 /\ authCall' = [authCall EXCEPT !.part = "offer", !.key = k, !.at = "enter"]
               /\ agent' = [agent EXCEPT !.key = k, !.state = "NONE"] /\ UNCHANGED last
            \/ k = 0 /\ Ended(rc) /\ agent' = FreshAgent(agent.keys)
        BY <2>1, <3>1 DEF TryNext
      <3>. HIDE DEF k
      <3>6. CASE k # 0
        <4>1. k \in Keys /\ k \in Candidates  BY <3>4, <3>6, KeyFacts
        <4>2. \A c \in Candidates \cap Usable : c < k => Refused(c)  BY <3>3, <3>4, <3>6
        <4>3. agent'.keys = agent.keys /\ agent'.key = k /\ agent'.state = "NONE"
          BY <3>5, <3>6 DEF AuthTyped, AuthTypeOK
        <4>4. authCall' = [authCall EXCEPT !.part = "offer", !.key = k, !.at = "enter"] /\ UNCHANGED last
          BY <3>5, <3>6
        <4>. QED  BY <1>2, <4>1, <4>2, <4>3, <4>4, CallGoesOn
      <3>7. CASE k = 0
        <4>1. AllRefused  BY <3>3, <3>4, <3>7 DEF AllRefused
        <4>2. Ended(rc) /\ agent' = FreshAgent(agent.keys)  BY <3>5, <3>7
        <4>3. Earned(rc)  BY <2>6 DEF Answer
        <4>. QED  BY <2>3, <4>1, <4>2, <4>3, CallEnds
      <3>. QED  BY <3>6, <3>7
    <2>. QED  BY <2>1, <2>4, <2>5, <2>6 DEF Rcs
  <1>. QED  BY <1>1, <1>2

LEMMA TimeIsUp ==
    ASSUME AuthAssumption, AuthTyped, AuthLive, authCall.at # "idle", Return("AGAIN"),
           UNCHANGED <<calls, auth, pending, service, kbdint, session, toServer, toClient, asking, requests>>
    PROVE  AuthLive'
  <1>1. Ended("AGAIN") /\ \/ agent' = [agent EXCEPT !.state = IF @ = "NONE" THEN "PUBKEY" ELSE @]
                          \/ UNCHANGED agent
    BY DEF Return, AgentGoesOn, TryNext
  <1>2. /\ agent'.keys = agent.keys /\ agent'.key = agent.key
        /\ agent'.state = "AUTH" <=> agent.state = "AUTH"
    BY <1>1 DEF AuthTyped, AuthTypeOK
  <1>. QED  BY <1>1, <1>2, CallEnds DEF Rcs

\* A call that finds another one pending leaves it alone.
LEMMA OtherIsPending ==
    ASSUME AuthAssumption, AuthTyped, AuthLive, authCall.at # "idle", Return("ERROR"), pending # authCall.part,
           UNCHANGED <<calls, auth, pending, service, kbdint, session, toServer, toClient, asking, requests>>
    PROVE  AuthLive'
  <1>1. Ended("ERROR") /\ ((agent' = FreshAgent(agent.keys) /\ authCall.method = "agent") \/ UNCHANGED agent)
    BY DEF Return, AgentGoesOn, TryNext
  <1>2. CASE UNCHANGED agent  BY <1>1, <1>2, CallEnds DEF Rcs
  <1>3. CASE agent' = FreshAgent(agent.keys) /\ authCall.method = "agent"
    <2>1. agent'.key = 0 /\ agent'.keys = agent.keys /\ agent'.state = "NONE"  BY <1>3 DEF FreshAgent
    <2>2. pending \notin {"offer", "sign"}
      <3>1. authCall.part \in {"offer", "sign"} /\ (authCall.part = "sign" <=> agent.state = "AUTH")
        BY <1>3, PartFacts DEF AuthLive, AuthCallInv, Owner, AuthTyped, AuthTypeOK
      <3>2. pending \in {"offer", "sign"} => (pending = "sign" <=> agent.state = "AUTH")
        BY DEF AuthLive, WireInv
      <3>. QED  BY <3>1, <3>2
    <2>. QED  BY <1>1, <2>1, <2>2, CallEnds DEF Rcs
  <1>. QED  BY <1>1, <1>2, <1>3

LEMMA RequestLive ==
    ASSUME AuthAssumption, AuthTyped, AuthLive, authCall.at \in {"enter", "service"}, Request, pending = "nothing",
           service = "ACCEPTED", UNCHANGED <<calls, session, toClient, asking>>
    PROVE  AuthLive' /\ (OneAtATime /\ QuestionsAreOpen => QuestionsAreOpen')
  <1>1. /\ authCall.part \in Parts /\ service' = "ACCEPTED" /\ Quiet /\ authCall.at # "idle"
        /\ authCall.key = KeyOf(authCall.part) /\ calls # 0 /\ last.rc = "none" /\ authCall.method \in Methods
        /\ authCall.method = Owner(authCall.part)
        /\ authCall.part \in {"offer", "sign"} => agent.key # 0 /\ (authCall.part = "sign" <=> agent.state = "AUTH")
    BY DEF AuthLive, WireInv, AuthCallInv, Quiet, AuthTyped, AuthTypeOK, Request, NotSent, SendRequest, Owner
  <1>2. CASE SendRequest
    <2>. DEFINE r == [part |-> authCall.part, key |-> authCall.key, verdict |-> "none", asked |-> asking]
    <2>1. r \in Requests  BY <1>1 DEF Requests, AuthTyped, AuthTypeOK
    <2>2. r.part = authCall.part /\ r.key = authCall.key /\ r.verdict = "none" /\ r.asked = asking  OBVIOUS
    <2>. HIDE DEF r
    <2>3. /\ requests' = Append(requests, r) /\ auth' = SentState[authCall.part] /\ pending' = authCall.part
          /\ kbdint' = Burnt /\ toServer' = Append(toServer, authCall.part)
          /\ authCall' = [authCall EXCEPT !.at = "response"] /\ UNCHANGED <<last, agent>>
          /\ session = "AUTHENTICATING"
      BY <1>2 DEF SendRequest, r, ToServer, Goto
    <2>4. /\ requests' \in Seq(Requests) /\ Len(requests') = Len(requests) + 1 /\ Len(requests) \in Nat
          /\ \A i \in 1..Len(requests) : requests'[i] = requests[i]
          /\ Newest' = r /\ requests' # <<>>
      BY <2>1, <2>3, AppendProperties, LenProperties, EmptySeq DEF AuthTyped, Newest
    <2>5. \A i \in 1..Len(requests) : requests[i].verdict # "none"
      <3>1. \A n \in Nat : \A i \in 1..n : i \in 1..(n - 1) \/ i = n  OBVIOUS
      <3>2. \A i \in 1..Len(requests) : i \in 1..(Len(requests) - 1) \/ i = Len(requests)  BY <2>4, <3>1
      <3>3. requests # <<>> \/ Len(requests) = 0  BY EmptySeq DEF AuthTyped
      <3>. QED  BY <1>1, <2>4, <3>2, <3>3 DEF AuthLive, WireInv, Quiet, Newest
    <2>6. /\ authCall'.at = "response" /\ authCall'.part = authCall.part /\ authCall'.key = authCall.key
          /\ authCall'.method = authCall.method
      BY <2>3 DEF AuthTyped, AuthTypeOK
    <2>7. toServer' = <<authCall.part>> /\ toClient' = <<>>  BY <1>1, <2>3, OnePacket DEF Quiet
    <2>8. AuthCallInv'
      BY <1>1, <2>3, <2>6, PartFacts DEF AuthLive, AuthCallInv, KeyOf, KeyFile
    <2>9. WireInv'
      <3>1. Sent'  BY <2>2, <2>3, <2>4, <2>7 DEF Sent
      <3>2. KeyOf(pending)' = authCall.key  BY <1>1, <2>3 DEF KeyOf, KeyFile
      <3>3. \A i \in 1..(Len(requests') - 1) : requests'[i].verdict # "none"
        <4>1. Len(requests') - 1 = Len(requests)  BY <2>4
        <4>. QED  BY <2>4, <2>5, <4>1
      <3>4. pending' # "nothing"  BY <1>1, <2>3, PartFacts
      <3>. QED  BY <1>1, <2>2, <2>3, <2>4, <3>1, <3>2, <3>3, <3>4 DEF AuthLive, WireInv
    <2>10. \A k : Refused(k) => Refused(k)'
      <3>. SUFFICES ASSUME NEW k, Refused(k)  PROVE Refused(k)'  OBVIOUS
      <3>1. PICK i \in 1..Len(requests) :
                requests[i].part \in {"offer", "sign"} /\ requests[i].key = k /\ requests[i].verdict = "failure"
        BY DEF Refused
      <3>2. i \in 1..Len(requests') /\ requests'[i] = requests[i]  BY <2>4
      <3>. QED  BY <3>1, <3>2 DEF Refused
    <2>11. Candidates' = Candidates  BY <2>3 DEF Candidates
    <2>12. AgentInv'  BY <2>3, <2>10, <2>11 DEF AuthLive, AgentInv
    <2>13. ReturnInv' /\ AnswersAreOwn' /\ AgentIsThorough'
      BY <1>1, <2>3 DEF ReturnInv, AnswersAreOwn, AgentIsThorough
    <2>14. AuthenticatedIsGranted'  BY <2>3 DEF AuthenticatedIsGranted
    <2>15. KbdInv'
      BY <1>1, <2>3 DEF AuthLive, KbdInv, Burnt, Owner
    <2>16. AskInv'
      <3>1. ~(OneAtATime /\ kbdint' # "none")  BY <1>1, <2>3 DEF AuthLive, AskInv, Burnt
      <3>. QED  BY <3>1 DEF AskInv
    <2>17. OneAtATime /\ QuestionsAreOpen => QuestionsAreOpen'
      <3>. SUFFICES ASSUME OneAtATime, QuestionsAreOpen, NEW i \in DOMAIN requests', requests'[i].part = "send"
                    PROVE  requests'[i].asked
        BY DEF QuestionsAreOpen
      <3>1. i \in 1..Len(requests) \/ i = Len(requests')  BY <2>4
      <3>2. CASE i \in 1..Len(requests)
        BY <2>4, <3>2 DEF QuestionsAreOpen, AuthTyped
      <3>3. CASE i = Len(requests')
        <4>1. authCall.part = "send"  BY <2>2, <2>4, <3>3 DEF Newest
        <4>2. kbdint # "none"  BY <1>1, <4>1 DEF AuthLive, AuthCallInv
        <4>3. asking  BY <4>2 DEF AuthLive, AskInv
        <4>. QED  BY <2>2, <2>4, <3>3, <4>3 DEF Newest
      <3>. QED  BY <3>1, <3>2, <3>3
    <2>. QED  BY <2>8, <2>9, <2>12, <2>13, <2>14, <2>15, <2>16, <2>17 DEF AuthLive
  <1>3. CASE NotSent
    <2>1. UNCHANGED <<auth, pending, service, kbdint, toServer, requests>>  BY <1>3 DEF NotSent, Request
    <2>2. PICK rc \in {"ERROR", "DENIED"} :
            Return(rc) /\ (rc = "DENIED" => authCall.part \in {"offer", "publickey", "sign"} /\ authCall.key \notin Usable)
      BY <1>3 DEF NotSent
    <2>3. Answer(rc)  BY <2>2 DEF Answer, Earned
    <2>4. AuthLive'  BY <1>1, <2>1, <2>2, <2>3, AnswerEnds DEF Rcs
    <2>. QED  BY <2>1, <2>4 DEF QuestionsAreOpen
  <1>. QED  BY <1>2, <1>3 DEF Request

-----------------------------------------------------------------------------
(***************************************************************************)
(* The actions.                                                            *)
(***************************************************************************)

\* A part of a call that goes nowhere yet.
LEMMA OnlyPlace ==
    ASSUME AuthAssumption, AuthTyped, AuthLive, authCall.at # "idle", NEW at \in {"service", "response"}, Goto(at),
           at = "response" => pending = authCall.part, at = "service" => pending = "nothing" /\ authCall.part # "send",
           UNCHANGED <<calls, last, agent, auth, pending, kbdint, session, toClient, asking, requests>>,
           \/ UNCHANGED <<service, toServer>>
           \/ service = "NONE" /\ service' = "SENT" /\ ToServer("service")
    PROVE  AuthLive'
  <1>1. /\ authCall'.at = at /\ authCall'.part = authCall.part /\ authCall'.key = authCall.key
        /\ authCall'.method = authCall.method
    BY DEF Goto, AuthTyped, AuthTypeOK
  <1>2. Candidates' = Candidates /\ Newest' = Newest  BY DEF Candidates, Newest
  <1>3. AuthCallInv'  BY <1>1 DEF AuthLive, AuthCallInv, KeyOf, KeyFile
  <1>4. WireInv'
    <2>1. CASE UNCHANGED <<service, toServer>>
      <3>1. Sent' = Sent /\ Coming' = Coming /\ Broken' = Broken /\ Arrived' = Arrived
        BY <1>2, <2>1 DEF Sent, Coming, Broken, Arrived
      <3>2. KeyOf(pending)' = KeyOf(pending)  BY DEF KeyOf, KeyFile
      <3>. QED  BY <1>2, <2>1, <3>1, <3>2 DEF AuthLive, WireInv
    <2>2. CASE service = "NONE" /\ service' = "SENT" /\ ToServer("service")
      <3>1. toServer = <<>> /\ toClient = <<>> /\ pending = "nothing" /\ requests = <<>> /\ kbdint = "none"
        BY <2>2 DEF AuthLive, WireInv
      <3>2. toServer' = <<"service">>  BY <2>2, <3>1, OnePacket DEF ToServer
      <3>. QED  BY <1>2, <2>2, <3>1, <3>2 DEF AuthLive, WireInv
    <2>. QED  BY <2>1, <2>2
  <1>5. AgentInv'  BY <1>2, RefusedStays DEF AuthLive, AgentInv
  <1>6. ReturnInv' /\ KbdInv'  BY DEF AuthLive, ReturnInv, KbdInv
  <1>7. AskInv'
    <2>1. service = "NONE" => kbdint = "none"  BY DEF AuthLive, WireInv
    <2>. QED  BY <1>1, <2>1 DEF AuthLive, AskInv
  <1>8. AnswersAreOwn' /\ AuthenticatedIsGranted'  BY DEF AuthLive, AnswersAreOwn, AuthenticatedIsGranted
  <1>9. AgentIsThorough'  BY <1>2 DEF AuthLive, AgentIsThorough
  <1>. QED  BY <1>3, <1>4, <1>5, <1>6, <1>7, <1>8, <1>9 DEF AuthLive

LEMMA EnterLive ==
    ASSUME AuthAssumption, AuthTyped, AuthLive, Enter
    PROVE  AuthLive' /\ (OneAtATime /\ QuestionsAreOpen => QuestionsAreOpen')
  <1>1. authCall.at = "enter" /\ UNCHANGED <<calls, session, toClient, asking>>  BY DEF Enter
  <1>2. CASE PendingOther(authCall.part) /\ Return("ERROR")
             /\ UNCHANGED <<auth, pending, service, kbdint, toServer, requests>>
    BY <1>1, <1>2, OtherIsPending DEF PendingOther, QuestionsAreOpen
  <1>3. CASE /\ ~PendingOther(authCall.part) /\ pending # "nothing" /\ Goto("response")
             /\ UNCHANGED <<last, agent, auth, pending, service, kbdint, toServer, requests>>
    BY <1>1, <1>3, OnlyPlace DEF PendingOther, QuestionsAreOpen
  <1>4. CASE pending = "nothing" /\ (service = "ACCEPTED" \/ authCall.part = "send") /\ Request
    <2>1. service = "ACCEPTED"
      <3>1. authCall.part = "send" => kbdint # "none"  BY <1>1, <1>4 DEF AuthLive, AuthCallInv
      <3>. QED  BY <1>4, <3>1 DEF AuthLive, WireInv
    <2>. QED  BY <1>1, <1>4, <2>1, RequestLive
  <1>5. CASE /\ pending = "nothing" /\ service # "ACCEPTED" /\ authCall.part # "send"
             /\ IF service = "NONE" THEN service' = "SENT" /\ ToServer("service") ELSE UNCHANGED <<service, toServer>>
             /\ Goto("service") /\ UNCHANGED <<last, agent, auth, pending, kbdint, requests>>
    BY <1>1, <1>5, OnlyPlace DEF QuestionsAreOpen
  <1>. QED  BY <1>2, <1>3, <1>4, <1>5 DEF Enter

LEMMA ServiceLive ==
    ASSUME AuthAssumption, AuthTyped, AuthLive, session # "DISCONNECTED", ssh_service_request
    PROVE  AuthLive' /\ (OneAtATime /\ QuestionsAreOpen => QuestionsAreOpen')
  <1>1. authCall.at = "service" /\ pending = "nothing" /\ UNCHANGED <<calls, session, toClient, asking>>
    BY DEF ssh_service_request, AuthLive, AuthCallInv
  <1>2. CASE service = "ACCEPTED" /\ Request  BY <1>1, <1>2, RequestLive
  <1>3. CASE Return("AGAIN") /\ UNCHANGED <<auth, pending, service, kbdint, toServer, requests>>
    BY <1>1, <1>3, TimeIsUp DEF QuestionsAreOpen
  <1>. QED  BY <1>2, <1>3 DEF ssh_service_request

LEMMA TimeoutLive ==
    ASSUME AuthAssumption, AuthTyped, AuthLive, Timeout
    PROVE  AuthLive' /\ (QuestionsAreOpen => QuestionsAreOpen')
  BY TimeIsUp DEF Timeout, QuestionsAreOpen

LEMMA ResponseLive ==
    ASSUME AuthAssumption, AuthTyped, AuthLive, ssh_userauth_get_response
    PROVE  AuthLive' /\ (QuestionsAreOpen => QuestionsAreOpen')
  <1>1. /\ authCall.at = "response" /\ auth \notin Awaiting /\ Return(Result[auth]) /\ pending' = "nothing"
        /\ UNCHANGED <<calls, auth, service, kbdint, session, toServer, toClient, asking, requests>>
    BY DEF ssh_userauth_get_response
  <1>2. pending = authCall.part /\ pending \in Parts /\ pending # "nothing"
    BY <1>1, PartFacts DEF AuthLive, AuthCallInv, AuthTyped, AuthTypeOK
  <1>. DEFINE v == Newest.verdict
  <1>3. requests # <<>> /\ Newest.part = authCall.part /\ Newest.key = KeyOf(pending) /\ service = "ACCEPTED"
    BY <1>2 DEF AuthLive, WireInv
  <1>4. Newest.key = authCall.key  BY <1>1, <1>2, <1>3 DEF AuthLive, AuthCallInv
  <1>5. auth # SentState[pending]  BY <1>1, <1>2, PartFacts
  <1>6. Arrived  BY <1>2, <1>5 DEF AuthLive, WireInv, Sent, Coming
  <1>7. /\ toServer = <<>> /\ toClient = <<>> /\ v \in Possible(pending) /\ v \notin {"bad_info", "unimplemented"}
        /\ auth = StateOf[v]
    BY <1>1, <1>2, <1>6, PartFacts DEF Arrived
  <1>8. v \in DOMAIN StateOf /\ v # "none"  BY <1>7, VerdictFacts DEF Possible, Verdicts
  <1>9. Quiet  BY <1>3, <1>7, <1>8 DEF Quiet
  <1>10. /\ v \in DOMAIN Told => Result[auth] = Told[v]
         /\ v = "pk_ok" => Result[auth] = "SUCCESS"
         /\ Result[auth] \in Rcs \ {"AGAIN"}
    BY <1>7, <1>8, VerdictFacts DEF Rcs
  <1>11. v = "pk_ok" <=> v \notin DOMAIN Told  BY <1>8, VerdictFacts
  <1>12. v = "pk_ok" => authCall.part = "offer"  BY <1>2, <1>7 DEF Possible, Verdicts
  <1>13. authCall.part = "offer" => v \in {"pk_ok", "failure"}  BY <1>2, <1>7 DEF Possible, Verdicts
  <1>14. authCall.part = "sign" => v # "info"  BY <1>2, <1>7 DEF Possible, Verdicts
  <1>16. v = Newest.verdict  OBVIOUS
  <1>. HIDE DEF v
  <1>15. PICK rc \in Rcs \ {"AGAIN"} : rc = Result[auth]  BY <1>10
  <1>a. v \in DOMAIN Told => rc = Told[v]  BY <1>10, <1>15
  <1>b. v = "pk_ok" => rc = "SUCCESS"  BY <1>10, <1>15
  <1>17. Answer(rc)  BY <1>3, <1>4, <1>11, <1>12, <1>15, <1>a, <1>b, <1>16 DEF Answer, Earned
  <1>18. authCall.part = "offer" => rc \in {"ERROR", "DENIED", "SUCCESS"}
    <2>1. v = "failure" => v \in DOMAIN Told /\ Told[v] = "DENIED"  BY VerdictFacts
    <2>. QED  BY <1>13, <1>a, <1>b, <2>1
  <1>19. authCall.part = "sign" => rc # "INFO"
    <2>1. v \in DOMAIN Told /\ v # "info" => Told[v] # "INFO"  BY VerdictFacts
    <2>. QED  BY <1>11, <1>14, <1>a, <1>b, <2>1
  <1>20. Return(rc)  BY <1>1, <1>15
  <1>21. AuthLive'  BY <1>1, <1>2, <1>9, <1>17, <1>18, <1>19, <1>20, AnswerEnds
  <1>. QED  BY <1>1, <1>21 DEF QuestionsAreOpen

\* A new call.
LEMMA StartLive ==
    ASSUME AuthAssumption, AuthTyped, AuthLive, NEW method \in Methods, NEW part \in Parts, NEW key \in Keys \cup {0},
           Start(method, part, key), method = Owner(part), key = KeyOf(part)',
           agent'.keys = agent.keys, agent'.state = agent.state, agent.key # 0 => agent'.key = agent.key,
           agent'.key # 0 /\ agent.key = 0 => agent'.key = NextIdent(0),
           method = "agent" => agent'.key # 0 /\ (part = "sign" <=> agent.key # 0 /\ agent.state = "AUTH"),
           method = "kbdint" => part = KbdintPart
    PROVE  AuthLive'
  <1>1. /\ authCall.at = "idle" /\ session = "AUTHENTICATING" /\ calls' = calls + 1
        /\ OneMethod => calls = 0 \/ method = "kbdint"
        /\ UNCHANGED <<auth, pending, service, kbdint, session, toServer, toClient, asking, requests>>
    BY DEF Start
  <1>2. /\ authCall'.method = method /\ authCall'.part = part /\ authCall'.key = key /\ authCall'.at = "enter"
        /\ last'.rc = "none" /\ calls' # 0
    BY <1>1 DEF Start, AuthTyped, AuthTypeOK
  <1>3. Candidates' = Candidates /\ Newest' = Newest  BY <1>1 DEF Candidates, Newest
  <1>4. kbdint # "none" /\ pending # "init" => KbdintPart = "send"  BY DEF KbdintPart
  <1>5. pending = "nothing" /\ part = "send" => kbdint # "none"
    BY PartFacts DEF Owner, KbdintPart
  <1>6. AuthCallInv'
    BY <1>1, <1>2, <1>5 DEF AuthLive, AuthCallInv, AgentInv
  <1>7. WireInv'
    <2>1. Sent' = Sent /\ Coming' = Coming /\ Broken' = Broken /\ Arrived' = Arrived
      BY <1>1, <1>3 DEF Sent, Coming, Broken, Arrived
    <2>2. pending # "nothing" => KeyOf(pending)' = KeyOf(pending)
      BY <1>1 DEF AuthLive, WireInv, KeyOf, KeyFile
    <2>. QED  BY <1>1, <1>2, <1>3, <2>1, <2>2 DEF AuthLive, WireInv
  <1>8. AgentInv'
    <2>1. CASE agent'.key = agent.key
      BY <1>1, <1>3, <2>1, RefusedStays DEF AuthLive, AgentInv
    <2>2. CASE agent.key = 0 /\ agent'.key # 0
      <3>1. agent'.key = NextIdent(0) /\ NextIdent(0) # 0  BY <2>2
      <3>2. NextIdent(0) \in Candidates /\ \A k \in Candidates : k < NextIdent(0) => k <= 0
        BY <3>1, KeyFacts
      <3>3. \A k \in Candidates : k \in Nat /\ k # 0  BY KeyFacts
      <3>4. \A k \in Candidates : ~(k < NextIdent(0))  BY <3>2, <3>3
      <3>. QED  BY <1>3, <3>1, <3>2, <3>4 DEF AgentInv
    <2>. QED  BY <2>1, <2>2
  <1>9. ReturnInv' /\ AnswersAreOwn' /\ AgentIsThorough'  BY <1>2 DEF ReturnInv, AnswersAreOwn, AgentIsThorough
  <1>10. KbdInv' /\ AuthenticatedIsGranted'  BY <1>1 DEF AuthLive, KbdInv, AuthenticatedIsGranted
  <1>11. AskInv'
    <2>. SUFFICES ASSUME OneAtATime, kbdint # "none"
                  PROVE  /\ asking /\ toServer = <<>> /\ pending \in {"nothing", "init", "send"}
                         /\ pending = "nothing" => part = "send"
      BY <1>1, <1>2 DEF AskInv, OneAtATime
    <2>1. asking /\ toServer = <<>> /\ calls # 0 /\ pending \in {"nothing", "init", "send"}
      BY DEF AuthLive, AskInv
    <2>2. method = "kbdint"  BY <1>1, <2>1 DEF OneAtATime, AuthLive, KbdInv
    <2>. QED  BY <1>4, <2>1, <2>2
  <1>. QED  BY <1>6, <1>7, <1>8, <1>9, <1>10, <1>11 DEF AuthLive

LEMMA CallsLive ==
    ASSUME AuthAssumption, AuthTyped, AuthLive, Calls
    PROVE  AuthLive' /\ (QuestionsAreOpen => QuestionsAreOpen')
  <1>1. agent.key \in Keys \cup {0} /\ 0 \notin Keys /\ KeyFile \in Keys
    BY KeyFacts DEF AuthTyped, AuthTypeOK
  <1>2. CASE ssh_userauth_none
    <2>1. Start("none", "none", 0) /\ UNCHANGED agent /\ "none" \in Methods /\ UNCHANGED requests
      BY <1>2 DEF ssh_userauth_none, Start
    <2>2. Owner("none") = "none" /\ KeyOf("none")' = 0 /\ "none" \in Parts  BY PartFacts DEF Owner, KeyOf
    <2>. QED  BY <2>1, <2>2, StartLive DEF QuestionsAreOpen
  <1>3. CASE ssh_userauth_password
    <2>1. Start("password", "password", 0) /\ UNCHANGED agent /\ "password" \in Methods /\ UNCHANGED requests
      BY <1>3 DEF ssh_userauth_password, Start
    <2>2. Owner("password") = "password" /\ KeyOf("password")' = 0 /\ "password" \in Parts
      BY PartFacts DEF Owner, KeyOf
    <2>. QED  BY <2>1, <2>2, StartLive DEF QuestionsAreOpen
  <1>4. CASE ssh_userauth_publickey
    <2>1. Start("publickey", "publickey", KeyFile) /\ UNCHANGED agent /\ "publickey" \in Methods /\ UNCHANGED requests
      BY <1>4 DEF ssh_userauth_publickey, Start
    <2>2. Owner("publickey") = "publickey" /\ KeyOf("publickey")' = KeyFile /\ "publickey" \in Parts
      BY PartFacts DEF Owner, KeyOf, KeyFile
    <2>. QED  BY <1>1, <2>1, <2>2, StartLive DEF QuestionsAreOpen
  <1>5. CASE ssh_userauth_kbdint
    <2>1. PICK part \in {"init", "send"} : part = KbdintPart  BY DEF KbdintPart
    <2>2. Start("kbdint", part, 0) /\ UNCHANGED agent /\ "kbdint" \in Methods /\ UNCHANGED requests
      BY <1>5, <2>1 DEF ssh_userauth_kbdint, Start
    <2>3. Owner(part) = "kbdint" /\ KeyOf(part)' = 0 /\ part \in Parts  BY PartFacts DEF Owner, KeyOf
    <2>. QED  BY <2>1, <2>2, <2>3, StartLive DEF QuestionsAreOpen
  <1>6. CASE ssh_userauth_agent
    <2>. DEFINE k == IF agent.key # 0 THEN agent.key ELSE NextIdent(0)
                p == IF agent.key # 0 /\ agent.state = "AUTH" THEN "sign" ELSE "offer"
    <2>1. k # 0 /\ Start("agent", p, k) /\ agent' = [agent EXCEPT !.key = k]  BY <1>6 DEF ssh_userauth_agent
    <2>2. k \in Keys  BY <1>1, <2>1, KeyFacts
    <2>3. agent'.keys = agent.keys /\ agent'.state = agent.state /\ agent'.key = k
      BY <2>1 DEF AuthTyped, AuthTypeOK
    <2>4. /\ agent.key # 0 => k = agent.key
          /\ agent.key = 0 => k = NextIdent(0)
      OBVIOUS
    <2>5. p \in {"offer", "sign"} /\ (p = "sign" <=> agent.key # 0 /\ agent.state = "AUTH")  OBVIOUS
    <2>. HIDE DEF k, p
    <2>6. "agent" \in Methods /\ UNCHANGED requests  BY <2>1 DEF Start
    <2>7. PICK part \in {"offer", "sign"} : part = p  BY <2>5
    <2>8. Owner(part) = "agent" /\ KeyOf(part)' = agent'.key /\ part \in Parts  BY PartFacts DEF Owner, KeyOf
    <2>9. Start("agent", part, k)  BY <2>1, <2>7
    <2>. QED  BY <2>1, <2>2, <2>3, <2>4, <2>5, <2>6, <2>7, <2>8, <2>9, StartLive DEF QuestionsAreOpen
  <1>. QED  BY <1>2, <1>3, <1>4, <1>5, <1>6 DEF Calls

LEMMA SetAnswerLive ==
    ASSUME AuthTyped, AuthLive, ssh_userauth_kbdint_setanswer
    PROVE  AuthLive' /\ (QuestionsAreOpen => QuestionsAreOpen')
  <1>1. /\ authCall.at = "idle" /\ kbdint = "asked" /\ kbdint' = "answered"
        /\ UNCHANGED <<authCall, calls, last, auth, pending, service, agent, session, toServer, toClient, asking, requests>>
    BY DEF ssh_userauth_kbdint_setanswer
  <1>2. Candidates' = Candidates /\ Newest' = Newest  BY <1>1 DEF Candidates, Newest
  <1>3. AuthCallInv'  BY <1>1 DEF AuthLive, AuthCallInv, KeyOf, KeyFile
  <1>4. WireInv'
    <2>1. Sent' = Sent /\ Coming' = Coming /\ Broken' = Broken /\ Arrived' = Arrived
      BY <1>1, <1>2 DEF Sent, Coming, Broken, Arrived
    <2>2. KeyOf(pending)' = KeyOf(pending)  BY <1>1 DEF KeyOf, KeyFile
    <2>. QED  BY <1>1, <1>2, <2>1, <2>2 DEF AuthLive, WireInv
  <1>5. AgentInv'  BY <1>1, <1>2, RefusedStays DEF AuthLive, AgentInv
  <1>6. ReturnInv' /\ KbdInv' /\ AskInv'  BY <1>1 DEF AuthLive, ReturnInv, KbdInv, AskInv
  <1>7. AnswersAreOwn' /\ AuthenticatedIsGranted' /\ AgentIsThorough'
    BY <1>1, <1>2 DEF AuthLive, AnswersAreOwn, AuthenticatedIsGranted, AgentIsThorough
  <1>. QED  BY <1>1, <1>3, <1>4, <1>5, <1>6, <1>7 DEF AuthLive, QuestionsAreOpen

\* What a packet does to the request that is pending.
LEMMA Handled ==
    ASSUME NEW v, pending \in Parts, v \in Possible(pending), auth = SentState[pending], session = "AUTHENTICATING",
           Handle(v)
    PROVE  /\ auth' = IF v \in {"bad_info", "unimplemented"} THEN SentState[pending] ELSE StateOf[v]
           /\ v = "success" => session' = "AUTHENTICATED" /\ pending # "offer"
           /\ v # "success" => session' = session
           /\ v = "info" => kbdint' = "asked"
           /\ v = "bad_info" => kbdint' = "none"
           /\ v \notin {"info", "bad_info"} => kbdint' = kbdint
           /\ v \in {"info", "bad_info"} => pending \in {"init", "send"}
           /\ service' = service
  <1>1. v \in {"success", "partial", "failure", "pk_ok", "info", "bad_info", "unimplemented"}
    BY DEF Possible, Verdicts
  <1>2. /\ StateOf["success"] = "SUCCESS" /\ StateOf["partial"] = "PARTIAL" /\ StateOf["failure"] = "FAILED"
        /\ StateOf["pk_ok"] = "PK_OK" /\ StateOf["info"] = "INFO"
    BY DEF StateOf
  <1>3. /\ v = "success" => pending # "offer"
        /\ v = "pk_ok" => pending = "offer"
        /\ v \in {"info", "bad_info"} => pending \in {"init", "send"}
    BY DEF Possible, Verdicts
  <1>4. CASE v = "failure"  BY <1>2, <1>4 DEF Handle, ssh_packet_userauth_failure
  <1>5. CASE v = "partial"  BY <1>2, <1>5 DEF Handle, ssh_packet_userauth_failure
  <1>6. CASE v = "success"
    <2>1. auth \in Awaiting \ {"PUBKEY_OFFER_SENT"}  BY <1>3, <1>6, PartFacts
    <2>. QED  BY <1>2, <1>3, <1>6, <2>1 DEF Handle, ssh_packet_userauth_success
  <1>7. CASE v = "pk_ok"
    <2>1. auth = "PUBKEY_OFFER_SENT"  BY <1>3, <1>7, PartFacts
    <2>. QED  BY <1>2, <1>7, <2>1 DEF Handle, ssh_packet_userauth_pk_ok
  <1>8. CASE v \in {"info", "bad_info"}
    <2>1. auth = "KBDINT_SENT"  BY <1>3, <1>8, PartFacts
    <2>. QED  BY <1>2, <1>3, <1>8, <2>1 DEF Handle, ssh_packet_userauth_pk_ok, ssh_packet_userauth_info_request
  <1>9. CASE v = "unimplemented"  BY <1>9 DEF Handle
  <1>. QED  BY <1>1, <1>4, <1>5, <1>6, <1>7, <1>8, <1>9

LEMMA PollLive ==
    ASSUME AuthTyped, AuthLive, Poll, session' # "DISCONNECTED"
    PROVE  AuthLive' /\ (QuestionsAreOpen => QuestionsAreOpen')
  <1>1. /\ authCall.at \in {"service", "response"} /\ session = "AUTHENTICATING" /\ toClient # <<>>
        /\ Handle(Head(toClient)) /\ toClient' = Tail(toClient)
        /\ UNCHANGED <<authCall, calls, last, pending, agent, toServer, asking, requests>>
    BY DEF Poll
  <1>2. Candidates' = Candidates /\ Newest' = Newest  BY <1>1 DEF Candidates, Newest
  <1>3. KeyOf(pending)' = KeyOf(pending)  BY <1>1 DEF KeyOf, KeyFile
  <1>4. AgentInv' /\ ReturnInv'  BY <1>1, <1>2, RefusedStays DEF AuthLive, AgentInv, ReturnInv
  <1>5. AnswersAreOwn'  BY <1>1 DEF AuthLive, AnswersAreOwn
  <1>6. AgentIsThorough'  BY <1>1, <1>2 DEF AuthLive, AgentIsThorough
  <1>7. ~Broken
    <2>1. ASSUME Broken  PROVE FALSE
      <3>1. Head(toClient) = "disconnect"  BY <2>1, OnePacket DEF Broken
      <3>. QED  BY <1>1, <3>1 DEF Handle, ssh_packet_disconnect_callback
    <2>. QED  BY <2>1
  <1>8. CASE service # "ACCEPTED"
    <2>1. /\ toServer = <<>> /\ toClient = <<"service_accept">> /\ requests = <<>> /\ pending = "nothing"
          /\ kbdint = "none"
      BY <1>1, <1>7, <1>8 DEF AuthLive, WireInv, AuthTyped, AuthTypeOK
    <2>2. Head(toClient) = "service_accept" /\ Tail(toClient) = <<>>  BY <2>1, OnePacket
    <2>3. service' = "ACCEPTED" /\ toClient' = <<>> /\ UNCHANGED <<auth, kbdint, session>>
      BY <1>1, <2>2 DEF Handle, ssh_packet_service_accept
    <2>4. AuthCallInv'  BY <1>1, <2>1, <2>3 DEF AuthLive, AuthCallInv, KeyOf, KeyFile
    <2>5. WireInv'  BY <1>1, <1>2, <2>1, <2>3 DEF AuthLive, WireInv
    <2>6. AskInv' /\ KbdInv' /\ AuthenticatedIsGranted'
      BY <1>1, <2>1, <2>3 DEF AuthLive, AskInv, KbdInv, AuthenticatedIsGranted
    <2>. QED  BY <1>1, <1>4, <1>5, <1>6, <2>4, <2>5, <2>6 DEF AuthLive, QuestionsAreOpen
  <1>9. CASE service = "ACCEPTED"
    <2>1. pending # "nothing" /\ pending \in Parts  BY <1>1, <1>9 DEF AuthLive, WireInv, AuthTyped, AuthTypeOK
    <2>2. Coming /\ requests # <<>> /\ Newest.part = pending /\ calls # 0
      BY <1>1, <1>7, <2>1 DEF AuthLive, WireInv, Sent, Arrived
    <2>3. PICK v : v = Newest.verdict  OBVIOUS
    <2>4. /\ toServer = <<>> /\ toClient = <<v>> /\ v \in Possible(pending) /\ auth = SentState[pending]
          /\ v = "info" => asking
      BY <2>2, <2>3 DEF Coming
    <2>5. Head(toClient) = v /\ Tail(toClient) = <<>>  BY <2>4, OnePacket
    <2>6. Handle(v) /\ toClient' = <<>>  BY <1>1, <2>5
    <2>7. /\ auth' = IF v \in {"bad_info", "unimplemented"} THEN SentState[pending] ELSE StateOf[v]
          /\ v = "success" => session' = "AUTHENTICATED" /\ pending # "offer"
          /\ v # "success" => session' = session
          /\ v = "info" => kbdint' = "asked"
          /\ v = "bad_info" => kbdint' = "none"
          /\ v \notin {"info", "bad_info"} => kbdint' = kbdint
          /\ v \in {"info", "bad_info"} => pending \in {"init", "send"}
          /\ service' = service
      BY <1>1, <2>1, <2>4, <2>6, Handled
    <2>8. AuthCallInv'  BY <1>1, <2>1 DEF AuthLive, AuthCallInv, KeyOf, KeyFile
    <2>9. WireInv'
      <3>1. Possible(pending)' = Possible(pending)  BY <1>1 DEF Possible, Verdicts
      <3>2. Arrived'  BY <1>1, <1>2, <2>3, <2>4, <2>6, <2>7, <3>1 DEF Arrived
      <3>3. session' \in {"AUTHENTICATING", "AUTHENTICATED"}  BY <1>1, <2>7
      <3>. QED  BY <1>1, <1>2, <1>3, <1>9, <2>1, <2>7, <3>2, <3>3 DEF AuthLive, WireInv
    <2>10. KbdInv'  BY <1>1, <2>7 DEF AuthLive, KbdInv
    <2>11. AskInv'
      <3>1. CASE v = "info"  BY <1>1, <2>1, <2>2, <2>4, <2>7, <3>1 DEF AskInv
      <3>2. CASE v = "bad_info"  BY <2>7, <3>2 DEF AskInv
      <3>3. CASE v \notin {"info", "bad_info"}
        <4>1. UNCHANGED <<authCall, calls, pending, toServer, asking, kbdint>>  BY <1>1, <2>7, <3>3
        <4>. QED  BY <4>1 DEF AuthLive, AskInv, OneAtATime
      <3>. QED  BY <3>1, <3>2, <3>3
    <2>12. AuthenticatedIsGranted'
      <3>1. CASE v = "success"
        <4>1. requests \in Seq(Requests) /\ requests # <<>>  BY <2>2 DEF AuthTyped
        <4>2. Len(requests) \in DOMAIN requests  BY <4>1, EmptySeq, LenProperties
        <4>3. requests[Len(requests)].verdict = "success" /\ requests[Len(requests)].part # "offer"
          BY <2>2, <2>3, <2>7, <3>1 DEF Newest
        <4>. QED  BY <1>1, <4>2, <4>3 DEF AuthenticatedIsGranted
      <3>2. CASE v # "success"  BY <1>1, <2>7, <3>2 DEF AuthenticatedIsGranted
      <3>. QED  BY <3>1, <3>2
    <2>. QED  BY <1>1, <1>4, <1>5, <1>6, <2>8, <2>9, <2>10, <2>11, <2>12 DEF AuthLive, QuestionsAreOpen
  <1>. QED  BY <1>8, <1>9

LEMMA VerdictLive ==
    ASSUME AuthTyped, AuthLive, session = "AUTHENTICATING", pending # "nothing", Sent,
           NEW v \in {"success", "partial", "failure", "pk_ok", "info", "bad_info", "unimplemented"},
           v \in Possible(pending), Judged(v), ToClient(v), toServer' = Tail(toServer), v = "info" => asking',
           UNCHANGED authClient
    PROVE  AuthLive' /\ (QuestionsAreOpen => QuestionsAreOpen') /\ requests' \in Seq(Requests)
  <1>1. UNCHANGED <<authCall, calls, last, auth, pending, service, kbdint, agent, session>>  BY DEF authClient
  <1>2. WireInv  BY DEF AuthLive
  <1>3. /\ requests' \in Seq(Requests) /\ Len(requests') = Len(requests) /\ requests' # <<>>
        /\ \A i \in 1..Len(requests) :
            /\ requests'[i].part = requests[i].part /\ requests'[i].key = requests[i].key
            /\ requests'[i].asked = requests[i].asked
            /\ i # Len(requests) => requests'[i] = requests[i]
        /\ Newest'.part = Newest.part /\ Newest'.key = Newest.key /\ Newest'.verdict = v
    BY <1>2, Judgement
  <1>4. requests \in Seq(Requests) /\ Len(requests) \in Nat /\ service = "ACCEPTED" /\ requests # <<>>
    BY <1>2, LenProperties DEF WireInv, AuthTyped
  <1>5. toServer' = <<>> /\ toClient' = <<v>> /\ auth = SentState[pending] /\ toServer # <<>>
    BY OnePacket DEF Sent, ToClient
  <1>6. Candidates' = Candidates /\ KeyOf(pending)' = KeyOf(pending)  BY <1>1 DEF Candidates, KeyOf, KeyFile
  <1>7. AuthCallInv' /\ ReturnInv' /\ KbdInv'
    BY <1>1 DEF AuthLive, AuthCallInv, KeyOf, KeyFile, ReturnInv, KbdInv
  <1>8. WireInv'
    <2>1. Possible(pending)' = Possible(pending)  BY <1>1 DEF Possible, Verdicts
    <2>2. Coming'  BY <1>1, <1>3, <1>5, <2>1 DEF Coming
    <2>3. \A i \in 1..(Len(requests') - 1) : requests'[i].verdict # "none"
      <3>1. \A n \in Nat : \A i \in 1..(n - 1) : i \in 1..n /\ i # n  OBVIOUS
      <3>. QED  BY <1>2, <1>3, <1>4, <3>1 DEF WireInv
    <2>. QED  BY <1>1, <1>2, <1>3, <1>4, <1>6, <2>2, <2>3 DEF WireInv
  <1>9. AgentInv'
    <2>1. ASSUME NEW k, Refused(k)  PROVE Refused(k)'
      <3>1. PICK i \in 1..Len(requests) :
              requests[i].part \in {"offer", "sign"} /\ requests[i].key = k /\ requests[i].verdict = "failure"
        BY <2>1 DEF Refused
      <3>2. i # Len(requests)  BY <3>1 DEF Sent, Newest
      <3>. QED  BY <1>3, <3>1, <3>2 DEF Refused
    <2>. QED  BY <1>1, <1>6, <2>1 DEF AuthLive, AgentInv
  <1>10. AskInv'  BY <1>1, <1>5 DEF AuthLive, AskInv, OneAtATime
  <1>11. last.rc \notin {"SUCCESS", "DENIED", "PARTIAL", "INFO"}  BY DEF AuthLive, ReturnInv
  <1>12. AnswersAreOwn' /\ AuthenticatedIsGranted' /\ AgentIsThorough'
    BY <1>1, <1>11 DEF AnswersAreOwn, AuthenticatedIsGranted, AgentIsThorough
  <1>13. QuestionsAreOpen => QuestionsAreOpen'
    <2>1. DOMAIN requests = 1..Len(requests) /\ DOMAIN requests' = 1..Len(requests)
      BY <1>3, <1>4, LenProperties
    <2>. QED  BY <1>3, <2>1 DEF QuestionsAreOpen
  <1>. QED  BY <1>3, <1>7, <1>8, <1>9, <1>10, <1>12, <1>13 DEF AuthLive

\* What the server finds.
LEMMA ServerSide ==
    ASSUME AuthTyped, AuthLive, toServer # <<>>
    PROVE  \/ service = "SENT" /\ toServer = <<"service">> /\ toClient = <<>>
           \/ pending # "nothing" /\ Sent /\ service = "ACCEPTED"
  BY DEF AuthTyped, AuthTypeOK, AuthLive, WireInv, Coming, Broken, Arrived

LEMMA ServerAnswersLive ==
    ASSUME AuthTyped, AuthLive, ServerAnswers
    PROVE  /\ AuthLive' /\ (QuestionsAreOpen => QuestionsAreOpen')
           /\ requests' \in Seq(Requests) /\ asking' \in BOOLEAN
  <1>1. session = "AUTHENTICATING" /\ toServer # <<>> /\ toServer' = Tail(toServer) /\ UNCHANGED authClient
    BY DEF ServerAnswers, Connected
  <1>2. UNCHANGED <<authCall, calls, last, auth, pending, service, kbdint, agent, session>>
    BY <1>1 DEF authClient
  <1>3. CASE service = "SENT" /\ toServer = <<"service">> /\ toClient = <<>>
    <2>1. Head(toServer) = "service" /\ toServer' = <<>>  BY <1>1, <1>3, OnePacket
    <2>2. ToClient("service_accept") /\ UNCHANGED <<asking, requests>>  BY <2>1 DEF ServerAnswers
    <2>3. toClient' = <<"service_accept">>  BY <1>3, <2>2, OnePacket DEF ToClient
    <2>4. Candidates' = Candidates /\ Newest' = Newest  BY <1>2, <2>2 DEF Candidates, Newest
    <2>5. requests = <<>> /\ pending = "nothing" /\ kbdint = "none"  BY <1>3 DEF AuthLive, WireInv
    <2>6. AuthCallInv' /\ ReturnInv' /\ KbdInv' /\ AskInv'
      BY <1>2, <2>5 DEF AuthLive, AuthCallInv, KeyOf, KeyFile, ReturnInv, KbdInv, AskInv
    <2>7. WireInv'  BY <1>2, <1>3, <2>1, <2>2, <2>3, <2>5 DEF AuthLive, WireInv
    <2>8. AgentInv'  BY <1>2, <2>2, <2>4, RefusedStays DEF AuthLive, AgentInv
    <2>9. AnswersAreOwn' /\ AuthenticatedIsGranted' /\ AgentIsThorough'
      BY <1>2, <2>2, <2>4 DEF AuthLive, AnswersAreOwn, AuthenticatedIsGranted, AgentIsThorough
    <2>. QED  BY <2>2, <2>6, <2>7, <2>8, <2>9 DEF AuthLive, QuestionsAreOpen, AuthTyped, AuthTypeOK
  <1>4. CASE pending # "nothing" /\ Sent
    <2>1. PICK m : m = pending  OBVIOUS
    <2>2. m \in Parts /\ m # "service"  BY <1>4, <2>1, PartFacts DEF AuthTyped, AuthTypeOK
    <2>3. Head(toServer) = m  BY <1>4, <2>1, OnePacket DEF Sent
    <2>4. PICK v : /\ v \in Possible(m) /\ ToClient(v) /\ Judged(v) /\ (v = "info" => asking')
                   /\ asking' \in BOOLEAN
      <3>1. CASE \E v \in Verdicts(m) : ToClient(v) /\ Judged(v) /\ asking' = (v \in {"info", "bad_info"})
        <4>1. PICK v \in Verdicts(m) : ToClient(v) /\ Judged(v) /\ asking' = (v \in {"info", "bad_info"})
          BY <3>1
        <4>2. v \in Possible(m)  BY DEF Possible
        <4>3. asking' \in BOOLEAN  BY <4>1
        <4>4. v = "info" => asking'  BY <4>1
        <4>. QED  BY <4>1, <4>2, <4>3, <4>4
      <3>2. CASE m = "send" /\ ToClient("unimplemented") /\ Judged("unimplemented") /\ UNCHANGED asking
        BY <3>2 DEF Possible, AuthTyped, AuthTypeOK
      <3>. QED  BY <2>2, <2>3, <3>1, <3>2 DEF ServerAnswers
    <2>5. v \in {"success", "partial", "failure", "pk_ok", "info", "bad_info", "unimplemented"}
      BY <2>4 DEF Possible, Verdicts
    <2>. QED  BY <1>1, <1>4, <2>1, <2>4, <2>5, VerdictLive
  <1>. QED  BY <1>1, <1>3, <1>4, ServerSide

LEMMA ServerDisconnectsLive ==
    ASSUME AuthTyped, AuthLive, ServerDisconnects
    PROVE  AuthLive' /\ (QuestionsAreOpen => QuestionsAreOpen')
  <1>1. /\ toServer # <<>> /\ toServer' = <<>> /\ ToClient("disconnect")
        /\ UNCHANGED <<authCall, calls, last, auth, pending, service, kbdint, agent, session, asking, requests>>
    BY DEF ServerDisconnects, authClient
  <1>2. toClient = <<>>  BY <1>1, ServerSide DEF Sent
  <1>3. toClient' = <<"disconnect">>  BY <1>1, <1>2, OnePacket DEF ToClient
  <1>4. Broken'  BY <1>1, <1>3 DEF Broken
  <1>5. Candidates' = Candidates /\ Newest' = Newest /\ KeyOf(pending)' = KeyOf(pending)
    BY <1>1 DEF Candidates, Newest, KeyOf, KeyFile
  <1>6. AuthCallInv' /\ ReturnInv' /\ KbdInv' /\ AskInv'
    BY <1>1 DEF AuthLive, AuthCallInv, KeyOf, KeyFile, ReturnInv, KbdInv, AskInv
  <1>7. WireInv'
    <2>1. CASE service = "SENT"  BY <1>1, <1>4, <2>1 DEF AuthLive, WireInv
    <2>2. CASE pending # "nothing" /\ Sent /\ service = "ACCEPTED"
      <3>1. auth = SentState[pending]  BY <2>2 DEF Sent
      <3>. QED  BY <1>1, <1>4, <1>5, <2>2, <3>1 DEF AuthLive, WireInv
    <2>. QED  BY <1>1, <2>1, <2>2, ServerSide
  <1>8. AgentInv'  BY <1>1, <1>5, RefusedStays DEF AuthLive, AgentInv
  <1>9. AnswersAreOwn' /\ AuthenticatedIsGranted' /\ AgentIsThorough'
    BY <1>1, <1>5 DEF AuthLive, AnswersAreOwn, AuthenticatedIsGranted, AgentIsThorough
  <1>. QED  BY <1>1, <1>6, <1>7, <1>8, <1>9 DEF AuthLive, QuestionsAreOpen

-----------------------------------------------------------------------------
(***************************************************************************)
(* The steps and the theorems.                                             *)
(***************************************************************************)
LEMMA PollTyped ==
    ASSUME AuthTyped, Poll
    PROVE  AuthTyped'
  <1>1. UNCHANGED <<authCall, calls, last, pending, agent, asking, requests>> /\ Handle(Head(toClient))
    BY DEF Poll
  <1>2. auth \in Awaiting \cup DOMAIN Result /\ service \in {"NONE", "SENT", "ACCEPTED"}
        /\ kbdint \in {"none", "asked", "answered"}
        /\ session \in {"AUTHENTICATING", "AUTHENTICATED", "DISCONNECTED", "ERROR"}
    BY DEF AuthTyped, AuthTypeOK
  <1>3. {"FAILED", "PARTIAL", "SUCCESS", "INFO", "PK_OK", "ERROR"} \subseteq DOMAIN Result  BY VerdictFacts
  <1>4. /\ auth' \in Awaiting \cup DOMAIN Result /\ service' \in {"NONE", "SENT", "ACCEPTED"}
        /\ kbdint' \in {"none", "asked", "answered"}
        /\ session' \in {"AUTHENTICATING", "AUTHENTICATED", "DISCONNECTED", "ERROR"}
    BY <1>1, <1>2, <1>3 DEF Handle, ssh_packet_service_accept, ssh_packet_userauth_failure,
       ssh_packet_userauth_success, ssh_packet_userauth_pk_ok, ssh_packet_userauth_info_request,
       ssh_packet_disconnect_callback
  <1>. QED  BY <1>1, <1>4 DEF AuthTyped, AuthTypeOK

\* A call that returns leaves the rest as it is.
LEMMA OnlyReturns ==
    ASSUME AuthAssumption, AuthTyped, NEW rc \in Rcs, Return(rc), pending' \in {pending, "nothing"},
           UNCHANGED <<calls, auth, service, kbdint, session, asking, requests>>
    PROVE  AuthTyped'
  <1>1. authCall' \in CallRecords /\ last' \in LastRecords /\ agent' \in AgentRecords  BY ReturnTyped
  <1>. QED  BY <1>1 DEF AuthTyped, AuthTypeOK, CallRecords, LastRecords, AgentRecords, Rcs

LEMMA GotoTyped ==
    ASSUME AuthTyped, NEW at \in {"service", "response"}, Goto(at),
           UNCHANGED <<calls, last, auth, pending, kbdint, agent, session, asking, requests>>,
           service' \in {service, "SENT"}
    PROVE  AuthTyped'
  <1>1. authCall' \in CallRecords  BY DEF Goto, AuthTyped, AuthTypeOK, CallRecords
  <1>. QED  BY <1>1 DEF AuthTyped, AuthTypeOK, CallRecords

LEMMA WaitsTyped ==
    ASSUME AuthAssumption, AuthTyped, Waits \/ Timeout
    PROVE  AuthTyped'
  <1>1. {"ERROR", "AGAIN"} \subseteq Rcs  BY DEF Rcs
  <1>2. CASE Enter
    <2>1. UNCHANGED <<calls, session, toClient, asking>>  BY <1>2 DEF Enter
    <2>2. CASE Return("ERROR") /\ UNCHANGED <<auth, pending, service, kbdint, toServer, requests>>
      BY <1>1, <2>1, <2>2, OnlyReturns
    <2>3. CASE Goto("response") /\ UNCHANGED <<last, agent, auth, pending, service, kbdint, toServer, requests>>
      BY <2>1, <2>3, GotoTyped
    <2>4. CASE Request  BY <2>1, <2>4, RequestTyped
    <2>5. CASE /\ IF service = "NONE" THEN service' = "SENT" /\ ToServer("service")
                  ELSE UNCHANGED <<service, toServer>>
               /\ Goto("service") /\ UNCHANGED <<last, agent, auth, pending, kbdint, requests>>
      BY <2>1, <2>5, GotoTyped
    <2>. QED  BY <1>2, <2>2, <2>3, <2>4, <2>5 DEF Enter
  <1>3. CASE ssh_service_request
    <2>1. UNCHANGED <<calls, session, toClient, asking>>  BY <1>3 DEF ssh_service_request
    <2>2. CASE Request  BY <2>1, <2>2, RequestTyped
    <2>3. CASE /\ Return("ERROR") \/ Return("AGAIN")
               /\ UNCHANGED <<auth, pending, service, kbdint, toServer, requests>>
      BY <1>1, <2>1, <2>3, OnlyReturns
    <2>. QED  BY <1>3, <2>2, <2>3 DEF ssh_service_request
  <1>4. CASE ssh_userauth_get_response
    <2>1. /\ auth \notin Awaiting /\ Return(Result[auth]) /\ pending' = "nothing"
          /\ UNCHANGED <<calls, auth, service, kbdint, session, asking, requests>>
      BY <1>4 DEF ssh_userauth_get_response
    <2>2. Result[auth] \in Rcs  BY <2>1, VerdictFacts DEF AuthTyped, AuthTypeOK, Rcs
    <2>. QED  BY <2>1, <2>2, OnlyReturns
  <1>5. CASE Poll  BY <1>5, PollTyped
  <1>6. CASE Timeout  BY <1>1, <1>6, OnlyReturns DEF Timeout
  <1>. QED  BY <1>2, <1>3, <1>4, <1>5, <1>6 DEF Waits

LEMMA StartTyped ==
    ASSUME AuthAssumption, AuthTyped, NEW method \in Methods, NEW part \in Parts, NEW key \in Keys \cup {0},
           Start(method, part, key), agent' \in AgentRecords
    PROVE  AuthTyped'
  <1>1. calls' \in 0..MaxCalls
    <2>1. calls \in Nat /\ calls < MaxCalls /\ MaxCalls \in Nat /\ calls' = calls + 1
      BY DEF Start, AuthTyped, AuthTypeOK, AuthAssumption
    <2>. QED  BY <2>1
  <1>2. authCall' \in CallRecords  BY DEF Start, CallRecords
  <1>3. last' \in LastRecords  BY DEF Start, LastRecords, AuthTyped, AuthTypeOK
  <1>. QED  BY <1>1, <1>2, <1>3 DEF Start, AuthTyped, AuthTypeOK, CallRecords, LastRecords, AgentRecords, Rcs

LEMMA CallsTyped ==
    ASSUME AuthAssumption, AuthTyped, Calls
    PROVE  AuthTyped'
  <1>1. agent \in AgentRecords /\ KeyFile \in Keys  BY KeyFacts DEF AuthTyped, AuthTypeOK, AgentRecords
  <1>2. CASE ssh_userauth_none
    <2>1. Start("none", "none", 0) /\ agent' = agent /\ "none" \in Methods  BY <1>2 DEF ssh_userauth_none, Start
    <2>. QED  BY <1>1, <2>1, StartTyped, PartFacts
  <1>3. CASE ssh_userauth_password
    <2>1. Start("password", "password", 0) /\ agent' = agent /\ "password" \in Methods
      BY <1>3 DEF ssh_userauth_password, Start
    <2>. QED  BY <1>1, <2>1, StartTyped, PartFacts
  <1>4. CASE ssh_userauth_publickey
    <2>1. Start("publickey", "publickey", KeyFile) /\ agent' = agent /\ "publickey" \in Methods
      BY <1>4 DEF ssh_userauth_publickey, Start
    <2>. QED  BY <1>1, <2>1, StartTyped, PartFacts
  <1>5. CASE ssh_userauth_kbdint
    <2>1. Start("kbdint", KbdintPart, 0) /\ agent' = agent /\ "kbdint" \in Methods
      BY <1>5 DEF ssh_userauth_kbdint, Start
    <2>2. KbdintPart \in Parts  BY PartFacts DEF KbdintPart
    <2>. QED  BY <1>1, <2>1, <2>2, StartTyped
  <1>6. CASE ssh_userauth_agent
    <2>. DEFINE k == IF agent.key # 0 THEN agent.key ELSE NextIdent(0)
                p == IF agent.key # 0 /\ agent.state = "AUTH" THEN "sign" ELSE "offer"
    <2>1. Start("agent", p, k) /\ agent' = [agent EXCEPT !.key = k]  BY <1>6 DEF ssh_userauth_agent
    <2>2. k \in Keys \cup {0} /\ p \in Parts  BY <1>1, KeyFacts, PartFacts DEF AgentRecords
    <2>. HIDE DEF k, p
    <2>3. agent' \in AgentRecords  BY <1>1, <2>1, <2>2 DEF AgentRecords
    <2>4. "agent" \in Methods  BY <2>1 DEF Start
    <2>. QED  BY <2>1, <2>2, <2>3, <2>4, StartTyped
  <1>. QED  BY <1>2, <1>3, <1>4, <1>5, <1>6 DEF Calls

\* A session that was closed stays so, and asks no more.
LEMMA ClosedStays ==
    ASSUME session = "DISCONNECTED", AuthNext
    PROVE  session' = "DISCONNECTED" /\ requests' = requests /\ (AuthAssumption /\ AuthTyped => AuthTyped')
  <1>1. ~Calls /\ ~Poll /\ ~ServerAnswers /\ ~ServerDisconnects
    BY DEF Calls, Start, ssh_userauth_none, ssh_userauth_password, ssh_userauth_publickey, ssh_userauth_kbdint,
       ssh_userauth_agent, Poll, ServerAnswers, ServerDisconnects, Connected
  <1>2. Request => requests' = requests  BY DEF Request, SendRequest, NotSent
  <1>3. CASE Waits \/ Timeout
    <2>1. session' = session /\ requests' = requests
      BY <1>1, <1>2, <1>3 DEF Waits, Enter, ssh_service_request, ssh_userauth_get_response, Timeout
    <2>. QED  BY <1>3, <2>1, WaitsTyped
  <1>4. CASE ssh_userauth_kbdint_setanswer
    BY <1>4 DEF ssh_userauth_kbdint_setanswer, AuthTyped, AuthTypeOK
  <1>. QED  BY <1>1, <1>3, <1>4 DEF AuthNext

LEMMA AuthStarts ==
    ASSUME AuthAssumption, AuthInit
    PROVE  AuthInv
  <1>1. PICK keys \in SUBSET Keys : agent = FreshAgent(keys)  BY DEF AuthInit
  <1>2. agent.key = 0 /\ agent.state = "NONE" /\ agent \in AgentRecords  BY <1>1 DEF FreshAgent, AgentRecords
  <1>3. /\ authCall = NoCall /\ calls = 0
        /\ last = [method |-> "none", part |-> "none", key |-> 0, rc |-> "none"]
        /\ auth = "NONE" /\ pending = "nothing" /\ service = "NONE" /\ kbdint = "none"
        /\ session = "AUTHENTICATING"
        /\ toServer = <<>> /\ toClient = <<>> /\ asking = FALSE /\ requests = <<>>
    BY DEF AuthInit
  <1>4. AuthTyped
    <2>1. NoCall \in CallRecords /\ last \in LastRecords  BY <1>3, PartFacts DEF NoCall, CallRecords, LastRecords
    <2>2. calls \in 0..MaxCalls  BY <1>3 DEF AuthAssumption
    <2>3. auth \in DOMAIN Result  BY <1>3, VerdictFacts
    <2>4. requests \in Seq(Requests)  BY <1>3, EmptySeq
    <2>5. asking \in BOOLEAN  BY <1>3
    <2>. QED  BY <1>2, <1>3, <2>1, <2>2, <2>3, <2>4, <2>5
           DEF AuthTyped, AuthTypeOK, CallRecords, LastRecords, AgentRecords, Rcs
  <1>5. QuestionsAreOpen  BY <1>3 DEF QuestionsAreOpen
  <1>6. NoCall.at = "idle" /\ last.rc = "none"  BY <1>3 DEF NoCall
  <1>7. AuthCallInv  BY <1>3, <1>6 DEF AuthCallInv
  <1>8. WireInv
    <2>1. Len(requests) - 1 = -1  BY <1>3
    <2>2. 1..(Len(requests) - 1) = {}  BY <2>1
    <2>. QED  BY <1>3, <2>2 DEF WireInv
  <1>9. AgentInv /\ ReturnInv /\ AskInv /\ KbdInv  BY <1>2, <1>3, <1>6 DEF AgentInv, ReturnInv, AskInv, KbdInv
  <1>10. AnswersAreOwn /\ AuthenticatedIsGranted /\ AgentIsThorough
    BY <1>3, <1>6 DEF AnswersAreOwn, AuthenticatedIsGranted, AgentIsThorough
  <1>. QED  BY <1>4, <1>5, <1>7, <1>8, <1>9, <1>10 DEF AuthInv, AuthLive

LEMMA AuthSteps ==
    ASSUME AuthAssumption, AuthInv, [AuthNext]_authVars
    PROVE  AuthInv'
  <1>1. AuthTyped  BY DEF AuthInv
  <1>2. CASE AuthNext
    <2>1. CASE session = "DISCONNECTED"
      BY <1>1, <1>2, <2>1, ClosedStays DEF AuthInv, QuestionsAreOpen, OneAtATime
    <2>2. CASE session # "DISCONNECTED"
      <3>. AuthLive  BY <2>2 DEF AuthInv
      <3>. SUFFICES /\ AuthTyped'
                    /\ OneAtATime /\ QuestionsAreOpen => QuestionsAreOpen'
                    /\ session' # "DISCONNECTED" => AuthLive'
        BY DEF AuthInv, OneAtATime
      <3>1. CASE Calls  BY <1>1, <3>1, CallsLive, CallsTyped
      <3>2. CASE ssh_userauth_kbdint_setanswer
        <4>1. AuthTyped'  BY <1>1, <3>2 DEF ssh_userauth_kbdint_setanswer, AuthTyped, AuthTypeOK
        <4>. QED  BY <1>1, <3>2, <4>1, SetAnswerLive
      <3>3. CASE Enter  BY <1>1, <3>3, EnterLive, WaitsTyped DEF Waits
      <3>4. CASE ssh_service_request  BY <1>1, <2>2, <3>4, ServiceLive, WaitsTyped DEF Waits
      <3>5. CASE ssh_userauth_get_response  BY <1>1, <3>5, ResponseLive, WaitsTyped DEF Waits
      <3>6. CASE Poll
        <4>1. QuestionsAreOpen => QuestionsAreOpen'  BY <3>6 DEF Poll, QuestionsAreOpen
        <4>. QED  BY <1>1, <3>6, <4>1, PollLive, PollTyped
      <3>7. CASE Timeout  BY <1>1, <3>7, TimeoutLive, WaitsTyped
      <3>8. CASE ServerAnswers
        <4>1. /\ AuthLive' /\ (QuestionsAreOpen => QuestionsAreOpen')
              /\ requests' \in Seq(Requests) /\ asking' \in BOOLEAN
          BY <1>1, <3>8, ServerAnswersLive
        <4>2. AuthTyped'  BY <1>1, <3>8, <4>1 DEF ServerAnswers, authClient, AuthTyped, AuthTypeOK
        <4>. QED  BY <4>1, <4>2
      <3>9. CASE ServerDisconnects
        <4>1. AuthTyped'  BY <1>1, <3>9 DEF ServerDisconnects, authClient, AuthTyped, AuthTypeOK
        <4>. QED  BY <1>1, <3>9, <4>1, ServerDisconnectsLive
      <3>. QED  BY <1>2, <3>1, <3>2, <3>3, <3>4, <3>5, <3>6, <3>7, <3>8, <3>9 DEF AuthNext, Waits
    <2>. QED  BY <2>1, <2>2
  <1>3. CASE UNCHANGED authVars
    <2>1. UNCHANGED <<authCall, calls, last, auth, pending, service, kbdint, agent, session,
                      toServer, toClient, asking, requests>>
      BY <1>3 DEF authVars, authClient
    <2>2. AuthTyped'  BY <1>1, <2>1 DEF AuthTyped, AuthTypeOK
    <2>3. QuestionsAreOpen' <=> QuestionsAreOpen  BY <2>1 DEF QuestionsAreOpen
    <2>4. Candidates' = Candidates /\ Newest' = Newest /\ KeyOf(pending)' = KeyOf(pending)
      BY <2>1 DEF Candidates, Newest, KeyOf, KeyFile
    <2>5. ASSUME AuthLive  PROVE AuthLive'
      <3>1. AuthCallInv'  BY <2>1, <2>5 DEF AuthLive, AuthCallInv, KeyOf, KeyFile
      <3>2. Sent' = Sent /\ Coming' = Coming /\ Broken' = Broken /\ Arrived' = Arrived
        BY <2>1, <2>4 DEF Sent, Coming, Broken, Arrived, Possible, Verdicts
      <3>3. WireInv'  BY <2>1, <2>4, <2>5, <3>2 DEF AuthLive, WireInv
      <3>4. AgentInv'  BY <2>1, <2>4, <2>5, RefusedStays DEF AuthLive, AgentInv
      <3>5. ReturnInv' /\ AskInv' /\ KbdInv'  BY <2>1, <2>5 DEF AuthLive, ReturnInv, AskInv, KbdInv
      <3>6. AnswersAreOwn' /\ AuthenticatedIsGranted' /\ AgentIsThorough'
        BY <2>1, <2>4, <2>5 DEF AuthLive, AnswersAreOwn, AuthenticatedIsGranted, AgentIsThorough
      <3>. QED  BY <3>1, <3>3, <3>4, <3>5, <3>6 DEF AuthLive
    <2>. QED  BY <2>1, <2>2, <2>3, <2>5 DEF AuthInv, OneAtATime
  <1>. QED  BY <1>2, <1>3

\* What holds in every state, and what it says.
LEMMA VerdictsFollow ==
    ASSUME AuthInv
    PROVE  /\ AuthTypeOK /\ AnswersAreOwn /\ AuthenticatedIsGranted /\ AgentIsThorough
           /\ OneAtATime => VerdictsAreOwn
  BY DEF AuthInv, AuthTyped, AuthLive, AnswersAreOwn, AuthenticatedIsGranted, AgentIsThorough, VerdictsAreOwn

\* In every order of calls, timeouts, late answers and a lost connection, what a call
\* returns is the verdict on its own request, and nobody is authenticated without
\* proof; for any methods and keys (auth.c, pending_call_state).
THEOREM AnswersStayOwn ==
    ASSUME AuthAssumption
    PROVE  AuthSpec => [](AuthTypeOK /\ AnswersAreOwn /\ AuthenticatedIsGranted /\ AgentIsThorough)
  <1>1. AuthInit => AuthInv  BY AuthStarts
  <1>2. AuthInv /\ [AuthNext]_authVars => AuthInv'  BY AuthSteps
  <1>3. AuthInv => AuthTypeOK /\ AnswersAreOwn /\ AuthenticatedIsGranted /\ AgentIsThorough  BY VerdictsFollow
  <1>. QED  BY <1>1, <1>2, <1>3, PTL DEF AuthSpec

\* Whoever makes no other call while questions are open, as SSHKit, also never sends
\* answers to questions that were withdrawn (auth.c, ssh_userauth_kbdint).
THEOREM VerdictsStayOwn ==
    ASSUME AuthAssumption, OneAtATime
    PROVE  AuthSpec => []VerdictsAreOwn
  <1>1. AuthInit => AuthInv  BY AuthStarts
  <1>2. AuthInv /\ [AuthNext]_authVars => AuthInv'  BY AuthSteps
  <1>3. AuthInv => VerdictsAreOwn  BY VerdictsFollow
  <1>. QED  BY <1>1, <1>2, <1>3, PTL DEF AuthSpec
=============================================================================
