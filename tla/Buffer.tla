------------------------------- MODULE Buffer -------------------------------
(***************************************************************************)
(* ssh_buffer (libssh/buffer.c), which every packet, channel and message   *)
(* goes through: a block of memory, the part of it in use, and the part of *)
(* that already read.  Sizes are words that wrap; a number of four bytes   *)
(* takes one cell.                                                         *)
(***************************************************************************)
EXTENDS Integers, Sequences

CONSTANTS
    Cell, Junk,     \* what a caller puts into a cell, and what memory holds before
    WordSize,       \* 2^32
    Powers,         \* the powers of two that fit a word
    SizeMax,        \* BUFFER_SIZE_MAX
    NewSize,        \* what a new buffer preallocates
    KeepSize,       \* what a buffer keeps when it is reinitialized
    Data, Lengths   \* bound: what is added, and what is asked for

ASSUME BufferAssumption ==
    /\ Cell \subseteq Nat /\ Junk \notin Cell /\ WordSize \in Nat \ {0}
    /\ Powers \subseteq 1..WordSize - 1 /\ {SizeMax, NewSize, KeepSize} \subseteq Powers
    /\ NewSize <= SizeMax /\ KeepSize <= SizeMax
    /\ Data \subseteq {d \in Seq(Cell) : Len(d) < WordSize} /\ Lengths \subseteq 0..WordSize - 1

VARIABLES
    buf,            \* [mem, allocated, used, pos]
    call            \* the last call [op, n, data, ok]

vars == <<buf, call>>

Block(mem, allocated, used, pos) == [mem |-> mem, allocated |-> allocated, used |-> used, pos |-> pos]
New == Block([i \in 1..NewSize |-> Junk], NewSize, 0, 0)
Init == buf = New /\ call = [op |-> "new", n |-> 0, data |-> <<>>, ok |-> TRUE]

-----------------------------------------------------------------------------
(***************************************************************************)
(* The helpers, from a buffer to a buffer or, where memory may be short,   *)
(* to a set of results.                                                    *)
(***************************************************************************)

Wrap(n) == n % WordSize
Content(b) == [i \in 1..b.used - b.pos |-> b.mem[b.pos + i]]

\* memcpy and memmove: a cell past the end would be memory of someone else.
Copy(m, at, d) == [i \in DOMAIN m \cup (at + 1)..(at + Len(d)) |->
                      IF i \in (at + 1)..(at + Len(d)) THEN d[i - at] ELSE m[i]]

Done(b) == [ok |-> TRUE, b |-> b]
Failed(b) == [ok |-> FALSE, b |-> b]

\* The smallest power of two above what is needed.
Room(needed) == {n \in Powers : n > needed /\ n <= SizeMax /\ \A p \in Powers : p > needed => n <= p}

realloc_buffer(b, needed) ==
    {Block([i \in 1..n |-> IF i <= b.allocated THEN b.mem[i] ELSE Junk], n, b.used, b.pos) : n \in Room(needed)}

\* Variant: the position is left where it was.
KeepsPosition(b) == Block(Copy(b.mem, 0, Content(b)), b.allocated, b.used - b.pos, b.pos)

buffer_shift(b) == Block(Copy(b.mem, 0, Content(b)), b.allocated, b.used - b.pos, 0)

\* Variant: a length that wraps is not refused.
TailUnchecked(b, len) ==
    IF b.allocated >= Wrap(b.used + len) THEN {Done(b)}
    ELSE LET s == buffer_shift(b) IN {Failed(s)} \cup {Done(g) : g \in realloc_buffer(s, s.used + len)}

\* A place for len bytes behind the used ones.
TailRoom(b, len) ==
    IF Wrap(b.used + len) < len THEN {Failed(b)}
    ELSE IF b.allocated >= Wrap(b.used + len) THEN {Done(b)}
    ELSE LET s == buffer_shift(b) IN {Failed(s)} \cup {Done(g) : g \in realloc_buffer(s, s.used + len)}

Put(b, d) == Block(Copy(b.mem, b.used, d), b.allocated, b.used + Len(d), b.pos)

add_data(b, d) == {IF r.ok THEN Done(Put(r.b, d)) ELSE r : r \in TailRoom(b, Len(d))}

\* Variant: the data behind the position is not moved.
HeadUnmoved(b, d) == Block(Copy(b.mem, 0, d), b.allocated, b.used - b.pos + Len(d), 0)

HeadPut(b, d) ==
    Block(Copy(Copy(b.mem, Len(d), Content(b)), 0, d), b.allocated, b.used - b.pos + Len(d), 0)

\* Between the begin and the position, or with all of the rest moved.
prepend_data(b, d) ==
    LET len == b.used - b.pos + Len(d) IN
    IF Len(d) <= b.pos
    THEN {Done(Block(Copy(b.mem, b.pos - Len(d), d), b.allocated, b.used, b.pos - Len(d)))}
    ELSE IF Wrap(len) < Len(d) THEN {Failed(b)}
    ELSE IF b.allocated >= Wrap(len) THEN {Done(HeadPut(b, d))}
    ELSE {Failed(b)} \cup {Done(HeadPut(g, d)) : g \in realloc_buffer(b, len)}

validate_length(b, len) == b.pos + len <= b.used
Pass(b, len) == Block(b.mem, b.allocated, b.used, b.pos + len)
Front(b, len) == [i \in 1..len |-> b.mem[b.pos + i]]

-----------------------------------------------------------------------------
(***************************************************************************)
(* The calls.                                                              *)
(***************************************************************************)

Returns(op, n, data, r) == buf' = r.b /\ call' = [op |-> op, n |-> n, data |-> data, ok |-> r.ok]

AddData(d) == \E r \in add_data(buf, d) : Returns("add", Len(d), d, r)

PrependData(d) == \E r \in prepend_data(buf, d) : Returns("prepend", Len(d), d, r)

\* ssh_buffer_allocate, what the caller reads into the place, and the rest of it given back.
Receive(len, d) ==
    /\ Len(d) <= len
    /\ \E r \in TailRoom(buf, len) :
          Returns("add", Len(d), d,
                  IF r.ok THEN Done(Put(r.b, d)) ELSE r)

allocate_size(len) ==
    \E r \in IF buf.allocated >= len THEN {Done(buf)}
             ELSE {Failed(buffer_shift(buf))} \cup {Done(g) : g \in realloc_buffer(buffer_shift(buf), len)} :
        Returns("reserve", len, <<>>, r)

get_data(len) ==
    IF validate_length(buf, len) THEN Returns("take", len, Front(buf, len), Done(Pass(buf, len)))
    ELSE Returns("take", len, <<>>, Failed(buf))

\* A buffer that is read to its end starts again at its begin.
pass_bytes(len) ==
    IF Wrap(buf.pos + len) < len \/ buf.used < Wrap(buf.pos + len) THEN Returns("take", len, <<>>, Failed(buf))
    ELSE Returns("take", len, Front(buf, len),
                 Done(IF buf.pos + len = buf.used THEN Block(buf.mem, buf.allocated, 0, 0) ELSE Pass(buf, len)))

\* Its callers give back no more than they have added, but for a socket without memory, which ends there.
pass_bytes_end(len) ==
    /\ len <= buf.used - buf.pos
    /\ Returns("cut", len, [i \in 1..len |-> buf.mem[buf.used - len + i]], Done(Block(buf.mem, buf.allocated, buf.used - len, buf.pos)))

\* The length is taken even where the string is not there.
get_ssh_string ==
    IF ~validate_length(buf, 1) THEN Returns("string", 0, <<>>, Failed(buf))
    ELSE LET n == buf.mem[buf.pos + 1]
             rest == Pass(buf, 1)
         IN  IF validate_length(rest, n) THEN Returns("string", n, Front(rest, n), Done(Pass(rest, n)))
             ELSE Returns("string", n, <<>>, Failed(rest))

reinit ==
    LET empty == Block(buf.mem, buf.allocated, 0, 0) IN
    \E r \in IF buf.allocated <= KeepSize THEN {Done(empty)}
             ELSE {Failed(empty)} \cup {Done(g) : g \in realloc_buffer(empty, KeepSize - 1)} :
        Returns("clear", 0, <<>>, r)

Next ==
    \/ \E d \in Data : AddData(d) \/ PrependData(d) \/ \E len \in Lengths : Receive(len, d)
    \/ \E len \in Lengths : allocate_size(len) \/ get_data(len) \/ pass_bytes(len) \/ pass_bytes_end(len)
    \/ get_ssh_string \/ reinit

Spec == Init /\ [][Next]_vars

-----------------------------------------------------------------------------
\* What buffer_verify asserts, and that the memory of the buffer is all it has ever written to.
BufferTypeOK ==
    /\ buf \in [mem : [1..buf.allocated -> Cell \cup {Junk}], allocated : Powers, used : Nat, pos : Nat]
    /\ buf.pos <= buf.used /\ buf.used <= buf.allocated /\ buf.allocated <= SizeMax

\* No byte is ever in the buffer that no caller has put there.
NothingInvented == \A i \in 1..buf.used - buf.pos : Content(buf)[i] \in Cell

\* A buffer is a queue of bytes, whatever it shifts, moves and reallocates.
Queue == INSTANCE ByteQueue WITH bytes <- Content(buf), call <- call
IsByteQueue == Queue!Spec
=============================================================================
