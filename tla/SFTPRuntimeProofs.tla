-------------------------- MODULE SFTPRuntimeProofs --------------------------
(***************************************************************************)
(* Proofs about SFTPRuntime, for any files, close calls and length of the  *)
(* worker's queue, and any set of layers, and about SFTPQueue, for any     *)
(* jobs and any number of calls that get no response in time.              *)
(***************************************************************************)
EXTENDS SFTPRuntime, SFTPQueue, FiniteSetTheorems, SequenceTheorems, TLAPS

Ops == {"operation", "open", "fileOperation", "fileClose", "fileDealloc", "close", "teardown"}
Blocks == [op : Ops, file : Files \cup {NoFile}, closer : Closers \cup {NoCloser}]
FileStates == {"none", "open", "orphan", "closed"}
HandleStates == {"none", "awaited", "held", "dropped"}

-----------------------------------------------------------------------------
(***************************************************************************)
(* The inductive invariant, as predicates on a queue where it speaks of    *)
(* one: the blocks come and go in every step.                              *)
(***************************************************************************)

HasOp(q, op) == \E i \in 1..Len(q) : q[i].op = op
HasClose(q, f) == \E i \in 1..Len(q) : q[i].op = "fileClose" /\ q[i].file = f

\* A teardown comes behind a close.
ClosesFirst(q) == \A i \in 1..Len(q) : q[i].op = "teardown" => \E j \in 1..(i - 1) : q[j].op = "close"

\* Every close call that waits, waits for one block.
OwnClosers(q, calls) ==
    /\ \A i \in 1..Len(q) : q[i].closer # NoCloser => calls[q[i].closer] = "waiting"
    /\ \A i, j \in 1..Len(q) : q[i].closer = q[j].closer /\ q[i].closer # NoCloser => i = j

\* The client is the connection's task until it is closed, and the session outlives it.
StateInv ==
    /\ sftp \in {"open", "freed"} /\ session \in {"live", "freed"}
    /\ closed <=> sftp = "freed"
    /\ currentTask <=> sftp = "open"
    /\ session = "freed" => sftp = "freed"

\* An open file is in the table of an open client.
FileInv == \A f \in Files : file[f] = "open" => f \in fileRuntimes /\ sftp = "open"

\* A disconnect closes the client before it tears the session down.
TeardownInv ==
    sftp = "open" => ClosesFirst(queue) /\ (disconnect = "cancelled" => HasOp(queue, "close"))

\* A handle of the Swift layer closes its file while somebody still has it, so that no file
\* runtime is left to its dealloc.
SwiftInv ==
    layer = "swift" =>
        /\ ~misused /\ ~HasOp(queue, "fileDealloc")
        /\ \A f \in Files : file[f] # "orphan"
        /\ \A f \in Files : file[f] = "open" /\ handle[f] = "dropped" => HasClose(queue, f)

OwnersInv ==
    /\ TypeOK /\ queue \in Seq(Blocks)
    /\ StateInv /\ FileInv /\ TeardownInv /\ OwnClosers(queue, closer) /\ SwiftInv

-----------------------------------------------------------------------------
(***************************************************************************)
(* The queue, one block longer or shorter.                                 *)
(***************************************************************************)

LEMMA Appended ==
    ASSUME NEW q \in Seq(Blocks), NEW b \in Blocks
    PROVE  /\ Append(q, b) \in Seq(Blocks) /\ Len(Append(q, b)) = Len(q) + 1
           /\ \A i \in 1..Len(q) : Append(q, b)[i] = q[i]
           /\ Append(q, b)[Len(q) + 1] = b
OBVIOUS

LEMMA Shortened ==
    ASSUME NEW q \in Seq(Blocks), q # <<>>
    PROVE  /\ Tail(q) \in Seq(Blocks) /\ Len(q) \in Nat /\ Len(q) >= 1 /\ Len(Tail(q)) = Len(q) - 1
           /\ \A i \in 1..(Len(q) - 1) : Tail(q)[i] = q[i + 1]
           /\ Head(q) = q[1] /\ Head(q) \in Blocks
OBVIOUS

LEMMA BlockAt ==
    ASSUME NEW q \in Seq(Blocks), NEW i \in 1..Len(q)
    PROVE  q[i] \in Blocks /\ q[i].op \in Ops /\ q[i].closer \in Closers \cup {NoCloser}
<1>1. q[i] \in Blocks
  BY ElementOfSeq
<1> QED
  BY <1>1 DEF Blocks

LEMMA AppendedHas ==
    ASSUME NEW q \in Seq(Blocks), NEW b \in Blocks
    PROVE  /\ \A op : HasOp(Append(q, b), op) <=> HasOp(q, op) \/ b.op = op
           /\ \A f : HasClose(Append(q, b), f) <=> HasClose(q, f) \/ (b.op = "fileClose" /\ b.file = f)
           /\ \A f : Captured(f, Append(q, b)) <=> Captured(f, q) \/ b.file = f
<1> DEFINE a == Append(q, b)
<1>1. /\ a \in Seq(Blocks) /\ Len(q) \in Nat /\ Len(a) = Len(q) + 1
      /\ DOMAIN a = 1..Len(a) /\ DOMAIN q = 1..Len(q)
      /\ \A i \in 1..Len(q) : a[i] = q[i]
      /\ a[Len(q) + 1] = b
  BY Appended, LenProperties
<1> HIDE DEF a
<1>2. \A op : HasOp(a, op) <=> HasOp(q, op) \/ b.op = op
  BY <1>1 DEF HasOp
<1>3. \A f : HasClose(a, f) <=> HasClose(q, f) \/ (b.op = "fileClose" /\ b.file = f)
  BY <1>1 DEF HasClose
<1>4. \A f : Captured(f, a) <=> Captured(f, q) \/ b.file = f
  BY <1>1 DEF Captured
<1> QED
  BY <1>2, <1>3, <1>4 DEF a

LEMMA ShortenedHas ==
    ASSUME NEW q \in Seq(Blocks), q # <<>>
    PROVE  /\ \A op : HasOp(Tail(q), op) => HasOp(q, op)
           /\ \A op : HasOp(q, op) => HasOp(Tail(q), op) \/ Head(q).op = op
           /\ \A f : HasClose(q, f) => HasClose(Tail(q), f) \/ (Head(q).op = "fileClose" /\ Head(q).file = f)
<1> DEFINE t == Tail(q)
<1>1. /\ t \in Seq(Blocks) /\ Len(q) \in Nat /\ Len(q) >= 1 /\ Len(t) = Len(q) - 1
      /\ \A i \in 1..(Len(q) - 1) : t[i] = q[i + 1]
      /\ Head(q) = q[1]
  BY Shortened
<1> HIDE DEF t
<1>2. \A i \in 1..Len(t) : i + 1 \in 1..Len(q) /\ t[i] = q[i + 1]
  BY <1>1
<1>3. \A i \in 1..Len(q) : i = 1 \/ (i - 1 \in 1..Len(t) /\ t[i - 1] = q[i])
  BY <1>1
<1>4. \A op : HasOp(t, op) => HasOp(q, op)
  BY <1>2 DEF HasOp
<1>5. \A op : HasOp(q, op) => HasOp(t, op) \/ Head(q).op = op
  BY <1>1, <1>3 DEF HasOp
<1>6. \A f : HasClose(q, f) => HasClose(t, f) \/ (Head(q).op = "fileClose" /\ Head(q).file = f)
  BY <1>1, <1>3 DEF HasClose
<1> QED
  BY <1>4, <1>5, <1>6 DEF t

LEMMA ClosedCaptures ==
    ASSUME NEW q \in Seq(Blocks), NEW f, HasClose(q, f) PROVE Captured(f, q)
<1>1. DOMAIN q = 1..Len(q)
  BY LenProperties
<1> QED
  BY <1>1 DEF HasClose, Captured

\* A teardown that comes behind a close stays there.
LEMMA AppendedCloses ==
    ASSUME NEW q \in Seq(Blocks), NEW b \in Blocks, ClosesFirst(q), b.op = "teardown" => HasOp(q, "close")
    PROVE  ClosesFirst(Append(q, b))
<1> DEFINE a == Append(q, b)
<1>1. /\ Len(q) \in Nat /\ Len(a) = Len(q) + 1
      /\ \A i \in 1..Len(q) : a[i] = q[i]
      /\ a[Len(q) + 1] = b
  BY Appended
<1> HIDE DEF a
<1>2. ASSUME NEW i \in 1..Len(a), a[i].op = "teardown"
      PROVE  \E j \in 1..(i - 1) : a[j].op = "close"
  <2>1. CASE i \in 1..Len(q)
    <3>1. PICK j \in 1..(i - 1) : q[j].op = "close"
      BY <1>1, <1>2, <2>1 DEF ClosesFirst
    <3>2. j \in 1..Len(q) /\ a[j] = q[j]
      BY <1>1, <2>1
    <3> QED
      BY <3>1, <3>2
  <2>2. CASE i = Len(q) + 1
    <3>1. PICK j \in 1..Len(q) : q[j].op = "close"
      BY <1>1, <1>2, <2>2 DEF HasOp
    <3>2. j \in 1..(i - 1) /\ a[j] = q[j]
      BY <1>1, <2>2
    <3> QED
      BY <3>1, <3>2
  <2> QED
    BY <1>1, <2>1, <2>2
<1> QED
  BY <1>2 DEF a, ClosesFirst

LEMMA ShortenedCloses ==
    ASSUME NEW q \in Seq(Blocks), q # <<>>, ClosesFirst(q), Head(q).op # "close"
    PROVE  ClosesFirst(Tail(q)) /\ Head(q).op # "teardown"
<1> DEFINE t == Tail(q)
<1>1. /\ Len(q) \in Nat /\ Len(q) >= 1 /\ Len(t) = Len(q) - 1
      /\ \A i \in 1..(Len(q) - 1) : t[i] = q[i + 1]
      /\ Head(q) = q[1]
  BY Shortened
<1> HIDE DEF t
<1>2. ASSUME NEW i \in 1..Len(t), t[i].op = "teardown"
      PROVE  \E j \in 1..(i - 1) : t[j].op = "close"
  <2>1. i + 1 \in 1..Len(q) /\ q[i + 1].op = "teardown" /\ (i + 1) - 1 = i
    BY <1>1, <1>2
  <2>2. PICK j \in 1..i : q[j].op = "close"
    BY <2>1 DEF ClosesFirst
  <2>3. j # 1
    BY <1>1, <2>2
  <2>4. j - 1 \in 1..(i - 1) /\ t[j - 1] = q[j]
    BY <1>1, <2>2, <2>3
  <2> QED
    BY <2>2, <2>4
<1>3. Head(q).op # "teardown"
  <2>1. 1 \in 1..Len(q) /\ 1..(1 - 1) = {}
    BY <1>1
  <2> QED
    BY <1>1, <2>1 DEF ClosesFirst
<1> QED
  BY <1>2, <1>3 DEF t, ClosesFirst

\* The close calls, when a block comes or goes that is not one, or when one is made or answered.
LEMMA AppendedClosers ==
    ASSUME NEW q \in Seq(Blocks), NEW b \in Blocks, NEW calls, NEW calls2, OwnClosers(q, calls),
           \A i \in 1..Len(q) : q[i].closer # NoCloser =>
                q[i].closer # b.closer /\ calls2[q[i].closer] = calls[q[i].closer],
           b.closer # NoCloser => calls2[b.closer] = "waiting"
    PROVE  OwnClosers(Append(q, b), calls2)
<1> DEFINE a == Append(q, b)
<1>1. /\ Len(q) \in Nat /\ Len(a) = Len(q) + 1
      /\ \A i \in 1..Len(q) : a[i] = q[i]
      /\ a[Len(q) + 1] = b
  BY Appended
<1> HIDE DEF a
<1>2. \A i \in 1..Len(a) : i \in 1..Len(q) \/ i = Len(q) + 1
  BY <1>1
<1>3. \A i \in 1..Len(a) : a[i].closer # NoCloser => calls2[a[i].closer] = "waiting"
  BY <1>1, <1>2 DEF OwnClosers
<1>4. \A i, j \in 1..Len(a) : a[i].closer = a[j].closer /\ a[i].closer # NoCloser => i = j
  BY <1>1, <1>2 DEF OwnClosers
<1> QED
  BY <1>3, <1>4 DEF a, OwnClosers

LEMMA ShortenedClosers ==
    ASSUME NEW q \in Seq(Blocks), q # <<>>, NEW calls, NEW calls2, OwnClosers(q, calls),
           \A c \in Closers : c # Head(q).closer => calls2[c] = calls[c]
    PROVE  /\ OwnClosers(Tail(q), calls2)
           /\ Head(q).closer # NoCloser => calls[Head(q).closer] = "waiting"
<1> DEFINE t == Tail(q)
<1>1. /\ Len(q) \in Nat /\ Len(q) >= 1 /\ Len(t) = Len(q) - 1
      /\ \A i \in 1..(Len(q) - 1) : t[i] = q[i + 1]
      /\ Head(q) = q[1]
  BY Shortened
<1> HIDE DEF t
<1>2. \A i \in 1..Len(t) : i + 1 \in 1..Len(q) /\ i + 1 # 1 /\ t[i] = q[i + 1] /\ 1 \in 1..Len(q)
  BY <1>1
<1>3. \A i \in 1..Len(t) : t[i].closer # NoCloser => t[i].closer # Head(q).closer
  BY <1>1, <1>2 DEF OwnClosers
<1>4. \A i \in 1..Len(t) : t[i].closer # NoCloser => calls2[t[i].closer] = "waiting"
  <2>1. \A i \in 1..Len(t) : t[i].closer \in Closers \cup {NoCloser}
    BY <1>2, BlockAt
  <2> QED
    BY <1>2, <1>3, <2>1 DEF OwnClosers
<1>5. \A i, j \in 1..Len(t) : t[i].closer = t[j].closer /\ t[i].closer # NoCloser => i = j
  <2> SUFFICES ASSUME NEW i \in 1..Len(t), NEW j \in 1..Len(t), t[i].closer = t[j].closer, t[i].closer # NoCloser
               PROVE  i = j
    OBVIOUS
  <2>1. /\ i + 1 \in 1..Len(q) /\ j + 1 \in 1..Len(q)
        /\ q[i + 1].closer = q[j + 1].closer /\ q[i + 1].closer # NoCloser
    BY <1>2
  <2>2. i + 1 = j + 1
    BY <2>1 DEF OwnClosers
  <2> QED
    BY <2>2
<1>6. Head(q).closer # NoCloser => calls[Head(q).closer] = "waiting"
  BY <1>1 DEF OwnClosers
<1> QED
  BY <1>4, <1>5, <1>6 DEF t, OwnClosers

-----------------------------------------------------------------------------
(***************************************************************************)
(* What a step does to the reference counts.                               *)
(***************************************************************************)

LEMMA TypedQueue == queue \in Seq(Blocks) => \A i \in DOMAIN queue : queue[i] \in Blocks
<1> SUFFICES ASSUME queue \in Seq(Blocks) PROVE \A i \in DOMAIN queue : queue[i] \in Blocks
  OBVIOUS
<1>1. DOMAIN queue = 1..Len(queue)
  BY LenProperties
<1> QED
  BY <1>1, ElementOfSeq

LEMMA BlockType ==
    ASSUME NEW op \in Ops, NEW f \in Files \cup {NoFile}, NEW c \in Closers \cup {NoCloser}
    PROVE  /\ Block(op, f, c) \in Blocks
           /\ Block(op, f, c).op = op /\ Block(op, f, c).file = f /\ Block(op, f, c).closer = c
BY DEF Block, Blocks

Dealloc(f) == Block("fileDealloc", f, NoCloser)

LEMMA Settles ==
    ASSUME NEW q \in Seq(Blocks), NEW h, NEW fs \in [Files -> FileStates], Settle(q, h, fs)
    PROVE  /\ handle' = h /\ file' \in [Files -> FileStates]
           /\ \A f \in Files : file'[f] = fs[f] \/ (fs[f] = "open" /\ file'[f] = "orphan")
           /\ queue' = q \/ \E f \in Files : queue' = Append(q, Dealloc(f))
           /\ (\A f \in Files : fs[f] = "open" /\ h[f] = "dropped" => HasClose(q, f))
                => queue' = q /\ \A f \in Files : file'[f] = fs[f]
<1> DEFINE dead == {f \in Files : fs[f] = "open" /\ h[f] = "dropped" /\ ~Captured(f, q)}
<1>1. /\ handle' = h
      /\ file' = [f \in Files |-> IF f \in dead THEN "orphan" ELSE fs[f]]
      /\ queue' = IF dead = {} THEN q ELSE Append(q, Block("fileDealloc", CHOOSE f \in dead : TRUE, NoCloser))
  BY DEF Settle
<1>2. \A f \in dead : f \in Files /\ fs[f] = "open"
  OBVIOUS
<1>3. ASSUME dead # {} PROVE \E f \in Files : queue' = Append(q, Dealloc(f))
  <2>1. (CHOOSE f \in dead : TRUE) \in dead
    BY <1>3
  <2>2. PICK f \in Files : f = CHOOSE g \in dead : TRUE
    BY <1>2, <2>1
  <2> QED
    BY <1>1, <1>3, <2>2 DEF Dealloc
<1>4. (\A f \in Files : fs[f] = "open" /\ h[f] = "dropped" => HasClose(q, f)) => dead = {}
  BY ClosedCaptures
<1> HIDE DEF dead
<1>5. file' \in [Files -> FileStates]
  BY <1>1 DEF FileStates
<1>6. \A f \in Files : file'[f] = IF f \in dead THEN "orphan" ELSE fs[f]
  BY <1>1
<1> QED
  BY <1>1, <1>2, <1>3, <1>4, <1>5, <1>6

\* The block that a dealloc leaves behind disturbs nothing.
LEMMA SettledQueue ==
    ASSUME NEW q \in Seq(Blocks), NEW calls,
           queue' = q \/ \E f \in Files : queue' = Append(q, Dealloc(f))
    PROVE  /\ queue' \in Seq(Blocks)
           /\ ClosesFirst(q) => ClosesFirst(queue')
           /\ HasOp(q, "close") => HasOp(queue', "close")
           /\ OwnClosers(q, calls) => OwnClosers(queue', calls)
<1>1. ASSUME NEW f \in Files, queue' = Append(q, Dealloc(f))
      PROVE  /\ queue' \in Seq(Blocks)
             /\ ClosesFirst(q) => ClosesFirst(queue')
             /\ HasOp(q, "close") => HasOp(queue', "close")
             /\ OwnClosers(q, calls) => OwnClosers(queue', calls)
  <2>1. Dealloc(f) \in Blocks /\ Dealloc(f).op = "fileDealloc" /\ Dealloc(f).closer = NoCloser
    BY BlockType DEF Dealloc, Ops
  <2>2. queue' \in Seq(Blocks)
    BY <1>1, <2>1, Appended
  <2>3. ClosesFirst(q) => ClosesFirst(queue')
    BY <1>1, <2>1, AppendedCloses
  <2>4. HasOp(q, "close") => HasOp(queue', "close")
    BY <1>1, <2>1, AppendedHas
  <2>5. OwnClosers(q, calls) => OwnClosers(queue', calls)
    BY <1>1, <2>1, AppendedClosers
  <2> QED
    BY <2>2, <2>3, <2>4, <2>5
<1> QED
  BY <1>1

-----------------------------------------------------------------------------
(***************************************************************************)
(* The application's steps that add a block, or none.                      *)
(***************************************************************************)

\* What of the invariant does not concern the queue.
Type ==
    /\ layer \in Layers /\ {session, sftp} \subseteq {"live", "open", "freed"}
    /\ {currentTask, closed, misused} \subseteq BOOLEAN
    /\ fileRuntimes \subseteq Files
    /\ file \in [Files -> FileStates] /\ handle \in [Files -> HandleStates]
    /\ \A f \in Files : handle[f] \in {"held", "dropped"} => file[f] # "none"
    /\ client \in {"held", "dropped"} /\ closer \in [Closers -> {"none", "waiting", "answered"}]
    /\ disconnect \in {"none", "cancelled", "queued", "done"}

LEMMA TypeIs == (Type /\ queue \in Seq(Blocks)) <=> (TypeOK /\ queue \in Seq(Blocks))
BY TypedQueue DEF Type, TypeOK, Blocks, Ops, FileStates, HandleStates

Inv == Type /\ queue \in Seq(Blocks) /\ StateInv /\ FileInv /\ TeardownInv /\ OwnClosers(queue, closer) /\ SwiftInv

LEMMA InvIs == Inv <=> OwnersInv
BY TypeIs DEF Inv, OwnersInv

LEMMA Pushes ==
    ASSUME Inv, NEW b \in Blocks, queue' = Append(queue, b), UNCHANGED <<layer, file, objectVars>>, Type',
           b.op # "fileDealloc", b.op = "teardown" => disconnect = "cancelled",
           disconnect' = "cancelled" => disconnect = "cancelled" \/ b.op = "close",
           \/ b.closer = NoCloser /\ UNCHANGED closer
           \/ b.closer \in Closers /\ closer[b.closer] = "none"
              /\ closer' = [closer EXCEPT ![b.closer] = "waiting"],
           \A f \in Files : handle'[f] = "dropped" => handle[f] = "dropped"
    PROVE  Inv'
<1>a. Type /\ queue \in Seq(Blocks) /\ StateInv /\ FileInv /\ TeardownInv /\ OwnClosers(queue, closer) /\ SwiftInv
  BY DEF Inv
<1>b. UNCHANGED <<layer, file, session, currentTask, sftp, closed, fileRuntimes, misused>>
  BY DEF objectVars
<1>1. queue' \in Seq(Blocks)
  BY <1>a, Appended
<1>2. StateInv' /\ FileInv'
  BY <1>a, <1>b DEF StateInv, FileInv
<1>3. TeardownInv'
  <2> SUFFICES ASSUME sftp = "open"
               PROVE  ClosesFirst(queue') /\ (disconnect' = "cancelled" => HasOp(queue', "close"))
    BY <1>b DEF TeardownInv
  <2>1. ClosesFirst(queue) /\ (disconnect = "cancelled" => HasOp(queue, "close"))
    BY <1>a DEF TeardownInv
  <2>2. ClosesFirst(queue')
    BY <1>a, <2>1, AppendedCloses
  <2>3. disconnect' = "cancelled" => HasOp(queue', "close")
    BY <1>a, <2>1, AppendedHas
  <2> QED
    BY <2>2, <2>3
<1>4. OwnClosers(queue', closer')
  <2>1. CASE b.closer = NoCloser /\ UNCHANGED closer
    BY <1>a, <2>1, AppendedClosers
  <2>2. CASE b.closer \in Closers /\ closer[b.closer] = "none" /\ closer' = [closer EXCEPT ![b.closer] = "waiting"]
    <3>1. closer'[b.closer] = "waiting" /\ \A c \in Closers : c # b.closer => closer'[c] = closer[c]
      BY <1>a, <2>2 DEF Type
    <3>2. \A i \in 1..Len(queue) : queue[i].closer \in Closers \cup {NoCloser}
      BY <1>a, BlockAt
    <3>3. \A i \in 1..Len(queue) : queue[i].closer # NoCloser => closer[queue[i].closer] = "waiting"
      BY <1>a DEF OwnClosers
    <3>4. \A i \in 1..Len(queue) : queue[i].closer # NoCloser =>
                queue[i].closer # b.closer /\ closer'[queue[i].closer] = closer[queue[i].closer]
      BY <2>2, <3>1, <3>2, <3>3
    <3> QED
      BY <1>a, <3>1, <3>4, AppendedClosers
  <2> QED
    BY <2>1, <2>2
<1>5. SwiftInv'
  BY <1>a, <1>b, AppendedHas DEF SwiftInv
<1> QED
  BY <1>1, <1>2, <1>3, <1>4, <1>5 DEF Inv

LEMMA Stays ==
    ASSUME Inv, Type', UNCHANGED <<layer, queue, file, handle, closer, objectVars>>,
           disconnect' = "cancelled" => disconnect = "cancelled" \/ sftp # "open"
    PROVE  Inv'
BY DEF Inv, StateInv, FileInv, TeardownInv, SwiftInv, objectVars

LEMMA CallsSafe ==
    ASSUME Inv, \/ CallOperation \/ DropClient \/ CallDisconnect \/ QueueTeardown
                \/ \E f \in Files : CallOpen(f) \/ CallFile(f)
                \/ \E c \in Closers : CallClose(c)
    PROVE  Inv'
<1>t. Type
  BY DEF Inv
<1>o. \A op \in Ops : Block(op, NoFile, NoCloser) \in Blocks
  BY BlockType
<1>1. CASE CallOperation
  <2>1. /\ queue' = Append(queue, Block("operation", NoFile, NoCloser))
        /\ UNCHANGED <<layer, file, objectVars, handle, client, closer, disconnect>>
    BY <1>1 DEF CallOperation, appVars
  <2>2. Type'
    BY <1>t, <2>1 DEF Type, objectVars
  <2>3. Block("operation", NoFile, NoCloser) \in Blocks /\ Block("operation", NoFile, NoCloser).op = "operation"
        /\ Block("operation", NoFile, NoCloser).closer = NoCloser
    BY BlockType DEF Ops
  <2> QED
    BY <2>1, <2>2, <2>3, Pushes
<1>2. CASE DropClient
  <2>1. UNCHANGED <<layer, file, objectVars, handle, closer, disconnect>> /\ client' = "dropped"
    BY <1>2 DEF DropClient
  <2>2. Type'
    BY <1>t, <2>1 DEF Type, objectVars
  <2>3. CASE layer = "swift"
    <3>1. queue' = Append(queue, Block("close", NoFile, NoCloser))
      BY <1>2, <2>3 DEF DropClient
    <3>2. Block("close", NoFile, NoCloser) \in Blocks /\ Block("close", NoFile, NoCloser).op = "close"
          /\ Block("close", NoFile, NoCloser).closer = NoCloser
      BY BlockType DEF Ops
    <3> QED
      BY <2>1, <2>2, <3>1, <3>2, Pushes
  <2>4. CASE layer # "swift"
    <3>1. UNCHANGED queue
      BY <1>2, <2>4 DEF DropClient
    <3> QED
      BY <2>1, <2>2, <3>1, Stays
  <2> QED
    BY <2>3, <2>4
<1>3. CASE CallDisconnect
  <2>1. UNCHANGED <<layer, file, objectVars, handle, client, closer>> /\ disconnect' = "cancelled"
    BY <1>3 DEF CallDisconnect
  <2>2. Type'
    BY <1>t, <2>1 DEF Type, objectVars
  <2>3. CASE currentTask
    <3>1. queue' = Append(queue, Block("close", NoFile, NoCloser))
      BY <1>3, <2>3 DEF CallDisconnect
    <3>2. Block("close", NoFile, NoCloser) \in Blocks /\ Block("close", NoFile, NoCloser).op = "close"
          /\ Block("close", NoFile, NoCloser).closer = NoCloser
      BY BlockType DEF Ops
    <3> QED
      BY <2>1, <2>2, <3>1, <3>2, Pushes
  <2>4. CASE ~currentTask
    <3>1. UNCHANGED queue /\ sftp # "open"
      BY <1>3, <2>4 DEF CallDisconnect, Inv, StateInv
    <3> QED
      BY <2>1, <2>2, <3>1, Stays
  <2> QED
    BY <2>3, <2>4
<1>4. CASE QueueTeardown
  <2>1. /\ disconnect = "cancelled" /\ disconnect' = "queued"
        /\ queue' = Append(queue, Block("teardown", NoFile, NoCloser))
        /\ UNCHANGED <<layer, file, objectVars, handle, client, closer>>
    BY <1>4 DEF QueueTeardown
  <2>2. Type'
    BY <1>t, <2>1 DEF Type, objectVars
  <2>3. Block("teardown", NoFile, NoCloser) \in Blocks /\ Block("teardown", NoFile, NoCloser).op = "teardown"
        /\ Block("teardown", NoFile, NoCloser).closer = NoCloser
    BY BlockType DEF Ops
  <2> QED
    BY <2>1, <2>2, <2>3, Pushes
<1>5. ASSUME NEW f \in Files, CallOpen(f) PROVE Inv'
  <2>1. /\ queue' = Append(queue, Block("open", f, NoCloser))
        /\ handle' = [handle EXCEPT ![f] = "awaited"]
        /\ UNCHANGED <<layer, file, objectVars, client, closer, disconnect>>
    BY <1>5 DEF CallOpen
  <2>2. \A g \in Files : handle'[g] = IF g = f THEN "awaited" ELSE handle[g]
    BY <1>t, <2>1 DEF Type
  <2>3. Type'
    BY <1>t, <2>1, <2>2 DEF Type, objectVars, HandleStates
  <2>4. Block("open", f, NoCloser) \in Blocks /\ Block("open", f, NoCloser).op = "open"
        /\ Block("open", f, NoCloser).closer = NoCloser
    BY BlockType DEF Ops
  <2>5. \A g \in Files : handle'[g] = "dropped" => handle[g] = "dropped"
    BY <2>2
  <2> QED
    BY <2>1, <2>3, <2>4, <2>5, Pushes
<1>6. ASSUME NEW f \in Files, CallFile(f) PROVE Inv'
  <2>1. PICK op \in {"fileOperation", "fileClose"} : queue' = Append(queue, Block(op, f, NoCloser))
    BY <1>6 DEF CallFile
  <2>2. UNCHANGED <<layer, file, objectVars, handle, client, closer, disconnect>>
    BY <1>6 DEF CallFile, appVars
  <2>3. Type'
    BY <1>t, <2>2 DEF Type, objectVars
  <2>4. op \in Ops
    BY DEF Ops
  <2>5. Block(op, f, NoCloser) \in Blocks /\ Block(op, f, NoCloser).op \in {"fileOperation", "fileClose"}
        /\ Block(op, f, NoCloser).closer = NoCloser
    BY <2>4, BlockType
  <2> QED
    BY <2>1, <2>2, <2>3, <2>5, Pushes
<1>7. ASSUME NEW c \in Closers, CallClose(c) PROVE Inv'
  <2>1. /\ closer[c] = "none" /\ closer' = [closer EXCEPT ![c] = "waiting"]
        /\ queue' = Append(queue, Block("close", NoFile, c))
        /\ UNCHANGED <<layer, file, objectVars, handle, client, disconnect>>
    BY <1>7 DEF CallClose
  <2>2. Type'
    BY <1>t, <2>1 DEF Type, objectVars
  <2>3. Block("close", NoFile, c) \in Blocks /\ Block("close", NoFile, c).op = "close"
        /\ Block("close", NoFile, c).closer = c
    BY BlockType DEF Ops
  <2> QED
    BY <2>1, <2>2, <2>3, Pushes
<1> QED
  BY <1>1, <1>2, <1>3, <1>4, <1>5, <1>6, <1>7

LEMMA DropHandleSafe == ASSUME Inv, NEW f \in Files, DropHandle(f) PROVE Inv'
<1> DEFINE b == Block("fileClose", f, NoCloser)
<1> DEFINE q == IF layer = "swift" THEN Append(queue, b) ELSE queue
<1> DEFINE h == [handle EXCEPT ![f] = "dropped"]
<1>a. /\ Type /\ queue \in Seq(Blocks) /\ StateInv /\ FileInv /\ TeardownInv /\ OwnClosers(queue, closer)
      /\ SwiftInv /\ file \in [Files -> FileStates]
  BY DEF Inv, Type
<1>b. /\ handle[f] = "held" /\ Settle(q, h, file)
      /\ UNCHANGED <<layer, session, currentTask, sftp, closed, fileRuntimes, misused, client, closer, disconnect>>
  BY DEF DropHandle, objectVars
<1>c. b \in Blocks /\ b.op = "fileClose" /\ b.file = f /\ b.closer = NoCloser
  BY BlockType DEF Ops
<1>h. \A g \in Files : h[g] = IF g = f THEN "dropped" ELSE handle[g]
  BY <1>a DEF Type
<1>i. h \in [Files -> HandleStates]
  BY <1>a DEF Type, HandleStates
<1> HIDE DEF b, h
<1>q. /\ q \in Seq(Blocks) /\ (ClosesFirst(queue) => ClosesFirst(q)) /\ (HasOp(queue, "close") => HasOp(q, "close"))
      /\ OwnClosers(q, closer)
  <2>1. CASE layer = "swift"
    <3>1. q = Append(queue, b)
      BY <2>1
    <3>2. OwnClosers(q, closer)
      BY <1>a, <1>c, <3>1, AppendedClosers
    <3>3. ClosesFirst(queue) => ClosesFirst(q)
      BY <1>a, <1>c, <3>1, AppendedCloses
    <3>4. q \in Seq(Blocks) /\ (HasOp(queue, "close") => HasOp(q, "close"))
      BY <1>a, <1>c, <3>1, AppendedHas, Appended
    <3> QED
      BY <3>2, <3>3, <3>4
  <2>2. CASE layer # "swift"
    BY <1>a, <2>2
  <2> QED
    BY <2>1, <2>2
<1>r. layer = "swift" => /\ \A g \in Files : file[g] = "open" /\ h[g] = "dropped" => HasClose(q, g)
                         /\ ~HasOp(q, "fileDealloc")
  BY <1>a, <1>c, <1>h, AppendedHas DEF SwiftInv
<1> HIDE DEF q
<1>s. /\ handle' = h /\ file' \in [Files -> FileStates]
      /\ \A g \in Files : file'[g] = file[g] \/ (file[g] = "open" /\ file'[g] = "orphan")
      /\ queue' = q \/ \E g \in Files : queue' = Append(q, Dealloc(g))
      /\ (\A g \in Files : file[g] = "open" /\ h[g] = "dropped" => HasClose(q, g))
            => queue' = q /\ \A g \in Files : file'[g] = file[g]
  BY <1>a, <1>b, <1>q, Settles
<1>1. Type'
  BY <1>a, <1>b, <1>h, <1>i, <1>s DEF Type
<1>2. StateInv' /\ FileInv'
  BY <1>a, <1>b, <1>s DEF StateInv, FileInv
<1>3. /\ queue' \in Seq(Blocks) /\ OwnClosers(queue', closer')
      /\ ClosesFirst(q) => ClosesFirst(queue')
      /\ HasOp(q, "close") => HasOp(queue', "close")
  BY <1>b, <1>q, <1>s, SettledQueue
<1>4. TeardownInv'
  BY <1>a, <1>b, <1>q, <1>3 DEF TeardownInv
<1>5. SwiftInv'
  BY <1>a, <1>b, <1>r, <1>s DEF SwiftInv
<1> QED
  BY <1>1, <1>2, <1>3, <1>4, <1>5 DEF Inv

-----------------------------------------------------------------------------
(***************************************************************************)
(* The worker's blocks.                                                    *)
(***************************************************************************)

\* What the end of a block that closes nothing does to the queue.
LEMMA Runs ==
    ASSUME Inv, queue # <<>>, Head(queue).op # "close",
           queue' = Tail(queue) \/ \E f \in Files : queue' = Append(Tail(queue), Dealloc(f)),
           UNCHANGED <<sftp, closer>>, disconnect' = "cancelled" => disconnect = "cancelled"
    PROVE  queue' \in Seq(Blocks) /\ TeardownInv' /\ OwnClosers(queue', closer')
<1>a. queue \in Seq(Blocks) /\ TeardownInv /\ OwnClosers(queue, closer) /\ Tail(queue) \in Seq(Blocks)
  BY Shortened DEF Inv
<1>1. /\ queue' \in Seq(Blocks)
      /\ ClosesFirst(Tail(queue)) => ClosesFirst(queue')
      /\ HasOp(Tail(queue), "close") => HasOp(queue', "close")
      /\ OwnClosers(Tail(queue), closer) => OwnClosers(queue', closer)
  BY <1>a, SettledQueue
<1>2. OwnClosers(Tail(queue), closer)
  BY <1>a, ShortenedClosers
<1>3. ClosesFirst(queue) => ClosesFirst(Tail(queue))
  BY <1>a, ShortenedCloses
<1>4. HasOp(queue, "close") => HasOp(Tail(queue), "close")
  BY <1>a, ShortenedHas
<1> QED
  BY <1>a, <1>1, <1>2, <1>3, <1>4 DEF TeardownInv

\* What it does in the Swift layer, where no file runtime is left to its dealloc: h and fs are
\* the handles and files that the block leaves.
LEMMA SwiftRuns ==
    ASSUME Inv, queue # <<>>, layer = "swift", NEW h, NEW fs,
           \A f \in Files : fs[f] = "open" /\ h[f] = "dropped" =>
                file[f] = "open" /\ handle[f] = "dropped"
                /\ ~(Head(queue).op = "fileClose" /\ Head(queue).file = f)
    PROVE  /\ \A f \in Files : fs[f] = "open" /\ h[f] = "dropped" => HasClose(Tail(queue), f)
           /\ ~HasOp(Tail(queue), "fileDealloc") /\ Head(queue).op # "fileDealloc"
<1>a. queue \in Seq(Blocks) /\ ~HasOp(queue, "fileDealloc")
      /\ \A f \in Files : file[f] = "open" /\ handle[f] = "dropped" => HasClose(queue, f)
  BY DEF Inv, SwiftInv
<1>1. Head(queue) = queue[1] /\ 1 \in 1..Len(queue)
  BY <1>a, Shortened
<1>2. Head(queue).op # "fileDealloc"
  BY <1>a, <1>1 DEF HasOp
<1> QED
  BY <1>a, <1>2, ShortenedHas

\* A block of a file or of openFileAtPath:, which leaves the client as it is.
LEMMA FileBlock ==
    ASSUME Inv, queue # <<>>, Head(queue).op # "close",
           NEW h \in [Files -> HandleStates], NEW fs \in [Files -> FileStates], Settle(Tail(queue), h, fs),
           UNCHANGED <<layer, session, currentTask, sftp, closed, client, closer, disconnect>>,
           fileRuntimes' \subseteq Files, misused' \in BOOLEAN,
           \A f \in Files : h[f] \in {"held", "dropped"} => fs[f] # "none",
           \A f \in Files : fs[f] = "open" => f \in fileRuntimes' /\ sftp = "open",
           layer = "swift" => /\ ~misused'
                              /\ \A f \in Files : fs[f] # "orphan"
                              /\ \A f \in Files : fs[f] = "open" /\ h[f] = "dropped" =>
                                    file[f] = "open" /\ handle[f] = "dropped"
                                    /\ ~(Head(queue).op = "fileClose" /\ Head(queue).file = f)
    PROVE  Inv'
<1>a. Type /\ queue \in Seq(Blocks) /\ StateInv /\ SwiftInv /\ Tail(queue) \in Seq(Blocks)
  BY Shortened DEF Inv
<1>s. /\ handle' = h /\ file' \in [Files -> FileStates]
      /\ \A f \in Files : file'[f] = fs[f] \/ (fs[f] = "open" /\ file'[f] = "orphan")
      /\ queue' = Tail(queue) \/ \E f \in Files : queue' = Append(Tail(queue), Dealloc(f))
      /\ (\A f \in Files : fs[f] = "open" /\ h[f] = "dropped" => HasClose(Tail(queue), f))
            => queue' = Tail(queue) /\ \A f \in Files : file'[f] = fs[f]
  <2>1. Tail(queue) \in Seq(Blocks) /\ fs \in [Files -> FileStates] /\ Settle(Tail(queue), h, fs)
    BY <1>a
  <2> HIDE DEF Inv
  <2>2. PICK q \in Seq(Blocks) : q = Tail(queue)
    BY <2>1
  <2>3. Settle(q, h, fs)
    BY <2>1, <2>2
  <2>4. /\ handle' = h /\ file' \in [Files -> FileStates]
        /\ \A f \in Files : file'[f] = fs[f] \/ (fs[f] = "open" /\ file'[f] = "orphan")
        /\ queue' = q \/ \E f \in Files : queue' = Append(q, Dealloc(f))
        /\ (\A f \in Files : fs[f] = "open" /\ h[f] = "dropped" => HasClose(q, f))
              => queue' = q /\ \A f \in Files : file'[f] = fs[f]
    BY <2>3, Settles
  <2> QED
    BY <2>2, <2>4
<1>1. queue' \in Seq(Blocks) /\ TeardownInv' /\ OwnClosers(queue', closer')
  BY <1>s, Runs
<1>2. Type'
  BY <1>a, <1>s DEF Type
<1>3. StateInv'
  BY <1>a DEF StateInv
<1>4. FileInv'
  BY <1>s DEF FileInv
<1>5. SwiftInv'
  <2> SUFFICES ASSUME layer = "swift" PROVE SwiftInv'
    BY DEF SwiftInv
  <2>1. /\ \A f \in Files : fs[f] = "open" /\ h[f] = "dropped" => HasClose(Tail(queue), f)
        /\ ~HasOp(Tail(queue), "fileDealloc")
    BY SwiftRuns
  <2>2. queue' = Tail(queue) /\ \A f \in Files : file'[f] = fs[f]
    BY <1>s, <2>1
  <2> QED
    BY <1>s, <2>1, <2>2 DEF SwiftInv
<1> QED
  BY <1>1, <1>2, <1>3, <1>4, <1>5 DEF Inv

\* libssh is given what is there.
LEMMA UsesLive == Inv /\ IsOpen => sftp = "open" /\ session = "live" /\ ~closed
BY DEF Inv, StateInv, IsOpen

LEMMA RunOpenSafe == Inv /\ RunOpen => Inv'
<1> SUFFICES ASSUME Inv, RunOpen PROVE Inv'
  OBVIOUS
<1>a. /\ Type /\ StateInv /\ FileInv /\ SwiftInv /\ file \in [Files -> FileStates] /\ handle \in [Files -> HandleStates]
      /\ misused \in BOOLEAN
  BY DEF Inv, Type
<1>b. queue # <<>> /\ Head(queue).op = "open"
  BY DEF RunOpen, RunBlock
<1>1. ASSUME NEW f \in Files, OpensFile(f) PROVE Inv'
  <2> DEFINE h == [handle EXCEPT ![f] = "held"]
  <2> DEFINE fs == [file EXCEPT ![f] = "open"]
  <2>1. /\ IsOpen /\ UseSession /\ fileRuntimes' = fileRuntimes \cup {f} /\ Settle(Tail(queue), h, fs)
        /\ UNCHANGED <<layer, session, currentTask, sftp, closed, client, closer, disconnect>>
    BY <1>1 DEF OpensFile
  <2>2. h \in [Files -> HandleStates] /\ fs \in [Files -> FileStates]
    BY <1>a DEF HandleStates, FileStates
  <2>3. /\ \A g \in Files : h[g] = IF g = f THEN "held" ELSE handle[g]
        /\ \A g \in Files : fs[g] = IF g = f THEN "open" ELSE file[g]
    BY <1>a
  <2> HIDE DEF h, fs
  <2>4. sftp = "open" /\ misused' = misused
    BY <1>a, <2>1, UsesLive DEF UseSession
  <2>5. fileRuntimes' \subseteq Files
    BY <1>a, <2>1 DEF Type
  <2>6. \A g \in Files : h[g] \in {"held", "dropped"} => fs[g] # "none"
    BY <1>a, <2>3 DEF Type
  <2>7. \A g \in Files : fs[g] = "open" => g \in fileRuntimes' /\ sftp = "open"
    BY <1>a, <2>1, <2>3, <2>4 DEF FileInv
  <2>8. layer = "swift" => /\ ~misused'
                           /\ \A g \in Files : fs[g] # "orphan"
                           /\ \A g \in Files : fs[g] = "open" /\ h[g] = "dropped" =>
                                file[g] = "open" /\ handle[g] = "dropped"
                                /\ ~(Head(queue).op = "fileClose" /\ Head(queue).file = g)
    BY <1>a, <1>b, <2>3, <2>4 DEF SwiftInv
  <2> QED
    BY <1>a, <1>b, <2>1, <2>2, <2>4, <2>5, <2>6, <2>7, <2>8, FileBlock
<1>2. ASSUME NEW f \in Files, RefusesFile(f) PROVE Inv'
  <2> DEFINE h == [handle EXCEPT ![f] = "none"]
  <2>1. /\ IF IsOpen THEN UseSession ELSE UNCHANGED misused
        /\ Settle(Tail(queue), h, file)
        /\ UNCHANGED <<layer, session, currentTask, sftp, closed, fileRuntimes, client, closer, disconnect>>
    BY <1>2 DEF RefusesFile
  <2>2. h \in [Files -> HandleStates] /\ \A g \in Files : h[g] = IF g = f THEN "none" ELSE handle[g]
    BY <1>a DEF HandleStates
  <2> HIDE DEF h
  <2>3. misused' = misused
    BY <1>a, <2>1, UsesLive DEF UseSession
  <2>4. fileRuntimes' \subseteq Files /\ \A g \in Files : file[g] = "open" => g \in fileRuntimes' /\ sftp = "open"
    BY <1>a, <2>1 DEF Type, FileInv
  <2>5. \A g \in Files : h[g] \in {"held", "dropped"} => file[g] # "none"
    BY <1>a, <2>2 DEF Type
  <2>6. layer = "swift" => /\ ~misused'
                           /\ \A g \in Files : file[g] # "orphan"
                           /\ \A g \in Files : file[g] = "open" /\ h[g] = "dropped" =>
                                file[g] = "open" /\ handle[g] = "dropped"
                                /\ ~(Head(queue).op = "fileClose" /\ Head(queue).file = g)
    BY <1>a, <1>b, <2>2, <2>3 DEF SwiftInv
  <2> QED
    BY <1>a, <1>b, <2>1, <2>2, <2>3, <2>4, <2>5, <2>6, FileBlock
<1> QED
  BY <1>1, <1>2 DEF RunOpen

LEMMA RunFileSafe ==
    ASSUME Inv, NEW f \in Files, RunFileOperation(f) \/ RunFileClose(f) \/ RunFileDealloc(f)
    PROVE  Inv'
<1>a. /\ Type /\ StateInv /\ FileInv /\ SwiftInv /\ file \in [Files -> FileStates] /\ handle \in [Files -> HandleStates]
      /\ misused \in BOOLEAN
  BY DEF Inv, Type
<1>u. file[f] = "open" /\ UseFile(f, file) => misused' = misused
  <2>1. file[f] = "open" => sftp = "open" /\ session = "live"
    BY <1>a DEF FileInv, StateInv
  <2> QED
    BY <1>a, <2>1 DEF UseFile
<1>m. UseFile(f, file) => misused' \in BOOLEAN
  BY <1>a DEF UseFile
<1>t. \A g \in Files : handle[g] \in {"held", "dropped"} => file[g] # "none"
  BY <1>a DEF Type
<1>1. CASE RunFileOperation(f)
  <2>1. /\ queue # <<>> /\ Head(queue).op = "fileOperation"
        /\ IF file[f] = "open" /\ IsOpen THEN UseFile(f, file) ELSE UNCHANGED misused
        /\ Settle(Tail(queue), handle, file)
        /\ UNCHANGED <<layer, session, currentTask, sftp, closed, fileRuntimes, client, closer, disconnect>>
    BY <1>1 DEF RunFileOperation, RunBlock
  <2>2. misused' = misused
    BY <1>u, <2>1
  <2>3. fileRuntimes' \subseteq Files /\ \A g \in Files : file[g] = "open" => g \in fileRuntimes' /\ sftp = "open"
    BY <1>a, <2>1 DEF Type, FileInv
  <2>4. layer = "swift" => /\ ~misused'
                           /\ \A g \in Files : file[g] # "orphan"
                           /\ \A g \in Files : file[g] = "open" /\ handle[g] = "dropped" =>
                                file[g] = "open" /\ handle[g] = "dropped"
                                /\ ~(Head(queue).op = "fileClose" /\ Head(queue).file = g)
    BY <1>a, <2>1, <2>2 DEF SwiftInv
  <2> QED
    BY <1>a, <1>t, <2>1, <2>2, <2>3, <2>4, FileBlock
<1> DEFINE fs == [file EXCEPT ![f] = "closed"]
<1>fs. fs \in [Files -> FileStates] /\ \A g \in Files : fs[g] = IF g = f THEN "closed" ELSE file[g]
  BY <1>a DEF FileStates
<1> HIDE DEF fs
<1>2. CASE RunFileClose(f)
  <2>1. /\ queue # <<>> /\ Head(queue).op = "fileClose" /\ Head(queue).file = f
        /\ IF file[f] = "open" THEN UseFile(f, file) /\ fileRuntimes' = fileRuntimes \ {f}
                               ELSE UNCHANGED <<misused, fileRuntimes>>
        /\ Settle(Tail(queue), handle, fs)
        /\ UNCHANGED <<layer, session, currentTask, sftp, closed, client, closer, disconnect>>
    BY <1>2 DEF RunFileClose, RunBlock, Running, fs
  <2>2. misused' = misused
    BY <1>u, <2>1
  <2>3. fileRuntimes' \subseteq Files /\ \A g \in Files : fs[g] = "open" => g \in fileRuntimes' /\ sftp = "open"
    BY <1>a, <1>fs, <2>1 DEF Type, FileInv
  <2>4. \A g \in Files : handle[g] \in {"held", "dropped"} => fs[g] # "none"
    BY <1>t, <1>fs
  <2>5. layer = "swift" => /\ ~misused'
                           /\ \A g \in Files : fs[g] # "orphan"
                           /\ \A g \in Files : fs[g] = "open" /\ handle[g] = "dropped" =>
                                file[g] = "open" /\ handle[g] = "dropped"
                                /\ ~(Head(queue).op = "fileClose" /\ Head(queue).file = g)
    BY <1>a, <1>fs, <2>1, <2>2 DEF SwiftInv
  <2> QED
    BY <1>a, <1>fs, <2>1, <2>2, <2>3, <2>4, <2>5, FileBlock
<1>3. CASE RunFileDealloc(f)
  <2>1. /\ queue # <<>> /\ Head(queue).op = "fileDealloc" /\ Head(queue).file = f
        /\ UseFile(f, file) /\ Settle(Tail(queue), handle, fs)
        /\ UNCHANGED <<layer, session, currentTask, sftp, closed, fileRuntimes, client, closer, disconnect>>
    BY <1>3 DEF RunFileDealloc, RunBlock, Running, fs
  <2>2. layer # "swift"
    BY <2>1, SwiftRuns
  <2>3. misused' \in BOOLEAN
    BY <1>m, <2>1
  <2>4. fileRuntimes' \subseteq Files /\ \A g \in Files : fs[g] = "open" => g \in fileRuntimes' /\ sftp = "open"
    BY <1>a, <1>fs, <2>1 DEF Type, FileInv
  <2>5. \A g \in Files : handle[g] \in {"held", "dropped"} => fs[g] # "none"
    BY <1>t, <1>fs
  <2> QED
    BY <1>a, <1>fs, <2>1, <2>2, <2>3, <2>4, <2>5, FileBlock
<1> QED
  BY <1>1, <1>2, <1>3

\* The blocks that touch no file: an operation of the client, and the teardown.
LEMMA RunOtherSafe == Inv /\ (RunOperation \/ RunTeardown) => Inv'
<1> SUFFICES ASSUME Inv, RunOperation \/ RunTeardown PROVE Inv'
  OBVIOUS
<1>a. /\ Type /\ StateInv /\ FileInv /\ SwiftInv /\ TeardownInv /\ queue \in Seq(Blocks)
  BY DEF Inv
<1>b. /\ queue # <<>> /\ Head(queue).op \in {"operation", "teardown"} /\ queue' = Tail(queue)
      /\ UNCHANGED <<layer, file, sftp, closed, fileRuntimes, handle, client, closer>>
  BY DEF RunOperation, RunTeardown, RunBlock, appVars
<1>1. misused' = misused
  BY <1>a, UsesLive DEF RunOperation, RunTeardown, UseSession, Type
<1>2. \/ UNCHANGED <<session, currentTask, disconnect>>
      \/ /\ sftp = "freed" /\ session' = "freed" /\ currentTask' = FALSE /\ disconnect' = "done"
  <2>1. CASE RunOperation
    BY <2>1 DEF RunOperation, appVars
  <2>2. CASE RunTeardown
    <3>1. session' = "freed" /\ currentTask' = FALSE /\ disconnect' = "done" /\ Head(queue).op = "teardown"
      BY <2>2 DEF RunTeardown, RunBlock
    <3>2. sftp # "open"
      BY <1>a, <1>b, <3>1, ShortenedCloses DEF TeardownInv
    <3> QED
      BY <1>a, <3>1, <3>2 DEF StateInv
  <2> QED
    BY <2>1, <2>2
<1>3. queue' \in Seq(Blocks) /\ TeardownInv' /\ OwnClosers(queue', closer')
  BY <1>b, <1>2, Runs
<1>4. Type'
  BY <1>a, <1>b, <1>1, <1>2 DEF Type
<1>5. StateInv' /\ FileInv'
  BY <1>a, <1>b, <1>2 DEF StateInv, FileInv
<1>6. SwiftInv'
  <2> SUFFICES ASSUME layer = "swift" PROVE SwiftInv'
    BY <1>b DEF SwiftInv
  <2>1. /\ \A f \in Files : file[f] = "open" /\ handle[f] = "dropped" => HasClose(Tail(queue), f)
        /\ ~HasOp(Tail(queue), "fileDealloc")
    BY <1>b, SwiftRuns
  <2> QED
    BY <1>a, <1>b, <1>1, <2>1 DEF SwiftInv
<1> QED
  BY <1>3, <1>4, <1>5, <1>6 DEF Inv

LEMMA RunCloseSafe ==
    Inv /\ RunClose =>
        /\ Inv' /\ sftp' = "freed"
        /\ IF Head(queue).closer = NoCloser THEN UNCHANGED closer
           ELSE /\ Head(queue).closer \in Closers /\ closer[Head(queue).closer] = "waiting"
                /\ closer' = [closer EXCEPT ![Head(queue).closer] = "answered"]
<1> SUFFICES ASSUME Inv, RunClose
             PROVE  /\ Inv' /\ sftp' = "freed"
                    /\ IF Head(queue).closer = NoCloser THEN UNCHANGED closer
                       ELSE /\ Head(queue).closer \in Closers /\ closer[Head(queue).closer] = "waiting"
                            /\ closer' = [closer EXCEPT ![Head(queue).closer] = "answered"]
  OBVIOUS
<1> DEFINE fs == [f \in Files |-> IF ~closed /\ f \in Registered THEN "closed" ELSE file[f]]
<1> DEFINE c == Head(queue).closer
<1>a. /\ Type /\ queue \in Seq(Blocks) /\ StateInv /\ FileInv /\ SwiftInv /\ OwnClosers(queue, closer)
      /\ file \in [Files -> FileStates] /\ handle \in [Files -> HandleStates] /\ misused \in BOOLEAN
  BY DEF Inv, Type
<1>b. /\ queue # <<>> /\ Head(queue).op = "close"
      /\ closer' = (IF c = NoCloser THEN closer ELSE [closer EXCEPT ![c] = "answered"])
      /\ Settle(Tail(queue), handle, fs)
      /\ UNCHANGED <<layer, session, client, disconnect>>
  BY DEF RunClose, RunBlock, Running
<1>c. c \in Closers \cup {NoCloser} /\ Tail(queue) \in Seq(Blocks)
  BY <1>a, <1>b, Shortened DEF Blocks
<1>d. /\ sftp' = "freed" /\ closed' = TRUE /\ currentTask' = FALSE /\ misused' = misused
      /\ fileRuntimes' \subseteq Files
  <2>1. CASE closed
    <3>1. UNCHANGED <<currentTask, sftp, closed, fileRuntimes, misused>>
      BY <2>1 DEF RunClose
    <3> QED
      BY <1>a, <2>1, <3>1 DEF StateInv, Type
  <2>2. CASE ~closed
    <3>1. closed' = TRUE /\ sftp' = "freed" /\ fileRuntimes' = {} /\ currentTask' = FALSE /\ UseSession
      BY <2>2 DEF RunClose
    <3>2. sftp = "open" /\ session = "live"
      BY <1>a, <2>2 DEF StateInv
    <3> QED
      BY <1>a, <3>1, <3>2 DEF UseSession
  <2> QED
    BY <2>1, <2>2
<1>f. /\ fs \in [Files -> FileStates]
      /\ \A f \in Files : fs[f] # "open" /\ (fs[f] = file[f] \/ fs[f] = "closed")
  <2>1. fs \in [Files -> FileStates] /\ \A f \in Files : fs[f] = IF ~closed /\ f \in Registered THEN "closed" ELSE file[f]
    BY <1>a DEF FileStates
  <2>2. \A f \in Files : file[f] = "open" => f \in Registered /\ ~closed
    BY <1>a DEF FileInv, StateInv, Registered
  <2> HIDE DEF fs
  <2> QED
    BY <2>1, <2>2
<1> HIDE DEF fs
<1>s. /\ handle' = handle /\ file' \in [Files -> FileStates]
      /\ \A f \in Files : file'[f] = fs[f] \/ (fs[f] = "open" /\ file'[f] = "orphan")
      /\ queue' = Tail(queue) \/ \E f \in Files : queue' = Append(Tail(queue), Dealloc(f))
      /\ (\A f \in Files : fs[f] = "open" /\ handle[f] = "dropped" => HasClose(Tail(queue), f))
            => queue' = Tail(queue) /\ \A f \in Files : file'[f] = fs[f]
  BY <1>b, <1>c, <1>f, Settles
<1>1. \A x \in Closers : closer'[x] = IF x = c /\ c # NoCloser THEN "answered" ELSE closer[x]
  BY <1>a, <1>b DEF Type
<1>2. OwnClosers(Tail(queue), closer') /\ (c # NoCloser => closer[c] = "waiting")
  <2>1. OwnClosers(queue, closer) /\ queue \in Seq(Blocks) /\ queue # <<>>
    BY <1>a, <1>b
  <2>2. \A x \in Closers : x # Head(queue).closer => closer'[x] = closer[x]
    BY <1>1
  <2> HIDE DEF c
  <2>3. /\ OwnClosers(Tail(queue), closer')
        /\ Head(queue).closer # NoCloser => closer[Head(queue).closer] = "waiting"
    BY <2>1, <2>2, ShortenedClosers
  <2> QED
    BY <2>3 DEF c
<1>3. queue' \in Seq(Blocks) /\ OwnClosers(queue', closer')
  BY <1>c, <1>s, <1>2, SettledQueue
<1>4. closer' \in [Closers -> {"none", "waiting", "answered"}]
  BY <1>a, <1>b DEF Type
<1> HIDE DEF c
<1>5. Type'
  <2>1. \A f \in Files : handle'[f] \in {"held", "dropped"} => file'[f] # "none"
    BY <1>a, <1>f, <1>s DEF Type
  <2>2. {session', sftp'} \subseteq {"live", "open", "freed"} /\ {currentTask', closed', misused'} \subseteq BOOLEAN
    BY <1>a, <1>b, <1>d DEF Type
  <2> QED
    BY <1>a, <1>b, <1>d, <1>s, <1>4, <2>1, <2>2 DEF Type
<1>6. StateInv' /\ TeardownInv'
  BY <1>a, <1>b, <1>d DEF StateInv, TeardownInv
<1>7. FileInv'
  BY <1>f, <1>s DEF FileInv
<1>8. SwiftInv'
  <2> SUFFICES ASSUME layer = "swift" PROVE SwiftInv'
    BY <1>b DEF SwiftInv
  <2>1. ~HasOp(Tail(queue), "fileDealloc")
    BY <1>a, <1>b, ShortenedHas DEF SwiftInv
  <2> QED
    BY <1>a, <1>d, <1>f, <1>s, <2>1 DEF SwiftInv
<1> QED
  BY <1>b, <1>c, <1>d, <1>2, <1>3, <1>5, <1>6, <1>7, <1>8 DEF Inv, c

-----------------------------------------------------------------------------
(***************************************************************************)
(* The theorems.                                                           *)
(***************************************************************************)

LEMMA InvInit == Init => OwnersInv
<1> SUFFICES ASSUME Init PROVE OwnersInv
  OBVIOUS
<1>1. queue = <<>> /\ queue \in Seq(Blocks) /\ Len(queue) = 0
  BY DEF Init
<1>2. file \in [Files -> FileStates] /\ handle \in [Files -> HandleStates]
      /\ closer \in [Closers -> {"none", "waiting", "answered"}]
      /\ \A f \in Files : file[f] = "none" /\ handle[f] = "none"
  BY DEF Init, FileStates, HandleStates
<1>3. /\ layer \in Layers /\ session = "live" /\ currentTask = TRUE /\ sftp = "open" /\ closed = FALSE
      /\ fileRuntimes = {} /\ client = "held" /\ disconnect = "none" /\ misused = FALSE
  BY DEF Init
<1>4. Type
  BY <1>2, <1>3 DEF Type
<1>5. StateInv /\ FileInv
  BY <1>2, <1>3 DEF StateInv, FileInv
<1>6. TeardownInv /\ OwnClosers(queue, closer)
  BY <1>1, <1>3 DEF TeardownInv, ClosesFirst, OwnClosers
<1>7. SwiftInv
  BY <1>1, <1>2, <1>3 DEF SwiftInv, HasOp
<1> QED
  BY <1>1, <1>4, <1>5, <1>6, <1>7, InvIs DEF Inv

LEMMA InvNext == OwnersInv /\ [Next]_vars => OwnersInv'
<1> SUFFICES ASSUME Inv, [Next]_vars PROVE Inv'
  BY InvIs, PTL
<1>1. CASE \/ CallOperation \/ DropClient \/ CallDisconnect \/ QueueTeardown
           \/ \E f \in Files : CallOpen(f) \/ CallFile(f)
           \/ \E c \in Closers : CallClose(c)
  BY <1>1, CallsSafe
<1>2. ASSUME NEW f \in Files, DropHandle(f) PROVE Inv'
  BY <1>2, DropHandleSafe
<1>3. CASE WorkerStep
  BY <1>3, RunOpenSafe, RunFileSafe, RunOtherSafe, RunCloseSafe DEF WorkerStep
<1>4. CASE UNCHANGED vars
  BY <1>4 DEF vars, objectVars, appVars, Inv, Type, StateInv, FileInv, TeardownInv, SwiftInv
<1> QED
  BY <1>1, <1>2, <1>3, <1>4 DEF Next

\* The inductive invariant: who is alive, what each block of the worker's queue keeps alive,
\* and which block comes behind which.
THEOREM OwnersInvariant == Spec => []OwnersInv
BY InvInit, InvNext, PTL DEF Spec

\* However the application drops handles and clients, closes and disconnects: the Swift layer
\* gives libssh nothing that was freed, and nothing is freed before what it owns
\* (SSHCoreLibSSHSFTPFileRuntime.m, closeSession).
THEOREM OwnersSafe == Spec => []OwnersAreSafe
<1>1. OwnersInv => OwnersAreSafe
  BY DEF OwnersInv, StateInv, FileInv, SwiftInv, OwnersAreSafe, SwiftUseIsSafe, NoUseAfterFree, FilesDieFirst
<1> QED
  BY <1>1, OwnersInvariant, PTL

Released == sftp = "freed" /\ ~currentTask /\ \A f \in Files : file[f] # "open"

\* The abstract client is released when the sftp_session is freed, and not before.
LEMMA ReleasedIs == Inv => (Released <=> sftp = "freed")
BY DEF Inv, StateInv, FileInv, Released

LEMMA RefinesNext == OwnersInv /\ OwnersInv' /\ [Next]_vars => [Closable!Next]_<<Released, closer>>
<1> SUFFICES ASSUME Inv, Inv', [Next]_vars PROVE Closable!Next \/ UNCHANGED <<Released, closer>>
  BY InvIs, PTL
<1>r. (Released <=> sftp = "freed") /\ (Released' <=> sftp' = "freed") /\ Released \in BOOLEAN /\ Released' \in BOOLEAN
  <2>1. (Released <=> sftp = "freed")'
    BY ReleasedIs, PTL
  <2> QED
    BY <2>1, ReleasedIs DEF Released
<1>1. CASE \/ CallOperation \/ DropClient \/ CallDisconnect \/ QueueTeardown \/ UNCHANGED vars
           \/ \E f \in Files : CallOpen(f) \/ CallFile(f) \/ DropHandle(f)
           \/ RunOperation \/ RunOpen \/ RunTeardown
           \/ \E f \in Files : RunFileOperation(f) \/ RunFileClose(f) \/ RunFileDealloc(f)
  <2>1. UNCHANGED <<sftp, closer>>
    BY <1>1 DEF CallOperation, DropClient, CallDisconnect, QueueTeardown, CallOpen, CallFile, DropHandle,
        RunOperation, RunOpen, OpensFile, RefusesFile, RunTeardown, RunFileOperation, RunFileClose,
        RunFileDealloc, vars, objectVars, appVars
  <2> QED
    BY <1>r, <2>1
<1>2. ASSUME NEW c \in Closers, CallClose(c) PROVE Closable!Next
  <2>1. closer[c] = "none" /\ closer' = [closer EXCEPT ![c] = "waiting"] /\ UNCHANGED sftp
    BY <1>2 DEF CallClose, objectVars
  <2>2. Closable!Call(c)
    BY <1>r, <2>1 DEF Closable!Call, Released
  <2> QED
    BY <2>2 DEF Closable!Next
<1>3. CASE RunClose
  <2>1. /\ sftp' = "freed"
        /\ IF Head(queue).closer = NoCloser THEN UNCHANGED closer
           ELSE /\ Head(queue).closer \in Closers /\ closer[Head(queue).closer] = "waiting"
                /\ closer' = [closer EXCEPT ![Head(queue).closer] = "answered"]
    BY <1>3, RunCloseSafe
  <2>2. Released' = TRUE
    BY <1>r, <2>1
  <2>3. CASE Head(queue).closer = NoCloser
    <3>1. Closable!Release
      BY <2>1, <2>2, <2>3 DEF Closable!Release, Released
    <3> QED
      BY <3>1 DEF Closable!Next
  <2>4. CASE Head(queue).closer # NoCloser
    <3>1. PICK c \in Closers : closer[c] = "waiting" /\ closer' = [closer EXCEPT ![c] = "answered"]
      BY <2>1, <2>4
    <3>2. Closable!Answer(c)
      BY <2>2, <3>1 DEF Closable!Answer, Released
    <3> QED
      BY <3>2 DEF Closable!Next
  <2> QED
    BY <2>3, <2>4
<1> QED
  BY <1>1, <1>2, <1>3 DEF Next, WorkerStep

\* Closing an SFTP client implements what every runtime promises of closeWithCompletion:.
THEOREM KeepsPromise == Spec => ImplementsClosable
<1>1. Init => Closable!Init
  BY DEF Init, Closable!Init
<1>2. OwnersInv /\ OwnersInv' /\ [Next]_vars => [Closable!Next]_<<Released, closer>>
  BY RefinesNext
<1> QED
  BY <1>1, <1>2, OwnersInvariant, PTL DEF Spec, ImplementsClosable, Closable!Spec, Released

-----------------------------------------------------------------------------
(***************************************************************************)
(* SFTPQueue: the requests on the session, for any jobs, paths, names of a *)
(* directory and calls whose time is up between two packets.               *)
(*                                                                         *)
(* What is in the three queues that a response passes, as sets.            *)
(***************************************************************************)

HandleCalls == {"READ", "READDIR", "CLOSE"}
Calls == {"OPEN", "OPENDIR", "MKDIR", "STAT", "LSTAT", "INIT", "LIMITS"} \cup HandleCalls \cup Changes \cup Questions
Subjects == [handle : Nat, path : Paths \cup {"none"}]
AllRequests == [op : Calls, id : Nat, about : Subjects, handle : Nat]
Types == {"none", "STATUS", "HANDLE", "NAME", "DATA", "ATTRS", "REPLY", "VERSION", "odd"}
Statuses == {"OK", "EOF", "FAILURE"}
Payloads == Subjects \cup Nat \cup Statuses \cup {"none", "limits", "plain"}
Messages == {m \in [type : Types, id : Nat, payload : Payloads] : m.type = "STATUS" => m.payload \in Statuses}
Pieces == [part : {"size", "type", "body"}, m : Messages]

Sent == Range(toServer)
Coming == {p.m : p \in Range(stream)}
Kept == Range(responses)

-----------------------------------------------------------------------------
(***************************************************************************)
(* The inductive invariant.                                                *)
(***************************************************************************)

\* Which calls a job may be at.
Place ==
    \/ job = Idle
    \/ job.kind = "init" /\ job.at \in {"INIT", "LIMITS", "limits", "end"}
    \/ job.kind = "list" /\ job.at \in {"OPENDIR", "READDIR", "CLOSE", "end"}
    \/ job.kind = "read" /\ job.at \in {"OPEN", "READ", "CLOSE", "end"}
    \/ job.kind = "append" /\ job.at \in {"OPEN", "STAT", "CLOSE", "end"}
    \/ job.kind = "mkdir" /\ job.at \in {"MKDIR", "LSTAT", "end"}
    \/ job.kind = "stat" /\ job.at \in {"STAT", "end"}
    \/ job.kind = "change" /\ job.at \in Changes \cup {"end"}
    \/ job.kind = "ask" /\ job.at \in Questions \cup {"end"}

JobRecords ==
    [kind : Jobs \cup {"none", "init"}, path : Paths \cup {"none"}, handle : Nat,
     at : Calls \cup {"idle", "limits", "end"}, call : {"none", "waits", "failed"}, failed : BOOLEAN]
Typed ==
    /\ job \in JobRecords
    /\ jobs \in 0..MaxJobs /\ timeouts \in 0..MaxTimeouts /\ id \in Nat
    /\ expect \in {"size", "type", "body"} /\ current \in Messages
    /\ dir \in [count : 0..Entries, eof : BOOLEAN] /\ listed \in 0..Entries
    /\ limits \in {"none", "default", "server"}
    /\ errnum \in Statuses \cup {"BAD_MESSAGE", "FILE_ALREADY_EXISTS"}
    /\ toServer \in Seq(AllRequests) /\ stream \in Seq(Pieces) /\ responses \in Seq(Messages)
    /\ handles \in Seq([read : Nat, open : BOOLEAN])

\* What a job is at says what it holds.
JobInv ==
    /\ Place
    /\ job.call # "none" => job.at \in Calls
    /\ job.handle <= Len(handles)
    /\ job.handle # 0 <=> job.at \in HandleCalls \/ (job.kind = "append" /\ job.at = "STAT")
    /\ job.failed => job.at \in {"CLOSE", "LSTAT", "end"}
    /\ job.kind \notin {"none", "init"} => limits # "none"

\* A packet is read to its end before the next one begins.
AlignInv ==
    /\ stream # <<>> => stream[1].part = expect
    /\ expect # "size" => stream # <<>>
    /\ expect = "body" => current = stream[1].m
    /\ \A i \in 1..Len(stream) :
        /\ stream[i].part = "size" => i < Len(stream) /\ stream[i + 1] = [part |-> "type", m |-> stream[i].m]
        /\ stream[i].part = "type" => i < Len(stream) /\ stream[i + 1] = [part |-> "body", m |-> stream[i].m]
        /\ stream[i].part = "body" /\ i < Len(stream) => stream[i + 1].part = "size"

\* What is under way, in pieces of a packet: each call whose time was up has left one packet at most.
Passed == IF expect = "size" THEN 0 ELSE IF expect = "type" THEN 1 ELSE 2
WeightInv ==
    3 * Len(toServer) + Len(stream) + Passed + 3 * Len(responses) <= 3 * timeouts + (IF Waiting THEN 3 ELSE 0)

\* Requests are answered in the order of their ids.
OrderInv ==
    /\ \A i, j \in 1..Len(toServer) : i < j => toServer[i].id < toServer[j].id
    /\ \A r \in Sent :
        /\ r.id <= id /\ r.handle <= Len(handles) /\ (r.op \in HandleCalls => r.handle # 0)
        /\ \A m \in Coming \cup Kept : m.id < r.id
    /\ \A m \in Coming \cup Kept : m.id <= id
    /\ \A m \in Kept : m.id # 0

\* What may answer the call that waits.
Fits(m) ==
    \/ m.type = "odd"
    \/ m.type = "STATUS" /\ (job.at = "READDIR" /\ m.payload = "EOF" =>
                                listed = Entries /\ handles[job.handle].read = Entries)
    \/ /\ m.type = "HANDLE" /\ job.at \in {"OPEN", "OPENDIR"}
       /\ m.payload \in 1..Len(handles) /\ handles[m.payload].read = 0
       /\ \A r \in Sent : r.handle # m.payload
    \/ m.type = "NAME" /\ job.at = "READDIR"
       /\ m.payload \in Nat /\ listed + m.payload = handles[job.handle].read
    \/ m.type = "NAME" /\ job.at \in {"READLINK", "REALPATH"} /\ m.payload = Subject(job.at)
    \/ m.type = "DATA" /\ job.at = "READ" /\ m.payload = Subject(job.at)
    \/ m.type = "ATTRS" /\ job.at \in {"STAT", "LSTAT"} /\ m.payload = Subject(job.at)
    \/ m.type = "REPLY" /\ job.at \in {"STATVFS", "LIMITS"} /\ m.payload = Subject(job.at)
    \/ m.type = "VERSION" /\ job.at = "INIT"

Asked == [op |-> job.at, id |-> id, about |-> IF job.at = "INIT" THEN Nothing ELSE Subject(job.at),
          handle |-> job.handle]
OwnInv ==
    Waiting =>
        /\ \A r \in Sent : r.id = id => r = Asked
        /\ \A m \in Coming \cup Kept : m.id = id => Fits(m)
        /\ \E x \in Sent \cup Coming \cup Kept : x.id = id
        /\ \A i, j \in 1..Len(responses) : responses[i].id = id /\ responses[j].id = id => i = j

\* The first request has the id 0, and its answer is the next packet.
NoSession == job.kind = "none" /\ limits = "none" /\ done.kind = "none"
InitInv ==
    /\ job.at = "INIT" => limits = "none"
    /\ NoSession \/ job.at = "INIT" => id = 0 /\ responses = <<>>
    /\ NoSession \/ (job.at = "INIT" /\ job.call = "none") =>
        toServer = <<>> /\ stream = <<>>
    /\ NoSession \/ (job.at = "INIT" /\ job.call # "failed") =>
        timeouts = 0 /\ handles = <<>>
    /\ job.at \in {"LIMITS", "limits"} \/ limits # "none" => \A x \in Sent \cup Coming : x.id # 0

\* The names that a list has, and those that the server has given.
ListInv ==
    /\ job.kind = "list" /\ job.at = "OPENDIR" => listed = 0
    /\ job.kind = "list" /\ job.at = "READDIR" /\ job.call # "failed" =>
        /\ handles[job.handle].read <= Entries
        /\ job.call = "none" => listed + dir.count = handles[job.handle].read
        /\ Waiting => dir.count = 0 /\ (\A r \in Sent : r.id = id => listed = handles[job.handle].read)
        /\ \A r \in Sent : r.handle = job.handle => Waiting /\ r.id = id
    /\ job.kind = "list" /\ ~job.failed /\ job.at \in {"CLOSE", "end"} => listed = Entries

\* Who knows an open handle of the server.
Held(h) == job.handle = h /\ (job.at = "CLOSE" => job.call = "none")
KnownInv ==
    \A h \in 1..Len(handles) : handles[h].open =>
        \/ Held(h)
        \/ \E r \in Sent : r.op = "CLOSE" /\ r.handle = h
        \/ \E m \in Coming \cup Kept : m.type = "HANDLE" /\ m.payload = h

QueueInv ==
    /\ Typed /\ JobInv /\ AlignInv /\ WeightInv /\ OrderInv /\ OwnInv /\ InitInv /\ ListInv /\ KnownInv
    /\ OwnAnswers /\ ListIsComplete /\ InitLeavesNoError

-----------------------------------------------------------------------------
(***************************************************************************)
(* What is in a queue.                                                     *)
(***************************************************************************)

LEMMA InRange ==
    ASSUME NEW T, NEW q \in Seq(T)
    PROVE  Range(q) = {q[i] : i \in 1..Len(q)} /\ Range(q) \subseteq T
  BY LenProperties DEF Range

LEMMA RangeAppend ==
    ASSUME NEW T, NEW q \in Seq(T), NEW e \in T
    PROVE  Range(Append(q, e)) = Range(q) \cup {e}
  <1>1. Append(q, e) \in Seq(T) /\ Len(q) \in Nat /\ Len(Append(q, e)) = Len(q) + 1
        /\ (\A i \in 1..Len(q) : Append(q, e)[i] = q[i]) /\ Append(q, e)[Len(q) + 1] = e
    BY AppendProperties, LenProperties
  <1>2. Range(q) = {q[i] : i \in 1..Len(q)}  BY InRange
  <1>3. Range(Append(q, e)) = {Append(q, e)[i] : i \in 1..(Len(q) + 1)}  BY <1>1, InRange
  <1>. QED  BY <1>1, <1>2, <1>3

LEMMA RangeTail ==
    ASSUME NEW T, NEW q \in Seq(T), q # <<>>
    PROVE  Range(q) = Range(Tail(q)) \cup {Head(q)} /\ Head(q) = q[1] /\ Tail(q) \in Seq(T) /\ Head(q) \in T
           /\ Len(Tail(q)) = Len(q) - 1 /\ Len(q) \in Nat \ {0}
           /\ \A i \in 1..(Len(q) - 1) : Tail(q)[i] = q[i + 1]
  <1>1. Head(q) \in T /\ Tail(q) \in Seq(T) /\ Len(Tail(q)) = Len(q) - 1 /\ Len(q) \in Nat \ {0}
        /\ (\A i \in 1..(Len(q) - 1) : Tail(q)[i] = q[i + 1]) /\ Head(q) = q[1]
    BY HeadTailProperties, EmptySeq
  <1>2. Range(q) = {q[i] : i \in 1..Len(q)}  BY InRange
  <1>3. Range(Tail(q)) = {Tail(q)[i] : i \in 1..(Len(q) - 1)}  BY <1>1, InRange
  <1>4. ASSUME NEW i \in 1..Len(q) PROVE q[i] \in Range(Tail(q)) \cup {Head(q)}
    <2>1. CASE i = 1  BY <1>1, <2>1
    <2>2. CASE i # 1
      <3>1. i - 1 \in 1..(Len(q) - 1) /\ (i - 1) + 1 = i  BY <1>1, <2>2
      <3>2. Tail(q)[i - 1] = q[i]  BY <1>1, <3>1
      <3>. QED  BY <1>3, <3>1, <3>2
    <2>. QED  BY <2>1, <2>2
  <1>5. ASSUME NEW i \in 1..(Len(q) - 1) PROVE Tail(q)[i] \in Range(q)
    <2>1. i + 1 \in 1..Len(q)  BY <1>1
    <2>. QED  BY <1>1, <1>2, <2>1
  <1>6. Head(q) \in Range(q)
    <2>1. 1 \in 1..Len(q)  BY <1>1
    <2>. QED  BY <1>1, <1>2, <2>1
  <1>7. Range(q) \subseteq Range(Tail(q)) \cup {Head(q)}  BY <1>2, <1>4
  <1>8. Range(Tail(q)) \subseteq Range(q)  BY <1>3, <1>5
  <1>. QED  BY <1>1, <1>6, <1>7, <1>8

LEMMA RangeEmpty == Range(<<>>) = {}
  BY DEF Range

\* The queues hold what their types say.
LEMMA QueuesHold ==
    ASSUME Typed
    PROVE  Sent \subseteq AllRequests /\ Coming \subseteq Messages /\ Kept \subseteq Messages
  <1>1. Sent \subseteq AllRequests /\ Range(stream) \subseteq Pieces /\ Kept \subseteq Messages
    BY InRange DEF Typed, Sent, Kept
  <1>2. \A p \in Pieces : p.m \in Messages  BY DEF Pieces
  <1>. QED  BY <1>1, <1>2 DEF Coming

LEMMA QueuesStay ==
    ASSUME UNCHANGED <<toServer, stream, responses>>
    PROVE  Sent' = Sent /\ Coming' = Coming /\ Kept' = Kept
  BY DEF Sent, Coming, Kept

-----------------------------------------------------------------------------
(***************************************************************************)
(* A call.                                                                 *)
(***************************************************************************)

LEMMA CallIsMade ==
    ASSUME QueueInv, NEW op \in Calls \ {"INIT"}, Call(op), op = "READDIR" => dir.count = 0
    PROVE  QueueInv'
  <1>. DEFINE r == [op |-> op, id |-> id + 1, about |-> Subject(op), handle |-> job.handle]
  <1>1. job.at = op /\ job.call = "none" /\ id' = id + 1 /\ toServer' = Append(toServer, r)
        /\ job' = [job EXCEPT !.call = "waits"] /\ UNCHANGED <<stream, responses, handles>>
        /\ UNCHANGED <<jobs, timeouts, expect, current, dir, listed, errnum, limits, answer, done>>
    BY DEF Call, Request
  <1>2. r \in AllRequests
    <2>1. job.handle \in Nat /\ job.path \in Paths \cup {"none"} /\ id \in Nat
      BY DEF QueueInv, Typed, JobRecords
    <2>2. Subject(op) \in Subjects  BY <2>1 DEF Subject, Subjects, NoHandle
    <2>. QED  BY <2>1, <2>2 DEF AllRequests
  <1>. HIDE DEF r
  <1>3. Sent' = Sent \cup {r} /\ Coming' = Coming /\ Kept' = Kept
    BY <1>1, <1>2, RangeAppend DEF QueueInv, Typed, Sent, Coming, Kept
  <1>4. toServer' \in Seq(AllRequests) /\ Len(toServer') = Len(toServer) + 1 /\ Len(toServer) \in Nat
        /\ (\A i \in 1..Len(toServer) : toServer'[i] = toServer[i]) /\ toServer'[Len(toServer) + 1] = r
    BY <1>1, <1>2, AppendProperties, LenProperties DEF QueueInv, Typed
  <1>5. Typed'
    <2>1. job' \in JobRecords  BY <1>1 DEF QueueInv, Typed, JobRecords
    <2>. QED  BY <1>1, <1>4, <2>1 DEF QueueInv, Typed
  <1>6. /\ job'.kind = job.kind /\ job'.path = job.path /\ job'.handle = job.handle /\ job'.at = op
        /\ job'.call = "waits" /\ job'.failed = job.failed /\ Waiting' /\ ~Waiting /\ Subject(op)' = Subject(op)
        /\ job.kind # "none"
    BY <1>1 DEF QueueInv, Typed, JobRecords, Waiting, Subject, JobInv, Place, Idle, Calls, HandleCalls, Changes,
                Questions
  <1>7. JobInv'  BY <1>1, <1>6 DEF QueueInv, JobInv, Place, Idle, Typed
  <1>8. AlignInv'  BY <1>1 DEF QueueInv, AlignInv
  <1>9. WeightInv'  BY <1>1, <1>4, <1>6, LenProperties DEF QueueInv, WeightInv, Typed, Passed
  <1>10. r.id = id + 1 /\ r.handle = job.handle /\ r.op = op /\ r.about = Subject(op)  BY DEF r
  <1>11. OrderInv'
    <2>1. \A i \in 1..Len(toServer) : toServer[i] \in Sent /\ toServer[i].id \in Nat
      BY InRange, QueuesHold DEF QueueInv, Typed, Sent, AllRequests
    <2>2. \A x \in Sent : x.id \in Nat  BY QueuesHold DEF QueueInv, AllRequests
    <2>3. \A m \in Coming \cup Kept : m.id \in Nat  BY QueuesHold DEF QueueInv, Messages
    <2>4. ASSUME NEW i \in 1..Len(toServer'), NEW j \in 1..Len(toServer'), i < j
          PROVE  toServer'[i].id < toServer'[j].id
      <3>1. i \in 1..Len(toServer) /\ toServer'[i] = toServer[i]  BY <1>4, <2>4
      <3>2. toServer[i].id <= id /\ toServer[i].id \in Nat  BY <2>1, <3>1 DEF QueueInv, OrderInv
      <3>3. CASE j \in 1..Len(toServer)  BY <1>4, <2>4, <3>1, <3>3 DEF QueueInv, OrderInv
      <3>4. CASE j = Len(toServer) + 1  BY <1>4, <1>10, <3>1, <3>2, <3>4 DEF QueueInv, Typed
      <3>. QED  BY <1>4, <3>3, <3>4
    <2>5. ASSUME NEW x \in Sent'
          PROVE  /\ x.id <= id' /\ x.handle <= Len(handles)' /\ (x.op \in HandleCalls => x.handle # 0)
                 /\ \A m \in Coming \cup Kept : m.id < x.id
      <3>1. id \in Nat /\ id' = id + 1  BY <1>1 DEF QueueInv, Typed
      <3>2. CASE x \in Sent  BY <1>1, <2>2, <3>1, <3>2 DEF QueueInv, OrderInv
      <3>3. CASE x = r  BY <1>1, <1>10, <2>3, <3>1, <3>3 DEF QueueInv, OrderInv, JobInv, HandleCalls
      <3>. QED  BY <1>3, <3>2, <3>3
    <2>6. (\A m \in Coming \cup Kept : m.id <= id') /\ \A m \in Kept : m.id # 0
      BY <1>1, <2>3 DEF QueueInv, OrderInv, Typed
    <2>. QED  BY <1>3, <2>4, <2>5, <2>6 DEF OrderInv
  <1>12. OwnInv'
    <2>1. \A x \in Sent \cup Coming \cup Kept : x.id # id + 1
      BY QueuesHold DEF QueueInv, OrderInv, Typed, AllRequests, Messages
    <2>2. \A i \in 1..Len(responses) : responses[i] \in Kept  BY InRange DEF QueueInv, Typed, Kept
    <2>3. r = Asked'  BY <1>1, <1>6 DEF r, Asked
    <2>. QED  BY <1>1, <1>3, <1>10, <2>1, <2>2, <2>3 DEF OwnInv
  <1>13. InitInv'
    BY <1>1, <1>3, <1>6, <1>10 DEF QueueInv, InitInv, NoSession, Typed
  <1>14. ListInv'
    <2>1. \A x \in Sent : x.id # id + 1
      BY QueuesHold DEF QueueInv, OrderInv, Typed, AllRequests
    <2>2. ListInv  BY DEF QueueInv
    <2>3. CASE job.kind = "list" /\ job.at = "READDIR"
      <3>1. dir.count = 0 /\ listed \in Nat  BY <1>1, <2>3 DEF QueueInv, Typed
      <3>2. /\ handles[job.handle].read <= Entries /\ listed = handles[job.handle].read
            /\ \A x \in Sent : x.handle # job.handle
        BY <1>1, <1>6, <2>2, <2>3, <3>1 DEF ListInv
      <3>3. \A x \in Sent' : x.handle = job.handle => x.id = id'  BY <1>1, <1>3, <1>10, <3>2
      <3>4. /\ job'.handle = job.handle /\ handles' = handles /\ dir' = dir /\ listed' = listed
            /\ job'.kind = "list" /\ job'.at = "READDIR" /\ job'.call = "waits" /\ Waiting'
        BY <1>1, <1>6, <2>3
      <3>. QED  BY <3>1, <3>2, <3>3, <3>4 DEF ListInv
    <2>4. CASE ~(job.kind = "list" /\ job.at = "READDIR")  BY <1>1, <1>6, <2>2, <2>4 DEF ListInv
    <2>. QED  BY <2>3, <2>4
  <1>15. KnownInv'
    BY <1>1, <1>3, <1>6, <1>10 DEF QueueInv, KnownInv, Held
  <1>16. (OwnAnswers /\ ListIsComplete /\ InitLeavesNoError)'
    BY <1>1, <1>6 DEF QueueInv, OwnAnswers, ListIsComplete, InitLeavesNoError, Calls, HandleCalls, Changes, Questions
  <1>. QED
    BY <1>5, <1>7, <1>8, <1>9, <1>11, <1>12, <1>13, <1>14, <1>15, <1>16 DEF QueueInv

LEMMA InitIsSent ==
    ASSUME QueueInv, sftp_init
    PROVE  QueueInv'
  <1>. DEFINE r == [op |-> "INIT", id |-> 0, about |-> Nothing, handle |-> NoHandle]
  <1>1. job.at = "INIT" /\ job.call = "none" /\ toServer' = Append(toServer, r)
        /\ job' = [job EXCEPT !.call = "waits"] /\ UNCHANGED <<stream, responses, handles, id>>
        /\ UNCHANGED <<jobs, timeouts, expect, current, dir, listed, errnum, limits, answer, done>>
    BY DEF sftp_init
  <1>2. r \in AllRequests /\ r.id = 0 /\ r.handle = 0 /\ r.op = "INIT" /\ r.about = Nothing
    BY DEF AllRequests, Subjects, Calls, Nothing, NoHandle
  <1>3. toServer = <<>> /\ stream = <<>> /\ responses = <<>> /\ handles = <<>> /\ id = 0 /\ timeouts = 0
    BY <1>1 DEF QueueInv, InitInv
  <1>4. toServer' = <<r>> /\ Len(toServer) = 0 /\ Len(toServer') = 1 /\ toServer' \in Seq(AllRequests)
        /\ Len(responses) = 0 /\ Len(stream) = 0 /\ Len(handles) = 0
    BY <1>1, <1>2, <1>3, Zenon, SMT DEF QueueInv, Typed
  <1>5. Sent = {} /\ Coming = {} /\ Kept = {} /\ Sent' = {r} /\ Coming' = {} /\ Kept' = {}
    <2>1. Sent' = Range(toServer) \cup {r}  BY <1>1, <1>2, RangeAppend DEF QueueInv, Typed, Sent
    <2>. QED  BY <1>1, <1>3, <2>1, RangeEmpty DEF Sent, Coming, Kept
  <1>6. job.kind = "init" /\ job.handle = 0 /\ job.failed = FALSE
    BY <1>1 DEF QueueInv, Typed, JobRecords, JobInv, Place, Idle, Changes, Questions, HandleCalls
  <1>7. /\ job'.kind = "init" /\ job'.path = job.path /\ job'.handle = 0 /\ job'.at = "INIT"
        /\ job'.call = "waits" /\ job'.failed = FALSE /\ Waiting' /\ ~Waiting /\ job' \in JobRecords
    BY <1>1, <1>6 DEF QueueInv, Typed, JobRecords, Waiting
  <1>8. r = Asked'  BY <1>1, <1>3, <1>7 DEF Asked, NoHandle
  <1>. HIDE DEF r
  <1>9. Typed'  BY <1>1, <1>4, <1>7 DEF QueueInv, Typed
  <1>10. JobInv'
    BY <1>1, <1>4, <1>7 DEF JobInv, Place, Calls, HandleCalls
  <1>11. AlignInv' /\ WeightInv'
    BY <1>1, <1>3, <1>4, <1>7 DEF QueueInv, AlignInv, WeightInv, Passed
  <1>12. OrderInv'
    BY <1>1, <1>2, <1>3, <1>4, <1>5 DEF OrderInv, HandleCalls
  <1>13. OwnInv'
    BY <1>1, <1>2, <1>3, <1>4, <1>5, <1>7, <1>8 DEF OwnInv
  <1>14. InitInv' /\ ListInv' /\ KnownInv'
    BY <1>1, <1>3, <1>4, <1>5, <1>7 DEF QueueInv, JobInv, InitInv, ListInv, KnownInv, NoSession
  <1>15. (OwnAnswers /\ ListIsComplete /\ InitLeavesNoError)'
    BY <1>1, <1>7 DEF QueueInv, OwnAnswers, ListIsComplete, InitLeavesNoError
  <1>. QED
    BY <1>9, <1>10, <1>11, <1>12, <1>13, <1>14, <1>15 DEF QueueInv

-----------------------------------------------------------------------------
(***************************************************************************)
(* The steps of a job that leave the queues alone.                         *)
(***************************************************************************)

\* What is under way stays, and nobody waits for it.
LEMMA NothingMoves ==
    ASSUME QueueInv, UNCHANGED <<toServer, stream, responses, handles, expect, current, id, timeouts>>,
           ~Waiting, ~Waiting'
    PROVE  AlignInv' /\ WeightInv' /\ OrderInv' /\ OwnInv' /\ Sent' = Sent /\ Coming' = Coming /\ Kept' = Kept
  <1>1. Sent' = Sent /\ Coming' = Coming /\ Kept' = Kept  BY QueuesStay
  <1>2. AlignInv'  BY DEF QueueInv, AlignInv
  <1>3. WeightInv'  BY DEF QueueInv, WeightInv, Passed
  <1>4. OrderInv'  BY <1>1 DEF QueueInv, OrderInv
  <1>. QED  BY <1>1, <1>2, <1>3, <1>4 DEF OwnInv

LEMMA NameIsHandedOut ==
    ASSUME QueueAssumption, QueueInv, sftp_readdir, dir.count # 0
    PROVE  QueueInv'
  <1>. /\ job.at = "READDIR" /\ job.call = "none" /\ dir.count > 0
       /\ listed' = listed + 1 /\ dir' = [dir EXCEPT !.count = @ - 1]
       /\ UNCHANGED <<job, jobs, timeouts, id, expect, current, responses, errnum, limits, answer, done,
                      toServer, stream, handles>>
    BY DEF sftp_readdir
  <1>1. ~Waiting /\ ~Waiting'  BY DEF Waiting
  <1>2. AlignInv' /\ WeightInv' /\ OrderInv' /\ OwnInv' /\ Sent' = Sent /\ Coming' = Coming /\ Kept' = Kept
    BY <1>1, NothingMoves
  <1>3. job.kind = "list"
    BY DEF QueueInv, JobInv, Place, Idle, Changes, Questions
  <1>4. handles[job.handle].read <= Entries /\ listed + dir.count = handles[job.handle].read
    BY <1>3 DEF QueueInv, ListInv
  <1>5. dir.count \in Nat /\ listed \in Nat /\ dir'.count = dir.count - 1
        /\ dir' = [count |-> dir.count - 1, eof |-> dir.eof] /\ dir.eof \in BOOLEAN
    BY DEF QueueInv, Typed
  <1>6. handles[job.handle].read \in Nat /\ Entries \in Nat
    <2>1. job.handle \in Nat /\ job.handle # 0 /\ job.handle <= Len(handles)
      BY DEF QueueInv, Typed, JobRecords, JobInv, HandleCalls
    <2>2. Len(handles) \in Nat  BY LenProperties DEF QueueInv, Typed
    <2>3. job.handle \in 1..Len(handles)  BY ONLY <2>1, <2>2
    <2>4. handles[job.handle] \in [read : Nat, open : BOOLEAN]
      BY <2>3, ElementOfSeq DEF QueueInv, Typed
    <2>. QED  BY <2>4 DEF QueueAssumption
  <1>7. dir' \in [count : 0..Entries, eof : BOOLEAN] /\ listed' \in 0..Entries
    <2>1. dir.count - 1 \in 0..Entries /\ listed + 1 \in 0..Entries  BY <1>4, <1>5, <1>6
    <2>. QED  BY <1>5, <2>1
  <1>8. Typed'
    <2>1. UNCHANGED <<job, jobs, timeouts, id, expect, current, responses, errnum, limits, toServer, stream, handles>>
      OBVIOUS
    <2>2. Typed  BY DEF QueueInv
    <2>. QED  BY ONLY <1>7, <2>1, <2>2 DEF Typed
  <1>9. JobInv'  BY DEF QueueInv, JobInv, Place
  <1>10. InitInv' /\ KnownInv'
    BY <1>2 DEF QueueInv, InitInv, NoSession, KnownInv, Held
  <1>11. ListInv'
    BY <1>1, <1>2, <1>4, <1>5 DEF QueueInv, ListInv
  <1>12. (OwnAnswers /\ ListIsComplete /\ InitLeavesNoError)'
    BY DEF QueueInv, OwnAnswers, ListIsComplete, InitLeavesNoError
  <1>. QED
    BY <1>2, <1>8, <1>9, <1>10, <1>11, <1>12 DEF QueueInv

\* A session, a job and its end begin with a new record of the job.
LEMMA SessionStarts ==
    ASSUME QueueInv, StartsSession
    PROVE  QueueInv'
  <1>1. /\ job.at = "idle" /\ limits = "none" /\ done.kind = "none"
        /\ job' = [Idle EXCEPT !.kind = "init", !.at = "INIT"]
        /\ UNCHANGED <<jobs, timeouts, id, expect, current, responses, dir, listed, errnum, limits, answer, done,
                       toServer, stream, handles>>
    BY DEF StartsSession
  <1>2. job = Idle
    BY <1>1 DEF QueueInv, JobInv, Place, Changes, Questions
  <1>3. /\ job'.kind = "init" /\ job'.path = "none" /\ job'.handle = 0 /\ job'.at = "INIT"
        /\ job'.call = "none" /\ job'.failed = FALSE /\ job' \in JobRecords
    BY <1>1 DEF Idle, JobRecords, NoHandle, Calls
  <1>4. ~Waiting /\ ~Waiting' /\ NoSession  BY <1>1, <1>2, <1>3 DEF Waiting, Idle, NoSession
  <1>5. AlignInv' /\ WeightInv' /\ OrderInv' /\ OwnInv' /\ Sent' = Sent /\ Coming' = Coming /\ Kept' = Kept
    BY <1>1, <1>4, NothingMoves
  <1>6. Typed'  BY <1>1, <1>3 DEF QueueInv, Typed
  <1>7. JobInv'
    BY <1>1, <1>3, LenProperties DEF QueueInv, JobInv, Place, HandleCalls, Typed
  <1>8. InitInv' /\ ListInv'
    BY <1>1, <1>3, <1>4, <1>5 DEF QueueInv, InitInv, ListInv, NoSession
  <1>9. KnownInv'
    BY <1>1, <1>2, <1>3, <1>5 DEF QueueInv, KnownInv, Held, Idle, NoHandle
  <1>10. (OwnAnswers /\ ListIsComplete /\ InitLeavesNoError)'
    BY <1>1, <1>3 DEF QueueInv, OwnAnswers, ListIsComplete, InitLeavesNoError
  <1>. QED
    BY <1>5, <1>6, <1>7, <1>8, <1>9, <1>10 DEF QueueInv

LEMMA JobStarts ==
    ASSUME QueueAssumption, QueueInv, Start
    PROVE  QueueInv'
  <1>1. PICK kind \in Jobs, path \in Paths : \E op \in First(kind) :
            job' = [Idle EXCEPT !.kind = kind, !.path = path, !.at = op]
    BY DEF Start
  <1>2. PICK op \in First(kind) : job' = [Idle EXCEPT !.kind = kind, !.path = path, !.at = op]
    BY <1>1
  <1>3. /\ job.at = "idle" /\ limits # "none" /\ jobs < MaxJobs /\ jobs' = jobs + 1 /\ listed' = 0
        /\ UNCHANGED <<timeouts, id, expect, current, responses, dir, errnum, limits, answer, done,
                       toServer, stream, handles>>
    BY DEF Start
  <1>4. job = Idle
    BY <1>3 DEF QueueInv, JobInv, Place, Changes, Questions
  <1>5. /\ kind \in {"list", "read", "append", "mkdir", "stat", "change", "ask"}
        /\ kind = "list" => op = "OPENDIR"
        /\ kind \in {"read", "append"} => op = "OPEN"
        /\ kind = "mkdir" => op = "MKDIR"
        /\ kind = "stat" => op = "STAT"
        /\ kind = "change" => op \in Changes
        /\ kind = "ask" => op \in Questions
    <2>1. kind \in {"list", "read", "append", "mkdir", "stat", "change", "ask"}  BY DEF QueueAssumption
    <2>. QED  BY <2>1 DEF First
  <1>6. /\ job'.kind = kind /\ job'.path = path /\ job'.handle = 0 /\ job'.at = op
        /\ job'.call = "none" /\ job'.failed = FALSE
    BY <1>2 DEF Idle, NoHandle
  <1>7. op \in Calls \ ({"INIT", "LIMITS"} \cup HandleCalls) /\ job' \in JobRecords
    <2>1. op \in Calls \ ({"INIT", "LIMITS"} \cup HandleCalls)
      BY <1>5 DEF Calls, HandleCalls, Changes, Questions
    <2>. QED  BY <1>2, <2>1 DEF JobRecords, Idle, NoHandle
  <1>8. ~Waiting /\ ~Waiting'  BY <1>4, <1>6 DEF Waiting, Idle
  <1>9. AlignInv' /\ WeightInv' /\ OrderInv' /\ OwnInv' /\ Sent' = Sent /\ Coming' = Coming /\ Kept' = Kept
    BY <1>3, <1>8, NothingMoves
  <1>10. Typed'
    BY <1>3, <1>7 DEF QueueInv, Typed, QueueAssumption
  <1>11. JobInv'
    <2>1. Len(handles) \in Nat  BY LenProperties DEF QueueInv, Typed
    <2>2. Place'  BY <1>5, <1>6 DEF Place
    <2>3. ~(kind = "append" /\ op = "STAT")  BY <1>5
    <2>. QED  BY <1>3, <1>6, <1>7, <2>1, <2>2, <2>3 DEF JobInv
  <1>12. InitInv' /\ ListInv'
    BY <1>3, <1>5, <1>6, <1>7, <1>9 DEF QueueInv, InitInv, ListInv, NoSession, HandleCalls, Changes, Questions
  <1>13. KnownInv'
    BY <1>3, <1>4, <1>6, <1>9 DEF QueueInv, KnownInv, Held, Idle, NoHandle
  <1>14. (OwnAnswers /\ ListIsComplete /\ InitLeavesNoError)'
    BY <1>3, <1>5, <1>6 DEF QueueInv, OwnAnswers, ListIsComplete, InitLeavesNoError
  <1>. QED
    BY <1>9, <1>10, <1>11, <1>12, <1>13, <1>14 DEF QueueInv

LEMMA JobEnds ==
    ASSUME QueueInv, End
    PROVE  QueueInv'
  <1>1. /\ job.at = "end" /\ job' = Idle
        /\ done' = [kind |-> job.kind, ok |-> ~job.failed /\ (job.kind = "list" => dir.eof), listed |-> listed]
        /\ UNCHANGED <<jobs, timeouts, id, expect, current, responses, dir, listed, errnum, limits, answer,
                       toServer, stream, handles>>
    BY DEF End
  <1>2. /\ job'.kind = "none" /\ job'.handle = 0 /\ job'.at = "idle" /\ job'.call = "none" /\ job'.failed = FALSE
        /\ job' \in JobRecords /\ ~Waiting'
    BY <1>1 DEF Idle, JobRecords, NoHandle, Waiting
  <1>3. job.call = "none" /\ job.handle = 0 /\ job.kind # "none"
    BY <1>1 DEF QueueInv, Typed, JobRecords, JobInv, Place, Idle, Calls, HandleCalls, Changes, Questions
  <1>4. done'.kind = job.kind /\ (done'.ok => ~job.failed) /\ done'.listed = listed  BY <1>1
  <1>5. AlignInv' /\ WeightInv' /\ OrderInv' /\ OwnInv' /\ Sent' = Sent /\ Coming' = Coming /\ Kept' = Kept
    BY <1>1, <1>2, <1>3, NothingMoves DEF Waiting
  <1>6. Typed'  BY <1>1, <1>2 DEF QueueInv, Typed
  <1>7. JobInv'
    BY <1>1, <1>2, LenProperties DEF QueueInv, JobInv, Place, HandleCalls, Typed
  <1>8. InitInv' /\ ListInv'
    BY <1>1, <1>2, <1>3, <1>4, <1>5 DEF QueueInv, InitInv, ListInv, NoSession
  <1>9. KnownInv'
    BY <1>1, <1>2, <1>3, <1>5 DEF QueueInv, KnownInv, Held
  <1>10. ListIsComplete'  BY <1>1, <1>4 DEF QueueInv, ListInv, ListIsComplete
  <1>11. (OwnAnswers /\ InitLeavesNoError)'
    BY <1>1, <1>2 DEF QueueInv, OwnAnswers, InitLeavesNoError
  <1>. QED
    BY <1>5, <1>6, <1>7, <1>8, <1>9, <1>10, <1>11 DEF QueueInv

LEMMA LimitsAreDefault ==
    ASSUME QueueInv, sftp_limits_use_default
    PROVE  QueueInv'
  <1>1. /\ job.at = "limits" \/ (job.at = "LIMITS" /\ job.call = "failed")
        /\ limits' = (IF limits = "none" THEN "default" ELSE limits) /\ errnum' = "OK"
        /\ job' = [job EXCEPT !.at = "end", !.call = "none"]
        /\ UNCHANGED <<jobs, timeouts, id, expect, current, responses, dir, listed, answer, done,
                       toServer, stream, handles>>
    BY DEF sftp_limits_use_default, ErrorRestored, ToStep
  <1>2. job.kind = "init" /\ job.handle = 0 /\ ~Waiting
    BY <1>1 DEF QueueInv, Typed, JobRecords, JobInv, Place, Idle, Calls, HandleCalls, Changes, Questions, Waiting
  <1>3. /\ job'.kind = "init" /\ job'.handle = 0 /\ job'.at = "end" /\ job'.call = "none" /\ job'.failed = job.failed
        /\ job' \in JobRecords /\ ~Waiting' /\ limits' \in {"default", "server"}
    BY <1>1, <1>2 DEF QueueInv, Typed, JobRecords, Waiting
  <1>4. AlignInv' /\ WeightInv' /\ OrderInv' /\ OwnInv' /\ Sent' = Sent /\ Coming' = Coming /\ Kept' = Kept
    BY <1>1, <1>2, <1>3, NothingMoves
  <1>5. Typed'  BY <1>1, <1>3 DEF QueueInv, Typed, Statuses
  <1>6. JobInv'
    BY <1>1, <1>3, LenProperties DEF QueueInv, JobInv, Place, HandleCalls, Typed
  <1>7. InitInv' /\ ListInv'
    BY <1>1, <1>2, <1>3, <1>4 DEF QueueInv, InitInv, ListInv, NoSession
  <1>8. KnownInv'
    BY <1>1, <1>2, <1>3, <1>4 DEF QueueInv, KnownInv, Held
  <1>9. (OwnAnswers /\ ListIsComplete /\ InitLeavesNoError)'
    BY <1>1, <1>3 DEF QueueInv, OwnAnswers, ListIsComplete, InitLeavesNoError
  <1>. QED
    BY <1>4, <1>5, <1>6, <1>7, <1>8, <1>9 DEF QueueInv

LEMMA CallHasFailed ==
    ASSUME QueueInv, FailsWithoutAnswer
    PROVE  QueueInv'
  <1>1. /\ job.call = "failed" /\ job.at # "LIMITS"
        /\ UNCHANGED <<jobs, timeouts, id, expect, current, responses, dir, listed, errnum, limits, answer, done,
                       toServer, stream, handles>>
        /\ \/ job.at = "CLOSE" /\ job' = [job EXCEPT !.handle = NoHandle, !.at = "end", !.call = "none"]
           \/ /\ job.at # "CLOSE" /\ job.handle # 0
              /\ job' = [job EXCEPT !.at = "CLOSE", !.call = "none", !.failed = TRUE]
           \/ job.at # "CLOSE" /\ job.handle = 0 /\ job' = [job EXCEPT !.at = "end", !.call = "none", !.failed = TRUE]
    BY DEF FailsWithoutAnswer, Fails, NoHandle
  <1>2. job.at \in Calls /\ job.kind # "none" /\ (job.kind = "init" => job.at # "CLOSE") /\ ~Waiting
    BY <1>1 DEF QueueInv, Typed, JobRecords, JobInv, Place, Idle, Calls, HandleCalls, Changes, Questions, Waiting
  <1>3. /\ job'.kind = job.kind /\ job'.call = "none" /\ job' \in JobRecords /\ ~Waiting'
        /\ \/ job.at = "CLOSE" /\ job'.handle = 0 /\ job'.at = "end" /\ job'.failed = job.failed
           \/ /\ job.handle # 0 /\ job.at # "CLOSE" /\ job'.handle = job.handle /\ job'.at = "CLOSE"
              /\ job'.failed = TRUE
           \/ job.handle = 0 /\ job.at # "CLOSE" /\ job'.handle = job.handle /\ job'.at = "end" /\ job'.failed = TRUE
    <2>1. job \in JobRecords  BY DEF QueueInv, Typed
    <2>2. CASE job.at = "CLOSE"
      <3>1. job' = [job EXCEPT !.handle = 0, !.at = "end", !.call = "none"]  BY <1>1, <2>2 DEF NoHandle
      <3>. QED  BY <2>1, <2>2, <3>1 DEF JobRecords, Waiting
    <2>3. CASE job.at # "CLOSE" /\ job.handle # 0
      <3>1. job' = [job EXCEPT !.at = "CLOSE", !.call = "none", !.failed = TRUE]  BY <1>1, <2>3
      <3>. QED  BY <2>1, <2>3, <3>1 DEF JobRecords, Waiting, Calls, HandleCalls
    <2>4. CASE job.at # "CLOSE" /\ job.handle = 0
      <3>1. job' = [job EXCEPT !.at = "end", !.call = "none", !.failed = TRUE]  BY <1>1, <2>4
      <3>. QED  BY <2>1, <2>4, <3>1 DEF JobRecords, Waiting
    <2>. QED  BY <2>2, <2>3, <2>4
  <1>4. AlignInv' /\ WeightInv' /\ OrderInv' /\ OwnInv' /\ Sent' = Sent /\ Coming' = Coming /\ Kept' = Kept
    BY <1>1, <1>2, <1>3, NothingMoves
  <1>5. Typed'  BY <1>1, <1>3 DEF QueueInv, Typed
  <1>6. JobInv'
    <2>1. Len(handles) \in Nat  BY LenProperties DEF QueueInv, Typed
    <2>2. Place'
      BY <1>1, <1>2, <1>3 DEF QueueInv, JobInv, Place, Idle, Calls, HandleCalls, Changes, Questions
    <2>. QED  BY <1>1, <1>3, <2>1, <2>2 DEF QueueInv, JobInv, HandleCalls
  <1>7. InitInv' /\ ListInv'
    BY <1>1, <1>2, <1>3, <1>4 DEF QueueInv, InitInv, ListInv, NoSession
  <1>8. KnownInv'
    BY <1>1, <1>2, <1>3, <1>4 DEF QueueInv, KnownInv, Held
  <1>9. (OwnAnswers /\ ListIsComplete /\ InitLeavesNoError)'
    BY <1>1, <1>2, <1>3 DEF QueueInv, JobInv, OwnAnswers, ListIsComplete, InitLeavesNoError
  <1>. QED
    BY <1>4, <1>5, <1>6, <1>7, <1>8, <1>9 DEF QueueInv

-----------------------------------------------------------------------------
(***************************************************************************)
(* The wait for a response.                                                *)
(***************************************************************************)

\* A call that waits has something under way, and so a queue that is not empty.
LEMMA WaitFails ==
    ASSUME QueueAssumption, QueueInv, ~TornReads, Timeout
    PROVE  QueueInv'
  <1>1. /\ Waiting /\ timeouts < MaxTimeouts /\ expect = "size" /\ timeouts' = timeouts + 1
        /\ expect' = "size" /\ current' = NoMessage /\ errnum' = "FAILURE"
        /\ job' = [job EXCEPT !.call = "failed"]
        /\ UNCHANGED <<jobs, id, responses, dir, listed, limits, answer, done, toServer, stream, handles>>
    BY DEF Timeout, CallFails
  <1>2. /\ job'.kind = job.kind /\ job'.handle = job.handle /\ job'.at = job.at /\ job'.call = "failed"
        /\ job'.failed = job.failed /\ job' \in JobRecords /\ ~Waiting' /\ job.call = "waits"
    BY <1>1 DEF QueueInv, Typed, JobRecords, Waiting
  <1>3. Sent' = Sent /\ Coming' = Coming /\ Kept' = Kept  BY <1>1, QueuesStay
  <1>4. Typed'
    <2>1. NoMessage \in Messages  BY DEF NoMessage, Messages, Types, Payloads
    <2>2. timeouts + 1 \in 0..MaxTimeouts  BY <1>1 DEF QueueInv, Typed, QueueAssumption
    <2>. QED  BY <1>1, <1>2, <2>1, <2>2 DEF QueueInv, Typed, Statuses
  <1>5. JobInv'
    BY <1>1, <1>2 DEF QueueInv, JobInv, Place, Idle
  <1>6. AlignInv' /\ OrderInv' /\ OwnInv'
    BY <1>1, <1>2, <1>3 DEF QueueInv, AlignInv, OrderInv, OwnInv
  <1>7. WeightInv'
    BY <1>1, <1>2, LenProperties DEF QueueInv, WeightInv, Passed, Typed
  <1>8. InitInv' /\ ListInv'
    BY <1>1, <1>2, <1>3 DEF QueueInv, JobInv, Place, Idle, InitInv, ListInv, NoSession
  <1>9. KnownInv'
    BY <1>1, <1>2, <1>3 DEF QueueInv, KnownInv, Held
  <1>10. (OwnAnswers /\ ListIsComplete /\ InitLeavesNoError)'
    BY <1>1, <1>2 DEF QueueInv, JobInv, OwnAnswers, ListIsComplete, InitLeavesNoError, Calls, HandleCalls,
                      Changes, Questions
  <1>. QED
    BY <1>4, <1>5, <1>6, <1>7, <1>8, <1>9, <1>10 DEF QueueInv

\* A piece is taken from the stream.
LEMMA PieceIsTaken ==
    ASSUME QueueInv, stream # <<>>, stream' = Tail(stream)
    PROVE  /\ stream' \in Seq(Pieces) /\ Len(stream') = Len(stream) - 1 /\ Len(stream) \in Nat \ {0}
           /\ Head(stream) = stream[1] /\ stream[1].part = expect /\ stream[1].m \in Coming /\ stream[1] \in Pieces
           /\ Coming = Coming' \cup {stream[1].m}
           /\ \A i \in 1..Len(stream') : stream'[i] = stream[i + 1]
           /\ expect # "body" => stream[1].m \in Coming' /\ stream' # <<>> /\ stream'[1].m = stream[1].m
           /\ expect = "size" => stream'[1].part = "type"
           /\ expect = "type" => stream'[1].part = "body"
           /\ expect = "body" => current = stream[1].m /\ (stream' # <<>> => stream'[1].part = "size")
           /\ \A i \in 1..Len(stream') :
                /\ stream'[i].part = "size" =>
                      i < Len(stream') /\ stream'[i + 1] = [part |-> "type", m |-> stream'[i].m]
                /\ stream'[i].part = "type" =>
                      i < Len(stream') /\ stream'[i + 1] = [part |-> "body", m |-> stream'[i].m]
                /\ stream'[i].part = "body" /\ i < Len(stream') => stream'[i + 1].part = "size"
  <1>1. /\ Range(stream) = Range(stream') \cup {stream[1]} /\ Head(stream) = stream[1] /\ stream' \in Seq(Pieces)
        /\ stream[1] \in Pieces /\ Len(stream') = Len(stream) - 1 /\ Len(stream) \in Nat \ {0}
        /\ \A i \in 1..Len(stream') : stream'[i] = stream[i + 1]
    BY RangeTail DEF QueueInv, Typed
  <1>2. Coming = Coming' \cup {stream[1].m}  BY <1>1 DEF Coming
  <1>3. stream[1].part = expect /\ (expect = "body" => current = stream[1].m)  BY DEF QueueInv, AlignInv
  <1>4. 1 \in 1..Len(stream)  BY <1>1
  <1>5. /\ expect = "size" => 1 < Len(stream) /\ stream[2] = [part |-> "type", m |-> stream[1].m]
        /\ expect = "type" => 1 < Len(stream) /\ stream[2] = [part |-> "body", m |-> stream[1].m]
        /\ expect = "body" /\ 1 < Len(stream) => stream[2].part = "size"
    BY <1>3, <1>4 DEF QueueInv, AlignInv
  <1>6. ASSUME 1 < Len(stream) PROVE 1 \in 1..Len(stream') /\ stream'[1] = stream[2] /\ stream' # <<>>
    <2>1. 1 \in 1..Len(stream')  BY <1>1, <1>6
    <2>2. stream'[1] = stream[1 + 1]  BY <1>1, <2>1
    <2>3. Len(stream') # Len(<<>>)  BY <1>1, <1>6, EmptySeq
    <2>4. stream' # <<>>  BY <2>3
    <2>. QED  BY <2>1, <2>2, <2>4
  <1>7. stream' # <<>> => 1 < Len(stream)
    <2>1. stream' # <<>> => Len(stream') >= 1  BY <1>1, EmptySeq
    <2>. QED  BY <1>1, <2>1
  <1>8. expect # "body" => stream'[1] \in Range(stream') /\ stream'[1].m = stream[1].m /\ stream' # <<>>
    <2>1. expect # "body" => 1 < Len(stream) /\ stream[2].m = stream[1].m
      BY <1>3, <1>5 DEF QueueInv, Typed
    <2>2. stream' \in Seq(Pieces)  BY <1>1
    <2>3. Range(stream') = {stream'[i] : i \in 1..Len(stream')}  BY ONLY <2>2, InRange
    <2>. QED  BY <1>1, <1>6, <2>1, <2>3
  <1>9. expect # "body" => stream[1].m \in Coming'  BY <1>8 DEF Coming
  <1>10. ASSUME NEW i \in 1..Len(stream')
         PROVE /\ stream'[i].part = "size" =>
                     i < Len(stream') /\ stream'[i + 1] = [part |-> "type", m |-> stream'[i].m]
               /\ stream'[i].part = "type" =>
                     i < Len(stream') /\ stream'[i + 1] = [part |-> "body", m |-> stream'[i].m]
               /\ stream'[i].part = "body" /\ i < Len(stream') => stream'[i + 1].part = "size"
    <2>1. i + 1 \in 1..Len(stream) /\ stream'[i] = stream[i + 1] /\ (i + 1 < Len(stream) <=> i < Len(stream'))
      BY <1>1
    <2>2. i < Len(stream') => i + 1 \in 1..Len(stream') /\ stream'[i + 1] = stream[(i + 1) + 1]
      BY <1>1
    <2>. QED  BY <2>1, <2>2 DEF QueueInv, AlignInv
  <1>11. stream[1].m \in Coming  BY <1>2
  <1>12. /\ expect = "size" => stream'[1].part = "type"
         /\ expect = "type" => stream'[1].part = "body"
         /\ expect = "body" /\ stream' # <<>> => stream'[1].part = "size"
    BY <1>5, <1>6, <1>7
  <1>. QED
    BY <1>1, <1>2, <1>3, <1>8, <1>9, <1>10, <1>11, <1>12

\* The pieces of a packet are read one after the other.
LEMMA PieceIsRead ==
    ASSUME QueueInv, sftp_packet_read, expect # "body"
    PROVE  QueueInv'
  <1>1. /\ Waiting /\ stream # <<>> /\ stream' = Tail(stream) /\ UNCHANGED <<responses, job, errnum>>
        /\ UNCHANGED <<jobs, timeouts, id, dir, listed, limits, answer, done, toServer, handles>>
        /\ expect' = (IF expect = "size" THEN "type" ELSE "body")
        /\ expect = "size" => UNCHANGED current
        /\ expect = "type" => current' = stream[1].m
    <2>1. stream # <<>> /\ stream' = Tail(stream)  BY DEF sftp_packet_read
    <2>2. Head(stream) = stream[1] /\ stream[1].part = expect  BY <2>1, PieceIsTaken
    <2>. QED  BY <2>2 DEF sftp_packet_read, QueueInv, Typed
  <1>2. /\ stream' \in Seq(Pieces) /\ Len(stream') = Len(stream) - 1 /\ Len(stream) \in Nat \ {0}
        /\ stream[1].m \in Coming /\ Coming = Coming' \cup {stream[1].m} /\ stream[1].m \in Coming' /\ stream' # <<>>
        /\ stream'[1].m = stream[1].m /\ stream'[1].part = expect' /\ stream[1] \in Pieces
    BY <1>1, PieceIsTaken DEF QueueInv, Typed
  <1>3. AlignInv'
    BY <1>1, <1>2, PieceIsTaken DEF AlignInv, QueueInv, Typed
  <1>4. Sent' = Sent /\ Coming' = Coming /\ Kept' = Kept  BY <1>1, <1>2 DEF Sent, Kept
  <1>5. Typed'
    <2>1. stream[1].m \in Messages  BY <1>2 DEF Pieces
    <2>. QED  BY <1>1, <1>2, <2>1 DEF QueueInv, Typed
  <1>6. JobInv' /\ Waiting' /\ expect \in {"size", "type"}
    BY <1>1 DEF QueueInv, Typed, JobInv, Place, Waiting
  <1>7. WeightInv'
    BY <1>1, <1>2, <1>6, LenProperties DEF QueueInv, WeightInv, Passed, Typed
  <1>8. OrderInv' /\ OwnInv'
    BY <1>1, <1>4, <1>6 DEF QueueInv, OrderInv, OwnInv, Fits, Asked, Subject
  <1>9. InitInv' /\ ListInv' /\ KnownInv'
    BY <1>1, <1>4, <1>6 DEF QueueInv, InitInv, NoSession, ListInv, KnownInv, Held, Waiting
  <1>10. (OwnAnswers /\ ListIsComplete /\ InitLeavesNoError)'
    BY <1>1 DEF QueueInv, OwnAnswers, ListIsComplete, InitLeavesNoError
  <1>. QED
    BY <1>3, <1>5, <1>6, <1>7, <1>8, <1>9, <1>10 DEF QueueInv

\* The last piece: the message is complete.
LEMMA BodyIsRead ==
    ASSUME QueueInv, sftp_packet_read, expect = "body"
    PROVE  /\ Waiting /\ Dequeued = {} /\ expect' = "size" /\ current' = NoMessage /\ current' \in Messages
           /\ UNCHANGED <<jobs, timeouts, id, dir, listed, limits, answer, done, toServer, handles>>
           /\ current \in Messages /\ current \in Coming /\ Coming = Coming' \cup {current} /\ Sent' = Sent
           /\ stream' \in Seq(Pieces) /\ Len(stream') = Len(stream) - 1 /\ Len(stream) \in Nat \ {0}
           /\ AlignInv'
           /\ \/ /\ job.at = "INIT" /\ UNCHANGED <<responses, errnum>>
                 /\ IF current.type # "VERSION" THEN CallFails
                    ELSE ToStep(IF current.payload = "limits" THEN "LIMITS" ELSE "limits")
              \/ job.at # "INIT" /\ current.type = "odd" /\ errnum' = "FAILURE" /\ CallFails /\ UNCHANGED responses
              \/ /\ job.at # "INIT" /\ current.type # "odd" /\ responses' = Append(responses, current)
                 /\ UNCHANGED <<job, errnum>>
  <1>1. stream # <<>> /\ stream' = Tail(stream) /\ Head(stream).part = "body"
    BY PieceIsTaken DEF sftp_packet_read
  <1>2. /\ Waiting /\ Dequeued = {} /\ expect' = "size" /\ current' = NoMessage
        /\ UNCHANGED <<jobs, timeouts, id, dir, listed, limits, answer, done, toServer, handles>>
        /\ IF job.at = "INIT"
           THEN /\ UNCHANGED <<responses, errnum>>
                /\ IF current.type # "VERSION" THEN CallFails
                   ELSE ToStep(IF current.payload = "limits" THEN "LIMITS" ELSE "limits")
           ELSE IF current.type = "odd" THEN errnum' = "FAILURE" /\ CallFails /\ UNCHANGED responses
           ELSE responses' = Append(responses, current) /\ UNCHANGED <<job, errnum>>
    BY <1>1 DEF sftp_packet_read
  <1>3. NoMessage \in Messages  BY DEF NoMessage, Messages, Types, Payloads
  <1>4. /\ stream' \in Seq(Pieces) /\ Len(stream') = Len(stream) - 1 /\ Len(stream) \in Nat \ {0}
        /\ stream[1].m \in Coming /\ Coming = Coming' \cup {stream[1].m} /\ current = stream[1].m
        /\ stream' # <<>> => stream'[1].part = "size"
        /\ stream[1] \in Pieces
    BY <1>1, PieceIsTaken
  <1>5. AlignInv'
    BY <1>1, <1>2, <1>4, PieceIsTaken DEF AlignInv
  <1>6. Sent' = Sent  BY <1>2 DEF Sent
  <1>7. current \in Messages  BY <1>4 DEF Pieces
  <1>. QED  BY <1>2, <1>3, <1>4, <1>5, <1>6, <1>7

\* The answer to the first request is read: nothing else is under way.
LEMMA VersionIsRead ==
    ASSUME QueueInv, sftp_packet_read, expect = "body", job.at = "INIT"
    PROVE  QueueInv'
  <1>1. /\ Waiting /\ expect' = "size" /\ current' \in Messages /\ UNCHANGED <<responses, errnum>>
        /\ UNCHANGED <<jobs, timeouts, id, dir, listed, limits, answer, done, toServer, handles>>
        /\ Sent' = Sent /\ Coming = Coming' \cup {current}
        /\ stream' \in Seq(Pieces) /\ Len(stream') = Len(stream) - 1 /\ Len(stream) \in Nat \ {0}
        /\ AlignInv'
        /\ \/ job' = [job EXCEPT !.call = "failed"]
           \/ job' = [job EXCEPT !.at = "LIMITS", !.call = "none"]
           \/ job' = [job EXCEPT !.at = "limits", !.call = "none"]
    BY BodyIsRead DEF CallFails, ToStep
  <1>2. /\ job.kind = "init" /\ job.handle = 0 /\ job.failed = FALSE /\ job.call = "waits" /\ limits = "none"
        /\ timeouts = 0 /\ responses = <<>> /\ handles = <<>>
    BY <1>1 DEF QueueInv, Typed, JobRecords, JobInv, Place, Idle, Calls, HandleCalls, Changes, Questions,
                Waiting, InitInv
  <1>3. Len(toServer) = 0 /\ Len(stream) = 1 /\ Len(responses) = 0 /\ Len(handles) = 0
    <2>1. Len(toServer) \in Nat /\ Len(responses) \in Nat  BY LenProperties DEF QueueInv, Typed
    <2>2. 3 * Len(toServer) + Len(stream) + 2 + 3 * Len(responses) <= 3
      BY <1>1, <1>2 DEF QueueInv, WeightInv, Passed
    <2>. QED  BY <1>1, <1>2, <2>1, <2>2
  <1>4. Sent' = {} /\ Coming' = {} /\ Kept' = {} /\ Len(stream') = 0
    <2>1. toServer = <<>> /\ stream' = <<>>  BY <1>1, <1>3, EmptySeq DEF QueueInv, Typed
    <2>. QED  BY <1>1, <1>2, <2>1, RangeEmpty DEF Sent, Coming, Kept
  <1>5. /\ job'.kind = "init" /\ job'.handle = 0 /\ job'.failed = FALSE /\ job' \in JobRecords /\ ~Waiting'
        /\ \/ job'.at = "INIT" /\ job'.call = "failed"
           \/ job'.at \in {"LIMITS", "limits"} /\ job'.call = "none"
    BY <1>1, <1>2 DEF QueueInv, Typed, JobRecords, Waiting, Calls
  <1>6. Typed'  BY <1>1, <1>5 DEF QueueInv, Typed
  <1>7. JobInv'
    BY <1>1, <1>3, <1>5 DEF JobInv, Place, Calls, HandleCalls
  <1>8. WeightInv'
    BY <1>1, <1>2, <1>3, <1>4, <1>5 DEF WeightInv, Passed
  <1>9. OrderInv' /\ OwnInv'
    BY <1>1, <1>3, <1>4, <1>5 DEF OrderInv, OwnInv
  <1>10. InitInv'
    <2>1. id = 0  BY DEF QueueInv, InitInv
    <2>. QED  BY <1>1, <1>2, <1>4, <1>5, <2>1 DEF InitInv, NoSession
  <1>11. ListInv' /\ KnownInv'
    BY <1>1, <1>3, <1>5 DEF ListInv, KnownInv
  <1>12. (OwnAnswers /\ ListIsComplete /\ InitLeavesNoError)'
    BY <1>1, <1>5 DEF QueueInv, OwnAnswers, ListIsComplete, InitLeavesNoError
  <1>. QED
    BY <1>1, <1>6, <1>7, <1>8, <1>9, <1>10, <1>11, <1>12 DEF QueueInv

\* A packet that is none of the protocol's fails the call that waits.
LEMMA OddIsRead ==
    ASSUME QueueInv, sftp_packet_read, expect = "body", job.at # "INIT", current.type = "odd"
    PROVE  QueueInv'
  <1>1. /\ Waiting /\ expect' = "size" /\ current' \in Messages /\ UNCHANGED responses /\ errnum' = "FAILURE"
        /\ UNCHANGED <<jobs, timeouts, id, dir, listed, limits, answer, done, toServer, handles>>
        /\ Sent' = Sent /\ Coming = Coming' \cup {current} /\ Kept' = Kept
        /\ stream' \in Seq(Pieces) /\ Len(stream') = Len(stream) - 1 /\ Len(stream) \in Nat \ {0}
        /\ AlignInv'
        /\ job' = [job EXCEPT !.call = "failed"]
    BY BodyIsRead DEF CallFails, Kept
  <1>2. /\ job'.kind = job.kind /\ job'.handle = job.handle /\ job'.at = job.at /\ job'.call = "failed"
        /\ job'.failed = job.failed /\ job' \in JobRecords /\ ~Waiting' /\ job.call = "waits"
    BY <1>1 DEF QueueInv, Typed, JobRecords, Waiting
  <1>3. Typed'  BY <1>1, <1>2 DEF QueueInv, Typed, Statuses
  <1>4. JobInv'
    BY <1>1, <1>2 DEF QueueInv, JobInv, Place, Idle
  <1>5. WeightInv'
    BY <1>1, <1>2, LenProperties DEF QueueInv, WeightInv, Passed, Typed
  <1>6. OrderInv' /\ OwnInv'
    BY <1>1, <1>2 DEF QueueInv, OrderInv, OwnInv
  <1>7. InitInv' /\ ListInv'
    BY <1>1, <1>2 DEF QueueInv, JobInv, Place, Idle, InitInv, ListInv, NoSession
  <1>8. KnownInv'
    BY <1>1, <1>2 DEF QueueInv, KnownInv, Held
  <1>9. (OwnAnswers /\ ListIsComplete /\ InitLeavesNoError)'
    BY <1>1, <1>2 DEF QueueInv, JobInv, OwnAnswers, ListIsComplete, InitLeavesNoError, Calls, HandleCalls,
                      Changes, Questions
  <1>. QED
    BY <1>1, <1>3, <1>4, <1>5, <1>6, <1>7, <1>8, <1>9 DEF QueueInv

\* A response is put into the queue, where none has the id that is waited for.
LEMMA ResponseIsKept ==
    ASSUME QueueInv, sftp_packet_read, expect = "body", job.at # "INIT", current.type # "odd"
    PROVE  QueueInv'
  <1>1. /\ Waiting /\ Dequeued = {} /\ expect' = "size" /\ current' \in Messages /\ UNCHANGED <<job, errnum>>
        /\ UNCHANGED <<jobs, timeouts, id, dir, listed, limits, answer, done, toServer, handles>>
        /\ current \in Messages /\ current \in Coming /\ Sent' = Sent /\ Coming = Coming' \cup {current}
        /\ stream' \in Seq(Pieces) /\ Len(stream') = Len(stream) - 1 /\ Len(stream) \in Nat \ {0}
        /\ AlignInv' /\ responses' = Append(responses, current)
    BY BodyIsRead
  <1>2. /\ responses' \in Seq(Messages) /\ Len(responses') = Len(responses) + 1 /\ Len(responses) \in Nat
        /\ \A i \in 1..Len(responses) : responses'[i] = responses[i]
        /\ responses'[Len(responses) + 1] = current
        /\ Kept' = Kept \cup {current}
    BY <1>1, AppendProperties, LenProperties, RangeAppend DEF QueueInv, Typed, Kept
  <1>3. Coming' \cup Kept' = Coming \cup Kept  BY <1>1, <1>2
  <1>4. Typed'  BY <1>1, <1>2 DEF QueueInv, Typed
  <1>5. JobInv' /\ Waiting' /\ job.at \in Calls
    BY <1>1 DEF QueueInv, JobInv, Place, Waiting
  <1>6. WeightInv'
    BY <1>1, <1>2, <1>5, LenProperties DEF QueueInv, WeightInv, Passed, Typed
  <1>7. current.id # 0
    BY <1>1, <1>5 DEF QueueInv, JobInv, Place, Idle, InitInv, Calls, HandleCalls, Changes, Questions
  <1>8. OrderInv'
    BY <1>1, <1>2, <1>3, <1>7 DEF QueueInv, OrderInv
  <1>9. OwnInv'
    <2>1. \A i \in 1..Len(responses) : responses[i].id # id
      BY <1>1 DEF QueueInv, OwnInv, Dequeued
    <2>2. \A m \in Coming \cup Kept : Fits(m)' = Fits(m)  BY <1>1 DEF Fits, Subject
    <2>3. Asked' = Asked  BY <1>1 DEF Asked, Subject
    <2>4. \A i, j \in 1..Len(responses') : responses'[i].id = id /\ responses'[j].id = id => i = j
      BY <1>2, <2>1
    <2>. QED  BY <1>1, <1>3, <2>2, <2>3, <2>4 DEF QueueInv, OwnInv
  <1>10. InitInv'
    BY <1>1, <1>5 DEF QueueInv, JobInv, Place, Idle, InitInv, NoSession, Calls, HandleCalls, Changes, Questions
  <1>11. ListInv' /\ KnownInv'
    BY <1>1, <1>3, <1>5 DEF QueueInv, ListInv, KnownInv, Held
  <1>12. (OwnAnswers /\ ListIsComplete /\ InitLeavesNoError)'
    BY <1>1 DEF QueueInv, OwnAnswers, ListIsComplete, InitLeavesNoError
  <1>. QED
    BY <1>1, <1>4, <1>5, <1>6, <1>8, <1>9, <1>10, <1>11, <1>12 DEF QueueInv

-----------------------------------------------------------------------------
(***************************************************************************)
(* The response that a call takes from the queue.                          *)
(***************************************************************************)

LEMMA RangeRemoveAt ==
    ASSUME NEW T, NEW q \in Seq(T), NEW n \in 1..Len(q)
    PROVE  /\ RemoveAt(q, n) \in Seq(T) /\ Len(RemoveAt(q, n)) = Len(q) - 1 /\ Len(q) \in Nat
           /\ Range(q) = Range(RemoveAt(q, n)) \cup {q[n]} /\ q[n] \in T
  <1>. DEFINE a == SubSeq(q, 1, n - 1)
              b == SubSeq(q, n + 1, Len(q))
  <1>1. Len(q) \in Nat /\ \A i \in 1..Len(q) : q[i] \in T  BY LenProperties, ElementOfSeq
  <1>2. a \in Seq(T) /\ Len(a) = n - 1 /\ \A i \in 1..(n - 1) : a[i] = q[i]
    <2>1. n - 1 \in Int /\ \A i \in 1..(n - 1) : q[i] \in T  BY <1>1
    <2>2. /\ a \in Seq(T) /\ Len(a) = (IF 1 <= n - 1 THEN (n - 1) - 1 + 1 ELSE 0)
          /\ \A i \in 1..((n - 1) - 1 + 1) : a[i] = q[1 + i - 1]
      BY <2>1, SubSeqProperties
    <2>. QED  BY <2>2
  <1>3. b \in Seq(T) /\ Len(b) = Len(q) - n /\ \A i \in 1..(Len(q) - n) : b[i] = q[n + i]
    <2>1. n + 1 \in Int /\ Len(q) \in Int /\ \A i \in (n + 1)..Len(q) : q[i] \in T  BY <1>1
    <2>2. /\ b \in Seq(T) /\ Len(b) = (IF n + 1 <= Len(q) THEN Len(q) - (n + 1) + 1 ELSE 0)
          /\ \A i \in 1..(Len(q) - (n + 1) + 1) : b[i] = q[n + 1 + i - 1]
      BY <2>1, SubSeqProperties
    <2>. QED  BY <1>1, <2>2
  <1>4. RemoveAt(q, n) = a \o b  BY DEF RemoveAt
  <1>. HIDE DEF a, b
  <1>5. /\ a \o b \in Seq(T) /\ Len(a \o b) = Len(q) - 1
        /\ \A i \in 1..(Len(q) - 1) : (a \o b)[i] = IF i < n THEN q[i] ELSE q[i + 1]
    <2>1. /\ a \o b \in Seq(T) /\ Len(a \o b) = Len(a) + Len(b)
          /\ \A i \in 1..(Len(a) + Len(b)) : (a \o b)[i] = IF i <= Len(a) THEN a[i] ELSE b[i - Len(a)]
      BY <1>2, <1>3, ConcatProperties
    <2>2. Len(a) + Len(b) = Len(q) - 1  BY <1>1, <1>2, <1>3
    <2>3. ASSUME NEW i \in 1..(Len(q) - 1) PROVE (a \o b)[i] = IF i < n THEN q[i] ELSE q[i + 1]
      <3>1. CASE i < n
        <4>1. i <= Len(a) /\ i \in 1..(n - 1)  BY <1>1, <1>2, <3>1
        <4>. QED  BY <1>2, <2>1, <2>2, <3>1, <4>1
      <3>2. CASE ~(i < n)
        <4>1. ~(i <= Len(a)) /\ i - Len(a) \in 1..(Len(q) - n) /\ n + (i - Len(a)) = i + 1
          BY <1>1, <1>2, <3>2
        <4>. QED  BY <1>3, <2>1, <2>2, <3>2, <4>1
      <3>. QED  BY <3>1, <3>2
    <2>. QED  BY <2>1, <2>2, <2>3
  <1>6. Range(q) = {q[i] : i \in 1..Len(q)}  BY InRange
  <1>7. Range(a \o b) = {(a \o b)[i] : i \in 1..(Len(q) - 1)}  BY <1>5, InRange
  <1>8. ASSUME NEW i \in 1..Len(q) PROVE q[i] \in Range(a \o b) \cup {q[n]}
    <2>1. CASE i < n
      <3>1. i \in 1..(Len(q) - 1)  BY <1>1, <2>1
      <3>. QED  BY <1>5, <1>7, <2>1, <3>1
    <2>2. CASE i > n
      <3>1. i - 1 \in 1..(Len(q) - 1) /\ ~(i - 1 < n) /\ (i - 1) + 1 = i  BY <1>1, <2>2
      <3>. QED  BY <1>5, <1>7, <3>1
    <2>. QED  BY <2>1, <2>2
  <1>9. ASSUME NEW i \in 1..(Len(q) - 1) PROVE (a \o b)[i] \in Range(q)
    <2>1. i \in 1..Len(q) /\ i + 1 \in 1..Len(q)  BY <1>1
    <2>. QED  BY <1>5, <1>6, <2>1
  <1>10. q[n] \in Range(q) /\ q[n] \in T  BY <1>1, <1>6
  <1>11. Range(q) \subseteq Range(a \o b) \cup {q[n]}  BY <1>6, <1>8
  <1>12. Range(a \o b) \subseteq Range(q)  BY <1>7, <1>9
  <1>13. Range(q) = Range(a \o b) \cup {q[n]}  BY <1>10, <1>11, <1>12
  <1>. QED  BY <1>1, <1>4, <1>5, <1>10, <1>13

\* What the call does with the response that it takes keeps the invariant when the job and the
\* list keep theirs, and the handle of a response becomes the job's.
LEMMA ResponseIsTaken ==
    ASSUME QueueInv, Waiting, NEW n \in Dequeued, responses' = WithoutIt(n)
    PROVE  /\ responses[n] \in Messages /\ responses[n].id = id /\ Fits(responses[n])
           /\ responses' \in Seq(Messages) /\ Len(responses') = Len(responses) - 1 /\ Len(responses) \in Nat
           /\ Kept = Kept' \cup {responses[n]}
           /\ \A r \in Sent : r.id # id
           /\ job.at \in Calls \ {"INIT"} /\ job.call = "waits" /\ job.kind # "none"
  <1>1. n \in 1..Len(responses) /\ responses[n].id = id
    BY LenProperties DEF QueueInv, Typed, Dequeued
  <1>2. /\ responses' \in Seq(Messages) /\ Len(responses') = Len(responses) - 1 /\ Len(responses) \in Nat
        /\ Kept = Kept' \cup {responses[n]} /\ responses[n] \in Messages
    <2>1. responses \in Seq(Messages)  BY DEF QueueInv, Typed
    <2>2. /\ RemoveAt(responses, n) \in Seq(Messages) /\ Len(RemoveAt(responses, n)) = Len(responses) - 1
          /\ Len(responses) \in Nat /\ responses[n] \in Messages
          /\ Range(responses) = Range(RemoveAt(responses, n)) \cup {responses[n]}
      BY ONLY <1>1, <2>1, RangeRemoveAt
    <2>3. responses' = RemoveAt(responses, n)  BY DEF WithoutIt
    <2>. QED  BY <2>2, <2>3 DEF Kept
  <1>3. Fits(responses[n])  BY <1>1, <1>2 DEF QueueInv, OwnInv
  <1>4. \A r \in Sent : r.id # id
    <2>1. \A r \in Sent : responses[n].id < r.id /\ r.id \in Nat
      BY <1>2, QueuesHold DEF QueueInv, OrderInv, AllRequests
    <2>2. id \in Nat  BY DEF QueueInv, Typed
    <2>. QED  BY <1>1, <2>1, <2>2
  <1>5. job.at # "INIT"
    <2>1. responses # <<>>  BY <1>1
    <2>. QED  BY <2>1 DEF QueueInv, InitInv
  <1>6. job.at \in Calls /\ job.call = "waits" /\ job.kind # "none"
    BY DEF QueueInv, JobInv, Place, Idle, Waiting, Calls, HandleCalls, Changes, Questions
  <1>. QED  BY <1>1, <1>2, <1>3, <1>4, <1>5, <1>6

LEMMA ResponseIsUsed ==
    ASSUME QueueInv, Waiting, NEW n \in Dequeued, responses' = WithoutIt(n),
           UNCHANGED <<jobs, timeouts, id, expect, current, listed, done, toServer, stream, handles>>,
           job' \in JobRecords, job'.kind = job.kind, job'.call = "none", JobInv', ListInv',
           \/ responses[n].type # "HANDLE" /\ (job'.handle = job.handle \/ job.at = "CLOSE")
           \/ job.handle = 0 /\ job'.handle = responses[n].payload,
           dir' \in [count : 0..Entries, eof : BOOLEAN], limits' \in {"none", "default", "server"},
           errnum' \in Statuses \cup {"BAD_MESSAGE", "FILE_ALREADY_EXISTS"},
           job'.at \notin {"INIT", "LIMITS"},
           job'.at = "limits" \/ limits' # "none" => job.at = "LIMITS" \/ limits # "none",
           OwnAnswers', job.kind = "init" => job'.at # "end"
    PROVE  QueueInv'
  <1>1. /\ responses[n] \in Messages /\ responses[n].id = id /\ Fits(responses[n])
        /\ responses' \in Seq(Messages) /\ Len(responses') = Len(responses) - 1 /\ Len(responses) \in Nat
        /\ Kept = Kept' \cup {responses[n]}
        /\ job.at \in Calls \ {"INIT"} /\ job.call = "waits" /\ job.kind # "none"
    BY ResponseIsTaken
  <1>2. Sent' = Sent /\ Coming' = Coming  BY DEF Sent, Coming
  <1>3. ~Waiting'  BY DEF Waiting
  <1>4. Typed'  BY <1>1 DEF QueueInv, Typed
  <1>5. AlignInv'  BY DEF QueueInv, AlignInv
  <1>6. WeightInv'
    <2>1. /\ Len(toServer) \in Nat /\ Len(stream) \in Nat /\ Len(responses) \in Nat /\ Passed \in {0, 1, 2}
          /\ timeouts \in Nat
      BY LenProperties DEF QueueInv, Typed, Passed
    <2>2. 3 * Len(toServer) + Len(stream) + Passed + 3 * Len(responses) <= 3 * timeouts + 3
      BY DEF QueueInv, WeightInv
    <2>3. 3 * Len(toServer) + Len(stream) + Passed + 3 * (Len(responses) - 1) <= 3 * timeouts + 0
      BY ONLY <2>1, <2>2
    <2>4. Passed' = Passed /\ UNCHANGED <<toServer, stream, timeouts>>  BY DEF Passed
    <2>. QED  BY <1>1, <1>3, <2>3, <2>4 DEF WeightInv
  <1>7. OrderInv' /\ OwnInv'  BY <1>1, <1>2, <1>3 DEF QueueInv, OrderInv, OwnInv
  <1>8. InitInv'
    BY <1>1, <1>2 DEF QueueInv, InitInv, NoSession
  <1>9. KnownInv'
    <2>1. \A h : Held(h) => job.handle = h /\ job.at # "CLOSE"  BY <1>1 DEF Held
    <2>2. \A h : job'.handle = h => Held(h)'  BY DEF Held
    <2>3. ASSUME NEW h \in 1..Len(handles), handles[h].open
          PROVE  \/ Held(h)'
                 \/ \E r \in Sent' : r.op = "CLOSE" /\ r.handle = h
                 \/ \E m \in Coming' \cup Kept' : m.type = "HANDLE" /\ m.payload = h
      <3>1. CASE Held(h)
        <4>1. job.handle = h /\ job.handle # 0 /\ job.at # "CLOSE"  BY <2>1, <2>3, <3>1
        <4>2. job'.handle = h  BY <4>1
        <4>. QED  BY <2>2, <4>2
      <3>2. CASE \E r \in Sent : r.op = "CLOSE" /\ r.handle = h  BY <1>2, <3>2
      <3>3. CASE \E m \in Coming \cup Kept : m.type = "HANDLE" /\ m.payload = h
        <4>1. PICK m \in Coming \cup Kept : m.type = "HANDLE" /\ m.payload = h  BY <3>3
        <4>2. CASE m = responses[n]
          <5>1. job'.handle = h  BY <4>1, <4>2
          <5>. QED  BY <2>2, <5>1
        <4>3. CASE m \in Coming' \cup Kept'  BY <4>1, <4>3
        <4>. QED  BY <1>1, <1>2, <4>2, <4>3
      <3>. QED  BY <2>3, <3>1, <3>2, <3>3 DEF QueueInv, KnownInv
    <2>. QED  BY <2>3 DEF KnownInv
  <1>10. (ListIsComplete /\ InitLeavesNoError)'
    BY DEF QueueInv, ListIsComplete, InitLeavesNoError
  <1>. QED
    BY <1>4, <1>5, <1>6, <1>7, <1>8, <1>9, <1>10 DEF QueueInv

\* The record of the job after a call.
LEMMA JobGoesOn ==
    ASSUME Typed, NEW at \in Calls \cup {"limits", "end"}, ToStep(at) \/ Fails(at)
    PROVE  /\ job' \in JobRecords /\ job'.kind = job.kind /\ job'.handle = job.handle /\ job'.at = at
           /\ job'.path = job.path /\ job'.call = "none"
           /\ ToStep(at) => job'.failed = job.failed
           /\ Fails(at) => job'.failed = TRUE
           /\ job'.failed = job.failed \/ job'.failed = TRUE
  <1>1. job \in JobRecords  BY DEF Typed
  <1>2. ASSUME ToStep(at)
        PROVE  /\ job' \in JobRecords /\ job'.kind = job.kind /\ job'.handle = job.handle /\ job'.at = at
               /\ job'.path = job.path /\ job'.call = "none" /\ job'.failed = job.failed
    BY <1>1, <1>2 DEF ToStep, JobRecords
  <1>3. ASSUME Fails(at)
        PROVE  /\ job' \in JobRecords /\ job'.kind = job.kind /\ job'.handle = job.handle /\ job'.at = at
               /\ job'.path = job.path /\ job'.call = "none" /\ job'.failed = TRUE
    BY <1>1, <1>3 DEF Fails, JobRecords
  <1>. QED  BY <1>2, <1>3

LEMMA StatusIsError ==
    ASSUME Typed, NEW m \in Messages, Status(m) \/ UNCHANGED errnum
    PROVE  errnum' \in Statuses \cup {"BAD_MESSAGE", "FILE_ALREADY_EXISTS"}
  BY DEF Typed, Messages, Status

LEMMA TakenIsOwn ==
    ASSUME OwnAnswers, NEW op, NEW m, (Take(op, m) /\ m.payload = Subject(op)) \/ UNCHANGED answer
    PROVE  OwnAnswers'
  BY DEF OwnAnswers, Take

\* The last call of a job.
LEMMA JobIsThrough ==
    ASSUME QueueAssumption, QueueInv, Waiting, NEW n \in Dequeued, responses' = WithoutIt(n),
           UNCHANGED <<jobs, timeouts, id, expect, current, listed, done, toServer, stream, handles, limits>>,
           job' \in JobRecords, job'.kind = job.kind, job'.call = "none", job'.at = "end", job'.handle = 0,
           job.handle = 0 \/ job.at = "CLOSE", job.kind # "init", responses[n].type # "HANDLE",
           job.kind = "list" => job'.failed \/ (job.at = "CLOSE" /\ job'.failed = job.failed),
           dir' \in [count : 0..Entries, eof : BOOLEAN],
           errnum' \in Statuses \cup {"BAD_MESSAGE", "FILE_ALREADY_EXISTS"}, OwnAnswers'
    PROVE  QueueInv'
  <1>1. job.kind # "none" /\ job.call = "waits"  BY ResponseIsTaken
  <1>2. JobInv'
    <2>1. Len(handles) \in Nat  BY LenProperties DEF QueueInv, Typed
    <2>2. Place'  BY <1>1 DEF QueueInv, JobInv, Place, Idle
    <2>. QED  BY <1>1, <2>1, <2>2 DEF QueueInv, JobInv, HandleCalls
  <1>3. ListInv'  BY <1>1 DEF QueueInv, ListInv
  <1>4. limits' \in {"none", "default", "server"}  BY DEF QueueInv, Typed
  <1>5. /\ \/ responses[n].type # "HANDLE" /\ (job'.handle = job.handle \/ job.at = "CLOSE")
           \/ job.handle = 0 /\ job'.handle = responses[n].payload
        /\ job'.at \notin {"INIT", "LIMITS"}
        /\ job'.at = "limits" \/ limits' # "none" => job.at = "LIMITS" \/ limits # "none"
        /\ job.kind = "init" => job'.at # "end"
    OBVIOUS
  <1>. QED  BY <1>2, <1>3, <1>4, <1>5, ResponseIsUsed

\* A call of a job without a handle, which is its last one or has another after it.
LEMMA ChangeIsAnswered ==
    ASSUME QueueAssumption, QueueInv, Waiting, NEW n \in Dequeued, responses' = WithoutIt(n),
           UNCHANGED <<jobs, timeouts, id, expect, current, listed, done, toServer, stream, handles, limits>>,
           job.at \in Changes, ChangeTaken(responses[n])
    PROVE  QueueInv'
  <1>1. /\ responses[n] \in Messages /\ Fits(responses[n]) /\ job.call = "waits" /\ job.kind # "none"
    BY ResponseIsTaken
  <1>2. Typed /\ OwnAnswers  BY DEF QueueInv
  <1>3. Status(responses[n]) /\ UNCHANGED <<answer, dir>> /\ (ToStep("end") \/ Fails("end"))
    BY DEF ChangeTaken
  <1>4. job.kind = "change" /\ job.handle = 0
    BY <1>1 DEF QueueInv, JobInv, Place, Idle, HandleCalls, Changes, Questions
  <1>5. responses[n].type # "HANDLE"  BY <1>1 DEF Fits, Changes
  <1>6. OwnAnswers'  BY <1>2, <1>3, TakenIsOwn
  <1>7. errnum' \in Statuses \cup {"BAD_MESSAGE", "FILE_ALREADY_EXISTS"}
    BY <1>1, <1>2, <1>3, StatusIsError
  <1>8. /\ job' \in JobRecords /\ job'.kind = job.kind /\ job'.handle = job.handle /\ job'.at = "end"
        /\ job'.call = "none"
    BY <1>2, <1>3, JobGoesOn
  <1>9. dir' \in [count : 0..Entries, eof : BOOLEAN]  BY <1>2, <1>3 DEF Typed
  <1>. QED  BY <1>4, <1>5, <1>6, <1>7, <1>8, <1>9, JobIsThrough

LEMMA QuestionIsAnswered ==
    ASSUME QueueAssumption, QueueInv, Waiting, NEW n \in Dequeued, responses' = WithoutIt(n),
           UNCHANGED <<jobs, timeouts, id, expect, current, listed, done, toServer, stream, handles, limits>>,
           NEW type, NEW op, job.at = op,
           \/ op \in {"READLINK", "REALPATH"} /\ type = "NAME"
           \/ op = "STATVFS" /\ type = "REPLY",
           AskTaken(responses[n], type, op)
    PROVE  QueueInv'
  <1>1. /\ responses[n] \in Messages /\ Fits(responses[n]) /\ job.call = "waits" /\ job.kind # "none"
    BY ResponseIsTaken
  <1>2. Typed /\ OwnAnswers  BY DEF QueueInv
  <1>3. /\ UNCHANGED dir /\ (ToStep("end") \/ Fails("end"))
        /\ (responses[n].type = type /\ Take(op, responses[n])) \/ UNCHANGED answer
        /\ Status(responses[n]) \/ UNCHANGED errnum
    BY DEF AskTaken
  <1>4. job.kind = "ask" /\ job.handle = 0
    BY <1>1 DEF QueueInv, JobInv, Place, Idle, HandleCalls, Changes, Questions
  <1>5. responses[n].type # "HANDLE"  BY <1>1 DEF Fits
  <1>6. responses[n].type = type => responses[n].payload = Subject(op)  BY <1>1 DEF Fits
  <1>7. OwnAnswers'  BY <1>2, <1>3, <1>6, TakenIsOwn
  <1>8. errnum' \in Statuses \cup {"BAD_MESSAGE", "FILE_ALREADY_EXISTS"}
    BY <1>1, <1>2, <1>3, StatusIsError
  <1>9. /\ job' \in JobRecords /\ job'.kind = job.kind /\ job'.handle = job.handle /\ job'.at = "end"
        /\ job'.call = "none"
    BY <1>2, <1>3, JobGoesOn
  <1>10. dir' \in [count : 0..Entries, eof : BOOLEAN]  BY <1>2, <1>3 DEF Typed
  <1>. QED  BY <1>4, <1>5, <1>7, <1>8, <1>9, <1>10, JobIsThrough

LEMMA LimitsAreAnswered ==
    ASSUME QueueAssumption, QueueInv, Waiting, NEW n \in Dequeued, responses' = WithoutIt(n),
           UNCHANGED <<jobs, timeouts, id, expect, current, listed, done, toServer, stream, handles>>,
           limits' = "server" \/ UNCHANGED limits, job.at = "LIMITS", ToStep("limits"),
           UNCHANGED <<errnum, dir, answer>>
    PROVE  QueueInv'
  <1>1. Typed /\ OwnAnswers /\ Fits(responses[n])  BY ResponseIsTaken DEF QueueInv
  <1>2. job.kind = "init" /\ job.handle = 0 /\ job.failed = FALSE
    BY <1>1 DEF QueueInv, Typed, JobRecords, JobInv, Place, Idle, HandleCalls, Changes, Questions
  <1>3. /\ job' \in JobRecords /\ job'.kind = "init" /\ job'.handle = 0 /\ job'.at = "limits"
        /\ job'.call = "none" /\ job'.failed = FALSE
    BY <1>1, <1>2, JobGoesOn
  <1>4. JobInv' /\ ListInv'
    BY <1>3, LenProperties DEF QueueInv, Typed, JobInv, Place, HandleCalls, ListInv
  <1>5. responses[n].type # "HANDLE"  BY <1>1 DEF Fits
  <1>6. limits' \in {"none", "default", "server"} /\ dir' \in [count : 0..Entries, eof : BOOLEAN]
        /\ errnum' \in Statuses \cup {"BAD_MESSAGE", "FILE_ALREADY_EXISTS"} /\ OwnAnswers'
    BY <1>1 DEF Typed, OwnAnswers
  <1>7. /\ \/ responses[n].type # "HANDLE" /\ (job'.handle = job.handle \/ job.at = "CLOSE")
           \/ job.handle = 0 /\ job'.handle = responses[n].payload
        /\ job'.at \notin {"INIT", "LIMITS"}
        /\ job'.at = "limits" \/ limits' # "none" => job.at = "LIMITS" \/ limits # "none"
        /\ job'.kind = job.kind /\ (job.kind = "init" => job'.at # "end")
    BY <1>2, <1>3, <1>5
  <1>. QED  BY <1>3, <1>4, <1>6, <1>7, ResponseIsUsed

LEMMA MkdirIsAnswered ==
    ASSUME QueueAssumption, QueueInv, Waiting, NEW n \in Dequeued, responses' = WithoutIt(n),
           UNCHANGED <<jobs, timeouts, id, expect, current, listed, done, toServer, stream, handles, limits>>,
           job.at = "MKDIR", MkdirTaken(responses[n])
    PROVE  QueueInv'
  <1>1. /\ responses[n] \in Messages /\ Fits(responses[n]) /\ job.call = "waits" /\ job.kind # "none"
    BY ResponseIsTaken
  <1>2. Typed /\ OwnAnswers  BY DEF QueueInv
  <1>3. Status(responses[n]) /\ UNCHANGED <<answer, dir>> /\ (ToStep("end") \/ Fails("end") \/ Fails("LSTAT"))
    BY DEF MkdirTaken
  <1>4. job.kind = "mkdir" /\ job.handle = 0
    BY <1>1 DEF QueueInv, JobInv, Place, Idle, HandleCalls, Changes, Questions
  <1>5. responses[n].type # "HANDLE"  BY <1>1 DEF Fits
  <1>6. OwnAnswers'  BY <1>2, <1>3, TakenIsOwn
  <1>7. errnum' \in Statuses \cup {"BAD_MESSAGE", "FILE_ALREADY_EXISTS"}
    BY <1>1, <1>2, <1>3, StatusIsError
  <1>8. dir' \in [count : 0..Entries, eof : BOOLEAN]  BY <1>2, <1>3 DEF Typed
  <1>9. CASE ToStep("end") \/ Fails("end")
    <2>1. /\ job' \in JobRecords /\ job'.kind = job.kind /\ job'.handle = job.handle /\ job'.at = "end"
          /\ job'.call = "none"
      BY <1>2, <1>9, JobGoesOn
    <2>. QED  BY <1>4, <1>5, <1>6, <1>7, <1>8, <2>1, JobIsThrough
  <1>10. CASE Fails("LSTAT")
    <2>1. /\ job' \in JobRecords /\ job'.kind = "mkdir" /\ job'.handle = 0 /\ job'.at = "LSTAT"
          /\ job'.call = "none"
      <3>1. "LSTAT" \in Calls  BY DEF Calls
      <3>. QED  BY <1>2, <1>4, <1>10, <3>1, JobGoesOn
    <2>2. JobInv' /\ ListInv'
      BY <1>4, <2>1, LenProperties DEF QueueInv, Typed, JobInv, Place, HandleCalls, ListInv, Calls
    <2>3. /\ job'.at \notin {"INIT", "LIMITS"} /\ job'.kind = job.kind
          /\ job'.at = "limits" \/ limits' # "none" => job.at = "LIMITS" \/ limits # "none"
          /\ job.kind = "init" => job'.at # "end"
          /\ responses[n].type # "HANDLE" /\ (job'.handle = job.handle \/ job.at = "CLOSE")
      BY <1>4, <1>5, <2>1
    <2>4. limits' \in {"none", "default", "server"}  BY <1>2 DEF Typed
    <2>. QED  BY <1>6, <1>7, <1>8, <2>1, <2>2, <2>3, <2>4, ResponseIsUsed
  <1>. QED  BY <1>3, <1>9, <1>10

LEMMA LstatIsAnswered ==
    ASSUME QueueAssumption, QueueInv, Waiting, NEW n \in Dequeued, responses' = WithoutIt(n),
           UNCHANGED <<jobs, timeouts, id, expect, current, listed, done, toServer, stream, handles, limits>>,
           job.at = "LSTAT", LstatTaken(responses[n])
    PROVE  QueueInv'
  <1>1. /\ responses[n] \in Messages /\ Fits(responses[n]) /\ job.call = "waits" /\ job.kind # "none"
    BY ResponseIsTaken
  <1>2. Typed /\ OwnAnswers  BY DEF QueueInv
  <1>3. /\ UNCHANGED dir /\ ToStep("end")
        /\ (responses[n].type = "ATTRS" /\ Take("LSTAT", responses[n])) \/ UNCHANGED answer
        /\ Status(responses[n]) \/ errnum' = "FILE_ALREADY_EXISTS"
    BY DEF LstatTaken
  <1>4. job.kind = "mkdir" /\ job.handle = 0
    BY <1>1 DEF QueueInv, JobInv, Place, Idle, HandleCalls, Changes, Questions
  <1>5. responses[n].type # "HANDLE"  BY <1>1 DEF Fits
  <1>6. responses[n].type = "ATTRS" => responses[n].payload = Subject("LSTAT")  BY <1>1 DEF Fits
  <1>7. OwnAnswers'  BY <1>2, <1>3, <1>6, TakenIsOwn
  <1>8. errnum' \in Statuses \cup {"BAD_MESSAGE", "FILE_ALREADY_EXISTS"}
    BY <1>1, <1>2, <1>3, StatusIsError
  <1>9. dir' \in [count : 0..Entries, eof : BOOLEAN]  BY <1>2, <1>3 DEF Typed
  <1>10. /\ job' \in JobRecords /\ job'.kind = job.kind /\ job'.handle = job.handle /\ job'.at = "end"
         /\ job'.call = "none"
    BY <1>2, <1>3, JobGoesOn
  <1>. QED  BY <1>4, <1>5, <1>7, <1>8, <1>9, <1>10, JobIsThrough

\* A call of a job that has a handle, and keeps it to read on or to close it.
LEMMA JobKeepsHandle ==
    ASSUME QueueAssumption, QueueInv, Waiting, NEW n \in Dequeued, responses' = WithoutIt(n),
           UNCHANGED <<jobs, timeouts, id, expect, current, listed, done, toServer, stream, handles, limits>>,
           job' \in JobRecords, job'.kind = job.kind, job'.call = "none", job'.handle = job.handle,
           job.handle # 0, job.at # "CLOSE", responses[n].type # "HANDLE",
           job'.at = "CLOSE" \/ (job'.at = "READ" /\ job.at = "READ" /\ job'.failed = job.failed),
           job.kind = "list" => job'.failed \/ listed = Entries,
           dir' \in [count : 0..Entries, eof : BOOLEAN],
           errnum' \in Statuses \cup {"BAD_MESSAGE", "FILE_ALREADY_EXISTS"}, OwnAnswers'
    PROVE  QueueInv'
  <1>1. /\ job.kind \in {"list", "read", "append"} /\ job.call = "waits"
        /\ job.at = "READ" => job.kind = "read"
    BY ResponseIsTaken DEF QueueInv, JobInv, Place, Idle, HandleCalls, Changes, Questions
  <1>2. JobInv'
    <2>1. Place'  BY <1>1 DEF Place
    <2>. QED  BY <1>1, <2>1 DEF QueueInv, JobInv, HandleCalls
  <1>3. ListInv'  BY <1>1 DEF ListInv
  <1>4. limits' \in {"none", "default", "server"}  BY DEF QueueInv, Typed
  <1>5. /\ job'.at \notin {"INIT", "LIMITS"}
        /\ job'.at = "limits" \/ limits' # "none" => job.at = "LIMITS" \/ limits # "none"
        /\ job.kind = "init" => job'.at # "end"
    BY <1>1
  <1>. QED  BY <1>2, <1>3, <1>4, <1>5, ResponseIsUsed

LEMMA StatIsAnswered ==
    ASSUME QueueAssumption, QueueInv, Waiting, NEW n \in Dequeued, responses' = WithoutIt(n),
           UNCHANGED <<jobs, timeouts, id, expect, current, listed, done, toServer, stream, handles, limits>>,
           job.at = "STAT", StatTaken(responses[n])
    PROVE  QueueInv'
  <1>. DEFINE next == IF job.kind = "append" THEN "CLOSE" ELSE "end"
  <1>1. /\ responses[n] \in Messages /\ Fits(responses[n]) /\ job.call = "waits" /\ job.kind # "none"
    BY ResponseIsTaken
  <1>2. Typed /\ OwnAnswers  BY DEF QueueInv
  <1>3. /\ UNCHANGED dir /\ (ToStep(next) \/ Fails(next))
        /\ (responses[n].type = "ATTRS" /\ Take("STAT", responses[n])) \/ UNCHANGED answer
        /\ Status(responses[n]) \/ UNCHANGED errnum
    BY DEF StatTaken
  <1>4. next \in Calls \cup {"limits", "end"}  BY DEF Calls, HandleCalls
  <1>5. (job.kind = "append" /\ job.handle # 0) \/ (job.kind = "stat" /\ job.handle = 0)
    BY <1>1 DEF QueueInv, JobInv, Place, Idle, HandleCalls, Changes, Questions
  <1>6. responses[n].type # "HANDLE"  BY <1>1 DEF Fits
  <1>7. responses[n].type = "ATTRS" => responses[n].payload = Subject("STAT")  BY <1>1 DEF Fits
  <1>8. OwnAnswers'  BY <1>2, <1>3, <1>7, TakenIsOwn
  <1>9. errnum' \in Statuses \cup {"BAD_MESSAGE", "FILE_ALREADY_EXISTS"}
    BY <1>1, <1>2, <1>3, StatusIsError
  <1>10. dir' \in [count : 0..Entries, eof : BOOLEAN]  BY <1>2, <1>3 DEF Typed
  <1>11. /\ job' \in JobRecords /\ job'.kind = job.kind /\ job'.handle = job.handle /\ job'.at = next
         /\ job'.call = "none"
    <2>. HIDE DEF next
    <2>. QED  BY <1>2, <1>3, <1>4, JobGoesOn
  <1>12. CASE job.kind = "append" /\ job.handle # 0
    BY <1>6, <1>8, <1>9, <1>10, <1>11, <1>12, JobKeepsHandle
  <1>13. CASE job.kind = "stat" /\ job.handle = 0
    BY <1>6, <1>8, <1>9, <1>10, <1>11, <1>13, JobIsThrough
  <1>. QED  BY <1>5, <1>12, <1>13

LEMMA ReadIsAnswered ==
    ASSUME QueueAssumption, QueueInv, Waiting, NEW n \in Dequeued, responses' = WithoutIt(n),
           UNCHANGED <<jobs, timeouts, id, expect, current, listed, done, toServer, stream, handles, limits>>,
           job.at = "READ", ReadGoesOn(responses[n])
    PROVE  QueueInv'
  <1>1. /\ responses[n] \in Messages /\ Fits(responses[n]) /\ job.call = "waits" /\ job.kind # "none"
    BY ResponseIsTaken
  <1>2. Typed /\ OwnAnswers  BY DEF QueueInv
  <1>3. /\ UNCHANGED dir /\ (ToStep("READ") \/ ToStep("CLOSE") \/ Fails("CLOSE"))
        /\ (responses[n].type = "DATA" /\ Take("READ", responses[n])) \/ UNCHANGED answer
        /\ Status(responses[n]) \/ UNCHANGED errnum
    BY DEF ReadGoesOn
  <1>4. job.kind = "read" /\ job.handle # 0
    BY <1>1 DEF QueueInv, JobInv, Place, Idle, HandleCalls, Changes, Questions
  <1>5. responses[n].type # "HANDLE"  BY <1>1 DEF Fits
  <1>6. responses[n].type = "DATA" => responses[n].payload = Subject("READ")  BY <1>1 DEF Fits
  <1>7. OwnAnswers'  BY <1>2, <1>3, <1>6, TakenIsOwn
  <1>8. errnum' \in Statuses \cup {"BAD_MESSAGE", "FILE_ALREADY_EXISTS"}
    BY <1>1, <1>2, <1>3, StatusIsError
  <1>9. dir' \in [count : 0..Entries, eof : BOOLEAN]  BY <1>2, <1>3 DEF Typed
  <1>10. /\ job' \in JobRecords /\ job'.kind = job.kind /\ job'.handle = job.handle /\ job'.call = "none"
         /\ job'.at = "CLOSE" \/ (job'.at = "READ" /\ job.at = "READ" /\ job'.failed = job.failed)
    <2>1. {"READ", "CLOSE"} \subseteq Calls  BY DEF Calls, HandleCalls
    <2>2. CASE ToStep("READ")  BY <1>2, <2>1, <2>2, JobGoesOn
    <2>3. CASE ToStep("CLOSE") \/ Fails("CLOSE")  BY <1>2, <2>1, <2>3, JobGoesOn
    <2>. QED  BY <1>3, <2>2, <2>3
  <1>. QED  BY <1>4, <1>5, <1>7, <1>8, <1>9, <1>10, JobKeepsHandle

LEMMA CloseIsAnswered ==
    ASSUME QueueAssumption, QueueInv, Waiting, NEW n \in Dequeued, responses' = WithoutIt(n),
           UNCHANGED <<jobs, timeouts, id, expect, current, listed, done, toServer, stream, handles, limits>>,
           job.at = "CLOSE", CloseTaken(responses[n])
    PROVE  QueueInv'
  <1>1. /\ responses[n] \in Messages /\ Fits(responses[n]) /\ job.call = "waits" /\ job.kind # "none"
    BY ResponseIsTaken
  <1>2. Typed /\ OwnAnswers  BY DEF QueueInv
  <1>3. /\ Status(responses[n]) /\ UNCHANGED answer /\ dir' = [dir EXCEPT !.count = 0]
        /\ job' = [job EXCEPT !.handle = 0, !.at = "end", !.call = "none"]
    BY DEF CloseTaken, NoHandle
  <1>4. job.kind # "init"
    BY <1>1 DEF QueueInv, JobInv, Place, Idle, HandleCalls, Changes, Questions
  <1>5. responses[n].type # "HANDLE"  BY <1>1 DEF Fits
  <1>6. OwnAnswers'  BY <1>2, <1>3, TakenIsOwn
  <1>7. errnum' \in Statuses \cup {"BAD_MESSAGE", "FILE_ALREADY_EXISTS"}
    BY <1>1, <1>2, <1>3, StatusIsError
  <1>8. dir' \in [count : 0..Entries, eof : BOOLEAN]
    <2>1. 0 \in 0..Entries  BY DEF QueueAssumption
    <2>2. dir \in [count : 0..Entries, eof : BOOLEAN]  BY <1>2 DEF Typed
    <2>3. dir' = [dir EXCEPT !.count = 0]  BY <1>3
    <2>. QED  BY ONLY <2>1, <2>2, <2>3
  <1>9. /\ job' \in JobRecords /\ job'.kind = job.kind /\ job'.handle = 0 /\ job'.at = "end"
        /\ job'.call = "none" /\ job'.failed = job.failed
    BY <1>2, <1>3 DEF Typed, JobRecords
  <1>. QED  BY <1>4, <1>5, <1>6, <1>7, <1>8, <1>9, JobIsThrough

\* A file or a directory is open: its handle is new.
LEMMA OpenIsAnswered ==
    ASSUME QueueAssumption, QueueInv, Waiting, NEW n \in Dequeued, responses' = WithoutIt(n),
           UNCHANGED <<jobs, timeouts, id, expect, current, listed, done, toServer, stream, handles, limits>>,
           NEW op \in {"OPEN", "OPENDIR"}, job.at = op, NEW next, Opened(op, responses[n], next),
           next = IF op = "OPENDIR" THEN "READDIR" ELSE IF job.kind = "append" THEN "STAT" ELSE "READ"
    PROVE  QueueInv'
  <1>1. /\ responses[n] \in Messages /\ Fits(responses[n]) /\ job.call = "waits" /\ job.kind # "none"
    BY ResponseIsTaken
  <1>2. Typed /\ OwnAnswers  BY DEF QueueInv
  <1>3. /\ job.handle = 0 /\ job.failed = FALSE
        /\ \/ job.kind = "list" /\ op = "OPENDIR"
           \/ job.kind \in {"read", "append"} /\ op = "OPEN"
    BY <1>1, <1>2 DEF QueueInv, Typed, JobRecords, JobInv, Place, Idle, HandleCalls, Changes, Questions
  <1>4. OwnAnswers' /\ limits' \in {"none", "default", "server"}  BY <1>2 DEF Opened, OwnAnswers, Typed
  <1>5. CASE responses[n].type = "HANDLE"
    <2>1. /\ job' = [job EXCEPT !.handle = responses[n].payload, !.at = next, !.call = "none"]
          /\ dir' = [count |-> 0, eof |-> FALSE] /\ UNCHANGED errnum
      BY <1>5 DEF Opened, Closed
    <2>2. /\ responses[n].payload \in 1..Len(handles) /\ handles[responses[n].payload].read = 0
          /\ \A r \in Sent : r.handle # responses[n].payload
      BY <1>1, <1>5 DEF Fits
    <2>3. Len(handles) \in Nat  BY <1>2, LenProperties DEF Typed
    <2>4. responses[n].payload \in Nat /\ responses[n].payload # 0 /\ responses[n].payload <= Len(handles)
      BY <2>2, <2>3
    <2>5. /\ job' \in JobRecords /\ job'.kind = job.kind /\ job'.handle = responses[n].payload /\ job'.at = next
          /\ job'.call = "none" /\ job'.failed = FALSE
      <3>1. next \in Calls  BY DEF Calls, HandleCalls
      <3>2. job \in JobRecords  BY <1>2 DEF Typed
      <3>. QED  BY <1>3, <2>1, <2>4, <3>1, <3>2 DEF JobRecords
    <2>6. JobInv'
      <3>1. Place'  BY <1>3, <2>5 DEF Place
      <3>. QED  BY <1>3, <2>3, <2>4, <2>5, <3>1 DEF QueueInv, JobInv, HandleCalls
    <2>7. dir' \in [count : 0..Entries, eof : BOOLEAN]
      <3>1. 0 \in 0..Entries  BY DEF QueueAssumption
      <3>. QED  BY <2>1, <3>1
    <2>8. ListInv'
      <3>1. job.kind = "list" => listed = 0
        BY <1>1, <1>3, <2>2 DEF QueueInv, ListInv
      <3>2. Sent' = Sent  BY DEF Sent
      <3>. QED  BY <1>3, <2>1, <2>2, <2>5, <3>1, <3>2 DEF ListInv, QueueAssumption, Waiting
    <2>9. errnum' \in Statuses \cup {"BAD_MESSAGE", "FILE_ALREADY_EXISTS"}  BY <1>2, <2>1 DEF Typed
    <2>10. /\ job'.at \notin {"INIT", "LIMITS"}
           /\ job'.at = "limits" \/ limits' # "none" => job.at = "LIMITS" \/ limits # "none"
           /\ job.kind = "init" => job'.at # "end"
      BY <1>3, <2>5
    <2>. QED  BY <1>3, <1>4, <2>5, <2>6, <2>7, <2>8, <2>9, <2>10, ResponseIsUsed
  <1>6. CASE responses[n].type # "HANDLE"
    <2>1. Status(responses[n]) /\ Fails("end") /\ UNCHANGED <<dir, answer>>  BY <1>6 DEF Opened
    <2>2. errnum' \in Statuses \cup {"BAD_MESSAGE", "FILE_ALREADY_EXISTS"}
      BY <1>1, <1>2, <2>1, StatusIsError
    <2>3. dir' \in [count : 0..Entries, eof : BOOLEAN]  BY <1>2, <2>1 DEF Typed
    <2>4. /\ job' \in JobRecords /\ job'.kind = job.kind /\ job'.handle = job.handle /\ job'.at = "end"
          /\ job'.call = "none" /\ job'.failed = TRUE
      BY <1>2, <2>1, JobGoesOn
    <2>. QED  BY <1>3, <1>4, <1>6, <2>2, <2>3, <2>4, JobIsThrough
  <1>. QED  BY <1>5, <1>6

\* The next names of the directory are there, or its end.
LEMMA ReaddirIsAnswered ==
    ASSUME QueueAssumption, QueueInv, Waiting, NEW n \in Dequeued, responses' = WithoutIt(n),
           UNCHANGED <<jobs, timeouts, id, expect, current, listed, done, toServer, stream, handles, limits>>,
           job.at = "READDIR", ReaddirEnds(responses[n]) \/ ReaddirGoesOn(responses[n])
    PROVE  QueueInv'
  <1>1. /\ responses[n] \in Messages /\ Fits(responses[n]) /\ job.call = "waits" /\ job.kind # "none"
        /\ \A r \in Sent : r.id # id
    BY ResponseIsTaken
  <1>2. Typed /\ OwnAnswers  BY DEF QueueInv
  <1>3. job.kind = "list" /\ job.handle # 0 /\ job.failed = FALSE
    BY <1>1, <1>2 DEF QueueInv, Typed, JobRecords, JobInv, Place, Idle, HandleCalls, Changes, Questions
  <1>4. responses[n].type # "HANDLE"  BY <1>1 DEF Fits
  <1>5. OwnAnswers'  BY <1>2 DEF ReaddirEnds, ReaddirGoesOn, OwnAnswers
  <1>6. errnum' \in Statuses \cup {"BAD_MESSAGE", "FILE_ALREADY_EXISTS"}
    BY <1>1, <1>2, StatusIsError DEF ReaddirEnds, ReaddirGoesOn
  <1>7. {"READDIR", "CLOSE"} \subseteq Calls  BY DEF Calls, HandleCalls
  <1>8. CASE ReaddirEnds(responses[n])
    <2>1. /\ dir' \in [count : 0..Entries, eof : BOOLEAN]
          /\ \/ Fails("CLOSE")
             \/ ToStep("CLOSE") /\ responses[n].type = "STATUS" /\ responses[n].payload = "EOF"
      BY <1>2, <1>8 DEF ReaddirEnds, Typed
    <2>2. responses[n].type = "STATUS" /\ responses[n].payload = "EOF" => listed = Entries
      BY <1>1 DEF Fits
    <2>3. /\ job' \in JobRecords /\ job'.kind = job.kind /\ job'.handle = job.handle /\ job'.at = "CLOSE"
          /\ job'.call = "none" /\ (job'.failed \/ listed = Entries)
      BY <1>2, <1>7, <2>1, <2>2, JobGoesOn
    <2>. QED  BY <1>3, <1>4, <1>5, <1>6, <2>1, <2>3, JobKeepsHandle
  <1>9. CASE ReaddirGoesOn(responses[n])
    <2>1. /\ responses[n].type = "NAME" /\ dir' = [dir EXCEPT !.count = responses[n].payload]
          /\ IF responses[n].payload = 0 THEN Fails("CLOSE") ELSE ToStep("READDIR")
      BY <1>9 DEF ReaddirGoesOn
    <2>2. responses[n].payload \in Nat /\ listed + responses[n].payload = handles[job.handle].read
      BY <1>1, <2>1 DEF Fits
    <2>3. handles[job.handle].read <= Entries /\ dir.count = 0
          /\ \A r \in Sent : r.handle = job.handle => r.id = id
      BY <1>1, <1>3 DEF QueueInv, ListInv
    <2>4. listed \in Nat /\ dir \in [count : 0..Entries, eof : BOOLEAN] /\ Entries \in Nat
      BY <1>2 DEF Typed, QueueAssumption
    <2>5. responses[n].payload \in 0..Entries  BY <2>2, <2>3, <2>4
    <2>6. dir' \in [count : 0..Entries, eof : BOOLEAN] /\ dir'.count = responses[n].payload
      BY <2>1, <2>4, <2>5
    <2>7. CASE Fails("CLOSE")
      <3>1. /\ job' \in JobRecords /\ job'.kind = job.kind /\ job'.handle = job.handle /\ job'.at = "CLOSE"
            /\ job'.call = "none" /\ job'.failed = TRUE
        BY <1>2, <1>7, <2>7, JobGoesOn
      <3>. QED  BY <1>3, <1>4, <1>5, <1>6, <2>6, <3>1, JobKeepsHandle
    <2>8. CASE ToStep("READDIR")
      <3>1. /\ job' \in JobRecords /\ job'.kind = "list" /\ job'.handle = job.handle /\ job'.at = "READDIR"
            /\ job'.call = "none" /\ job'.failed = FALSE
        BY <1>2, <1>3, <1>7, <2>8, JobGoesOn
      <3>2. JobInv'  BY <1>3, <3>1 DEF QueueInv, JobInv, Place, HandleCalls
      <3>3. Sent' = Sent  BY DEF Sent
      <3>4. ListInv'  BY <1>1, <2>2, <2>3, <2>6, <3>1, <3>3 DEF ListInv, Waiting
      <3>5. limits' \in {"none", "default", "server"}  BY <1>2 DEF Typed
      <3>6. /\ job'.at \notin {"INIT", "LIMITS"} /\ job'.kind = job.kind
            /\ job'.at = "limits" \/ limits' # "none" => job.at = "LIMITS" \/ limits # "none"
            /\ job.kind = "init" => job'.at # "end"
        BY <1>3, <3>1
      <3>. QED  BY <1>4, <1>5, <1>6, <2>6, <3>1, <3>2, <3>4, <3>5, <3>6, ResponseIsUsed
    <2>. QED  BY <2>1, <2>7, <2>8
  <1>. QED  BY <1>8, <1>9

LEMMA CallIsAnswered ==
    ASSUME QueueAssumption, QueueInv, Answered
    PROVE  QueueInv'
  <1>1. PICK n \in Dequeued :
        /\ Waiting /\ responses' = WithoutIt(n)
        /\ UNCHANGED <<jobs, timeouts, id, expect, current, listed, done, toServer, stream, handles>>
        /\ limits' = "server" \/ UNCHANGED limits
        /\ job.at # "LIMITS" => UNCHANGED limits
        /\ \/ job.at = "LIMITS" /\ ToStep("limits") /\ UNCHANGED <<errnum, dir, answer>>
           \/ job.at \in Changes /\ ChangeTaken(responses[n])
           \/ job.at = "READLINK" /\ AskTaken(responses[n], "NAME", "READLINK")
           \/ job.at = "REALPATH" /\ AskTaken(responses[n], "NAME", "REALPATH")
           \/ job.at = "STATVFS" /\ AskTaken(responses[n], "REPLY", "STATVFS")
           \/ job.at = "OPENDIR" /\ Opened("OPENDIR", responses[n], "READDIR")
           \/ job.at = "OPEN" /\ Opened("OPEN", responses[n], IF job.kind = "append" THEN "STAT" ELSE "READ")
           \/ job.at = "READDIR" /\ (ReaddirEnds(responses[n]) \/ ReaddirGoesOn(responses[n]))
           \/ job.at = "READ" /\ ReadGoesOn(responses[n])
           \/ job.at = "STAT" /\ StatTaken(responses[n])
           \/ job.at = "MKDIR" /\ MkdirTaken(responses[n])
           \/ job.at = "LSTAT" /\ LstatTaken(responses[n])
           \/ job.at = "CLOSE" /\ CloseTaken(responses[n])
    <2>. HIDE DEF ChangeTaken, AskTaken, Opened, ReaddirEnds, ReaddirGoesOn, ReadGoesOn, StatTaken, MkdirTaken,
                  LstatTaken, CloseTaken, ToStep
    <2>. QED  BY DEF Answered
  <1>2. CASE job.at = "LIMITS"
    <2>1. ToStep("limits") /\ UNCHANGED <<errnum, dir, answer>>  BY <1>1, <1>2 DEF Changes
    <2>. QED  BY <1>1, <1>2, <2>1, LimitsAreAnswered
  <1>3. CASE job.at # "LIMITS"
    <2>1. UNCHANGED limits  BY <1>1, <1>3
    <2>2. UNCHANGED <<jobs, timeouts, id, expect, current, listed, done, toServer, stream, handles, limits>>
      BY <1>1, <2>1
    <2>3. CASE job.at \in Changes /\ ChangeTaken(responses[n])  BY <1>1, <2>2, <2>3, ChangeIsAnswered
    <2>4. CASE job.at = "READLINK" /\ AskTaken(responses[n], "NAME", "READLINK")
      BY <1>1, <2>2, <2>4, QuestionIsAnswered
    <2>5. CASE job.at = "REALPATH" /\ AskTaken(responses[n], "NAME", "REALPATH")
      BY <1>1, <2>2, <2>5, QuestionIsAnswered
    <2>6. CASE job.at = "STATVFS" /\ AskTaken(responses[n], "REPLY", "STATVFS")
      BY <1>1, <2>2, <2>6, QuestionIsAnswered
    <2>7. CASE job.at = "OPENDIR" /\ Opened("OPENDIR", responses[n], "READDIR")
      BY <1>1, <2>2, <2>7, OpenIsAnswered
    <2>8. CASE job.at = "OPEN" /\ Opened("OPEN", responses[n], IF job.kind = "append" THEN "STAT" ELSE "READ")
      BY <1>1, <2>2, <2>8, OpenIsAnswered
    <2>9. CASE job.at = "READDIR" /\ (ReaddirEnds(responses[n]) \/ ReaddirGoesOn(responses[n]))
      BY <1>1, <2>2, <2>9, ReaddirIsAnswered
    <2>10. CASE job.at = "READ" /\ ReadGoesOn(responses[n])  BY <1>1, <2>2, <2>10, ReadIsAnswered
    <2>11. CASE job.at = "STAT" /\ StatTaken(responses[n])  BY <1>1, <2>2, <2>11, StatIsAnswered
    <2>12. CASE job.at = "MKDIR" /\ MkdirTaken(responses[n])  BY <1>1, <2>2, <2>12, MkdirIsAnswered
    <2>13. CASE job.at = "LSTAT" /\ LstatTaken(responses[n])  BY <1>1, <2>2, <2>13, LstatIsAnswered
    <2>14. CASE job.at = "CLOSE" /\ CloseTaken(responses[n])  BY <1>1, <2>2, <2>14, CloseIsAnswered
    <2>. QED
      BY <1>1, <1>3, <2>3, <2>4, <2>5, <2>6, <2>7, <2>8, <2>9, <2>10, <2>11, <2>12, <2>13, <2>14
  <1>. QED  BY <1>2, <1>3

-----------------------------------------------------------------------------
(***************************************************************************)
(* The server's answer.                                                    *)
(***************************************************************************)

\* The packet of a message is put into the stream.
Sends(m) ==
    stream' = stream \o <<[part |-> "size", m |-> m], [part |-> "type", m |-> m], [part |-> "body", m |-> m]>>

LEMMA RangeThreeMore ==
    ASSUME NEW T, NEW q \in Seq(T), NEW t \in Seq(T), Len(t) = 3
    PROVE  /\ q \o t \in Seq(T) /\ Len(q \o t) = Len(q) + 3 /\ Len(q) \in Nat
           /\ \A i \in 1..Len(q) : (q \o t)[i] = q[i]
           /\ (q \o t)[Len(q) + 1] = t[1] /\ (q \o t)[Len(q) + 2] = t[2] /\ (q \o t)[Len(q) + 3] = t[3]
           /\ Range(q \o t) = Range(q) \cup {t[1], t[2], t[3]}
  <1>. DEFINE k == Len(q)
              s == q \o t
  <1>1. PICK a, b, c : a = t[1] /\ b = t[2] /\ c = t[3]  OBVIOUS
  <1>2. k \in Nat  BY LenProperties
  <1>4. s \in Seq(T) /\ Len(s) = k + 3 /\ \A i \in 1..(k + 3) : s[i] = IF i <= k THEN q[i] ELSE t[i - k]
    <2>1. /\ q \o t \in Seq(T) /\ Len(q \o t) = Len(q) + Len(t)
          /\ \A i \in 1..(Len(q) + Len(t)) : (q \o t)[i] = IF i <= Len(q) THEN q[i] ELSE t[i - Len(q)]
      BY ConcatProperties
    <2>. QED  BY <2>1
  <1>5. Range(q) = {q[i] : i \in 1..k} /\ Range(s) = {s[i] : i \in 1..(k + 3)}
    <2>1. Range(q) = {q[i] : i \in 1..Len(q)}  BY InRange
    <2>2. s \in Seq(T)  BY <1>4
    <2>3. Range(s) = {s[i] : i \in 1..Len(s)}  BY ONLY <2>2, InRange
    <2>. QED  BY <1>4, <2>1, <2>3
  <1>. HIDE DEF k, s
  <1>6. ASSUME NEW i \in 1..k PROVE s[i] = q[i] /\ i \in 1..(k + 3)  BY <1>2, <1>4
  <1>7. /\ k + 1 \in 1..(k + 3) /\ ~(k + 1 <= k) /\ (k + 1) - k = 1
        /\ k + 2 \in 1..(k + 3) /\ ~(k + 2 <= k) /\ (k + 2) - k = 2
        /\ k + 3 \in 1..(k + 3) /\ ~(k + 3 <= k) /\ (k + 3) - k = 3
    BY <1>2
  <1>8. s[k + 1] = a /\ s[k + 2] = b /\ s[k + 3] = c  BY <1>1, <1>4, <1>7
  <1>9. Range(s) \subseteq Range(q) \cup {a, b, c}
    <2>1. ASSUME NEW i \in 1..(k + 3) PROVE s[i] \in Range(q) \cup {a, b, c}
      <3>1. i \in 1..k \/ i = k + 1 \/ i = k + 2 \/ i = k + 3  BY <1>2
      <3>. QED  BY <1>5, <1>6, <1>8, <3>1
    <2>. QED  BY <1>5, <2>1
  <1>10. Range(q) \cup {a, b, c} \subseteq Range(s)
    <2>1. ASSUME NEW i \in 1..k PROVE q[i] \in Range(s)  BY <1>5, <1>6
    <2>2. {a, b, c} \subseteq Range(s)  BY <1>5, <1>7, <1>8
    <2>. QED  BY <1>5, <2>1, <2>2
  <1>. QED  BY <1>1, <1>2, <1>4, <1>6, <1>8, <1>9, <1>10 DEF k, s

LEMMA PacketIsAppended ==
    ASSUME Typed, AlignInv, NEW m \in Messages, UNCHANGED <<expect, current>>,
           Sends(m)
    PROVE  /\ stream' \in Seq(Pieces) /\ Len(stream') = Len(stream) + 3 /\ Len(stream) \in Nat
           /\ Coming' = Coming \cup {m} /\ AlignInv'
  <1>1. PICK a \in Pieces, b \in Pieces, c \in Pieces :
            /\ a = [part |-> "size", m |-> m] /\ b = [part |-> "type", m |-> m] /\ c = [part |-> "body", m |-> m]
            /\ stream' = stream \o <<a, b, c>>
    BY DEF Pieces, Sends
  <1>2. /\ a.part = "size" /\ a.m = m /\ b = [part |-> "type", m |-> a.m]
        /\ b.part = "type" /\ b.m = m /\ c = [part |-> "body", m |-> b.m] /\ c.part = "body" /\ c.m = m
    BY <1>1
  <1>3. PICK k \in Nat : k = Len(stream)  BY LenProperties DEF Typed
  <1>4. /\ stream' \in Seq(Pieces) /\ Len(stream') = k + 3
        /\ \A i \in 1..k : stream'[i] = stream[i]
        /\ stream'[k + 1] = a /\ stream'[k + 2] = b /\ stream'[k + 3] = c
        /\ Range(stream') = Range(stream) \cup {a, b, c}
    <2>1. stream \in Seq(Pieces) /\ stream' = stream \o <<a, b, c>>  BY <1>1 DEF Typed
    <2>2. PICK q, t : q = stream /\ t = <<a, b, c>>  OBVIOUS
    <2>3. /\ q \in Seq(Pieces) /\ stream' = q \o t
          /\ t \in Seq(Pieces) /\ Len(t) = 3 /\ t[1] = a /\ t[2] = b /\ t[3] = c
      BY <2>1, <2>2
    <2>4. /\ q \o t \in Seq(Pieces) /\ Len(q \o t) = Len(q) + 3
          /\ \A i \in 1..Len(q) : (q \o t)[i] = q[i]
          /\ (q \o t)[Len(q) + 1] = a /\ (q \o t)[Len(q) + 2] = b /\ (q \o t)[Len(q) + 3] = c
          /\ Range(q \o t) = Range(q) \cup {a, b, c}
      BY <2>3, RangeThreeMore
    <2>. QED  BY <1>3, <2>2, <2>3, <2>4
  <1>5. Coming' = Coming \cup {m}  BY <1>2, <1>4 DEF Coming
  <1>6. AlignInv'
    <2>1. stream = <<>> => k = 0  BY <1>3
    <2>2. stream # <<>> => 1 \in 1..k
      <3>1. stream # <<>> => Len(stream) # 0  BY EmptySeq DEF Typed
      <3>. QED  BY <1>3, <3>1
    <2>3. stream' # <<>>
      <3>1. Len(stream') # 0  BY <1>4
      <3>. QED  BY <3>1
    <2>4. stream'[1].part = expect' /\ (expect' = "body" => current' = stream'[1].m)
      <3>1. CASE stream = <<>>  BY <1>2, <1>4, <2>1, <3>1 DEF AlignInv
      <3>2. CASE stream # <<>>  BY <1>4, <2>2, <3>2 DEF AlignInv
      <3>. QED  BY <3>1, <3>2
    <2>5. ASSUME NEW i \in 1..(k + 3)
          PROVE  /\ stream'[i].part = "size" => i < k + 3 /\ stream'[i + 1] = [part |-> "type", m |-> stream'[i].m]
                 /\ stream'[i].part = "type" => i < k + 3 /\ stream'[i + 1] = [part |-> "body", m |-> stream'[i].m]
                 /\ stream'[i].part = "body" /\ i < k + 3 => stream'[i + 1].part = "size"
      <3>1. CASE i \in 1..k
        <4>1. stream'[i] = stream[i] /\ i < k + 3  BY <1>4, <3>1
        <4>2. /\ stream[i].part = "size" => i < k /\ stream[i + 1] = [part |-> "type", m |-> stream[i].m]
              /\ stream[i].part = "type" => i < k /\ stream[i + 1] = [part |-> "body", m |-> stream[i].m]
              /\ stream[i].part = "body" /\ i < k => stream[i + 1].part = "size"
          BY <1>3, <3>1 DEF AlignInv
        <4>3. CASE i < k
          <5>1. i + 1 \in 1..k  BY <3>1, <4>3
          <5>2. stream'[i + 1] = stream[i + 1]  BY <1>4, <5>1
          <5>. QED  BY <4>1, <4>2, <4>3, <5>2
        <4>4. CASE ~(i < k)
          <5>1. i + 1 = k + 1  BY <3>1, <4>4
          <5>2. stream'[i + 1] = a  BY <1>4, <5>1
          <5>. QED  BY <1>2, <4>1, <4>2, <4>4, <5>2
        <4>. QED  BY <4>3, <4>4
      <3>2. CASE i = k + 1
        <4>1. i + 1 = k + 2 /\ i < k + 3  BY <3>2
        <4>2. stream'[i] = a /\ stream'[i + 1] = b  BY <1>4, <3>2, <4>1
        <4>. QED  BY <1>2, <4>1, <4>2
      <3>3. CASE i = k + 2
        <4>1. i + 1 = k + 3 /\ i < k + 3  BY <3>3
        <4>2. stream'[i] = b /\ stream'[i + 1] = c  BY <1>4, <3>3, <4>1
        <4>. QED  BY <1>2, <4>1, <4>2
      <3>4. CASE i = k + 3
        <4>1. ~(i < k + 3) /\ stream'[i] = c  BY <1>4, <3>4
        <4>. QED  BY <1>2, <4>1
      <3>5. i \in 1..k \/ i = k + 1 \/ i = k + 2 \/ i = k + 3  OBVIOUS
      <3>. QED  BY <3>1, <3>2, <3>3, <3>4, <3>5
    <2>. QED  BY <1>4, <2>3, <2>4, <2>5 DEF AlignInv
  <1>. QED  BY <1>3, <1>4, <1>5, <1>6

\* The response to the next request, when it fits the call that waits for it.
LEMMA RequestIsAnswered ==
    ASSUME QueueAssumption, QueueInv, toServer # <<>>, toServer' = Tail(toServer), UNCHANGED queueClient,
           NEW r, r = Head(toServer), NEW m \in Messages, m.id = r.id,
           Sends(m),
           handles' \in Seq([read : Nat, open : BOOLEAN]), Len(handles) <= Len(handles'),
           \A h \in 1..Len(handles) : h # r.handle => handles'[h].read = handles[h].read,
           \A h \in 1..Len(handles') : handles'[h].open =>
                \/ h \in 1..Len(handles) /\ handles[h].open /\ ~(r.op = "CLOSE" /\ r.handle = h)
                \/ m.type = "HANDLE" /\ m.payload = h,
           Waiting /\ r = Asked =>
                /\ r.op = "INIT" => UNCHANGED handles
                /\ Sent' = {} => Fits(m)'
                /\ job.at = "READDIR" => handles'[job.handle].read <= Entries
    PROVE  QueueInv'
  <1>1. UNCHANGED <<job, jobs, timeouts, id, expect, current, responses, dir, listed, errnum, limits, answer, done>>
    BY DEF queueClient
  <1>2. /\ toServer' \in Seq(AllRequests) /\ Len(toServer') = Len(toServer) - 1 /\ Len(toServer) \in Nat \ {0}
        /\ Sent = Sent' \cup {r} /\ r = toServer[1] /\ r \in AllRequests
        /\ \A i \in 1..(Len(toServer) - 1) : toServer'[i] = toServer[i + 1]
    BY RangeTail DEF QueueInv, Typed, Sent
  <1>3. /\ stream' \in Seq(Pieces) /\ Len(stream') = Len(stream) + 3 /\ Len(stream) \in Nat
        /\ Coming' = Coming \cup {m} /\ AlignInv'
    BY <1>1, PacketIsAppended DEF QueueInv
  <1>4. Kept' = Kept /\ Waiting' = Waiting /\ Asked' = Asked /\ NoSession' = NoSession
    BY <1>1 DEF Kept, Waiting, Asked, Subject, NoSession
  <1>5. r.id <= id /\ r.id \in Nat /\ id \in Nat /\ \A x \in Coming \cup Kept : x.id < r.id /\ x.id \in Nat
    BY <1>2, QueuesHold DEF QueueInv, OrderInv, Typed, AllRequests, Messages
  <1>6. \A x \in Sent' : r.id < x.id /\ x.id <= id /\ x.id \in Nat
    <2>1. Sent' = {toServer'[i] : i \in 1..(Len(toServer) - 1)}
      <3>1. PICK q : q = toServer'  OBVIOUS
      <3>2. q \in Seq(AllRequests)  BY <1>2, <3>1
      <3>3. Range(q) = {q[i] : i \in 1..Len(q)}  BY ONLY <3>2, InRange
      <3>. QED  BY <1>2, <3>1, <3>3 DEF Sent
    <2>2. ASSUME NEW i \in 1..(Len(toServer) - 1) PROVE r.id < toServer'[i].id
      <3>1. 1 \in 1..Len(toServer) /\ i + 1 \in 1..Len(toServer) /\ 1 < i + 1  BY <1>2
      <3>2. toServer[1].id < toServer[i + 1].id  BY <3>1 DEF QueueInv, OrderInv
      <3>. QED  BY <1>2, <3>2
    <2>3. \A x \in Sent : x.id <= id /\ x.id \in Nat  BY QueuesHold DEF QueueInv, OrderInv, AllRequests
    <2>. QED  BY <1>2, <2>1, <2>2, <2>3
  <1>7. Waiting /\ r.id = id => r = Asked /\ Sent' = {}
    <2>1. r \in Sent  BY <1>2
    <2>2. r.id = id => \A x \in Sent' : FALSE  BY <1>5, <1>6
    <2>. QED  BY <2>1, <2>2 DEF QueueInv, OwnInv
  <1>8. Len(handles) \in Nat /\ Len(handles') \in Nat  BY LenProperties DEF QueueInv, Typed
  <1>9. Typed'  BY <1>1, <1>2, <1>3 DEF QueueInv, Typed
  <1>10. JobInv'
    <2>1. job.handle \in Nat  BY DEF QueueInv, Typed, JobRecords
    <2>. QED  BY <1>1, <1>8, <2>1 DEF QueueInv, JobInv, Place
  <1>11. WeightInv'
    BY <1>1, <1>2, <1>3, <1>4, LenProperties DEF QueueInv, WeightInv, Passed, Typed
  <1>12. OrderInv'
    <2>1. ASSUME NEW i \in 1..Len(toServer'), NEW j \in 1..Len(toServer'), i < j
          PROVE  toServer'[i].id < toServer'[j].id
      <3>1. i + 1 \in 1..Len(toServer) /\ j + 1 \in 1..Len(toServer) /\ i + 1 < j + 1  BY <1>2, <2>1
      <3>. QED  BY <1>2, <3>1 DEF QueueInv, OrderInv
    <2>2. ASSUME NEW x \in Sent'
          PROVE  /\ x.id <= id /\ x.handle <= Len(handles') /\ (x.op \in HandleCalls => x.handle # 0)
                 /\ \A y \in Coming' \cup Kept : y.id < x.id
      <3>1. x \in Sent /\ x.handle \in Nat  BY <1>2, QueuesHold DEF QueueInv, AllRequests
      <3>2. x.handle <= Len(handles')  BY <1>8, <3>1 DEF QueueInv, OrderInv
      <3>3. \A y \in Coming \cup Kept : y.id < x.id  BY <3>1 DEF QueueInv, OrderInv
      <3>4. m.id < x.id  BY <1>6
      <3>. QED  BY <1>3, <1>6, <3>1, <3>2, <3>3, <3>4 DEF QueueInv, OrderInv
    <2>3. \A y \in Coming' \cup Kept : y.id <= id  BY <1>3, <1>5 DEF QueueInv, OrderInv
    <2>. QED  BY <1>1, <1>4, <2>1, <2>2, <2>3 DEF QueueInv, OrderInv
  <1>13. OwnInv'
    <2>1. SUFFICES ASSUME Waiting PROVE OwnInv'  BY <1>4 DEF OwnInv
    <2>2. \A x \in Sent' : x.id = id => x = Asked  BY <1>2, <2>1 DEF QueueInv, OwnInv
    <2>3. \A y \in Coming' \cup Kept : y.id = id => Fits(y)'  BY <1>3, <1>5, <1>7, <2>1
    <2>4. \E x \in Sent' \cup Coming' \cup Kept : x.id = id
      BY <1>2, <1>3, <2>1 DEF QueueInv, OwnInv
    <2>5. \A i, j \in 1..Len(responses) : responses[i].id = id /\ responses[j].id = id => i = j
      BY <2>1 DEF QueueInv, OwnInv
    <2>. QED  BY <1>1, <1>4, <2>2, <2>3, <2>4, <2>5 DEF OwnInv
  <1>14. InitInv'
    <2>1. ~NoSession /\ ~(job.at = "INIT" /\ job.call = "none")  BY DEF QueueInv, InitInv
    <2>2. job.at = "INIT" /\ job.call # "failed" => UNCHANGED handles
      <3>1. SUFFICES ASSUME job.at = "INIT", job.call # "failed" PROVE UNCHANGED handles  OBVIOUS
      <3>2. Waiting  BY <2>1, <3>1 DEF QueueInv, Typed, JobRecords, Waiting
      <3>3. id = 0  BY <3>1 DEF QueueInv, InitInv
      <3>4. r = Asked /\ r.op = "INIT"  BY <1>5, <1>7, <3>1, <3>2, <3>3 DEF Asked
      <3>. QED  BY <3>2, <3>4
    <2>3. Sent' \subseteq Sent /\ (r.id # 0 => m.id # 0)  BY <1>2
    <2>. QED  BY <1>1, <1>2, <1>3, <1>4, <2>1, <2>2, <2>3 DEF QueueInv, InitInv
  <1>15. ListInv'
    <2>1. SUFFICES ASSUME job.kind = "list", job.at = "READDIR", job.call # "failed"
          PROVE /\ handles'[job.handle].read <= Entries
                /\ job.call = "none" => listed + dir.count = handles'[job.handle].read
                /\ Waiting => \A x \in Sent' : x.id = id => listed = handles'[job.handle].read
      BY <1>1, <1>2, <1>4 DEF QueueInv, ListInv
    <2>2. /\ handles[job.handle].read <= Entries
          /\ job.call = "none" => listed + dir.count = handles[job.handle].read
          /\ Waiting => \A x \in Sent : x.id = id => listed = handles[job.handle].read
          /\ \A x \in Sent : x.handle = job.handle => Waiting /\ x.id = id
      BY <2>1 DEF QueueInv, ListInv
    <2>3. job.handle \in 1..Len(handles)
      <3>1. job.handle # 0 /\ job.handle <= Len(handles) /\ job.handle \in Nat
        BY <2>1 DEF QueueInv, JobInv, HandleCalls, Typed, JobRecords
      <3>. QED  BY <1>8, <3>1
    <2>4. CASE r.handle = job.handle
      <3>1. Waiting /\ r = Asked /\ Sent' = {}  BY <1>2, <1>7, <2>2, <2>4
      <3>. QED  BY <2>1, <3>1 DEF Waiting
    <2>5. CASE r.handle # job.handle
      <3>1. handles'[job.handle].read = handles[job.handle].read  BY <2>3, <2>5
      <3>. QED  BY <1>2, <2>2, <3>1
    <2>. QED  BY <2>4, <2>5
  <1>16. KnownInv'
    <2>1. ASSUME NEW h \in 1..Len(handles'), handles'[h].open
          PROVE  \/ Held(h)
                 \/ \E x \in Sent' : x.op = "CLOSE" /\ x.handle = h
                 \/ \E y \in Coming' \cup Kept : y.type = "HANDLE" /\ y.payload = h
      <3>1. CASE h \in 1..Len(handles) /\ handles[h].open /\ ~(r.op = "CLOSE" /\ r.handle = h)
        BY <1>2, <1>3, <3>1 DEF QueueInv, KnownInv
      <3>2. CASE m.type = "HANDLE" /\ m.payload = h  BY <1>3, <3>2
      <3>. QED  BY <2>1, <3>1, <3>2
    <2>2. \A h : Held(h)' = Held(h)  BY <1>1 DEF Held
    <2>. QED  BY <1>4, <2>1, <2>2 DEF KnownInv
  <1>17. (OwnAnswers /\ ListIsComplete /\ InitLeavesNoError)'
    BY <1>1 DEF QueueInv, OwnAnswers, ListIsComplete, InitLeavesNoError
  <1>. QED
    BY <1>3, <1>9, <1>10, <1>11, <1>12, <1>13, <1>14, <1>15, <1>16, <1>17 DEF QueueInv

LEMMA RequestIsNext ==
    ASSUME QueueInv, toServer # <<>>
    PROVE  /\ Head(toServer) \in AllRequests /\ Head(toServer) \in Sent
           /\ Head(toServer).handle \in 0..Len(handles) /\ Len(handles) \in Nat
           /\ Head(toServer).op \in HandleCalls => Head(toServer).handle \in 1..Len(handles)
  <1>1. Head(toServer) \in AllRequests /\ Head(toServer) \in Sent
    BY RangeTail DEF QueueInv, Typed, Sent
  <1>2. /\ Head(toServer).handle <= Len(handles) /\ Head(toServer).handle \in Nat
        /\ Head(toServer).op \in HandleCalls => Head(toServer).handle # 0
    BY <1>1 DEF QueueInv, OrderInv, AllRequests
  <1>3. Len(handles) \in Nat  BY LenProperties DEF QueueInv, Typed
  <1>. QED  BY <1>1, <1>2, <1>3

\* What the call that waits asked for, and what it has of its directory.
LEMMA AskedIsNext ==
    ASSUME QueueInv, Waiting, NEW r \in Sent, r = Asked
    PROVE  /\ r.op = job.at /\ r.handle = job.handle /\ (r.op # "INIT" => r.about = Subject(job.at))
           /\ job.at = "READDIR" =>
                listed = handles[job.handle].read /\ handles[job.handle].read <= Entries
  <1>1. r.op = job.at /\ r.handle = job.handle /\ r.id = id /\ (r.op # "INIT" => r.about = Subject(job.at))
    BY DEF Asked
  <1>2. job.at = "READDIR" => job.kind = "list" /\ job.call # "failed"
    BY DEF QueueInv, JobInv, Place, Idle, Changes, Questions, Waiting
  <1>3. job.at = "READDIR" =>
            listed = handles[job.handle].read /\ handles[job.handle].read <= Entries
    BY <1>1, <1>2 DEF QueueInv, ListInv
  <1>. QED  BY <1>1, <1>3

LEMMA PlainResponse ==
    ASSUME QueueAssumption, QueueInv, toServer # <<>>, toServer' = Tail(toServer), UNCHANGED <<queueClient, handles>>,
           NEW r, r = Head(toServer), r.op # "CLOSE", NEW m \in Messages, m.id = r.id,
           Sends(m),
           \/ m.type = "odd"
           \/ m.type = "STATUS" /\ (r.op = "READDIR" /\ m.payload = "EOF" => handles[r.handle].read = Entries)
           \/ m.type = "NAME" /\ r.op = "READDIR" /\ m.payload = 0
           \/ m.type = "NAME" /\ r.op \in {"READLINK", "REALPATH"} /\ m.payload = r.about
           \/ m.type = "ATTRS" /\ r.op \in {"STAT", "LSTAT"} /\ m.payload = r.about
           \/ m.type = "REPLY" /\ r.op \in {"STATVFS", "LIMITS"} /\ m.payload = r.about
           \/ m.type = "VERSION" /\ r.op = "INIT"
    PROVE  QueueInv'
  <1>1. r \in Sent /\ Len(handles) \in Nat  BY RequestIsNext
  <1>2. ASSUME Waiting, r = Asked
        PROVE  /\ r.op = "INIT" => UNCHANGED handles
               /\ Sent' = {} => Fits(m)'
               /\ job.at = "READDIR" => handles'[job.handle].read <= Entries
    <2>1. /\ r.op = job.at /\ r.handle = job.handle /\ (r.op # "INIT" => r.about = Subject(job.at))
          /\ job.at = "READDIR" => listed = handles[job.handle].read /\ handles[job.handle].read <= Entries
      BY <1>1, <1>2, AskedIsNext
    <2>2. job.at = "READDIR" => listed \in Nat  BY DEF QueueInv, Typed, QueueAssumption
    <2>3. Fits(m)' = Fits(m) \/ m.type = "HANDLE"
      BY DEF Fits, Subject, queueClient
    <2>4. m.type # "HANDLE" /\ Fits(m)
      BY <2>1, <2>2 DEF Fits
    <2>. QED  BY <2>1, <2>3, <2>4
  <1>3. \A h \in 1..Len(handles') : handles'[h].open =>
            \/ h \in 1..Len(handles) /\ handles[h].open /\ ~(r.op = "CLOSE" /\ r.handle = h)
            \/ m.type = "HANDLE" /\ m.payload = h
    OBVIOUS
  <1>4. /\ handles' \in Seq([read : Nat, open : BOOLEAN]) /\ Len(handles) <= Len(handles')
        /\ \A h \in 1..Len(handles) : h # r.handle => handles'[h].read = handles[h].read
    BY <1>1 DEF QueueInv, Typed
  <1>. QED  BY <1>2, <1>3, <1>4, RequestIsAnswered

\* The responses that change what the server has open.
LEMMA OpenResponse ==
    ASSUME QueueAssumption, QueueInv, toServer # <<>>, toServer' = Tail(toServer), UNCHANGED queueClient,
           NEW r, r = Head(toServer), r.op \in {"OPEN", "OPENDIR"}, NEW m \in Messages, m.id = r.id,
           Sends(m),
           handles' = Append(handles, [read |-> 0, open |-> TRUE]),
           m.type = "HANDLE", m.payload = Len(handles) + 1
    PROVE  QueueInv'
  <1>1. r \in Sent /\ Len(handles) \in Nat  BY RequestIsNext
  <1>2. /\ handles' \in Seq([read : Nat, open : BOOLEAN]) /\ Len(handles') = Len(handles) + 1
        /\ \A h \in 1..Len(handles) : handles'[h] = handles[h]
        /\ handles'[Len(handles) + 1] = [read |-> 0, open |-> TRUE]
    <2>1. handles \in Seq([read : Nat, open : BOOLEAN])  BY DEF QueueInv, Typed
    <2>. QED  BY <2>1, AppendProperties
  <1>3. ASSUME Waiting, r = Asked
        PROVE  /\ r.op = "INIT" => UNCHANGED handles
               /\ Sent' = {} => Fits(m)'
               /\ job.at = "READDIR" => handles'[job.handle].read <= Entries
    <2>1. r.op = job.at  BY <1>1, <1>3, AskedIsNext
    <2>2. job.at' = job.at /\ Len(handles) + 1 \in 1..Len(handles')  BY <1>1, <1>2 DEF queueClient
    <2>3. handles'[m.payload].read = 0  BY <1>2
    <2>. QED  BY <2>1, <2>2, <2>3 DEF Fits
  <1>4. ASSUME NEW h \in 1..Len(handles'), handles'[h].open
        PROVE  \/ h \in 1..Len(handles) /\ handles[h].open /\ ~(r.op = "CLOSE" /\ r.handle = h)
               \/ m.type = "HANDLE" /\ m.payload = h
    <2>1. h \in 1..Len(handles) \/ h = Len(handles) + 1  BY <1>1, <1>2
    <2>. QED  BY <1>2, <1>4, <2>1
  <1>5. Len(handles) <= Len(handles') /\ \A h \in 1..Len(handles) : h # r.handle => handles'[h].read = handles[h].read
    BY <1>1, <1>2
  <1>. QED  BY <1>2, <1>3, <1>4, <1>5, RequestIsAnswered

LEMMA HandleIsChanged ==
    ASSUME Typed, NEW k \in 1..Len(handles), NEW e \in [read : Nat, open : BOOLEAN],
           handles' = [handles EXCEPT ![k] = e]
    PROVE  /\ handles' \in Seq([read : Nat, open : BOOLEAN]) /\ Len(handles') = Len(handles)
           /\ handles'[k] = e
           /\ \A h \in 1..Len(handles) : h # k => handles'[h] = handles[h]
  <1>1. handles \in Seq([read : Nat, open : BOOLEAN])  BY DEF Typed
  <1>2. /\ [handles EXCEPT ![k] = e] \in Seq([read : Nat, open : BOOLEAN])
        /\ Len([handles EXCEPT ![k] = e]) = Len(handles)
        /\ \A h \in 1..Len(handles) : [handles EXCEPT ![k] = e][h] = IF h = k THEN e ELSE handles[h]
    BY <1>1, ExceptSeq
  <1>. QED  BY <1>2

LEMMA ReadResponse ==
    ASSUME QueueAssumption, QueueInv, toServer # <<>>, toServer' = Tail(toServer), UNCHANGED queueClient,
           NEW r, r = Head(toServer), NEW m \in Messages, m.id = r.id,
           Sends(m),
           handles' \in Seq([read : Nat, open : BOOLEAN]), Len(handles') = Len(handles),
           \A h \in 1..Len(handles) : h # r.handle => handles'[h] = handles[h],
           handles'[r.handle].open = handles[r.handle].open,
           \/ /\ r.op = "READDIR" /\ m.type = "NAME" /\ m.payload \in Nat
              /\ handles'[r.handle].read = handles[r.handle].read + m.payload /\ handles'[r.handle].read <= Entries
           \/ r.op = "READ" /\ m.type = "DATA" /\ m.payload = r.about
    PROVE  QueueInv'
  <1>1. r \in Sent /\ Len(handles) \in Nat /\ r.handle \in 1..Len(handles)
    BY RequestIsNext DEF HandleCalls
  <1>2. ASSUME Waiting, r = Asked
        PROVE  /\ r.op = "INIT" => UNCHANGED handles
               /\ Sent' = {} => Fits(m)'
               /\ job.at = "READDIR" => handles'[job.handle].read <= Entries
    <2>1. /\ r.op = job.at /\ r.handle = job.handle /\ (r.op # "INIT" => r.about = Subject(job.at))
          /\ job.at = "READDIR" => listed = handles[job.handle].read
      BY <1>1, <1>2, AskedIsNext
    <2>2. UNCHANGED <<job, listed>>  BY DEF queueClient
    <2>3. job.at = "READDIR" => listed + m.payload = handles'[job.handle].read  BY <2>1
    <2>4. Fits(m)'  BY <2>1, <2>2, <2>3 DEF Fits, Subject
    <2>. QED  BY <2>1, <2>4
  <1>3. ASSUME NEW h \in 1..Len(handles'), handles'[h].open
        PROVE  \/ h \in 1..Len(handles) /\ handles[h].open /\ ~(r.op = "CLOSE" /\ r.handle = h)
               \/ m.type = "HANDLE" /\ m.payload = h
    BY <1>3
  <1>4. /\ handles' \in Seq([read : Nat, open : BOOLEAN]) /\ Len(handles) <= Len(handles')
        /\ \A h \in 1..Len(handles) : h # r.handle => handles'[h].read = handles[h].read
    BY <1>1
  <1>. QED  BY <1>2, <1>3, <1>4, RequestIsAnswered

LEMMA CloseResponse ==
    ASSUME QueueAssumption, QueueInv, toServer # <<>>, toServer' = Tail(toServer), UNCHANGED queueClient,
           NEW r, r = Head(toServer), r.op = "CLOSE", NEW m \in Messages, m.id = r.id,
           Sends(m),
           handles' \in Seq([read : Nat, open : BOOLEAN]), Len(handles') = Len(handles),
           \A h \in 1..Len(handles) : h # r.handle => handles'[h] = handles[h],
           handles'[r.handle].open = FALSE, m.type = "STATUS"
    PROVE  QueueInv'
  <1>1. r \in Sent /\ Len(handles) \in Nat /\ r.handle \in 1..Len(handles)
    BY RequestIsNext DEF HandleCalls
  <1>2. ASSUME Waiting, r = Asked
        PROVE  /\ r.op = "INIT" => UNCHANGED handles
               /\ Sent' = {} => Fits(m)'
               /\ job.at = "READDIR" => handles'[job.handle].read <= Entries
    <2>1. r.op = job.at  BY <1>1, <1>2, AskedIsNext
    <2>2. UNCHANGED job  BY DEF queueClient
    <2>. QED  BY <2>1, <2>2 DEF Fits
  <1>3. ASSUME NEW h \in 1..Len(handles'), handles'[h].open
        PROVE  \/ h \in 1..Len(handles) /\ handles[h].open /\ ~(r.op = "CLOSE" /\ r.handle = h)
               \/ m.type = "HANDLE" /\ m.payload = h
    BY <1>3
  <1>4. /\ handles' \in Seq([read : Nat, open : BOOLEAN]) /\ Len(handles) <= Len(handles')
        /\ \A h \in 1..Len(handles) : h # r.handle => handles'[h].read = handles[h].read
    BY <1>1
  <1>. QED  BY <1>2, <1>3, <1>4, RequestIsAnswered

LEMMA ResponseIsMessage ==
    ASSUME NEW type \in Types, NEW n \in Nat, NEW payload \in Payloads, Respond(type, n, payload),
           type = "STATUS" => payload \in Statuses
    PROVE  \E m \in Messages :
            /\ m.type = type /\ m.id = n /\ m.payload = payload
            /\ Sends(m)
  <1>. DEFINE m == [type |-> type, id |-> n, payload |-> payload]
  <1>1. m \in Messages /\ m.type = type /\ m.id = n /\ m.payload = payload  BY DEF Messages
  <1>2. Sends(m)
    BY DEF Respond, Packet, Sends
  <1>. QED  BY <1>1, <1>2

LEMMA ServerHasAnswered ==
    ASSUME QueueAssumption, QueueInv, ServerAnswers
    PROVE  QueueInv'
  <1>1. toServer # <<>> /\ toServer' = Tail(toServer) /\ UNCHANGED queueClient  BY DEF ServerAnswers
  <1>2. PICK r : r = Head(toServer)  OBVIOUS
  <1>3. /\ r \in AllRequests /\ r \in Sent /\ Len(handles) \in Nat /\ r.id \in Nat /\ r.about \in Payloads
        /\ r.op \in HandleCalls => r.handle \in 1..Len(handles)
    BY <1>1, <1>2, RequestIsNext DEF AllRequests, Payloads
  <1>4. handles \in Seq([read : Nat, open : BOOLEAN])  BY DEF QueueInv, Typed
  <1>5. Statuses \cup {"limits", "plain", "none", 0} \subseteq Payloads  BY DEF Payloads
  <1>6. CASE r.op \in {"OPEN", "OPENDIR"} /\ handles' = Append(handles, [read |-> 0, open |-> TRUE])
             /\ Respond("HANDLE", r.id, Len(handles) + 1)
    <2>1. Len(handles) + 1 \in Payloads /\ "HANDLE" \in Types  BY <1>3 DEF Payloads, Types
    <2>2. PICK m \in Messages :
            /\ m.type = "HANDLE" /\ m.id = r.id /\ m.payload = Len(handles) + 1
            /\ Sends(m)
      BY <1>3, <1>6, <2>1, ResponseIsMessage
    <2>. QED  BY <1>1, <1>2, <1>6, <2>2, OpenResponse
  <1>7. ASSUME NEW k \in Nat, handles' = [handles EXCEPT ![r.handle].read = @ + k],
               \/ r.op = "READDIR" /\ Respond("NAME", r.id, k) /\ handles[r.handle].read + k <= Entries
               \/ r.op = "READ" /\ Respond("DATA", r.id, r.about)
        PROVE  QueueInv'
    <2>1. r.handle \in 1..Len(handles) /\ handles[r.handle] \in [read : Nat, open : BOOLEAN]
      BY <1>3, <1>4, <1>7, ElementOfSeq DEF HandleCalls
    <2>2. PICK e \in [read : Nat, open : BOOLEAN] :
            /\ e.read = handles[r.handle].read + k /\ e.open = handles[r.handle].open
            /\ handles' = [handles EXCEPT ![r.handle] = e]
      <3>1. [handles[r.handle] EXCEPT !.read = @ + k] \in [read : Nat, open : BOOLEAN]  BY <2>1
      <3>. QED  BY <1>7, <2>1, <3>1
    <2>3. /\ handles' \in Seq([read : Nat, open : BOOLEAN]) /\ Len(handles') = Len(handles)
          /\ \A h \in 1..Len(handles) : h # r.handle => handles'[h] = handles[h]
          /\ handles'[r.handle].read = handles[r.handle].read + k /\ handles'[r.handle].open = handles[r.handle].open
      <3>1. /\ handles' \in Seq([read : Nat, open : BOOLEAN]) /\ Len(handles') = Len(handles)
            /\ handles'[r.handle] = e /\ \A h \in 1..Len(handles) : h # r.handle => handles'[h] = handles[h]
        BY ONLY QueueInv, <2>1, <2>2, HandleIsChanged DEF QueueInv
      <3>2. handles'[r.handle].read = handles[r.handle].read + k /\ handles'[r.handle].open = handles[r.handle].open
        BY ONLY <2>2, <3>1
      <3>. QED  BY ONLY <3>1, <3>2
    <2>4. CASE r.op = "READDIR" /\ Respond("NAME", r.id, k) /\ handles[r.handle].read + k <= Entries
      <3>1. k \in Payloads /\ "NAME" \in Types  BY DEF Payloads, Types
      <3>2. PICK m \in Messages :
            /\ m.type = "NAME" /\ m.id = r.id /\ m.payload = k
            /\ Sends(m)
        BY <1>3, <2>4, <3>1, ResponseIsMessage
      <3>3. \/ /\ r.op = "READDIR" /\ m.type = "NAME" /\ m.payload \in Nat
               /\ handles'[r.handle].read = handles[r.handle].read + m.payload
               /\ handles'[r.handle].read <= Entries
            \/ r.op = "READ" /\ m.type = "DATA" /\ m.payload = r.about
        BY <2>3, <2>4, <3>2
      <3>4. /\ handles' \in Seq([read : Nat, open : BOOLEAN]) /\ Len(handles') = Len(handles)
            /\ \A h \in 1..Len(handles) : h # r.handle => handles'[h] = handles[h]
            /\ handles'[r.handle].open = handles[r.handle].open
        BY <2>3
      <3>5. Sends(m) /\ m.id = r.id /\ m \in Messages  BY <3>2
      <3>. QED  BY ONLY QueueAssumption, QueueInv, <1>1, <1>2, <3>3, <3>4, <3>5, ReadResponse, SMTT(60)
    <2>5. CASE r.op = "READ" /\ Respond("DATA", r.id, r.about)
      <3>1. "DATA" \in Types  BY DEF Types
      <3>2. PICK m \in Messages :
            /\ m.type = "DATA" /\ m.id = r.id /\ m.payload = r.about
            /\ Sends(m)
        BY <1>3, <2>5, <3>1, ResponseIsMessage
      <3>3. \/ /\ r.op = "READDIR" /\ m.type = "NAME" /\ m.payload \in Nat
               /\ handles'[r.handle].read = handles[r.handle].read + m.payload
               /\ handles'[r.handle].read <= Entries
            \/ r.op = "READ" /\ m.type = "DATA" /\ m.payload = r.about
        BY <2>3, <2>5, <3>2
      <3>4. /\ handles' \in Seq([read : Nat, open : BOOLEAN]) /\ Len(handles') = Len(handles)
            /\ \A h \in 1..Len(handles) : h # r.handle => handles'[h] = handles[h]
            /\ handles'[r.handle].open = handles[r.handle].open
        BY <2>3
      <3>5. Sends(m) /\ m.id = r.id /\ m \in Messages  BY <3>2
      <3>. QED  BY ONLY QueueAssumption, QueueInv, <1>1, <1>2, <3>3, <3>4, <3>5, ReadResponse, SMTT(60)
    <2>. QED  BY <1>7, <2>4, <2>5
  <1>8. CASE r.op = "CLOSE" /\ handles' = [handles EXCEPT ![r.handle].open = FALSE] /\ Respond("STATUS", r.id, "OK")
    <2>1. r.handle \in 1..Len(handles) /\ handles[r.handle] \in [read : Nat, open : BOOLEAN]
      BY <1>3, <1>4, <1>8, ElementOfSeq DEF HandleCalls
    <2>2. PICK e \in [read : Nat, open : BOOLEAN] :
            /\ e.read = handles[r.handle].read /\ e.open = FALSE
            /\ handles' = [handles EXCEPT ![r.handle] = e]
      <3>1. [handles[r.handle] EXCEPT !.open = FALSE] \in [read : Nat, open : BOOLEAN]  BY <2>1
      <3>. QED  BY <1>8, <2>1, <3>1
    <2>3. /\ handles' \in Seq([read : Nat, open : BOOLEAN]) /\ Len(handles') = Len(handles)
          /\ \A h \in 1..Len(handles) : h # r.handle => handles'[h] = handles[h]
          /\ handles'[r.handle].open = FALSE
      <3>1. /\ handles' \in Seq([read : Nat, open : BOOLEAN]) /\ Len(handles') = Len(handles)
            /\ handles'[r.handle] = e /\ \A h \in 1..Len(handles) : h # r.handle => handles'[h] = handles[h]
        BY ONLY QueueInv, <2>1, <2>2, HandleIsChanged DEF QueueInv
      <3>2. handles'[r.handle].open = FALSE
        BY ONLY <2>2, <3>1
      <3>. QED  BY ONLY <3>1, <3>2
    <2>4. "STATUS" \in Types /\ "OK" \in Statuses  BY DEF Types, Statuses
    <2>5. PICK m \in Messages :
            /\ m.type = "STATUS" /\ m.id = r.id /\ m.payload = "OK"
            /\ Sends(m)
      BY <1>3, <1>5, <1>8, <2>4, ResponseIsMessage
    <2>6. r.op = "CLOSE"  BY <1>8
    <2>. QED  BY ONLY QueueAssumption, QueueInv, <1>1, <1>2, <2>3, <2>5, <2>6, CloseResponse
  <1>9. ASSUME NEW type \in Types, NEW payload \in Payloads, Respond(type, r.id, payload), UNCHANGED handles,
               type = "STATUS" => payload \in Statuses, r.op # "CLOSE",
               \/ type = "odd"
               \/ type = "STATUS" /\ (r.op = "READDIR" /\ payload = "EOF" => handles[r.handle].read = Entries)
               \/ type = "NAME" /\ r.op = "READDIR" /\ payload = 0
               \/ type = "NAME" /\ r.op \in {"READLINK", "REALPATH"} /\ payload = r.about
               \/ type = "ATTRS" /\ r.op \in {"STAT", "LSTAT"} /\ payload = r.about
               \/ type = "REPLY" /\ r.op \in {"STATVFS", "LIMITS"} /\ payload = r.about
               \/ type = "VERSION" /\ r.op = "INIT"
        PROVE  QueueInv'
    <2>1. PICK m \in Messages :
            /\ m.type = type /\ m.id = r.id /\ m.payload = payload
            /\ Sends(m)
      BY <1>3, <1>9, ResponseIsMessage
    <2>2. \/ m.type = "odd"
          \/ m.type = "STATUS" /\ (r.op = "READDIR" /\ m.payload = "EOF" => handles[r.handle].read = Entries)
          \/ m.type = "NAME" /\ r.op = "READDIR" /\ m.payload = 0
          \/ m.type = "NAME" /\ r.op \in {"READLINK", "REALPATH"} /\ m.payload = r.about
          \/ m.type = "ATTRS" /\ r.op \in {"STAT", "LSTAT"} /\ m.payload = r.about
          \/ m.type = "REPLY" /\ r.op \in {"STATVFS", "LIMITS"} /\ m.payload = r.about
          \/ m.type = "VERSION" /\ r.op = "INIT"
      BY <1>9, <2>1
    <2>. QED  BY <1>1, <1>2, <1>9, <2>1, <2>2, PlainResponse
  <1>10. {"STATUS", "HANDLE", "NAME", "ATTRS", "REPLY", "VERSION", "odd"} \subseteq Types
         /\ {"OK", "EOF", "FAILURE"} \subseteq Statuses
    BY DEF Types, Statuses
  <1>11. ASSUME r.op = "READDIR", NEW k \in Names(r.handle), Respond("NAME", r.id, k),
                handles' = [handles EXCEPT ![r.handle].read = @ + k]
         PROVE  QueueInv'
    <2>1. handles[r.handle] \in [read : Nat, open : BOOLEAN]
      BY <1>3, <1>4, <1>11, ElementOfSeq DEF HandleCalls
    <2>2. k \in Nat /\ handles[r.handle].read + k <= Entries
      BY <2>1 DEF Names, QueueAssumption
    <2>. QED  BY <1>7, <1>11, <2>2
  <1>12. CASE r.op = "READ" /\ Respond("DATA", r.id, r.about) /\ handles' = [handles EXCEPT ![r.handle].read = @ + 1]
    BY <1>7, <1>12
  <1>13. CASE /\ r.op = "READDIR" /\ handles[r.handle].read = Entries
              /\ Respond("STATUS", r.id, "EOF") /\ UNCHANGED handles
    BY <1>5, <1>9, <1>10, <1>13
  <1>14. CASE r.op = "READDIR" /\ Respond("NAME", r.id, 0) /\ UNCHANGED handles
    BY <1>5, <1>9, <1>10, <1>14
  <1>15. CASE r.op = "READ" /\ Respond("STATUS", r.id, "EOF") /\ UNCHANGED handles
    BY <1>5, <1>9, <1>10, <1>15
  <1>16. CASE r.op \in {"STAT", "LSTAT"} /\ Respond("ATTRS", r.id, r.about) /\ UNCHANGED handles
    BY <1>3, <1>9, <1>10, <1>16
  <1>17. CASE r.op \in Changes \cup {"MKDIR"} /\ Respond("STATUS", r.id, "OK") /\ UNCHANGED handles
    BY <1>5, <1>9, <1>10, <1>17 DEF Changes
  <1>18. ASSUME r.op = "INIT", NEW v \in {"limits", "plain"}, Respond("VERSION", r.id, v), UNCHANGED handles
         PROVE  QueueInv'
    BY <1>5, <1>9, <1>10, <1>18
  <1>19. CASE r.op \in {"READLINK", "REALPATH"} /\ Respond("NAME", r.id, r.about) /\ UNCHANGED handles
    BY <1>3, <1>9, <1>10, <1>19
  <1>20. CASE r.op \in {"STATVFS", "LIMITS"} /\ Respond("REPLY", r.id, r.about) /\ UNCHANGED handles
    BY <1>3, <1>9, <1>10, <1>20
  <1>21. CASE r.op \notin {"CLOSE", "INIT"} /\ Respond("STATUS", r.id, "FAILURE") /\ UNCHANGED handles
    BY <1>5, <1>9, <1>10, <1>21
  <1>22. CASE /\ r.op \in {"STAT", "READ", "LIMITS", "REALPATH", "INIT"}
              /\ Respond("odd", r.id, "none") /\ UNCHANGED handles
    BY <1>5, <1>9, <1>10, <1>22
  <1>. HIDE DEF Respond
  <1>. QED
    BY <1>2, <1>6, <1>8, <1>11, <1>12, <1>13, <1>14, <1>15, <1>16, <1>17, <1>18, <1>19, <1>20, <1>21, <1>22
    DEF ServerAnswers

-----------------------------------------------------------------------------
(***************************************************************************)
(* The invariant, and what it says.                                        *)
(***************************************************************************)

LEMMA QueueStarts == QueueAssumption /\ QueueInit => QueueInv
  <1>. SUFFICES ASSUME QueueAssumption, QueueInit PROVE QueueInv  OBVIOUS
  <1>1. /\ job = Idle /\ jobs = 0 /\ timeouts = 0 /\ id = 0 /\ expect = "size" /\ current = NoMessage
        /\ responses = <<>> /\ dir = Closed /\ listed = 0 /\ errnum = "OK" /\ limits = "none"
        /\ answer = [op |-> "none", about |-> Nothing, payload |-> Nothing]
        /\ done = [kind |-> "none", ok |-> FALSE, listed |-> 0]
        /\ toServer = <<>> /\ stream = <<>> /\ handles = <<>>
    BY DEF QueueInit
  <1>2. /\ job.kind = "none" /\ job.handle = 0 /\ job.at = "idle" /\ job.call = "none" /\ job.failed = FALSE
        /\ job \in JobRecords /\ ~Waiting
    BY <1>1 DEF Idle, NoHandle, JobRecords, Waiting
  <1>3. Sent = {} /\ Coming = {} /\ Kept = {}  BY <1>1, RangeEmpty DEF Sent, Coming, Kept
  <1>4. Len(toServer) = 0 /\ Len(stream) = 0 /\ Len(responses) = 0 /\ Len(handles) = 0  BY <1>1
  <1>5. Typed
    <2>1. current \in Messages  BY <1>1 DEF NoMessage, Messages, Types, Payloads
    <2>2. dir \in [count : 0..Entries, eof : BOOLEAN]  BY <1>1 DEF Closed, QueueAssumption
    <2>3. /\ toServer \in Seq(AllRequests) /\ stream \in Seq(Pieces) /\ responses \in Seq(Messages)
          /\ handles \in Seq([read : Nat, open : BOOLEAN])
      BY <1>1
    <2>. QED  BY <1>1, <1>2, <2>1, <2>2, <2>3 DEF Typed, QueueAssumption, Statuses
  <1>6. JobInv  BY <1>1, <1>2, <1>4 DEF JobInv, Place, HandleCalls
  <1>7. AlignInv /\ WeightInv  BY <1>1, <1>2, <1>4 DEF AlignInv, WeightInv, Passed
  <1>8. OrderInv /\ OwnInv  BY <1>2, <1>3, <1>4 DEF OrderInv, OwnInv
  <1>9. InitInv /\ ListInv /\ KnownInv  BY <1>1, <1>2, <1>3, <1>4 DEF InitInv, ListInv, KnownInv
  <1>10. OwnAnswers /\ ListIsComplete /\ InitLeavesNoError
    BY <1>1, <1>2 DEF OwnAnswers, ListIsComplete, InitLeavesNoError
  <1>. QED  BY <1>5, <1>6, <1>7, <1>8, <1>9, <1>10 DEF QueueInv

LEMMA QueueSteps ==
    ASSUME QueueAssumption, ~TornReads, QueueInv, [QueueNext]_queueVars
    PROVE  QueueInv'
  <1>1. CASE StartsSession  BY <1>1, SessionStarts
  <1>2. CASE Start  BY <1>2, JobStarts
  <1>3. CASE Timeout  BY <1>3, WaitFails
  <1>4. CASE ServerAnswers  BY <1>4, ServerHasAnswered
  <1>5. ASSUME NEW op \in Calls \ {"INIT", "READDIR"}, Call(op) PROVE QueueInv'  BY <1>5, CallIsMade
  <1>6. CASE \/ sftp_open \/ sftp_opendir \/ sftp_read \/ sftp_handle_close \/ sftp_mkdir \/ sftp_xstat \/ sftp_lstat
             \/ sftp_unlink \/ sftp_rmdir \/ sftp_rename \/ sftp_setstat \/ sftp_symlink
             \/ sftp_readlink \/ sftp_canonicalize_path \/ sftp_statvfs \/ sftp_limits_use_extension
    <2>1. PICK op \in {"OPEN", "OPENDIR", "READ", "CLOSE", "MKDIR", "STAT", "LSTAT", "REMOVE", "RMDIR", "RENAME",
                       "SETSTAT", "SYMLINK", "READLINK", "REALPATH", "STATVFS", "LIMITS"} : Call(op)
      <3>. HIDE DEF Call
      <3>. QED
        BY <1>6 DEF sftp_open, sftp_opendir, sftp_read, sftp_handle_close, sftp_mkdir, sftp_xstat, sftp_lstat,
           sftp_unlink, sftp_rmdir, sftp_rename, sftp_setstat, sftp_symlink, sftp_readlink, sftp_canonicalize_path,
           sftp_statvfs, sftp_limits_use_extension
    <2>2. op \in Calls \ {"INIT", "READDIR"}  BY DEF Calls, HandleCalls, Changes, Questions
    <2>. QED  BY <1>5, <2>1, <2>2
  <1>7. CASE sftp_readdir
    <2>1. CASE dir.count = 0
      <3>1. Call("READDIR")  BY <1>7, <2>1 DEF sftp_readdir
      <3>2. "READDIR" \in Calls \ {"INIT"}  BY DEF Calls, HandleCalls
      <3>. QED  BY <2>1, <3>1, <3>2, CallIsMade
    <2>2. CASE dir.count # 0  BY <1>7, <2>2, NameIsHandedOut
    <2>. QED  BY <2>1, <2>2
  <1>8. CASE sftp_init  BY <1>8, InitIsSent
  <1>9. CASE sftp_limits_use_default  BY <1>9, LimitsAreDefault
  <1>10. CASE sftp_packet_read  BY <1>10, PieceIsRead, VersionIsRead, OddIsRead, ResponseIsKept
  <1>11. CASE Answered  BY <1>11, CallIsAnswered
  <1>12. CASE FailsWithoutAnswer  BY <1>12, CallHasFailed
  <1>13. CASE End  BY <1>13, JobEnds
  <1>14. CASE UNCHANGED queueVars
    <2>1. /\ UNCHANGED <<job, jobs, timeouts, id, expect, current, responses, dir, listed, errnum, limits>>
          /\ UNCHANGED <<answer, done, toServer, stream, handles>>
      BY <1>14 DEF queueVars, queueClient
    <2>2. Sent' = Sent /\ Coming' = Coming /\ Kept' = Kept  BY <2>1, QueuesStay
    <2>3. Typed' /\ JobInv' /\ AlignInv'  BY <2>1 DEF QueueInv, Typed, JobInv, Place, AlignInv
    <2>4. WeightInv' /\ OrderInv'  BY <2>1, <2>2 DEF QueueInv, WeightInv, Passed, Waiting, OrderInv
    <2>5. OwnInv'  BY <2>1, <2>2 DEF QueueInv, OwnInv, Waiting, Fits, Asked, Subject
    <2>6. InitInv' /\ ListInv' /\ KnownInv'
      BY <2>1, <2>2 DEF QueueInv, InitInv, NoSession, ListInv, KnownInv, Held, Waiting
    <2>7. (OwnAnswers /\ ListIsComplete /\ InitLeavesNoError)'
      BY <2>1 DEF QueueInv, OwnAnswers, ListIsComplete, InitLeavesNoError
    <2>. QED  BY <2>3, <2>4, <2>5, <2>6, <2>7 DEF QueueInv
  <1>. QED
    BY <1>1, <1>2, <1>3, <1>4, <1>6, <1>7, <1>8, <1>9, <1>10, <1>11, <1>12, <1>13, <1>14 DEF QueueNext, Work

\* The queue holds one packet at most for each call whose time was up.
LEMMA QueueIsOverdue == QueueInv => QueueHoldsOverdue
  <1>. SUFFICES ASSUME QueueInv PROVE QueueHoldsOverdue  OBVIOUS
  <1>1. /\ Len(toServer) \in Nat /\ Len(stream) \in Nat /\ Len(responses) \in Nat /\ timeouts \in Nat
        /\ Passed \in {0, 1, 2}
    BY LenProperties DEF QueueInv, Typed, Passed
  <1>2. CASE ~Waiting
    BY <1>1, <1>2 DEF QueueInv, WeightInv, QueueHoldsOverdue
  <1>3. CASE Waiting
    <2>1. 3 * Len(toServer) + Len(stream) + Passed + 3 * Len(responses) <= 3 * timeouts + 3
      BY <1>3 DEF QueueInv, WeightInv
    <2>2. \A i, j \in 1..Len(responses) : responses[i].id = id /\ responses[j].id = id => i = j
      BY <1>3 DEF QueueInv, OwnInv
    <2>3. Dequeued = {i \in 1..Len(responses) : responses[i].id = id}
      <3>1. DOMAIN responses = 1..Len(responses)  BY LenProperties DEF QueueInv, Typed
      <3>2. \A i \in 1..Len(responses) : \A k \in 1..(i - 1) : k \in 1..Len(responses) /\ k # i  BY <1>1
      <3>. QED  BY <2>2, <3>1, <3>2 DEF Dequeued
    <2>4. CASE Dequeued = {}
      <3>1. PICK x \in Sent \cup Coming \cup Kept : x.id = id  BY <1>3 DEF QueueInv, OwnInv
      <3>2. x \notin Kept
        <4>1. Kept = {responses[i] : i \in 1..Len(responses)}  BY InRange DEF QueueInv, Typed, Kept
        <4>. QED  BY <2>3, <2>4, <3>1, <4>1
      <3>3. Len(toServer) # 0 \/ Len(stream) # 0
        <4>1. Len(toServer) = 0 => toServer = <<>>  BY EmptySeq DEF QueueInv, Typed
        <4>2. Len(stream) = 0 => stream = <<>>  BY EmptySeq DEF QueueInv, Typed
        <4>. QED  BY <3>1, <3>2, <4>1, <4>2, RangeEmpty DEF Sent, Coming
      <3>4. Len(responses) <= timeouts  BY <1>1, <2>1, <3>3
      <3>5. Cardinality(Dequeued) = 0  BY <2>4, FS_EmptySet
      <3>. QED  BY <1>1, <1>3, <3>4, <3>5 DEF QueueHoldsOverdue
    <2>5. CASE Dequeued # {}
      <3>1. PICK n \in Dequeued : Dequeued = {n}  BY <2>2, <2>3, <2>5
      <3>2. Cardinality(Dequeued) = 1  BY <3>1, FS_Singleton
      <3>3. Len(responses) <= timeouts + 1  BY <1>1, <2>1
      <3>. QED  BY <1>3, <3>2, <3>3 DEF QueueHoldsOverdue
    <2>. QED  BY <2>4, <2>5
  <1>. QED  BY <1>2, <1>3

LEMMA QueueIsExact == QueueInv => AnswersAreExact
  <1>. SUFFICES ASSUME QueueInv PROVE AnswersAreExact  OBVIOUS
  <1>1. /\ DOMAIN toServer = 1..Len(toServer) /\ DOMAIN stream = 1..Len(stream)
        /\ DOMAIN responses = 1..Len(responses) /\ DOMAIN handles = 1..Len(handles) /\ Len(handles) \in Nat
    BY LenProperties DEF QueueInv, Typed
  <1>2. /\ Sent = {toServer[i] : i \in 1..Len(toServer)} /\ Range(stream) = {stream[i] : i \in 1..Len(stream)}
        /\ Kept = {responses[i] : i \in 1..Len(responses)}
    BY InRange DEF QueueInv, Typed, Sent, Kept
  <1>3. QueueTypeOK
    <2>1. job.handle \in 0..Len(handles)
      <3>1. job.handle \in Nat /\ job.handle <= Len(handles)  BY DEF QueueInv, Typed, JobRecords, JobInv
      <3>. QED  BY <1>1, <3>1
    <2>2. \A n \in DOMAIN responses : responses[n].id \in 1..id
      <3>1. \A m \in Kept : m.id \in Nat /\ m.id # 0 /\ m.id <= id  BY QueuesHold DEF QueueInv, OrderInv, Messages
      <3>2. id \in Nat  BY DEF QueueInv, Typed
      <3>. QED  BY <1>1, <1>2, <3>1, <3>2
    <2>. QED  BY <2>1, <2>2 DEF QueueInv, Typed, JobRecords, Statuses, QueueTypeOK
  <1>4. HandlesAreKnown
    <2>1. ASSUME NEW h \in 1..Len(handles), handles[h].open
          PROVE  \/ job.handle = h
                 \/ \E n \in DOMAIN toServer : toServer[n].op = "CLOSE" /\ toServer[n].handle = h
                 \/ \E n \in DOMAIN responses : responses[n].type = "HANDLE" /\ responses[n].payload = h
                 \/ \E n \in DOMAIN stream : stream[n].m.type = "HANDLE" /\ stream[n].m.payload = h
      <3>1. CASE Held(h)  BY <3>1 DEF Held
      <3>2. CASE \E r \in Sent : r.op = "CLOSE" /\ r.handle = h  BY <1>1, <1>2, <3>2
      <3>3. CASE \E m \in Coming : m.type = "HANDLE" /\ m.payload = h  BY <1>1, <1>2, <3>3 DEF Coming
      <3>4. CASE \E m \in Kept : m.type = "HANDLE" /\ m.payload = h  BY <1>1, <1>2, <3>4
      <3>. QED  BY <2>1, <3>1, <3>2, <3>3, <3>4 DEF QueueInv, KnownInv
    <2>. QED  BY <1>1, <2>1 DEF HandlesAreKnown
  <1>. QED  BY <1>3, <1>4, QueueIsOverdue DEF QueueInv, AnswersAreExact

\* Calls get answers to what they asked, lists are whole, and what is left in the queue is what came too late,
\* for any number of jobs, of names and of calls whose time was up (sftp_dequeue, sftp_init).
THEOREM AnswersStayExact ==
    ASSUME QueueAssumption, ~TornReads
    PROVE  QueueSpec => []AnswersAreExact
  <1>1. QueueInit => QueueInv  BY QueueStarts
  <1>2. QueueInv /\ [QueueNext]_queueVars => QueueInv'  BY QueueSteps
  <1>3. QueueInv => AnswersAreExact  BY QueueIsExact
  <1>. QED  BY <1>1, <1>2, <1>3, PTL DEF QueueSpec
==============================================================================
