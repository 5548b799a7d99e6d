------------------------- MODULE SFTPTransferProofs -------------------------
(***************************************************************************)
(* Proofs about SFTPTransfer, for every length of the source, chunk, limit *)
(* and number of attempts.                                                 *)
(***************************************************************************)
EXTENDS SFTPTransfer, SequenceTheorems, TLAPS

Pcs == {"idle", "open", "stat", "local", "offsets", "fetch", "store", "closeLocal", "closeRemote"}
Results == {"none", "success", "failure", "denied"}
Closing == {"closeLocal", "closeRemote"}
Copying == {"fetch", "store"}

SeqType ==
    /\ dest \in Seq(0..MaxSource) /\ Len(dest) <= MaxSource
    /\ deliveries \in Seq([progress : 0..MaxSource, result : Results])

-----------------------------------------------------------------------------
\* The path of each kind of transfer.
PathInv ==
    /\ pc = "closeRemote" => ~localFile
    /\ pc = "idle" => ~localFile /\ ~remoteFile
    /\ kind = "read" => pc \notin {"local", "offsets"}
    /\ kind = "write" => pc \notin {"local", "offsets", "stat"} /\ (pc # "idle" => total = source)
    /\ resume => kind \in {"download", "upload"}
    /\ kind = "upload" /\ pc = "stat" => resume
    /\ pc # "idle" => result = "none"

\* The sizes: what was read is there to be read, and a transfer ends at the end of the source.
SizeInv ==
    /\ total <= source
    /\ pc \in Copying => completed + chunk <= source
    /\ pc # "idle" /\ pc # "store" => chunk = 0
    /\ pc = "store" => chunk > 0
    /\ pc \in Closing \/ result = "success" => total <= completed
    /\ pc \notin Copying \cup Closing \cup {"idle"} => completed = 0 \/ (kind = "upload" /\ resume)

\* The truncated destination of a fresh upload holds nothing foreign, and all that was written.
Fresh == Uploads /\ ~resume
WorksOn == pc \in {"offsets"} \cup Copying \cup Closing \/ result = "success"
FreshInv ==
    Fresh /\ WorksOn =>
        /\ Len(dest) <= source
        /\ \A i \in 1..Len(dest) : dest[i] \in {0, i} /\ (i <= completed => dest[i] = i)

\* What an older attempt left under way.
LateInv ==
    /\ late <= source
    /\ ~Uploads => late = 0
    /\ Uploads /\ (pc \in Closing \/ result = "success") /\ ~resume => late <= completed /\ Len(dest) <= completed

\* An upload writes at a position that is there, a download and a read at the end.
PlaceInv ==
    /\ Uploads /\ WorksOn => completed <= Len(dest)
    /\ ~Uploads /\ (pc \in Copying \cup Closing \/ result = "success") => completed = Len(dest)
    /\ kind = "upload" /\ pc = "open" => completed <= Len(dest)
    /\ kind = "download" /\ ~resume /\ pc = "offsets" => Len(dest) = 0
    /\ kind = "read" /\ pc = "stat" => Len(dest) = 0

\* A truncation makes the destination a part of the source, and nothing but a late write undoes that.
PartInv ==
    /\ intact => \A i \in 1..Len(dest) : dest[i] = i
    /\ intact => Len(dest) <= source
    /\ kind = "read" => intact /\ Len(dest) <= MaxRead
IntactInv == PartInv /\ (~Uploads /\ ~resume /\ WorksOn => intact)

DestInv == PathInv /\ SizeInv /\ FreshInv /\ LateInv /\ PlaceInv /\ IntactInv

-----------------------------------------------------------------------------
\* The progress blocks in the queue; a result is behind them, and the last block.
Reports == IF pc = "idle" /\ ~answered THEN Len(deliveries) - 1 ELSE Len(deliveries)

QueueInv ==
    /\ answered => pc = "idle" /\ deliveries = <<>>
    /\ outcome # "none" => answered
    /\ torn => cancelled
    /\ torn /\ answered => outcome = "cancelled"
    /\ pc = "idle" /\ ~answered => Len(deliveries) > 0
    /\ \A i \in 1..Len(deliveries) : deliveries[i].result = "none" <=> i <= Reports

ReportInv ==
    /\ \A i, j \in 1..Reports : i <= j => deliveries[i].progress <= deliveries[j].progress
    /\ \A i \in 1..Reports : seen <= deliveries[i].progress
    /\ Reports > 0 => deliveries[Reports].progress = completed
    /\ Reports = 0 => seen \in {0, completed}
    /\ pc \notin Copying \cup Closing \cup {"idle"} => Reports = 0 /\ seen = 0
    /\ kind \in {"read", "write"} => Reports = 0 /\ seen = 0

TransferInv == TypeOK /\ SeqType /\ DestInv /\ QueueInv /\ ReportInv

-----------------------------------------------------------------------------
(***************************************************************************)
(* Sequences of blocks.                                                    *)
(***************************************************************************)

LEMMA BlocksOf ==
    ASSUME NEW n \in Nat
    PROVE  Len(Blocks(n)) = n /\ Blocks(n) \in Seq(Nat) /\ \A i \in 1..n : Blocks(n)[i] = i
BY DEF Blocks

LEMMA Parts ==
    ASSUME NEW d \in Seq(Nat)
    PROVE  IsPart(d) <=> \A i \in 1..Len(d) : d[i] = i
BY BlocksOf DEF IsPart, Blocks

\* What Written returns: the blocks at their places, and holes up to them.
LEMMA WrittenIs ==
    ASSUME NEW d \in Seq(0..MaxSource), Len(d) <= MaxSource, NEW p \in Nat, NEW n \in Nat, p + n <= MaxSource
    PROVE  /\ Written(d, p, n) \in Seq(0..MaxSource)
           /\ Len(Written(d, p, n)) = IF Len(d) > p + n THEN Len(d) ELSE p + n
           /\ \A i \in 1..(IF Len(d) > p + n THEN Len(d) ELSE p + n) :
                Written(d, p, n)[i] = IF i \in p+1..p+n THEN i ELSE IF i <= Len(d) THEN d[i] ELSE 0
<1> DEFINE m == IF Len(d) > p + n THEN Len(d) ELSE p + n
<1>m. MaxSource \in Nat /\ m \in Nat /\ m <= MaxSource
  BY TransferAssumption DEF TransferAssumption
<1>1. Written(d, p, n) = [i \in 1..m |-> IF i \in p+1..p+n THEN i ELSE IF i \in DOMAIN d THEN d[i] ELSE 0]
  BY DEF Written
<1>2. ASSUME NEW i \in 1..m
      PROVE  Written(d, p, n)[i] = IF i \in p+1..p+n THEN i ELSE IF i <= Len(d) THEN d[i] ELSE 0
  BY <1>1, <1>m
<1>3. ASSUME NEW i \in 1..m PROVE Written(d, p, n)[i] \in 0..MaxSource
  BY <1>2, <1>3, <1>m
<1> HIDE DEF m
<1>4. Written(d, p, n) \in Seq(0..MaxSource) /\ Len(Written(d, p, n)) = m
  BY <1>1, <1>3, <1>m
<1> QED
  BY <1>2, <1>4 DEF m

\* What appending n blocks from position c on returns.
LEMMA AppendedIs ==
    ASSUME NEW d \in Seq(0..MaxSource), NEW c \in Nat, NEW n \in Nat, c + n <= MaxSource
    PROVE  /\ d \o [i \in 1..n |-> c + i] \in Seq(0..MaxSource)
           /\ Len(d \o [i \in 1..n |-> c + i]) = Len(d) + n
           /\ \A i \in 1..(Len(d) + n) :
                (d \o [j \in 1..n |-> c + j])[i] = IF i <= Len(d) THEN d[i] ELSE c + (i - Len(d))
<1> DEFINE e == [i \in 1..n |-> c + i]
<1>1. e \in Seq(0..MaxSource) /\ Len(e) = n /\ \A i \in 1..n : e[i] = c + i
  <2>1. \A i \in 1..n : c + i \in 0..MaxSource
    BY TransferAssumption DEF TransferAssumption
  <2> QED
    BY <2>1
<1> HIDE DEF e
<1>2. /\ d \o e \in Seq(0..MaxSource) /\ Len(d \o e) = Len(d) + n
      /\ \A i \in 1..(Len(d) + n) : (d \o e)[i] = IF i <= Len(d) THEN d[i] ELSE e[i - Len(d)]
  BY <1>1
<1>3. \A i \in 1..(Len(d) + n) : (d \o e)[i] = IF i <= Len(d) THEN d[i] ELSE c + (i - Len(d))
  BY <1>1, <1>2
<1> QED
  BY <1>2, <1>3 DEF e

\* The rest of the delivery queue, once its first block has run.
LEMMA WithoutFirst ==
    ASSUME NEW S, NEW s \in Seq(S), 1 \in DOMAIN s,
           NEW r, r = SubSeq(s, 1, 1 - 1) \o SubSeq(s, 1 + 1, Len(s))
    PROVE  r \in Seq(S) /\ Len(r) = Len(s) - 1 /\ \A i \in 1..Len(r) : r[i] = s[i + 1]
<1>1. SubSeq(s, 1, 0) = <<>>
  BY SubSeqEmpty
<1>2. Len(s) \in Nat /\ Len(s) >= 1 /\ \A i \in 2..Len(s) : s[i] \in S
  OBVIOUS
<1>3. /\ SubSeq(s, 2, Len(s)) \in Seq(S) /\ Len(SubSeq(s, 2, Len(s))) = Len(s) - 1
      /\ \A i \in 1..(Len(s) - 1) : SubSeq(s, 2, Len(s))[i] = s[i + 1]
  <2>1. /\ SubSeq(s, 2, Len(s)) \in Seq(S)
        /\ Len(SubSeq(s, 2, Len(s))) = IF 2 <= Len(s) THEN Len(s) - 2 + 1 ELSE 0
        /\ \A i \in 1..(Len(s) - 2 + 1) : SubSeq(s, 2, Len(s))[i] = s[2 + i - 1]
    BY <1>2, SubSeqProperties
  <2>2. ASSUME NEW i \in 1..(Len(s) - 1) PROVE SubSeq(s, 2, Len(s))[i] = s[i + 1]
    <3>1. i \in 1..(Len(s) - 2 + 1) /\ 2 + i - 1 = i + 1
      BY <1>2
    <3>2. SubSeq(s, 2, Len(s))[i] = s[2 + i - 1]
      BY <2>1, <3>1
    <3> QED
      BY <3>1, <3>2
  <2>3. Len(SubSeq(s, 2, Len(s))) = Len(s) - 1
    <3>1. CASE Len(s) = 1
      BY <2>1, <3>1
    <3>2. CASE 2 <= Len(s)
      BY <1>2, <2>1, <3>2
    <3>3. Len(s) \in Nat /\ Len(s) >= 1
      BY <1>2
    <3>4. \A n \in Nat : n >= 1 => n = 1 \/ 2 <= n
      OBVIOUS
    <3> QED
      BY <3>1, <3>2, <3>3, <3>4
  <2> QED
    BY <2>1, <2>2, <2>3
<1>4. r = SubSeq(s, 2, Len(s))
  BY <1>1, <1>3
<1> QED
  BY <1>3, <1>4

-----------------------------------------------------------------------------
(***************************************************************************)
(* How an attempt ends.                                                    *)
(***************************************************************************)

Ended ==
    /\ pc' = "idle" /\ result' \in {"failure", "denied"}
    /\ localFile' = FALSE /\ remoteFile' = FALSE
    /\ deliveries' = Append(deliveries, Delivery(0, result'))

ServerType == up \in BOOLEAN /\ status \in {"ok", "other", "denied"} /\ refusal \in {"none", "denied", "other"}

LEMMA Fails ==
    ASSUME ServerType, (Failure /\ FailRemotely) \/ FailLocally
    PROVE  Ended /\ ServerType'
<1>1. CASE Failure /\ FailRemotely
  <2>1. up' \in BOOLEAN /\ refusal' \in {"none", "denied", "other"}
    BY <1>1 DEF Failure, Refused, Lost, ServerType
  <2>2. FailedStatuses \subseteq {"ok", "other", "denied"}
    BY <2>1 DEF FailedStatuses, ServerType
  <2>3. status' \in {"ok", "other", "denied"} /\ remoteFile' = FALSE
    BY <1>1, <2>2 DEF FailRemotely, CloseRemote
  <2>4. /\ pc' = "idle" /\ result' = ErrorCode(status') /\ localFile' = FALSE
        /\ deliveries' = Append(deliveries, Delivery(0, ErrorCode(status')))
    BY <1>1 DEF FailRemotely, Answer, CloseLocal
  <2>5. result' \in {"failure", "denied"}
    BY <2>4 DEF ErrorCode
  <2> QED
    BY <2>1, <2>3, <2>4, <2>5 DEF Ended, ServerType
<1>2. CASE FailLocally
  <2>1. UNCHANGED <<up, refusal>> /\ remoteFile' = FALSE /\ status' \in {"ok", status}
    BY <1>2 DEF FailLocally, CloseRemote
  <2>2. /\ pc' = "idle" /\ result' = "failure" /\ localFile' = FALSE
        /\ deliveries' = Append(deliveries, Delivery(0, "failure"))
    BY <1>2 DEF FailLocally, Answer, CloseLocal
  <2> QED
    BY <2>1, <2>2 DEF Ended, ServerType
<1> QED
  BY <1>1, <1>2

\* A failed attempt leaves no claim but that of what may be resumed.
LEMMA EndedDest ==
    ASSUME DestInv, Ended, UNCHANGED <<source, kind, resume>>,
           total' <= source, late' <= source, ~Uploads => late' = 0, PartInv'
    PROVE  DestInv'
BY DEF DestInv, Ended, PathInv, SizeInv, FreshInv, LateInv, PlaceInv, IntactInv, WorksOn, Copying, Closing,
       Uploads, Fresh

-----------------------------------------------------------------------------
(***************************************************************************)
(* What each step does to the files and the sizes.                         *)
(***************************************************************************)

\* What somebody else's block, or a step of no attempt, leaves alone.
Type ==
    /\ kind \in Kinds /\ source \in 0..MaxSource /\ late \in 0..MaxSource /\ total \in 0..MaxSource
    /\ completed \in 0..MaxSource /\ chunk \in 0..Chunk
    /\ {resume, intact, localFile, remoteFile} \subseteq BOOLEAN /\ pc \in Pcs /\ result \in Results
    /\ dest \in Seq(0..MaxSource) /\ Len(dest) <= MaxSource

KindAssumption == kind \in {"read", "write", "download", "upload"} /\ MaxSource \in Nat /\ Chunk \in Nat \ {0}

LEMMA KindIs == Type => KindAssumption
BY TransferAssumption DEF TransferAssumption, Type, KindAssumption

LEMMA TypeParts == TypeOK /\ SeqType => Type /\ ServerType
BY DEF TypeOK, SeqType, Type, ServerType, Pcs, Results

\* An empty destination is a part of any source.
LEMMA Truncated ==
    ASSUME Type, PartInv, dest' = <<>>, intact' = TRUE, UNCHANGED <<source, kind>>
    PROVE  PartInv' /\ dest' \in Seq(0..MaxSource) /\ Len(dest') = 0
BY TransferAssumption DEF TransferAssumption, Type, PartInv

LEMMA Untouched == ASSUME PartInv, UNCHANGED <<dest, intact, source, kind>> PROVE PartInv'
BY DEF PartInv

LEMMA OpenRemoteDest == Type /\ ServerType /\ DestInv /\ OpenRemote => Type' /\ DestInv'
<1> SUFFICES ASSUME Type, ServerType, DestInv, OpenRemote PROVE Type' /\ DestInv'
  OBVIOUS
<1> USE DEF WorksOn, Copying, Closing
<1>a. KindAssumption /\ PathInv /\ SizeInv /\ FreshInv /\ LateInv /\ PlaceInv /\ IntactInv /\ PartInv
  BY KindIs DEF DestInv, IntactInv
<1>b. pc = "open" /\ UNCHANGED <<source, kind, resume, total, completed, chunk, late>>
  BY DEF OpenRemote, Rest, Sizes, attempt
<1>1. CASE /\ up /\ remoteFile' = TRUE
           /\ IF Truncates THEN dest' = <<>> /\ intact' = TRUE ELSE UNCHANGED <<dest, intact>>
           /\ Goes(CASE kind = "upload" -> "offsets" [] kind = "write" -> "fetch" [] OTHER -> "stat")
           /\ UNCHANGED <<server, localFile>>
  <2>1. pc' = (IF kind = "upload" THEN "offsets" ELSE IF kind = "write" THEN "fetch" ELSE "stat")
        /\ UNCHANGED <<result, localFile>>
    BY <1>1, <1>a DEF Goes, KindAssumption
  <2>2. CASE Truncates
    <3>1. PartInv' /\ dest' \in Seq(0..MaxSource) /\ Len(dest') = 0 /\ intact' = TRUE
      BY <1>1, <1>a, <1>b, <2>2, Truncated
    <3>2. Type'
      BY <1>1, <1>b, <2>1, <3>1, <1>a DEF Type, Pcs, KindAssumption
    <3>3. DestInv'
      BY <1>1, <1>a, <1>b, <2>1, <2>2, <3>1 DEF DestInv, PathInv, SizeInv, FreshInv, LateInv, PlaceInv, IntactInv,
         Fresh, Uploads, Truncates, Type, KindAssumption
    <3> QED
      BY <3>2, <3>3
  <2>3. CASE ~Truncates
    <3>1. UNCHANGED <<dest, intact>> /\ PartInv' /\ kind \in {"upload", "download"} /\ (kind = "upload" => resume)
      BY <1>1, <1>a, <1>b, <2>3, Untouched DEF Truncates, Uploads, KindAssumption, PathInv
    <3>2. Type'
      BY <1>1, <1>b, <2>1, <3>1, <1>a DEF Type, Pcs
    <3>3. DestInv'
      BY <1>1, <1>a, <1>b, <2>1, <3>1 DEF DestInv, PathInv, SizeInv, FreshInv, LateInv, PlaceInv, IntactInv,
         Fresh, Uploads, Type, KindAssumption
    <3> QED
      BY <3>2, <3>3
  <2> QED
    BY <2>2, <2>3
<1>2. CASE /\ Failure /\ FailRemotely
           /\ UNCHANGED <<dest, intact>> \/ (dest' = <<>> /\ intact' = TRUE)
  <2>1. Ended
    BY <1>2, Fails
  <2>2. PartInv' /\ dest' \in Seq(0..MaxSource) /\ Len(dest') <= MaxSource /\ intact' \in BOOLEAN
    <3>1. CASE UNCHANGED <<dest, intact>>
      BY <3>1, <1>a, <1>b, Untouched DEF Type
    <3>2. CASE dest' = <<>> /\ intact' = TRUE
      BY <3>2, <1>a, <1>b, Truncated DEF KindAssumption
    <3> QED
      BY <1>2, <3>1, <3>2
  <2>3. Type'
    BY <1>b, <2>1, <2>2 DEF Type, Ended, Pcs, Results
  <2>4. total' <= source /\ late' <= source /\ (~Uploads => late' = 0)
    BY <1>a, <1>b DEF SizeInv, LateInv
  <2> QED
    BY <1>b, <2>1, <2>2, <2>3, <2>4, EndedDest
<1> QED
  BY <1>1, <1>2 DEF OpenRemote, Failure

LEMMA StatRemoteDest == Type /\ ServerType /\ DestInv /\ StatRemote => Type' /\ DestInv'
<1> SUFFICES ASSUME Type, ServerType, DestInv, StatRemote PROVE Type' /\ DestInv'
  OBVIOUS
<1> USE DEF WorksOn, Copying, Closing
<1>a. KindAssumption /\ PathInv /\ SizeInv /\ FreshInv /\ LateInv /\ PlaceInv /\ IntactInv /\ PartInv
  BY KindIs DEF DestInv, IntactInv
<1>b. pc = "stat" /\ UNCHANGED <<source, kind, resume, dest, intact, late, chunk>>
  BY DEF StatRemote, Rest, attempt, files
<1>p. PartInv'
  BY <1>a, <1>b, Untouched
<1>n. Len(dest) \in 0..MaxSource
  BY DEF Type
<1>1. CASE /\ IF kind = "upload" THEN completed' = Len(dest) /\ UNCHANGED total
                                 ELSE total' = source /\ UNCHANGED completed
           /\ ~(kind = "read" /\ source > MaxRead)
           /\ Goes(CASE kind = "upload" -> "open" [] kind = "read" -> "fetch" [] OTHER -> "local")
           /\ UNCHANGED <<server, localFile, remoteFile>>
  <2>1. /\ pc' = (IF kind = "upload" THEN "open" ELSE IF kind = "read" THEN "fetch" ELSE "local")
        /\ UNCHANGED <<result, localFile, remoteFile>>
        /\ IF kind = "upload" THEN completed' = Len(dest) /\ UNCHANGED total
                              ELSE total' = source /\ UNCHANGED completed
    BY <1>1, <1>a DEF Goes, KindAssumption
  <2>2. Type'
    BY <1>b, <1>n, <2>1, <1>a DEF Type, Pcs
  <2>3. DestInv'
    <3>1. PathInv'
      BY <1>a, <1>b, <2>1 DEF PathInv, KindAssumption
    <3>2. SizeInv'
      BY <1>a, <1>b, <2>1 DEF PathInv, SizeInv, Type, KindAssumption
    <3>3. FreshInv' /\ LateInv' /\ IntactInv'
      BY <1>a, <1>b, <1>p, <2>1 DEF PathInv, FreshInv, LateInv, IntactInv, PartInv, Fresh, Uploads, KindAssumption
    <3>4. PlaceInv'
      BY <1>a, <1>b, <1>n, <2>1 DEF PathInv, SizeInv, PlaceInv, Uploads, KindAssumption
    <3> QED
      BY <3>1, <3>2, <3>3, <3>4 DEF DestInv
  <2> QED
    BY <2>2, <2>3
<1>2. CASE /\ (Failure /\ FailRemotely) \/ FailLocally
           /\ total' \in {total, source} /\ UNCHANGED completed
  <2>1. Ended
    BY <1>2, Fails
  <2>2. total' <= source /\ late' <= source /\ (~Uploads => late' = 0) /\ total' \in 0..MaxSource
    BY <1>2, <1>a, <1>b DEF SizeInv, LateInv, Type, KindAssumption
  <2>3. Type'
    BY <1>2, <1>b, <2>1, <2>2 DEF Type, Ended, Pcs, Results
  <2> QED
    BY <1>b, <1>p, <2>1, <2>2, <2>3, EndedDest
<1> QED
  BY <1>1, <1>2 DEF StatRemote

LEMMA OpenLocalDest == Type /\ ServerType /\ DestInv /\ OpenLocal => Type' /\ DestInv'
<1> SUFFICES ASSUME Type, ServerType, DestInv, OpenLocal PROVE Type' /\ DestInv'
  OBVIOUS
<1> USE DEF WorksOn, Copying, Closing
<1>a. KindAssumption /\ PathInv /\ SizeInv /\ FreshInv /\ LateInv /\ PlaceInv /\ IntactInv /\ PartInv
  BY KindIs DEF DestInv, IntactInv
<1>b. pc = "local" /\ kind \in {"download", "upload"} /\ UNCHANGED <<source, kind, resume, late, completed, chunk>>
  BY <1>a DEF OpenLocal, Rest, attempt, PathInv, KindAssumption
<1>1. CASE /\ kind = "download" /\ localFile' = TRUE
           /\ IF resume THEN UNCHANGED <<dest, intact>> ELSE dest' = <<>> /\ intact' = TRUE
           /\ Goes("offsets") /\ UNCHANGED total /\ UNCHANGED <<server, remoteFile>>
  <2>1. PartInv' /\ dest' \in Seq(0..MaxSource) /\ Len(dest') <= MaxSource /\ (~resume => Len(dest') = 0)
    <3>1. CASE resume
      BY <1>1, <1>a, <1>b, <3>1, Untouched DEF Type
    <3>2. CASE ~resume
      BY <1>1, <1>a, <1>b, <3>2, Truncated DEF KindAssumption
    <3> QED
      BY <3>1, <3>2
  <2>2. pc' = "offsets" /\ UNCHANGED <<total, result, remoteFile>> /\ (intact' = intact \/ intact' = TRUE)
        /\ (~resume => intact' = TRUE) /\ localFile' = TRUE
    BY <1>1 DEF Goes
  <2>3. Type'
    BY <1>b, <2>1, <2>2 DEF Type, Pcs
  <2>4. DestInv'
    BY <1>1, <1>a, <1>b, <2>1, <2>2 DEF DestInv, PathInv, SizeInv, FreshInv, LateInv, PlaceInv, IntactInv,
       Fresh, Uploads, Type, KindAssumption
  <2> QED
    BY <2>3, <2>4
<1>2. CASE /\ kind = "upload" /\ localFile' = TRUE /\ total' = source
           /\ Goes(IF resume THEN "stat" ELSE "open") /\ UNCHANGED <<dest, intact, server, remoteFile>>
  <2>1. PartInv' /\ pc' = (IF resume THEN "stat" ELSE "open") /\ UNCHANGED <<result, remoteFile>>
    BY <1>2, <1>a, <1>b, Untouched DEF Goes
  <2>2. Type'
    BY <1>2, <1>b, <2>1 DEF Type, Pcs
  <2>3. DestInv'
    BY <1>2, <1>a, <1>b, <2>1 DEF DestInv, PathInv, SizeInv, FreshInv, LateInv, PlaceInv, IntactInv,
       Fresh, Uploads, Type, KindAssumption
  <2> QED
    BY <2>2, <2>3
<1>3. CASE FailLocally /\ UNCHANGED <<total, dest, intact>>
  <2>1. Ended
    BY <1>3, Fails
  <2>2. total' <= source /\ late' <= source /\ (~Uploads => late' = 0) /\ PartInv'
    BY <1>3, <1>a, <1>b, Untouched DEF SizeInv, LateInv
  <2>3. Type'
    BY <1>3, <1>b, <2>1 DEF Type, Ended, Pcs, Results
  <2> QED
    BY <1>b, <2>1, <2>2, <2>3, EndedDest
<1> QED
  BY <1>b, <1>1, <1>2, <1>3 DEF OpenLocal

LEMMA OffsetsDest == Type /\ ServerType /\ DestInv /\ Offsets => Type' /\ DestInv'
<1> SUFFICES ASSUME Type, ServerType, DestInv, Offsets PROVE Type' /\ DestInv'
  OBVIOUS
<1> USE DEF WorksOn, Copying, Closing
<1>a. KindAssumption /\ PathInv /\ SizeInv /\ FreshInv /\ LateInv /\ PlaceInv /\ IntactInv /\ PartInv
  BY KindIs DEF DestInv, IntactInv
<1>b. pc = "offsets" /\ UNCHANGED <<source, kind, resume, files, total, chunk>> /\ completed' = Offset
  BY DEF Offsets, Rest, attempt
<1>c. Offset \in 0..MaxSource /\ PartInv'
  BY <1>a, <1>b, Untouched DEF Offset, Type, files
<1>1. CASE Offset <= total /\ Goes("fetch") /\ UNCHANGED <<server, localFile, remoteFile>>
  <2>1. pc' = "fetch" /\ UNCHANGED <<result, localFile, remoteFile>>
    BY <1>1 DEF Goes
  <2>2. Type'
    BY <1>b, <1>c, <2>1 DEF Type, Pcs, files
  <2>3. DestInv'
    BY <1>1, <1>a, <1>b, <1>c, <2>1 DEF DestInv, PathInv, SizeInv, FreshInv, LateInv, PlaceInv, IntactInv,
       Fresh, Uploads, Type, KindAssumption, Offset, files
  <2> QED
    BY <2>2, <2>3
<1>2. CASE FailLocally
  <2>1. Ended
    BY <1>2, Fails
  <2>2. total' <= source /\ late' <= source /\ (~Uploads => late' = 0)
    BY <1>a, <1>b DEF SizeInv, LateInv, files
  <2>3. Type'
    BY <1>b, <1>c, <2>1 DEF Type, Ended, Pcs, Results, files
  <2> QED
    BY <1>b, <1>c, <2>1, <2>2, <2>3, EndedDest
<1> QED
  BY <1>1, <1>2 DEF Offsets

LEMMA FetchDest == Type /\ ServerType /\ DestInv /\ Fetch => Type' /\ DestInv'
<1> SUFFICES ASSUME Type, ServerType, DestInv, Fetch PROVE Type' /\ DestInv'
  OBVIOUS
<1> USE DEF WorksOn, Copying, Closing
<1>a. KindAssumption /\ PathInv /\ SizeInv /\ FreshInv /\ LateInv /\ PlaceInv /\ IntactInv /\ PartInv
  BY KindIs DEF DestInv, IntactInv
<1>b. pc = "fetch" /\ UNCHANGED <<source, kind, resume, files, total, completed>>
  BY DEF Fetch, Rest, attempt
<1>c. PartInv'
  BY <1>a, <1>b, Untouched DEF files
<1>1. ASSUME NEW n \in 1..Chunk, n <= Left, chunk' = n, Goes("store"), UNCHANGED <<server, localFile, remoteFile>>
      PROVE  Type' /\ DestInv'
  <2>1. pc' = "store" /\ UNCHANGED <<result, localFile, remoteFile>>
    BY <1>1 DEF Goes
  <2>2. completed + n <= source
    BY <1>1, <1>a, <1>b DEF Left, PathInv, Type, KindAssumption
  <2>3. Type'
    BY <1>1, <1>a, <1>b, <2>1 DEF Type, Pcs, files, KindAssumption
  <2>4. DestInv'
    BY <1>1, <1>a, <1>b, <1>c, <2>1, <2>2 DEF DestInv, PathInv, SizeInv, FreshInv, LateInv, PlaceInv, IntactInv,
       Fresh, Uploads, Type, KindAssumption, files
  <2> QED
    BY <2>3, <2>4
<1>2. CASE ((Failure /\ FailRemotely) \/ FailLocally) /\ UNCHANGED chunk
  <2>1. Ended
    BY <1>2, Fails
  <2>2. total' <= source /\ late' <= source /\ (~Uploads => late' = 0)
    BY <1>a, <1>b DEF SizeInv, LateInv, files
  <2>3. Type'
    BY <1>2, <1>b, <2>1 DEF Type, Ended, Pcs, Results, files
  <2> QED
    BY <1>b, <1>c, <2>1, <2>2, <2>3, EndedDest
<1> QED
  BY <1>1, <1>2 DEF Fetch

LEMMA EndOfSourceDest == Type /\ ServerType /\ DestInv /\ EndOfSource => Type' /\ DestInv'
<1> SUFFICES ASSUME Type, ServerType, DestInv, EndOfSource PROVE Type' /\ DestInv'
  OBVIOUS
<1> USE DEF WorksOn, Copying, Closing
<1>a. KindAssumption /\ PathInv /\ SizeInv /\ FreshInv /\ LateInv /\ PlaceInv /\ IntactInv /\ PartInv
  BY KindIs DEF DestInv, IntactInv
<1>b. pc = "fetch" /\ Left <= 0 /\ UNCHANGED <<source, kind, resume, files, total, completed, chunk>>
  BY DEF EndOfSource, Rest, attempt, Sizes
<1>c. PartInv'
  BY <1>a, <1>b, Untouched DEF files
<1>1. CASE /\ Goes(IF localFile THEN "closeLocal" ELSE "closeRemote")
           /\ UNCHANGED <<up, refusal, localFile, remoteFile>>
  <2>1. pc' = (IF localFile THEN "closeLocal" ELSE "closeRemote") /\ UNCHANGED <<result, localFile, remoteFile>>
    BY <1>1 DEF Goes
  <2>2. total <= completed /\ (Uploads => source <= completed)
    BY <1>a, <1>b DEF Left, PathInv, SizeInv, Type, KindAssumption
  <2>3. Type'
    BY <1>b, <2>1 DEF Type, Pcs, files
  <2>4. DestInv'
    BY <1>a, <1>b, <1>c, <2>1, <2>2 DEF DestInv, PathInv, SizeInv, FreshInv, LateInv, PlaceInv, IntactInv,
       Fresh, Uploads, Type, KindAssumption, files
  <2> QED
    BY <2>3, <2>4
<1>2. CASE Failure /\ FailRemotely
  <2>1. Ended
    BY <1>2, Fails
  <2>2. total' <= source /\ late' <= source /\ (~Uploads => late' = 0)
    BY <1>a, <1>b DEF SizeInv, LateInv, files
  <2>3. Type'
    BY <1>b, <2>1 DEF Type, Ended, Pcs, Results, files
  <2> QED
    BY <1>b, <1>c, <2>1, <2>2, <2>3, EndedDest
<1> QED
  BY <1>1, <1>2 DEF EndOfSource

\* A chunk appended to a part of the source, of which it is the next.
LEMMA Appends ==
    ASSUME Type, DestInv, pc = "store", ~Uploads, NEW n \in 0..chunk,
           dest' = dest \o [i \in 1..n |-> completed + i], UNCHANGED <<intact, source, kind>>
    PROVE  /\ dest' \in Seq(0..MaxSource) /\ Len(dest') = completed + n /\ Len(dest') <= source
           /\ ~Exceeds => PartInv'
<1>a. KindAssumption /\ SizeInv /\ PlaceInv /\ PartInv
  BY KindIs DEF DestInv, IntactInv
<1>1. completed = Len(dest) /\ completed + n <= source /\ completed + n <= MaxSource /\ n \in Nat /\ completed \in Nat
  BY <1>a DEF SizeInv, PlaceInv, Copying, Type, KindAssumption
<1>2. /\ dest' \in Seq(0..MaxSource) /\ Len(dest') = Len(dest) + n
      /\ \A i \in 1..(Len(dest) + n) : dest'[i] = IF i <= Len(dest) THEN dest[i] ELSE completed + (i - Len(dest))
  BY <1>1, AppendedIs DEF Type
<1>3. ASSUME \A i \in 1..Len(dest) : dest[i] = i PROVE \A i \in 1..Len(dest') : dest'[i] = i
  BY <1>1, <1>2, <1>3
<1>4. ~Exceeds /\ kind = "read" => Len(dest') <= MaxRead
  BY <1>1, <1>2, TransferAssumption DEF Exceeds, Type, TransferAssumption
<1>5. ~Exceeds => PartInv'
  BY <1>a, <1>1, <1>2, <1>3, <1>4 DEF PartInv
<1> QED
  BY <1>1, <1>2, <1>5

LEMMA StoreLocalDest == Type /\ ServerType /\ DestInv /\ StoreLocal => Type' /\ DestInv'
<1> SUFFICES ASSUME Type, ServerType, DestInv, StoreLocal PROVE Type' /\ DestInv'
  OBVIOUS
<1> USE DEF WorksOn, Copying, Closing
<1>a. KindAssumption /\ PathInv /\ SizeInv /\ FreshInv /\ LateInv /\ PlaceInv /\ IntactInv /\ PartInv
  BY KindIs DEF DestInv, IntactInv
<1>b. pc = "store" /\ ~Uploads /\ UNCHANGED <<source, kind, resume, total, late, intact>>
  BY DEF StoreLocal, Rest, attempt
<1>1. CASE /\ ~Exceeds /\ dest' = dest \o [i \in 1..chunk |-> completed + i]
           /\ Progress(chunk) /\ UNCHANGED <<server, localFile, remoteFile>>
  <2>1. pc' = "fetch" /\ completed' = completed + chunk /\ chunk' = 0 /\ UNCHANGED <<result, localFile, remoteFile>>
    BY <1>1 DEF Progress, Type
  <2>2. /\ dest' \in Seq(0..MaxSource) /\ Len(dest') = completed' /\ Len(dest') <= source /\ PartInv'
        /\ completed' <= source /\ completed' \in 0..MaxSource
    <3>1. chunk \in 0..chunk
      BY DEF Type
    <3>2. dest' \in Seq(0..MaxSource) /\ Len(dest') = completed + chunk /\ Len(dest') <= source /\ PartInv'
      BY <1>1, <1>b, <3>1, Appends
    <3> QED
      BY <1>a, <2>1, <3>2 DEF Type, KindAssumption
  <2>3. Type'
    BY <1>b, <2>1, <2>2, <1>a DEF Type, Pcs, KindAssumption
  <2>4. DestInv'
    BY <1>a, <1>b, <2>1, <2>2 DEF DestInv, PathInv, SizeInv, FreshInv, LateInv, PlaceInv, IntactInv,
       Fresh, Uploads, Type, KindAssumption
  <2> QED
    BY <2>3, <2>4
<1>2. CASE /\ FailLocally /\ UNCHANGED <<completed, chunk>>
           /\ dest' = dest \/ (kind = "download" /\ \E n \in 0..chunk-1 : dest' = dest \o [i \in 1..n |-> completed + i])
  <2>1. Ended
    BY <1>2, Fails
  <2>2. dest' \in Seq(0..MaxSource) /\ Len(dest') <= MaxSource /\ PartInv'
    <3>1. CASE dest' = dest
      BY <3>1, <1>a, <1>b, Untouched DEF Type
    <3>2. CASE kind = "download" /\ \E n \in 0..chunk-1 : dest' = dest \o [i \in 1..n |-> completed + i]
      <4>1. PICK n \in 0..chunk-1 : dest' = dest \o [i \in 1..n |-> completed + i]
        BY <3>2
      <4>2. n \in 0..chunk /\ ~Exceeds
        BY <3>2 DEF Type, Exceeds
      <4>3. dest' \in Seq(0..MaxSource) /\ Len(dest') = completed + n /\ Len(dest') <= source /\ PartInv'
        BY <1>b, <4>1, <4>2, Appends
      <4>4. Len(dest') <= MaxSource
        BY <1>a, <4>3 DEF Type, KindAssumption
      <4> QED
        BY <4>3, <4>4
    <3> QED
      BY <1>2, <3>1, <3>2
  <2>3. total' <= source /\ late' <= source /\ (~Uploads => late' = 0)
    BY <1>a, <1>b DEF SizeInv, LateInv
  <2>4. Type'
    BY <1>2, <1>b, <2>1, <2>2 DEF Type, Ended, Pcs, Results
  <2> QED
    BY <1>b, <2>1, <2>2, <2>3, <2>4, EndedDest
<1> QED
  BY <1>1, <1>2 DEF StoreLocal

\* Blocks of an upload, or a late one, written where there is no gap before them.
LEMMA Overwrites ==
    ASSUME Type, PartInv, NEW p \in Nat, NEW n \in Nat, p + n <= source, kind # "read",
           dest' = Written(dest, p, n), UNCHANGED <<source, kind>>,
           intact' = (intact /\ p <= Len(dest))
    PROVE  PartInv' /\ dest' \in Seq(0..MaxSource) /\ Len(dest') <= MaxSource /\ Len(dest) <= Len(dest')
<1>a. KindAssumption /\ p + n <= MaxSource
  BY KindIs DEF Type, KindAssumption
<1>1. /\ dest' \in Seq(0..MaxSource) /\ Len(dest') = IF Len(dest) > p + n THEN Len(dest) ELSE p + n
      /\ \A i \in 1..(IF Len(dest) > p + n THEN Len(dest) ELSE p + n) :
            dest'[i] = IF i \in p+1..p+n THEN i ELSE IF i <= Len(dest) THEN dest[i] ELSE 0
  BY <1>a, WrittenIs DEF Type
<1>2. ASSUME intact' PROVE \A i \in 1..Len(dest') : dest'[i] = i
  <2>1. p <= Len(dest) /\ \A i \in 1..Len(dest) : dest[i] = i
    BY <1>2 DEF PartInv
  <2> QED
    BY <1>1, <2>1 DEF Type
<1>3. intact' => Len(dest') <= source
  BY <1>1 DEF PartInv
<1> QED
  BY <1>1, <1>2, <1>3, <1>a DEF PartInv, Type, KindAssumption

\* A fresh upload writes what it has to, and an older write puts there what belongs there.
LEMMA FreshWrites ==
    ASSUME Type, DestInv, WorksOn, NEW p \in Nat, NEW n \in Nat, p + n <= source, kind # "read",
           dest' = Written(dest, p, n), UNCHANGED <<source, kind>>,
           Fresh, NEW m \in Nat, m <= completed \/ (m = p + n /\ p = completed)
    PROVE  /\ Len(dest') <= source
           /\ \A i \in 1..Len(dest') : dest'[i] \in {0, i} /\ (i <= m => dest'[i] = i)
<1>a. KindAssumption /\ p + n <= MaxSource /\ FreshInv /\ PlaceInv
  BY KindIs DEF Type, KindAssumption, DestInv
<1>1. /\ Len(dest') = IF Len(dest) > p + n THEN Len(dest) ELSE p + n
      /\ \A i \in 1..(IF Len(dest) > p + n THEN Len(dest) ELSE p + n) :
            dest'[i] = IF i \in p+1..p+n THEN i ELSE IF i <= Len(dest) THEN dest[i] ELSE 0
  BY <1>a, WrittenIs DEF Type
<1>2. /\ Len(dest) <= source /\ completed <= Len(dest)
      /\ \A i \in 1..Len(dest) : dest[i] \in {0, i} /\ (i <= completed => dest[i] = i)
  BY <1>a DEF FreshInv, PlaceInv, Fresh
<1>3. Len(dest) \in Nat /\ completed \in Nat
  BY DEF Type
<1> QED
  BY <1>1, <1>2, <1>3

LEMMA StoreRemoteDest == Type /\ ServerType /\ DestInv /\ StoreRemote => Type' /\ DestInv'
<1> SUFFICES ASSUME Type, ServerType, DestInv, StoreRemote PROVE Type' /\ DestInv'
  OBVIOUS
<1> USE DEF WorksOn, Copying, Closing
<1>a. KindAssumption /\ PathInv /\ SizeInv /\ FreshInv /\ LateInv /\ PlaceInv /\ IntactInv /\ PartInv
  BY KindIs DEF DestInv, IntactInv
<1>b. pc = "store" /\ Uploads /\ kind # "read" /\ UNCHANGED <<source, kind, resume, total, intact>>
  BY DEF StoreRemote, Rest, attempt, Uploads
<1>c. completed \in Nat /\ chunk \in Nat /\ completed + chunk <= source /\ completed <= Len(dest) /\ chunk > 0
  BY <1>a, <1>b DEF SizeInv, PlaceInv, Type, KindAssumption
<1>w. ASSUME NEW n \in 1..chunk, dest' = Written(dest, completed, n)
      PROVE  PartInv' /\ dest' \in Seq(0..MaxSource) /\ Len(dest') <= MaxSource /\ Len(dest) <= Len(dest')
  <2>1. n \in Nat /\ completed + n <= source /\ intact' = (intact /\ completed <= Len(dest))
    BY <1>b, <1>c DEF Type
  <2> QED
    BY <1>a, <1>b, <1>c, <1>w, <2>1, Overwrites
<1>1. ASSUME NEW n \in 1..chunk, dest' = Written(dest, completed, n), Progress(n),
             UNCHANGED <<up, refusal, localFile, remoteFile, late>>
      PROVE  Type' /\ DestInv'
  <2>1. /\ pc' = (IF chunk = n THEN "fetch" ELSE "store") /\ completed' = completed + n /\ chunk' = chunk - n
        /\ UNCHANGED result
    BY <1>1 DEF Progress
  <2>2. completed' \in Nat /\ chunk' \in Nat /\ completed' + chunk' <= source /\ completed' <= source
    BY <1>c, <2>1 DEF Type
  <2>3. PartInv' /\ dest' \in Seq(0..MaxSource) /\ Len(dest') <= MaxSource /\ completed' <= Len(dest')
    <3>1. PartInv' /\ dest' \in Seq(0..MaxSource) /\ Len(dest') <= MaxSource
      BY <1>1, <1>w
    <3>2. completed + n <= MaxSource /\ n \in Nat
      BY <1>a, <2>1, <2>2, <1>c DEF Type, KindAssumption
    <3>3. Len(dest') = IF Len(dest) > completed + n THEN Len(dest) ELSE completed + n
      BY <1>1, <1>c, <3>2, WrittenIs DEF Type
    <3> QED
      BY <1>c, <2>1, <3>1, <3>3 DEF Type
  <2>4. Type'
    BY <1>a, <1>b, <1>1, <2>1, <2>2, <2>3 DEF Type, Pcs, KindAssumption
  <2>5. FreshInv'
    <3>1. CASE Fresh
      <4>0. n \in Nat /\ completed + n <= source /\ completed + n \in Nat
        BY <1>c DEF Type
      <4>1. WorksOn
        BY <1>b
      <4>2. /\ Len(dest') <= source
            /\ \A i \in 1..Len(dest') : dest'[i] \in {0, i} /\ (i <= completed + n => dest'[i] = i)
        BY <1>b, <1>c, <1>1, <3>1, <4>0, <4>1, FreshWrites
      <4> QED
        BY <1>b, <2>1, <4>2 DEF FreshInv
    <3>2. CASE ~Fresh
      BY <1>b, <3>2 DEF FreshInv, Fresh, Uploads
    <3> QED
      BY <3>1, <3>2
  <2>6. PathInv' /\ LateInv' /\ IntactInv'
    BY <1>a, <1>b, <1>1, <2>1, <2>3 DEF PathInv, LateInv, IntactInv, Uploads
  <2>7. SizeInv' /\ PlaceInv'
    BY <1>a, <1>b, <2>1, <2>2, <2>3 DEF PathInv, SizeInv, PlaceInv, Uploads, Type, KindAssumption
  <2> QED
    BY <2>4, <2>5, <2>6, <2>7 DEF DestInv
<1>2. CASE /\ (Failure /\ FailRemotely) \/ FailLocally
           /\ UNCHANGED <<completed, chunk>>
           /\ \/ UNCHANGED <<dest, late>>
              \/ dest' = Written(dest, completed, 1) /\ UNCHANGED late
              \/ late' = completed + 1 /\ UNCHANGED dest
  <2>1. Ended
    BY <1>2, Fails
  <2>2. dest' \in Seq(0..MaxSource) /\ Len(dest') <= MaxSource /\ PartInv'
    <3>1. CASE UNCHANGED dest
      BY <3>1, <1>a, <1>b, Untouched DEF Type
    <3>2. CASE dest' = Written(dest, completed, 1)
      <4>1. 1 \in 1..chunk
        BY <1>c
      <4> QED
        BY <3>2, <4>1, <1>w
    <3> QED
      BY <1>2, <3>1, <3>2
  <2>3. late' <= source /\ late' \in 0..MaxSource
    BY <1>2, <1>a, <1>c DEF LateInv, Type, KindAssumption
  <2>4. Type'
    BY <1>2, <1>b, <2>1, <2>2, <2>3 DEF Type, Ended, Pcs, Results
  <2>5. total' <= source /\ (~Uploads => late' = 0)
    BY <1>a, <1>b DEF SizeInv
  <2> QED
    BY <1>b, <2>1, <2>2, <2>3, <2>4, <2>5, EndedDest
<1> QED
  BY <1>1, <1>2 DEF StoreRemote, Failure

LEMMA CloseDest == Type /\ ServerType /\ DestInv /\ (CloseLocalFile \/ CloseRemoteFile) => Type' /\ DestInv'
<1> SUFFICES ASSUME Type, ServerType, DestInv, CloseLocalFile \/ CloseRemoteFile PROVE Type' /\ DestInv'
  OBVIOUS
<1> USE DEF WorksOn, Copying, Closing
<1>a. KindAssumption /\ PathInv /\ SizeInv /\ FreshInv /\ LateInv /\ PlaceInv /\ IntactInv /\ PartInv
  BY KindIs DEF DestInv, IntactInv
<1>b. pc \in Closing /\ UNCHANGED <<source, kind, resume, files, total, completed, chunk>>
  BY DEF CloseLocalFile, CloseRemoteFile, Rest, attempt, Sizes
<1>p. PartInv'
  BY <1>a, <1>b, Untouched DEF files
<1>f. total' <= source /\ late' <= source /\ (~Uploads => late' = 0)
  BY <1>a, <1>b DEF SizeInv, LateInv, files
<1>1. CASE pc = "closeLocal" /\ CloseLocal /\ Goes("closeRemote") /\ UNCHANGED remoteFile
  <2>1. pc' = "closeRemote" /\ localFile' = FALSE /\ UNCHANGED <<result, remoteFile>>
    BY <1>1 DEF Goes, CloseLocal
  <2>2. Type'
    BY <1>b, <2>1 DEF Type, Pcs, files
  <2>3. DestInv'
    BY <1>a, <1>b, <1>p, <2>1 DEF DestInv, PathInv, SizeInv, FreshInv, LateInv, PlaceInv, IntactInv,
       Fresh, Uploads, files
  <2> QED
    BY <2>2, <2>3
<1>2. CASE FailLocally
  <2>1. Ended
    BY <1>2, Fails
  <2>2. Type'
    BY <1>b, <2>1 DEF Type, Ended, Pcs, Results, files
  <2> QED
    BY <1>b, <1>p, <1>f, <2>1, <2>2, EndedDest
<1>3. CASE CloseRemoteFile
  <2>1. /\ pc = "closeRemote" /\ pc' = "idle" /\ remoteFile' = FALSE /\ UNCHANGED localFile
        /\ result' \in {"success", "failure", "denied"}
    BY <1>3 DEF CloseRemoteFile, Answer, ErrorCode
  <2>2. Type'
    BY <1>b, <2>1 DEF Type, Pcs, Results, files
  <2>3. DestInv'
    BY <1>a, <1>b, <1>p, <2>1 DEF DestInv, PathInv, SizeInv, FreshInv, LateInv, PlaceInv, IntactInv,
       Fresh, Uploads, files
  <2> QED
    BY <2>2, <2>3
<1> QED
  BY <1>1, <1>2, <1>3 DEF CloseLocalFile

-----------------------------------------------------------------------------
(***************************************************************************)
(* What the steps of others do to them.                                    *)
(***************************************************************************)

LEMMA GrowDest == Type /\ DestInv /\ Grow => Type' /\ DestInv'
<1> SUFFICES ASSUME Type, DestInv, Grow PROVE Type' /\ DestInv'
  OBVIOUS
<1>a. KindAssumption /\ PathInv /\ SizeInv /\ FreshInv /\ LateInv /\ PlaceInv /\ IntactInv /\ PartInv
  BY KindIs DEF DestInv, IntactInv
<1>b. /\ kind # "write" /\ source' = source + 1 /\ source' \in 0..MaxSource
      /\ UNCHANGED <<kind, resume, pc, total, completed, chunk, dest, intact, late, localFile, remoteFile, result>>
  BY <1>a DEF Grow, files, attempt, Sizes, Type, KindAssumption
<1>1. Type'
  BY <1>b DEF Type
<1>2. PartInv' /\ FreshInv'
  BY <1>a, <1>b DEF PartInv, FreshInv, Fresh, Uploads, WorksOn, Type, KindAssumption
<1>3. PathInv' /\ SizeInv' /\ LateInv' /\ PlaceInv' /\ IntactInv'
  BY <1>a, <1>b, <1>2 DEF PathInv, SizeInv, LateInv, PlaceInv, IntactInv, WorksOn, Uploads, Type, KindAssumption
<1> QED
  BY <1>1, <1>2, <1>3 DEF DestInv

LEMMA LateWriteDest == Type /\ DestInv /\ LateWrite => Type' /\ DestInv'
<1> SUFFICES ASSUME Type, DestInv, LateWrite PROVE Type' /\ DestInv'
  OBVIOUS
<1>a. KindAssumption /\ PathInv /\ SizeInv /\ FreshInv /\ LateInv /\ PlaceInv /\ IntactInv /\ PartInv
  BY KindIs DEF DestInv, IntactInv
<1>b. /\ late # 0 /\ late' = 0 /\ dest' = Written(dest, late - 1, 1) /\ intact' = (intact /\ late <= Len(dest) + 1)
      /\ UNCHANGED <<source, kind, resume, pc, total, completed, chunk, localFile, remoteFile, result>>
  BY DEF LateWrite, attempt, Sizes
<1>c. /\ Uploads /\ kind # "read" /\ late - 1 \in Nat /\ (late - 1) + 1 <= source /\ (late - 1) + 1 = late
      /\ (late - 1) + 1 <= MaxSource
  BY <1>a, <1>b DEF LateInv, Type, Uploads, KindAssumption
<1>1. PartInv' /\ dest' \in Seq(0..MaxSource) /\ Len(dest') <= MaxSource /\ Len(dest) <= Len(dest')
  <2>1. intact' = (intact /\ late - 1 <= Len(dest))
    BY <1>b, <1>c DEF Type
  <2> QED
    BY <1>a, <1>b, <1>c, <2>1, Overwrites
<1>2. Len(dest') = IF Len(dest) > late THEN Len(dest) ELSE late
  BY <1>b, <1>c, WrittenIs DEF Type
<1>3. Type'
  BY <1>a, <1>b, <1>1 DEF Type, KindAssumption
<1>4. FreshInv'
  <2>1. CASE Fresh /\ WorksOn
    <3>1. completed \in Nat
      BY DEF Type
    <3>2. /\ Len(dest') <= source
          /\ \A i \in 1..Len(dest') : dest'[i] \in {0, i} /\ (i <= completed => dest'[i] = i)
      <4>1. \E p \in Nat : p = late - 1
        BY <1>c
      <4>2. PICK p \in Nat : p = late - 1
        BY <4>1
      <4>3. dest' = Written(dest, p, 1) /\ p + 1 <= source /\ 1 \in Nat /\ completed <= completed
        BY <1>b, <1>c, <3>1, <4>2
      <4>4. UNCHANGED <<source, kind>> /\ kind # "read" /\ Fresh /\ WorksOn
        BY <1>b, <1>c, <2>1
      <4> QED
        BY <3>1, <4>3, <4>4, FreshWrites
    <3> QED
      BY <1>b, <3>2 DEF FreshInv
  <2>2. CASE ~(Fresh /\ WorksOn)
    BY <1>b, <2>2 DEF FreshInv, Fresh, Uploads, WorksOn
  <2> QED
    BY <2>1, <2>2
<1>5. PathInv' /\ SizeInv'
  BY <1>a, <1>b DEF PathInv, SizeInv
<1>6. LateInv' /\ PlaceInv' /\ IntactInv'
  BY <1>a, <1>b, <1>c, <1>1, <1>2 DEF LateInv, PlaceInv, IntactInv, Uploads, WorksOn, Type, KindAssumption
<1> QED
  BY <1>3, <1>4, <1>5, <1>6 DEF DestInv

LEMMA CallDest == ASSUME NEW r \in BOOLEAN, Type, DestInv, Call(r) PROVE Type' /\ DestInv'
<1>a. KindAssumption /\ PathInv /\ SizeInv /\ FreshInv /\ LateInv /\ PlaceInv /\ IntactInv /\ PartInv
  BY KindIs DEF DestInv, IntactInv
<1>b. /\ pc = "idle" /\ pc' = (IF kind = "upload" THEN "local" ELSE "open") /\ resume' = r
      /\ (r => kind \in {"download", "upload"})
      /\ total' = source /\ completed' = 0 /\ chunk' = 0 /\ result' = "none"
      /\ UNCHANGED <<kind, source, dest, intact, late, localFile, remoteFile>>
  BY DEF Call, files
<1>1. Type'
  BY <1>a, <1>b DEF Type, Pcs, Results, KindAssumption
<1>2. PartInv'
  BY <1>a, <1>b DEF PartInv
<1>3. PathInv' /\ SizeInv' /\ LateInv'
  BY <1>a, <1>b DEF PathInv, SizeInv, LateInv, Uploads, Copying, Closing, Type, KindAssumption
<1>4. FreshInv' /\ PlaceInv' /\ IntactInv'
  BY <1>a, <1>b, <1>2 DEF FreshInv, PlaceInv, IntactInv, Uploads, WorksOn, Copying, Closing, Type, KindAssumption
<1> QED
  BY <1>1, <1>3, <1>4 DEF DestInv

\* A step that leaves the files and the attempt alone.
LEMMA RestDest ==
    ASSUME Type, DestInv,
           UNCHANGED <<source, files, kind, resume, pc, Sizes, localFile, remoteFile, result>>
    PROVE  Type' /\ DestInv'
BY DEF Type, DestInv, PathInv, SizeInv, FreshInv, LateInv, PlaceInv, IntactInv, PartInv, files, Sizes,
       Uploads, Fresh, WorksOn

LEMMA DestNext == Type /\ ServerType /\ DestInv /\ [Next]_vars => Type' /\ DestInv'
<1> SUFFICES ASSUME Type, ServerType, DestInv, [Next]_vars PROVE Type' /\ DestInv'
  OBVIOUS
<1>1. CASE AttemptStep
  BY <1>1, OpenRemoteDest, StatRemoteDest, OpenLocalDest, OffsetsDest, FetchDest, EndOfSourceDest,
     StoreLocalDest, StoreRemoteDest, CloseDest DEF AttemptStep
<1>2. CASE Grow
  BY <1>2, GrowDest
<1>3. CASE LateWrite
  BY <1>3, LateWriteDest
<1>4. ASSUME NEW r \in BOOLEAN, Call(r) PROVE Type' /\ DestInv'
  BY <1>4, CallDest
<1>5. CASE Cancel \/ Deliver \/ UNCHANGED vars
  <2>1. UNCHANGED <<source, files, kind, resume, pc, Sizes, localFile, remoteFile, result>>
    BY <1>5 DEF Cancel, Deliver, DeliverAt, vars, attempt, Sizes
  <2> QED
    BY <2>1, RestDest
<1> QED
  BY <1>1, <1>2, <1>3, <1>4, <1>5 DEF Next

-----------------------------------------------------------------------------
(***************************************************************************)
(* The delivery queue.                                                     *)
(***************************************************************************)

Block == [progress : 0..MaxSource, result : Results]

LEMMA BlockAt ==
    ASSUME NEW q \in Seq(Block), NEW i \in 1..Len(q)
    PROVE  q[i] \in Block /\ q[i].progress \in 0..MaxSource /\ q[i].result \in Results
<1>1. q[i] \in Block
  BY ElementOfSeq
<1> QED
  BY <1>1 DEF Block

\* What is neither of the files nor of the server.
CallType ==
    /\ seen \in 0..MaxSource /\ attempts \in 0..MaxAttempts
    /\ {cancelled, answered, torn} \subseteq BOOLEAN
    /\ outcome \in {"none", "success", "failure", "denied", "cancelled"}
    /\ deliveries \in Seq(Block)

AllTypes == Type /\ ServerType /\ CallType

LEMMA TypesAre == AllTypes <=> TypeOK /\ SeqType
<1>1. AllTypes => TypeOK /\ SeqType
  <2>1. ASSUME dest \in Seq(0..MaxSource) PROVE \A i \in DOMAIN dest : dest[i] \in 0..MaxSource
    <3>1. DOMAIN dest = 1..Len(dest)
      BY <2>1, LenProperties
    <3> QED
      BY <2>1, <3>1, ElementOfSeq
  <2> QED
    BY <2>1 DEF AllTypes, Type, ServerType, CallType, TypeOK, SeqType, Block, Pcs, Results
<1>2. TypeOK /\ SeqType => CallType
  BY DEF TypeOK, SeqType, CallType, Block
<1> QED
  BY <1>1, <1>2, TypeParts DEF AllTypes

\* The three things that a step of an attempt does to the queue: it answers ...
Ends ==
    /\ pc' = "idle" /\ result' \in Results \ {"none"}
    /\ deliveries' = Append(deliveries, Delivery(0, result'))
\* ... it leaves the queue alone ...
GoesOn == pc' # "idle" /\ UNCHANGED deliveries
\* ... or it reports what it has copied.
Copies(n) ==
    /\ pc = "store" /\ pc' \in Copying /\ completed' = completed + n
    /\ deliveries' = IF kind \in {"download", "upload"}
                     THEN Append(deliveries, Delivery(completed + n, "none")) ELSE deliveries

\* What no step of an attempt touches; the sizes are settled once it copies.
Keeps ==
    /\ UNCHANGED <<kind, attempts, seen, cancelled, answered, torn, outcome>>
    /\ pc # "idle"
    /\ pc \in Copying \cup Closing => pc' \in Copying \cup Closing \cup {"idle"}
Settled == pc \in Copying \cup Closing => UNCHANGED completed

LEMMA EndedEnds == Ended => Ends
BY DEF Ended, Ends, Results

LEMMA AttemptShape ==
    ASSUME Type, ServerType, AttemptStep
    PROVE  /\ Keeps /\ ServerType'
           /\ (Ends /\ Settled) \/ (GoesOn /\ Settled) \/ \E n \in Nat : Copies(n)
<1> USE DEF Keeps, Settled, Copying, Closing
<1>k. KindAssumption
  BY KindIs
<1>r. UNCHANGED <<kind, attempts, seen, cancelled, answered, torn, outcome>>
  BY DEF AttemptStep, OpenRemote, StatRemote, OpenLocal, Offsets, Fetch, EndOfSource, StoreLocal, StoreRemote,
     CloseLocalFile, CloseRemoteFile, Rest, attempt
<1>f. (Failure /\ FailRemotely) \/ FailLocally => Ends /\ pc' = "idle" /\ ServerType'
  BY Fails, EndedEnds DEF Ends
<1>s. UNCHANGED server => ServerType'
  BY DEF ServerType, server
<1>1. CASE OpenRemote
  <2>1. pc = "open"
    BY <1>1 DEF OpenRemote
  <2>2. CASE Goes(CASE kind = "upload" -> "offsets" [] kind = "write" -> "fetch" [] OTHER -> "stat") /\ UNCHANGED server
    <3>1. pc' = (IF kind = "upload" THEN "offsets" ELSE IF kind = "write" THEN "fetch" ELSE "stat") /\ UNCHANGED deliveries
      BY <2>2, <1>k DEF Goes, KindAssumption
    <3>2. ServerType'
      BY <2>2, <1>s
    <3> QED
      BY <2>1, <3>1, <3>2, <1>r DEF GoesOn
  <2>3. CASE Failure /\ FailRemotely
    BY <1>r, <1>f, <2>1, <2>3
  <2> QED
    BY <1>1, <2>2, <2>3 DEF OpenRemote, Failure
<1>2. CASE StatRemote
  <2>1. pc = "stat"
    BY <1>2 DEF StatRemote
  <2>2. CASE Goes(CASE kind = "upload" -> "open" [] kind = "read" -> "fetch" [] OTHER -> "local") /\ UNCHANGED server
    <3>1. pc' = (IF kind = "upload" THEN "open" ELSE IF kind = "read" THEN "fetch" ELSE "local") /\ UNCHANGED deliveries
      BY <2>2, <1>k DEF Goes, KindAssumption
    <3>2. ServerType'
      BY <2>2, <1>s
    <3> QED
      BY <2>1, <3>1, <3>2, <1>r DEF GoesOn
  <2>3. CASE (Failure /\ FailRemotely) \/ FailLocally
    BY <1>r, <1>f, <2>1, <2>3
  <2> QED
    BY <1>2, <2>2, <2>3 DEF StatRemote
<1>3. CASE OpenLocal
  <2>1. pc = "local"
    BY <1>3 DEF OpenLocal
  <2>2. CASE (Goes("offsets") \/ Goes(IF resume THEN "stat" ELSE "open")) /\ UNCHANGED server
    BY <2>1, <2>2, <1>r, <1>s DEF GoesOn, Goes
  <2>3. CASE FailLocally
    BY <1>r, <1>f, <2>1, <2>3
  <2> QED
    BY <1>3, <2>2, <2>3 DEF OpenLocal
<1>4. CASE Offsets
  <2>1. pc = "offsets"
    BY <1>4 DEF Offsets
  <2>2. CASE Goes("fetch") /\ UNCHANGED server
    BY <2>1, <2>2, <1>r, <1>s DEF GoesOn, Goes
  <2>3. CASE FailLocally
    BY <1>r, <1>f, <2>1, <2>3
  <2> QED
    BY <1>4, <2>2, <2>3 DEF Offsets
<1>5. CASE Fetch
  <2>1. pc = "fetch" /\ UNCHANGED completed
    BY <1>5 DEF Fetch
  <2>2. CASE Goes("store") /\ UNCHANGED server
    BY <2>1, <2>2, <1>r, <1>s DEF GoesOn, Goes
  <2>3. CASE (Failure /\ FailRemotely) \/ FailLocally
    BY <1>r, <1>f, <2>1, <2>3
  <2> QED
    BY <1>5, <2>2, <2>3 DEF Fetch
<1>6. CASE EndOfSource
  <2>1. pc = "fetch" /\ UNCHANGED completed
    BY <1>6 DEF EndOfSource, Sizes
  <2>2. CASE /\ Goes(IF localFile THEN "closeLocal" ELSE "closeRemote")
             /\ status' = (IF Uploads THEN status ELSE "other") /\ UNCHANGED <<up, refusal>>
    BY <2>1, <2>2, <1>r DEF GoesOn, Goes, ServerType
  <2>3. CASE Failure /\ FailRemotely
    BY <1>r, <1>f, <2>1, <2>3
  <2> QED
    BY <1>6, <2>2, <2>3 DEF EndOfSource
<1>7. CASE StoreLocal
  <2>1. pc = "store"
    BY <1>7 DEF StoreLocal
  <2>2. CASE Progress(chunk) /\ UNCHANGED server
    <3>1. Copies(chunk) /\ chunk \in Nat
      BY <2>1, <2>2 DEF Progress, Copies, Type
    <3> QED
      BY <2>1, <2>2, <3>1, <1>r, <1>s DEF Copies
  <2>3. CASE FailLocally /\ UNCHANGED completed
    BY <1>r, <1>f, <2>1, <2>3
  <2> QED
    BY <1>7, <2>2, <2>3 DEF StoreLocal
<1>8. CASE StoreRemote
  <2>1. pc = "store"
    BY <1>8 DEF StoreRemote
  <2>2. ASSUME NEW n \in 1..chunk, Progress(n), status' = "ok", UNCHANGED <<up, refusal>>
        PROVE  Keeps /\ ServerType' /\ \E k \in Nat : Copies(k)
    <3>1. Copies(n) /\ n \in Nat
      BY <2>1, <2>2 DEF Progress, Copies, Type
    <3>2. ServerType'
      BY <2>2 DEF ServerType
    <3> QED
      BY <2>1, <3>1, <3>2, <1>r DEF Copies
  <2>3. CASE ((Failure /\ FailRemotely) \/ FailLocally) /\ UNCHANGED completed
    BY <1>r, <1>f, <2>1, <2>3
  <2> QED
    BY <1>8, <2>2, <2>3 DEF StoreRemote, Failure
<1>9. CASE CloseLocalFile
  <2>1. pc = "closeLocal" /\ UNCHANGED completed
    BY <1>9 DEF CloseLocalFile, Sizes
  <2>2. CASE Goes("closeRemote") /\ UNCHANGED server
    BY <2>1, <2>2, <1>r, <1>s DEF GoesOn, Goes
  <2>3. CASE FailLocally
    BY <1>r, <1>f, <2>1, <2>3
  <2> QED
    BY <1>9, <2>2, <2>3 DEF CloseLocalFile
<1>10. CASE CloseRemoteFile
  <2>1. pc = "closeRemote" /\ UNCHANGED completed
    BY <1>10 DEF CloseRemoteFile, Sizes
  <2>2. CASE status' = "ok" /\ Answer("success") /\ UNCHANGED <<up, refusal>>
    BY <2>1, <2>2, <1>r DEF Ends, Answer, ServerType, Results
  <2>3. CASE Failure /\ status' \in FailedStatuses /\ Answer(ErrorCode(status'))
    <3>1. ServerType'
      BY <2>3 DEF Failure, Refused, Lost, FailedStatuses, ServerType
    <3>2. Ends /\ pc' = "idle"
      BY <2>3 DEF Ends, Answer, ErrorCode, Results
    <3> QED
      BY <2>1, <3>1, <3>2, <1>r
  <2> QED
    BY <1>10, <2>2, <2>3 DEF CloseRemoteFile
<1> QED
  BY <1>1, <1>2, <1>3, <1>4, <1>5, <1>6, <1>7, <1>8, <1>9, <1>10 DEF AttemptStep

\* A block at the end of the queue.
LEMMA Queued ==
    ASSUME NEW q \in Seq(Block), NEW n \in 0..MaxSource, NEW r \in Results
    PROVE  /\ Append(q, Delivery(n, r)) \in Seq(Block)
           /\ Len(Append(q, Delivery(n, r))) = Len(q) + 1
           /\ \A i \in 1..Len(q) : Append(q, Delivery(n, r))[i] = q[i]
           /\ Append(q, Delivery(n, r))[Len(q) + 1].progress = n
           /\ Append(q, Delivery(n, r))[Len(q) + 1].result = r
<1>1. Delivery(n, r) \in Block /\ Delivery(n, r).progress = n /\ Delivery(n, r).result = r
  BY DEF Delivery, Block
<1> QED
  BY <1>1

QueueSafe == QueueInv /\ ReportInv

LEMMA AttemptQueue ==
    ASSUME AllTypes, Type', QueueSafe, AttemptStep
    PROVE  CallType' /\ ServerType' /\ QueueSafe'
<1> USE DEF Copying, Closing
<1>a. Type /\ ServerType /\ CallType /\ QueueInv /\ ReportInv
  BY DEF AllTypes, QueueSafe
<1>b. Keeps /\ ServerType' /\ (((Ends \/ GoesOn) /\ Settled) \/ \E n \in Nat : Copies(n))
  BY <1>a, AttemptShape
<1>c. ~answered /\ ~answered' /\ Reports = Len(deliveries) /\ Len(deliveries) \in Nat
  BY <1>a, <1>b DEF QueueInv, Keeps, Reports, CallType
<1>d. /\ \A i \in 1..Len(deliveries) : deliveries[i] \in Block /\ deliveries[i].result = "none"
                                        /\ deliveries[i].progress \in 0..MaxSource
      /\ MaxSource \in Nat
  <2>1. \A i \in 1..Len(deliveries) : deliveries[i].result = "none"
    BY <1>a, <1>c DEF QueueInv
  <2> QED
    BY <1>a, <2>1, BlockAt, TransferAssumption DEF CallType, TransferAssumption
<1>1. CASE Ends /\ Settled
  <2>1. /\ deliveries' \in Seq(Block) /\ Len(deliveries') = Len(deliveries) + 1
        /\ \A i \in 1..Len(deliveries) : deliveries'[i] = deliveries[i]
        /\ deliveries'[Len(deliveries) + 1].result # "none"
    <3>1. 0 \in 0..MaxSource /\ result' \in Results /\ result' # "none"
      BY <1>1, <1>d DEF Ends
    <3> QED
      BY <1>a, <1>1, <3>1, Queued DEF Ends, CallType
  <2>2. pc' = "idle" /\ Reports' = Reports
    BY <1>1, <1>c, <2>1 DEF Ends, Reports
  <2>3. CallType'
    BY <1>a, <1>b, <2>1 DEF CallType, Keeps
  <2>4. QueueInv'
    BY <1>a, <1>b, <1>c, <1>d, <2>1, <2>2 DEF QueueInv, Keeps
  <2>5. \A i \in 1..Reports : deliveries'[i] = deliveries[i]
    BY <1>c, <2>1
  <2>6. Reports > 0 => pc \in Copying \cup Closing
    BY <1>a, <1>b, <1>c DEF ReportInv, Keeps
  <2>7. Reports > 0 => deliveries'[Reports'].progress = completed'
    BY <1>a, <1>1, <1>c, <2>2, <2>5, <2>6 DEF ReportInv, Settled
  <2>8. Reports = 0 => seen' \in {0, completed'}
    BY <1>a, <1>b, <1>1 DEF ReportInv, Settled, Keeps
  <2>9. ReportInv'
    BY <1>a, <1>b, <1>c, <2>2, <2>5, <2>7, <2>8 DEF ReportInv, Keeps
  <2> QED
    BY <1>b, <2>3, <2>4, <2>9 DEF QueueSafe
<1>2. CASE GoesOn /\ Settled
  <2>1. UNCHANGED deliveries /\ pc' # "idle" /\ Reports' = Reports
    BY <1>2, <1>c DEF GoesOn, Reports
  <2>2. CallType'
    BY <1>a, <1>b, <2>1 DEF CallType, Keeps
  <2>3. QueueInv'
    BY <1>a, <1>b, <1>c, <2>1 DEF QueueInv, Keeps
  <2>4. ReportInv'
    BY <1>a, <1>b, <1>c, <1>2, <2>1 DEF ReportInv, Keeps, Settled, Type, Pcs
  <2> QED
    BY <1>b, <2>2, <2>3, <2>4 DEF QueueSafe
<1>3. ASSUME NEW n \in Nat, Copies(n) PROVE CallType' /\ QueueSafe'
  <2>1. pc = "store" /\ pc' \in Copying /\ pc' # "idle" /\ completed' = completed + n /\ completed' \in 0..MaxSource
    BY <1>3 DEF Copies, Type
  <2>2. CASE kind \in {"download", "upload"}
    <3>1. /\ deliveries' \in Seq(Block) /\ Len(deliveries') = Len(deliveries) + 1
          /\ \A i \in 1..Len(deliveries) : deliveries'[i] = deliveries[i]
          /\ deliveries'[Len(deliveries) + 1].result = "none"
          /\ deliveries'[Len(deliveries) + 1].progress = completed'
      <4>1. completed + n \in 0..MaxSource /\ "none" \in Results
        BY <2>1 DEF Results
      <4>2. deliveries' = Append(deliveries, Delivery(completed + n, "none"))
        BY <1>3, <2>2 DEF Copies
      <4> QED
        BY <1>a, <2>1, <4>1, <4>2, Queued DEF CallType
    <3>2. Reports' = Len(deliveries) + 1
      BY <1>c, <2>1, <3>1 DEF Reports
    <3>3. CallType'
      BY <1>a, <1>b, <3>1 DEF CallType, Keeps
    <3>4. QueueInv'
      BY <1>a, <1>b, <1>c, <1>d, <2>1, <3>1, <3>2 DEF QueueInv, Keeps
    <3>5. \A i \in 1..Len(deliveries) : deliveries[i].progress <= completed
      BY <1>a, <1>c DEF ReportInv
    <3>n. seen \in Nat /\ completed \in Nat /\ completed' \in Nat /\ completed <= completed' /\ seen' = seen
      BY <1>a, <1>b, <1>d, <2>1 DEF CallType, Type, Keeps
    <3>6. seen <= completed
      <4>1. CASE Reports = 0
        BY <1>a, <3>n, <4>1 DEF ReportInv
      <4>2. CASE Reports > 0
        <5>1. Reports \in 1..Reports
          BY <1>c, <4>2
        <5>2. seen <= deliveries[Reports].progress /\ deliveries[Reports].progress = completed
          BY <1>a, <4>2, <5>1 DEF ReportInv
        <5> QED
          BY <5>2
      <4> QED
        BY <1>c, <4>1, <4>2
    <3>e. \A i \in 1..Reports' : \/ i \in 1..Reports /\ deliveries'[i].progress = deliveries[i].progress
                                                   /\ deliveries[i].progress \in Nat
                                 \/ i = Reports' /\ deliveries'[i].progress = completed'
      BY <1>c, <1>d, <3>1, <3>2
    <3>7. \A i \in 1..Reports' : seen' <= deliveries'[i].progress
      BY <1>a, <3>n, <3>e, <3>6 DEF ReportInv
    <3>8. ASSUME NEW i \in 1..Reports', NEW j \in 1..Reports', i <= j
          PROVE  deliveries'[i].progress <= deliveries'[j].progress
      <4>1. CASE j = Reports' /\ deliveries'[j].progress = completed'
        BY <1>c, <3>5, <3>n, <3>e, <4>1
      <4>2. CASE j \in 1..Reports /\ deliveries'[j].progress = deliveries[j].progress
        <5>1. i \in 1..Reports /\ deliveries'[i].progress = deliveries[i].progress
          BY <1>c, <3>1, <3>2, <3>8, <4>2
        <5> QED
          BY <1>a, <3>8, <4>2, <5>1 DEF ReportInv
      <4> QED
        BY <3>e, <4>1, <4>2
    <3>9. ReportInv'
      BY <1>a, <1>b, <1>c, <2>1, <2>2, <3>1, <3>2, <3>7, <3>8 DEF ReportInv, Keeps
    <3> QED
      BY <3>3, <3>4, <3>9 DEF QueueSafe
  <2>3. CASE kind \notin {"download", "upload"}
    <3>1. UNCHANGED deliveries /\ Reports' = Reports /\ kind \in {"read", "write"} /\ kind' = kind
      BY <1>a, <1>b, <1>c, <1>3, <2>1, <2>3, KindIs DEF Copies, Reports, KindAssumption, Keeps
    <3>2. CallType' /\ QueueInv'
      BY <1>a, <1>b, <1>c, <2>1, <3>1 DEF CallType, QueueInv, Keeps
    <3>3. Reports = 0 /\ seen = 0 /\ seen' = 0
      BY <1>a, <1>b, <3>1 DEF ReportInv, Keeps
    <3>4. ReportInv'
      BY <1>c, <2>1, <3>1, <3>3 DEF ReportInv
    <3> QED
      BY <3>2, <3>4 DEF QueueSafe
  <2> QED
    BY <2>2, <2>3
<1> QED
  BY <1>1, <1>2, <1>3, <1>b

LEMMA DeliverQueue ==
    ASSUME AllTypes, QueueSafe, Deliver
    PROVE  /\ CallType' /\ ServerType' /\ QueueSafe'
           /\ ~answered /\ (~answered' => seen' >= seen)
<1>a. Type /\ ServerType /\ CallType /\ QueueInv /\ ReportInv /\ MaxSource \in Nat
  BY TransferAssumption DEF AllTypes, QueueSafe, TransferAssumption
<1>b. /\ 1 \in DOMAIN deliveries
      /\ deliveries' = SubSeq(deliveries, 1, 1 - 1) \o SubSeq(deliveries, 1 + 1, Len(deliveries))
      /\ UNCHANGED <<kind, attempts, pc, completed, cancelled, torn, up, status, refusal>>
  BY DEF Deliver, DeliverAt, server, attempt, Sizes
<1>c. ~answered /\ Len(deliveries) \in Nat /\ Len(deliveries) >= 1
  BY <1>a, <1>b DEF QueueInv, CallType
<1>d. /\ deliveries' \in Seq(Block) /\ Len(deliveries') = Len(deliveries) - 1
      /\ \A i \in 1..Len(deliveries') : deliveries'[i] = deliveries[i + 1]
  BY <1>a, <1>b, WithoutFirst DEF CallType
<1>e. \A i \in 1..Len(deliveries) : deliveries[i].progress \in 0..MaxSource /\ deliveries[i].result \in Results
  BY <1>a, BlockAt DEF CallType
<1>s. ServerType'
  BY <1>a, <1>b DEF ServerType
<1>1. CASE deliveries[1].result = "none"
  <2>1. seen' = deliveries[1].progress /\ UNCHANGED <<answered, outcome>>
    BY <1>1 DEF Deliver, DeliverAt
  <2>2. Reports >= 1 /\ Reports \in Nat /\ Reports <= Len(deliveries)
    BY <1>a, <1>c, <1>1 DEF QueueInv, Reports
  <2>3. Reports' = Reports - 1
    BY <1>b, <1>c, <1>d, <2>1 DEF Reports
  <2>4. CallType'
    BY <1>a, <1>b, <1>c, <1>d, <1>e, <2>1 DEF CallType
  <2>5. pc' = "idle" => Len(deliveries') > 0
    BY <1>b, <1>c, <1>d, <2>2 DEF Reports
  <2>6. \A i \in 1..Len(deliveries') : deliveries'[i].result = "none" <=> i <= Reports'
    BY <1>a, <1>c, <1>d, <2>2, <2>3 DEF QueueInv
  <2>7. QueueInv'
    BY <1>a, <1>b, <1>c, <2>1, <2>5, <2>6 DEF QueueInv
  <2>8. \A i \in 1..Reports' : deliveries'[i].progress = deliveries[i + 1].progress /\ i + 1 \in 1..Reports
    BY <1>c, <1>d, <2>2, <2>3
  <2>9. /\ \A i, j \in 1..Reports' : i <= j => deliveries'[i].progress <= deliveries'[j].progress
        /\ \A i \in 1..Reports' : seen' <= deliveries'[i].progress
    BY <1>a, <2>1, <2>2, <2>3, <2>8 DEF ReportInv
  <2>10. Reports' > 0 => deliveries'[Reports'].progress = completed'
    BY <1>a, <1>b, <2>2, <2>3, <2>8 DEF ReportInv
  <2>11. Reports' = 0 => seen' = completed'
    BY <1>a, <1>b, <2>1, <2>2, <2>3 DEF ReportInv
  <2>k. pc' \in Copying \cup Closing \cup {"idle"} /\ kind' \notin {"read", "write"}
    BY <1>a, <1>b, <2>2 DEF ReportInv
  <2>12. ReportInv'
    BY <2>k, <2>9, <2>10, <2>11 DEF ReportInv
  <2>13. seen' >= seen
    BY <1>a, <1>e, <1>c, <2>1, <2>2 DEF ReportInv, CallType
  <2> QED
    BY <1>s, <1>c, <2>4, <2>7, <2>12, <2>13 DEF QueueSafe
<1>2. CASE deliveries[1].result # "none"
  <2>1. /\ answered' = TRUE /\ outcome' = (IF cancelled THEN "cancelled" ELSE deliveries[1].result)
        /\ UNCHANGED seen
    BY <1>2 DEF Deliver, DeliverAt
  <2>r. ~(1 <= Reports)
    BY <1>a, <1>c, <1>2 DEF QueueInv
  <2>2. pc = "idle" /\ Len(deliveries) = 1 /\ Reports = 0
    <3>1. CASE pc = "idle"
      <4>1. Reports = Len(deliveries) - 1
        BY <1>c, <3>1 DEF Reports
      <4> QED
        BY <1>c, <2>r, <3>1, <4>1
    <3>2. CASE pc # "idle"
      <4>1. Reports = Len(deliveries)
        BY <3>2 DEF Reports
      <4> QED
        BY <1>c, <2>r, <4>1
    <3> QED
      BY <3>1, <3>2
  <2>3. Len(deliveries') = 0 /\ deliveries' = <<>> /\ Reports' = 0
    BY <1>d, <2>1, <2>2 DEF Reports
  <2>4. CallType'
    <3>1. outcome' \in {"none", "success", "failure", "denied", "cancelled"}
      BY <1>c, <1>e, <2>1 DEF Results
    <3> QED
      BY <1>a, <1>b, <1>d, <2>1, <3>1 DEF CallType
  <2>5. QueueInv'
    BY <1>a, <1>b, <2>1, <2>2, <2>3 DEF QueueInv
  <2>6. ReportInv'
    BY <1>a, <1>b, <2>1, <2>2, <2>3 DEF ReportInv
  <2> QED
    BY <1>s, <1>c, <2>1, <2>4, <2>5, <2>6 DEF QueueSafe
<1> QED
  BY <1>1, <1>2

LEMMA CallQueue ==
    ASSUME NEW r \in BOOLEAN, AllTypes, QueueSafe, Call(r)
    PROVE  CallType' /\ ServerType' /\ QueueSafe'
<1>a. Type /\ ServerType /\ CallType /\ MaxSource \in Nat /\ MaxAttempts \in Nat
  BY TransferAssumption DEF AllTypes, TransferAssumption
<1>1. /\ pc' # "idle" /\ pc' \notin Copying \cup Closing
      /\ completed' = 0 /\ up' = TRUE /\ status' \in {status, "ok"} /\ refusal' = "none"
      /\ attempts' = attempts + 1 /\ attempts < MaxAttempts
      /\ deliveries' = <<>> /\ seen' = 0
      /\ cancelled' = FALSE /\ answered' = FALSE /\ torn' = FALSE /\ outcome' = "none"
  BY DEF Call, Copying, Closing
<1>2. CallType' /\ ServerType'
  <2>1. ServerType'
    BY <1>a, <1>1 DEF ServerType
  <2>2. deliveries' \in Seq(Block)
    BY <1>1
  <2>3. attempts' \in 0..MaxAttempts /\ seen' \in 0..MaxSource
    BY <1>a, <1>1 DEF CallType
  <2> QED
    BY <1>1, <2>1, <2>2, <2>3 DEF CallType
<1>3. Len(deliveries') = 0 /\ Reports' = 0
  BY <1>1 DEF Reports
<1>4. QueueInv' /\ ReportInv'
  BY <1>1, <1>3 DEF QueueInv, ReportInv
<1> QED
  BY <1>2, <1>4 DEF QueueSafe

LEMMA CancelQueue == AllTypes /\ QueueSafe /\ Cancel => CallType' /\ ServerType' /\ QueueSafe'
<1> SUFFICES ASSUME AllTypes, QueueSafe, Cancel PROVE CallType' /\ ServerType' /\ QueueSafe'
  OBVIOUS
<1>a. Type /\ ServerType /\ CallType /\ QueueInv /\ ReportInv
  BY DEF AllTypes, QueueSafe
<1>1. /\ UNCHANGED <<kind, attempts, pc, completed, deliveries, seen, answered, outcome, status, refusal>>
      /\ ~cancelled /\ cancelled' = TRUE /\ torn' \in {torn, TRUE} /\ up' \in {up, FALSE}
      /\ (answered => UNCHANGED torn)
  BY DEF Cancel, attempt, Sizes
<1>2. CallType' /\ ServerType'
  BY <1>a, <1>1 DEF CallType, ServerType
<1>3. QueueInv' /\ ReportInv'
  BY <1>a, <1>1 DEF QueueInv, ReportInv, Reports
<1> QED
  BY <1>2, <1>3 DEF QueueSafe

LEMMA RestQueue ==
    ASSUME AllTypes, QueueSafe, UNCHANGED <<server, swift, attempt, pc, completed>>
    PROVE  CallType' /\ ServerType' /\ QueueSafe'
BY DEF AllTypes, QueueSafe, CallType, ServerType, QueueInv, ReportInv, Reports, server, swift, attempt

LEMMA QueueNext == AllTypes /\ Type' /\ QueueSafe /\ [Next]_vars => CallType' /\ ServerType' /\ QueueSafe'
<1> SUFFICES ASSUME AllTypes, Type', QueueSafe, [Next]_vars PROVE CallType' /\ ServerType' /\ QueueSafe'
  OBVIOUS
<1>1. CASE AttemptStep
  BY <1>1, AttemptQueue
<1>2. CASE Grow \/ LateWrite \/ UNCHANGED vars
  <2>1. UNCHANGED <<server, swift, attempt, pc, completed>>
    BY <1>2 DEF Grow, LateWrite, vars, Sizes
  <2> QED
    BY <2>1, RestQueue
<1>3. CASE Cancel
  BY <1>3, CancelQueue
<1>4. CASE Deliver
  BY <1>4, DeliverQueue
<1>5. ASSUME NEW r \in BOOLEAN, Call(r) PROVE CallType' /\ ServerType' /\ QueueSafe'
  BY <1>5, CallQueue
<1> QED
  BY <1>1, <1>2, <1>3, <1>4, <1>5 DEF Next

-----------------------------------------------------------------------------
(***************************************************************************)
(* The theorems.                                                           *)
(***************************************************************************)

LEMMA InvInit == Init => TransferInv
<1> SUFFICES ASSUME Init PROVE TransferInv
  OBVIOUS
<1>a. MaxSource \in Nat /\ MaxAttempts \in Nat /\ MaxRead \in Nat /\ Chunk \in Nat \ {0}
      /\ kind \in Kinds /\ kind \in {"read", "write", "download", "upload"}
      /\ source \in 0..MaxSource
  BY TransferAssumption DEF TransferAssumption, Init
<1>1. /\ dest \in Seq(0..MaxSource) /\ Len(dest) <= MaxSource
      /\ (\A i \in 1..Len(dest) : dest[i] = i) => Len(dest) <= source
  <2>1. CASE dest \in {Blocks(n) : n \in 0..source}
    <3>1. PICK n \in 0..source : dest = Blocks(n)
      BY <2>1
    <3>2. n \in Nat /\ n <= source /\ \A i \in 1..n : i \in 0..MaxSource
      BY <1>a
    <3>3. dest = [i \in 1..n |-> i]
      BY <3>1 DEF Blocks
    <3>4. dest \in Seq(0..MaxSource) /\ Len(dest) = n
      BY <3>2, <3>3
    <3> QED
      BY <1>a, <3>2, <3>4
  <2>2. CASE dest \in {[i \in 1..n |-> 0] : n \in 1..MaxSource}
    <3>1. PICK n \in 1..MaxSource : dest = [i \in 1..n |-> 0]
      BY <2>2
    <3>2. dest \in Seq(0..MaxSource) /\ Len(dest) = n /\ dest[1] = 0 /\ 1 \in 1..n
      BY <1>a, <3>1
    <3> QED
      BY <1>a, <3>2
  <2> QED
    BY <2>1, <2>2 DEF Init
<1>2. dest \in Seq(Nat)
  <2>1. \A i \in 1..Len(dest) : dest[i] \in Nat
    BY <1>1, <1>a, ElementOfSeq
  <2>2. dest = [i \in 1..Len(dest) |-> dest[i]] /\ Len(dest) \in Nat
    BY <1>1, LenProperties
  <2> QED
    BY <2>1, <2>2
<1>3. intact => (\A i \in 1..Len(dest) : dest[i] = i) /\ Len(dest) <= source
  BY <1>1, <1>2, Parts DEF Init
<1>4. intact \in BOOLEAN /\ (kind = "read" => intact /\ Len(dest) = 0)
  <2>1. intact \in BOOLEAN
    BY DEF Init, IsPart
  <2>2. ASSUME kind = "read" PROVE intact /\ Len(dest) = 0
    <3>1. dest = <<>> /\ Len(dest) = 0
      BY <2>2 DEF Init
    <3>2. IsPart(dest)
      <4>1. \A i \in 1..Len(dest) : dest[i] = i
        BY <3>1
      <4> QED
        BY <1>2, <4>1, Parts
    <3> QED
      BY <3>1, <3>2 DEF Init
  <2> QED
    BY <2>1, <2>2
<1>5. TypeOK /\ SeqType
  <2>0. /\ resume = FALSE /\ attempts = 0 /\ pc = "idle" /\ total = 0 /\ completed = 0 /\ chunk = 0 /\ late = 0
        /\ localFile = FALSE /\ remoteFile = FALSE /\ up = TRUE /\ status = "ok" /\ refusal = "none"
        /\ result = "none" /\ deliveries = <<>> /\ seen = 0
        /\ cancelled = FALSE /\ answered = TRUE /\ torn = FALSE /\ outcome = "none"
    BY DEF Init
  <2>n. 0 \in 0..MaxSource /\ 0 \in 0..Chunk /\ 0 \in 0..MaxAttempts
    BY <1>a
  <2>1. Type
    <3>1. {resume, intact, localFile, remoteFile} \subseteq BOOLEAN
      BY <1>4, <2>0
    <3> QED
      BY <1>a, <1>1, <2>0, <2>n, <3>1 DEF Type, Pcs, Results
  <2>2. ServerType /\ CallType
    <3>1. deliveries \in Seq(Block)
      BY <2>0
    <3> QED
      BY <2>0, <2>n, <3>1 DEF ServerType, CallType
  <2> QED
    BY <2>1, <2>2, TypesAre DEF AllTypes
<1>6. PathInv /\ SizeInv /\ FreshInv /\ LateInv
  BY <1>a DEF Init, PathInv, SizeInv, FreshInv, LateInv, Uploads, WorksOn, Copying, Closing
<1>7. PlaceInv /\ IntactInv
  BY <1>a, <1>3, <1>4 DEF Init, PlaceInv, IntactInv, PartInv, Uploads, WorksOn, Copying, Closing
<1>8. Len(deliveries) = 0 /\ Reports = 0
  BY DEF Init, Reports
<1>9. QueueInv /\ ReportInv
  BY <1>8 DEF Init, QueueInv, ReportInv
<1> QED
  BY <1>5, <1>6, <1>7, <1>9 DEF TransferInv, DestInv

LEMMA InvNext == TransferInv /\ [Next]_vars => TransferInv'
<1> SUFFICES ASSUME TransferInv, [Next]_vars PROVE TransferInv'
  OBVIOUS
<1>1. AllTypes /\ DestInv /\ QueueSafe
  BY TypesAre DEF TransferInv, QueueSafe
<1>2. Type' /\ DestInv'
  BY <1>1, DestNext DEF AllTypes
<1>3. CallType' /\ ServerType' /\ QueueSafe'
  BY <1>1, <1>2, QueueNext
<1>4. AllTypes'
  BY <1>2, <1>3 DEF AllTypes
<1>5. (TypeOK /\ SeqType)'
  BY <1>4, TypesAre, PTL
<1> QED
  BY <1>2, <1>3, <1>5 DEF TransferInv, QueueSafe

\* The inductive invariant: where the attempt is, what the destination then holds, what an
\* older attempt may still write to it, and what the delivery queue still holds.
THEOREM TransferInvariant == Spec => []TransferInv
BY InvInit, InvNext, PTL DEF Spec

\* A transfer that succeeds has delivered the source, one that fails has left what the next
\* can resume, either has closed its files, a read keeps to its limit, and a cancelled task
\* tears no connection down whose call was answered (SSHCoreLibSSHSFTPRuntime+Transfer.m).
THEOREM TransferExact == Spec => []TransferIsExact
<1>1. TransferInv => TransferIsExact
  <2> SUFFICES ASSUME TransferInv PROVE TransferIsExact
    OBVIOUS
  <2>a. Type /\ KindAssumption /\ DestInv /\ QueueInv /\ TypeOK
    BY TypeParts, KindIs DEF TransferInv
  <2>1. /\ dest \in Seq(Nat) /\ Len(dest) \in Nat /\ source \in Nat /\ total \in Nat /\ completed \in Nat
        /\ source <= MaxSource
    BY <2>a DEF Type, KindAssumption
  <2>2. StaysResumable
    BY <2>a, <2>1, Parts DEF StaysResumable, DestInv, IntactInv, PartInv
  <2>3. SuccessIsExact
    <3> SUFFICES ASSUME result = "success", ~resume \/ intact
                 PROVE  IsPart(dest) /\ Len(dest) \in total..source
      BY DEF SuccessIsExact
    <3>1. WorksOn /\ total <= completed /\ completed <= Len(dest)
      BY <2>a, <2>1 DEF DestInv, SizeInv, PlaceInv, WorksOn, KindAssumption
    <3>2. CASE intact
      BY <2>1, <2>2, <3>1, <3>2 DEF StaysResumable
    <3>3. CASE Uploads /\ ~resume
      <4>1. Len(dest) <= completed /\ Len(dest) <= source
        BY <2>a, <3>1, <3>3 DEF DestInv, LateInv, FreshInv, Fresh
      <4>2. \A i \in 1..Len(dest) : dest[i] = i
        BY <2>a, <2>1, <3>1, <3>3, <4>1 DEF DestInv, FreshInv, Fresh
      <4> QED
        BY <2>1, <3>1, <4>1, <4>2, Parts
    <3>4. CASE ~Uploads /\ ~resume
      BY <2>a, <3>1, <3>2, <3>4 DEF DestInv, IntactInv
    <3> QED
      BY <3>2, <3>3, <3>4
  <2>4. FilesClosed
    BY <2>a DEF FilesClosed, DestInv, PathInv
  <2>5. ReadIsBounded
    BY <2>a DEF ReadIsBounded, DestInv, IntactInv, PartInv
  <2>6. TornMeansCancelled
    BY <2>a DEF TornMeansCancelled, QueueInv
  <2> QED
    BY <2>a, <2>2, <2>3, <2>4, <2>5, <2>6 DEF TransferIsExact
<1> QED
  BY <1>1, TransferInvariant, PTL

LEMMA SeenSteps ==
    TransferInv /\ [Next]_vars =>
        /\ ~answered /\ ~answered' => seen' >= seen
        /\ answered /\ answered' => seen' = seen
<1> SUFFICES ASSUME TransferInv, [Next]_vars
             PROVE  /\ ~answered /\ ~answered' => seen' >= seen
                    /\ answered /\ answered' => seen' = seen
  OBVIOUS
<1>a. AllTypes /\ Type /\ ServerType /\ QueueSafe /\ seen \in Nat
  BY TypesAre DEF TransferInv, QueueSafe, AllTypes, CallType
<1>1. CASE AttemptStep
  <2>1. UNCHANGED seen
    BY <1>1, <1>a, AttemptShape DEF Keeps
  <2> QED
    BY <1>a, <2>1
<1>2. CASE Grow \/ LateWrite \/ Cancel \/ UNCHANGED vars
  <2>1. UNCHANGED seen
    BY <1>2 DEF Grow, LateWrite, Cancel, vars, swift
  <2> QED
    BY <1>a, <2>1
<1>3. CASE Deliver
  BY <1>3, <1>a, DeliverQueue
<1>4. ASSUME NEW r \in BOOLEAN, Call(r) PROVE answered /\ ~answered'
  BY <1>4 DEF Call
<1> QED
  BY <1>1, <1>2, <1>3, <1>4 DEF Next

\* Progress is delivered in the order of the copying, none after the result, and the last one
\* before a success counts every block: the purpose of makeTransferDeliveryQueue.
THEOREM TransferProgress == Spec => ProgressInOrder
<1>1. TransferInv => (outcome = "success" => seen \in {0, completed})
  <2> SUFFICES ASSUME TransferInv, outcome = "success" PROVE seen \in {0, completed}
    OBVIOUS
  <2>1. answered /\ deliveries = <<>>
    BY DEF TransferInv, QueueInv
  <2>2. Reports = 0
    BY <2>1 DEF Reports
  <2> QED
    BY <2>2 DEF TransferInv, ReportInv
<1> QED
  BY <1>1, SeenSteps, TransferInvariant, PTL DEF Spec, ProgressInOrder

=============================================================================
