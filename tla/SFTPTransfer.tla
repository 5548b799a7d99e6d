---------------------------- MODULE SFTPTransfer ----------------------------
(***************************************************************************)
(* The transfers of an SFTP client: readFile, writeFile, upload and        *)
(* download, the last two with resume, tried again and again over          *)
(* connections that break.  The source is the sequence 1..source of        *)
(* blocks, to which somebody may append; in the destination, 0 stands for  *)
(* a block that is not the source's.  A write whose reply was lost may     *)
(* have reached the server, or may reach it while a later attempt runs.    *)
(***************************************************************************)
EXTENDS Naturals, Sequences

CONSTANTS
    Kinds,           \* of "read", "write", "download", "upload"
    MaxSource,       \* bound on the length of the source
    Chunk,           \* the 32768-byte buffer, in blocks
    MaxRead,         \* SSHCoreSFTPMaximumReadFileSize, in blocks
    MaxAttempts      \* bound on the calls of the application

ASSUME TransferAssumption ==
    /\ Kinds \subseteq {"read", "write", "download", "upload"}
    /\ {MaxSource, MaxRead, MaxAttempts} \subseteq Nat /\ Chunk \in Nat \ {0}

VARIABLES
    kind,
    source,          \* length of the source
    dest,            \* the destination
    intact,          \* no late write of an older attempt has left a hole in it
    late,            \* a block on its way to the server from an earlier attempt, or 0
    resume,          \* the attempt's parameter
    attempts,
    pc,              \* where the attempt is in its block
    total, completed,
    chunk,           \* blocks fetched and not yet stored
    localFile, remoteFile,   \* they are open
    up,              \* the connection works
    status,          \* sftp_get_error: what the server last answered
    refusal,         \* what the server refused this attempt with
    result,          \* what the attempt passed to its completion
    deliveries,      \* the delivery queue: progress blocks, and the result
    seen,            \* the last progress delivered
    cancelled, answered,     \* the SSHAsyncCancellationBox
    torn,            \* its handler tore the connection down
    outcome          \* what the caller got

files   == <<dest, intact, late>>
server  == <<up, status, refusal>>
swift   == <<deliveries, seen, cancelled, answered, torn, outcome>>
attempt == <<kind, resume, attempts>>
vars == <<source, files, server, swift, attempt, pc, total, completed, chunk, localFile, remoteFile, result>>

Uploads == kind \in {"upload", "write"}

\* The first n blocks of the source.
Blocks(n) == [i \in 1..n |-> i]
IsPart(d) == d = Blocks(Len(d))

Init ==
    /\ kind \in Kinds /\ source \in 0..MaxSource
    /\ dest \in {Blocks(n) : n \in 0..source} \cup {[i \in 1..n |-> 0] : n \in 1..MaxSource}
    /\ kind = "read" => dest = <<>>
    /\ intact = IsPart(dest) /\ late = 0
    /\ resume = FALSE /\ attempts = 0 /\ pc = "idle"
    /\ total = 0 /\ completed = 0 /\ chunk = 0 /\ localFile = FALSE /\ remoteFile = FALSE
    /\ up = TRUE /\ status = "ok" /\ refusal = "none" /\ result = "none"
    /\ deliveries = <<>> /\ seen = 0
    /\ cancelled = FALSE /\ answered = TRUE /\ torn = FALSE /\ outcome = "none"

-----------------------------------------------------------------------------
(***************************************************************************)
(* How an attempt ends.                                                    *)
(***************************************************************************)

\* A block of the delivery queue: completedBytes of a progress, or a result.
Delivery(n, r) == [progress |-> n, result |-> r]

Answer(r) == pc' = "idle" /\ result' = r /\ deliveries' = Append(deliveries, Delivery(0, r))

CloseLocal  == localFile' = FALSE

\* sftp_close frees the handle in any case; the server's answer becomes the status.
CloseRemote(statuses) ==
    /\ remoteFile' = FALSE
    /\ status' \in IF up' /\ remoteFile THEN {"ok"} ELSE statuses

\* sftpErrorForOperation: reads the status.
ErrorCode(st) == IF st = "denied" THEN "denied" ELSE "failure"

\* A call of libssh fails: the server refuses it, or the answer is lost, by a time-out or
\* with the connection, and then the status of an older call may remain.
Refused == up /\ refusal' \in {"denied", "other"} /\ UNCHANGED up
Lost    == up' \in {FALSE, up} /\ UNCHANGED refusal
FailedStatuses == IF refusal' = "none" THEN {status, "other"} ELSE {refusal'}

Failure == Refused \/ Lost

\* Variant: the error path of the server's answers forgets the local file.
FailRemotelyOnly == UNCHANGED localFile /\ CloseRemote(FailedStatuses) /\ Answer(ErrorCode(status'))

\* The attempt closes what it has open and fails: because of the server ...
FailRemotely == CloseLocal /\ CloseRemote(FailedStatuses) /\ Answer(ErrorCode(status'))
\* ... or of the local file or the sizes.
FailLocally == UNCHANGED <<up, refusal>> /\ CloseLocal /\ CloseRemote({status}) /\ Answer("failure")

Sizes == <<total, completed, chunk>>
Rest  == <<source, attempt, seen, cancelled, answered, torn, outcome>>

\* The attempt goes on, and only the step's own variables change.
Goes(to) == pc' = to /\ UNCHANGED <<result, deliveries>>

-----------------------------------------------------------------------------
(***************************************************************************)
(* The attempt, a block of the worker.                                     *)
(***************************************************************************)

\* Variant: an upload truncates even when it is resumed.
TruncatesAlways == kind = "read" \/ Uploads

\* sftp_open of an upload's destination truncates it unless it is resumed; a read starts
\* with no data.
Truncates == kind = "read" \/ (Uploads /\ ~resume)

\* sftp_open.  A truncation whose reply was lost was done, or is not done at all.
OpenRemote ==
    /\ pc = "open"
    /\ \/ /\ up /\ remoteFile' = TRUE
          /\ IF Truncates THEN dest' = <<>> /\ intact' = TRUE ELSE UNCHANGED <<dest, intact>>
          /\ Goes(CASE kind = "upload" -> "offsets" [] kind = "write" -> "fetch" [] OTHER -> "stat")
          /\ UNCHANGED <<server, localFile>>
       \/ Failure /\ FailRemotely /\ UNCHANGED <<dest, intact>>
       \/ up /\ Lost /\ FailRemotely /\ Truncates /\ dest' = <<>> /\ intact' = TRUE
    /\ UNCHANGED <<Rest, Sizes, late>>

\* sftp_stat: the size of the source, or, to resume an upload, of the destination.
StatRemote ==
    /\ pc = "stat"
    /\ \/ /\ up
          /\ IF kind = "upload" THEN completed' = Len(dest) /\ UNCHANGED total
                                ELSE total' = source /\ UNCHANGED completed
          /\ \/ /\ ~(kind = "read" /\ source > MaxRead)
                /\ Goes(CASE kind = "upload" -> "open" [] kind = "read" -> "fetch" [] OTHER -> "local")
                /\ UNCHANGED <<server, localFile, remoteFile>>
             \/ kind = "read" /\ source > MaxRead /\ FailLocally
       \/ Failure /\ FailRemotely /\ UNCHANGED <<total, completed>>
    /\ UNCHANGED <<Rest, files, chunk>>

\* open, of a download's destination or of an upload's source.
OpenLocal ==
    /\ pc = "local"
    /\ \/ /\ localFile' = TRUE
          /\ IF kind = "download"
             THEN /\ IF resume THEN UNCHANGED <<dest, intact>> ELSE dest' = <<>> /\ intact' = TRUE
                  /\ Goes("offsets") /\ UNCHANGED total
             ELSE /\ total' = source
                  /\ Goes(IF resume THEN "stat" ELSE "open") /\ UNCHANGED <<dest, intact>>
          /\ UNCHANGED <<server, remoteFile>>
       \/ FailLocally /\ UNCHANGED <<total, dest, intact>>
    /\ UNCHANGED <<Rest, late, completed, chunk>>

\* Variant: a resumed download reads its source from the start.
OffsetAsTold == completed

\* Where to resume: a download at the end of its destination, an upload at the size it was told.
Offset == IF resume /\ kind = "download" THEN Len(dest) ELSE completed

Offsets ==
    /\ pc = "offsets"
    /\ completed' = Offset
    /\ \/ Offset <= total /\ Goes("fetch") /\ UNCHANGED <<server, localFile, remoteFile>>
       \/ resume /\ FailLocally       \* too large, or the seek fails
    /\ UNCHANGED <<Rest, files, total, chunk>>

\* The data that is left; writeFile has it in memory.
Left == (IF kind = "write" THEN total ELSE source) - completed

\* Reads a chunk of the source; less than there is only over the network.
Fetch ==
    /\ pc = "fetch" /\ Left > 0
    /\ \/ /\ Uploads \/ up
          /\ \E n \in 1..Chunk :
                 /\ n <= Left /\ (Uploads => n = Chunk \/ n = Left)
                 /\ chunk' = n
          /\ Goes("store")
          /\ UNCHANGED <<server, localFile, remoteFile>>
       \/ kind = "upload" /\ FailLocally /\ UNCHANGED chunk
       \/ ~Uploads /\ Failure /\ FailRemotely /\ UNCHANGED chunk
    /\ UNCHANGED <<Rest, files, total, completed>>

\* The end of the source: nothing is read, or nothing remains to be written.
EndOfSource ==
    /\ pc = "fetch" /\ Left <= 0
    /\ \/ /\ Uploads \/ up
          /\ status' = IF Uploads THEN status ELSE "other"
          /\ Goes(IF localFile THEN "closeLocal" ELSE "closeRemote")
          /\ UNCHANGED <<up, refusal, localFile, remoteFile>>
       \/ ~Uploads /\ Failure /\ FailRemotely
    /\ UNCHANGED <<Rest, files, Sizes>>

\* n blocks of the source from position p on; what lies between the end and p is a hole.
Written(d, p, n) ==
    [i \in 1..(IF Len(d) > p + n THEN Len(d) ELSE p + n) |->
        IF i \in p+1..p+n THEN i ELSE IF i \in DOMAIN d THEN d[i] ELSE 0]

\* Variant: a short write counts as a whole one.
ProgressByChunk(n) ==
    /\ completed' = completed + chunk /\ chunk' = chunk - n
    /\ deliveries' = IF kind \in {"download", "upload"}
                     THEN Append(deliveries, Delivery(completed + chunk, "none"))
                     ELSE deliveries
    /\ pc' = (IF chunk = n THEN "fetch" ELSE "store") /\ UNCHANGED result

\* The progress handler, of a download or an upload, queues a block, and the loop goes on.
Progress(n) ==
    /\ completed' = completed + n /\ chunk' = chunk - n
    /\ deliveries' = IF kind \in {"download", "upload"}
                     THEN Append(deliveries, Delivery(completed + n, "none"))
                     ELSE deliveries
    /\ pc' = (IF chunk = n THEN "fetch" ELSE "store") /\ UNCHANGED result

\* Variant: only the size that stat answered is compared with the limit.
ExceedsByStat == kind = "read" /\ total > MaxRead

\* readFile checks its limit again before it appends.
Exceeds == kind = "read" /\ Len(dest) + chunk > MaxRead

\* A download appends the chunk; a write that is short has written what it could.
StoreLocal ==
    /\ pc = "store" /\ ~Uploads
    /\ \/ /\ ~Exceeds
          /\ dest' = dest \o [i \in 1..chunk |-> completed + i]
          /\ Progress(chunk) /\ UNCHANGED <<server, localFile, remoteFile>>
       \/ /\ kind = "download" /\ \E n \in 0..chunk-1 : dest' = dest \o [i \in 1..n |-> completed + i]
          /\ FailLocally /\ UNCHANGED <<completed, chunk>>
       \/ /\ Exceeds
          /\ FailLocally /\ UNCHANGED <<dest, completed, chunk>>
    /\ UNCHANGED <<Rest, total, late, intact>>

\* sftp_write, at the position of the handle.  When the reply is lost, the write was done,
\* will be done, or never is.
StoreRemote ==
    /\ pc = "store" /\ Uploads
    /\ \/ /\ up
          /\ \E n \in 1..chunk : dest' = Written(dest, completed, n) /\ Progress(n)
          /\ status' = "ok" /\ UNCHANGED <<up, refusal, localFile, remoteFile, late>>
       \/ Refused /\ FailRemotely /\ UNCHANGED <<dest, late, completed, chunk>>
       \/ up /\ FailLocally /\ UNCHANGED <<dest, late, completed, chunk>>     \* it made no progress
       \/ /\ Lost /\ FailRemotely
          /\ \/ up /\ dest' = Written(dest, completed, 1) /\ UNCHANGED late
             \/ up /\ late = 0 /\ late' = completed + 1 /\ UNCHANGED dest
             \/ UNCHANGED <<dest, late>>
          /\ UNCHANGED <<completed, chunk>>
    /\ UNCHANGED <<Rest, total, intact>>

CloseLocalFile ==
    /\ pc = "closeLocal"
    /\ \/ CloseLocal /\ Goes("closeRemote") /\ UNCHANGED <<server, remoteFile>>
       \/ FailLocally
    /\ UNCHANGED <<Rest, files, Sizes>>

CloseRemoteFile ==
    /\ pc = "closeRemote" /\ remoteFile' = FALSE
    /\ \/ up /\ status' = "ok" /\ Answer("success") /\ UNCHANGED <<up, refusal>>
       \/ Failure /\ status' \in FailedStatuses /\ Answer(ErrorCode(status'))
    /\ UNCHANGED <<Rest, files, Sizes, localFile>>

-----------------------------------------------------------------------------
(***************************************************************************)
(* The rest of the world, and the Swift layer.                             *)
(***************************************************************************)

\* Somebody appends to the source; writeFile has its own copy.
Grow ==
    /\ kind # "write" /\ source < MaxSource /\ source' = source + 1
    /\ UNCHANGED <<files, server, swift, attempt, pc, Sizes, localFile, remoteFile, result>>

\* The server gets round to a write of a connection that is gone.
LateWrite ==
    /\ late # 0 /\ late' = 0
    /\ dest' = Written(dest, late - 1, 1)
    /\ intact' = (intact /\ late <= Len(dest) + 1)
    /\ UNCHANGED <<source, server, swift, attempt, pc, Sizes, localFile, remoteFile, result>>

\* The application tries (again), over a new connection if the last one is gone.
Call(r) ==
    /\ pc = "idle" /\ answered /\ attempts < MaxAttempts
    /\ r => kind \in {"download", "upload"}
    /\ attempts' = attempts + 1 /\ resume' = r
    /\ pc' = (IF kind = "upload" THEN "local" ELSE "open")
    /\ total' = source /\ completed' = 0 /\ chunk' = 0
    /\ up' = TRUE /\ status' = (IF up THEN status ELSE "ok") /\ refusal' = "none"
    /\ result' = "none" /\ deliveries' = <<>> /\ seen' = 0
    /\ cancelled' = FALSE /\ answered' = FALSE /\ torn' = FALSE /\ outcome' = "none"
    /\ UNCHANGED <<kind, source, files, localFile, remoteFile>>

\* Variant: cancelling does not ask whether the call was answered.
CancelAlways ==
    /\ attempts > 0 /\ ~cancelled /\ cancelled' = TRUE
    /\ torn' = TRUE /\ up' = FALSE
    /\ UNCHANGED <<source, files, status, refusal, deliveries, seen, answered, outcome,
                   attempt, pc, Sizes, localFile, remoteFile, result>>

\* The task is cancelled; its handler disconnects unless the call was answered.
Cancel ==
    /\ attempts > 0 /\ ~cancelled /\ cancelled' = TRUE
    /\ IF answered THEN UNCHANGED <<torn, up>> ELSE torn' = TRUE /\ up' = FALSE
    /\ UNCHANGED <<source, files, status, refusal, deliveries, seen, answered, outcome,
                   attempt, pc, Sizes, localFile, remoteFile, result>>

\* One block of the delivery queue, which is serial.
DeliverAt(i) ==
    /\ i \in DOMAIN deliveries
    /\ deliveries' = SubSeq(deliveries, 1, i - 1) \o SubSeq(deliveries, i + 1, Len(deliveries))
    /\ IF deliveries[i].result = "none"
       THEN seen' = deliveries[i].progress /\ UNCHANGED <<answered, outcome>>
       ELSE /\ answered' = TRUE
            /\ outcome' = (IF cancelled THEN "cancelled" ELSE deliveries[i].result)
            /\ UNCHANGED seen
    /\ UNCHANGED <<source, files, server, cancelled, torn, attempt, pc, Sizes, localFile, remoteFile, result>>

\* Variant: the blocks go to the callback queue, which may be concurrent.
DeliverAny == \E i \in DOMAIN deliveries : DeliverAt(i)

Deliver == DeliverAt(1)

-----------------------------------------------------------------------------
AttemptStep ==
    \/ OpenRemote \/ StatRemote \/ OpenLocal \/ Offsets \/ Fetch \/ EndOfSource
    \/ StoreLocal \/ StoreRemote \/ CloseLocalFile \/ CloseRemoteFile

Next == AttemptStep \/ Grow \/ LateWrite \/ Cancel \/ Deliver \/ \E r \in BOOLEAN : Call(r)

Spec == Init /\ [][Next]_vars

-----------------------------------------------------------------------------
(***************************************************************************)
(* Properties.                                                             *)
(***************************************************************************)

\* Every variable has its type.
TypeOK ==
    /\ kind \in Kinds /\ source \in 0..MaxSource /\ {late, total, completed, seen} \subseteq 0..MaxSource
    /\ \A i \in DOMAIN dest : dest[i] \in 0..MaxSource
    /\ {resume, intact, localFile, remoteFile, up, cancelled, answered, torn} \subseteq BOOLEAN
    /\ attempts \in 0..MaxAttempts /\ chunk \in 0..Chunk
    /\ pc \in {"idle", "open", "stat", "local", "offsets", "fetch", "store", "closeLocal", "closeRemote"}
    /\ status \in {"ok", "other", "denied"} /\ refusal \in {"none", "denied", "other"}
    /\ result \in {"none", "success", "failure", "denied"}
    /\ outcome \in {"none", "success", "failure", "denied", "cancelled"}

\* A transfer that succeeds has delivered the source, after whatever attempts before it
\* that failed, were cancelled or lost a reply (downloadRemotePath:, uploadLocalPath:).
\* A resume cannot know what it resumes: it is exact when the destination was a part of the
\* source and no write of an older attempt came so late as to leave a hole.
SuccessIsExact ==
    result = "success" /\ (~resume \/ intact) => IsPart(dest) /\ Len(dest) \in total..source

\* A destination that was a part of the source remains one at every moment, so that the
\* next attempt may resume it.
StaysResumable == intact => IsPart(dest) /\ Len(dest) <= source

\* However an attempt ends, it has closed both files (the error paths of +Transfer.m).
FilesClosed == pc = "idle" => ~localFile /\ ~remoteFile

\* readFile never returns more than its limit, even of a file that grows while it reads.
ReadIsBounded == kind = "read" => Len(dest) <= MaxRead

\* Progress is delivered in order, and none after the result: the purpose of the delivery
\* queue (makeTransferDeliveryQueue).  The last one of a success counts every byte.
ProgressInOrder ==
    /\ [][~answered /\ ~answered' => seen' >= seen]_vars
    /\ [][answered /\ answered' => seen' = seen]_vars
    /\ [](outcome = "success" => seen \in {0, completed})

\* A cancelled task tears the connection down only while it is the call's outcome that it
\* was cancelled (SSHAsyncCancellationBox).
TornMeansCancelled == torn /\ answered => outcome = "cancelled"

\* A transfer by SFTP that succeeds is exact, one that fails can be resumed, and either has closed its
\* files and disturbed no connection (SSHCoreLibSSHSFTPRuntime+Transfer.m).
TransferIsExact ==
    TypeOK /\ SuccessIsExact /\ StaysResumable /\ FilesClosed /\ ReadIsBounded /\ TornMeansCancelled

=============================================================================
