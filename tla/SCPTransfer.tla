----------------------------- MODULE SCPTransfer -----------------------------
(***************************************************************************)
(* SCP over a streamed command (SSHKit/SCPClient.swift, the event sink of  *)
(* SSHCommand.swift): the two helpers, the reader of their events, and the *)
(* scp program at the other end.  The bytes of a file are counted; a byte  *)
(* the source could not read is sent as padding.  A line of the protocol   *)
(* is one symbol after its first byte.                                     *)
(***************************************************************************)
EXTENDS Integers, SequencesExt

CONSTANTS
    Sizes,          \* the sizes of files
    MaxSize,        \* maximumSize
    MaxEvent        \* bound: symbols in one standardOutput event

SCPAssumption == Sizes \subseteq Nat /\ {MaxSize, MaxEvent} \subseteq Nat

VARIABLES
    transfer,       \* [upload, size]
    pc,             \* where the helper is
    buffer, errors, \* the reader's buffer; whether it has standard error
    events,         \* the stream of events
    input, output,  \* what the program has still to read, and what is on its way from it
    scp,            \* where the program is
    stored,         \* the program's file: the symbols it has taken of the data
    got,            \* the helper's data
    local,          \* the local file of a download
    result

vars == <<transfer, pc, buffer, errors, events, input, output, scp, stored, got, local, result>>

Init ==
    /\ transfer \in [upload : BOOLEAN, size : Sizes]
    /\ pc = "opened" /\ buffer = <<>> /\ errors = FALSE /\ events = <<>>
    /\ input = <<>> /\ output = <<>> /\ scp = "starts" /\ stored = <<>>
    /\ got = <<>> /\ local = "old" /\ result = "none"

Remote == <<input, output, scp, stored>>
Whole == [i \in 1..transfer.size |-> "data"]

-----------------------------------------------------------------------------
(***************************************************************************)
(* The reader.                                                             *)
(***************************************************************************)

Throws(r) == result' = r /\ pc' = "ended" /\ input' = Append(input, "close")

\* fillBuffer, where a byte is needed.
fillBuffer ==
    /\ pc \in {"start", "header", "headerline", "data", "trailer", "message"} /\ buffer = <<>> /\ events # <<>>
    /\ events' = Tail(events)
    /\ CASE Head(events).kind = "out" -> buffer' = Head(events).data /\ UNCHANGED <<pc, input, errors, result>>
         [] Head(events).kind = "err" -> errors' = TRUE /\ UNCHANGED <<pc, input, buffer, result>>
         [] Head(events).kind = "closed" -> Throws("closed") /\ UNCHANGED <<buffer, errors>>
    /\ UNCHANGED <<transfer, output, scp, stored, got, local>>

Takes(at) == pc = at /\ buffer # <<>> /\ buffer' = Tail(buffer)
Reader == <<transfer, events, errors, output, scp, stored>>

\* expectAck: a warning or an error is followed by a line, anything else is unexpected.
expectAck(next) ==
    CASE Head(buffer) = "ok" -> pc' = next /\ UNCHANGED <<input, result>>
      [] Head(buffer) \in {"warning", "error"} -> pc' = "message" /\ UNCHANGED <<input, result>>
      [] OTHER -> Throws("unexpected")

Message == Takes("message") /\ Throws("failed") /\ UNCHANGED <<Reader, got, local>>

\* Variant: the last status is not looked at.
AnyStatus(status) == buffer = <<>>

ClosedWell(status) == status = 0 /\ buffer = <<>>

expectClosed ==
    /\ pc = "closes" /\ events # <<>> /\ events' = Tail(events)
    /\ CASE Head(events).kind = "out" -> buffer' = buffer \o Head(events).data /\ UNCHANGED <<pc, input, errors, result>>
         [] Head(events).kind = "err" -> errors' = TRUE /\ UNCHANGED <<pc, input, buffer, result>>
         [] Head(events).kind = "closed" ->
                /\ IF ClosedWell(Head(events).status) THEN result' = "ok" /\ pc' = "ended" /\ UNCHANGED input
                   ELSE Throws("status")
                /\ UNCHANGED <<buffer, errors>>
    /\ UNCHANGED <<transfer, output, scp, stored, got, local>>

-----------------------------------------------------------------------------
(***************************************************************************)
(* uploadFileWithSCP                                                       *)
(***************************************************************************)

Writes(symbols, next) == input' = input \o symbols /\ pc' = next /\ UNCHANGED <<buffer, result>>

UploadBegins ==
    /\ pc = "opened" /\ transfer.upload
    /\ IF transfer.size <= MaxSize THEN pc' = "start" /\ UNCHANGED <<input, result>> ELSE Throws("tooLarge")
    /\ UNCHANGED <<Reader, buffer, got, local>>

UploadHeader ==
    /\ transfer.upload
    /\ \/ Takes("start") /\ expectAck("writesHeader")
       \/ pc = "writesHeader" /\ Writes(<<"C", "size">>, "header")
       \/ Takes("header") /\ expectAck("writesData")
    /\ UNCHANGED <<Reader, got, local>>

\* Two writes and the answer to both; SSHCommand.write has a precondition.
UploadData ==
    /\ transfer.upload
    /\ \/ /\ pc = "writesData"
          /\ IF transfer.size > 0 THEN Writes(Whole, "writesEnd")
             ELSE result' = "trap" /\ pc' = "ended" /\ UNCHANGED <<input, buffer>>
       \/ pc = "writesEnd" /\ Writes(<<"ok">>, "trailer")
       \/ Takes("trailer") /\ expectAck("writesEOF")
    /\ UNCHANGED <<Reader, got, local>>

\* Variant: the input is left open.
LeavesOpen == pc' = "closes" /\ UNCHANGED <<input, buffer, result>>

SendsEOF == Writes(<<"eof">>, "closes")

EndOfInput == pc = "writesEOF" /\ SendsEOF /\ UNCHANGED <<Reader, got, local>>

-----------------------------------------------------------------------------
(***************************************************************************)
(* downloadFileWithSCP                                                     *)
(***************************************************************************)

DownloadBegins ==
    /\ pc = "opened" /\ ~transfer.upload /\ Writes(<<"ok">>, "header")
    /\ UNCHANGED <<Reader, got, local>>

readFileHeader ==
    /\ ~transfer.upload
    /\ \/ /\ Takes("header")
          /\ CASE Head(buffer) = "C" -> pc' = "headerline" /\ UNCHANGED <<input, result>>
               [] Head(buffer) \in {"warning", "error"} -> pc' = "message" /\ UNCHANGED <<input, result>>
               [] OTHER -> Throws("unexpected")
       \/ /\ Takes("headerline")
          /\ IF Head(buffer) = "size" /\ transfer.size <= MaxSize
             THEN pc' = "data" /\ input' = Append(input, "ok") /\ UNCHANGED result
             ELSE Throws("header")
    /\ UNCHANGED <<Reader, got, local>>

\* readBytes, from the buffer alone or with what comes next.
readBytes ==
    /\ ~transfer.upload /\ pc = "data"
    /\ IF Len(got) = transfer.size THEN pc' = "trailer" /\ UNCHANGED <<got, buffer>>
       ELSE Takes("data") /\ got' = Append(got, Head(buffer)) /\ UNCHANGED pc
    /\ UNCHANGED <<Reader, input, local, result>>

\* Variant: the file is written as soon as its bytes are there.
WritesEarly ==
    /\ ~transfer.upload
    /\ \/ Takes("trailer") /\ expectAck("writesFile") /\ local' = IF got = Whole THEN "whole" ELSE "torn"
       \/ pc = "writesFile" /\ Writes(<<"ok">>, "writesEOF") /\ UNCHANGED local
    /\ UNCHANGED <<Reader, got>>

\* The terminator says whether the source could read what it has sent; only then the file is written, atomically.
DownloadEnds ==
    /\ ~transfer.upload
    /\ \/ Takes("trailer") /\ expectAck("writesFile") /\ UNCHANGED local
       \/ /\ pc = "writesFile" /\ Writes(<<"ok">>, "writesEOF")
          /\ local' = IF got = Whole THEN "whole" ELSE "torn"
    /\ UNCHANGED <<Reader, got>>

\* A cancelled task gets no more events, and a cancelled write closes the command.
Cancels == result = "none" /\ pc # "opened" /\ Throws("cancelled") /\ UNCHANGED <<Reader, buffer, got, local>>

-----------------------------------------------------------------------------
(***************************************************************************)
(* The scp program, and the command runtime that makes events of what it   *)
(* writes.                                                                 *)
(***************************************************************************)

Client == <<transfer, pc, buffer, errors, got, local, result>>
Runs == scp \notin {"complete", "exited"}
Says(symbols, next) == output' = output \o symbols /\ scp' = next
Refusals == {<<"warning", "message">>, <<"error", "message">>}
Reads(symbol) == input # <<>> /\ Head(input) = symbol /\ input' = Tail(input)

\* scp -t: a file it cannot create is answered and skipped, one it cannot write is answered at its end.
Sinks ==
    /\ transfer.upload
    /\ \/ scp = "starts" /\ (Says(<<"ok">>, "record") \/ \E r \in Refusals : Says(r, "fails")) /\ UNCHANGED <<input, stored>>
       \/ scp = "record" /\ Reads("C") /\ scp' = "size" /\ UNCHANGED <<output, stored>>
       \/ /\ scp = "size" /\ Reads("size") /\ UNCHANGED stored
          /\ Says(<<"ok">>, "bytes") \/ \E r \in Refusals : Says(r, "failing")
       \/ scp = "bytes" /\ Len(stored) < transfer.size /\ Reads("data") /\ stored' = Append(stored, "data") /\ UNCHANGED <<output, scp>>
       \/ /\ scp = "bytes" /\ Len(stored) = transfer.size /\ Reads("ok")
          /\ \/ Says(<<"ok">>, "done") /\ UNCHANGED stored
             \/ \E r \in Refusals : Says(r, "failing") /\ stored' = <<>>

\* scp -f: a file it cannot open is answered, one it cannot read is padded and answered at its end.
Sources ==
    /\ ~transfer.upload /\ UNCHANGED stored
    /\ \/ /\ scp = "starts" /\ Reads("ok")
          /\ Says(<<"C", "size">>, "header") \/ Says(<<"C", "malformed">>, "header") \/ \E r \in Refusals : Says(r, "failing")
       \/ /\ scp = "header" /\ Reads("ok")
          /\ \/ Says(Append(Whole, "ok"), "sent")
             \/ \E i \in 1..transfer.size :
                    Says([j \in 1..transfer.size |-> IF j < i THEN "data" ELSE "padding"] \o <<"warning", "message">>, "failing")
       \/ scp = "sent" /\ Reads("ok") /\ Says(<<>>, "done")

\* At the end of its input, when the command is closed, and whenever it is killed.
Exits ==
    /\ Runs /\ scp' = (IF scp = "done" THEN "complete" ELSE "exited") /\ UNCHANGED <<output, stored>>
    /\ \/ Reads("eof") \/ Reads("close") \/ (scp = "fails" /\ UNCHANGED input)
    /\ events' = events \o (IF output = <<>> THEN <<>> ELSE <<[kind |-> "out", data |-> output]>>)
                 \o <<[kind |-> "closed", status |-> IF scp = "done" THEN 0 ELSE 1]>>

Program == \/ (Sinks \/ Sources) /\ UNCHANGED <<Client, events>>
           \/ Exits /\ UNCHANGED Client

Killed ==
    /\ Runs /\ scp' = "exited"
    /\ events' = Append(events, [kind |-> "closed", status |-> 255])
    /\ UNCHANGED <<Client, input, output, stored>>

\* What was written comes in events of any length, with standard error between them.
Delivers ==
    /\ Runs /\ output # <<>>
    /\ \E n \in 1..MaxEvent : n <= Len(output)
          /\ output' = SubSeq(output, n + 1, Len(output))
          /\ events' = Append(events, [kind |-> "out", data |-> SubSeq(output, 1, n)])
    /\ UNCHANGED <<Client, input, scp, stored>>

Complains ==
    /\ Runs /\ ~errors /\ \A i \in DOMAIN events : events[i].kind # "err"
    /\ events' = Append(events, [kind |-> "err"])
    /\ UNCHANGED <<Client, Remote>>

-----------------------------------------------------------------------------
Helper == \/ fillBuffer \/ Message \/ expectClosed \/ EndOfInput
          \/ UploadBegins \/ UploadHeader \/ UploadData
          \/ DownloadBegins \/ readFileHeader \/ readBytes \/ DownloadEnds

Next == Helper \/ Cancels \/ Program \/ Killed \/ Delivers \/ Complains
Spec == Init /\ [][Next]_vars

\* The helper and the program go on, and what is written arrives.
FairSpec == Spec /\ WF_vars(Helper) /\ WF_vars(Program) /\ WF_vars(Delivers)

-----------------------------------------------------------------------------
TypeOK ==
    /\ got \in Seq({"data", "padding"}) /\ Len(got) <= transfer.size
    /\ local \in {"old", "whole", "torn"} /\ stored \in Seq({"data"})
    /\ result \in {"none", "ok", "closed", "failed", "unexpected", "status", "header", "tooLarge", "cancelled", "trap"}
    /\ (result = "none") = (pc # "ended")

\* An upload succeeds only if the program has stored every byte and ended well.
UploadIsStored == result = "ok" /\ transfer.upload => stored = Whole /\ scp = "complete"

\* A download changes the local file only into all of the remote one, however the bytes were cut into
\* events and wherever the source failed, and succeeds only if it has.
DownloadIsWhole == local # "torn" /\ (result = "ok" /\ ~transfer.upload => local = "whole")

\* Every transfer ends.
SCPEnds == <>(result # "none")
=============================================================================
