------------------------------- MODULE SFTPQueue -------------------------------
(***************************************************************************)
(* The requests and responses of libssh's SFTP client (Vendor/libssh/src/  *)
(* sftp.c, sftp_common.c) under the operations of SSHKit's SFTP worker,    *)
(* which makes one call at a time (SSHCoreLibSSHSFTPRuntime+Queries.m).    *)
(* A call sends a request with a new id and reads packets from the channel *)
(* until the response to that id is in the queue; when the session's time  *)
(* is up it fails, and the response comes to somebody else's read.         *)
(***************************************************************************)
EXTENDS Integers, Sequences, FiniteSets, SequencesExt

CONSTANTS
    Jobs,           \* "list", "read", "append", "mkdir", "stat", "change", "ask"
    Paths,          \* what is asked about
    MaxJobs,        \* bound: jobs of the worker
    Entries,        \* the number of names in a directory
    MaxTimeouts,    \* bound: calls whose time is up
    TornReads       \* whether that may happen in the middle of a packet

QueueAssumption ==
    /\ Jobs \subseteq {"list", "read", "append", "mkdir", "stat", "change", "ask"}
    /\ IsFiniteSet(Paths) /\ Paths # {}
    /\ MaxJobs \in Nat /\ Entries \in Nat /\ MaxTimeouts \in Nat
    /\ TornReads \in BOOLEAN

VARIABLES
    job,            \* the job, its path and handle, the call it is at and how far that is, whether it failed
    jobs, timeouts, \* how many there have been
    id,             \* sftp->id_counter
    expect,         \* sftp_packet_read: what it reads next
    current,        \* read_packet
    responses,      \* sftp->queue
    dir,            \* struct sftp_dir: what its buffer still holds, eof
    listed,         \* the names that the list has
    errnum,         \* sftp->errnum
    limits,         \* sftp->limits, once sftp_init is through
    answer,         \* the last response taken, and what it was asked for
    done,           \* how the last job ended
    toServer,
    stream,         \* the channel to the client: the size, type and body of each packet
    handles         \* the server's open handles: how far each has been read

queueClient == <<job, jobs, timeouts, id, expect, current, responses, dir, listed, errnum, limits, answer, done>>
queueVars == <<queueClient, toServer, stream, handles>>

NoHandle == 0
Nothing == [handle |-> NoHandle, path |-> "none"]
NoMessage == [type |-> "none", id |-> 0, payload |-> "none"]
Idle == [kind |-> "none", path |-> "none", handle |-> NoHandle, at |-> "idle", call |-> "none", failed |-> FALSE]
Closed == [count |-> 0, eof |-> FALSE]

QueueInit ==
    /\ job = Idle /\ jobs = 0 /\ timeouts = 0 /\ id = 0
    /\ expect = "size" /\ current = NoMessage /\ responses = <<>>
    /\ dir = Closed /\ listed = 0 /\ errnum = "OK" /\ limits = "none"
    /\ answer = [op |-> "none", about |-> Nothing, payload |-> Nothing]
    /\ done = [kind |-> "none", ok |-> FALSE, listed |-> 0]
    /\ toServer = <<>> /\ stream = <<>>
    /\ handles = <<>>

-----------------------------------------------------------------------------
(***************************************************************************)
(* A request: sftp_get_new_id, ssh_buffer_pack, sftp_packet_write.         *)
(***************************************************************************)
\* What a request is about: the handle that it names, or the path.
Subject(op) ==
    IF op \in {"READ", "READDIR", "CLOSE"} THEN [handle |-> job.handle, path |-> "none"]
    ELSE [handle |-> NoHandle, path |-> job.path]

Request(op) ==
    /\ id' = id + 1
    /\ toServer' = Append(toServer, [op |-> op, id |-> id + 1, about |-> Subject(op), handle |-> job.handle])

Call(op) ==
    /\ job.at = op /\ job.call = "none"
    /\ Request(op)
    /\ job' = [job EXCEPT !.call = "waits"]
    /\ UNCHANGED <<jobs, timeouts, expect, current, responses, dir, listed, errnum, limits, answer, done,
                   stream, handles>>

sftp_open == Call("OPEN")
sftp_opendir == Call("OPENDIR")
sftp_read == Call("READ")
sftp_handle_close == Call("CLOSE")
sftp_mkdir == Call("MKDIR")
sftp_xstat == Call("STAT")

\* The calls that only a status answers, and those that ask for a name or a number.
Changes == {"REMOVE", "RMDIR", "RENAME", "SETSTAT", "SYMLINK"}
Questions == {"READLINK", "REALPATH", "STATVFS"}
sftp_unlink == Call("REMOVE")
sftp_rmdir == Call("RMDIR")
sftp_rename == Call("RENAME")
sftp_setstat == Call("SETSTAT")
sftp_symlink == Call("SYMLINK")
sftp_readlink == Call("READLINK")
sftp_canonicalize_path == Call("REALPATH")
sftp_statvfs == Call("STATVFS")
sftp_limits_use_extension == Call("LIMITS")

\* sftp_init has no id, and takes the next packet for its answer.
sftp_init ==
    /\ job.at = "INIT" /\ job.call = "none"
    /\ toServer' = Append(toServer, [op |-> "INIT", id |-> 0, about |-> Nothing, handle |-> NoHandle])
    /\ job' = [job EXCEPT !.call = "waits"]
    /\ UNCHANGED <<jobs, timeouts, id, expect, current, responses, dir, listed, errnum, limits, answer, done,
                   stream, handles>>

\* The names of the last response are handed out before more are asked for.
sftp_readdir ==
    \/ dir.count = 0 /\ Call("READDIR")
    \/ /\ job.at = "READDIR" /\ job.call = "none" /\ dir.count > 0
       /\ listed' = listed + 1 /\ dir' = [dir EXCEPT !.count = @ - 1]
       /\ UNCHANGED <<job, jobs, timeouts, id, expect, current, responses, errnum, limits, answer, done,
                      toServer, stream, handles>>

-----------------------------------------------------------------------------
(***************************************************************************)
(* The course of a job: its next call, the failure of the job, and that of *)
(* a call that got no response.                                            *)
(***************************************************************************)
ToStep(at) == job' = [job EXCEPT !.at = at, !.call = "none"]
Fails(at) == job' = [job EXCEPT !.at = at, !.call = "none", !.failed = TRUE]
CallFails == job' = [job EXCEPT !.call = "failed"]
Waiting == job.call = "waits"

-----------------------------------------------------------------------------
(***************************************************************************)
(* sftp_recv_response_msg: the queue first, then the channel.              *)
(***************************************************************************)
\* Variants: the oldest message, whatever its id; the id that comes next; the message
\* is left in the queue.
NextOfAll == {n \in DOMAIN responses : responses[n].id = id + 1}
FirstOfAll == IF responses = <<>> THEN {} ELSE {1}
StaysQueued(n) == responses

\* sftp_dequeue: the first message with the id that was sent last.
Dequeued == {n \in DOMAIN responses : responses[n].id = id /\ \A k \in 1..(n - 1) : responses[k].id # id}
WithoutIt(n) == RemoveAt(responses, n)

sftp_packet_read ==
    /\ Waiting /\ Dequeued = {} /\ stream # <<>>
    /\ LET piece == Head(stream) IN
       /\ stream' = Tail(stream)
       /\ \/ /\ piece.part = expect /\ expect = "size"
             /\ expect' = "type" /\ UNCHANGED <<current, responses, job, errnum>>
          \/ /\ piece.part = expect /\ expect = "type"
             /\ expect' = "body" /\ current' = piece.m /\ UNCHANGED <<responses, job, errnum>>
          \/ /\ piece.part = expect /\ expect = "body"
             /\ expect' = "size" /\ current' = NoMessage
             /\ IF job.at = "INIT"
                THEN \* the version, with the extension of the limits or without it
                     /\ IF current.type # "VERSION" THEN CallFails
                        ELSE ToStep(IF current.payload = "limits" THEN "LIMITS" ELSE "limits")
                     /\ UNCHANGED <<responses, errnum>>
                ELSE IF current.type = "odd"
                THEN \* sftp_get_message: an unknown packet type
                     /\ errnum' = "FAILURE" /\ CallFails
                     /\ UNCHANGED responses
                ELSE responses' = Append(responses, current) /\ UNCHANGED <<job, errnum>>
          \/ \* what is read as a size is not one
             /\ piece.part # expect
             /\ expect' = "size" /\ current' = NoMessage
             /\ errnum' = "FAILURE" /\ CallFails
             /\ UNCHANGED responses
    /\ UNCHANGED <<jobs, timeouts, id, dir, listed, limits, answer, done, toServer, handles>>

\* The read of the channel returns nothing in the session's time: what has been
\* read of the packet is thrown away, and the rest is still to come.
Timeout ==
    /\ Waiting /\ Dequeued = {} /\ timeouts < MaxTimeouts
    /\ expect = "size" \/ TornReads
    /\ timeouts' = timeouts + 1
    /\ expect' = "size" /\ current' = NoMessage
    /\ errnum' = "FAILURE"
    /\ CallFails
    /\ UNCHANGED <<jobs, id, responses, dir, listed, limits, answer, done, toServer, stream, handles>>

-----------------------------------------------------------------------------
(***************************************************************************)
(* What a call does with its response, and its job with the result.        *)
(***************************************************************************)
Take(op, m) == answer' = [op |-> op, about |-> Subject(op), payload |-> m.payload]

\* A status in the place of the response is the error of the call.
Status(m) == errnum' = IF m.type = "STATUS" THEN m.payload ELSE "BAD_MESSAGE"

Opened(op, m, next) ==
    \/ /\ m.type = "HANDLE"
       /\ job' = [job EXCEPT !.handle = m.payload, !.at = next, !.call = "none"]
       /\ dir' = Closed /\ UNCHANGED <<errnum, answer>>
    \/ m.type # "HANDLE" /\ Status(m) /\ Fails("end") /\ UNCHANGED <<dir, answer>>

\* Variant: a status of any kind is taken for the end of the directory.
AnyStatusEnds(m) ==
    /\ m.type # "NAME" /\ Status(m)
    /\ dir' = [dir EXCEPT !.eof = TRUE] /\ ToStep("CLOSE") /\ UNCHANGED answer

\* The directory ends with the status EOF; any other end of the loop is an error.
ReaddirEnds(m) ==
    /\ m.type # "NAME" /\ Status(m)
    /\ IF m.type = "STATUS" /\ m.payload = "EOF"
       THEN dir' = [dir EXCEPT !.eof = TRUE] /\ ToStep("CLOSE")
       ELSE Fails("CLOSE") /\ UNCHANGED dir
    /\ UNCHANGED answer

\* A response with no names is an error, and stays the directory's buffer.
ReaddirGoesOn(m) ==
    /\ m.type = "NAME"
    /\ dir' = [dir EXCEPT !.count = m.payload]
    /\ IF m.payload = 0 THEN Fails("CLOSE") ELSE ToStep("READDIR")
    /\ UNCHANGED <<errnum, answer>>

ReadGoesOn(m) ==
    /\ \/ m.type = "DATA" /\ Take("READ", m) /\ ToStep("READ") /\ UNCHANGED errnum
       \/ /\ m.type # "DATA" /\ Status(m) /\ UNCHANGED answer
          /\ IF m.type = "STATUS" /\ m.payload = "EOF" THEN ToStep("CLOSE") ELSE Fails("CLOSE")
    /\ UNCHANGED dir

\* A file that is opened to append is asked for its size, or closed again.
StatTaken(m) ==
    /\ \/ /\ m.type = "ATTRS" /\ Take("STAT", m) /\ UNCHANGED errnum
          /\ ToStep(IF job.kind = "append" THEN "CLOSE" ELSE "end")
       \/ /\ m.type # "ATTRS" /\ Status(m) /\ UNCHANGED answer
          /\ Fails(IF job.kind = "append" THEN "CLOSE" ELSE "end")
    /\ UNCHANGED dir

\* What a question asks for comes as a name or as the reply of an extension.
AskTaken(m, type, op) ==
    /\ \/ m.type = type /\ Take(op, m) /\ ToStep("end") /\ UNCHANGED errnum
       \/ m.type # type /\ Status(m) /\ Fails("end") /\ UNCHANGED answer
    /\ UNCHANGED dir

ChangeTaken(m) ==
    /\ Status(m)
    /\ IF m.type = "STATUS" /\ m.payload = "OK" THEN ToStep("end") ELSE Fails("end")
    /\ UNCHANGED <<answer, dir>>

\* "mkdir always returns a failure, even if the path already exists": it is asked for.
MkdirTaken(m) ==
    /\ Status(m)
    /\ IF m.type = "STATUS" /\ m.payload = "FAILURE" THEN Fails("LSTAT")
       ELSE IF m.type = "STATUS" /\ m.payload = "OK" THEN ToStep("end") ELSE Fails("end")
    /\ UNCHANGED <<answer, dir>>

LstatTaken(m) ==
    /\ IF m.type = "ATTRS" THEN errnum' = "FILE_ALREADY_EXISTS" /\ Take("LSTAT", m)
       ELSE Status(m) /\ UNCHANGED answer
    /\ ToStep("end") /\ UNCHANGED dir

\* The caller counts its handle as closed whatever the server says.
CloseTaken(m) ==
    /\ Status(m)
    /\ job' = [job EXCEPT !.handle = NoHandle, !.at = "end", !.call = "none"]
    /\ dir' = [dir EXCEPT !.count = 0] /\ UNCHANGED answer

Answered ==
    \E n \in Dequeued : LET m == responses[n] IN
    /\ Waiting
    /\ responses' = WithoutIt(n)
    /\ limits' = IF job.at = "LIMITS" /\ m.type = "REPLY" THEN "server" ELSE limits
    /\ \/ job.at = "LIMITS" /\ ToStep("limits") /\ UNCHANGED <<errnum, dir, answer>>
       \/ job.at \in Changes /\ ChangeTaken(m)
       \/ job.at = "READLINK" /\ AskTaken(m, "NAME", "READLINK")
       \/ job.at = "REALPATH" /\ AskTaken(m, "NAME", "REALPATH")
       \/ job.at = "STATVFS" /\ AskTaken(m, "REPLY", "STATVFS")
       \/ job.at = "OPENDIR" /\ Opened("OPENDIR", m, "READDIR")
       \/ job.at = "OPEN" /\ Opened("OPEN", m, IF job.kind = "append" THEN "STAT" ELSE "READ")
       \/ job.at = "READDIR" /\ (ReaddirEnds(m) \/ ReaddirGoesOn(m))
       \/ job.at = "READ" /\ ReadGoesOn(m)
       \/ job.at = "STAT" /\ StatTaken(m)
       \/ job.at = "MKDIR" /\ MkdirTaken(m)
       \/ job.at = "LSTAT" /\ LstatTaken(m)
       \/ job.at = "CLOSE" /\ CloseTaken(m)
    /\ UNCHANGED <<jobs, timeouts, id, expect, current, listed, done, toServer, stream, handles>>

\* Variant: the error of the extension stays.
ErrorKept == errnum
\* "Restore the sftp and ssh errors to their previous state": there was none.
ErrorRestored == "OK"

\* Without the server's limits, for whatever reason, the default ones are used.
sftp_limits_use_default ==
    /\ job.at = "limits" \/ (job.at = "LIMITS" /\ job.call = "failed")
    /\ limits' = IF limits = "none" THEN "default" ELSE limits
    /\ errnum' = ErrorRestored
    /\ ToStep("end")
    /\ UNCHANGED <<jobs, timeouts, id, expect, current, responses, dir, listed, answer, done, toServer,
                   stream, handles>>

sftp_lstat == Call("LSTAT")

\* Variant: the job ends at once.
LeavesItOpen ==
    /\ job.call = "failed" /\ job.at # "LIMITS"
    /\ job' = [job EXCEPT !.handle = NoHandle, !.at = "end", !.call = "none"]
    /\ UNCHANGED <<jobs, timeouts, id, expect, current, responses, dir, listed, errnum, limits, answer, done,
                   toServer, stream, handles>>

\* A call without its response has failed: with a handle, the job closes it.
FailsWithoutAnswer ==
    /\ job.call = "failed" /\ job.at # "LIMITS"
    /\ \/ job.at = "CLOSE" /\ job' = [job EXCEPT !.handle = NoHandle, !.at = "end", !.call = "none"]
       \/ job.at # "CLOSE" /\ job.handle # NoHandle /\ Fails("CLOSE")
       \/ job.at # "CLOSE" /\ job.handle = NoHandle /\ Fails("end")
    /\ UNCHANGED <<jobs, timeouts, id, expect, current, responses, dir, listed, errnum, limits, answer, done,
                   toServer, stream, handles>>

\* The call that a job begins with.
First(kind) ==
    CASE kind = "list" -> {"OPENDIR"} [] kind \in {"read", "append"} -> {"OPEN"}
      [] kind = "mkdir" -> {"MKDIR"} [] kind = "stat" -> {"STAT"}
      [] kind = "change" -> Changes [] kind = "ask" -> Questions

\* The session is used when sftp_init has succeeded.
StartsSession ==
    /\ job.at = "idle" /\ limits = "none" /\ done.kind = "none"
    /\ job' = [Idle EXCEPT !.kind = "init", !.at = "INIT"]
    /\ UNCHANGED <<jobs, timeouts, id, expect, current, responses, dir, listed, errnum, limits, answer, done,
                   toServer, stream, handles>>

Start ==
    /\ job.at = "idle" /\ limits # "none"
    /\ jobs < MaxJobs /\ jobs' = jobs + 1
    /\ \E kind \in Jobs, path \in Paths : \E op \in First(kind) :
          job' = [Idle EXCEPT !.kind = kind, !.path = path, !.at = op]
    /\ listed' = 0
    /\ UNCHANGED <<timeouts, id, expect, current, responses, dir, errnum, limits, answer, done, toServer,
                   stream, handles>>

End ==
    /\ job.at = "end"
    /\ done' = [kind |-> job.kind, ok |-> ~job.failed /\ (job.kind = "list" => dir.eof), listed |-> listed]
    /\ job' = Idle
    /\ UNCHANGED <<jobs, timeouts, id, expect, current, responses, dir, listed, errnum, limits, answer,
                   toServer, stream, handles>>

-----------------------------------------------------------------------------
(***************************************************************************)
(* The server (draft-ietf-secsh-filexfer-02): one response to a request.   *)
(***************************************************************************)
Packet(type, n, payload) ==
    LET m == [type |-> type, id |-> n, payload |-> payload]
    IN <<[part |-> "size", m |-> m], [part |-> "type", m |-> m], [part |-> "body", m |-> m]>>
Respond(type, n, payload) == stream' = stream \o Packet(type, n, payload)

\* What a READDIR may return: the names that are left, all or some.
Names(h) == 1..(Entries - handles[h].read)

ServerAnswers ==
    /\ toServer # <<>> /\ toServer' = Tail(toServer)
    /\ LET r == Head(toServer) IN
       \/ /\ r.op \in {"OPEN", "OPENDIR"}
          /\ handles' = Append(handles, [read |-> 0, open |-> TRUE])
          /\ Respond("HANDLE", r.id, Len(handles) + 1)
       \/ /\ r.op = "READDIR"
          /\ \/ \E n \in Names(r.handle) :
                   /\ Respond("NAME", r.id, n)
                   /\ handles' = [handles EXCEPT ![r.handle].read = @ + n]
             \/ handles[r.handle].read = Entries /\ Respond("STATUS", r.id, "EOF") /\ UNCHANGED handles
             \/ Respond("NAME", r.id, 0) /\ UNCHANGED handles
       \/ /\ r.op = "READ"
          /\ \/ /\ handles[r.handle].read < 1 /\ Respond("DATA", r.id, r.about)
                /\ handles' = [handles EXCEPT ![r.handle].read = @ + 1]
             \/ Respond("STATUS", r.id, "EOF") /\ UNCHANGED handles
       \/ r.op \in {"STAT", "LSTAT"} /\ Respond("ATTRS", r.id, r.about) /\ UNCHANGED handles
       \/ r.op = "MKDIR" /\ Respond("STATUS", r.id, "OK") /\ UNCHANGED handles
       \/ /\ r.op = "CLOSE"
          /\ Respond("STATUS", r.id, "OK")
          /\ handles' = [handles EXCEPT ![r.handle].open = FALSE]
       \/ r.op = "INIT" /\ \E v \in {"limits", "plain"} : Respond("VERSION", r.id, v) /\ UNCHANGED handles
       \/ r.op \in Changes /\ Respond("STATUS", r.id, "OK") /\ UNCHANGED handles
       \/ r.op \in {"READLINK", "REALPATH"} /\ Respond("NAME", r.id, r.about) /\ UNCHANGED handles
       \/ r.op \in {"STATVFS", "LIMITS"} /\ Respond("REPLY", r.id, r.about) /\ UNCHANGED handles
       \/ r.op \notin {"CLOSE", "INIT"} /\ Respond("STATUS", r.id, "FAILURE") /\ UNCHANGED handles
       \/ r.op \in {"STAT", "READ", "LIMITS", "REALPATH", "INIT"} /\ Respond("odd", r.id, "none") /\ UNCHANGED handles
    /\ UNCHANGED queueClient

-----------------------------------------------------------------------------
Work ==
    \/ sftp_open \/ sftp_opendir \/ sftp_read \/ sftp_readdir \/ sftp_handle_close
    \/ sftp_mkdir \/ sftp_xstat \/ sftp_lstat
    \/ sftp_unlink \/ sftp_rmdir \/ sftp_rename \/ sftp_setstat \/ sftp_symlink
    \/ sftp_readlink \/ sftp_canonicalize_path \/ sftp_statvfs
    \/ sftp_init \/ sftp_limits_use_extension \/ sftp_limits_use_default
    \/ sftp_packet_read \/ Answered \/ FailsWithoutAnswer \/ End
QueueNext == StartsSession \/ Start \/ Work \/ Timeout \/ ServerAnswers

QueueSpec == QueueInit /\ [][QueueNext]_queueVars
\* The worker goes on with its job, and the server answers.
QueueFairness == WF_queueVars(Work) /\ WF_queueVars(ServerAnswers)
FairQueueSpec == QueueSpec /\ QueueFairness

-----------------------------------------------------------------------------
(***************************************************************************)
(* Properties.                                                             *)
(***************************************************************************)
\* Every variable has values of its kind.
QueueTypeOK ==
    /\ job.kind \in Jobs \cup {"none", "init"} /\ job.path \in Paths \cup {"none"}
    /\ job.handle \in 0..Len(handles) /\ job.failed \in BOOLEAN
    /\ jobs \in 0..MaxJobs /\ timeouts \in 0..MaxTimeouts /\ id \in Nat
    /\ expect \in {"size", "type", "body"}
    /\ dir \in [count : 0..Entries, eof : BOOLEAN] /\ listed \in 0..Entries
    /\ limits \in {"none", "default", "server"}
    /\ errnum \in {"OK", "EOF", "FAILURE", "BAD_MESSAGE", "FILE_ALREADY_EXISTS"}
    /\ \A n \in DOMAIN responses : responses[n].id \in 1..id
    /\ handles \in Seq([read : Nat, open : BOOLEAN])

\* What a call returns is about what it asked, with answers to earlier calls still
\* coming in and left in the queue (sftp_common.c, sftp_dequeue).
OwnAnswers == answer.payload = answer.about

\* A list that is reported as a success has every name of the directory, whatever
\* was late or failed on the way (+Queries.m, the loop over sftp_readdir).
ListIsComplete == done.kind = "list" /\ done.ok => done.listed = Entries

\* sftp_init leaves no error behind when it succeeds, not that of an extension that
\* the server claims and does not have (sftp.c, sftp_init).
InitLeavesNoError == job.kind = "init" /\ job.at = "end" /\ ~job.failed => errnum = "OK"

\* The queue keeps a response for each call whose time was up, and no other: it does
\* not grow with the work that is done (sftp_common.c, sftp_enqueue).
QueueHoldsOverdue ==
    Len(responses) <= timeouts + (IF Waiting THEN Cardinality(Dequeued) ELSE 0)

\* An open handle of the server is the job's, is being closed, or is in a response
\* that came too late for its call: a failure on the way leaves none behind.
HandlesAreKnown ==
    \A h \in DOMAIN handles : handles[h].open =>
        \/ job.handle = h
        \/ \E n \in DOMAIN toServer : toServer[n].op = "CLOSE" /\ toServer[n].handle = h
        \/ \E n \in DOMAIN responses : responses[n].type = "HANDLE" /\ responses[n].payload = h
        \/ \E n \in DOMAIN stream : stream[n].m.type = "HANDLE" /\ stream[n].m.payload = h

\* Calls get answers to what they asked, whole lists and no leftovers, however late the answers before
\* them came (sftp_dequeue, sftp_init).
AnswersAreExact ==
    /\ QueueTypeOK /\ OwnAnswers /\ ListIsComplete /\ QueueHoldsOverdue
    /\ HandlesAreKnown /\ InitLeavesNoError

\* A job whose requests the server answers ends.
JobsEnd == (job.at # "idle") ~> (job.at = "idle")

=============================================================================
