----------------------------- MODULE SwiftSessions -----------------------------
(***************************************************************************)
(* A cancellable task that connects or discovers (SSHKit/SSHClient.swift): *)
(* the body of the task, its cancellation handler on another thread, the   *)
(* completion of the session on a third, and the session they share.  The  *)
(* session is as much of SSHKitConnection.m as a connect and a disconnect  *)
(* can tell; a disconnect looks at the state only through the worker's     *)
(* queue.                                                                  *)
(***************************************************************************)
EXTENDS Integers, Sequences

VARIABLES
    purpose,        \* what the task does: "connect", or discover the "hostKey" or "authentication"
    body,           \* where the task is
    handler,        \* where its cancellation handler is
    box,            \* SSHLockedSession [stored, cancelled, finished]
    calls,          \* disconnects: made when storing, when cancelling, when it was too late
    state, queue,   \* the worker's state and queue
    signalled,      \* a disconnect has found something to shut down
    outcome,        \* what the session reports, until its completion has run
    result          \* what the continuation is resumed with

vars == <<purpose, body, handler, box, calls, state, queue, signalled, outcome, result>>

Disconnects == {"store", "cancel", "late"}

Init ==
    /\ purpose \in {"connect", "hostKey", "authentication"}
    /\ body = "begins" /\ handler = "ready" /\ result = "none"
    /\ box = [stored |-> FALSE, cancelled |-> FALSE, finished |-> FALSE]
    /\ calls = [c \in Disconnects |-> "none"]
    /\ state = "Idle" /\ queue = <<>> /\ signalled = FALSE /\ outcome = "none"

-----------------------------------------------------------------------------
(***************************************************************************)
(* The task.                                                               *)
(***************************************************************************)

store ==
    /\ body = "begins"
    /\ box' = [box EXCEPT !.stored = TRUE]
    /\ body' = IF box.cancelled THEN "disconnects" ELSE "stored"
    /\ UNCHANGED <<purpose, handler, calls, state, queue, signalled, outcome, result>>

StoreDisconnects ==
    /\ body = "disconnects" /\ body' = "stored"
    /\ calls' = [calls EXCEPT !["store"] = "dispatched"]
    /\ UNCHANGED <<purpose, handler, box, state, queue, signalled, outcome, result>>

Connects ==
    /\ body = "stored" /\ body' = "waits"
    /\ queue' = Append(queue, "connect")
    /\ UNCHANGED <<purpose, handler, box, calls, state, signalled, outcome, result>>

\* A handler that runs keeps the task from leaving withTaskCancellationHandler.
Returns ==
    /\ body = "waits" /\ result # "none" /\ handler # "disconnects"
    /\ body' = "returned"
    /\ UNCHANGED <<purpose, handler, box, calls, state, queue, signalled, outcome, result>>

cancel ==
    /\ handler = "ready" /\ body # "returned"
    /\ box' = [box EXCEPT !.cancelled = TRUE]
    /\ handler' = IF box.stored /\ ~box.finished THEN "disconnects" ELSE "done"
    /\ UNCHANGED <<purpose, body, calls, state, queue, signalled, outcome, result>>

CancelDisconnects ==
    /\ handler = "disconnects" /\ handler' = "done"
    /\ calls' = [calls EXCEPT !["cancel"] = "dispatched"]
    /\ UNCHANGED <<purpose, body, box, state, queue, signalled, outcome, result>>

\* Variant: the decision is not kept.
OnlyLooks == UNCHANGED box

shouldReturnConnectedSession == box' = [box EXCEPT !.finished = TRUE]

\* Variant: the code is passed on.
PlainFailure(code) == code

\* The code of an error, where the completion looks at the box, and where it does not.
Failure(code) == IF purpose # "authentication" /\ box.cancelled THEN "cancelled" ELSE code

\* Variant: a cancelled task is not resumed.
LeavesCancelled ==
    /\ outcome \notin {"none", "delivered"} /\ outcome' = "delivered" /\ UNCHANGED <<box, calls>>
    /\ result' = IF box.cancelled THEN "none" ELSE outcome

\* The completion of connect, discoverHostKey and discoverAuthenticationMethods.
Complete ==
    /\ outcome \notin {"none", "delivered"} /\ outcome' = "delivered"
    /\ IF outcome # "ok" THEN result' = Failure(outcome) /\ UNCHANGED <<box, calls>>
       ELSE /\ shouldReturnConnectedSession
            /\ result' = IF box.cancelled THEN "cancelled" ELSE "ok"
            /\ calls' = IF box.cancelled THEN [calls EXCEPT !["late"] = "dispatched"] ELSE calls

Completion == Complete /\ UNCHANGED <<purpose, body, handler, state, queue, signalled>>

-----------------------------------------------------------------------------
(***************************************************************************)
(* The session.                                                            *)
(***************************************************************************)

\* A disconnect starts with cancelCurrentTask, which finds nothing before the connect has a session.
Signals(c) ==
    /\ calls[c] = "dispatched" /\ calls' = [calls EXCEPT ![c] = "looks"]
    /\ IF state = "Connecting" THEN signalled' \in {signalled, TRUE} ELSE UNCHANGED signalled
    /\ queue' = Append(queue, c)
    /\ UNCHANGED <<purpose, body, handler, box, state, outcome, result>>

\* waitForActiveJobClosedEventDelivery: the state is read on the queue, and no job is active between two blocks.
Looked(c) ==
    /\ calls[c] = "looks" /\ queue # <<>> /\ Head(queue) = c
    /\ calls' = [calls EXCEPT ![c] = "closes"] /\ queue' = Tail(queue)
    /\ UNCHANGED <<purpose, body, handler, box, state, signalled, outcome, result>>

EnqueuesClose(c) ==
    /\ calls[c] = "closes" /\ calls' = [calls EXCEPT ![c] = "queued"]
    /\ queue' = Append(queue, c)
    /\ UNCHANGED <<purpose, body, handler, box, state, signalled, outcome, result>>

\* Variant: only what was signalled is closed.
ClosesSignalled == state' = IF signalled THEN "Closed" ELSE state

ClosesSession == state' = "Closed"

Closes(c) ==
    /\ calls[c] = "queued" /\ queue # <<>> /\ Head(queue) = c
    /\ calls' = [calls EXCEPT ![c] = "done"] /\ queue' = Tail(queue)
    /\ ClosesSession
    /\ UNCHANGED <<purpose, body, handler, box, signalled, outcome, result>>

ConnectStarts ==
    /\ queue # <<>> /\ Head(queue) = "connect" /\ state # "Connecting"
    /\ IF state = "Idle" THEN state' = "Connecting" /\ UNCHANGED <<queue, outcome>>
       ELSE /\ outcome' = IF purpose = "connect" THEN "cancelled" ELSE "invalidState"
            /\ queue' = Tail(queue) /\ UNCHANGED state
    /\ UNCHANGED <<purpose, body, handler, box, calls, signalled, result>>

\* A discovery closes its session in any case; a socket that is shut down may be so too late.
ConnectEnds == \E o \in {"ok", "failed", "cancelled"} :
    /\ state = "Connecting" /\ (o = "cancelled" => signalled)
    /\ outcome' = o /\ queue' = Tail(queue)
    /\ state' = IF o = "ok" /\ purpose = "connect" THEN "Ready" ELSE "Closed"
    /\ UNCHANGED <<purpose, body, handler, box, calls, signalled, result>>

-----------------------------------------------------------------------------
Task == store \/ StoreDisconnects \/ Connects \/ Returns
Disconnect(c) == Signals(c) \/ Looked(c) \/ EnqueuesClose(c) \/ Closes(c)
Session == (\E c \in Disconnects : Disconnect(c)) \/ ConnectStarts \/ ConnectEnds

Next == Task \/ cancel \/ CancelDisconnects \/ Completion \/ Session
Spec == Init /\ [][Next]_vars

\* Threads and queues go on, and every connect ends.
Fairness == /\ WF_vars(Task) /\ WF_vars(CancelDisconnects) /\ WF_vars(Completion)
            /\ WF_vars(ConnectStarts) /\ WF_vars(ConnectEnds)
            /\ \A c \in Disconnects : WF_vars(Disconnect(c))
FairSpec == Spec /\ Fairness

-----------------------------------------------------------------------------
TypeOK ==
    /\ purpose \in {"connect", "hostKey", "authentication"}
    /\ body \in {"begins", "disconnects", "stored", "waits", "returned"}
    /\ handler \in {"ready", "disconnects", "done"}
    /\ state \in {"Idle", "Connecting", "Ready", "Closed"} /\ queue \in Seq({"connect"} \cup Disconnects)
    /\ result \in {"none", "ok", "failed", "cancelled", "invalidState"}
    /\ state = "Connecting" => queue # <<>> /\ Head(queue) = "connect"

\* A connection that a task returns is open, and no disconnect of a cancellation is or will be under way.
ReturnedIsUndisturbed ==
    result = "ok" => (\A c \in Disconnects : calls[c] = "none") /\ handler # "disconnects"
                     /\ (purpose = "connect" => state = "Ready")

\* A connect or a discovery of a host key that was cancelled before its completion ran throws the error cancelled (Docs/api/errors.html:56).
CancelledThrowsCancelled == [][result = "none" /\ result' # "none" /\ box.cancelled /\ purpose # "authentication"
                             => result' = "cancelled"]_vars

\* Every task returns.
TaskEnds == <>(body = "returned")

\* A task that throws leaves no session open.
NothingLeaks == (result \notin {"none", "ok"}) ~> [](state = "Closed")
=============================================================================
