-------------------------- MODULE ClosableRuntime --------------------------
(***************************************************************************)
(* What closeWithCompletion: promises, for any runtime: a call is answered *)
(* once, and not before the runtime has released everything it held, which *)
(* it never takes again.                                                   *)
(***************************************************************************)
CONSTANT Closers     \* calls of closeWithCompletion:

VARIABLES
    released,        \* the runtime holds no channel, descriptor or listener
    call             \* each call: "none", "waiting" or "answered"

Init == released = FALSE /\ call = [c \in Closers |-> "none"]

Release == released' = TRUE /\ UNCHANGED call

Call(c) ==
    /\ call[c] = "none"
    /\ call' = [call EXCEPT ![c] = "waiting"]
    /\ UNCHANGED released

\* A late call is answered as it is made, and the first one may be by the step that releases.
Answer(c) ==
    /\ call[c] # "answered"
    /\ call' = [call EXCEPT ![c] = "answered"]
    /\ released' = TRUE

Next == Release \/ \E c \in Closers : Call(c) \/ Answer(c)

Spec == Init /\ [][Next]_<<released, call>>

=============================================================================
