------------------------------ MODULE ByteQueue ------------------------------
(***************************************************************************)
(* What an ssh_buffer promises: a queue of bytes with two ends.  A call    *)
(* that succeeds has all of its effect, and a call that fails has none,    *)
(* but for the length of a string that is taken and not followed by one.   *)
(***************************************************************************)
EXTENDS Integers, Sequences

VARIABLES
    bytes,      \* what is in the buffer
    call        \* the last call [op, n, data, ok], data of n bytes where it succeeds

Init == bytes = <<>> /\ call.op = "new"

Changes(op, effect) == call'.op = op /\ IF call'.ok THEN effect ELSE bytes' = bytes

Add == Changes("add", bytes' = bytes \o call'.data)
Prepend == Changes("prepend", bytes' = call'.data \o bytes)

\* It fails if, and only if, there are fewer bytes.
Take == /\ Changes("take", bytes = call'.data \o bytes')
        /\ call'.op = "take" /\ call'.ok = (call'.n <= Len(bytes))

TakeString ==
    /\ call'.op = "string"
    /\ IF call'.ok THEN bytes = <<call'.n>> \o (call'.data \o bytes')
       ELSE bytes' = bytes \/ (bytes # <<>> /\ bytes' = Tail(bytes))

Cut == Changes("cut", bytes = bytes' \o call'.data)
Reserve == Changes("reserve", bytes' = bytes)
Clear == call'.op = "clear" /\ bytes' = <<>>

Next == Add \/ Prepend \/ Take \/ TakeString \/ Cut \/ Reserve \/ Clear
Spec == Init /\ [][Next]_<<bytes, call>>
=============================================================================
