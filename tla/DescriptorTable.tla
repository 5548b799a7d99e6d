-------------------------- MODULE DescriptorTable --------------------------
(***************************************************************************)
(* The descriptor table of the process.  A closed number is given out      *)
(* again at once, to SSHKit or to anybody else (a stranger), so a shutdown *)
(* or a close of a number kept too long hits the wrong socket.             *)
(***************************************************************************)
EXTENDS Naturals

CONSTANTS
    MaxFd,           \* descriptors are 1..MaxFd
    Strangers        \* whether the rest of the process opens descriptors

ASSUME TableAssumption == MaxFd \in Nat /\ Strangers \in BOOLEAN

VARIABLES
    owner,           \* who opened each descriptor, "free" when nobody has it
    shut,            \* the sockets that were shut down
    shutStranger,    \* SSHKit shut down a socket of a stranger
    closedStranger   \* SSHKit closed a descriptor of a stranger

tableVars == <<owner, shut, shutStranger, closedStranger>>

Fds == 1..MaxFd
NoFd == 0            \* -1 in the code

TableInit(owners) == owner = owners /\ shut = {} /\ shutStranger = FALSE /\ closedStranger = FALSE

\* socket and accept return the lowest free descriptor.
Open(f, who) ==
    /\ owner[f] = "free" /\ \A g \in Fds : owner[g] = "free" => f <= g
    /\ owner' = [owner EXCEPT ![f] = who]
    /\ shut' = shut \ {f}
    /\ UNCHANGED <<shutStranger, closedStranger>>

CloseDescriptors(fs) ==
    /\ owner' = [f \in Fds |-> IF f \in fs THEN "free" ELSE owner[f]]
    /\ closedStranger' = (closedStranger \/ \E f \in fs \ {NoFd} : owner[f] = "stranger")
    /\ UNCHANGED <<shut, shutStranger>>

ShutdownDescriptor(fd) ==
    /\ shut' = shut \cup ({fd} \ {NoFd})
    /\ shutStranger' = (shutStranger \/ (fd # NoFd /\ owner[fd] = "stranger"))
    /\ UNCHANGED <<owner, closedStranger>>

StrangerStep ==
    /\ Strangers
    /\ \E f \in Fds :
         \/ Open(f, "stranger")
         \/ /\ owner[f] = "stranger" /\ owner' = [owner EXCEPT ![f] = "free"]
            /\ UNCHANGED <<shut, shutStranger, closedStranger>>

\* SSHKit closes no descriptor it does not own, however the numbers are reused.
ClosesItsOwn == ~closedStranger

\* SSHKit shuts down no socket it does not own.
StrangersIntact == ~shutStranger

=============================================================================
