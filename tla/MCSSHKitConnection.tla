------------------------- MODULE MCSSHKitConnection -------------------------
(***************************************************************************)
(* The instances of SSHKitConnection that TLC checks.  Jobs and closers    *)
(* are interchangeable: the symmetry is used by the runs without liveness. *)
(***************************************************************************)
EXTENDS SSHKitConnection, TLC

CONSTANTS s1, s2, j1, j2, c1, c2

CallSymmetry == Permutations(Jobs) \cup Permutations(Closers) \cup Permutations(Starts)

=============================================================================
