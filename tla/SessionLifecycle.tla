-------------------------- MODULE SessionLifecycle --------------------------
(***************************************************************************)
(* What a connection promises about its session, whatever its calls do:    *)
(* the state only ever moves along the table the worker enforces with an   *)
(* exception (canTransitionFromState:toState:), the session is Ready or    *)
(* Running only while a libssh session exists, and a Closed connection has *)
(* released it.                                                            *)
(***************************************************************************)
VARIABLES state, live

RunningStates == {"RunningCommand", "RunningShell", "RunningSFTP", "RunningTunnel"}
UsableStates == {"Ready"} \cup RunningStates
States == {"Idle", "Connecting", "Closing", "Closed"} \cup UsableStates

\* Closing and Closed may also be entered again; that changes nothing.
Successors == [s \in States |->
    CASE s = "Idle"       -> {"Connecting", "Closing"}
      [] s = "Connecting" -> {"Ready", "Closed", "Closing"}
      [] s = "Ready"      -> RunningStates \cup {"Closing"}
      [] s = "Closing"    -> {"Closed"}
      [] s = "Closed"     -> {}
      [] OTHER            -> {"Ready", "Closing"}]

Init == state = "Idle" /\ live = FALSE

\* The session is made and given up while connecting.
Allocate == state = "Connecting" /\ live' = TRUE /\ UNCHANGED state
Abandon  == state = "Connecting" /\ live' = FALSE /\ UNCHANGED state

Move ==
    /\ state' \in Successors[state]
    /\ state' \in UsableStates => live
    /\ live' = (live /\ state' # "Closed")

Next == Allocate \/ Abandon \/ Move

Spec == Init /\ [][Next]_<<state, live>>

=============================================================================
