------------------------------ MODULE MCChannels ------------------------------
(***************************************************************************)
(* The instances of ChannelFlow and of ChannelRequests that TLC checks in  *)
(* one run: the data of one channel, once with output of the server and    *)
(* once with input for it, and the opens and requests of several channels, *)
(* once with calls that time out and once without.  A behaviour is one of  *)
(* a single part; the others stay as they began.                           *)
(***************************************************************************)
EXTENDS ChannelFlow, ChannelRequests

VARIABLE part       \* which part takes steps

Prompt == INSTANCE ChannelRequests WITH Timeouts <- {}

ASSUME RequestsAssumption /\ Prompt!RequestsAssumption

allVars == <<part, vars, jobVars>>

\* With output the application writes nothing, and with input the server has nothing to say.
PartsInit ==
    /\ part \in {"output", "input", "late", "prompt"} /\ Init /\ JobsInit
    /\ part # "output" => demand = None
PartsNext ==
    \/ part = "output" /\ Next /\ left' = 0 /\ UNCHANGED <<part, jobVars>>
    \/ part = "input" /\ Next /\ UNCHANGED <<part, jobVars>>
    \/ part = "late" /\ JobsNext /\ UNCHANGED <<part, vars>>
    \/ part = "prompt" /\ Prompt!JobsNext /\ UNCHANGED <<part, vars>>

PartsSpec ==
    /\ PartsInit /\ [][PartsNext]_allVars
    /\ WF_vars(part = "output" /\ Continues)
    /\ WF_vars(part = "output" /\ Handles)
    /\ WF_vars(part = "output" /\ Flush)
    /\ WF_vars(part = "output" /\ ServerReceives)
    /\ \A s \in Streams :
        /\ SF_vars(part = "output" /\ \E n \in 1..buffer[s] : ReadData(s, n))
        /\ WF_vars(part = "output" /\ \E n \in 1..MaxPacket : ServerData(s, n))
    /\ WF_jobVars(part = "prompt" /\ Prompt!Worker)
    /\ WF_jobVars(part = "prompt" /\ Prompt!JobHandlers)
    /\ WF_jobVars(part = "prompt" /\ Prompt!JobServer)
    /\ \A c \in Prompt!Ids : WF_jobVars(part = "prompt" /\ server[c].phase = "ended" /\ Prompt!ServerCloses(c))

\* A command whose output has ended gets its result (ssh_channel_get_exit_state).
PromptResultComes == part = "prompt" => ResultComes

\* Nobody waits for a channel: neither a reader of its output nor a command for its result
\* (grow_window, ssh_channel_get_exit_state).
ReadersAreServed == (part = "output" => OutputArrives) /\ PromptResultComes

===============================================================================
