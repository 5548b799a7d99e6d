---------------------------- MODULE MCSFTPRuntime ----------------------------
(***************************************************************************)
(* The instances of SFTPRuntime and of SFTPQueue that TLC checks in one    *)
(* run: the owners of an SFTP session and the requests on it, once with    *)
(* calls whose time is up and once, with liveness, without.  A behaviour   *)
(* is one of a single part; the other one stays as it began.               *)
(***************************************************************************)
EXTENDS SFTPRuntime, SFTPQueue, TLC

CONSTANTS f1, f2, c1, c2

VARIABLE part        \* which part takes steps

Prompt == INSTANCE SFTPQueue WITH MaxTimeouts <- 0

ASSUME QueueAssumption

allVars == <<part, vars, queueVars>>

PartsInit ==
    /\ part \in {"runtime", "late", "prompt"} /\ Init /\ QueueInit
    /\ part # "runtime" => layer = "objc"
PartsNext ==
    \/ part = "runtime" /\ Next /\ UNCHANGED <<part, queueVars>>
    \/ part = "late" /\ QueueNext /\ UNCHANGED <<part, vars>>
    \/ part = "prompt" /\ Prompt!QueueNext /\ UNCHANGED <<part, vars>>
PartsSpec ==
    /\ PartsInit /\ [][PartsNext]_allVars
    /\ WF_vars(part = "runtime" /\ WorkerStep)
    /\ WF_queueVars(part = "prompt" /\ Prompt!Work)
    /\ WF_queueVars(part = "prompt" /\ Prompt!ServerAnswers)

\* A job whose requests the server answers ends (sftp_read_and_dispatch).
PromptJobsEnd == part = "prompt" => JobsEnd

\* A file that nobody holds is given back, and every job whose requests are answered ends
\* (SSHCoreLibSSHSFTPFileRuntime.m, sftp_read_and_dispatch).
OwnersAreServed == DroppedIsReleased /\ PromptJobsEnd

==============================================================================
