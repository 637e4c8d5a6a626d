--------------------------- MODULE MCAgentRuntime ---------------------------
(* Instances of AgentRuntime for TLC. *)
EXTENDS AgentRuntime, TLC

CONSTANTS read, shell, wipe, gone, arg1, arg2

\* read is allowed, shell needs approval, wipe is denied, gone is unregistered.
MCPolicy == [default |-> "deny", tools |-> (read :> "allow" @@ shell :> "allow")]
MCParent == <<(read :> "allow" @@ shell :> "ask" @@ gone :> "allow")>>
=============================================================================
