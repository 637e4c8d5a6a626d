----------------------------- MODULE Delegation -----------------------------
(***************************************************************************)
(* Chains of agents: each runtime is built with the capabilities() of the  *)
(* one that spawned it as its parent projection                            *)
(* (AgentRuntime::with_parent_capabilities, AgentRuntime::capabilities).   *)
(* Every agent has its own registered tools and its own policy.            *)
(***************************************************************************)
EXTENDS Policy

CONSTANT MaxDepth   \* bound: agents in a chain

ASSUME MaxDepthAssumption == MaxDepth \in Nat

VARIABLE chain      \* projections of a root agent and of its descendants

\* AgentRuntime::new without a parent.
SpawnRoot(names, policy) ==
    /\ chain = <<>>
    /\ chain' = <<ProjectCapabilities(names, policy, <<>>)>>

\* AgentRuntime::new(..).with_parent_capabilities(parent.capabilities()).
SpawnChild(names, policy) ==
    /\ chain # <<>>
    /\ Len(chain) < MaxDepth
    /\ chain' = Append(chain,
                  ProjectCapabilities(names, policy, <<chain[Len(chain)]>>))

ChainInit == chain = <<>>

ChainNext == \E names \in SUBSET Tools, policy \in CapabilityPolicies :
                 \/ SpawnRoot(names, policy)
                 \/ SpawnChild(names, policy)

ChainSpec == ChainInit /\ [][ChainNext]_chain

-----------------------------------------------------------------------------
ChainTypeOK == chain \in Seq(Projections)

(***************************************************************************)
(* No descendant, however deep, holds more than any of its ancestors: for  *)
(* every tool name, registered anywhere or not, the access of agent j is   *)
(* at most that of every agent i above it, although project_capabilities   *)
(* only ever intersects with the direct parent.                            *)
(***************************************************************************)
NoEscalation ==
    \A i, j \in DOMAIN chain : i <= j =>
        \A name \in Tools :
            Rank(AccessIn(chain[j], name)) <= Rank(AccessIn(chain[i], name))
=============================================================================
