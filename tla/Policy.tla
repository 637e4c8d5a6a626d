------------------------------- MODULE Policy -------------------------------
(***************************************************************************)
(* Capability projection of crates/harness-core/src/policy.rs: the access  *)
(* lattice, the declarative CapabilityPolicy, and the projection that a    *)
(* runtime computes from its registered tools, its policy and, for a child *)
(* agent, the projection of its parent.  A projection is a function from   *)
(* tool names to accesses.                                                 *)
(***************************************************************************)
EXTENDS Naturals, Sequences

CONSTANT Tools   \* tool names

\* The variants of enum Access, in the order that its derived Ord gives them.
Access == {"deny", "ask", "allow"}

Rank(access) ==
    IF access = "deny" THEN 0 ELSE IF access = "ask" THEN 1 ELSE 2

\* The stricter of two grants.
Restrict(a, b) == IF Rank(a) <= Rank(b) THEN a ELSE b

(***************************************************************************)
(* A CapabilityPolicy: a default and the tools it mentions.                *)
(***************************************************************************)
CapabilityPolicies ==
    [default : Access, tools : UNION {[S -> Access] : S \in SUBSET Tools}]

PolicyAccess(policy, name) ==
    IF name \in DOMAIN policy.tools THEN policy.tools[name] ELSE policy.default

(***************************************************************************)
(* A CapabilityProjection answers Deny for every name it has no entry for. *)
(***************************************************************************)
Projections == UNION {[S -> Access] : S \in SUBSET Tools}

AccessIn(entries, name) ==
    IF name \in DOMAIN entries THEN entries[name] ELSE "deny"

VisibleNames(entries) == {name \in DOMAIN entries : entries[name] # "deny"}

\* Mutated form: a child keeps its grant of a tool its parent has no entry for.
ProjectCapabilitiesOpen(names, policy, parents) ==
    [name \in names |->
        IF parents = <<>> \/ name \notin DOMAIN parents[1]
        THEN PolicyAccess(policy, name)
        ELSE Restrict(PolicyAccess(policy, name), AccessIn(parents[1], name))]

\* parents is the empty sequence for a root agent and holds the parent's
\* projection for a child (Option<&CapabilityProjection>).
ProjectCapabilities(names, policy, parents) ==
    [name \in names |->
        IF parents = <<>>
        THEN PolicyAccess(policy, name)
        ELSE Restrict(PolicyAccess(policy, name), AccessIn(parents[1], name))]
=============================================================================
