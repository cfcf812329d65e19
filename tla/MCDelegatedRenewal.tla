-------------------------- MODULE MCDelegatedRenewal --------------------------
(* DelegatedRenewal for TLC.                                               *)
EXTENDS DelegatedRenewal, TLC

CONSTANTS v1, c1, c2, d1, d2

MCVaultOf == [l \in Lifecycles |-> v1]
MCInputs == [l \in Lifecycles |-> IF l = d1 THEN {c1} ELSE {c2}]
MCDebit == [l \in Lifecycles |-> 1]
MCAllowance == [v \in Vaults |-> 2]
MCRank == [d \in Delegations |-> IF d = d1 THEN 1 ELSE 2]
MCValidAt == [d \in Delegations |-> 0]
MCExpiresAt == [d \in Delegations |-> 1]
NoTimes == [p \in Renewals |-> 0]

Symmetric == Permutations(Nodes) \cup Permutations(PeerNonces)
=============================================================================
