--------------------------- MODULE MCSpendingLedger ---------------------------
(***************************************************************************)
(* SpendingLedger for TLC: one vault, two Ark payments and one delegated   *)
(* renewal that compete for a coin, and a Bitcoin payment of another coin. *)
(***************************************************************************)
EXTENDS SpendingLedger, TLC

CONSTANTS v1, c1, c2

MCVaultOf == [l \in Lifecycles |-> v1]
MCInputs == [l \in Lifecycles |-> IF l \in Renewals THEN {c2} ELSE {c1}]
MCDebit == [l \in Lifecycles |-> IF l \in Delegations THEN 1 ELSE 2]
MCAllowance == [v \in Vaults |-> 3]
MCRenewalExpiry == [p \in Renewals |-> 3]
MCValidAt == [d \in Delegations |-> 1]
MCExpiresAt == [d \in Delegations |-> 2]

Symmetric == Permutations(VtxoOps)
=============================================================================
