---------------------------- MODULE MCSpendingFence ----------------------------
(***************************************************************************)
(* SpendingLedger against the abstract fence: an Ark payment, a Bitcoin     *)
(* payment and two delegated renewals, one on each payment's coin, that    *)
(* may be scheduled as one set and fall due in different seconds.          *)
(***************************************************************************)
EXTENDS SpendingLedger

CONSTANTS v1, d2, c1, c2

MCVaultOf == [l \in Lifecycles |-> v1]
MCInputs == [l \in Lifecycles |-> IF l \in Renewals \cup {d2} THEN {c2} ELSE {c1}]
MCDebit == [l \in Lifecycles |-> IF l \in Delegations THEN 1 ELSE 2]
MCAllowance == [v \in Vaults |-> 3]
MCRenewalExpiry == [p \in Renewals |-> 2]
MCValidAt == [d \in Delegations |-> IF d = d2 THEN 0 ELSE 1]
MCExpiresAt == [d \in Delegations |-> IF d = d2 THEN 1 ELSE 2]
=============================================================================
