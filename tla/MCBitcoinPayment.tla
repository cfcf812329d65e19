--------------------------- MODULE MCBitcoinPayment ---------------------------
(* BitcoinPayment for TLC: two payments of one coin, the second prepared   *)
(* while the first is under way.                                           *)
EXTENDS BitcoinPayment, TLC

CONSTANTS v1, c1, p1, p2

MCVaultOf == [l \in Lifecycles |-> v1]
MCInputs == [l \in Lifecycles |-> {c1}]
MCDebit == [l \in Lifecycles |-> 1]
MCAllowance == [v \in Vaults |-> 1]
MCRenewalExpiry == [p \in Renewals |-> IF p = p1 THEN 1 ELSE 3]
NoTimes == [d \in Delegations |-> 0]

Symmetric == Permutations(Requests)
=============================================================================
