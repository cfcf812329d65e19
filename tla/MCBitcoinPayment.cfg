SPECIFICATION PaymentSpec
SYMMETRY Symmetric
CONSTANTS
    v1 = v1
    c1 = c1
    p1 = p1
    p2 = p2
    Requests = {r1, r2}
    Vaults = {v1}
    VtxoOps = {}
    Renewals = {p1, p2}
    Delegations = {}
    Coins = {c1}
    VaultOf <- MCVaultOf
    Inputs <- MCInputs
    Debit <- MCDebit
    Allowance <- MCAllowance
    RenewalExpiry <- MCRenewalExpiry
    ValidAt <- NoTimes
    ExpiresAt <- NoTimes
    Window = 1
    ReserveTTL = 1
    RenewalLifetime = 3
    ReleaseGrace = 1
    DelegationLead = 1
    DelegationSpan = 1
    Quarantine = 1
    MaxDelegations = 1
    ClockLag = 0
    OperatorAhead = 1
    MaxSignCount = 0
    MaxTime = 2
    FreshMargin = 1
    OperatorSkew = 1
INVARIANTS
    GivenUpExcluded
    GivenUpUnqueued
PROPERTIES
    PaymentSentOnce
    ImplementsLedger
CHECK_DEADLOCK FALSE
