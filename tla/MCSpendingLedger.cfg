SPECIFICATION Spec
SYMMETRY Symmetric
CONSTANTS
    v1 = v1
    c1 = c1
    c2 = c2
    Vaults = {v1}
    VtxoOps = {o1, o2}
    Renewals = {p1}
    Delegations = {d1}
    Coins = {c1, c2}
    VaultOf <- MCVaultOf
    Inputs <- MCInputs
    Debit <- MCDebit
    Allowance <- MCAllowance
    RenewalExpiry <- MCRenewalExpiry
    ValidAt <- MCValidAt
    ExpiresAt <- MCExpiresAt
    Window = 1
    ReserveTTL = 1
    RenewalLifetime = 2
    ReleaseGrace = 1
    DelegationLead = 2
    DelegationSpan = 2
    Quarantine = 1
    MaxDelegations = 1
    ClockLag = 1
    OperatorAhead = 1
    MaxSignCount = 0
    MaxTime = 4
INVARIANTS
    OneActiveLifecycle
    SpentWithinAllowance
    RollingOutflowWithinAllowance
    GivenUpNeverSettles
    CoinLockedOnce
    ArmedClearOfVtxoPayments
CHECK_DEADLOCK FALSE
