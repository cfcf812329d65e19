SPECIFICATION Spec
CONSTANTS
    v1 = v1
    d2 = d2
    c1 = c1
    c2 = c2
    Vaults = {v1}
    VtxoOps = {o1}
    Renewals = {p1}
    Delegations = {d1, d2}
    Coins = {c1, c2}
    VaultOf <- MCVaultOf
    Inputs <- MCInputs
    Debit <- MCDebit
    Allowance <- MCAllowance
    RenewalExpiry <- MCRenewalExpiry
    ValidAt <- MCValidAt
    ExpiresAt <- MCExpiresAt
    Window = 1
    ReserveTTL = 1
    RenewalLifetime = 2
    ReleaseGrace = 1
    DelegationLead = 2
    DelegationSpan = 2
    Quarantine = 1
    MaxDelegations = 2
    ClockLag = 0
    OperatorAhead = 0
    MaxSignCount = 0
    MaxTime = 3
INVARIANT
    ArmedClearOfBitcoinPayments
CHECK_DEADLOCK FALSE
