SPECIFICATION RenewalSpec
CONSTANTS
    v1 = v1
    c1 = c1
    c2 = c2
    d1 = d1
    d2 = d2
    Vaults = {v1}
    VtxoOps = {}
    Renewals = {}
    Delegations = {d1, d2}
    Coins = {c1, c2}
    VaultOf <- MCVaultOf
    Inputs <- MCInputs
    Debit <- MCDebit
    Allowance <- MCAllowance
    RenewalExpiry <- NoTimes
    ValidAt <- MCValidAt
    ExpiresAt <- MCExpiresAt
    Window = 1
    ReserveTTL = 1
    RenewalLifetime = 1
    ReleaseGrace = 1
    DelegationLead = 1
    DelegationSpan = 1
    Quarantine = 1
    MaxDelegations = 2
    ClockLag = 0
    OperatorAhead = 0
    MaxSignCount = 0
    MaxTime = 2
    Rank <- MCRank
    Nodes = {n1}
    PeerNonces = {x}
    MaxBatch = 0
    MaxActive = 4
    MaxTranscript = 7
    OperatorSkew = 1
PROPERTIES
    DueResolved
    ImplementsLedger
CHECK_DEADLOCK FALSE
