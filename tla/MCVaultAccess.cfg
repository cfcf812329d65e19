CONSTANTS
    None = None
    Gone = Gone
    Tokens = {t1, t2}
    FileTokens = {t1}
    VaultIds = {v1, v2}
    Clients = {c1, c2}
    Setups = {light, standard}
    Keys = {k1, k2}
    Light = light
    Standard = standard
    OneVault = v1
    OneToken = t1
    OneKey = k1
    FileWindow = 2
    SessionTTL = 2
    PendingTTL = 1
    Retention = 1
    MaxRecent = 1
    MaxActive = 1
    MaxTime = 4
    MaxTickets = 3
    Calls = {a1, a2}
    Envelopes = {e1, e2}
    ChallengeTTL = 1
    MaxConsumed = 2
    MaxConsumedPerVault = 2
    Sessions = {s1, s2}
    Headers = {h1, h2}
    Bodies = {b1, b2}
    BackupTTL = 2
    MaxRevision = 2
    Roles = {"phone", "hardware"}
    Coins = {o1}
    Fees = {f1, f2}
    Approvals = {p1, p2}
    MaxEvents = 4
SPECIFICATION MCSpec
SYMMETRY Symmetry
INVARIANTS
    OneVaultPerInvite AnsweredAsReviewed RetryAccepted
    TicketUsedOnce HeaderPinned AckedWriteStored
    OneDestination NoUnrecordedSignature
PROPERTIES EnvelopeLocked
CHECK_DEADLOCK FALSE
