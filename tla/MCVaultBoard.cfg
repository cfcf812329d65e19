CONSTANTS
    Requests = {r1, r2}
    Sessions = {k1, k2}
    Commitments = {c1, c2}
    MaxAttempts = 2
    MaxReorgs = 1
    MaxClock = 3
    Maturity = 3
    TTL = 1
    Margin = 1
    Quarantine = 1
    Skew = 1
SPECIFICATION Spec
SYMMETRY Symmetry
INVARIANTS OneLiveIntent
PROPERTIES SentOnce NoSecondCommitment SupersededSettled
CHECK_DEADLOCK FALSE
