SPECIFICATION Spec
CONSTANTS
    Requests = {r1, r2}
    Poller = poller
    Transactions = {t1, t2}
    Checkpoints = {k1, k2}
    MaxSignCount = 1
INVARIANTS
    OneAuthorizedTransaction
    OneCheckpointSet
    AbortIsFinal
PROPERTIES
    ArtifactsKept
    ImplementsFence
    OutcomeRecorded
CHECK_DEADLOCK FALSE
