SPECIFICATION Spec
SYMMETRY Symmetric
CONSTANTS
    Reservations = {o1, o2}
    Delegated = {d1}
    Recoveries = {s1, s2}
    Retired = {k1, k2}
INVARIANTS
    TypeOK
    AcknowledgedSurvive
    SequenceCoversReservations
    RefusedOnlyWhenTorn
