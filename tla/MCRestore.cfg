SPECIFICATION Spec
CONSTANTS
    Reservations = {o1, o2}
    Delegated = {d1}
    Recoveries = {s1, s2}
    Retired = {k1, k2}
INVARIANT
    RestoreRefused
