CONSTANTS
    Seed = {s1, s2}
    Code = {c1, c2, c3}
    Request = {r1, r2, r3, r4}
    NoSeed = NoSeed
    Nobody = Nobody
SPECIFICATION Spec
SYMMETRY Symmetry
CHECK_DEADLOCK FALSE
INVARIANTS
    RecoveryCodeOnce
    ConfirmedMfaHolds
