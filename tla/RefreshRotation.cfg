CONSTANTS
    Session = {s1}
    Token = {k1, k2, k3, k4}
    Request = {r1, r2, r3}
    Nobody = Nobody
    NoToken = NoToken
SPECIFICATION FairSpec
CHECK_DEADLOCK FALSE
INVARIANTS
    TypeOK
    OneLiveToken
    LinearFamily
    ReuseRevokes
    RevokedFamilyIsDead
    TokenSpentOnce
PROPERTIES
    NothingComesBack
    EveryRequestAnswered
