CONSTANTS
    Tab = {a, b}
    Bare = Bare
    Session = {s1}
    Token = {k1, k2, k3}
    Request = {r1, r2, r3}
    Nobody = Nobody
    NoToken = NoToken
SPECIFICATION ClientSpec
CHECK_DEADLOCK FALSE
SYMMETRY ClientSymmetry
INVARIANT LogoutClearsToken
