CONSTANTS
    Tenant = {t1, t2}
    Email = {e1}
    Invitation = {i1, i2}
    Request = {r1, r2, r3, r4}
    RoleAsked = {"owner", "admin", "member"}
    OwnOrg = OwnOrg
    NoOrg = NoOrg
    Nobody = Nobody
SPECIFICATION Spec
SYMMETRY Symmetry
CHECK_DEADLOCK FALSE
INVARIANTS
    OnePendingPerEmail
    MembersWereInvited
    AdminsComeFromOwner
    LateAcceptFails
