CONSTANTS
    Request = {1, 2, 3}
    Tenant = {t1, t2}
    AppConn = {a1}
    IdentityConn = {i1}
    Nobody = Nobody
    Leaked = Leaked
    NoTenant = NoTenant
SPECIFICATION FairSpec
CHECK_DEADLOCK FALSE
INVARIANTS
    TenantIsolation
    KeylessExplained
    SealedStaysOpenable
PROPERTIES
    EveryRequestAnswered
