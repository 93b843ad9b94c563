CONSTANTS
    t1 = t1
    t2 = t2
    r1 = r1
    r2 = r2
    r3 = r3
    r4 = r4
    Nobody = Nobody
    Tenant <- MCTenant
    Verified <- MCVerified
    Request <- MCRequest
    TenantOf <- MCTenantOf
SPECIFICATION FairVerifierSpec
CHECK_DEADLOCK FALSE
INVARIANTS
    TypeOK
    ChainIntact
    HeadReadIsCurrent
    
    AlarmExplained
PROPERTIES
    LedgerIsALog
    EveryRequestAnswered
