CONSTANTS
    olga = olga
    adam = adam
    vera = vera
    v1 = v1
    v2 = v2
    s1 = s1
    s2 = s2
    Vault = {v1, v2}
    Secret = {s1, s2}
    VaultOf <- MCVaultOf
    User = {olga, adam, vera}
    RoleOf <- MCRoleOf
    Existing = {v1, s1}
    Request = {1, 2, 3}
    Menu <- MCMenu
    ChainHead = ChainHead
    Nobody = Nobody
SPECIFICATION FairSpec
CONSTRAINT NamedInOrder
CHECK_DEADLOCK FALSE
INVARIANTS
    SecretsFollowLog
    RotationReadIsCurrent
    NoLateSuccess
    
    
    PolicyAsDocumented
PROPERTIES
    HistoryIsKept
    EveryRequestAnswered
