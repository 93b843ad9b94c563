CONSTANTS
    Owner = Owner
    Content = {b1, b2}
    MaxLength = 3
    MaxEdits = 2
SPECIFICATION TamperSpec
CHECK_DEADLOCK FALSE
INVARIANTS
    VerifyDecidesIntact
    
