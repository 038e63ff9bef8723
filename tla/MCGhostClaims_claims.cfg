SPECIFICATION Spec
CONSTANTS
    alice = alice
    bob = bob
    h1 = h1
    h2 = h2
    Users = {alice, bob}
    Receivers = {bob}
    Owner = alice
    Savings <- MCSavings
    U64 = 4
    Hashes = {h1, h2}
    Amounts = {1, 2}
    NoClaim = noclaim
    NoCall = nocall
SYMMETRY Interchangeable
INVARIANTS GhostTypeOK Covered ClaimsIndexed ClaimsPayable
CHECK_DEADLOCK FALSE
