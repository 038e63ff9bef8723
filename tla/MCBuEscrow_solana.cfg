SPECIFICATION Spec
CONSTANTS
    m1 = m1
    m2 = m2
    payer = payer
    payee = payee
    outside = outside
    vault = vault
    Milestones = {m1, m2}
    Amount <- MCAmount
    Payer = payer
    Payee = payee
    Outside = outside
    VaultAccount = vault
    VaultArgs = {vault, payer}
    DisputeWindow = 1
    Funds <- MCFunds
    BpsInputs = {4999, 10001}
    ExtraInputs = {1, 4}
    StatusUpdates <- MCUpdates
    MaxTime = 2
INVARIANTS BuTypeOK BuBacked CancelLosesNothing
 
CHECK_DEADLOCK FALSE
