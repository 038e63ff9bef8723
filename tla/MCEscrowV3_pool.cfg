SPECIFICATION Spec
CONSTANTS
    m1 = m1
    m2 = m2
    payer = payer
    payee = payee
    treasury = treasury
    outside = outside
    zero = zero
    Milestones = {m1, m2}
    Amount <- MCAmount
    Payer = payer
    Payee = payee
    BondRecipient = treasury
    ZeroAddress = zero
    Outside = outside
    DisputeBond = 1
    AppealBond = 1
    DisputeWindow = 1
    AppealWindow = 1
    Funds <- MCFundsPooled
    BpsInputs = {4999, 10000, 10001}
    ExtraInputs = {1, 4}
    StatusUpdates <- VerifyUpdates
    MaxVerdicts = 1
    MaxTime = 1
INVARIANTS Solvent Conserved DecisionExecutable
CHECK_DEADLOCK FALSE
