SPECIFICATION Spec
CONSTANTS
    m1 = m1
    m2 = m2
    payer = payer
    payee = payee
    treasury = treasury
    outside = outside
    zero = zero
    Milestones = {m1}
    Amount <- MCAmount
    Payer = payer
    Payee = payee
    BondRecipient = treasury
    ZeroAddress = zero
    Outside = outside
    DisputeBond = 1
    AppealBond = 2
    DisputeWindow = 1
    AppealWindow = 1
    Funds <- MCFunds
    BpsInputs = {4999, 5000, 10001}
    ExtraInputs = {1, 4}
    StatusUpdates <- AllButRelease
    MaxVerdicts = 2
    MaxTime = 3
INVARIANTS TypeOK FullyBacked NoStrandedBond NoDoubleStake
PROPERTIES ReleaseIsFinal VaultSpec
