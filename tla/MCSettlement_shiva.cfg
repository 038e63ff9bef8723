SPECIFICATION FairSSpec
CONSTANTS
    m1 = m1
    m2 = m2
    r1 = r1
    r2 = r2
    r3 = r3
    payer = payer
    payee = payee
    treasury = treasury
    outside = outside
    zero = zero
    Milestones = {m1, m2}
    Requests = {r1, r2, r3}
    Service = "shiva"
    MaxFaults = 0
    Amount <- MCAmount
    Payer = payer
    Payee = payee
    BondRecipient = treasury
    ZeroAddress = zero
    Outside = outside
    DisputeBond = 1
    AppealBond = 1
    DisputeWindow = 0
    AppealWindow = 1
    Funds <- MCFunds
    BpsInputs = {}
    ExtraInputs = {0}
    StatusUpdates <- ToReleasedCode
    MaxVerdicts = 0
    MaxTime = 1
INVARIANTS SettlementTypeOK
PROPERTIES SettlementPays
ACTION_CONSTRAINT KeepsOrder
CHECK_DEADLOCK FALSE
