SPECIFICATION Spec
CONSTANTS
    Scale = 2
    Opinions <- MCOpinions
    None = none
INVARIANTS ArbitrationTypeOK OverturnNeedsSupermajority NoMinorityOutcome PaymentWithinVotes
CHECK_DEADLOCK FALSE
