SPECIFICATION RSpec
CONSTANTS
    Scale = 1
    Opinions <- MCOpinions
    None = none
    RecordedBps = {10000}
INVARIANTS OverturnNeedsSupermajority
CHECK_DEADLOCK FALSE
