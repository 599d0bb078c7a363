SPECIFICATION RSpec
CONSTANTS
    Size = 112
    Lens = {0, 5, 40}
    LenWrap = 65536
    LegacyLens = {}
    Data = {d}
    Epochs = {1, 2}
    MagicEpoch = 2
    MagicLen = 1000
INVARIANTS FormatDetected
CHECK_DEADLOCK FALSE
