SPECIFICATION RSpec
CONSTANTS
    Size = 136
    Lens = {5, 40}
    LenWrap = 65536
    LegacyLens = {8}
    Data = {d}
    Epochs = {1, 2}
    MagicEpoch = 99
    MagicLen = 1000
INVARIANTS OnlyMarkedCollected
PROPERTIES ImplementsAllocator
CHECK_DEADLOCK FALSE
