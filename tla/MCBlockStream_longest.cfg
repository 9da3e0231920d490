SPECIFICATION Spec
CONSTANTS
    MaxBlocks = 4
    Lists <- LongestLists
    HdrSize = 2
    Modulus = 4
    Cap = 3
    Senders = {"c"}
    Receivers = {"c"}
    Interrupts = FALSE
    Crashes = FALSE
INVARIANTS BufferHoldsBlock
