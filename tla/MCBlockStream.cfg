SPECIFICATION FairSpec
CONSTANTS
    MaxBlocks = 4
    Lists <- MCLists
    HdrSize = 2
    Modulus = 8
    Cap = 3
    Senders = {"c", "cxx"}
    Receivers = {"c", "cxx", "py"}
    Interrupts = TRUE
    Crashes = TRUE
INVARIANTS FramesWhole BlocksDelivered BufferHoldsBlock InStep
PROPERTIES NobodyWaitsForever ImplementsChannel
