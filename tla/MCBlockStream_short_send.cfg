SPECIFICATION Spec
CONSTANTS
    MaxBlocks = 4
    Lists <- FewLists
    HdrSize = 2
    Modulus = 4
    Cap = 3
    Senders = {"py"}
    Receivers = {"py"}
    Interrupts = TRUE
    Crashes = FALSE
INVARIANTS FramesWhole
