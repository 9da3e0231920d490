SPECIFICATION FairSpec
CONSTANTS
    MaxBlocks = 4
    Lists <- FewLists
    HdrSize = 2
    Modulus = 4
    Cap = 3
    Senders = {"py"}
    Receivers = {"c"}
    Interrupts = TRUE
    Crashes = TRUE
PROPERTIES NobodyWaitsForever
