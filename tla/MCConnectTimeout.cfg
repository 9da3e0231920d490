SPECIFICATION FairSpec
CONSTANTS
    Languages = {"c", "cxx"}
    MaxTimeout = 3
    MaxSignals = 2
    MaxTime = 4
INVARIANTS SuccessIsUsable TimeIsKept ClosedOnce FlagsRestored
PROPERTIES CallReturns
