SPECIFICATION FairSpec
CONSTANTS
    Programs = {"daytime", "sixteen", "streamer"}
    Clients = {c1, c2, c3}
    Nobody = Nobody
    Backlog = 1
    Size = 2
INVARIANTS AnsweredWhenHeard FailsByClientOnly MessageIsWhole
PROPERTIES EveryoneServed
