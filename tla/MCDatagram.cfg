SPECIFICATION FairSpec
CONSTANTS
    NClients = 3
    NServers = 2
    Addresses = {a1, a2}
    Programs = {"udp", "c", "cxx", "py"}
    Buffer = 1
    MaxKills = 2
INVARIANTS AnswerIsMine ExactlyOnce ServerFailsByKill ServerIsReached
PROPERTIES ClientIsAnswered
\* A server waits for requests, and a client whose request is lost for its answer.
CHECK_DEADLOCK FALSE
