SPECIFICATION FairProcSpec
CONSTANTS
    Designs = {"single", "thread", "exit", "native", "worker", "other"}
    SockBuf = 2
    Tasks = {t1, t2, t3}
    Raising = {t2}
    Stops = {s1, s2}
INVARIANTS FirstInFirstOut EndsWithStop JoinMeansDone LockIsHeld
PROPERTIES StopEndsThread InterruptIsHandled MainKeepsRunning TasksAreExecuted
\* The process may end, or wait for tasks that nobody puts.
CHECK_DEADLOCK FALSE
