SPECIFICATION Spec
CONSTANTS
    Devices = {sda1, sdb1}
    Expiry = 1
    SockBuf = 2
    MaxEvents = 3
    MaxChecks = 1
    MaxFailures = 1
SYMMETRY Symmetry
INVARIANTS OnlyAddsAreOvertaken PipelineInOrder ExactlyOnce ExpiredAreLate AddedWereMounted
