SPECIFICATION FairSpec
CONSTANTS
    Devices = {sda1}
    Expiry = 1
    SockBuf = 2
    MaxEvents = 3
    MaxChecks = 1
    MaxFailures = 1
PROPERTIES EveryEventSettles
