\* Progress of two tablets; the tablets' interchangeability is not used.
CONSTANTS
    s1 = s1
    s2 = s2
    Sockets = {s1, s2}
    Codes <- FewCodes
    MaxReq = 1
    LaunchModes = {"async"}
    Faults = {"stall"}
    StartFailures = {"bind", "getsockname", "ioctlsocket"}
    None = None
SPECIFICATION LiveSpec
PROPERTIES
    FramesGoOn
    RequestServed
    TransactionEnds
    MatchDelivered
    ShutdownCompletes
\* A program whose listener blocks may wait for a tablet for good.
CHECK_DEADLOCK FALSE
