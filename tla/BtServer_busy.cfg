\* Four tablets, from a frame in which two of them are sending.
CONSTANTS
    s1 = s1
    s2 = s2
    s3 = s3
    s4 = s4
    Sockets = {s1, s2, s3, s4}
    Codes <- MatchCode
    MaxReq = 1
    LaunchModes = {"async"}
    Faults = {"fin"}
    StartFailures = {}
    None = None
SYMMETRY Symmetry
SPECIFICATION BusySpec
INVARIANTS
    WorkersOwned
