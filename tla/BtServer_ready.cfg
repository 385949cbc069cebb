\* A second tablet connects during the first one's transaction.
CONSTANTS
    s1 = s1
    s2 = s2
    Sockets = {s1, s2}
    Codes <- FewCodes
    MaxReq = 1
    LaunchModes = {"async"}
    Faults = {}
    StartFailures = {}
    None = None
SYMMETRY Symmetry
SPECIFICATION Spec
INVARIANTS
    AsyncNotReadyUntilDone
