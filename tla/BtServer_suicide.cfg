\* One tablet that asks for its connection to be closed.
CONSTANTS
    s1 = s1
    Sockets = {s1}
    Codes <- FewCodes
    MaxReq = 1
    LaunchModes = {"async"}
    Faults = {}
    StartFailures = {}
    None = None
SPECIFICATION Spec
INVARIANTS
    SuicideOnce
