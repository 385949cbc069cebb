\* Two tablets, two requests each: an object's next transaction after a finished, failed or empty one.
CONSTANTS
    s1 = s1
    s2 = s2
    Sockets = {s1, s2}
    Codes <- RequestCodes
    MaxReq = 2
    LaunchModes = {"async"}
    Faults = {"fin"}
    StartFailures = {}
    None = None
SYMMETRY Symmetry
SPECIFICATION Spec
INVARIANTS
    TransactionsTracked
    NoAbort
    NeverWaits
PROPERTIES
    ExclusiveRead
    ServiceSpec
