\* Two tablets, one request each: every code of the enumeration, both launch modes, both faults.
CONSTANTS
    s1 = s1
    s2 = s2
    Sockets = {s1, s2}
    Codes <- AllEnumCodes
    MaxReq = 1
    LaunchModes = {"async", "deferred"}
    Faults = {"fin", "rst"}
    StartFailures = {}
    None = None
SYMMETRY Symmetry
SPECIFICATION Spec
INVARIANTS
    TypeOK
    NoSocketLeak
    RetiredOnce
    MatchConservation
    PayloadIsOwn
PROPERTIES
    ServiceSpec
