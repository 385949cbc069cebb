\* One tablet, one version of each list beside the first, two crashes or cut answers.
CONSTANTS
    a = a
    Tablets = {a}
    MaxVer = 1
    MaxFault = 2
    HashOf <- HashOfFiles
    None = None
SPECIFICATION LiveSpec
INVARIANTS
    TornOnlyByFault
    HashConfirms
PROPERTIES
    CopyIsWhole
    NoRollback
    Converges
