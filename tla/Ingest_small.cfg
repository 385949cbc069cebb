\* Two submissions of up to two elements and two refreshes of two pages, a press
\* of another button, and one outage.
CONSTANTS
    t1 = t1
    t2 = t2
    t3 = t3
    Payloads <- SmallPayloads
    MaxSub = 2
    Pages = 2
    Published <- MCPublished
    Teams <- MCTeams
    MaxRefresh = 2
    Batches <- SmallBatches
    MaxPress = 1
    MaxOutage = 1
SPECIFICATION Spec
INVARIANTS
    IngestTypeOK
    MatchRowsSound
    MatchRowsComplete
    RefreshSound
PROPERTIES
    OnlyMatchesAfterLoss
\* The bounded submissions and refreshes are over.
CHECK_DEADLOCK FALSE
