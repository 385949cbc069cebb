\* Three transactions, an empty and a longer payload, any split of the stream, all faults.
CONSTANTS
    MaxTxn = 3
    Sizes = {0, 3}
    READSIZE <- BT_EXPECTED_DATA_READSIZE
    ACK_SIZE <- BT_TAB_ACK_SIZE
    Faults = {"fin", "rst", "stall"}
    AwaitsFinalAck = FALSE
SPECIFICATION LiveSpec
INVARIANTS
    LinkTypeOK
    AlignedUntilFailure
    PayloadsInOrder
PROPERTIES
    ServerReturns
    ReadCompletes
\* A connection on which nobody has anything to say is at rest.
CHECK_DEADLOCK FALSE
