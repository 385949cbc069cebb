\* A tablet that waits for the last ACK of the exchange.
CONSTANTS
    MaxTxn = 1
    Sizes = {1}
    READSIZE <- BT_EXPECTED_DATA_READSIZE
    ACK_SIZE <- BT_TAB_ACK_SIZE
    Faults = {}
    AwaitsFinalAck = TRUE
SPECIFICATION LiveSpec
PROPERTIES
    FinalAck
\* A connection on which nobody has anything to say is at rest.
CHECK_DEADLOCK FALSE
