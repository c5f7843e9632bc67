\* In the end everything has been sent and nothing more arrives.
SPECIFICATION FairStreamSpec
CONSTANTS
    Header = 2
    Lengths = {2, 3, 5}
    Garbage = Garbage
    MaxSent = 4
INVARIANT StreamTypeOK
PROPERTIES
    StreamIsFifo
    MessagesGetThrough
CHECK_DEADLOCK FALSE
