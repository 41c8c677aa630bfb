SPECIFICATION FairSpec
CONSTANTS
    Kinds = {"ring"}
    WaitSlots = 2
    Capacity = 1
    MaxMessage = 1
    Lengths = {1}
    Buffers = {1}
    Putters = {11}
    Takers = {21}
PROPERTY ShuttingEndsBlocking
CHECK_DEADLOCK FALSE
