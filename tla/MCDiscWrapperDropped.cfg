CONSTANTS
    w1 = w1
    w2 = w2
    w3 = w3
    Wrapper = {w1, w2, w3}
    NoOne = NoOne
    MaxPolls = 2
SPECIFICATION FairSpec
CHECK_DEADLOCK FALSE
PROPERTY DiscIsSeen
