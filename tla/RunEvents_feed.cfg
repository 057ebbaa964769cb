\* Two publishers, two browsers, breaking connections, batches of two.
SPECIFICATION FairSpec
CONSTANTS
    w1 = w1
    w2 = w2
    b1 = b1
    b2 = b2
    Writers <- TwoWriters
    Readers <- TwoBrowsers
    Limit = 2
    MaxEvents = 3
    MaxDrops = 2
INVARIANTS TypeOK NumberStaysFree
PROPERTIES ImplementsFeed EveryoneHears
CHECK_DEADLOCK FALSE
