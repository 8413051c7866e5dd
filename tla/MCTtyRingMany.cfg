CONSTANTS
    Size = 2
    Word = 8
    Chars = {a}
    Producers = {p1, p2, p3}
    Consumers = {reader}
    Flushers = {reader}
    Nothing = Nothing
SPECIFICATION FairSpec
INVARIANTS
    RingConsistent
    OvershootBounded
PROPERTY CallsReturn
