SPECIFICATION FairSpec
CONSTANTS
    Senders = {s1}
    Closers = {c1, c2}
    Packets = {p1, p2}
    Loop = Loop
    Timer = Timer
INVARIANTS TypeOK NoSendAfterClose HandleDiesWithReader DrainLosesNothing
PROPERTY RetiredIsClosed
CHECK_DEADLOCK FALSE
