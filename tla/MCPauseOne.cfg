SPECIFICATION FairSpec
CONSTANTS
    k1 = k1  k2 = k2  w1 = w1  w2 = w2  h1 = h1  h2 = h2  Nobody = Nobody
    Holder = {k1}
    Worker = {w1, w2}
    Scheduled = {w1}
    Handle = {h1, h2}
    Uses <- UsesTwo
    CloseFails = TRUE
INVARIANTS
    PausedLine
    StaysPaused
PROPERTY
    Answered
