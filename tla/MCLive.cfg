SPECIFICATION FairSpec
CONSTANTS
    s1 = s1  s2 = s2  s3 = s3  p1 = p1  p2 = p2  p3 = p3  d1 = d1  d2 = d2
    u1 = u1  q1 = q1  None = None  Mqtt = mqtt
    Session = {s1, s2}
    Target <- TargetTwo
    Port = {p1, p2}
    Device = {d1, d2}
    Key <- KeyTwo
    Service = {u1}
    Scope <- ScopeTwo
    Poller = {q1}
    Line <- LineOne
    ChildTool = {s1}
    SlowUnit = {u1}
    Intruder = {}
    MutableUnit = {}
    Updates = FALSE
    MaxCrash = 1
PROPERTIES
    ServiceRestored
    LeaseDroppedWhenFree
CHECK_DEADLOCK FALSE
