SPECIFICATION Spec
CONSTANTS
    s1 = s1  s2 = s2  s3 = s3  p1 = p1  p2 = p2  p3 = p3  d1 = d1  d2 = d2
    u1 = u1  q1 = q1  None = None  Mqtt = mqtt
    Session = {s1, s2, s3}
    Target <- TargetThree
    Port = {p1, p2, p3}
    Device = {d1, d2}
    Key <- KeyAlias
    Service = {u1}
    Scope <- ScopeAlias
    Poller = {q1}
    Line <- LineAlias
    ChildTool = {s1}
    SlowUnit = {}
    Intruder = {d2}
    MutableUnit = {u1, mqtt}
    Updates = TRUE
    MaxCrash = 0
INVARIANTS
    ScopedServiceStopped
    ManagedExclusive
