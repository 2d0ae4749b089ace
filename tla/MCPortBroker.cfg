SPECIFICATION Spec
CONSTANTS
    s1 = s1  s2 = s2  s3 = s3  p1 = p1  p2 = p2  p3 = p3  d1 = d1  d2 = d2
    u1 = u1  q1 = q1  None = None  Mqtt = mqtt
    Session = {s1, s2, s3}
    Target <- TargetAlias
    Port = {p1, p2, p3}
    Device = {d1, d2}
    Key <- KeyAlias
    Service = {u1}
    Scope <- ScopeAlias
    Poller = {q1}
    Line <- LineAlias
    ChildTool = {s1}
    SlowUnit = {u1}
    Intruder = {}
    MutableUnit = {u1}
    Updates = TRUE
    MaxCrash = 1
INVARIANTS
    LeaseHolderExclusive
    NoLostObligation
    MutationExclusive
    MaintenanceExclusive
PROPERTIES
    StartsOnlyWhatItStopped
    OwnsUart
