CONSTANTS
    version = version
    added = added
    gone = gone
    stamp = stamp
    same = same
    u1 = u1
    u2 = u2
    Deploy = {version, added, same}
    Stamp = {stamp}
    Delete = {gone}
    Same = {same}
    Present = {version, same, gone, stamp}
    VersionFile = version
    Unit = {u1, u2}
    Enabled = {u1}
    Restart = {u2}
    None = None
    MaxTxn = 1
    MaxMishap = 1
    StagingVanishes = FALSE
SPECIFICATION Spec
PROPERTY ServicesAsBefore
