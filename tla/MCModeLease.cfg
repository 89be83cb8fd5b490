CONSTANTS
    m1 = m1
    m2 = m2
    m3 = m3
    Mode = {m1, m2, m3}
    Client = {m1, m2, m3}
    Name = {"a", "b"}
    NameOf <- Reborn
    ClientOf <- OwnClient
    Streamers = {m1, m2}
    NoName = NoName
    MaxId = 3
    MaxReleases = 1
    MaxRestarts = 1
SPECIFICATION MCSpec
INVARIANTS SettledLease SettledExclusion NamesUnique
PROPERTIES RevokedModeStops LeaseWithTheLiving
