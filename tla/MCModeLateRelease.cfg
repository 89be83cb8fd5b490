CONSTANTS
    m1 = m1
    m2 = m2
    m3 = m3
    Mode = {m1, m2, m3}
    Client = {m1, m2, m3}
    Name = {"a", "b"}
    NameOf <- Reborn
    ClientOf <- OwnClient
    Streamers = {}
    NoName = NoName
    MaxId = 2
    MaxReleases = 1
    MaxRestarts = 0
SPECIFICATION MCSpec
PROPERTIES ReleaseOnlyOwnLease
