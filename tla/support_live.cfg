\* What has to happen: commands end, and the page is told whether the API lives.
CONSTANTS
    Parts = {"exec", "probe"}
    Callers = {c1, c2}
    Names = {m1}
    Nobody = Nobody
    MaxRetries = 2
    MaxAborts = 1
    Senders = {s1, s2}
    Capacity = 5
    Bodies <- MCBodies
    MaxSends = 2
    Nothing = Nothing
    Slots = {1, 2}
    Probes = {1, 2}
    Installs = {i1, i2}
    MaxTries = 2
    Pages = {p1, p2}
    TheDaemon = TheDaemon
    MaxIds = 2
    MaxIdle = 2
    Openings = {o1, o2}
    MaxAdapters = 2
    Plugins = {k1, k2}
    Requesters = {q1, q2}
    MaxVersion = 2
SPECIFICATION FairSupport
PROPERTIES MutexGivenBack LiveSettles
CHECK_DEADLOCK FALSE
