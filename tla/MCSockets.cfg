SPECIFICATION Spec
CONSTANTS
    Urls = {u1, u2}
    None = None
    Seeds = {u2}
    Banned = {}
    Objects = {o1, o2, o3, o4}
    KnownLimit = 2
    MinScore <- MCMinScore
    MaxScore = 1
    MaxServerScore = 2
    MaxSteps = 7
    Dialled = {u1}
    Conns = {c1, c2}
    Dialers = {d1, d2}
    ClientsMax = 2
    ServersMax = 1
    ReadyThreshold = 1
    Keys = {k1}
    MaxSubscriptions = 1
INVARIANTS SocketsAreSound KnownNodesAreKept
PROPERTIES ConnectionsEnd
CHECK_DEADLOCK FALSE
