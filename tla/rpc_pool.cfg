SPECIFICATION Spec
CONSTANTS
    Thread = {t1, t2}
    ip1 = ip1
    ip2 = ip2
    Server <- TwoHosts
    Fd = {f1, f2, f3}
    Size = 2
    PerMeta = 1
    MaxCalls = 3
    Kind = {"change"}
    Code = {0}
    Split = FALSE
    None = None
SYMMETRY Symmetry
INVARIANTS SocketExclusive NoSocketLost PoolBounded
