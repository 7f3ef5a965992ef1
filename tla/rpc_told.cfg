SPECIFICATION Spec
CONSTANTS
    Thread = {t1}
    ip1 = ip1
    ip2 = ip2
    Server <- OneServer
    Fd = {f1, f2}
    Size = 1
    PerMeta = 1
    MaxCalls = 2
    Kind = {"get", "change"}
    Code = {0, 3, 4, 8, 254, 256}
    Split = FALSE
    None = None
SYMMETRY Symmetry
INVARIANTS NoPacketError MissingIsTold UrlIsNull
