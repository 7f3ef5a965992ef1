SPECIFICATION Spec
CONSTANTS
    Thread = {t1}
    ip1 = ip1
    ip2 = ip2
    Server <- TwoPorts
    Fd = {f1, f2}
    Size = 2
    PerMeta = 2
    MaxCalls = 2
    Kind = {"get", "change"}
    Code = {0, 3, 4, 8, 254, 256}
    Split = FALSE
    None = None
SYMMETRY Symmetry
INVARIANTS RightServer
