SPECIFICATION Spec
CONSTANTS
    Thread = {t1}
    ip1 = ip1
    ip2 = ip2
    Server <- OneServer
    Fd = {f1, f2}
    Size = 1
    PerMeta = 1
    MaxCalls = 3
    Kind = {"get", "change"}
    Code = {0, 3, 4, 8, 254, 256}
    Split = TRUE
    None = None
SYMMETRY Symmetry
INVARIANT AnswerIsMine
