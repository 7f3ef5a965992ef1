SPECIFICATION Spec
CONSTANTS
    Thread = {t1, t2}
    ip1 = ip1
    ip2 = ip2
    Server <- OneServer
    Fd = {f1, f2}
    Size = 2
    PerMeta = 2
    MaxCalls = 4
    Kind = {"change"}
    Code = {0, 3}
    Split = FALSE
    None = None
SYMMETRY Symmetry
INVARIANTS AnswerIsMine
