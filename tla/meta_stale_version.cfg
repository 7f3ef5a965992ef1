SPECIFICATION Spec
CONSTANTS a = a
          a1 = a1
          b = b
          Key = {a, a1, b}
          OldKey <- MCOldKey
          Absent = Absent
          Worker = {w1}
          Request <- VersionRequests
          Faults = FALSE
          MaxLag = 0
INVARIANT GetIsCurrent
