SPECIFICATION OrderlySpec
CONSTANTS a = a
          a1 = a1
          b = b
          Key = {a, a1, b}
          OldKey <- MCOldKey
          Absent = Absent
          Worker = {w1, w2}
          Request <- OrderlyRequests
          Faults = TRUE
          MaxLag = 1
INVARIANT CacheCoherent
PROPERTY Implements
