SPECIFICATION FairSpec
CONSTANTS a = a
          a1 = a1
          b = b
          Key = {a, a1, b}
          OldKey <- MCOldKey
          Absent = Absent
          Worker = {w1, w2}
          Request <- EveryRequest
          Faults = TRUE
          MaxLag = 1
INVARIANTS CacheNeverWrong AddExclusive
PROPERTY Answered
