SPECIFICATION ApartSpec
CONSTANTS Worker = {w1, w2}
          Key = {k1, k2, k3}
          Block = {b1, b2, b3, b4}
          Null = Null
          Bytes = {1, 2}
          Limit = 2
          Threshold = 0
          VMod = 5
          MaxClock = 1
SYMMETRY BlocksKeysWorkers
INVARIANTS MemorySafe TableMatchesLists Accounting WithinLimit
CHECK_DEADLOCK FALSE
