SPECIFICATION Spec
CONSTANTS Worker = {w1, w2}
          Key = {k1, k2}
          Block = {b1, b2, b3}
          Null = Null
          Bytes = {1}
          Limit = 1
          Threshold = 0
          VMod = 5
          MaxClock = 0
SYMMETRY BlocksKeysWorkers
INVARIANT VictimStaysAlive
CHECK_DEADLOCK FALSE
