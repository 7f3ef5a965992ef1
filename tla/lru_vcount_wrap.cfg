SPECIFICATION Spec
CONSTANTS Worker = {w1}
          Key = {k1}
          Block = {b1, b2}
          Null = Null
          Bytes = {1}
          Limit = 2
          Threshold = 0
          VMod = 8
          MaxClock = 0
SYMMETRY Blocks
PROPERTY OlderStaysOlder
