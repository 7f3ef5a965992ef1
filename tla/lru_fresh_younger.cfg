SPECIFICATION Spec
CONSTANTS Worker = {w1}
          Key = {k1, k2, k3}
          Block = {b1, b2, b3, b4}
          Null = Null
          Bytes = {1}
          Limit = 2
          Threshold = 1
          VMod = 5
          MaxClock = 2
SYMMETRY Blocks
PROPERTY FreshYoungerIsSpared
