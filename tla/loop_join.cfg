SPECIFICATION Spec
CONSTANTS Worker = {w1, w2}
          Last = w1
          Conn = {f1}
          Listen = listen
          Handler = {h1, h2}
          None = None
          MayStop = TRUE
          MaxTraffic = 1
INVARIANT AllJoined
CHECK_DEADLOCK FALSE
