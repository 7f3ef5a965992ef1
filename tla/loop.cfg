SPECIFICATION FairSpec
CONSTANTS Worker = {w1, w2}
          Last = w1
          Conn = {f1, f2}
          Listen = listen
          Handler = {h1, h2, h3}
          None = None
          MayStop = TRUE
          MaxTraffic = 3
INVARIANTS OneThreadPerHandler FiredIsCurrent SlotWasFree NothingForgotten UnsentIsArmed AtMostOneLeft
PROPERTIES JoinsEnd InputServed
CHECK_DEADLOCK FALSE
