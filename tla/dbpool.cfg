SPECIFICATION FairSpec
CONSTANTS Worker = {w1, w2, w3}
          Size = 2
          None = None
INVARIANTS PrefixBusy SingleOwner NoLeak
PROPERTIES LockFreed Implements
