CONSTANTS
    Sessions = {s1, s2, s3}
    None = none
    MaxAsk = 2
    MaxCrash = 2
    MaxLate = 2
    MaxFault = 2
    LossInConnect = FALSE
SPECIFICATION FairSpec
CHECK_DEADLOCK FALSE
PROPERTIES StopEnds Restarted StaysRegistered
