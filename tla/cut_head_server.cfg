SPECIFICATION Spec
CONSTANTS
    Default = 32
    Slack = 4
    Large = 64
    MAX_FILE_NAME = 3
    POOL_NAME_SIZE = 2
    USERNAME_SIZE = 2
    CRPYT_CODE_SIZE = 2
    MAX_INFO_SIZE = 4
    STATE_INFO_SIZE = 4
    Scripts <- AllScripts
    Cuts = {1, 3, 4, 5, 8, 13, 20}
    MaxPack = 100
    MaxTimeout = 1
    MaxHangup = 1
    MaxRequestCut = 1
    MaxAnswerCut = 0
    MaxMove = 0
    StaleLengths = {0}
CHECK_DEADLOCK FALSE
PROPERTIES Implements
