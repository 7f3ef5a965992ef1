SPECIFICATION FairSpec
CONSTANTS Retry = 2
          Calls = 3
INVARIANTS AtMostOnce AnswerTrue StatementComplete OldOutageHidden
PROPERTY Returns
