CONSTANTS
    Requests = {r1, r2}
    Receipts = {ws1}
    MaxReplies = 3
    BatchSize = 2
    Mishaps = {"add", "read", "parse", "ack"}
    MaxMishaps = 2
SPECIFICATION FairSpec
INVARIANTS TypeOK NoLeak OwnReply
PROPERTIES EveryRequestEnds RepliesAreHandled
CHECK_DEADLOCK FALSE
