CONSTANTS
    PREFIX_MAX = 2
    SPARSE_MAX = 2
    Pipes = {p1, p2}
    Topics <- MCTopics
    Messages <- MCMessages
    MaxSubs = 5
    AllowWide = TRUE
SPECIFICATION Spec
CHECK_DEADLOCK FALSE
INVARIANT AnyTopicDelivers
