SPECIFICATION TransportSpec
CONSTANTS
    Conns = {c1, c2}
    Excused = {"task queued at term", "streamhdr: usock event", "usock not active", "usock started twice", "stcp: event when done", "pipe: event after removal", "usock: accept", "sipc: message type"}
INVARIANTS NeverAborts OperationsEnd Listening CountersTrue
CHECK_DEADLOCK FALSE
PROPERTIES StopCompletes KeepsGoing
