SPECIFICATION DeviceSpec
CONSTANTS
    Arrivals = 2
    Excused = {"getsockopt", "ENOTSUP", "recv EAGAIN", "send EAGAIN", "EINTR"}
INVARIANTS HasVerdict Relayed
PROPERTIES MovesOn TermEnds
CHECK_DEADLOCK FALSE
