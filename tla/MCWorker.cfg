SPECIFICATION Spec
CONSTANTS
    TimerId <- MCTimerId
    Intervals <- MCIntervals
INVARIANTS
    Consistent
PROPERTIES
    TimeoutNotEarly
    TimersEnd
    TimerAlone
