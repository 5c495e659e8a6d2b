SPECIFICATION SurveySpec
CONSTANTS
    Respondents = {"p1", "p2"}
    MaxId = 3
    Deadlines = {0, 1000}
INVARIANTS
    SurveyConsistent
PROPERTIES
    CloseCompletes
    ImplementsClient
CHECK_DEADLOCK FALSE
