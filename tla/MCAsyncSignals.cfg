CONSTANTS
    Thread = {t1}
    MaxRaised = 3
    NULL = NULL
SPECIFICATION Spec
PROPERTY RequestsActedOn
CHECK_DEADLOCK FALSE
