SPECIFICATION Spec
PROPERTY TestsPass
CHECK_DEADLOCK FALSE
