\* The default configuration: waits of 1 s up to 60 s.
SPECIFICATION Spec
CONSTANTS
    Base = 1
    Max = 60
CHECK_DEADLOCK FALSE
PROPERTY ResetOnlyWhenStable
