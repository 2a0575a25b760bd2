SPECIFICATION Spec
INVARIANT TypeOK
INVARIANT EveryCollectorReported
PROPERTY CallAndLoggerEnd
CHECK_DEADLOCK FALSE
