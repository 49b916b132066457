\* Three requests for two permits, a sink of two, and scripts that race on the
\* same revision and on the next one.
CONSTANTS
    Requests = {1, 2, 3}
    SinkCapacity = 2
    QueueCapacity = 2
    Scripts <- TestScripts
    Tools = {"status", "diagnostic"}
SPECIFICATION FairSpec
INVARIANTS
    OneEffectPerRevision
    OneOutcome
PROPERTY EveryRequestEnds
CHECK_DEADLOCK FALSE
