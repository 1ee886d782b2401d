\* Every request, through the middleware and back.
\* A request ends: it is over when it has left the chain.
SPECIFICATION Spec
CONSTANTS
    Secrets = {"stripe"}
CHECK_DEADLOCK FALSE
INVARIANTS
    PipelineTypeOK
    ValidIsHandled
    LogIsTrue
