\* A verified event of a provider is refused.
SPECIFICATION Spec
CONSTANTS
    Secrets = {"stripe"}
CHECK_DEADLOCK FALSE
INVARIANTS
    VerifiedIsAccepted
