SPECIFICATION Spec
CONSTANTS
    None = None
    MaxFaults = 3
INVARIANTS UsableIsCurrent FindingsKept
PROPERTIES Recovers
