SPECIFICATION Spec
CONSTANTS
    KnownModes <- TheKnownModes
    UnknownMode = "Unknown"
    MaxExecute = 3
    Failures = {"StartDetection", "Mount", "Write"}
INVARIANTS
    TypeOK
    CancelledLeavesTag
PROPERTIES
    Implements
    ExecutedCompletes
