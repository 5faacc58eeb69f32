SPECIFICATION Spec
CONSTANTS
    KnownModes <- TheKnownModes
    UnknownMode = "Unknown"
    MaxExecute = 3
    Failures = {"Mount", "Write"}
INVARIANT
    SuccessMeansApplied
