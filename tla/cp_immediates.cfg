SPECIFICATION Spec
CONSTANTS
    WordBits = 4
    Programs <- ImmediateAndXmadPrograms
    Envs <- XmadEnvs
INVARIANTS
    SemanticsPreserved
    DefsPrecedeUses
    PseudoOperationKeepsPrimary
    AbortOnlyOnMalformedExtract
CHECK_DEADLOCK FALSE
