SPECIFICATION Spec
CONSTANTS
    WordBits = 4
    Programs <- FlaggedPrograms
    Envs <- CarryEnvs
INVARIANTS
    PseudoOperationKeepsPrimary
CHECK_DEADLOCK FALSE
