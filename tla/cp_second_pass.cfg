SPECIFICATION Spec
CONSTANTS
    WordBits = 4
    Programs <- WholeCarryPrograms
    Envs <- CarryEnvs
INVARIANTS
    SecondPassChangesNothing
CHECK_DEADLOCK FALSE
