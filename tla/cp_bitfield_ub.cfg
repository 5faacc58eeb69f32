SPECIFICATION Spec
CONSTANTS
    WordBits = 4
    Programs <- UndefinedShiftPrograms
    Envs <- ImmediateEnvs
INVARIANTS
    SemanticsPreserved
CHECK_DEADLOCK FALSE
