SPECIFICATION Spec
CONSTANTS
    WordBits = 4
    Programs <- SubtractionPrograms
    Envs <- ArithEnvs
INVARIANT
    SemanticsPreserved
CHECK_DEADLOCK FALSE
