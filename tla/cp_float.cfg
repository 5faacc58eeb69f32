SPECIFICATION Spec
CONSTANTS
    WordBits = 4
    Programs <- InexactPrograms
    Envs <- InexactEnvs
INVARIANTS
    SemanticsPreserved
CHECK_DEADLOCK FALSE
