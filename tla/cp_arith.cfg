SPECIFICATION Spec
CONSTANTS
    WordBits = 4
    Programs <- ArithAndAdd64Programs
    Envs <- ArithEnvs
INVARIANTS
    SemanticsPreserved
    SecondPassChangesNothing
CHECK_DEADLOCK FALSE
