SPECIFICATION Spec
CONSTANTS
    WordBits = 4
    Programs <- PeepholePrograms
    Envs <- PeepholeEnvs
INVARIANTS
    TypeOK
    SemanticsPreserved
    SecondPassChangesNothing
PROPERTIES
    OnlyVisitedInstructionChanges
CHECK_DEADLOCK FALSE
