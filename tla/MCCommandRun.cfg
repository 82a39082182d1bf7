SPECIFICATION Spec
CONSTANTS
    Commands <- CommandPaths
    Plans <- PlansOf
    Section <- SectionOf
    ByCaller <- NamedByCaller
    Untold <- NotJudged
INVARIANTS
    SectionsHold
    DryRunHolds
    SuccessIsWhole
CHECK_DEADLOCK FALSE
