SPECIFICATION Spec
CONSTANTS
    Commands <- CommandPaths
    Plans <- PlansOf
    Section <- SectionOf
    ByCaller <- NamedByCaller
    Untold <- NotJudged
INVARIANT CredentialKept
CHECK_DEADLOCK FALSE
