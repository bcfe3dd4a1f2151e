SPECIFICATION Spec
CONSTANTS
    Questions <- MCQuestions
    MaxRounds = 16
INVARIANTS
    RootsAreReachable
    DominatorsAreExact
    FrontiersAreExact
    HandlersUseComputedValues
    PostDominanceIsExact
    LoopsAreExact
    LoopsAreCanonical
    RoutesAreKept
CHECK_DEADLOCK FALSE
