CONSTANTS
    N = 4
    MaxTokenSids = 3
    Cases <- MCCases
SPECIFICATION Spec
INVARIANTS TypeOK TokenIsWholeOrMarked RoutesAreReal OrphanedIsProven LogonDecisionIsCertain
CHECK_DEADLOCK FALSE
