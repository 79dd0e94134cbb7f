CONSTANTS
    MaxIterations = 4
    MaxTries = 2
SPECIFICATION Spec
INVARIANTS TypeOK BudgetKept SuperstepsBounded InvestigatorFirst FreshQuestion AtMostTwoExchanges RejectionGate
PROPERTIES InvocationEnds ThreadSpec
