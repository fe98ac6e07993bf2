SPECIFICATION Spec
CONSTANTS
    a1 = a1
    a2 = a2
    a3 = a3
    i1 = i1
    i2 = i2
    w1 = w1
    w2 = w2
    Analyses <- MCAnalyses
    Workers <- MCWorkers
    Input <- MCInput
    None = None
    Zero = Zero
    MaxOverrides = 1
    MaxFaults = 1
SYMMETRY Symmetry
CONSTRAINT OneDisturbance
CHECK_DEADLOCK FALSE
INVARIANTS
    TypeOK
    NarrativeOfAnalysis
    ReportOfOneAnalysis
    ProjectionCurrent
    LedgerInOrder
