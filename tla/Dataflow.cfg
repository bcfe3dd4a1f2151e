SPECIFICATION Spec
CONSTANTS
    Inquiries <- MCInquiries
    Width = 4
    Opaque <- MCOpaque
    WidenAfter = 3
    Budget = 22
INVARIANTS
    ResultsAreExact
    FactsHold
    RewriteKeepsBehavior
CHECK_DEADLOCK FALSE
