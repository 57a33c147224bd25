SPECIFICATION Spec
CONSTANTS
    p = p
    g1 = g1
    g2 = g2
    h1 = h1
    h2 = h2
    m1 = m1
    n1 = n1
    a = a
    b = b
    NullId = NullId
    Absent = Absent
    Ports <- MCPorts
    Groups <- MCGroups
    Members <- MCMembers
    Vals <- MCVals
    CurrentViews <- MCCurrentViews
    TempViews <- MCTempViews
INVARIANTS
    CountsAreReferences
    ComparisonPasses
    OperationsSucceed
    ViewIsReached
    BreakComesFirst
    NewViewIsClosed
