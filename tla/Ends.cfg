CONSTANTS
    s1 = s1
    s2 = s2
    p1 = p1
    p2 = p2
    c1 = c1
    src = src
    d1 = d1
    t1 = t1
    a1 = a1
    n1 = n1
    n2 = n2
    n3 = n3
    None = None
SPECIFICATION FairSpec
PROPERTIES FinalizationDecided CompletionResolves DeletionsEnd RestoringEnds
CHECK_DEADLOCK FALSE
