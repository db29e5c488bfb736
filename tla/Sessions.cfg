CONSTANTS
    Tokens = {n1, n2, n3}
    Links = {l1, l2}
    Requests = {t1, t2}
    MaxChanges = 1
    Tab = t1
    Tabs = {t1, t2}
    Accounts = {a1, a2}
    Holder = a1
    MaxLosses = 1
    None = None
SPECIFICATION Spec
SYMMETRY Symmetry
CONSTRAINT SessionsOrLinks
INVARIANTS TokensWorkOnce 
PROPERTIES KeepsSessionPromise 
CHECK_DEADLOCK FALSE
