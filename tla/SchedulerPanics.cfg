SPECIFICATION Spec
CONSTANTS
    t1 = t1
    t2 = t2
    c1 = c1
    c2 = c2
    Tasks = {t1, t2}
    Callers = {c1}
    MaxCalls = 4
    MaxBusy = 1
    Nil = Nil
    NoCaller = NoCaller
INVARIANTS
    NeverPanics
CHECK_DEADLOCK FALSE
