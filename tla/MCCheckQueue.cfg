CONSTANTS
    w1 = w1
    w2 = w2
    m = m
    c1 = c1
    c2 = c2
    c3 = c3
    c4 = c4
    Workers = {w1, w2}
    Master = m
    Checks = {c1, c2, c3, c4}
    Bad = {c2}
    nBatchSize = 2
    MaxAdd = 2
    MaxControls = 2
SPECIFICATION Spec
INVARIANTS ResultCorrect
PROPERTIES WaitReturns
