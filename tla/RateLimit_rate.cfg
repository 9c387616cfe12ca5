SPECIFICATION Spec
CONSTANTS
    r1 = r1  r2 = r2  r3 = r3  NoRow = NoRow
    Requests <- ThreeRequests
    Burst = 2  Cost = 2  MaxTime = 4
SYMMETRY RequestSymmetry
INVARIANTS WithinRate
