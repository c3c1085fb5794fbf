CONSTANTS
    MaxAmount = 4
    MaxIn = 2
    MaxNout = 3
    DonIn = 0
    DonOut = 0
    Builders = {b1, b2}
    r1 = r1
    r2 = r2
    r3 = r3
    r4 = r4
    Refs = {r1, r2, r3, r4}
    RequestOf <- MCRequestOf
    Amounts = {1}
    Scenarios <- MCScenarios
    MaxFaults = 1
    MaxRetry = 1
SPECIFICATION Spec
SYMMETRY Symmetric
CHECK_DEADLOCK FALSE
INVARIANT TotalsExact RequestsPaidOnce
 
