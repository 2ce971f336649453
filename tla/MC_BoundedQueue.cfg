CONSTANTS
    v1 = v1
    v2 = v2
    None = None
    Values = {v1, v2}
    W <- MCW
    Cap <- MCCap
SPECIFICATION Spec
INVARIANT AccessorsAgree
INVARIANT LiveSlotsExact
PROPERTY Refines
