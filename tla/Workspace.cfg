SPECIFICATION Spec
CONSTANTS
    Order <- MCOrder
    Patches <- MCPatches
    MaxOther = 2
INVARIANTS  PatchAtomic FailureHonest
CHECK_DEADLOCK FALSE
