CONSTANTS
    CanFail = FALSE
SPECIFICATION Spec
INVARIANT NeverAborts
