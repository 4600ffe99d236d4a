\* Two imports and two saves, which may fail, be retried and die at any call.
CONSTANTS
    Imports = {i1, i2}
    Saves = {s1, s2}
    None = None
SYMMETRY Alike
INVARIANTS
    BothOrNeither
    NothingDestroyed
SPECIFICATION ImportSpec
CHECK_DEADLOCK FALSE
