SPECIFICATION Spec
CONSTANTS
    Majors = {8, 9}
    Minors = {0, 1}
    Patches = {0, 1, 5}
INVARIANTS
    DisableIsExact
