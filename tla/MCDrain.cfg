CONSTANTS
    Drainable = {o1, o2, o3}
    MaxWork = 6
SPECIFICATION Spec
INVARIANTS CountExact DrainedIsIdle NoStaleExit
PROPERTY DrainCompletes
