SPECIFICATION Spec
CONSTANTS
    Jobs = {j1, j2}
    Inputs = {foo, bar}
    Dir = Dir
    None = None
    CommandLines <- MCCommandLines
    MaxVersion = 1
    MaxRuns = 2
SYMMETRY Symmetry
INVARIANTS VerdictOnOwnSource RestrictionsOwn DeliveredOnSuccess FlagsOnce
PROPERTIES TempsRemoved
CHECK_DEADLOCK FALSE
