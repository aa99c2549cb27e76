CONSTANTS
    Jobs = {j1, j2, j3, j4, j5}
    Concurrency = 2
SPECIFICATION Spec
INVARIANTS
    Balanced
    NoIdlePlace
PROPERTY ImplementsContract
