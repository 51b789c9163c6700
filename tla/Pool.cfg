SPECIFICATION Spec
CONSTANTS
    Borrows = {b1, b2, b3}
    First = First
    None = None
    MinConn = 1
    MaxConn = 2
    Workers = 2
    MaySever = TRUE
INVARIANTS PoolInv LostOnlyWhenSevered NoneOpenAfterShutdown
PROPERTIES  SlotsComeBack
