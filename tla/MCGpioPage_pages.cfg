SPECIFICATION Spec
CONSTANTS
    Operators = {o1, o2}
    Products <- MCProducts
    Pins <- MCPins
    Dios = {d1}
    MaxEdits = 3
INVARIANTS
    TypeOK
    OwnedPins
PROPERTIES
    UntouchedSave
    DisabledKept
    PostedIsStored
SYMMETRY MCSymmetry
