CONSTANTS
    MaxSize = 3
    Window = 2
    InlineLimit = 3
    OtherWrites = TRUE
SPECIFICATION Spec
INVARIANTS
    EndMeansWhole
    BuffersOwned
    BodyKeepsMoving
PROPERTIES
    ReleasedInTheEnd
    ImplementsBody
CHECK_DEADLOCK FALSE
