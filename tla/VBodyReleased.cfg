CONSTANTS
    MaxSize = 3
    Window = 2
    InlineLimit = 3
    OtherWrites = FALSE
SPECIFICATION Spec
PROPERTIES
    ClosedIsHandled
CHECK_DEADLOCK FALSE
