SPECIFICATION ControlsSpec
CONSTANTS
    Chars = {"a"}
    MaxLength = 3
    InitialCapacity = 2
    MaxFailures = 1
    MaxItems = 2
    SliderMax = 3
    PageSize = 1
    MinThumb = 2
    Screens = {2, 3}
    Entries = {e1, e2}
INVARIANTS
    BoundsFresh
    RoutesAgree
    HeldIsCaptured
    TextIsTyped
SYMMETRY Symmetry
