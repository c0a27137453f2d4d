SPECIFICATION Spec
CONSTANTS
    Tools = {"read", "gone"}
    Enabled = {"read"}
    Window = 2
    MaxTurns = 2
    MaxRows = 8
    MaxParts = 2
PROPERTY RejectedIsRepaired
