SPECIFICATION Spec
CONSTANTS
    Tools = {"read", "gone"}
    Enabled = {"read"}
    Window = 2
    MaxTurns = 3
    MaxRows = 8
    MaxParts = 2
INVARIANTS
    EveryCallAnswered
    PromptAccepted
    PromptEndsWithNews
