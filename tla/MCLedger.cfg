SPECIFICATION Spec
CONSTANTS
    Default = d
    Sessions = {d, a}
    Windows <- MCWindows
    MaxGroups = 2
    MaxVersions = 2
    MaxRows = 4
INVARIANTS NoOrphans CopiesAgree TurnIsPrivate TurnsInOrder AnchorUpToDate
