SPECIFICATION Spec
CONSTANTS
    Words <- MCWords
    Lower <- MCLower
    Size <- MCSize
    StopWords = {"what"}
    SavedTags <- MCSavedTags
    MaxMemos = 2
    MaxInjected = 1
    Names = {"patcher", "mine"}
    Default = {"patcher"}
    Sessions = {"default_session", "s"}
    First = "default_session"
    Messages <- MCMessages
    Notes = {"n"}
    Workers = {w1, w2}
    MaxOps = 3
INVARIANTS
    ActiveOnce
    OnlyAsked
    MemoComesBack
PROPERTIES
    SkillsOfSession
