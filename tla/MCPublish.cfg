CONSTANTS
    Parts = {"builder"}
    MaxKeys = 2
    OpenPages = {"access"}
    MaxCalls = 2
    MaxMishaps <- Mishaps
    Drafts <- SomeDrafts
    Palette = {"RESERVED", "STAGE"}
    MaxObjects = 3
    MaxSaves = 3
    MaxEdits = 2
    MaxUpsets = 0
    Operations = {"create", "release"}
    Keyed = {"create", "release"}
    Destructive = {"release"}
    MaxDrawn = 3
    MaxSent = 2
SPECIFICATION AppsSpec
INVARIANT PublishedAsConfirmed
CHECK_DEADLOCK FALSE
