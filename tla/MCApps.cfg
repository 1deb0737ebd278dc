CONSTANTS
    Parts = {"console", "builder", "session", "docs"}
    MaxKeys = 2
    OpenPages <- AllPages
    MaxCalls = 2
    MaxMishaps <- Mishaps
    Drafts <- SomeDrafts
    Palette = {"RESERVED", "STAGE"}
    MaxObjects = 3
    MaxSaves = 3
    MaxEdits = 2
    MaxUpsets = 1
    Operations = {"create", "release"}
    Keyed = {"create", "release"}
    Destructive = {"release"}
    MaxDrawn = 2
    MaxSent = 2
SPECIFICATION AppsSpec
INVARIANTS OneEffectPerIntent  RefetchedBeforeShown
INVARIANTS FloorPlanIsKept CleanIsSaved SetupBeforeConsole
 
CHECK_DEADLOCK FALSE
