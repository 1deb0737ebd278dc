CONSTANTS
    u1 = u1 u2 = u2 u3 = u3 p1 = p1 r1 = r1 c1 = c1 c2 = c2
    NoAccess = NoAccess Shared = Shared NonPublic = NonPublic NoPatch = NoPatch
    Partners = {p1}
    Units = {u1, u2}
    Pools = {}
    Capacity <- NoCapacity
    Capacities = {}
    Allocations = {}
    Blocks = {}
    Reservations = {r1}
    PartnerOf <- OnePartner
    Orders <- AllOrders
    Targets = {}
    Calls = {c1, c2}
    MaxAttempts = 1
    MaxTime = 2
    SalesOpen = 0
    SalesClose = 2
    HoldSeconds = 2
    ProtectionSeconds = 1
    RetrySeconds = 1
    ReconciliationSeconds = 1
    MaxLifetimeSeconds = 2
    MaxHoldQuantity = 2
    MaxActivePerPartner = 1
    q1 = q1 q2 = q2 q3 = q3 k1 = k1 k2 = k2 i1 = i1 i2 = i2
    Requests = {q1, q2, q3}
    Keys = {k1, k2}
    Intents = {i1, i2}
    MaxRuns = 2
    s1 = s1 s2 = s2
    NoStream = NoStream
    Streams = {s1, s2}
    QueueSize = 2
    MaxFacts = 5
    t1 = t1 t2 = t2
    Transactions = {t1, t2}
    LockRows <- SomeRows
    GuardOf <- Guards
    MaxId = 2
SPECIFICATION ApiSpec
CONSTRAINT PartnersQuiet
SYMMETRY Alike
INVARIANTS AnswersAreStored LossIsAnnounced OtherLocksHaveAnOrder
PROPERTIES AddsOnlyWhatItNames PatchesAreModifications ImplementsRunOnce
CHECK_DEADLOCK FALSE
