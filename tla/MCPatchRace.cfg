CONSTANTS
    u1 = u1 u2 = u2 u3 = u3 p1 = p1 r1 = r1 c1 = c1 c2 = c2
    NoAccess = NoAccess Shared = Shared NonPublic = NonPublic NoPatch = NoPatch
    Partners = {p1}
    Units = {u1, u2, u3}
    Pools = {}
    Capacity <- NoCapacity
    Capacities = {}
    Allocations = {}
    Blocks = {}
    Reservations = {r1}
    PartnerOf <- OnePartner
    Orders <- AllOrders
    Targets = {}
    Calls = {c1, c2}
    MaxAttempts = 1
    MaxTime = 2
    SalesOpen = 0
    SalesClose = 2
    HoldSeconds = 2
    ProtectionSeconds = 1
    RetrySeconds = 1
    ReconciliationSeconds = 1
    MaxLifetimeSeconds = 2
    MaxHoldQuantity = 3
    MaxActivePerPartner = 1
SPECIFICATION PatchSpec
CONSTRAINT PartnersQuiet
SYMMETRY TwinCalls
PROPERTIES RemovesOnlyWhatItNames
CHECK_DEADLOCK FALSE
