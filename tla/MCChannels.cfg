CONSTANTS
    u1 = u1 p1 = p1 p2 = p2 r1 = r1 r2 = r2 a1 = a1
    NoAccess = NoAccess Shared = Shared NonPublic = NonPublic
    Partners = {p1, p2}
    Units = {u1}
    Pools = {}
    Capacity <- NoCapacity
    Capacities = {}
    Allocations = {a1}
    Blocks = {}
    Reservations = {r1, r2}
    PartnerOf <- OwnPartner
    Orders <- SeatOrders
    Targets <- SeatTargets
    MaxAttempts = 1
    MaxTime = 2
    SalesOpen = 0
    SalesClose = 2
    HoldSeconds = 1
    ProtectionSeconds = 1
    RetrySeconds = 1
    ReconciliationSeconds = 1
    MaxLifetimeSeconds = 2
    MaxHoldQuantity = 1
    MaxActivePerPartner = 1
SPECIFICATION Spec
INVARIANTS TakenThroughChannel
CHECK_DEADLOCK FALSE
