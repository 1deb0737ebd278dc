CONSTANTS
    u1 = u1 u2 = u2 p1 = p1 r1 = r1 r2 = r2 a1 = a1 a2 = a2 b1 = b1
    NoAccess = NoAccess Shared = Shared NonPublic = NonPublic
    Partners = {p1}
    Units = {u1, u2}
    Pools = {}
    Capacity <- NoCapacity
    Capacities = {}
    Allocations = {a1, a2}
    Blocks = {b1}
    Reservations = {r1, r2}
    PartnerOf <- OnePartner
    Orders <- SeatOrders
    Targets <- SeatTargets
    MaxAttempts = 1
    MaxTime = 1
    SalesOpen = 0
    SalesClose = 2
    HoldSeconds = 1
    ProtectionSeconds = 1
    RetrySeconds = 1
    ReconciliationSeconds = 1
    MaxLifetimeSeconds = 1
    MaxHoldQuantity = 2
    MaxActivePerPartner = 2
SPECIFICATION Spec
CONSTRAINT SalesQuiet
SYMMETRY Twins
INVARIANTS OneActiveClaimPerUnit ClaimsAreBacked SeatsAreOwned
PROPERTIES ImplementsLedger
CHECK_DEADLOCK FALSE
