CONSTANTS
    p1 = p1 r1 = r1 r2 = r2 a1 = a1 a2 = a2 b1 = b1 g = g
    NoAccess = NoAccess Shared = Shared NonPublic = NonPublic
    Partners = {p1}
    Units = {}
    Pools = {g}
    Capacity <- TwoPlaces
    Capacities = {}
    Allocations = {}
    Blocks = {}
    Reservations = {r1}
    PartnerOf <- OnePartner
    Orders <- SharedOrders
    Targets = {}
    MaxAttempts = 1
    MaxTime = 1
    SalesOpen = 0
    SalesClose = 1
    HoldSeconds = 1
    ProtectionSeconds = 1
    RetrySeconds = 1
    ReconciliationSeconds = 1
    MaxLifetimeSeconds = 1
    MaxHoldQuantity = 2
    MaxActivePerPartner = 1
SPECIFICATION Spec
PROPERTIES DisabledPartnerNeverExpands
CHECK_DEADLOCK FALSE
