CONSTANTS
    p1 = p1 r1 = r1 r2 = r2 a1 = a1 a2 = a2 b1 = b1 g = g
    NoAccess = NoAccess Shared = Shared NonPublic = NonPublic
    Partners = {p1}
    Units = {}
    Pools = {g}
    Capacity <- TwoPlaces
    Capacities = {1, 2}
    Allocations = {a1, a2}
    Blocks = {b1}
    Reservations = {r1, r2}
    PartnerOf <- OnePartner
    Orders <- PlaceOrders
    Targets <- PlaceTargets
    MaxAttempts = 1
    MaxTime = 1
    SalesOpen = 0
    SalesClose = 2
    HoldSeconds = 1
    ProtectionSeconds = 1
    RetrySeconds = 1
    ReconciliationSeconds = 1
    MaxLifetimeSeconds = 1
    MaxHoldQuantity = 2
    MaxActivePerPartner = 2
SPECIFICATION Spec
CONSTRAINT SalesQuiet
SYMMETRY Twins
INVARIANTS PlacesAreBalanced ReservedPlacesMatchItems AlwaysSettleable
CHECK_DEADLOCK FALSE
