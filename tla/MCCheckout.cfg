CONSTANTS
    u1 = u1 u2 = u2 p1 = p1 r1 = r1 r2 = r2
    NoAccess = NoAccess Shared = Shared NonPublic = NonPublic
    Partners = {p1}
    Units = {u1, u2}
    Pools = {}
    Capacity <- NoCapacity
    Capacities = {}
    Allocations = {}
    Blocks = {}
    Reservations = {r1, r2}
    PartnerOf <- OnePartner
    Orders <- SeatOrders
    Targets = {}
    MaxAttempts = 2
    MaxTime = 5
    SalesOpen = 1
    SalesClose = 3
    HoldSeconds = 1
    ProtectionSeconds = 1
    RetrySeconds = 1
    ReconciliationSeconds = 1
    MaxLifetimeSeconds = 3
    MaxHoldQuantity = 2
    MaxActivePerPartner = 1
SPECIFICATION FairSpec
CONSTRAINT PartnersQuiet
INVARIANTS AttemptsAgree PartnerLimitHolds
PROPERTIES CheckoutIsProtected SaleWithinLifetime AttemptOutcomeIsFinal EveryReservationEnds
CHECK_DEADLOCK FALSE
