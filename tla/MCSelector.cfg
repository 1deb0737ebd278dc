CONSTANTS
    seat = seat pool = pool
    Offers = {seat, pool}
    Seats = {seat}
    Stock <- TheStock
    MaxHolds = 2
    MaxKeys = 2
    MaxFaults = 1
    MaxChanges = 1
SPECIFICATION FairSpec
INVARIANTS LiveHoldIsReal 
PROPERTIES PageCatchesUp
CHECK_DEADLOCK FALSE
