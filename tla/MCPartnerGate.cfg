CONSTANTS
    t1 = t1 e1 = e1 e2 = e2 c1 = c1 c2 = c2
    u1 = u1 u2 = u2 tab1 = tab1 tab2 = tab2 north = north south = south
    Events = {e1, e2}
    Tickets = {t1}
    Codes = {c1, c2}
    EventOf <- TheEvent
    TicketOf <- TheTicket
    MaxAdmissions = 2
    MaxChanges = 1
    Operators = {u1, u2}
    MaxKeys = 2
    MaxFaults = 2
    Tabs = {tab1, tab2}
    Partners = {north, south}
    MaxOrders = 2
    MaxPairs = 2
    MaxTroubles <- Troubles
CONSTRAINT FewUpsets
SYMMETRY Alike
SPECIFICATION PartsSpec
INVARIANTS OneActiveAdmission AdmitShownOnce ShownIsStored
INVARIANTS AttemptIsReachable TicketIsReachable
 
CHECK_DEADLOCK FALSE
