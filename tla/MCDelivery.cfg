CONSTANTS
    f1 = f1 f2 = f2 e1 = e1 p1 = p1 l1 = l1 l2 = l2 w1 = w1
    NoOne = NoOne EventWide = EventWide
    Facts = {f1, f2}
    TypeOf <- OneType
    Owner <- EventFact
    Troubled = {f1}
    Partners = {p1}
    Endpoints = {e1}
    PartnerOf <- OnePartner
    Versions = {1}
    Keyrings <- OldKey
    Loops = {l1, l2}
    WorkerOf <- OneWorker
    MaxAttempts = 2
    MaxFaults = 1
SPECIFICATION FairSpec
INVARIANTS OutcomeAsLogged
PROPERTIES LeaseIsNotStolen DeliveriesSettle FactsAreDispatched
