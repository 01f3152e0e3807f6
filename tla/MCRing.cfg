SPECIFICATION Spec
CONSTANTS
    Capacity = 2
    Threads = {t1, t2, t3}
    Values = {a, b}
    NoValue = NoValue
    MaxTickets = 4
SYMMETRY ThreadSymmetry
INVARIANTS CellProtocol ExclusiveCell PayloadIntegrity HonestRefusal
PROPERTY ImplementsTicketQueue
