SPECIFICATION FairSpec
CONSTANTS
    None = None
    Tickets = {t1, t2}
    t1 = t1
    t2 = t2
    Dispatchers = {d1, d2}
    Order <- TicketOrder
    Titles = {"search", "filter"}
    Agents = {"claude", "mistral"}
    Supported = {"claude"}
    MaxEdits = 2
    MaxFaults = 1
INVARIANTS RunsAccounted LeftClaimed CommitsArePushed
PROPERTY ArmedIsServed
CHECK_DEADLOCK FALSE
