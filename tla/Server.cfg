\* Two workers, and a ticket counter that wraps inside a round; two connections
\* of one request each, so that a request object is reused by another thread
\* or taken by both at once.
CONSTANTS
    N = 2
    Main = main
    App = app
    NoOne = NoOne
    Callers = {main, app}
    TicketMod = 3
    MaxTail = 3
    MaxConns = 2
    MaxRequests = 1
    MaxCallbacks = 1
SPECIFICATION Spec
INVARIANTS
    Balance
    ConnectionOnce
    SharedIntact
PROPERTIES
    AcceptSettles
CHECK_DEADLOCK FALSE
