\* Two requests of either method, so that one follows the other on an HTTP/1
\* connection and two streams are open at once on an HTTP/2 one; responses of
\* up to two units.
CONSTANTS
    NumRequests = 2
    MaxUnits = 2
    Methods = {"POST", "HEAD"}
    HookResults = {"OK", "ERROR"}
SPECIFICATION Spec
INVARIANTS
    ClientReferences
    ResponseIntact
PROPERTIES
    RequestSettles
CHECK_DEADLOCK FALSE
