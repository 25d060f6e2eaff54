SPECIFICATION Spec
CONSTANTS
    Hosts = {"main", "other"}
    Main = "main"
    Streams = {"s", "t"}
    Contexts = {TRUE, FALSE}
    MaxCallbacks = 2
    MaxFailures = 1
INVARIANTS
    SubscriptionsLive
PROPERTIES
    ReportsServed
    CallsEnd
CHECK_DEADLOCK FALSE
