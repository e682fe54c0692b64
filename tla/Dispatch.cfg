\* One dispatch of three contacts, three replicas, one crash and one failing query, short pauses.
SPECIFICATION Spec
CONSTANTS
    Dispatches = {d1}
    SdrDispatches = {}
    Contacts = 3
    Nodes = {n1, n2, n3}
    LongDelay = FALSE
    MaxCrashes = 1
    MaxErrors = 1
SYMMETRY Replicas
INVARIANTS
    SingleSender
    CompletedIsWhole
    CancelStops
PROPERTIES
    NeverResent
CHECK_DEADLOCK FALSE
