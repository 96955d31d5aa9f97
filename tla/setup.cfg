SPECIFICATION FairSpec
CONSTANTS
    Req = {r1, r2}
    Process = {p1, p2}
    Faults = {"abandon", "restart", "evict"}
INVARIANTS Inv LoggedIsSubscribed ReadyIsLogged
PROPERTIES EveryRequestReady
