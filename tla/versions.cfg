SPECIFICATION HistorySpec
CONSTANTS
    Req = {r1, r2, r3}
    Content = {c1, c2}
    NoItem = NoItem
    MaxVersion = 3
    Faults = {"abandon", "resend"}
SYMMETRY Symmetry
INVARIANTS HistoryInv KeptUntilResent
PROPERTIES VersionsImmutable LogUntilResent
