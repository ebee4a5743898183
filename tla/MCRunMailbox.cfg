\* One Run, two panes, one dispatch, and two messages of any type, a filtered
\* check leaving heartbeats out;
\* a terminal may come back under a new handle, a second batch be made, or mail
\* about the dispatch arrive, no two of them.
SPECIFICATION Spec
CONSTANTS
    Messages = {m1, m2}
    Dispatches = {d1}
    Waking = {"status", "worker_done"}
    Panes = {p1, p2}
    Calls = {c1, c2}
    RunBox = RunBox
    NoHandle = NoHandle
    PageLimit = 1
    MaxMints = 1
    MaxGeneration = 2
    MaxDeliveries = 2
CHECK_DEADLOCK FALSE
SYMMETRY Symmetry
CONSTRAINT OneComplication
INVARIANTS
    DeliveryIsExclusive
    MailIsKept
    NoMissedWakeup
