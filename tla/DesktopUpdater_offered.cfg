\* A request and the worker, two releases: a version can be released while
\* an older one is pending, and the callers can meet at the gate.
SPECIFICATION FairSpec
CONSTANTS
    Requests = {r1}
    Worker = worker
    MaxVersion = 2
INVARIANTS
    OneCheckAtATime
    StatusAgrees
    InstallsOnlyDownloads
PROPERTIES
    UpdateArrives
    StatusSettles
    AcceptedRestarts
