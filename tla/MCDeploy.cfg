\* Two operators run the scripts, processes crash, hang and reuse pids, and
\* installs run beside the application.
SPECIFICATION FairDeploySpec
CONSTANTS
    o1 = o1
    o2 = o2
    p1 = p1
    p2 = p2
    Operators <- MCOperators
    Pids <- MCPids
    NoFile = NoFile
    NoPid = NoPid
    Timeout = 1
    MaxOthers = 1
INVARIANTS
    DeployIInv
    TablesWhole
PROPERTIES
    StopStops
    ScriptsEnd
    TablesArrive
