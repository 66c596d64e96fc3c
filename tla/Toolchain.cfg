SPECIFICATION ToolSpec
CONSTANTS
    p1 = p1
    p2 = p2
    c1 = c1
    f1 = f1
    f2 = f2
    Layouts <- MCLayouts
    MaxFailures = 1
    MaxRestarts = 1
    Procs = {p1, p2}
    Contracts = {c1}
    Externals <- MCExternals
    Scripts = {"build", "build:npm:latest", "test", "test:fork:ethereum", "test:fork:arbitrum",
               "index:compile:one", "chain", "chain:fork"}
    DotEnvs <- MCDotEnvs
    MaxRuns = 2
    MaxEdits = 3
    MaxFaults = 1
    MaxExtra = 1
    MaxInits = 2
INVARIANTS
    StackMatchesSuites
    ExternalsRestored
    TestsFitTheChain
    WiredByName
    OneSystem
PROPERTIES ImplementsFreshWorld ScriptsEnd SetsKnowTheirController
CHECK_DEADLOCK FALSE
