SPECIFICATION ToolSpec
CONSTANTS
    p1 = p1
    p2 = p2
    c1 = c1
    f1 = f1
    f2 = f2
    Layouts <- MCLayouts
    MaxFailures = 1
    MaxRestarts = 1
    Procs = {p1, p2}
    Contracts = {c1}
    Externals <- MCExternals
    Scripts = {"build", "build:npm:latest", "test", "test:fork:ethereum", "index:compile:one"}
    DotEnvs <- MCDotEnvs
    MaxRuns = 1
    MaxEdits = 0
    MaxFaults = 0
    MaxExtra = 1
    MaxInits = 2
PROPERTY PublishedWithoutGas
CHECK_DEADLOCK FALSE
