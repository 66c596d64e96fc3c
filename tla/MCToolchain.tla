---------------------------- MODULE MCToolchain ----------------------------
(***************************************************************************)
(* The tools around the contracts: test sandboxing, the build, the tests   *)
(* it selects, and the deployment of a system by the fixtures.  Each runs  *)
(* in processes and state of its own; one of them is explored at a time,   *)
(* the others idle.                                                        *)
(***************************************************************************)
EXTENDS TestSandbox, BuildTasks, Deployment

CONSTANTS p1, p2, c1, f1, f2

VARIABLE subject

\* No suite: mocha has nothing to run.
NoSuites == [parent |-> <<>>, tests |-> <<>>, hooks |-> <<>>]

\* The smallest file that snapshots around its tests.
OneTest == [parent |-> <<0>>, tests |-> <<1>>, hooks |-> << <<"before", "snapshot">> >>]

\* A file that snapshots around its tests, with suites inside that set up more.
SnapshotFile == [parent |-> <<0, 1, 2>>, tests |-> <<1, 1, 2>>,
    hooks |-> << <<"before", "snapshot">>, <<"beforeEach">>, <<"beforeEach">> >>]

\* Caches nested three deep, two of them in one suite, with suites beside them.
NestedCaches == [parent |-> <<0, 1, 2, 2, 1>>, tests |-> <<1, 1, 2, 1, 2>>,
    hooks |-> << <<"before", "cache">>, <<"cache", "cache">>, <<"cache", "beforeEach">>,
                 <<"beforeEach">>, <<"beforeEach">> >>]

\* Two files, one after the other on the same chain, of which one does both.
TwoFiles == [parent |-> <<0, 1, 0, 3>>, tests |-> <<1, 2, 0, 2>>,
    hooks |-> << <<"beforeEach", "snapshot">>, <<"beforeEach">>, <<"cache">>, <<"cache">> >>]

MCLayouts == <<NoSuites, OneTest, SnapshotFile, NestedCaches, TwoFiles>>

MCExternals == <<f1, f2>>

DotEnv(fork, forkNetwork, token, keys) ==
    [FORK |-> fork, FORK_NETWORK |-> forkNetwork, ALCHEMY_TOKEN |-> token,
     ARBITRUM_RPC_URL |-> keys, KOVAN_DEPLOY_PRIVATE_KEY |-> keys]

\* A developer's .env without and with keys, and one that forks, or says which chain.
WithoutKeys == DotEnv(FALSE, "", "fake_alchemy_token", FALSE)
WithKeys == DotEnv(FALSE, "", "token", TRUE)
MCDotEnvs ==
    {WithoutKeys, WithKeys, DotEnv(FALSE, "arbitrum", "token", TRUE), DotEnv(TRUE, "", "token", TRUE),
     DotEnv(TRUE, "", "", TRUE), DotEnv(TRUE, "arbitrum", "token", FALSE)}

ToolInit ==
    /\ SandboxInit /\ BuildInit /\ DeployInit
    /\ subject \in {"sandbox", "build", "tests", "deployment"}
    /\ subject = "sandbox" <=> layout # 1
    /\ subject = "build" => dotenv \in {WithoutKeys, WithKeys}
    /\ subject \in {"sandbox", "deployment"} => dotenv = WithKeys

\* Two processes that build or test, and may be killed.
Building ==
    /\ BuildNext
    /\ UNCHANGED envVars
    /\ \A p \in Procs : name'[p] # "test:fork:arbitrum"

\* One process that tests, while .env is edited and a node started and stopped.
TestScripts == {"test", "test:fork:ethereum", "test:fork:arbitrum"}
Testing ==
    /\ BuildNext
    /\ faults' = 0
    /\ name'[p1] \in TestScripts \cup {""} /\ name'[p2] = ""

ToolNext ==
    \/ subject = "sandbox" /\ SandboxNext /\ UNCHANGED <<subject, buildVars, deployVars>>
    \/ subject = "build" /\ Building /\ UNCHANGED <<subject, sandboxVars, deployVars>>
    \/ subject = "tests" /\ Testing /\ UNCHANGED <<subject, sandboxVars, deployVars>>
    \/ subject = "deployment" /\ DeployNext /\ UNCHANGED <<subject, sandboxVars, buildVars>>

ToolSpec ==
    /\ ToolInit /\ [][ToolNext]_<<subject, sandboxVars, buildVars, deployVars>>
    /\ SandboxFairness /\ BuildFairness
=============================================================================
