---------------------------- MODULE TestSandbox ----------------------------
(***************************************************************************)
(* The test sandboxing of utils/test/testingUtils.ts over the snapshots of *)
(* utils/common/blockchainUtils.ts: addSnapshotBeforeRestoreAfterEach      *)
(* snapshots before and reverts after each test, cacheBeforeEach runs an   *)
(* initializer once and then goes back to a snapshot instead of running it *)
(* again.  Caches nest, and share one global stack of snapshot ids.        *)
(*                                                                         *)
(* The chain is the sequence of what was done to it; a contract's address  *)
(* is its place in that sequence, because an address comes from the nonce  *)
(* of its deployer, which a revert winds back too.  So a handle a script   *)
(* keeps across a revert may come to name another contract.                *)
(*                                                                         *)
(* The runner (mocha) and the node's snapshots (hardhat) are external.     *)
(* The node outlives the runner (`yarn chain` serves `yarn test`), so a    *)
(* killed run leaves its chain and its snapshots to the next one.          *)
(***************************************************************************)
EXTENDS Integers, Sequences, FiniteSets, SequencesExt

CONSTANTS
    Layouts,        \* a sequence of suite trees: see LayoutAssumption
    MaxFailures,    \* bound: how many hooks fail
    MaxRestarts     \* bound: how often the runner is killed and started again

HookKinds == {"before", "beforeEach", "cache", "snapshot"}
EachKinds == {"beforeEach", "cache", "snapshot"}    \* beforeEach hooks

\* Suites are numbered in the order in which they are written, a parent before its
\* children; parent 0 is the root to which mocha adds the suites of every file.
ASSUME LayoutAssumption ==
    \A l \in DOMAIN Layouts :
        /\ Layouts[l].hooks \in Seq(Seq(HookKinds))
        /\ DOMAIN Layouts[l].parent = DOMAIN Layouts[l].hooks
        /\ DOMAIN Layouts[l].tests = DOMAIN Layouts[l].hooks
        /\ \A s \in DOMAIN Layouts[l].hooks : Layouts[l].parent[s] \in 0 .. s - 1

Suites(l) == DOMAIN Layouts[l].hooks
Hooks(l) == UNION {{<<s, i>> : i \in DOMAIN Layouts[l].hooks[s]} : s \in Suites(l)}

\* The suites around s, and s itself.
Around ==
    [l \in DOMAIN Layouts |->
        LET path[s \in 0 .. Len(Layouts[l].hooks)] ==
                IF s = 0 THEN {} ELSE path[Layouts[l].parent[s]] \cup {s}
        IN  path]

\* How the repository's test files use the helpers: addSnapshotBeforeRestoreAfterEach in
\* a file's outermost suite; before the initializer of a cache nothing touches the chain
\* but other initializers and a before of the outermost suite (beforeEach hooks written
\* there only set variables, and are left out).
EarlierHook(l, g, h) ==
    \/ g[1] = h[1] /\ g[2] < h[2]
    \/ g[1] # h[1] /\ g[1] \in Around[l][h[1]]
KindIn(l, h) == Layouts[l].hooks[h[1]][h[2]]

ASSUME CacheUseAssumption ==
    \A l \in DOMAIN Layouts : \A h \in Hooks(l) :
        /\ KindIn(l, h) = "snapshot" => Layouts[l].parent[h[1]] = 0
        /\ KindIn(l, h) = "cache" => \A g \in Hooks(l) : EarlierHook(l, g, h) =>
              \/ KindIn(l, g) = "cache"
              \/ KindIn(l, g) = "before" /\ Layouts[l].parent[g[1]] = 0

VARIABLES
    layout,         \* the tree this run executes
    chain,          \* what was done to the chain, in order
    snapshots,      \* the node's live snapshots: id -> chain
    nextId,         \* id of the node's next snapshot
    SNAPSHOTS,      \* the global stack of snapshot ids of testingUtils.ts
    snapshotId,     \* _snapshotId of the Blockchain object of each hook
    initialized,    \* cache hooks whose initializer has run
    handle,         \* address each hook's variable holds, 0 when unset
    cur, nextTest,  \* mocha: the suite being run and its next test
    visited,        \* mocha: suites entered so far
    phase, todo,    \* mocha: what is being run, and the hooks left to run for it
    skipped,        \* mocha: suites given up because a hook failed
    base,           \* length of the chain when the current file began
    failures, restarts

nodeVars == <<chain, snapshots, nextId>>
scriptVars == <<SNAPSHOTS, snapshotId, initialized, handle>>
runnerVars == <<cur, nextTest, visited, phase, todo, skipped, base>>
sandboxVars == <<layout, nodeVars, scriptVars, runnerVars, failures, restarts>>

-----------------------------------------------------------------------------
(* The tree *)

Kind(h) == KindIn(layout, h)

Path(s) == Around[layout][s]
Under(s) == {t \in Suites(layout) : s \in Path(t)}

\* The hooks of suite s of these kinds, in the order in which they were written.
HooksIn(l, s, kinds) ==
    LET written == Layouts[l].hooks[s]
        upTo[i \in 0 .. Len(written)] ==
            IF i = 0 THEN <<>>
            ELSE IF written[i] \in kinds THEN Append(upTo[i - 1], <<s, i>>) ELSE upTo[i - 1]
    IN  upTo[Len(written)]

\* Around a test, the beforeEach hooks of the outermost suite come first, its afterEach
\* hooks last.
EachHooksIn ==
    [l \in DOMAIN Layouts |->
        LET each[s \in 0 .. Len(Layouts[l].hooks)] ==
                IF s = 0 THEN <<>>
                ELSE each[Layouts[l].parent[s]] \o HooksIn(l, s, EachKinds)
        IN  each]
AfterEachHooksIn ==
    [l \in DOMAIN Layouts |->
        LET afterEach[s \in 0 .. Len(Layouts[l].hooks)] ==
                IF s = 0 THEN <<>>
                ELSE HooksIn(l, s, {"snapshot"}) \o afterEach[Layouts[l].parent[s]]
        IN  afterEach]

HooksOf(s, kinds) == HooksIn(layout, s, kinds)
EachHooks(s) == EachHooksIn[layout][s]
AfterEachHooks(s) == AfterEachHooksIn[layout][s]

Tests == UNION {UNION {{<<l, s, k>> : k \in 1 .. Layouts[l].tests[s]} : s \in Suites(l)}
                  : l \in DOMAIN Layouts}
SetUp(t) ==
    {<<t[1], h>> : h \in {g \in Hooks(t[1]) : g[1] \in Around[t[1]][t[2]]
                              /\ KindIn(t[1], g) # "snapshot"}}

-----------------------------------------------------------------------------
(* The node *)

\* evm_snapshot
takeSnapshot ==
    /\ snapshots' = [i \in DOMAIN snapshots \cup {nextId} |->
                        IF i = nextId THEN chain' ELSE snapshots[i]]
    /\ nextId' = nextId + 1

\* evm_revert: forgets the snapshot and every later one; an id that is not live is
\* answered with false, which nobody looks at.
Reverted(id) == IF id \in DOMAIN snapshots THEN snapshots[id] ELSE chain
Remaining(id) ==
    IF id \in DOMAIN snapshots
    THEN [i \in {j \in DOMAIN snapshots : j < id} |-> snapshots[i]]
    ELSE snapshots

-----------------------------------------------------------------------------
(* The hooks *)

\* A hook's own code: deploys, and stores what it deployed in a variable.
Deploy(h) ==
    /\ chain' = Append(chain, [by |-> "hook", what |-> h])
    /\ handle' = [handle EXCEPT ![h] = Len(chain) + 1]

\* saveSnapshotAsync
saveSnapshotAsync(h) ==
    /\ takeSnapshot
    /\ snapshotId' = [snapshotId EXCEPT ![h] = nextId]

\* beforeEach of addSnapshotBeforeRestoreAfterEach
SaveHook(h) ==
    /\ chain' = chain
    /\ saveSnapshotAsync(h)
    /\ UNCHANGED <<SNAPSHOTS, initialized, handle>>

\* afterEach of addSnapshotBeforeRestoreAfterEach: revertAsync, to the last snapshot
\* this object took, whether or not it is still live.
RestoreHook(h) ==
    /\ chain' = Reverted(snapshotId[h])
    /\ snapshots' = Remaining(snapshotId[h])
    /\ UNCHANGED <<nextId, scriptVars>>

\* beforeEach of cacheBeforeEach, first time.
CacheInit(h) ==
    /\ h \notin initialized
    /\ Deploy(h)
    /\ saveSnapshotAsync(h)
    /\ SNAPSHOTS' = Append(SNAPSHOTS, nextId)
    /\ initialized' = initialized \cup {h}

\* Faulty: takes a new snapshot without going back to the old one.
cacheHitWithoutRevert(h) ==
    /\ h \in initialized
    /\ chain' = chain
    /\ saveSnapshotAsync(h)
    /\ SNAPSHOTS' = Append(Front(SNAPSHOTS), nextId)
    /\ UNCHANGED <<initialized, handle>>

\* beforeEach of cacheBeforeEach, afterwards: the id it pops is the innermost
\* cache's, not its own, when a suite inside has initialized one.
CacheHit(h) ==
    LET id == Last(SNAPSHOTS)
        kept == Remaining(id)
    IN  /\ h \in initialized
        /\ chain' = Reverted(id)
        /\ snapshots' = [i \in DOMAIN kept \cup {nextId} |->
                            IF i = nextId THEN chain' ELSE kept[i]]
        /\ nextId' = nextId + 1
        /\ snapshotId' = [snapshotId EXCEPT ![h] = nextId]
        /\ SNAPSHOTS' = Append(Front(SNAPSHOTS), nextId)
        /\ UNCHANGED <<initialized, handle>>

\* Faulty: pops although the initializer never finished.
afterAlwaysPops(h) ==
    /\ SNAPSHOTS' = IF SNAPSHOTS = <<>> THEN <<>> ELSE Front(SNAPSHOTS)
    /\ UNCHANGED <<nodeVars, snapshotId, initialized, handle>>

\* after of cacheBeforeEach
CacheAfter(h) ==
    /\ SNAPSHOTS' = IF h \in initialized THEN Front(SNAPSHOTS) ELSE SNAPSHOTS
    /\ UNCHANGED <<nodeVars, snapshotId, initialized, handle>>

\* before and beforeEach hooks of a test file.
SetUpHook(h) ==
    /\ Deploy(h)
    /\ UNCHANGED <<snapshots, nextId, SNAPSHOTS, snapshotId, initialized>>

RunHook(h) ==
    \/ phase = "afterEach" /\ RestoreHook(h)
    \/ phase = "after" /\ CacheAfter(h)
    \/ /\ phase \in {"before", "each"}
       /\ \/ Kind(h) = "snapshot" /\ SaveHook(h)
          \/ Kind(h) = "cache" /\ (CacheInit(h) \/ CacheHit(h))
          \/ Kind(h) \in {"before", "beforeEach"} /\ SetUpHook(h)

\* A hook, or an initializer, throws: on its first transaction or on a later one.
\* A cache whose initializer throws takes no snapshot and stays uninitialized.
FailHook(h) ==
    /\ phase \in {"before", "each"}
    /\ Kind(h) # "snapshot" /\ h \notin initialized
    /\ Deploy(h) \/ UNCHANGED <<chain, handle>>
    /\ UNCHANGED <<snapshots, nextId, SNAPSHOTS, snapshotId, initialized>>

-----------------------------------------------------------------------------
(* The runner *)

SandboxInit ==
    /\ layout \in DOMAIN Layouts
    /\ chain = <<>> /\ snapshots = <<>> /\ nextId = 1
    /\ SNAPSHOTS = <<>> /\ initialized = {}
    /\ snapshotId = [h \in Hooks(layout) |-> 0]
    /\ handle = [h \in Hooks(layout) |-> 0]
    /\ cur = 0 /\ nextTest = 1 /\ visited = {}
    /\ phase = "next" /\ todo = <<>> /\ skipped = {}
    /\ base = 0
    /\ failures = 0 /\ restarts = 0

Unvisited ==
    {c \in Suites(layout) \ (visited \cup skipped) : Layouts[layout].parent[c] = cur}

TestsOf(s) == IF s = 0 THEN 0 ELSE Layouts[layout].tests[s]
OwnTestsDone == cur \in skipped \/ nextTest > TestsOf(cur)

\* The next test of the suite: its own tests come before the suites inside it.
NextTest ==
    /\ phase = "next"
    /\ ~OwnTestsDone
    /\ phase' = "each"
    /\ todo' = EachHooks(cur)
    /\ UNCHANGED <<layout, nodeVars, scriptVars, cur, nextTest, visited, skipped, base,
                   failures, restarts>>

EnterSuite ==
    /\ phase = "next"
    /\ OwnTestsDone
    /\ Unvisited # {}
    /\ LET c == CHOOSE c \in Unvisited : \A d \in Unvisited : c <= d
       IN  /\ cur' = c
           /\ visited' = visited \cup {c}
           /\ todo' = HooksOf(c, {"before"})
           /\ base' = IF cur = 0 THEN Len(chain) ELSE base
    /\ nextTest' = 1
    /\ phase' = "before"
    /\ UNCHANGED <<layout, nodeVars, scriptVars, skipped, failures, restarts>>

\* No test and no suite is left: the suite's after hooks, then its parent goes on.
LeaveSuite ==
    /\ phase = "next"
    /\ cur # 0
    /\ OwnTestsDone
    /\ Unvisited = {}
    /\ phase' = "after"
    /\ todo' = HooksOf(cur, {"cache"})
    /\ UNCHANGED <<layout, nodeVars, scriptVars, cur, nextTest, visited, skipped, base,
                   failures, restarts>>

Hook ==
    /\ todo # <<>>
    /\ RunHook(Head(todo))
    /\ todo' = Tail(todo)
    /\ UNCHANGED <<layout, cur, nextTest, visited, phase, skipped, base, failures, restarts>>

\* A failed hook of suite s gives up s and the suites inside it; the afterEach hooks
\* of s and of the suites around it still run, then every open suite is left.
HookFails ==
    /\ todo # <<>>
    /\ failures < MaxFailures
    /\ FailHook(Head(todo))
    /\ skipped' = skipped \cup Under(Head(todo)[1])
    /\ phase' = IF phase = "before" THEN "next" ELSE "afterEach"
    /\ todo' = IF phase = "before" THEN <<>> ELSE AfterEachHooks(Head(todo)[1])
    /\ failures' = failures + 1
    /\ UNCHANGED <<layout, cur, nextTest, visited, base, restarts>>

HooksDone ==
    /\ todo = <<>>
    /\ \/ /\ phase = "before"
          /\ phase' = "next" /\ UNCHANGED <<cur, nextTest>>
       \/ /\ phase = "each"
          /\ phase' = "test" /\ UNCHANGED <<cur, nextTest>>
       \/ /\ phase = "afterEach"
          /\ phase' = "next" /\ nextTest' = nextTest + 1 /\ UNCHANGED cur
       \/ /\ phase = "after"
          /\ phase' = "next"
          /\ cur' = Layouts[layout].parent[cur]
          /\ nextTest' = TestsOf(cur') + 1
    /\ UNCHANGED <<layout, nodeVars, scriptVars, visited, todo, skipped, base, failures,
                   restarts>>

\* The test's transactions, mined blocks and time jumps; passing or failing, its
\* afterEach hooks follow.
RunTest ==
    /\ phase = "test"
    /\ chain' \in {chain, Append(chain, [by |-> "test", what |-> <<cur, nextTest>>])}
    /\ phase' = "afterEach"
    /\ todo' = AfterEachHooks(cur)
    /\ UNCHANGED <<layout, snapshots, nextId, scriptVars, cur, nextTest, visited, skipped,
                   base, failures, restarts>>

Finished == phase = "next" /\ cur = 0 /\ Unvisited = {}

\* The runner is killed; a new one starts against the same node.
Restart ==
    /\ restarts < MaxRestarts
    /\ ~Finished
    /\ restarts' = restarts + 1
    /\ SNAPSHOTS' = <<>> /\ initialized' = {}
    /\ snapshotId' = [h \in Hooks(layout) |-> 0]
    /\ handle' = [h \in Hooks(layout) |-> 0]
    /\ cur' = 0 /\ nextTest' = 1 /\ visited' = {}
    /\ phase' = "next" /\ todo' = <<>> /\ skipped' = {}
    /\ UNCHANGED <<layout, nodeVars, base, failures>>

RunnerStep ==
    \/ NextTest \/ EnterSuite \/ LeaveSuite
    \/ Hook \/ HookFails \/ HooksDone \/ RunTest

SandboxNext == RunnerStep \/ Restart

\* mocha goes on as long as there is something to run: its loop awaits each hook and
\* test, and the 200 s timeout of hardhat.config.ts ends one that hangs.
SandboxFairness == WF_sandboxVars(RunnerStep)

SandboxSpec == SandboxInit /\ [][SandboxNext]_sandboxVars /\ SandboxFairness

-----------------------------------------------------------------------------
(* Properties *)

openCaches == {h \in initialized : h[1] \in Path(cur)}
closing == IF phase = "after" THEN {h \in initialized : h[1] = cur /\ h \notin ToSet(todo)} ELSE {}

\* The stack of testingUtils.ts holds one id for each initialized cache of the suites
\* being run, and the node still knows every one of them: a beforeEach never reverts to
\* a snapshot that is gone, and an after never pops another suite's id.
StackMatchesSuites ==
    /\ Len(SNAPSHOTS) = Cardinality(openCaches \ closing)
    /\ ToSet(SNAPSHOTS) \subseteq DOMAIN snapshots

\* Hooks whose variable names what the hook itself deployed.
live == {h \in Hooks(layout) : /\ handle[h] \in DOMAIN chain
                               /\ chain[handle[h]] = [by |-> "hook", what |-> h]}
leftBehind == {i \in base + 1 .. Len(chain) : chain[i].by = "test"}

pendingTests ==
    {t \in Tests :
        /\ t[1] = layout
        /\ t[2] \notin skipped
        /\ \/ t[2] \notin visited
           \/ t[2] = cur /\ (t[3] > nextTest \/ (t[3] = nextTest /\ phase \in {"next", "before", "each"}))}

\* Both helpers implement what their comment says, "test sandboxing ... It snapshots and
\* restores between each test" and "Can be used like a `beforeEach` statement".
Abstract == INSTANCE FreshWorld WITH
    Tests <- Tests, SetUp <- SetUp, NoTest <- <<0, 0, 0>>,
    pending <- pendingTests,
    running <- IF phase = "test" THEN <<layout, cur, nextTest>> ELSE <<0, 0, 0>>,
    world <- IF phase = "test"
             THEN {<<layout, h>> : h \in {g \in live : g[1] \in Path(cur)}}
                    \cup {<<layout, <<0, i>>>> : i \in leftBehind}
             ELSE {}

ImplementsFreshWorld == Abstract!Spec
=============================================================================
