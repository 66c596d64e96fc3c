---------------------------- MODULE BuildTasks ----------------------------
(***************************************************************************)
(* The build: the scripts of package.json, the hardhat tasks and subtasks  *)
(* this repository overrides or adds (tasks/subtasks.ts, hardhat.config.ts)*)
(* and the ABI edits of utils/tasks/artifactUtils.ts.                      *)
(*                                                                         *)
(* An ABI is "plain", or carries the gas limit of a network.  A file that  *)
(* was opened for writing and not yet filled is "torn"; one whose gas ABI  *)
(* was overwritten by a plain one, which is shorter, is "garbled".  The    *)
(* artifacts under external/ are tracked by git, so a build must leave     *)
(* them plain: the typechain subtask writes gas into them, generates the   *)
(* types, and takes it out again.  Processes share the working directory,  *)
(* and any of them may be killed, or fail, at any step.                    *)
(*                                                                         *)
(* A process takes its environment from its script and from .env, which    *)
(* the developer edits as he likes; `yarn test` talks to whatever node     *)
(* `yarn chain` or `yarn chain:fork` started.  hardhat's and typechain's   *)
(* own tasks (runSuper, env.run) are external.                             *)
(***************************************************************************)
EXTENDS HardhatConfig, Sequences, SequencesExt

CONSTANTS
    Procs,          \* processes in one working directory
    Contracts,      \* contracts of the repository
    Externals,      \* files of external/abi/perp, in the order readdir lists them
    Scripts,        \* scripts of package.json that are run
    DotEnvs,        \* what .env may hold: the environment before a script adds to it
    MaxRuns,        \* bound: scripts started
    MaxEdits,       \* bound: changes of .env, starts and stops of the node
    MaxFaults       \* bound: processes killed or failed

ASSUME BuildAssumption ==
    /\ Scripts \subseteq {"build", "build:npm:latest", "test", "test:fork:ethereum",
                          "test:fork:arbitrum", "index:compile:one", "chain", "chain:fork"}
    /\ DotEnvs \subseteq Environments
    /\ IsInjective(Externals)

ABI == {"plain", "gas"}

VARIABLES
    artifacts,      \* artifacts/: contract -> ABI, for the contracts compiled so far
    external,       \* external/abi/perp: file -> ABI, "torn" or "garbled"
    types,          \* typechain/: what the types of contracts and files were made from
    script,         \* commands a process has still to run
    dotenv,         \* what .env holds
    node,           \* environment of the node behind localhost; {} if none runs
    environ,        \* environment a process has loaded
    network,        \* network of a process
    name,           \* script a process runs, "" when idle
    pc,             \* step of the current command
    left,           \* files or contracts left for the current loop
    held,           \* `artifacts` of the typechain subtask: files to restore
    owed,           \* files a dead process left modified
    runs, edits, faults

fileVars == <<artifacts, external, types>>
envVars == <<dotenv, node, edits>>
procVars == <<script, environ, network, name, pc, left, held>>
buildVars == <<fileVars, envVars, procVars, owed, runs, faults>>

-----------------------------------------------------------------------------
(* utils/tasks/artifactUtils.ts *)

\* BigNumber.from(gas) needs a number; networks without a `gas` entry have "auto".
HasGasNumber(n) == n \in NetworksWithGas

\* Every function element of the ABI gets the gas limit, over any it had.
addGasToAbiMethods(abi) == "gas"
removeGasFromAbiMethods(abi) == "plain"

-----------------------------------------------------------------------------
(* package.json *)

\* A command, and whether SKIP_ABI_GAS_MODS is in its environment: in
\* compile:latest the assignment precedes the first of two commands only.
Commands(s) ==
    LET cmd(c) == [cmd |-> c, skip |-> FALSE]
    IN  CASE s = "build" ->
               <<cmd("clean"), cmd("compile"), cmd("compileAll"), cmd("typechain")>>
          [] s = "build:npm:latest" ->
               <<cmd("clean"), [cmd |-> "compile", skip |-> TRUE], cmd("compileAll"),
                 cmd("typechain")>>
          [] s = "index:compile:one" -> <<cmd("compileOne"), cmd("typechain")>>
          [] OTHER -> <<cmd("test")>>

\* The variables a script adds to the environment, which win over those of .env, and the
\* network it asks for; index:compile:one is run by hand, on any network.
EnvOf(s, e) ==
    CASE s \in {"test:fork:ethereum", "chain:fork"} -> [e EXCEPT !.FORK = TRUE]
      [] s = "test:fork:arbitrum" -> [e EXCEPT !.FORK = TRUE, !.FORK_NETWORK = "arbitrum"]
      [] OTHER -> e
NetworksOf(s) ==
    CASE s = "test" -> {"localhost"}
      [] s = "index:compile:one" -> {"hardhat", "production"}
      [] OTHER -> {"hardhat"}

\* The scripts that serve a chain.
NodeScripts == {"chain", "chain:fork"}

-----------------------------------------------------------------------------

BuildInit ==
    /\ artifacts = <<>>
    /\ external = [f \in ToSet(Externals) |-> "plain"]
    /\ types = <<>>
    /\ script = [p \in Procs |-> <<>>]
    /\ dotenv \in DotEnvs
    /\ node = {}
    /\ environ = [p \in Procs |-> dotenv]
    /\ network = [p \in Procs |-> "hardhat"]
    /\ name = [p \in Procs |-> ""]
    /\ pc = [p \in Procs |-> "idle"]
    /\ left = [p \in Procs |-> <<>>]
    /\ held = [p \in Procs |-> {}]
    /\ owed = {}
    /\ runs = 0 /\ edits = 0 /\ faults = 0

\* The step at which a command begins.
FirstStep(c) == CASE c.cmd = "clean" -> "clean"
                  [] c.cmd \in {"compile", "typechain", "test"} -> "compile"
                  [] c.cmd \in {"compileAll", "compileOne"} -> "list"

\* Loading the configuration comes first: the process exits if it forks a chain without a
\* token for it, or if the network is not configured.
StartScript(p, s) ==
    /\ pc[p] = "idle"
    /\ runs < MaxRuns
    /\ runs' = runs + 1
    /\ \E n \in NetworksOf(s) :
          /\ checkForkedProviderEnvironment(EnvOf(s, dotenv))
          /\ n \in networks(EnvOf(s, dotenv))
          /\ network' = [network EXCEPT ![p] = n]
    /\ environ' = [environ EXCEPT ![p] = EnvOf(s, dotenv)]
    /\ name' = [name EXCEPT ![p] = s]
    /\ script' = [script EXCEPT ![p] = Commands(s)]
    /\ pc' = [pc EXCEPT ![p] = FirstStep(Head(Commands(s)))]
    /\ UNCHANGED <<fileVars, envVars, left, held, owed, faults>>

EditDotEnv(e) ==
    /\ edits < MaxEdits
    /\ edits' = edits + 1
    /\ dotenv' = e
    /\ UNCHANGED <<fileVars, node, procVars, owed, runs, faults>>

\* The node loads the configuration as any process does, and connects to the chain it forks.
StartNode(s) ==
    /\ node = {}
    /\ edits < MaxEdits
    /\ edits' = edits + 1
    /\ checkForkedProviderEnvironment(EnvOf(s, dotenv)) /\ hasUrl(EnvOf(s, dotenv))
    /\ node' = {EnvOf(s, dotenv)}
    /\ UNCHANGED <<fileVars, dotenv, procVars, owed, runs, faults>>

StopNode ==
    /\ node # {}
    /\ edits < MaxEdits
    /\ edits' = edits + 1
    /\ node' = {}
    /\ UNCHANGED <<fileVars, dotenv, procVars, owed, runs, faults>>

\* The command has succeeded (`&&`): on to the next one, or the script is done.
Proceed(p) ==
    /\ script' = [script EXCEPT ![p] = Tail(@)]
    /\ pc' = [pc EXCEPT ![p] = IF Len(script[p]) = 1 THEN "idle"
                               ELSE FirstStep(script[p][2])]
    /\ name' = [name EXCEPT ![p] = IF Len(script[p]) = 1 THEN "" ELSE @]

\* scripts/clean.sh
Clean(p) ==
    /\ pc[p] = "clean"
    /\ artifacts' = <<>>
    /\ types' = <<>>
    /\ Proceed(p)
    /\ UNCHANGED <<external, envVars, environ, network, left, held, owed, runs, faults>>

\* The artifact of contract c as the overridden subtask returns it.
Artifact(p) ==
    IF Head(script[p]).skip THEN "plain" ELSE addGasToAbiMethods("plain")
Emit(c, abi) ==
    artifacts' = [d \in DOMAIN artifacts \cup {c} |-> IF d = c THEN abi ELSE artifacts[d]]

\* `hardhat compile` compiles the contracts that have no artifact yet, then hands over to
\* the typechain subtask, which reads the directory.
CompileOne(p, c) ==
    /\ pc[p] = "compile"
    /\ c \in Contracts \ DOMAIN artifacts
    /\ Head(script[p]).skip \/ HasGasNumber(network[p])
    /\ Emit(c, Artifact(p))
    /\ UNCHANGED <<external, types, envVars, procVars, owed, runs, faults>>

CompileDone(p) ==
    /\ pc[p] = "compile"
    /\ Contracts \subseteq DOMAIN artifacts
    /\ pc' = [pc EXCEPT ![p] = "read"]
    /\ left' = [left EXCEPT ![p] = Externals]
    /\ UNCHANGED <<fileVars, script, envVars, environ, network, name, held, owed, runs, faults>>

\* index:compile:all lists the artifacts, then recompiles them one by one; index:compile:one
\* is given the contract.  One whose artifact does not exist cannot be read.
List(p) ==
    /\ pc[p] = "list"
    /\ pc' = [pc EXCEPT ![p] = "isolated"]
    /\ \/ /\ Head(script[p]).cmd = "compileAll"
          /\ left' = [left EXCEPT ![p] = SetToSeq(DOMAIN artifacts)]
       \/ /\ Head(script[p]).cmd = "compileOne"
          /\ \E c \in Contracts : left' = [left EXCEPT ![p] = <<c>>]
    /\ UNCHANGED <<fileVars, script, envVars, environ, network, name, held, owed, runs, faults>>

CompileIsolated(p) ==
    /\ pc[p] = "isolated"
    /\ left[p] # <<>>
    /\ Head(left[p]) \in DOMAIN artifacts
    /\ Head(script[p]).skip \/ HasGasNumber(network[p])
    /\ Emit(Head(left[p]), Artifact(p))
    /\ left' = [left EXCEPT ![p] = Tail(@)]
    /\ UNCHANGED <<external, types, script, envVars, environ, network, name, pc, held, owed, runs, faults>>

IsolatedDone(p) ==
    /\ pc[p] = "isolated"
    /\ left[p] = <<>>
    /\ Proceed(p)
    /\ UNCHANGED <<fileVars, envVars, environ, network, left, held, owed, runs, faults>>

\* The typechain subtask, first loop: read a file and edit it, then write it with gas.
ReadExternal(p) ==
    /\ pc[p] = "read"
    /\ left[p] # <<>>
    /\ external[Head(left[p])] \in ABI
    /\ HasGasNumber(network[p])
    /\ pc' = [pc EXCEPT ![p] = "modified"]
    /\ UNCHANGED <<fileVars, script, envVars, environ, network, name, left, held, owed, runs, faults>>

\* Writing truncates the file before it fills it, in either loop: the second one writes the
\* artifacts kept in memory back without gas.
TruncateExternal(p) ==
    /\ \/ pc[p] = "modified" /\ pc' = [pc EXCEPT ![p] = "addGas"]
       \/ pc[p] = "restore" /\ left[p] # <<>> /\ pc' = [pc EXCEPT ![p] = "removeGas"]
    /\ external' = [external EXCEPT ![Head(left[p])] = "torn"]
    /\ UNCHANGED <<artifacts, types, script, envVars, environ, network, name, left, held, owed, runs, faults>>

\* The gas ABI is the longest: it covers whatever the file holds.
WriteGas(p) ==
    /\ pc[p] = "addGas"
    /\ external' = [external EXCEPT ![Head(left[p])] = addGasToAbiMethods(@)]
    /\ held' = [held EXCEPT ![p] = @ \cup {Head(left[p])}]
    /\ left' = [left EXCEPT ![p] = Tail(@)]
    /\ pc' = [pc EXCEPT ![p] = "read"]
    /\ UNCHANGED <<artifacts, types, script, envVars, environ, network, name, owed, runs, faults>>

\* runSuper: typechain reads every artifact and every external file at once.
RunSuper(p) ==
    /\ pc[p] = "read"
    /\ left[p] = <<>>
    /\ \A f \in ToSet(Externals) : external[f] \in ABI
    /\ types' = [x \in DOMAIN artifacts \cup ToSet(Externals) |->
                    IF x \in DOMAIN artifacts THEN artifacts[x] ELSE external[x]]
    /\ pc' = [pc EXCEPT ![p] = "restore"]
    /\ left' = [left EXCEPT ![p] = Externals]
    /\ UNCHANGED <<artifacts, external, script, envVars, environ, network, name, held, owed, runs, faults>>

\* Faulty: forgets to take the gas out.
writeUnchanged(p) ==
    /\ pc[p] = "removeGas"
    /\ external' = [external EXCEPT ![Head(left[p])] = "gas"]
    /\ held' = [held EXCEPT ![p] = @ \ {Head(left[p])}]
    /\ owed' = owed \ {Head(left[p])}
    /\ left' = [left EXCEPT ![p] = Tail(@)]
    /\ pc' = [pc EXCEPT ![p] = "restore"]
    /\ UNCHANGED <<artifacts, types, script, envVars, environ, network, name, runs, faults>>

\* A gas ABI that another process has written since the truncation keeps its tail.
WritePlain(p) ==
    LET f == Head(left[p])
        over == external[f] \in {"gas", "garbled"}
    IN  /\ pc[p] = "removeGas"
        /\ external' = [external EXCEPT ![f] = IF over THEN "garbled"
                                               ELSE removeGasFromAbiMethods("gas")]
        /\ held' = [held EXCEPT ![p] = @ \ {f}]
        /\ owed' = IF over THEN owed ELSE owed \ {f}
        /\ left' = [left EXCEPT ![p] = Tail(@)]
        /\ pc' = [pc EXCEPT ![p] = "restore"]
        /\ UNCHANGED <<artifacts, types, script, envVars, environ, network, name, runs, faults>>

\* `hardhat test` goes on to run mocha in the same process.
TypechainDone(p) ==
    /\ pc[p] = "restore"
    /\ left[p] = <<>>
    /\ \/ /\ Head(script[p]).cmd = "test"
          /\ pc' = [pc EXCEPT ![p] = "mocha"]
          /\ UNCHANGED <<script, name>>
       \/ Head(script[p]).cmd # "test" /\ Proceed(p)
    /\ UNCHANGED <<fileVars, envVars, environ, network, left, held, owed, runs, faults>>

\* A chain that answers: the node on localhost, or the one the process forks.
canConnect(p) == IF network[p] = "localhost" THEN node # {} ELSE hasUrl(environ[p])

RunMocha(p) ==
    /\ pc[p] = "mocha"
    /\ canConnect(p)
    /\ Proceed(p)
    /\ UNCHANGED <<fileVars, envVars, environ, network, left, held, owed, runs, faults>>

\* The files p has modified, or is writing, and not yet restored.
Owes(p) ==
    held[p] \cup (IF pc[p] \in {"addGas", "removeGas"} THEN {Head(left[p])} ELSE {})

\* The process ends without restoring anything: there is no finally.
Dies(p) ==
    /\ owed' = owed \cup Owes(p)
    /\ script' = [script EXCEPT ![p] = <<>>]
    /\ name' = [name EXCEPT ![p] = ""]
    /\ pc' = [pc EXCEPT ![p] = "idle"]
    /\ left' = [left EXCEPT ![p] = <<>>]
    /\ held' = [held EXCEPT ![p] = {}]
    /\ UNCHANGED <<fileVars, envVars, environ, network, runs>>

\* Faulty: waits for a file that is being written instead of failing to parse it.
throwsUnlessTorn(p) ==
    /\ ~HasGasNumber(network[p])
    /\ pc[p] \in {"compile", "isolated", "read"}
    /\ Dies(p)
    /\ UNCHANGED faults

\* It throws where the code does: gas is not a number, a file cannot be parsed, an artifact
\* is gone, no chain answers.
Throws(p) ==
    /\ \/ /\ pc[p] = "compile" /\ ~(Contracts \subseteq DOMAIN artifacts)
          /\ ~Head(script[p]).skip /\ ~HasGasNumber(network[p])
       \/ /\ pc[p] = "isolated" /\ left[p] # <<>>
          /\ \/ Head(left[p]) \notin DOMAIN artifacts
             \/ ~Head(script[p]).skip /\ ~HasGasNumber(network[p])
       \/ /\ pc[p] = "read" /\ left[p] # <<>>
          /\ external[Head(left[p])] \notin ABI \/ ~HasGasNumber(network[p])
       \/ /\ pc[p] = "read" /\ left[p] = <<>>
          /\ \E f \in ToSet(Externals) : external[f] \notin ABI
       \/ pc[p] = "mocha" /\ ~canConnect(p)
    /\ Dies(p)
    /\ UNCHANGED faults

\* It is killed, or the compiler, typechain or the file system fails.
Killed(p) ==
    /\ pc[p] # "idle"
    /\ faults < MaxFaults
    /\ faults' = faults + 1
    /\ Dies(p)

ProcStep(p) ==
    \/ Clean(p)
    \/ \E c \in Contracts : CompileOne(p, c)
    \/ CompileDone(p) \/ List(p) \/ CompileIsolated(p) \/ IsolatedDone(p)
    \/ ReadExternal(p) \/ WriteGas(p) \/ RunSuper(p)
    \/ TruncateExternal(p) \/ WritePlain(p) \/ TypechainDone(p) \/ RunMocha(p)
    \/ Throws(p)

BuildNext ==
    \/ \E p \in Procs :
          \/ \E s \in Scripts \ NodeScripts : StartScript(p, s)
          \/ ProcStep(p)
          \/ Killed(p)
    \/ \E e \in DotEnvs : EditDotEnv(e)
    \/ \E s \in Scripts \cap NodeScripts : StartNode(s)
    \/ StopNode

\* A running process goes on: nothing in it waits for another.
BuildFairness == \A p \in Procs : WF_buildVars(ProcStep(p))

BuildSpec == BuildInit /\ [][BuildNext]_buildVars /\ BuildFairness

-----------------------------------------------------------------------------
(* Properties *)

\* "Temporarily rewrites artifact so typechain picks up the network specific gas
\* requirement without introducing any git changes": an external artifact differs from
\* what is checked in only while some process still has it to restore, or because one
\* died before it could.
ExternalsRestored ==
    \A f \in ToSet(Externals) :
        external[f] # "plain" => f \in owed \/ \E p \in Procs : f \in Owes(p)

\* The title tag of the tests that need a chain.
TagOf(chain) == CASE chain = "ethereum" -> "@forked-mainnet"
                  [] chain = "arbitrum" -> "@forked-arbitrum"
                  [] OTHER -> ""

\* mochaConfig and the network's forking decide independently, from the same variables,
\* whatever .env holds: on the in-process network the tests that run are those of the chain
\* the process forks, or the untagged ones if it forks none.  On localhost the node decided
\* for itself, from another script and perhaps another .env: the tests fit the chain it
\* serves exactly when it forks what the process would have forked.
TestsFitTheChain ==
    \A p \in Procs : pc[p] = "mocha" =>
        LET tests == Selected(mochaConfig(environ[p]))
        IN  IF network[p] = "localhost"
            THEN \A e \in node :
                   tests = {TagOf(forking(e))} <=> forking(e) = forking(environ[p])
            ELSE tests = {TagOf(forking(environ[p]))}

\* Every script that is started ends, with success or not: no process waits for another.
ScriptsEnd == \A p \in Procs : pc[p] # "idle" ~> pc[p] = "idle"

\* "Regenerate artifacts to strip out hardcoded gas values in artifact ABIs" (the step of
\* release_latest.sh that runs build:npm:latest) and "These changes should be skipped when
\* publishing to npm" (tasks/subtasks.ts).
PublishedWithoutGas ==
    [][\A p \in Procs :
          name[p] = "build:npm:latest" /\ TypechainDone(p) /\ pc'[p] = "idle"
              => \A c \in DOMAIN artifacts : artifacts[c] = "plain"]_buildVars
=============================================================================
