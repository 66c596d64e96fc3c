-------------------------- MODULE ToolchainProofs --------------------------
(***************************************************************************)
(* The build, the fixtures and the sandbox.  For any number of processes,  *)
(* scripts, files, contracts, deaths and runs in one working directory, an *)
(* external artifact that is not as checked in is somebody's to restore,   *)
(* or was when its process died; and whatever .env holds, the tests a      *)
(* process selects are those of the chain it forks, on localhost that of a *)
(* node that forks the same.  For any number of calls of initialize,       *)
(* failures, sets and further contracts, a fixture that has been           *)
(* initialized is one system, and every constructor got what its           *)
(* parameters name. For any tree of suites, failing hooks and restarts of  *)
(* the runner, the snapshot ids of testingUtils.ts are those of the caches *)
(* around the test, and the node knows them all.                           *)
(***************************************************************************)
EXTENDS TestSandbox, BuildTasks, Deployment,
        FiniteSetTheorems, SequenceTheorems, WellFoundedInduction, TLAPS

-----------------------------------------------------------------------------
(* Environments.                                                            *)

\* Every process, and the node, loaded an environment.
EnvInv ==
    /\ dotenv \in Environments /\ node \subseteq Environments
    /\ environ \in [Procs -> Environments]

LEMMA EnvOfIsEnv ==
    ASSUME NEW s, NEW e \in Environments
    PROVE  EnvOf(s, e) \in Environments
BY DEF EnvOf, Environments

\* Whatever the environment, the tests it selects are those of the chain it forks.
LEMMA TestsOfEnv ==
    ASSUME NEW e \in Environments
    PROVE  /\ Selected(mochaConfig(e)) = {TagOf(forking(e))}
           /\ forking(e) \in {"ethereum", "arbitrum", "none"}
<1>1. CASE ~e.FORK
  BY <1>1 DEF forking, TagOf, Selected, mochaConfig, Tags, unittestMochaConfig
<1>2. CASE e.FORK /\ e.FORK_NETWORK = "arbitrum"
  BY <1>2 DEF forking, forkingConfig, TagOf, Selected, mochaConfig, arbitrumForkMochaConfig
<1>3. CASE e.FORK /\ e.FORK_NETWORK # "arbitrum"
  BY <1>3 DEF forking, forkingConfig, TagOf, Selected, mochaConfig, mainnetForkMochaConfig
<1> QED BY <1>1, <1>2, <1>3

\* No two chains share a tag.
LEMMA TagsDiffer ==
    ASSUME NEW c \in {"ethereum", "arbitrum", "none"}, NEW d \in {"ethereum", "arbitrum", "none"},
           TagOf(c) = TagOf(d)
    PROVE  c = d
BY DEF TagOf

\* On the in-process network mocha never runs tests for another chain than the one its
\* process forks, whatever .env holds and whenever it is edited; on localhost it does
\* exactly when the node was started to fork another.
THEOREM AlwaysFitsTheChain == BuildSpec => []TestsFitTheChain
<1>1. BuildInit => EnvInv
  <2> SUFFICES ASSUME BuildInit PROVE EnvInv
    OBVIOUS
  <2>1. dotenv \in DotEnvs /\ node = {} /\ environ = [p \in Procs |-> dotenv]
    BY Zenon DEF BuildInit
  <2>2. dotenv \in Environments
    BY <2>1, BuildAssumption, Zenon
  <2> QED BY <2>1, <2>2, Zenon DEF EnvInv
<1>2. EnvInv /\ [BuildNext]_buildVars => EnvInv'
  <2> SUFFICES ASSUME EnvInv, [BuildNext]_buildVars PROVE EnvInv'
    OBVIOUS
  <2>1. CASE UNCHANGED buildVars
    BY <2>1 DEF buildVars, envVars, procVars, EnvInv
  <2>2. ASSUME NEW p \in Procs, NEW s \in Scripts, StartScript(p, s) PROVE EnvInv'
    <3>1. /\ environ' = [environ EXCEPT ![p] = EnvOf(s, dotenv)]
          /\ dotenv' = dotenv /\ node' = node
      BY <2>2 DEF StartScript, envVars
    <3> QED BY <3>1, EnvOfIsEnv DEF EnvInv
  <2>3. ASSUME NEW p \in Procs, ProcStep(p) \/ Killed(p) PROVE EnvInv'
    <3>1. dotenv' = dotenv /\ node' = node /\ environ' = environ
      BY <2>3 DEF ProcStep, Clean, CompileOne, CompileDone, List, CompileIsolated, IsolatedDone,
                  ReadExternal, WriteGas, RunSuper, TruncateExternal, WritePlain, TypechainDone,
                  RunMocha, Throws, Killed, Dies, envVars, procVars
    <3> QED BY <3>1 DEF EnvInv
  <2>4. ASSUME NEW e \in DotEnvs, EditDotEnv(e) PROVE EnvInv'
    BY <2>4, BuildAssumption DEF EditDotEnv, procVars, EnvInv
  <2>5. ASSUME NEW s \in Scripts, StartNode(s) PROVE EnvInv'
    <3>1. /\ node' = {EnvOf(s, dotenv)}
          /\ dotenv' = dotenv /\ environ' = environ
      BY <2>5 DEF StartNode, procVars
    <3> QED BY <3>1, EnvOfIsEnv DEF EnvInv
  <2>6. CASE StopNode
    BY <2>6 DEF StopNode, procVars, EnvInv
  <2> QED BY <2>1, <2>2, <2>3, <2>4, <2>5, <2>6 DEF BuildNext
<1>3. EnvInv => TestsFitTheChain
  <2> SUFFICES ASSUME EnvInv, NEW p \in Procs
               PROVE  LET tests == Selected(mochaConfig(environ[p]))
                      IN  IF network[p] = "localhost"
                          THEN \A e \in node :
                                 tests = {TagOf(forking(e))} <=> forking(e) = forking(environ[p])
                          ELSE tests = {TagOf(forking(environ[p]))}
    BY Zenon DEF TestsFitTheChain
  <2>1. /\ Selected(mochaConfig(environ[p])) = {TagOf(forking(environ[p]))}
        /\ forking(environ[p]) \in {"ethereum", "arbitrum", "none"}
    BY TestsOfEnv DEF EnvInv
  <2>2. ASSUME NEW e \in node
        PROVE  {TagOf(forking(environ[p]))} = {TagOf(forking(e))} <=> forking(e) = forking(environ[p])
    <3>1. forking(e) \in {"ethereum", "arbitrum", "none"}
      BY TestsOfEnv DEF EnvInv
    <3>2. TagOf(forking(environ[p])) = TagOf(forking(e)) => forking(e) = forking(environ[p])
      BY <2>1, <3>1, TagsDiffer
    <3> QED BY <3>2, Zenon
  <2> QED BY <2>1, <2>2, Zenon
<1> QED BY <1>1, <1>2, <1>3, PTL DEF BuildSpec

-----------------------------------------------------------------------------
(* Scripts.                                                                 *)

Command == [cmd : {"clean", "compile", "compileAll", "compileOne", "typechain", "test"},
            skip : BOOLEAN]

\* What the steps below read and edit has an entry for every process and file, and a
\* process that runs has commands left.
ScriptInv ==
    /\ DOMAIN external = ToSet(Externals)
    /\ DOMAIN pc = Procs /\ DOMAIN held = Procs /\ DOMAIN left = Procs /\ DOMAIN script = Procs
    /\ \A p \in Procs : pc[p] # "idle" => script[p] \in Seq(Command) /\ script[p] # <<>>

\* What package.json says of a script.
LEMMA CommandsOfScripts ==
    ASSUME NEW s \in Scripts
    PROVE  Commands(s) \in Seq(Command) /\ Commands(s) # <<>>
<1>1. CASE s = "build"
  BY <1>1 DEF Commands, Command
<1>2. CASE s = "build:npm:latest"
  BY <1>2 DEF Commands, Command
<1>3. CASE s = "index:compile:one"
  BY <1>3 DEF Commands, Command
<1>4. CASE s \in {"test", "test:fork:ethereum", "test:fork:arbitrum", "chain", "chain:fork"}
  <2>1. Commands(s) = <<[cmd |-> "test", skip |-> FALSE]>>
    BY <1>4 DEF Commands
  <2>2. [cmd |-> "test", skip |-> FALSE] \in Command
    BY DEF Command
  <2> QED BY <2>1, <2>2
<1> QED BY <1>1, <1>2, <1>3, <1>4, BuildAssumption

\* A command begins at one of three steps.
FirstPc == {"clean", "compile", "list"}

LEMMA FirstSteps ==
    ASSUME NEW c \in Command
    PROVE  FirstStep(c) \in FirstPc
BY DEF FirstStep, Command, FirstPc

\* Only p's entries change.
Alone(p) ==
    /\ DOMAIN external' = ToSet(Externals)
    /\ DOMAIN pc' = Procs /\ DOMAIN held' = Procs /\ DOMAIN left' = Procs /\ DOMAIN script' = Procs
    /\ \A q \in Procs \ {p} : /\ pc'[q] = pc[q] /\ held'[q] = held[q] /\ left'[q] = left[q]
                              /\ script'[q] = script[q]

\* It is enough to look at p.
LEMMA ScriptMoves ==
    ASSUME NEW p \in Procs, ScriptInv, Alone(p),
           pc'[p] # "idle" => script'[p] \in Seq(Command) /\ script'[p] # <<>>
    PROVE  ScriptInv'
BY DEF ScriptInv, Alone

LEMMA StartMoves ==
    ASSUME NEW p \in Procs, ScriptInv, NEW s \in Scripts, StartScript(p, s)
    PROVE  ScriptInv' /\ Alone(p) /\ pc'[p] \in FirstPc
<1>1. /\ script' = [script EXCEPT ![p] = Commands(s)]
      /\ pc' = [pc EXCEPT ![p] = FirstStep(Head(Commands(s)))] /\ UNCHANGED <<external, held, left>>
  BY DEF StartScript, fileVars
<1>2. Alone(p)
  BY <1>1 DEF ScriptInv, Alone
<1>3. script'[p] = Commands(s) /\ pc'[p] = FirstStep(Head(Commands(s)))
  BY <1>1 DEF ScriptInv
<1>4. Head(Commands(s)) \in Command
  <2> HIDE DEF Command
  <2> QED BY CommandsOfScripts
<1> QED BY <1>2, <1>3, <1>4, FirstSteps, ScriptMoves, CommandsOfScripts

LEMMA ProceedMoves ==
    ASSUME NEW p \in Procs, ScriptInv, pc[p] # "idle", Proceed(p), UNCHANGED <<external, held, left>>
    PROVE  ScriptInv' /\ Alone(p) /\ pc'[p] \in FirstPc \cup {"idle"}
<1>1. script[p] \in Seq(Command) /\ script[p] # <<>>
  BY DEF ScriptInv
<1>2. Alone(p)
  BY DEF Proceed, ScriptInv, Alone
<1>3. ASSUME pc'[p] # "idle"
      PROVE  script'[p] \in Seq(Command) /\ script'[p] # <<>> /\ pc'[p] \in FirstPc
  <2>1. Len(script[p]) # 1 /\ script'[p] = Tail(script[p]) /\ pc'[p] = FirstStep(script[p][2])
    BY <1>3 DEF Proceed, ScriptInv
  <2>2. Len(script[p]) >= 2 /\ script[p][2] \in Command /\ Tail(script[p]) \in Seq(Command)
        /\ Tail(script[p]) # <<>>
    <3>1. PICK t : t = script[p]
      OBVIOUS
    <3>2. t \in Seq(Command) /\ t # <<>> /\ Len(t) # 1
      BY <1>1, <2>1, <3>1
    <3>3. Len(t) >= 2 /\ Len(t) \in Nat
      <4>1. Len(t) \in Nat \ {0}
        BY Zenon, <3>2, EmptySeq
      <4>2. PICK n \in Nat \ {0} : n = Len(t)
        BY Zenon, <4>1
      <4>3. n # 1
        BY Zenon, <3>2, <4>2
      <4>4. n >= 2 /\ n \in Nat
        BY <4>3
      <4> QED BY Zenon, <4>2, <4>4
    <3>4. t[2] \in Command
      BY <3>2, <3>3
    <3>5. Tail(t) \in Seq(Command) /\ Len(Tail(t)) = Len(t) - 1
      BY <3>2
    <3>6. Tail(t) # <<>>
      <4>1. Len(Tail(t)) # 0
        BY <3>3, <3>5
      <4> QED BY Zenon, <4>1, EmptySeq
    <3> QED BY <3>1, <3>3, <3>4, <3>5, <3>6
  <2> QED BY <2>1, <2>2, FirstSteps
<1> QED BY <1>2, <1>3, ScriptMoves

\* Steps within a command.
InnerPc == {"isolated", "read", "modified", "addGas", "restore", "removeGas", "mocha"}

LEMMA InnerMoves ==
    ASSUME NEW p \in Procs, ScriptInv, pc[p] # "idle", UNCHANGED script,
           DOMAIN external' = DOMAIN external,
           UNCHANGED pc \/ \E x \in InnerPc : pc' = [pc EXCEPT ![p] = x],
           UNCHANGED left \/ \E x : left' = [left EXCEPT ![p] = x],
           UNCHANGED held \/ \E x : held' = [held EXCEPT ![p] = x]
    PROVE  ScriptInv' /\ Alone(p)
<1>1. Alone(p)
  BY DEF ScriptInv, Alone
<1> QED BY <1>1, ScriptMoves DEF ScriptInv

LEMMA DyingMoves ==
    ASSUME NEW p \in Procs, ScriptInv, Dies(p)
    PROVE  ScriptInv' /\ Alone(p)
<1>1. Alone(p) /\ pc'[p] = "idle"
  BY DEF Dies, ScriptInv, Alone, fileVars
<1> QED BY <1>1, ScriptMoves

-----------------------------------------------------------------------------
(* Files.                                                                   *)

\* Files p has opened and not filled, and files it has written with gas and not opened since.
Opened(p) == IF pc[p] \in {"addGas", "removeGas"} THEN {Head(left[p])} ELSE {}
Modified(p) == held[p] \ (IF pc[p] = "removeGas" THEN {Head(left[p])} ELSE {})

\* Who answers for a file: whoever opened it, if it is torn; and if it holds gas, or the rest
\* of it, whoever has still to take the gas out; or the process that died over it.
Answered(f) ==
    /\ external[f] = "torn" => f \in owed \/ \E q \in Procs : f \in Opened(q)
    /\ external[f] \notin {"torn", "plain"} => f \in owed \/ \E q \in Procs : f \in Modified(q)

FilesInv == \A f \in ToSet(Externals) : Answered(f)

\* p neither gives up a file nor modifies one.
KeepsFiles(p) ==
    /\ UNCHANGED external
    /\ owed \subseteq owed'
    /\ Opened(p) \subseteq Opened(p)' \cup owed'
    /\ Modified(p) \subseteq Modified(p)' \cup owed'

\* p touches one file, and leaves it plain, opens it, fills it with gas, or overwrites the gas
\* of another.
TouchesFile(p) == \E f :
    /\ external' = [external EXCEPT ![f] = external'[f]]
    /\ owed \subseteq owed' \cup {f}
    /\ Opened(p) \subseteq Opened(p)' \cup {f}
    /\ Modified(p) \subseteq Modified(p)' \cup {f}
    /\ f \in DOMAIN external =>
         \/ external'[f] = "plain"
         \/ external'[f] = "torn" /\ f \in Opened(p)'
         \/ external'[f] = "gas" /\ f \in Modified(p)'
         \/ /\ external[f] \in {"gas", "garbled"} /\ external'[f] = "garbled"
            /\ f \notin Modified(p) /\ UNCHANGED owed

\* What another process answers for does not depend on p's entries.
LEMMA OthersAnswer ==
    ASSUME NEW p, Alone(p), NEW q \in Procs \ {p}
    PROVE  Opened(q)' = Opened(q) /\ Modified(q)' = Modified(q)
BY DEF Alone, Opened, Modified

LEMMA KeepingFiles ==
    ASSUME NEW p \in Procs, FilesInv, Alone(p), KeepsFiles(p)
    PROVE  FilesInv'
<1> SUFFICES ASSUME NEW f \in ToSet(Externals) PROVE Answered(f)'
  BY DEF FilesInv
<1>1. Answered(f)
  BY DEF FilesInv
<1> QED BY <1>1, OthersAnswer DEF Answered, KeepsFiles

LEMMA TouchingFile ==
    ASSUME NEW p \in Procs, ScriptInv, FilesInv, Alone(p), TouchesFile(p)
    PROVE  FilesInv'
<1> SUFFICES ASSUME NEW f \in ToSet(Externals) PROVE Answered(f)'
  BY DEF FilesInv
<1>1. PICK g :
        /\ external' = [external EXCEPT ![g] = external'[g]]
        /\ owed \subseteq owed' \cup {g}
        /\ Opened(p) \subseteq Opened(p)' \cup {g}
        /\ Modified(p) \subseteq Modified(p)' \cup {g}
        /\ g \in DOMAIN external =>
             \/ external'[g] = "plain"
             \/ external'[g] = "torn" /\ g \in Opened(p)'
             \/ external'[g] = "gas" /\ g \in Modified(p)'
             \/ /\ external[g] \in {"gas", "garbled"} /\ external'[g] = "garbled"
                /\ g \notin Modified(p) /\ UNCHANGED owed
  BY DEF TouchesFile
<1>2. Answered(f) /\ f \in DOMAIN external
  BY DEF FilesInv, ScriptInv
<1>3. CASE f # g
  <2>1. external'[f] = external[f]
    BY <1>1, <1>2, <1>3
  <2> QED BY <1>1, <1>2, <1>3, <2>1, OthersAnswer DEF Answered
<1>4. CASE f = g
  <2>1. CASE external'[g] = "plain"
    BY <1>4, <2>1 DEF Answered
  <2>2. CASE external'[g] = "torn" /\ g \in Opened(p)'
    BY <1>4, <2>2 DEF Answered
  <2>3. CASE external'[g] = "gas" /\ g \in Modified(p)'
    BY <1>4, <2>3 DEF Answered
  <2>4. CASE /\ external[g] \in {"gas", "garbled"} /\ external'[g] = "garbled"
             /\ g \notin Modified(p) /\ UNCHANGED owed
    <3>1. f \in owed \/ \E q \in Procs : f \in Modified(q)
      BY <1>2, <1>4, <2>4 DEF Answered
    <3>2. f \in owed' \/ \E q \in Procs : f \in Modified(q)'
      BY <1>4, <2>4, <3>1, OthersAnswer
    <3> QED BY <1>4, <2>4, <3>2 DEF Answered
  <2> QED BY <1>1, <1>2, <1>4, <2>1, <2>2, <2>3, <2>4
<1> QED BY <1>3, <1>4

\* A step that is not in the middle of a file.
LEMMA QuietStep ==
    ASSUME NEW p \in Procs, Alone(p), UNCHANGED <<external, owed, held>>,
           pc[p] \notin {"addGas", "removeGas"}, pc'[p] # "removeGas"
    PROVE  KeepsFiles(p)
BY DEF KeepsFiles, Opened, Modified

\* Starting, compiling, listing, reading, generating types, moving on to the next command or
\* to mocha.
LEMMA QuietSteps ==
    ASSUME NEW p \in Procs, ScriptInv,
           \/ \E s \in Scripts : StartScript(p, s)
           \/ Clean(p) \/ \E c \in Contracts : CompileOne(p, c)
           \/ CompileDone(p) \/ List(p) \/ CompileIsolated(p) \/ IsolatedDone(p)
           \/ ReadExternal(p) \/ RunSuper(p) \/ TypechainDone(p) \/ RunMocha(p)
    PROVE  ScriptInv' /\ Alone(p) /\ KeepsFiles(p)
<1>1. /\ UNCHANGED <<external, owed, held>>
      /\ pc[p] \notin {"addGas", "removeGas"}
  BY DEF StartScript, Clean, CompileOne, CompileDone, List, CompileIsolated, IsolatedDone,
         ReadExternal, RunSuper, TypechainDone, RunMocha, fileVars, procVars
<1>2. ScriptInv' /\ Alone(p) /\ pc'[p] # "removeGas"
  <2>1. CASE \E s \in Scripts : StartScript(p, s)
    BY <2>1, StartMoves DEF FirstPc
  <2>2. CASE Proceed(p) /\ pc[p] # "idle" /\ UNCHANGED left
    BY <1>1, <2>2, ProceedMoves DEF FirstPc
  <2>3. CASE /\ pc[p] # "idle" /\ UNCHANGED script
             /\ UNCHANGED pc \/ \E x \in InnerPc \ {"removeGas"} : pc' = [pc EXCEPT ![p] = x]
             /\ UNCHANGED left \/ \E x : left' = [left EXCEPT ![p] = x]
    <3>1. ScriptInv' /\ Alone(p)
      BY <1>1, <2>3, InnerMoves
    <3> QED BY <1>1, <2>3, <3>1 DEF ScriptInv
  <2>4. CASE Clean(p) \/ IsolatedDone(p) \/ RunMocha(p)
    BY <2>2, <2>4 DEF Clean, IsolatedDone, RunMocha
  <2>5. CASE \/ \E c \in Contracts : CompileOne(p, c)
             \/ CompileDone(p) \/ List(p) \/ CompileIsolated(p) \/ ReadExternal(p) \/ RunSuper(p)
    BY <2>3, <2>5 DEF CompileOne, CompileDone, List, CompileIsolated, ReadExternal, RunSuper,
                      procVars, InnerPc
  <2>6. CASE TypechainDone(p)
    BY <2>2, <2>3, <2>6 DEF TypechainDone, InnerPc
  <2> QED BY <2>1, <2>4, <2>5, <2>6
<1> QED BY <1>1, <1>2, QuietStep

\* Opening a file, and filling it.
LEMMA FileSteps ==
    ASSUME NEW p \in Procs, ScriptInv, TruncateExternal(p) \/ WriteGas(p) \/ WritePlain(p)
    PROVE  ScriptInv' /\ Alone(p) /\ TouchesFile(p)
<1> DEFINE f == Head(left[p])
<1>1. /\ \E x : external' = [external EXCEPT ![f] = x]
      /\ pc[p] # "idle" /\ UNCHANGED script
      /\ \E x \in InnerPc : pc' = [pc EXCEPT ![p] = x]
      /\ UNCHANGED left \/ \E x : left' = [left EXCEPT ![p] = x]
      /\ UNCHANGED held \/ \E x : held' = [held EXCEPT ![p] = x]
  BY DEF TruncateExternal, WriteGas, WritePlain, InnerPc
<1>2. ScriptInv' /\ Alone(p)
  <2>1. DOMAIN external' = DOMAIN external
    BY <1>1
  <2> QED BY <1>1, <2>1, InnerMoves
<1>3. external' = [external EXCEPT ![f] = external'[f]]
  BY <1>1
<1>4. CASE TruncateExternal(p)
  <2>1. /\ external' = [external EXCEPT ![f] = "torn"]
        /\ UNCHANGED <<left, held, owed>> /\ pc[p] \notin {"addGas", "removeGas"}
        /\ pc'[p] \in {"addGas", "removeGas"}
    BY <1>4 DEF TruncateExternal, ScriptInv
  <2>2. Opened(p)' = {f} /\ Opened(p) = {} /\ Modified(p) \subseteq Modified(p)' \cup {f}
    BY <2>1 DEF Opened, Modified
  <2>3. f \in DOMAIN external => external'[f] = "torn" /\ f \in Opened(p)'
    BY <2>1, <2>2
  <2> QED BY <1>2, <1>3, <2>1, <2>2, <2>3 DEF TouchesFile
<1>5. CASE WriteGas(p)
  <2>1. /\ external' = [external EXCEPT ![f] = "gas"]
        /\ held'[p] = held[p] \cup {f} /\ UNCHANGED owed
        /\ pc[p] = "addGas" /\ pc'[p] = "read"
    BY <1>5 DEF WriteGas, addGasToAbiMethods, ScriptInv
  <2>2. Opened(p) = {f} /\ Modified(p)' = held[p] \cup {f} /\ Modified(p) = held[p]
    BY <2>1 DEF Opened, Modified
  <2>3. f \in DOMAIN external => external'[f] = "gas" /\ f \in Modified(p)'
    BY <2>1, <2>2
  <2> QED BY <1>2, <1>3, <2>1, <2>2, <2>3 DEF TouchesFile
<1>6. CASE WritePlain(p)
  <2>1. /\ held'[p] = held[p] \ {f}
        /\ pc[p] = "removeGas" /\ pc'[p] = "restore"
    BY <1>6 DEF WritePlain, ScriptInv
  <2>2. Opened(p) = {f} /\ Modified(p)' = Modified(p) /\ f \notin Modified(p)
    BY <2>1 DEF Opened, Modified
  <2>3. CASE external[f] \in {"gas", "garbled"}
    <3>1. external' = [external EXCEPT ![f] = "garbled"] /\ UNCHANGED owed
      BY <1>6, <2>3 DEF WritePlain
    <3>2. f \in DOMAIN external => external'[f] = "garbled"
      BY <3>1
    <3> QED BY <1>2, <1>3, <2>2, <2>3, <3>1, <3>2 DEF TouchesFile
  <2>4. CASE external[f] \notin {"gas", "garbled"}
    <3>1. external' = [external EXCEPT ![f] = "plain"] /\ owed' = owed \ {f}
      BY <1>6, <2>4 DEF WritePlain, removeGasFromAbiMethods
    <3>2. f \in DOMAIN external => external'[f] = "plain"
      BY <3>1
    <3> QED BY <1>2, <1>3, <2>2, <3>1, <3>2 DEF TouchesFile
  <2> QED BY <2>3, <2>4
<1> QED BY <1>2, <1>4, <1>5, <1>6

\* A process that dies leaves what it owed behind.
LEMMA DyingOwes ==
    ASSUME NEW p \in Procs, ScriptInv, Throws(p) \/ Killed(p)
    PROVE  ScriptInv' /\ Alone(p) /\ KeepsFiles(p)
<1>1. Dies(p)
  BY DEF Throws, Killed
<1>2. UNCHANGED external /\ owed' = owed \cup Owes(p)
  BY <1>1 DEF Dies, fileVars
<1>3. Opened(p) \subseteq Owes(p) /\ Modified(p) \subseteq Owes(p)
  BY DEF Opened, Modified, Owes
<1> QED BY <1>1, <1>2, <1>3, DyingMoves DEF KeepsFiles

\* Files between a modification and its restoration are accounted for, however the writes of
\* several processes overlap.
THEOREM ExternalsAccountedFor == BuildSpec => []ExternalsRestored
<1>1. BuildInit => ScriptInv /\ FilesInv
  <2> SUFFICES ASSUME BuildInit PROVE ScriptInv /\ FilesInv
    OBVIOUS
  <2>1. external = [f \in ToSet(Externals) |-> "plain"]
    BY Zenon DEF BuildInit
  <2>2. ScriptInv
    BY <2>1 DEF BuildInit, ScriptInv
  <2> QED BY <2>1, <2>2 DEF FilesInv, Answered
<1>2. ScriptInv /\ FilesInv /\ [BuildNext]_buildVars => (ScriptInv /\ FilesInv)'
  <2> SUFFICES ASSUME ScriptInv, FilesInv, [BuildNext]_buildVars
               PROVE  ScriptInv' /\ FilesInv'
    OBVIOUS
  <2>1. CASE UNCHANGED <<external, script, pc, left, held, owed>>
    BY <2>1 DEF ScriptInv, FilesInv, Answered, Opened, Modified
  <2>2. CASE \/ UNCHANGED buildVars \/ StopNode
             \/ (\E e \in DotEnvs : EditDotEnv(e)) \/ \E s \in Scripts : StartNode(s)
    BY <2>1, <2>2 DEF buildVars, fileVars, procVars, EditDotEnv, StartNode, StopNode
  <2>3. ASSUME NEW p \in Procs,
               (\E s \in Scripts : StartScript(p, s)) \/ ProcStep(p) \/ Killed(p)
        PROVE  ScriptInv' /\ Alone(p) /\ (KeepsFiles(p) \/ TouchesFile(p))
    BY <2>3, QuietSteps, FileSteps, DyingOwes DEF ProcStep
  <2> QED BY <2>2, <2>3, KeepingFiles, TouchingFile DEF BuildNext
<1>3. FilesInv => ExternalsRestored
  BY DEF FilesInv, Answered, Opened, Modified, Owes, ExternalsRestored
<1> QED BY <1>1, <1>2, <1>3, PTL DEF BuildSpec

-----------------------------------------------------------------------------
(* The fixtures.                                                            *)

\* The fields that hold a contract built for a controller, and that contract.
BuiltFor == [issuanceModule |-> "BasicIssuanceModule", integrationRegistry |-> "IntegrationRegistry",
             factory |-> "SetTokenCreator", priceOracle |-> "PriceOracle", setValuer |-> "SetValuer",
             streamingFeeModule |-> "StreamingFeeModule",
             navIssuanceModule |-> "CustomOracleNavIssuanceModule"]

\* Field f has been stored by the initialize that runs, or that ran to its end.
Stored(f) == ready \/ \E k \in DOMAIN InitializeSteps : k < step /\ InitializeSteps[k].field = f

\* What the fixture's controller was told.
Registered ==
    LET ctl == controllers[fixture["controller"]]
    IN  /\ fixture["controller"] \in DOMAIN controllers
        /\ ctl.factories = {fixture["factory"]}
        /\ ctl.modules = {fixture["issuanceModule"], fixture["streamingFeeModule"],
                          fixture["navIssuanceModule"]}
        /\ ctl.resourceId[0] = fixture["integrationRegistry"]
        /\ ctl.resourceId[1] = fixture["priceOracle"]
        /\ ctl.resourceId[2] = fixture["setValuer"]

\* The contract at a was built for the fixture's controller.
OfThisSystem(a, kind) ==
    a[1] = kind /\ a[2] \in DOMAIN deployed /\ ControllerOf(a) = fixture["controller"]

\* What a failed initialize has left does not matter, as every step stores its contract again.
DeployInv ==
    /\ \E T : deployed \in Seq(T)
    /\ DOMAIN fixture = Fields
    /\ step \in 0 .. Len(InitializeSteps) + 1
    /\ ready => step = 0
    /\ \A f \in DOMAIN BuiltFor : Stored(f) => OfThisSystem(fixture[f], BuiltFor[f])
    /\ ready => Registered
    /\ \A a \in DOMAIN controllers :
         DOMAIN controllers[a] = {"factories", "modules", "resourceId", "sets"}

\* The first of two tables decides, the second where it has no entry.
LEMMA InFirst ==
    ASSUME NEW f, NEW g, NEW c \in DOMAIN f
    PROVE  c \in DOMAIN (f ++ g) /\ (f ++ g)[c] = f[c]
BY Zenon DEF ++

\* A contract of either table is in both together.
LEMMA MergeDomain ==
    ASSUME NEW f, NEW g PROVE DOMAIN (f ++ g) = DOMAIN f \cup DOMAIN g
BY Zenon DEF ++

LEMMA InSecond ==
    ASSUME NEW f, NEW g, NEW c
    PROVE  c \in DOMAIN g /\ c \notin DOMAIN f => c \in DOMAIN (f ++ g) /\ (f ++ g)[c] = g[c]
<1>1. DOMAIN (f ++ g) = DOMAIN f \cup DOMAIN g
  BY Zenon, MergeDomain
<1>2. c \in DOMAIN f \cup DOMAIN g => (f ++ g)[c] = IF c \in DOMAIN f THEN f[c] ELSE g[c]
  BY Zenon DEF ++
<1>3. c \in DOMAIN g => c \in DOMAIN f \cup DOMAIN g
  OBVIOUS
<1>4. c \in DOMAIN f \cup DOMAIN g /\ c \notin DOMAIN f => (f ++ g)[c] = g[c]
  BY <1>2
<1> QED BY <1>1, <1>3, <1>4

\* The contracts that initialize builds for a controller are told of one.
ToldOf(table, c) == c \in DOMAIN table /\ \E i \in DOMAIN table[c] : table[c][i] = "controller"

LEMMA CoreContracts ==
    DOMAIN CoreDeploys = {"SetTokenCreator", "IntegrationRegistry", "SetValuer", "Controller",
                          "SetToken", "PriceOracle"}
BY ZenonT(60) DEF CoreDeploys, OfEach, ++

LEMMA ToldInCore ==
    ASSUME NEW c \in {"IntegrationRegistry", "SetTokenCreator", "PriceOracle", "SetValuer"}
    PROVE  ToldOf(CoreDeploys, c)
<1> DEFINE few == OfEach({"SetTokenCreator", "IntegrationRegistry", "SetValuer"}, <<"controller">>)
           others == [Controller |-> <<"feeRecipient">>,
              SetToken |-> <<"components", "units", "modules", "controller", "manager", "name",
                  "symbol">>,
              PriceOracle |-> <<"controller", "masterQuoteAsset", "adapters", "assetOnes",
                  "assetTwos", "oracles">>]
<1>1. CoreDeploys = few ++ others
  BY DEF CoreDeploys
<1>2. c \in DOMAIN few => few[c] = <<"controller">>
  BY DEF OfEach
<1>3. c \in DOMAIN few \/ c = "PriceOracle"
  BY DEF OfEach
<1>4. "PriceOracle" \in DOMAIN others /\ "PriceOracle" \notin DOMAIN few
  BY DEF OfEach
<1>5. 1 \in DOMAIN others["PriceOracle"] /\ others["PriceOracle"][1] = "controller"
  OBVIOUS
<1> HIDE DEF few, others
<1>6. CASE c \in DOMAIN few
  <2>1. c \in DOMAIN CoreDeploys /\ CoreDeploys[c] = <<"controller">>
    BY Zenon, <1>1, <1>2, <1>6, InFirst
  <2> QED BY <2>1 DEF ToldOf
<1>7. CASE c = "PriceOracle"
  <2>1. c \in DOMAIN CoreDeploys /\ CoreDeploys[c] = others["PriceOracle"]
    BY Zenon, <1>1, <1>4, <1>7, InSecond
  <2> QED BY <1>5, <2>1 DEF ToldOf
<1> QED BY <1>3, <1>6, <1>7

LEMMA ToldInModules ==
    ASSUME NEW c \in {"BasicIssuanceModule", "StreamingFeeModule", "CustomOracleNavIssuanceModule"}
    PROVE  ToldOf(ModuleDeploys, c) /\ c \notin DOMAIN CoreDeploys
<1> DEFINE few == OfEach({"BasicIssuanceModule", "IssuanceModule", "DebtIssuanceModule",
               "DebtIssuanceModuleV2", "SlippageIssuanceModule", "AmmModule",
               "StreamingFeeModule", "AirdropModule", "TradeModule", "ClaimModule",
               "StakingModule", "RebasingComponentModule", "GovernanceModule"}, <<"controller">>)
           two == OfEach({"WrapModule", "CustomOracleNavIssuanceModule", "GeneralIndexModule"},
                         <<"controller", "weth">>)
           others == [DebtIssuanceModuleV3 |-> <<"controller", "tokenTransferBuffer">>,
              SingleIndexModule |-> <<"controller", "weth", "uniswapRouter", "sushiswapRouter",
                  "balancerProxy">>]
<1>1. ModuleDeploys = (few ++ two) ++ others
  BY DEF ModuleDeploys
<1>2. \/ c \in DOMAIN few /\ few[c] = <<"controller">>
      \/ c \in DOMAIN two /\ two[c] = <<"controller", "weth">> /\ c \notin DOMAIN few
  BY DEF OfEach
<1> HIDE DEF few, two, others
<1>3. \/ c \in DOMAIN ModuleDeploys /\ ModuleDeploys[c] = <<"controller">>
      \/ c \in DOMAIN ModuleDeploys /\ ModuleDeploys[c] = <<"controller", "weth">>
  <2>1. CASE c \in DOMAIN few /\ few[c] = <<"controller">>
    <3>1. c \in DOMAIN (few ++ two) /\ (few ++ two)[c] = few[c]
      BY Zenon, <2>1, InFirst
    <3>2. c \in DOMAIN ModuleDeploys /\ ModuleDeploys[c] = (few ++ two)[c]
      BY Zenon, <1>1, <3>1, InFirst
    <3> QED BY Zenon, <2>1, <3>1, <3>2
  <2>2. CASE c \in DOMAIN two /\ two[c] = <<"controller", "weth">> /\ c \notin DOMAIN few
    <3>1. c \in DOMAIN (few ++ two) /\ (few ++ two)[c] = two[c]
      BY ZenonT(60), <2>2, InSecond
    <3>2. c \in DOMAIN ModuleDeploys /\ ModuleDeploys[c] = (few ++ two)[c]
      BY Zenon, <1>1, <3>1, InFirst
    <3> QED BY Zenon, <2>2, <3>1, <3>2
  <2> QED BY Zenon, <1>2, <2>1, <2>2
<1>4. ToldOf(ModuleDeploys, c)
  BY <1>3 DEF ToldOf
<1>5. c \notin DOMAIN CoreDeploys
  BY CoreContracts
<1> QED BY <1>4, <1>5

LEMMA TakesController ==
    ASSUME NEW f \in DOMAIN BuiltFor
    PROVE  \E i \in DOMAIN Arguments(BuiltFor[f]) : Arguments(BuiltFor[f])[i] = "controller"
<1> DEFINE c == BuiltFor[f]
<1>1. \/ c \in {"IntegrationRegistry", "SetTokenCreator", "PriceOracle", "SetValuer"}
      \/ c \in {"BasicIssuanceModule", "StreamingFeeModule", "CustomOracleNavIssuanceModule"}
  BY DEF BuiltFor
<1> HIDE DEF c
<1>2. ToldOf(CoreDeploys ++ ModuleDeploys, c)
  <2>1. CASE ToldOf(CoreDeploys, c)
    <3>1. /\ c \in DOMAIN (CoreDeploys ++ ModuleDeploys)
          /\ (CoreDeploys ++ ModuleDeploys)[c] = CoreDeploys[c]
      BY Zenon, <2>1, InFirst DEF ToldOf
    <3> QED BY Zenon, <2>1, <3>1 DEF ToldOf
  <2>2. CASE ToldOf(ModuleDeploys, c) /\ c \notin DOMAIN CoreDeploys
    <3>1. /\ c \in DOMAIN (CoreDeploys ++ ModuleDeploys)
          /\ (CoreDeploys ++ ModuleDeploys)[c] = ModuleDeploys[c]
      <4>1. c \in DOMAIN ModuleDeploys /\ c \notin DOMAIN CoreDeploys
        BY <2>2 DEF ToldOf
      <4> QED BY Zenon, <4>1, InSecond
    <3> QED BY Zenon, <2>2, <3>1 DEF ToldOf
  <2> QED BY Zenon, <1>1, <2>1, <2>2, ToldInCore, ToldInModules
<1>3. ASSUME NEW g, NEW h, ToldOf(g, c) PROVE ToldOf(g ++ h, c)
  <2>1. c \in DOMAIN (g ++ h) /\ (g ++ h)[c] = g[c]
    BY Zenon, <1>3, InFirst DEF ToldOf
  <2> QED BY Zenon, <1>3, <2>1 DEF ToldOf
<1>4. ToldOf(Deploys, c)
  BY Zenon, <1>2, <1>3 DEF Deploys
<1> QED BY Zenon, <1>4 DEF ToldOf, Arguments, c

\* deployed only grows, and keeps what it has.
LEMMA DeployedGrows ==
    ASSUME NEW T, deployed \in Seq(T), NEW d, deployed' = Append(deployed, d)
    PROVE  /\ \E U : deployed' \in Seq(U)
           /\ Len(deployed) \in Nat
           /\ DOMAIN deployed' = DOMAIN deployed \cup {Len(deployed) + 1}
           /\ deployed'[Len(deployed) + 1] = d
           /\ \A n \in DOMAIN deployed : deployed'[n] = deployed[n]
<1> DEFINE U == T \cup {d}
<1>1. deployed \in Seq(U) /\ d \in U
  BY SeqMonotonic
<1> HIDE DEF U
<1> QED BY <1>1, AppendProperties

\* initialize stores the controller first, and in every other field the contract it is for.
LEMMA StepFacts ==
    ASSUME NEW k \in DOMAIN InitializeSteps
    PROVE  /\ k \in 1 .. 11
           /\ InitializeSteps[k].field \in Fields
           /\ InitializeSteps[k].field = "controller" <=> k = 1
           /\ InitializeSteps[k].field \in DOMAIN BuiltFor =>
                InitializeSteps[k].contract = BuiltFor[InitializeSteps[k].field]
BY DEF InitializeSteps, Fields, BuiltFor

LEMMA AllStored ==
    /\ Len(InitializeSteps) = 11 /\ DOMAIN InitializeSteps = 1 .. 11
    /\ DOMAIN BuiltFor \subseteq Fields /\ "controller" \in Fields /\ "controller" \notin DOMAIN BuiltFor
    /\ \A f \in DOMAIN BuiltFor : \E k \in DOMAIN InitializeSteps : InitializeSteps[k].field = f
BY DEF InitializeSteps, Fields, BuiltFor

\* A contract that is built for this system stays so.
LEMMA StaysOfThisSystem ==
    ASSUME NEW a, NEW kind, OfThisSystem(a, kind), fixture'["controller"] = fixture["controller"],
           \A n \in DOMAIN deployed : n \in DOMAIN deployed' /\ deployed'[n] = deployed[n]
    PROVE  OfThisSystem(a, kind)'
<1>1. a[2] \in DOMAIN deployed' /\ deployed'[a[2]] = deployed[a[2]]
  BY DEF OfThisSystem
<1>2. ControllerOf(a)' = ControllerOf(a)
  BY <1>1 DEF ControllerOf
<1> QED BY <1>1, <1>2 DEF OfThisSystem

\* What DeployContract deploys with a controller's address in its arguments is.
LEMMA BuiltOfThisSystem ==
    ASSUME DeployInv, NEW f \in DOMAIN BuiltFor, DeployContract(BuiltFor[f]),
           fixture'["controller"] = fixture["controller"],
           NEW a, a = Address(BuiltFor[f])
    PROVE  OfThisSystem(a, BuiltFor[f])'
<1> DEFINE c == BuiltFor[f]
           args == [i \in DOMAIN Arguments(c) |-> AddressFor(Arguments(c)[i])]
           d == [kind |-> c, args |-> args]
<1>1. PICK T : deployed \in Seq(T)
  BY DEF DeployInv
<1>2. deployed' = Append(deployed, d)
  BY DEF DeployContract
<1>3. \E i \in DOMAIN Arguments(c) : Arguments(c)[i] = "controller"
  BY TakesController
<1>4. d.kind = c /\ d.args = args /\ DOMAIN args = DOMAIN Arguments(c)
  OBVIOUS
<1>5. PICK j \in DOMAIN Arguments(c) :
        /\ j = CHOOSE i \in DOMAIN Arguments(c) : Arguments(c)[i] = "controller"
        /\ Arguments(c)[j] = "controller"
  BY <1>3
<1>6. args[j] = fixture["controller"]
  BY <1>5, AllStored DEF AddressFor
<1> HIDE DEF d
<1>7. a[1] = c /\ a[2] = Len(deployed) + 1
  BY DEF Address
<1>8. a[2] \in DOMAIN deployed' /\ deployed'[a[2]] = d
  BY <1>1, <1>2, <1>7, DeployedGrows
<1>9. ControllerOf(a)' = d.args[CHOOSE i \in DOMAIN d.args : Arguments(d.kind)[i] = "controller"]
  BY <1>8 DEF ControllerOf
<1> HIDE DEF c, args
<1>10. ControllerOf(a)' = args[j]
  BY <1>4, <1>5, <1>9
<1> QED BY <1>6, <1>7, <1>8, <1>10 DEF OfThisSystem, c

LEMMA InitEstablishesDeployInv == DeployInit => DeployInv
<1> SUFFICES ASSUME DeployInit PROVE DeployInv
  OBVIOUS
<1>1. deployed \in Seq({})
  BY EmptySeq DEF DeployInit
<1>2. DOMAIN controllers = {}
  BY DEF DeployInit
<1>3. \A f : ~ Stored(f)
  BY AllStored DEF DeployInit, Stored
<1> QED BY <1>1, <1>2, <1>3, AllStored DEF DeployInit, DeployInv

\* Whatever leaves the fixture alone and only adds contracts keeps what was stored.
LEMMA FixtureStays ==
    ASSUME DeployInv, fixture' = fixture,
           \A n \in DOMAIN deployed : n \in DOMAIN deployed' /\ deployed'[n] = deployed[n],
           \A f \in DOMAIN BuiltFor : Stored(f)' => Stored(f)
    PROVE  \A f \in DOMAIN BuiltFor : Stored(f)' => OfThisSystem(fixture[f], BuiltFor[f])'
<1> SUFFICES ASSUME NEW f \in DOMAIN BuiltFor, Stored(f)'
             PROVE  OfThisSystem(fixture[f], BuiltFor[f])'
  OBVIOUS
<1>1. OfThisSystem(fixture[f], BuiltFor[f])
  BY DEF DeployInv
<1>2. PICK a : a = fixture[f]
  OBVIOUS
<1>3. OfThisSystem(a, BuiltFor[f])'
  BY <1>1, <1>2, StaysOfThisSystem
<1> QED BY <1>2, <1>3 DEF OfThisSystem

LEMMA InitializeStepKeepsInv == DeployInv /\ InitializeStep => DeployInv'
<1> SUFFICES ASSUME DeployInv, InitializeStep PROVE DeployInv'
  OBVIOUS
<1> DEFINE now == InitializeSteps[step]
<1>1. /\ step \in 1 .. 11 /\ now.field \in Fields /\ step \in DOMAIN InitializeSteps
      /\ now.field = "controller" <=> step = 1
      /\ now.field \in DOMAIN BuiltFor => now.contract = BuiltFor[now.field]
  BY StepFacts DEF InitializeStep
<1>2. /\ DeployContract(now.contract) /\ step' = step + 1
      /\ fixture' = [fixture EXCEPT ![now.field] = Address(now.contract)]
      /\ ready' = ready /\ controllers' = controllers
  BY DEF InitializeStep
<1> HIDE DEF now
<1>3. ready = FALSE
  BY <1>1 DEF DeployInv
<1>4. PICK T, d : deployed \in Seq(T) /\ deployed' = Append(deployed, d)
  BY <1>2 DEF DeployInv, DeployContract
<1>5. /\ \E U : deployed' \in Seq(U)
      /\ \A n \in DOMAIN deployed : n \in DOMAIN deployed' /\ deployed'[n] = deployed[n]
  BY <1>4, DeployedGrows
<1>6. ASSUME NEW f \in DOMAIN BuiltFor, Stored(f)'
      PROVE  OfThisSystem(fixture[f], BuiltFor[f])'
  <2>1. PICK k \in DOMAIN InitializeSteps : k < step + 1 /\ InitializeSteps[k].field = f
    BY <1>2, <1>3, <1>6 DEF Stored
  <2>2. k \in 1 .. 11 /\ f # "controller"
    BY StepFacts, AllStored
  <2>3. step # 1
    BY <2>1, <2>2, StepFacts
  <2>4. fixture'["controller"] = fixture["controller"]
    BY <1>1, <1>2, <2>3, AllStored DEF DeployInv
  <2>5. CASE f = now.field
    <3>1. PICK a : a = Address(BuiltFor[f])
      OBVIOUS
    <3>2. OfThisSystem(a, BuiltFor[f])'
      BY <1>1, <1>2, <2>4, <2>5, <3>1, BuiltOfThisSystem
    <3>3. fixture'[f] = a
      BY <1>1, <1>2, <2>5, <3>1, AllStored DEF DeployInv
    <3> QED BY <3>2, <3>3 DEF OfThisSystem
  <2>6. CASE f # now.field
    <3>1. k < step
      BY <1>1, <2>1, <2>2, <2>6 DEF now
    <3>2. OfThisSystem(fixture[f], BuiltFor[f])
      BY <2>1, <3>1 DEF DeployInv, Stored
    <3>3. PICK a : a = fixture[f]
      OBVIOUS
    <3>4. OfThisSystem(a, BuiltFor[f])'
      BY <1>5, <2>4, <3>2, <3>3, StaysOfThisSystem
    <3>5. fixture'[f] = a
      BY <1>2, <2>6, <3>3, AllStored DEF DeployInv
    <3> QED BY <3>4, <3>5 DEF OfThisSystem
  <2> QED BY <2>5, <2>6
<1>7. DOMAIN fixture' = Fields /\ step' \in 0 .. Len(InitializeSteps) + 1
  BY <1>1, <1>2, AllStored DEF DeployInv
<1> QED BY <1>2, <1>3, <1>5, <1>6, <1>7 DEF DeployInv

\* The three resource ids, in the order of ResourceIdentifier.
LEMMA ResourcesByTheirIds ==
    ASSUME ControllerInitialize
    PROVE  LET me == fixture["controller"]
           IN  /\ DOMAIN controllers' = DOMAIN controllers \cup {me}
               /\ \A a \in DOMAIN controllers : a # me => controllers'[a] = controllers[a]
               /\ DOMAIN controllers'[me] = {"factories", "modules", "resourceId", "sets"}
               /\ controllers'[me].factories = {fixture["factory"]}
               /\ controllers'[me].modules = {fixture["issuanceModule"], fixture["streamingFeeModule"],
                                              fixture["navIssuanceModule"]}
               /\ controllers'[me].resourceId[0] = fixture["integrationRegistry"]
               /\ controllers'[me].resourceId[1] = fixture["priceOracle"]
               /\ controllers'[me].resourceId[2] = fixture["setValuer"]
<1> DEFINE me == fixture["controller"]
           ids == <<0, 1, 2>>
           byId == [id \in ToSet(ids) |-> resources[CHOOSE i \in DOMAIN ids : ids[i] = id]]
           ctl == [factories |-> {fixture["factory"]},
                   modules |-> {fixture["issuanceModule"], fixture["streamingFeeModule"],
                                fixture["navIssuanceModule"]},
                   resourceId |-> byId, sets |-> {}]
<1>1. controllers' = OfEach({me}, ctl) ++ controllers
  BY DEF ControllerInitialize
<1>2. DOMAIN ids = 1 .. 3 /\ ids[1] = 0 /\ ids[2] = 1 /\ ids[3] = 2 /\ ToSet(ids) = {0, 1, 2}
  BY DEF ToSet
<1>3. /\ (CHOOSE i \in 1 .. 3 : ids[i] = 0) = 1
      /\ (CHOOSE i \in 1 .. 3 : ids[i] = 1) = 2
      /\ (CHOOSE i \in 1 .. 3 : ids[i] = 2) = 3
  BY <1>2
<1>4. /\ resources[1] = fixture["integrationRegistry"] /\ resources[2] = fixture["priceOracle"]
      /\ resources[3] = fixture["setValuer"]
  BY DEF resources
<1>5. /\ byId[0] = fixture["integrationRegistry"] /\ byId[1] = fixture["priceOracle"]
      /\ byId[2] = fixture["setValuer"]
  <2> HIDE DEF ids
  <2> QED BY <1>2, <1>3, <1>4
<1> HIDE DEF byId
<1>6. /\ DOMAIN controllers' = {me} \cup DOMAIN controllers
      /\ controllers'[me] = ctl
      /\ \A a \in DOMAIN controllers : a # me => controllers'[a] = controllers[a]
  <2> HIDE DEF ctl
  <2> QED BY <1>1 DEF OfEach, ++
<1> QED BY <1>5, <1>6

LEMMA ControllerInitializeKeepsInv == DeployInv /\ ControllerInitialize => DeployInv'
<1> SUFFICES ASSUME DeployInv, ControllerInitialize PROVE DeployInv'
  OBVIOUS
<1>1. /\ step = 12 /\ step' = 0 /\ ready' = TRUE /\ deployed' = deployed /\ fixture' = fixture
  BY AllStored DEF ControllerInitialize
<1>2. \A f \in DOMAIN BuiltFor : Stored(f)' => Stored(f)
  BY <1>1, AllStored DEF Stored
<1>3. \A f \in DOMAIN BuiltFor : Stored(f)' => OfThisSystem(fixture[f], BuiltFor[f])'
  BY <1>1, <1>2, FixtureStays
<1>4. Registered'
  BY <1>1, ResourcesByTheirIds DEF Registered
<1>5. \A a \in DOMAIN controllers' :
        DOMAIN controllers'[a] = {"factories", "modules", "resourceId", "sets"}
  BY ResourcesByTheirIds DEF DeployInv
<1> QED BY <1>1, <1>3, <1>4, <1>5 DEF DeployInv

\* The controller of the factory registers the set, and keeps the rest of what it knows.
LEMMA SetIsRegistered ==
    ASSUME DeployInv, NEW module, createSetToken(module)
    PROVE  LET ctl == ControllerOf(fixture["factory"])
           IN  /\ ctl \in DOMAIN controllers /\ DOMAIN controllers' = DOMAIN controllers
               /\ Address("SetToken") \in controllers'[ctl].sets
               /\ \A a \in DOMAIN controllers :
                    /\ DOMAIN controllers'[a] = DOMAIN controllers[a]
                    /\ controllers'[a].factories = controllers[a].factories
                    /\ controllers'[a].modules = controllers[a].modules
                    /\ controllers'[a].resourceId = controllers[a].resourceId
<1> DEFINE ctl == ControllerOf(fixture["factory"])
           grown == controllers[ctl].sets \cup {Address("SetToken")}
<1>1. /\ ctl \in DOMAIN controllers
      /\ controllers' = [controllers EXCEPT ![ctl].sets = grown]
  BY DEF createSetToken
<1>2. /\ \A a \in DOMAIN controllers :
           DOMAIN controllers[a] = {"factories", "modules", "resourceId", "sets"}
      /\ Address("SetToken") \in grown
  BY DEF DeployInv
<1> HIDE DEF ctl, grown
<1>3. /\ DOMAIN controllers' = DOMAIN controllers
      /\ controllers'[ctl] = [controllers[ctl] EXCEPT !.sets = grown]
      /\ \A a \in DOMAIN controllers : a # ctl => controllers'[a] = controllers[a]
  BY <1>1
<1>4. controllers'[ctl].sets = grown
  BY <1>1, <1>2, <1>3
<1>5. \A a \in DOMAIN controllers :
        /\ DOMAIN controllers'[a] = DOMAIN controllers[a]
        /\ controllers'[a].factories = controllers[a].factories
        /\ controllers'[a].modules = controllers[a].modules
        /\ controllers'[a].resourceId = controllers[a].resourceId
  BY <1>1, <1>2, <1>3
<1> QED BY <1>1, <1>2, <1>3, <1>4, <1>5 DEF ctl

LEMMA CreateKeepsInv ==
    ASSUME DeployInv, NEW module, createSetToken(module)
    PROVE  DeployInv'
<1>1. PICK T, d : deployed \in Seq(T) /\ deployed' = Append(deployed, d)
  BY DEF DeployInv, createSetToken
<1>2. /\ \E U : deployed' \in Seq(U)
      /\ \A n \in DOMAIN deployed : n \in DOMAIN deployed' /\ deployed'[n] = deployed[n]
  BY <1>1, DeployedGrows
<1>3. fixture' = fixture /\ step' = step /\ ready' = ready
  BY DEF createSetToken
<1>4. \A f \in DOMAIN BuiltFor : Stored(f)' => OfThisSystem(fixture[f], BuiltFor[f])'
  BY <1>2, <1>3, FixtureStays DEF Stored
<1>5. /\ \A a \in DOMAIN controllers' :
           DOMAIN controllers'[a] = {"factories", "modules", "resourceId", "sets"}
      /\ Registered => Registered'
  BY <1>3, SetIsRegistered DEF DeployInv, Registered
<1> QED BY <1>2, <1>3, <1>4, <1>5 DEF DeployInv

LEMMA OthersKeepInv ==
    ASSUME DeployInv,
           StartInitialize \/ InitializeFails \/ (\E c \in DOMAIN Deploys : DeployBySide(c))
             \/ UNCHANGED deployVars
    PROVE  DeployInv'
<1>1. /\ \E U : deployed' \in Seq(U)
      /\ \A n \in DOMAIN deployed : n \in DOMAIN deployed' /\ deployed'[n] = deployed[n]
  <2>1. CASE deployed' = deployed
    BY <2>1 DEF DeployInv
  <2>2. CASE \E d : deployed' = Append(deployed, d)
    BY <2>2, DeployedGrows DEF DeployInv
  <2> QED BY <2>1, <2>2 DEF StartInitialize, InitializeFails, DeployBySide, DeployContract, deployVars
<1>2. fixture' = fixture /\ controllers' = controllers
  BY DEF StartInitialize, InitializeFails, DeployBySide, deployVars
<1>3. /\ ready' => ready /\ step' = step
      /\ step' \in {0, 1, step}
  BY DEF DeployInv, StartInitialize, InitializeFails, DeployBySide, deployVars
<1>4. \A f \in DOMAIN BuiltFor : Stored(f)' => Stored(f)
  BY <1>3, AllStored DEF Stored, DeployInv
<1>5. \A f \in DOMAIN BuiltFor : Stored(f)' => OfThisSystem(fixture[f], BuiltFor[f])'
  BY <1>1, <1>2, <1>4, FixtureStays
<1>6. Registered => Registered'
  BY <1>2 DEF Registered
<1> QED BY <1>1, <1>2, <1>3, <1>5, <1>6, AllStored DEF DeployInv

LEMMA DeployNextKeepsInv == DeployInv /\ [DeployNext]_deployVars => DeployInv'
BY InitializeStepKeepsInv, ControllerInitializeKeepsInv, CreateKeepsInv, OthersKeepInv
  DEF DeployNext

LEMMA SpecDeployInv == DeploySpec => []DeployInv
BY InitEstablishesDeployInv, DeployNextKeepsInv, PTL DEF DeploySpec

\* Fixtures (utils/fixtures/systemFixture.ts): after initialize has returned, however often it
\* was called, wherever it failed before, and whatever was deployed and created in between,
\* the fixture is one system.
THEOREM FixtureIsOneSystem == DeploySpec => []OneSystem
<1>1. DeployInv => OneSystem
  <2> SUFFICES ASSUME DeployInv, ready PROVE OneSystem
    BY DEF OneSystem
  <2>1. \A f \in DOMAIN BuiltFor : OfThisSystem(fixture[f], BuiltFor[f])
    BY DEF DeployInv, Stored
  <2>2. DOMAIN BuiltFor = {"issuanceModule", "integrationRegistry", "factory", "priceOracle",
                           "setValuer", "streamingFeeModule", "navIssuanceModule"}
    BY DEF BuiltFor
  <2>3. Registered
    BY DEF DeployInv
  <2>4. \A f \in DOMAIN BuiltFor : /\ ControllerOf(fixture[f]) = fixture["controller"]
                                   /\ fixture[f] \in {fixture[g] : g \in Fields}
    BY <2>1, AllStored DEF OfThisSystem
  <2>5. /\ fixture["integrationRegistry"][1] = "IntegrationRegistry"
        /\ fixture["priceOracle"][1] = "PriceOracle"
        /\ fixture["setValuer"][1] = "SetValuer"
    BY <2>1, <2>2 DEF OfThisSystem, BuiltFor
  <2>6. ASSUME NEW x, NEW y, NEW z PROVE ToSet(<<x, y, z>>) = {x, y, z}
    BY DEF ToSet
  <2> DEFINE ctl == controllers[fixture["controller"]]
  <2>7. ctl.factories \cup ctl.modules \cup ToSet(<<ctl.resourceId[0], ctl.resourceId[1], ctl.resourceId[2]>>)
          = {fixture[f] : f \in DOMAIN BuiltFor}
    BY <2>2, <2>3, <2>6 DEF Registered
  <2> QED BY <2>3, <2>4, <2>5, <2>7 DEF OneSystem, Registered
<1> QED BY <1>1, SpecDeployInv, PTL

\* createSetToken of the fixture: the set it returns is registered with the controller the set
\* asks, also while an initialize has failed, and with the fixture's own once one has succeeded.
THEOREM SetsAlwaysKnowTheirController == DeploySpec => SetsKnowTheirController
<1>1. DeployInv /\ [DeployNext]_deployVars =>
        [setToken' # setToken =>
          LET ctl == deployed'[setToken'[2]].args[4]
          IN  /\ ctl \in DOMAIN controllers
              /\ setToken' \in controllers'[ctl].sets
              /\ ready => ctl = fixture["controller"]]_deployVars
  <2> SUFFICES ASSUME DeployInv, DeployNext, setToken' # setToken
               PROVE  LET ctl == deployed'[setToken'[2]].args[4]
                      IN  /\ ctl \in DOMAIN controllers
                          /\ setToken' \in controllers'[ctl].sets
                          /\ ready => ctl = fixture["controller"]
    OBVIOUS
  <2>1. PICK module : createSetToken(module)
    BY DEF DeployNext, StartInitialize, InitializeStep, ControllerInitialize, InitializeFails,
           DeployBySide
  <2> DEFINE ctl == ControllerOf(fixture["factory"])
             d == [kind |-> "SetToken", args |-> SetTokenArguments(ctl)]
  <2>2. setToken' = Address("SetToken") /\ deployed' = Append(deployed, d)
    BY <2>1 DEF createSetToken
  <2>3. d.args = SetTokenArguments(ctl)
    OBVIOUS
  <2>4. SetTokenArguments(ctl)[4] = ctl
    BY DEF SetTokenArguments, SetToken_constructor
  <2>5. ready => ctl = fixture["controller"]
    BY DEF DeployInv, Stored, BuiltFor, OfThisSystem
  <2> HIDE DEF d
  <2>6. deployed'[setToken'[2]] = d
    BY <2>2, DeployedGrows DEF DeployInv, Address
  <2>7. ctl \in DOMAIN controllers /\ Address("SetToken") \in controllers'[ctl].sets
    BY <2>1, SetIsRegistered
  <2> HIDE DEF ctl
  <2> QED BY <2>2, <2>3, <2>4, <2>5, <2>6, <2>7
<1> QED BY <1>1, SpecDeployInv, PTL DEF DeploySpec, SetsKnowTheirController


-----------------------------------------------------------------------------
(* The deploy helpers.                                                      *)

\* Where the helpers' table has a contract whose constructor is listed, the two agree.
Agrees(table) == \A c \in DOMAIN table \cap DOMAIN Constructors : table[c] = Constructors[c]

LEMMA MergeAgrees ==
    ASSUME NEW f, NEW g, Agrees(f), Agrees(g)
    PROVE  Agrees(f ++ g)
BY Zenon DEF Agrees, ++

LEMMA MergeApart ==
    ASSUME NEW f, NEW g, DOMAIN f \cap DOMAIN g = {}
    PROVE  /\ DOMAIN (f ++ g) = DOMAIN f \cup DOMAIN g
           /\ \A c \in DOMAIN f : (f ++ g)[c] = f[c]
           /\ \A c \in DOMAIN g : (f ++ g)[c] = g[c]
BY Zenon DEF ++

\* The modules that take nothing but the controller.
PlainModules == {"BasicIssuanceModule", "IssuanceModule", "DebtIssuanceModule",
               "DebtIssuanceModuleV2", "SlippageIssuanceModule", "AmmModule",
               "StreamingFeeModule", "AirdropModule", "TradeModule", "ClaimModule",
               "StakingModule", "RebasingComponentModule", "GovernanceModule"}

LEMMA ModuleTable ==
    /\ DOMAIN ModuleDeploys = PlainModules \cup
         {"WrapModule", "CustomOracleNavIssuanceModule", "GeneralIndexModule",
          "DebtIssuanceModuleV3", "SingleIndexModule"}
    /\ \A c \in PlainModules : ModuleDeploys[c] = <<"controller">>
    /\ \A c \in {"WrapModule", "CustomOracleNavIssuanceModule", "GeneralIndexModule"} :
         ModuleDeploys[c] = <<"controller", "weth">>
    /\ ModuleDeploys["DebtIssuanceModuleV3"] = <<"controller", "tokenTransferBuffer">>
    /\ ModuleDeploys["SingleIndexModule"] =
         <<"controller", "weth", "uniswapRouter", "sushiswapRouter", "balancerProxy">>
<1> DEFINE few == OfEach(PlainModules, <<"controller">>)
           two == OfEach({"WrapModule", "CustomOracleNavIssuanceModule", "GeneralIndexModule"},
                         <<"controller", "weth">>)
           others == [DebtIssuanceModuleV3 |-> <<"controller", "tokenTransferBuffer">>,
              SingleIndexModule |-> <<"controller", "weth", "uniswapRouter", "sushiswapRouter",
                  "balancerProxy">>]
<1>1. ModuleDeploys = (few ++ two) ++ others
  BY DEF ModuleDeploys, PlainModules
<1>2. DOMAIN few = PlainModules /\ \A c \in DOMAIN few : few[c] = <<"controller">>
  BY DEF OfEach
<1>3. /\ DOMAIN two = {"WrapModule", "CustomOracleNavIssuanceModule", "GeneralIndexModule"}
      /\ \A c \in DOMAIN two : two[c] = <<"controller", "weth">>
  BY DEF OfEach
<1>4. /\ DOMAIN others = {"DebtIssuanceModuleV3", "SingleIndexModule"}
      /\ others["DebtIssuanceModuleV3"] = <<"controller", "tokenTransferBuffer">>
      /\ others["SingleIndexModule"] =
           <<"controller", "weth", "uniswapRouter", "sushiswapRouter", "balancerProxy">>
  OBVIOUS
<1>5. /\ DOMAIN few \cap DOMAIN two = {}
      /\ (DOMAIN few \cup DOMAIN two) \cap DOMAIN others = {}
  BY <1>2, <1>3, <1>4 DEF PlainModules
<1> HIDE DEF few, two, others
<1>6. /\ DOMAIN (few ++ two) = DOMAIN few \cup DOMAIN two
      /\ \A c \in DOMAIN few : (few ++ two)[c] = few[c]
      /\ \A c \in DOMAIN two : (few ++ two)[c] = two[c]
  <2>1. DOMAIN few \cap DOMAIN two = {}
    BY <1>5
  <2> QED BY Zenon, <2>1, MergeApart
<1>7. /\ DOMAIN ModuleDeploys = (DOMAIN few \cup DOMAIN two) \cup DOMAIN others
      /\ \A c \in DOMAIN few \cup DOMAIN two : ModuleDeploys[c] = (few ++ two)[c]
      /\ \A c \in DOMAIN others : ModuleDeploys[c] = others[c]
  <2> DEFINE first == few ++ two
  <2>1. ModuleDeploys = first ++ others
    BY <1>1
  <2>2. DOMAIN first = DOMAIN few \cup DOMAIN two
    BY <1>6
  <2> HIDE DEF first
  <2>3. DOMAIN first \cap DOMAIN others = {}
    BY <1>5, <2>2
  <2>4. /\ DOMAIN (first ++ others) = DOMAIN first \cup DOMAIN others
        /\ \A c \in DOMAIN first : (first ++ others)[c] = first[c]
        /\ \A c \in DOMAIN others : (first ++ others)[c] = others[c]
    BY ZenonT(60), <2>3, MergeApart
  <2> QED BY <2>1, <2>2, <2>4 DEF first
<1> QED BY <1>2, <1>3, <1>4, <1>6, <1>7

LEMMA ConstructorTable ==
    /\ DOMAIN Constructors = PlainModules \cup DOMAIN OwnConstructors
    /\ \A c \in PlainModules : Constructors[c] = <<"controller">>
    /\ \A c \in DOMAIN OwnConstructors : Constructors[c] = OwnConstructors[c]
<1> DEFINE plain == OfEach(PlainModules, <<"controller">>)
<1>1. {c \in DOMAIN ModuleDeploys : Len(ModuleDeploys[c]) = 1} = PlainModules
  BY ModuleTable
<1>2. Constructors = plain ++ OwnConstructors
  BY <1>1 DEF Constructors, ModuleBase_constructor
<1>3. PlainModules \cap DOMAIN OwnConstructors = {}
  BY DEF PlainModules, OwnConstructors
<1>4. DOMAIN plain = PlainModules /\ \A c \in PlainModules : plain[c] = <<"controller">>
  BY DEF OfEach
<1> HIDE DEF plain
<1> QED BY Zenon, <1>2, <1>3, <1>4 DEF ++

\* One of the helpers' tables, by its two parts: the contracts that are all given the same
\* arguments, and the others.
LEMMA CoreAgrees == Agrees(CoreDeploys)
<1> DEFINE few == OfEach({"SetTokenCreator", "IntegrationRegistry", "SetValuer"}, <<"controller">>)
           others == [Controller |-> <<"feeRecipient">>,
              SetToken |-> <<"components", "units", "modules", "controller", "manager", "name",
                  "symbol">>,
              PriceOracle |-> <<"controller", "masterQuoteAsset", "adapters", "assetOnes",
                  "assetTwos", "oracles">>]
<1>1. CoreDeploys = few ++ others
  BY DEF CoreDeploys
<1>2. Agrees(few)
  BY ConstructorTable DEF Agrees, OfEach, PlainModules, OwnConstructors
<1>3. Agrees(others)
  <2>1. DOMAIN others \cap PlainModules = {}
    BY DEF PlainModules
  <2>2. DOMAIN others \cap DOMAIN OwnConstructors = {"SetToken", "PriceOracle"}
    BY DEF OwnConstructors
  <2>3. /\ others["SetToken"] = OwnConstructors["SetToken"]
        /\ others["PriceOracle"] = OwnConstructors["PriceOracle"]
    BY DEF OwnConstructors, SetToken_constructor, PriceOracle_constructor
  <2> HIDE DEF others
  <2> QED BY <2>1, <2>2, <2>3, ConstructorTable DEF Agrees
<1> QED BY Zenon, <1>1, <1>2, <1>3, MergeAgrees

LEMMA ModulesAgree == Agrees(ModuleDeploys)
BY ModuleTable, ConstructorTable DEF Agrees, OwnConstructors, WrapModule_constructor,
   CustomOracleNavIssuanceModule_constructor, GeneralIndexModule_constructor,
   DebtIssuanceModuleV3_constructor, SingleIndexModule_constructor

LEMMA IntegratedModulesAgree == Agrees(IntegratedModuleDeploys)
<1> DEFINE lending == OfEach({"AaveLeverageModule", "AaveV3LeverageModule"},
              <<"controller", "lendingPoolAddressesProvider">>)
           perp == OfEach({"PerpV2LeverageModuleV2", "PerpV2BasisTradingModule"},
              <<"controller", "perpVault", "perpQuoter", "perpMarketRegistry",
                "maxPerpPositionsPerSet">>)
           others == [AuctionRebalanceModuleV1 |-> <<"controller">>,
        WrapModuleV2 |-> <<"controller", "weth">>,
        CompoundLeverageModule |-> <<"controller", "compToken", "comptroller", "cEther",
            "weth">>,
        MorphoLeverageModule |-> <<"controller", "morpho">>,
        NotionalTradeModule |-> <<"controller", "wrappedfCashFactory", "weth", "notionalV2",
            "decodedIdGasLimit">>]
<1>1. IntegratedModuleDeploys = (lending ++ perp) ++ others
  BY DEF IntegratedModuleDeploys
<1>2. Agrees(lending)
  <2> DEFINE own == {"AaveLeverageModule", "AaveV3LeverageModule"}
  <2>1. own \cap PlainModules = {}
    BY DEF PlainModules
  <2>2. own \subseteq DOMAIN OwnConstructors
    BY DEF OwnConstructors
  <2>3. DOMAIN lending = own /\ \A c \in own : lending[c] = OwnConstructors[c]
    BY DEF OfEach, OwnConstructors, AaveLeverageModule_constructor,
       AaveV3LeverageModule_constructor
  <2> HIDE DEF lending, own
  <2> QED BY <2>1, <2>2, <2>3, ConstructorTable DEF Agrees
<1>3. Agrees(perp)
  <2> DEFINE own == {"PerpV2LeverageModuleV2", "PerpV2BasisTradingModule"}
  <2>1. own \cap PlainModules = {}
    BY DEF PlainModules
  <2>2. own \subseteq DOMAIN OwnConstructors
    BY DEF OwnConstructors
  <2>3. DOMAIN perp = own /\ \A c \in own : perp[c] = OwnConstructors[c]
    BY DEF OfEach, OwnConstructors, PerpV2LeverageModuleV2_constructor,
       PerpV2BasisTradingModule_constructor
  <2> HIDE DEF perp, own
  <2> QED BY <2>1, <2>2, <2>3, ConstructorTable DEF Agrees
<1>4. Agrees(others)
  <2> DEFINE own == {"WrapModuleV2", "CompoundLeverageModule", "MorphoLeverageModule",
                     "NotionalTradeModule"}
  <2>1. DOMAIN others \cap PlainModules = {}
    BY DEF PlainModules
  <2>2. DOMAIN others \cap DOMAIN OwnConstructors = own
    BY DEF OwnConstructors
  <2>3. \A c \in own : others[c] = OwnConstructors[c]
    BY DEF OwnConstructors, WrapModuleV2_constructor, CompoundLeverageModule_constructor,
       MorphoLeverageModule_constructor, NotionalTradeModule_constructor
  <2> HIDE DEF others, own
  <2> QED BY <2>1, <2>2, <2>3, ConstructorTable DEF Agrees
<1> HIDE DEF lending, perp, others
<1>5. Agrees(lending ++ perp)
  BY Zenon, <1>2, <1>3, MergeAgrees
<1> QED BY Zenon, <1>1, <1>4, <1>5, MergeAgrees

LEMMA AdaptersAgree == Agrees(AdapterDeploys)
<1> DEFINE uniswap == OfEach({"UniswapV2AmmAdapter", "UniswapV2ExchangeAdapter",
               "UniswapV2TransferFeeExchangeAdapter", "UniswapV2ExchangeAdapterV2",
               "UniswapV2IndexExchangeAdapter"}, <<"uniswapV2Router">>)
           others == [KyberExchangeAdapter |-> <<"kyberNetworkProxy">>,
        OneInchExchangeAdapter |-> <<"approveAddress", "exchangeAddress",
            "swapFunctionSignature">>,
        AaveGovernanceV2Adapter |-> <<"aaveGovernanceV2", "aaveToken">>,
        CompClaimAdapter |-> <<"comptroller">>,
        BalancerV1IndexExchangeAdapter |-> <<"balancerProxy">>,
        BalancerV2ExchangeAdapter |-> <<"balancerVault">>,
        CompoundLikeGovernanceAdapter |-> <<"governorAlpha", "governanceToken">>,
        CompoundBravoGovernanceAdapter |-> <<"governorBravo", "governanceToken">>,
        CurveStakingAdapter |-> <<"gaugeController">>,
        RgtMigrationWrapAdapter |-> <<"pegExchanger">>]
<1>1. AdapterDeploys = uniswap ++ others
  BY DEF AdapterDeploys
<1>2. Agrees(uniswap)
  <2>1. DOMAIN uniswap \cap PlainModules = {}
    BY DEF OfEach, PlainModules
  <2>2. DOMAIN uniswap \cap DOMAIN OwnConstructors = {}
    BY DEF OfEach, OwnConstructors
  <2> QED BY <2>1, <2>2, ConstructorTable DEF Agrees
<1>3. Agrees(others)
  <2> DEFINE own == {"OneInchExchangeAdapter", "AaveGovernanceV2Adapter",
                     "CompoundLikeGovernanceAdapter", "CompoundBravoGovernanceAdapter"}
  <2>1. DOMAIN others \cap PlainModules = {}
    BY DEF PlainModules
  <2>2. DOMAIN others \cap DOMAIN OwnConstructors = own
    BY DEF OwnConstructors
  <2>3. \A c \in own : others[c] = OwnConstructors[c]
    BY DEF OwnConstructors, OneInchExchangeAdapter_constructor, AaveGovernanceV2Adapter_constructor,
       CompoundLikeGovernanceAdapter_constructor, CompoundBravoGovernanceAdapter_constructor
  <2> HIDE DEF others, own
  <2> QED BY <2>1, <2>2, <2>3, ConstructorTable DEF Agrees
<1> QED BY Zenon, <1>1, <1>2, <1>3, MergeAgrees

LEMMA ExchangeAdaptersAgree == Agrees(ExchangeAdapterDeploys)
<1> DEFINE uniswap == OfEach({"UniswapV3IndexExchangeAdapter", "UniswapV3ExchangeAdapter",
               "UniswapV3ExchangeAdapterV2", "UniswapV3ExchangeAdapterV3"}, <<"swapRouter">>)
           others == [UniswapPairPriceAdapter |-> <<"controller", "uniswapFactory", "uniswapPools">>,
        ZeroExApiAdapter |-> <<"zeroEx", "weth">>,
        SnapshotGovernanceAdapter |-> <<"delegateRegistry">>,
        SynthetixExchangeAdapter |-> <<"synthetixExchanger">>,
        KyberV3IndexExchangeAdapter |-> <<"dmmRouter", "dmmFactory">>]
<1>1. ExchangeAdapterDeploys = uniswap ++ others
  BY DEF ExchangeAdapterDeploys
<1>2. Agrees(uniswap)
  <2>1. DOMAIN uniswap \cap PlainModules = {}
    BY DEF OfEach, PlainModules
  <2>2. DOMAIN uniswap \cap DOMAIN OwnConstructors = {}
    BY DEF OfEach, OwnConstructors
  <2> QED BY <2>1, <2>2, ConstructorTable DEF Agrees
<1>3. Agrees(others)
  <2> DEFINE own == {"UniswapPairPriceAdapter", "ZeroExApiAdapter",
                     "KyberV3IndexExchangeAdapter"}
  <2>1. DOMAIN others \cap PlainModules = {}
    BY DEF PlainModules
  <2>2. DOMAIN others \cap DOMAIN OwnConstructors = own
    BY DEF OwnConstructors
  <2>3. \A c \in own : others[c] = OwnConstructors[c]
    BY DEF OwnConstructors, UniswapPairPriceAdapter_constructor, ZeroExApiAdapter_constructor,
       KyberV3IndexExchangeAdapter_constructor
  <2> HIDE DEF others, own
  <2> QED BY <2>1, <2>2, <2>3, ConstructorTable DEF Agrees
<1> QED BY Zenon, <1>1, <1>2, <1>3, MergeAgrees

LEMMA WrapAdaptersAgree == Agrees(WrapAndPriceAdapterDeploys)
<1> DEFINE none == OfEach({"CompoundWrapV2Adapter", "YearnWrapV2Adapter", "ERC4626WrapV2Adapter",
               "ConstantPriceAdapter", "BoundedStepwiseLinearPriceAdapter",
               "BoundedStepwiseLogarithmicPriceAdapter",
               "BoundedStepwiseExponentialPriceAdapter"}, <<>>)
           others == [CompoundV3WrapV2Adapter |-> <<"comet">>,
        AaveV2WrapV2Adapter |-> <<"lendingPool">>,
        AaveV3WrapV2Adapter |-> <<"pool">>,
        ERC4626ExchangeAdapter |-> <<"vault">>,
        CurveExchangeAdapter |-> <<"tokenA", "tokenB", "tokenAIndex", "tokenBIndex",
            "stableswap">>,
        CurveStEthExchangeAdapter |-> <<"weth", "steth", "stableswap">>]
<1>1. WrapAndPriceAdapterDeploys = none ++ others
  BY DEF WrapAndPriceAdapterDeploys
<1>2. Agrees(none)
  <2>1. DOMAIN none \cap PlainModules = {}
    BY DEF OfEach, PlainModules
  <2>2. DOMAIN none \cap DOMAIN OwnConstructors = {}
    BY DEF OfEach, OwnConstructors
  <2> QED BY <2>1, <2>2, ConstructorTable DEF Agrees
<1>3. Agrees(others)
  <2> DEFINE own == {"CurveExchangeAdapter", "CurveStEthExchangeAdapter"}
  <2>1. DOMAIN others \cap PlainModules = {}
    BY DEF PlainModules
  <2>2. DOMAIN others \cap DOMAIN OwnConstructors = own
    BY DEF OwnConstructors
  <2>3. \A c \in own : others[c] = OwnConstructors[c]
    BY DEF OwnConstructors, CurveExchangeAdapter_constructor, CurveStEthExchangeAdapter_constructor
  <2> HIDE DEF others, own
  <2> QED BY <2>1, <2>2, <2>3, ConstructorTable DEF Agrees
<1> QED BY Zenon, <1>1, <1>2, <1>3, MergeAgrees

\* Every helper passes to every constructor what it takes, in its order.
LEMMA HelpersAgree == Agrees(Deploys)
<1>1. Agrees(LibraryDeploys)
  <2>1. DOMAIN LibraryDeploys \cap PlainModules = {}
    BY DEF LibraryDeploys, OfEach, PlainModules
  <2>2. DOMAIN LibraryDeploys \cap DOMAIN OwnConstructors = {}
    BY DEF LibraryDeploys, OfEach, OwnConstructors
  <2> QED BY <2>1, <2>2, ConstructorTable DEF Agrees
<1>2. Agrees(ProductDeploys)
  <2>1. \A c \in DOMAIN ProductDeploys : /\ c \notin PlainModules
                                         /\ ProductDeploys[c] = OwnConstructors[c]
    BY DEF ProductDeploys, PlainModules, OwnConstructors,
       AssetLimitHook_constructor, AMMSplitter_constructor, BridgedSetToken_constructor,
       CachedSetValuer_constructor
  <2> QED BY <2>1, ConstructorTable DEF Agrees
<1>3. Agrees(OracleDeploys)
  <2>1. DOMAIN OracleDeploys \cap PlainModules = {}
    BY DEF OracleDeploys, PlainModules
  <2>2. DOMAIN OracleDeploys \cap DOMAIN OwnConstructors =
          {"CTokenOracle", "YearnVaultOracle", "ERC4626Oracle"}
    BY DEF OracleDeploys, OwnConstructors
  <2>3. \A c \in {"CTokenOracle", "YearnVaultOracle", "ERC4626Oracle"} :
          OracleDeploys[c] = OwnConstructors[c]
    BY DEF OracleDeploys, OwnConstructors, CTokenOracle_constructor, YearnVaultOracle_constructor,
       ERC4626Oracle_constructor
  <2> QED BY <2>1, <2>2, <2>3, ConstructorTable DEF Agrees
<1>4. Agrees(ViewerDeploys)
  BY ConstructorTable DEF Agrees, ViewerDeploys, PlainModules, OwnConstructors,
     PerpV2LeverageModuleViewer_constructor
<1>5. Agrees(CoreDeploys ++ ModuleDeploys)
  BY Zenon, CoreAgrees, ModulesAgree, MergeAgrees
<1>6. Agrees(CoreDeploys ++ ModuleDeploys ++ IntegratedModuleDeploys ++ AdapterDeploys)
  BY Zenon, <1>5, IntegratedModulesAgree, AdaptersAgree, MergeAgrees
<1>7. Agrees(CoreDeploys ++ ModuleDeploys ++ IntegratedModuleDeploys ++ AdapterDeploys
               ++ ExchangeAdapterDeploys ++ WrapAndPriceAdapterDeploys ++ LibraryDeploys)
  BY Zenon, <1>1, <1>6, ExchangeAdaptersAgree, WrapAdaptersAgree, MergeAgrees
<1> QED BY Zenon, <1>2, <1>3, <1>4, <1>7, MergeAgrees DEF Deploys

\* Every listed constructor is called by a helper.
LEMMA ListedAreDeployed == DOMAIN Constructors \subseteq DOMAIN Deploys
<1> DEFINE
     core == {"SetToken", "PriceOracle"}
     modules == {"WrapModule", "CustomOracleNavIssuanceModule", "GeneralIndexModule",
                 "DebtIssuanceModuleV3", "SingleIndexModule"}
     integrated == {"WrapModuleV2", "CompoundLeverageModule", "AaveLeverageModule",
                    "AaveV3LeverageModule", "MorphoLeverageModule", "NotionalTradeModule",
                    "PerpV2LeverageModuleV2", "PerpV2BasisTradingModule"}
     adapters == {"OneInchExchangeAdapter", "AaveGovernanceV2Adapter",
                  "CompoundLikeGovernanceAdapter", "CompoundBravoGovernanceAdapter"}
     exchanges == {"UniswapPairPriceAdapter", "ZeroExApiAdapter", "KyberV3IndexExchangeAdapter"}
     wraps == {"CurveExchangeAdapter", "CurveStEthExchangeAdapter"}
     products == {"AssetLimitHook", "AMMSplitter", "BridgedSetToken", "CachedSetValuer"}
     oracles == {"CTokenOracle", "YearnVaultOracle", "ERC4626Oracle"}
     viewers == {"PerpV2LeverageModuleViewer"}
<1>1. DOMAIN CoreDeploys \cup DOMAIN ModuleDeploys \cup DOMAIN IntegratedModuleDeploys
        \cup DOMAIN AdapterDeploys \cup DOMAIN ExchangeAdapterDeploys
        \cup DOMAIN WrapAndPriceAdapterDeploys \cup DOMAIN LibraryDeploys
        \cup DOMAIN ProductDeploys \cup DOMAIN OracleDeploys \cup DOMAIN ViewerDeploys
        = DOMAIN Deploys
  BY ZenonT(60) DEF Deploys, ++
<1>2. core \subseteq DOMAIN CoreDeploys
  BY ZenonT(60), CoreContracts
<1>3. integrated \subseteq DOMAIN IntegratedModuleDeploys
  <2> DEFINE few == OfEach({"AaveLeverageModule", "AaveV3LeverageModule"},
                   <<"controller", "lendingPoolAddressesProvider">>)
           two == OfEach({"PerpV2LeverageModuleV2", "PerpV2BasisTradingModule"},
                   <<"controller", "perpVault", "perpQuoter", "perpMarketRegistry",
                     "maxPerpPositionsPerSet">>)
           others == [AuctionRebalanceModuleV1 |-> <<"controller">>,
             WrapModuleV2 |-> <<"controller", "weth">>,
             CompoundLeverageModule |-> <<"controller", "compToken", "comptroller", "cEther",
                 "weth">>,
             MorphoLeverageModule |-> <<"controller", "morpho">>,
             NotionalTradeModule |-> <<"controller", "wrappedfCashFactory", "weth", "notionalV2",
                 "decodedIdGasLimit">>]
  <2>1. IntegratedModuleDeploys = (few ++ two) ++ others
    BY Zenon DEF IntegratedModuleDeploys
  <2>2. {"AaveLeverageModule", "AaveV3LeverageModule"} \subseteq DOMAIN few
    BY DEF OfEach
  <2>3. {"PerpV2LeverageModuleV2", "PerpV2BasisTradingModule"} \subseteq DOMAIN two
    BY DEF OfEach
  <2>4. {"WrapModuleV2", "CompoundLeverageModule", "MorphoLeverageModule", "NotionalTradeModule"} \subseteq DOMAIN others
    OBVIOUS
  <2> HIDE DEF few, two, others
  <2>5. DOMAIN (few ++ two) = DOMAIN few \cup DOMAIN two
    BY Zenon, MergeDomain
  <2>6. DOMAIN IntegratedModuleDeploys = DOMAIN (few ++ two) \cup DOMAIN others
    BY Zenon, <2>1, MergeDomain
  <2> QED BY <2>2, <2>3, <2>4, <2>5, <2>6
<1>4. adapters \subseteq DOMAIN AdapterDeploys
  <2> DEFINE few == OfEach({"UniswapV2AmmAdapter", "UniswapV2ExchangeAdapter",
                    "UniswapV2TransferFeeExchangeAdapter", "UniswapV2ExchangeAdapterV2",
                    "UniswapV2IndexExchangeAdapter"}, <<"uniswapV2Router">>)
           others == [KyberExchangeAdapter |-> <<"kyberNetworkProxy">>,
             OneInchExchangeAdapter |-> <<"approveAddress", "exchangeAddress",
                 "swapFunctionSignature">>,
             AaveGovernanceV2Adapter |-> <<"aaveGovernanceV2", "aaveToken">>,
             CompClaimAdapter |-> <<"comptroller">>,
             BalancerV1IndexExchangeAdapter |-> <<"balancerProxy">>,
             BalancerV2ExchangeAdapter |-> <<"balancerVault">>,
             CompoundLikeGovernanceAdapter |-> <<"governorAlpha", "governanceToken">>,
             CompoundBravoGovernanceAdapter |-> <<"governorBravo", "governanceToken">>,
             CurveStakingAdapter |-> <<"gaugeController">>,
             RgtMigrationWrapAdapter |-> <<"pegExchanger">>]
  <2>1. AdapterDeploys = few ++ others
    BY Zenon DEF AdapterDeploys
  <2>2. adapters \subseteq DOMAIN others
    OBVIOUS
  <2> HIDE DEF few, others
  <2>3. DOMAIN AdapterDeploys = DOMAIN few \cup DOMAIN others
    BY Zenon, <2>1, MergeDomain
  <2> QED BY <2>2, <2>3
<1>5. exchanges \subseteq DOMAIN ExchangeAdapterDeploys
  <2> DEFINE few == OfEach({"UniswapV3IndexExchangeAdapter", "UniswapV3ExchangeAdapter",
                    "UniswapV3ExchangeAdapterV2", "UniswapV3ExchangeAdapterV3"}, <<"swapRouter">>)
           others == [UniswapPairPriceAdapter |-> <<"controller", "uniswapFactory", "uniswapPools">>,
             ZeroExApiAdapter |-> <<"zeroEx", "weth">>,
             SnapshotGovernanceAdapter |-> <<"delegateRegistry">>,
             SynthetixExchangeAdapter |-> <<"synthetixExchanger">>,
             KyberV3IndexExchangeAdapter |-> <<"dmmRouter", "dmmFactory">>]
  <2>1. ExchangeAdapterDeploys = few ++ others
    BY Zenon DEF ExchangeAdapterDeploys
  <2>2. exchanges \subseteq DOMAIN others
    OBVIOUS
  <2> HIDE DEF few, others
  <2>3. DOMAIN ExchangeAdapterDeploys = DOMAIN few \cup DOMAIN others
    BY Zenon, <2>1, MergeDomain
  <2> QED BY <2>2, <2>3
<1>6. wraps \subseteq DOMAIN WrapAndPriceAdapterDeploys
  <2> DEFINE few == OfEach({"CompoundWrapV2Adapter", "YearnWrapV2Adapter", "ERC4626WrapV2Adapter",
                    "ConstantPriceAdapter", "BoundedStepwiseLinearPriceAdapter",
                    "BoundedStepwiseLogarithmicPriceAdapter",
                    "BoundedStepwiseExponentialPriceAdapter"}, <<>>)
           others == [CompoundV3WrapV2Adapter |-> <<"comet">>,
             AaveV2WrapV2Adapter |-> <<"lendingPool">>,
             AaveV3WrapV2Adapter |-> <<"pool">>,
             ERC4626ExchangeAdapter |-> <<"vault">>,
             CurveExchangeAdapter |-> <<"tokenA", "tokenB", "tokenAIndex", "tokenBIndex",
                 "stableswap">>,
             CurveStEthExchangeAdapter |-> <<"weth", "steth", "stableswap">>]
  <2>1. WrapAndPriceAdapterDeploys = few ++ others
    BY Zenon DEF WrapAndPriceAdapterDeploys
  <2>2. wraps \subseteq DOMAIN others
    OBVIOUS
  <2> HIDE DEF few, others
  <2>3. DOMAIN WrapAndPriceAdapterDeploys = DOMAIN few \cup DOMAIN others
    BY Zenon, <2>1, MergeDomain
  <2> QED BY <2>2, <2>3
<1>7. products \subseteq DOMAIN ProductDeploys
  BY DEF ProductDeploys
<1>8. oracles \subseteq DOMAIN OracleDeploys
  BY DEF OracleDeploys
<1>9. viewers \subseteq DOMAIN ViewerDeploys
  BY DEF ViewerDeploys
<1>10. DOMAIN OwnConstructors \subseteq core \cup modules \cup integrated \cup adapters
         \cup exchanges \cup wraps \cup products \cup oracles \cup viewers
  BY DEF OwnConstructors
<1>11. PlainModules \cup modules = DOMAIN ModuleDeploys
  BY ModuleTable
<1>12. DOMAIN Constructors = PlainModules \cup DOMAIN OwnConstructors
  BY ConstructorTable
<1> HIDE DEF core, modules, integrated, adapters, exchanges, wraps, products, oracles, viewers
<1> QED BY ZenonT(60), <1>1, <1>2, <1>3, <1>4, <1>5, <1>6, <1>7, <1>8, <1>9, <1>10, <1>11, <1>12

\* Fields of the fixture whose address no constructor takes by that name.
KeptFields == {"issuanceModule", "usdc", "integrationRegistry", "factory", "priceOracle",
               "streamingFeeModule", "navIssuanceModule"}

\* A list of parameters, none of them of such a name.
NotKept(s) ==
    Len(s) \in Nat /\ DOMAIN s = 1 .. Len(s) /\ \A i \in DOMAIN s : s[i] \notin KeptFields

LEMMA ParametersAreNotKept == \A c \in DOMAIN Constructors : NotKept(Constructors[c])
<1>1. /\ NotKept(SetToken_constructor) /\ NotKept(PriceOracle_constructor)
      /\ NotKept(DebtIssuanceModuleV3_constructor) /\ NotKept(WrapModule_constructor)
      /\ NotKept(WrapModuleV2_constructor)
      /\ NotKept(CustomOracleNavIssuanceModule_constructor)
      /\ NotKept(GeneralIndexModule_constructor) /\ NotKept(SingleIndexModule_constructor)
  BY DEF NotKept, KeptFields,
     SetToken_constructor, PriceOracle_constructor, DebtIssuanceModuleV3_constructor,
     WrapModule_constructor, WrapModuleV2_constructor,
     CustomOracleNavIssuanceModule_constructor, GeneralIndexModule_constructor,
     SingleIndexModule_constructor
<1>2. /\ NotKept(CompoundLeverageModule_constructor) /\ NotKept(AaveLeverageModule_constructor)
      /\ NotKept(AaveV3LeverageModule_constructor)
      /\ NotKept(MorphoLeverageModule_constructor)
      /\ NotKept(NotionalTradeModule_constructor)
      /\ NotKept(PerpV2LeverageModuleV2_constructor)
      /\ NotKept(PerpV2BasisTradingModule_constructor)
  BY DEF NotKept, KeptFields,
     CompoundLeverageModule_constructor, AaveLeverageModule_constructor,
     AaveV3LeverageModule_constructor, MorphoLeverageModule_constructor,
     NotionalTradeModule_constructor, PerpV2LeverageModuleV2_constructor,
     PerpV2BasisTradingModule_constructor
<1>3. /\ NotKept(AssetLimitHook_constructor) /\ NotKept(AMMSplitter_constructor)
      /\ NotKept(BridgedSetToken_constructor) /\ NotKept(CachedSetValuer_constructor)
      /\ NotKept(CTokenOracle_constructor) /\ NotKept(YearnVaultOracle_constructor)
      /\ NotKept(ERC4626Oracle_constructor)
      /\ NotKept(PerpV2LeverageModuleViewer_constructor)
  BY DEF NotKept, KeptFields,
     AssetLimitHook_constructor, AMMSplitter_constructor, BridgedSetToken_constructor,
     CachedSetValuer_constructor, CTokenOracle_constructor, YearnVaultOracle_constructor,
     ERC4626Oracle_constructor, PerpV2LeverageModuleViewer_constructor
<1>4. /\ NotKept(OneInchExchangeAdapter_constructor)
      /\ NotKept(AaveGovernanceV2Adapter_constructor)
      /\ NotKept(CompoundLikeGovernanceAdapter_constructor)
      /\ NotKept(CompoundBravoGovernanceAdapter_constructor)
      /\ NotKept(UniswapPairPriceAdapter_constructor)
      /\ NotKept(ZeroExApiAdapter_constructor)
      /\ NotKept(KyberV3IndexExchangeAdapter_constructor)
      /\ NotKept(CurveExchangeAdapter_constructor)
      /\ NotKept(CurveStEthExchangeAdapter_constructor)
  BY DEF NotKept, KeptFields,
     OneInchExchangeAdapter_constructor, AaveGovernanceV2Adapter_constructor,
     CompoundLikeGovernanceAdapter_constructor, CompoundBravoGovernanceAdapter_constructor,
     UniswapPairPriceAdapter_constructor, ZeroExApiAdapter_constructor,
     KyberV3IndexExchangeAdapter_constructor, CurveExchangeAdapter_constructor,
     CurveStEthExchangeAdapter_constructor
<1>5. NotKept(<<"controller">>)
  BY DEF NotKept, KeptFields
<1>6. ASSUME NEW k \in DOMAIN OwnConstructors PROVE NotKept(OwnConstructors[k])
  BY <1>1, <1>2, <1>3, <1>4 DEF OwnConstructors
<1> QED BY <1>5, <1>6, ConstructorTable

-----------------------------------------------------------------------------
(* What is deployed, by the fixture and next to it.                         *)

\* What initialize stores in each field.
ContractOf ==
    [controller |-> "Controller", issuanceModule |-> "BasicIssuanceModule", weth |-> "WETH9",
     usdc |-> "StandardTokenMock", integrationRegistry |-> "IntegrationRegistry",
     factory |-> "SetTokenCreator", priceOracle |-> "PriceOracle", setValuer |-> "SetValuer",
     streamingFeeModule |-> "StreamingFeeModule",
     navIssuanceModule |-> "CustomOracleNavIssuanceModule"]

\* A field that some parameter names holds what it is for, once it is stored; and only
\* controllers were initialized.
WiredInv ==
    /\ DeployInv
    /\ WiredByName
    /\ \A f \in Fields : Stored(f) => fixture[f][1] = ContractOf[f]
    /\ \A a \in DOMAIN controllers : a[1] = "Controller"

\* The fields that argument p is taken from, if any.
TakenFrom(p) == CASE p = "masterQuoteAsset" -> {"usdc"} [] OTHER -> {p} \cap Fields

LEMMA AddressFits ==
    ASSUME WiredInv, NEW p, p \notin KeptFields, \A f \in TakenFrom(p) : Stored(f)
    PROVE  Fits(p, AddressFor(p))
<1>1. CASE p = "masterQuoteAsset"
  <2>1. fixture["usdc"][1] = "StandardTokenMock"
    BY <1>1 DEF WiredInv, ContractOf, Fields, TakenFrom
  <2> QED BY <1>1, <2>1 DEF Fits, AddressFor, Fields
<1>2. CASE p \in {"controller", "weth", "setValuer"}
  <2>1. p \in Fields /\ p # "masterQuoteAsset"
    BY <1>2 DEF Fields
  <2>2. fixture[p][1] = ContractOf[p]
    BY <2>1 DEF WiredInv, TakenFrom
  <2> QED BY <1>2, <2>1, <2>2 DEF Fits, AddressFor, ContractOf
<1>3. CASE p # "masterQuoteAsset" /\ p \notin {"controller", "weth", "setValuer"}
  <2>1. p \notin Fields
    BY <1>3 DEF Fields, KeptFields
  <2> QED BY <1>3, <2>1 DEF Fits, AddressFor
<1> QED BY <1>1, <1>2, <1>3

\* A contract in the table is wired by name if the fields its arguments come from are stored.
LEMMA ContractFits ==
    ASSUME WiredInv, NEW c \in DOMAIN Constructors,
           \A i \in DOMAIN Constructors[c] : \A f \in TakenFrom(Constructors[c][i]) : Stored(f),
           NEW args, args = [i \in DOMAIN Arguments(c) |-> AddressFor(Arguments(c)[i])]
    PROVE  /\ Len(args) = Len(Constructors[c])
           /\ \A i \in DOMAIN args : Fits(Constructors[c][i], args[i])
<1>1. Arguments(c) = Constructors[c]
  BY HelpersAgree, ListedAreDeployed DEF Agrees, Arguments
<1>2. PICK s : s = Constructors[c]
  OBVIOUS
<1>3. NotKept(s)
  BY <1>2, ParametersAreNotKept
<1>4. /\ DOMAIN args = DOMAIN s /\ Len(s) \in Nat /\ DOMAIN s = 1 .. Len(s)
      /\ \A i \in DOMAIN s : args[i] = AddressFor(s[i])
  BY <1>1, <1>2, <1>3 DEF NotKept
<1>5. Len(args) = Len(s)
  BY <1>4
<1>6. ASSUME NEW i \in DOMAIN s PROVE Fits(s[i], args[i])
  <2>1. Fits(s[i], AddressFor(s[i]))
    BY <1>2, <1>3, AddressFits DEF NotKept
  <2> QED BY <1>4, <2>1
<1> QED BY <1>2, <1>4, <1>5, <1>6

\* WiredByName speaks of each contract by itself.
Wired(d) ==
    d.kind \in DOMAIN Constructors =>
        /\ Len(d.args) = Len(Constructors[d.kind])
        /\ \A i \in DOMAIN d.args : Fits(Constructors[d.kind][i], d.args[i])

LEMMA WiredOneByOne ==
    /\ WiredByName <=> \A n \in DOMAIN deployed : Wired(deployed[n])
    /\ WiredByName' <=> \A n \in DOMAIN deployed' : Wired(deployed'[n])
BY DEF WiredByName, Wired

LEMMA WiredGrows ==
    ASSUME WiredInv, NEW d, Wired(d), deployed' = Append(deployed, d)
    PROVE  WiredByName'
<1>1. /\ DOMAIN deployed' = DOMAIN deployed \cup {Len(deployed) + 1}
      /\ deployed'[Len(deployed) + 1] = d
      /\ \A n \in DOMAIN deployed : deployed'[n] = deployed[n]
  BY DeployedGrows DEF WiredInv, DeployInv
<1> QED BY <1>1, WiredOneByOne DEF WiredInv

\* The steps of initialize, by what they build.
LEMMA StepBuilds ==
    ASSUME NEW k \in DOMAIN InitializeSteps
    PROVE  /\ InitializeSteps[k].contract = ContractOf[InitializeSteps[k].field]
           /\ InitializeSteps[k].contract \in DOMAIN Constructors =>
                \/ k \in 2 .. 11 /\ Constructors[InitializeSteps[k].contract] = <<"controller">>
                \/ k = 11 /\ Constructors[InitializeSteps[k].contract] = <<"controller", "weth">>
                \/ k = 7 /\ Constructors[InitializeSteps[k].contract] =
                     <<"controller", "masterQuoteAsset", "adapters", "assetOnes", "assetTwos", "oracles">>
<1>1. InitializeSteps[k].contract = ContractOf[InitializeSteps[k].field]
  BY DEF InitializeSteps, ContractOf
<1>2. /\ k \in 1 .. 11
      /\ k \in {2, 10} => InitializeSteps[k].contract \in PlainModules
      /\ k = 11 => InitializeSteps[k].contract = "CustomOracleNavIssuanceModule"
      /\ k = 7 => InitializeSteps[k].contract = "PriceOracle"
      /\ k \in {1, 3, 4, 5, 6, 8, 9} => InitializeSteps[k].contract \in
           {"Controller", "WETH9", "StandardTokenMock", "IntegrationRegistry", "SetTokenCreator",
            "SetValuer"}
  BY DEF InitializeSteps, PlainModules
<1>3. \A c \in {"Controller", "WETH9", "StandardTokenMock", "IntegrationRegistry",
                "SetTokenCreator", "SetValuer"} : c \notin PlainModules /\ c \notin DOMAIN OwnConstructors
  BY DEF PlainModules, OwnConstructors
<1>4. /\ OwnConstructors["CustomOracleNavIssuanceModule"] = <<"controller", "weth">>
      /\ OwnConstructors["PriceOracle"] =
           <<"controller", "masterQuoteAsset", "adapters", "assetOnes", "assetTwos", "oracles">>
      /\ {"CustomOracleNavIssuanceModule", "PriceOracle"} \subseteq DOMAIN OwnConstructors
  BY DEF OwnConstructors, CustomOracleNavIssuanceModule_constructor, PriceOracle_constructor
<1> HIDE DEF InitializeSteps
<1> QED BY <1>1, <1>2, <1>3, <1>4, ConstructorTable

\* What initialize needs at a step it has stored before.
LEMMA StoredBefore ==
    ASSUME step \in 1 .. 11
    PROVE  /\ step > 1 => Stored("controller")
           /\ step > 3 => Stored("weth")
           /\ step > 4 => Stored("usdc")
<1>1. /\ DOMAIN InitializeSteps = 1 .. 11
      /\ InitializeSteps[1].field = "controller"
      /\ InitializeSteps[3].field = "weth"
      /\ InitializeSteps[4].field = "usdc"
  BY DEF InitializeSteps
<1> QED BY <1>1 DEF Stored

LEMMA EveryFieldIsStored == \A f \in Fields : \E k \in DOMAIN InitializeSteps : InitializeSteps[k].field = f
BY DEF InitializeSteps, Fields

LEMMA InitEstablishesWired == DeployInit => WiredInv
<1> SUFFICES ASSUME DeployInit PROVE WiredInv
  OBVIOUS
<1>1. DOMAIN deployed = {} /\ DOMAIN controllers = {}
  BY DEF DeployInit
<1>2. \A f : ~ Stored(f)
  BY AllStored DEF DeployInit, Stored
<1> QED BY <1>1, <1>2, InitEstablishesDeployInv DEF WiredInv, WiredByName

LEMMA InitializeStepKeepsWired == WiredInv /\ InitializeStep => WiredInv'
<1> SUFFICES ASSUME WiredInv, InitializeStep PROVE WiredInv'
  OBVIOUS
<1> DEFINE now == InitializeSteps[step]
           c == now.contract
           args == [i \in DOMAIN Arguments(c) |-> AddressFor(Arguments(c)[i])]
           d == [kind |-> c, args |-> args]
<1>1. DeployInv'
  BY InitializeStepKeepsInv DEF WiredInv
<1>2. /\ step \in 1 .. 11 /\ step \in DOMAIN InitializeSteps /\ now.field \in Fields
      /\ c = ContractOf[now.field]
  BY StepFacts, StepBuilds DEF InitializeStep
<1>3. /\ deployed' = Append(deployed, d) /\ step' = step + 1
      /\ fixture' = [fixture EXCEPT ![now.field] = Address(c)]
      /\ ready' = ready /\ controllers' = controllers
  BY DEF InitializeStep, DeployContract
<1>4. ready = FALSE
  BY <1>2 DEF WiredInv, DeployInv
<1>5. ASSUME c \in DOMAIN Constructors
      PROVE  \A i \in DOMAIN Constructors[c] : \A f \in TakenFrom(Constructors[c][i]) : Stored(f)
  <2>1. \/ step > 1 /\ Constructors[c] = <<"controller">>
        \/ step > 3 /\ Constructors[c] = <<"controller", "weth">>
        \/ step > 4 /\ Constructors[c] =
             <<"controller", "masterQuoteAsset", "adapters", "assetOnes", "assetTwos", "oracles">>
    BY <1>2, <1>5, StepBuilds
  <2>2. /\ TakenFrom("controller") = {"controller"} /\ TakenFrom("weth") = {"weth"}
        /\ TakenFrom("masterQuoteAsset") = {"usdc"} /\ TakenFrom("adapters") = {}
        /\ TakenFrom("assetOnes") = {} /\ TakenFrom("assetTwos") = {} /\ TakenFrom("oracles") = {}
    BY DEF TakenFrom, Fields
  <2>3. CASE step > 1 /\ Constructors[c] = <<"controller">>
    BY <1>2, <2>2, <2>3, StoredBefore
  <2>4. CASE step > 3 /\ Constructors[c] = <<"controller", "weth">>
    BY <1>2, <2>2, <2>4, StoredBefore
  <2>5. CASE step > 4 /\ Constructors[c] =
             <<"controller", "masterQuoteAsset", "adapters", "assetOnes", "assetTwos", "oracles">>
    BY <1>2, <2>2, <2>5, StoredBefore
  <2> HIDE DEF c
  <2> QED BY <2>1, <2>3, <2>4, <2>5
<1>6. d.kind = c /\ d.args = args
  OBVIOUS
<1> HIDE DEF c, args, d
<1>7. Wired(d)
  BY <1>5, <1>6, ContractFits DEF Wired, args
<1>8. WiredByName'
  BY <1>3, <1>7, WiredGrows
<1>9. ASSUME NEW f \in Fields, Stored(f)' PROVE fixture'[f][1] = ContractOf[f]
  <2>1. CASE f = now.field
    <3>1. fixture'[f] = Address(c)
      BY <1>2, <1>3, <2>1 DEF WiredInv, DeployInv
    <3> QED BY <1>2, <2>1, <3>1 DEF Address
  <2>2. CASE f # now.field
    <3>1. Stored(f)
      <4>1. PICK k \in DOMAIN InitializeSteps : k < step + 1 /\ InitializeSteps[k].field = f
        BY <1>3, <1>4, <1>9 DEF Stored
      <4>2. k \in 1 .. 11 /\ k # step
        BY <2>2, <4>1, AllStored
      <4> QED BY <1>2, <4>1, <4>2 DEF Stored
    <3>2. fixture'[f] = fixture[f]
      BY <1>2, <1>3, <2>2 DEF WiredInv, DeployInv
    <3> QED BY <3>1, <3>2 DEF WiredInv
  <2> QED BY <2>1, <2>2
<1> QED BY <1>1, <1>3, <1>8, <1>9 DEF WiredInv

LEMMA ControllerInitializeKeepsWired == WiredInv /\ ControllerInitialize => WiredInv'
<1> SUFFICES ASSUME WiredInv, ControllerInitialize PROVE WiredInv'
  OBVIOUS
<1>1. DeployInv'
  BY ControllerInitializeKeepsInv DEF WiredInv
<1>2. step = 12 /\ deployed' = deployed /\ fixture' = fixture
  BY AllStored DEF ControllerInitialize
<1>3. \A f \in Fields : Stored(f)
  BY <1>2, EveryFieldIsStored, AllStored DEF Stored
<1>4. \A a \in DOMAIN controllers' : a[1] = "Controller"
  BY <1>3, ResourcesByTheirIds DEF WiredInv, Fields, ContractOf
<1>5. WiredByName'
  BY <1>2, WiredOneByOne DEF WiredInv
<1>6. \A f \in Fields : fixture'[f][1] = ContractOf[f]
  BY <1>2, <1>3 DEF WiredInv
<1> QED BY <1>1, <1>4, <1>5, <1>6 DEF WiredInv

LEMMA CreateKeepsWired ==
    ASSUME WiredInv, NEW module, createSetToken(module)
    PROVE  WiredInv'
<1> DEFINE ctl == ControllerOf(fixture["factory"])
           d == [kind |-> "SetToken", args |-> SetTokenArguments(ctl)]
<1>1. DeployInv'
  BY CreateKeepsInv DEF WiredInv
<1>2. /\ deployed' = Append(deployed, d) /\ ctl \in DOMAIN controllers
      /\ fixture' = fixture /\ step' = step /\ ready' = ready
  BY DEF createSetToken
<1>3. DOMAIN controllers' = DOMAIN controllers
  BY SetIsRegistered DEF WiredInv
<1>4. ctl[1] = "Controller"
  BY <1>2 DEF WiredInv
<1>5. d.kind = "SetToken" /\ d.args = SetTokenArguments(ctl)
  OBVIOUS
<1> HIDE DEF d, ctl
<1>6. Constructors["SetToken"] = SetToken_constructor
  BY ConstructorTable DEF OwnConstructors
<1>7. /\ DOMAIN SetToken_constructor = 1 .. 7 /\ Len(SetToken_constructor) = 7
      /\ SetToken_constructor[4] = "controller"
      /\ \A i \in 1 .. 7 : i # 4 => /\ SetToken_constructor[i] # "controller"
                                    /\ SetToken_constructor[i] \notin KeptFields
                                    /\ TakenFrom(SetToken_constructor[i]) = {}
  BY DEF SetToken_constructor, KeptFields, TakenFrom, Fields
<1>8. /\ DOMAIN SetTokenArguments(ctl) = 1 .. 7 /\ Len(SetTokenArguments(ctl)) = 7
      /\ SetTokenArguments(ctl)[4] = ctl
      /\ \A i \in 1 .. 7 : i # 4 => SetTokenArguments(ctl)[i] = AddressFor(SetToken_constructor[i])
  BY <1>7 DEF SetTokenArguments
<1>9. ASSUME NEW i \in 1 .. 7 PROVE Fits(SetToken_constructor[i], SetTokenArguments(ctl)[i])
  <2>1. CASE i = 4
    BY <1>4, <1>7, <1>8, <2>1 DEF Fits
  <2>2. CASE i # 4
    <3>1. Fits(SetToken_constructor[i], AddressFor(SetToken_constructor[i]))
      BY <1>7, <2>2, AddressFits
    <3> QED BY <1>8, <2>2, <3>1
  <2> QED BY <2>1, <2>2
<1>10. Wired(d)
  BY <1>5, <1>6, <1>7, <1>8, <1>9 DEF Wired
<1>11. WiredByName'
  BY <1>2, <1>10, WiredGrows
<1> QED BY <1>1, <1>2, <1>3, <1>11 DEF WiredInv, Stored

LEMMA BySideKeepsWired ==
    ASSUME WiredInv, NEW c \in DOMAIN Deploys, DeployBySide(c)
    PROVE  WiredInv'
<1> DEFINE args == [i \in DOMAIN Arguments(c) |-> AddressFor(Arguments(c)[i])]
           d == [kind |-> c, args |-> args]
<1>1. DeployInv'
  BY OthersKeepInv DEF WiredInv
<1>2. /\ deployed' = Append(deployed, d) /\ ready
      /\ fixture' = fixture /\ step' = step /\ ready' = ready /\ controllers' = controllers
  BY DEF DeployBySide, DeployContract
<1>3. d.kind = c /\ d.args = args
  OBVIOUS
<1> HIDE DEF d, args
<1>4. \A f : Stored(f)
  BY <1>2 DEF Stored
<1>5. Wired(d)
  BY <1>3, <1>4, ContractFits DEF Wired, args
<1>6. WiredByName'
  BY <1>2, <1>5, WiredGrows
<1> QED BY <1>1, <1>2, <1>6 DEF WiredInv, Stored

LEMMA OthersKeepWired ==
    ASSUME WiredInv, StartInitialize \/ InitializeFails \/ UNCHANGED deployVars
    PROVE  WiredInv'
<1>1. DeployInv'
  BY OthersKeepInv DEF WiredInv
<1>2. fixture' = fixture /\ controllers' = controllers /\ deployed' = deployed
  BY DEF StartInitialize, InitializeFails, deployVars
<1>3. /\ ready' => ready /\ step' = step
      /\ step' \in {0, 1, step}
  BY DEF WiredInv, DeployInv, StartInitialize, InitializeFails, deployVars
<1>4. \A f \in Fields : Stored(f)' => Stored(f)
  BY <1>3, AllStored DEF Stored, WiredInv, DeployInv
<1>5. WiredByName'
  BY <1>2, WiredOneByOne DEF WiredInv
<1> QED BY <1>1, <1>2, <1>4, <1>5 DEF WiredInv

\* Deploy helpers (utils/deploys) and fixtures: whatever is deployed, by an initialize that
\* succeeds, fails or is repeated, by createSetToken or by a test, has in each constructor
\* parameter the contract that the parameter names, or the account it was given.
THEOREM EverythingIsWiredByName == DeploySpec => []WiredByName
<1>1. WiredInv /\ [DeployNext]_deployVars => WiredInv'
  BY InitializeStepKeepsWired, ControllerInitializeKeepsWired, CreateKeepsWired,
     BySideKeepsWired, OthersKeepWired DEF DeployNext
<1>2. WiredInv => WiredByName
  BY DEF WiredInv
<1> QED BY <1>1, <1>2, InitEstablishesWired, PTL DEF DeploySpec

-----------------------------------------------------------------------------
(* Trees: what is defined along the parents of the suites.                  *)

\* What holds at 0, and for each suite when it holds for its parent, holds for all.
LEMMA ParentInduction ==
    ASSUME NEW n \in Nat, NEW parent, \A s \in 1 .. n : parent[s] \in 0 .. s - 1,
           NEW P \in [0 .. n -> BOOLEAN], P[0], \A s \in 1 .. n : P[parent[s]] => P[s]
    PROVE  \A s \in 0 .. n : P[s]
<1> DEFINE R == {ss \in Nat \X Nat : ss[1] < ss[2]}
           T == {s \in 0 .. n : ~ P[s]}
<1>1. SUFFICES ASSUME T # {} PROVE FALSE
  OBVIOUS
<1>2. IsWellFoundedOn(R, Nat)
  BY Zenon, NatLessThanWellFounded DEF OpToRel
<1>3. T \subseteq Nat
  OBVIOUS
<1>4. PICK s \in T : \A r \in T : ~ (<<r, s>> \in R)
  BY Zenon, <1>1, <1>2, <1>3, WFMin
<1>5. s \in 1 .. n /\ ~ P[s]
  OBVIOUS
<1>6. parent[s] \in 0 .. s - 1
  BY <1>5
<1>7. parent[s] \in 0 .. n /\ <<parent[s], s>> \in R
  BY <1>5, <1>6
<1>8. P[parent[s]]
  BY <1>4, <1>7
<1> QED BY <1>5, <1>8

\* f takes a step from each suite's parent to the suite.
AlongParents(f, n, parent, zero, grow) ==
    f = [s \in 0 .. n |-> IF s = 0 THEN zero ELSE grow[s][f[parent[s]]]]

\* Steps within U can be taken along the parents.
LEMMA ParentRecursion ==
    ASSUME NEW n \in Nat, NEW parent, \A s \in 1 .. n : parent[s] \in 0 .. s - 1,
           NEW U, NEW zero \in U, NEW grow \in [1 .. n -> [U -> U]]
    PROVE  \E f \in [0 .. n -> U] : AlongParents(f, n, parent, zero, grow)
<1> USE DEF AlongParents
<1> DEFINE Runs(f, k) == f \in [0 .. k -> U] /\ AlongParents(f, k, parent, zero, grow)
           P == [k \in 0 .. n |-> \E f : Runs(f, k)]
           before == [k \in 1 .. n |-> k - 1]
<1>1. P \in [0 .. n -> BOOLEAN] /\ \A k \in 1 .. n : before[k] \in 0 .. k - 1
  OBVIOUS
<1>2. P[0]
  <2> DEFINE g == [i \in 0 .. 0 |-> zero]
  <2>1. \A i \in 0 .. 0 : i = 0
    OBVIOUS
  <2>2. Runs(g, 0)
    BY <2>1
  <2>3. P[0] = \E f : Runs(f, 0)
    BY 0 \in 0 .. n
  <2> QED BY Zenon, <2>2, <2>3
<1>3. ASSUME NEW k \in 1 .. n, P[before[k]] PROVE P[k]
  <2>1. before[k] = k - 1 /\ k - 1 \in 0 .. n /\ k \in 0 .. n
    OBVIOUS
  <2>2. PICK f : Runs(f, k - 1)
    BY Zenon, <1>3, <2>1
  <2> DEFINE g == [s \in 0 .. k |-> IF s = 0 THEN zero ELSE grow[s][f[parent[s]]]]
  <2>3. ASSUME NEW s \in 0 .. k, s # 0
        PROVE  /\ s \in 1 .. n /\ parent[s] \in 0 .. k - 1 /\ parent[s] \in 0 .. k
                /\ f[parent[s]] \in U
    <3>1. s \in 1 .. n
      BY <2>3
    <3>2. parent[s] \in 0 .. s - 1
      BY <3>1
    <3>3. parent[s] \in 0 .. k - 1 /\ parent[s] \in 0 .. k
      BY <2>3, <3>2
    <3> QED BY <2>2, <3>1, <3>3
  <2>4. g \in [0 .. k -> U]
    <3>1. ASSUME NEW s \in 0 .. k, s # 0 PROVE grow[s][f[parent[s]]] \in U
      BY <2>3, <3>1
    <3> QED BY <3>1
  <2>5. ASSUME NEW s \in 0 .. k - 1 PROVE g[s] = f[s]
    <3>1. s \in 0 .. k
      OBVIOUS
    <3>2. f[s] = IF s = 0 THEN zero ELSE grow[s][f[parent[s]]]
      BY <2>2
    <3>3. g[s] = IF s = 0 THEN zero ELSE grow[s][f[parent[s]]]
      BY <3>1
    <3> QED BY <3>2, <3>3
  <2>6. g = [s \in 0 .. k |-> IF s = 0 THEN zero ELSE grow[s][g[parent[s]]]]
    <3>1. ASSUME NEW s \in 0 .. k, s # 0 PROVE g[parent[s]] = f[parent[s]]
      BY <2>3, <2>5, <3>1
    <3> QED BY <3>1
  <2>7. Runs(g, k)
    BY <2>4, <2>6
  <2> QED BY <2>1, <2>7
<1> HIDE DEF P, before
<1>4. \A k \in 0 .. n : P[k]
  BY Zenon, <1>1, <1>2, <1>3, ParentInduction
<1>5. P[n]
  BY <1>4
<1> QED BY <1>5 DEF P

\* The tree that mocha runs is a tree, and its hooks are the places in its suites.
Parent(l) == Layouts[l].parent
Size(l) == Len(Layouts[l].hooks)

LEMMA TreeFacts ==
    ASSUME NEW l \in DOMAIN Layouts
    PROVE  /\ Size(l) \in Nat /\ Suites(l) = 1 .. Size(l)
           /\ \A s \in 1 .. Size(l) : Parent(l)[s] \in 0 .. s - 1
           /\ \A s \in 1 .. Size(l) : Layouts[l].hooks[s] \in Seq(HookKinds)
BY LayoutAssumption DEF Suites, Size, Parent

LEMMA HooksAre ==
    ASSUME NEW l
    PROVE  /\ \A s \in Suites(l) : \A i \in DOMAIN Layouts[l].hooks[s] : <<s, i>> \in Hooks(l)
           /\ \A h \in Hooks(l) : /\ h[1] \in Suites(l) /\ h[2] \in DOMAIN Layouts[l].hooks[h[1]]
                                  /\ h = <<h[1], h[2]>>
BY DEF Hooks

LEMMA AroundFacts ==
    ASSUME NEW l \in DOMAIN Layouts
    PROVE  /\ Around[l] \in [0 .. Size(l) -> SUBSET (1 .. Size(l))]
           /\ Around[l][0] = {}
           /\ \A s \in 1 .. Size(l) : Around[l][s] = Around[l][Parent(l)[s]] \cup {s}
<1> DEFINE n == Size(l)
           U == SUBSET (1 .. n)
           grow == [s \in 1 .. n |-> [a \in U |-> a \cup {s}]]
           Is(f) == f = [s \in 0 .. Size(l) |->
                           IF s = 0 THEN {} ELSE f[Layouts[l].parent[s]] \cup {s}]
<1>1. n \in Nat /\ \A s \in 1 .. n : Parent(l)[s] \in 0 .. s - 1
  BY TreeFacts
<1>2. {} \in U /\ grow \in [1 .. n -> [U -> U]]
  OBVIOUS
<1>3. PICK f \in [0 .. n -> U] : AlongParents(f, n, Parent(l), {}, grow)
  <2> HIDE DEF n, U, grow
  <2> QED BY ZenonT(60), <1>1, <1>2, ParentRecursion
<1>4. Is(f)
  <2>1. ASSUME NEW s \in 0 .. n, s # 0
        PROVE  grow[s][f[Parent(l)[s]]] = f[Parent(l)[s]] \cup {s}
    <3>1. s \in 1 .. n
      BY <2>1
    <3>2. Parent(l)[s] \in 0 .. n
      BY <1>1, <3>1
    <3>3. f[Parent(l)[s]] \in U
      BY <1>3, <3>2
    <3> QED BY <3>1, <3>3
  <2>2. f = [s \in 0 .. n |-> IF s = 0 THEN {} ELSE grow[s][f[Parent(l)[s]]]]
    BY <1>3 DEF AlongParents
  <2> HIDE DEF grow, U
  <2> QED BY <2>1, <2>2 DEF Parent
<1>5. Around[l] = CHOOSE g : Is(g)
  BY DEF Around, Size
<1>6. Is(Around[l])
  <2> HIDE DEF Is
  <2> QED BY Zenon, <1>4, <1>5
<1>7. \A s \in 0 .. n : Around[l][s] \in U
  <2> DEFINE P == [s \in 0 .. n |-> Around[l][s] \in U]
  <2>1. P \in [0 .. n -> BOOLEAN]
    OBVIOUS
  <2>2. P[0]
    <3>1. 0 \in 0 .. n /\ Around[l][0] = {}
      BY <1>1, <1>6
    <3> QED BY <3>1
  <2>3. ASSUME NEW s \in 1 .. n, P[Parent(l)[s]] PROVE P[s]
    <3>1. Parent(l)[s] \in 0 .. n /\ s \in 0 .. n /\ s # 0
      BY <1>1
    <3>2. Around[l][Parent(l)[s]] \in U
      BY <2>3, <3>1
    <3>3. Around[l][s] = Around[l][Parent(l)[s]] \cup {s}
      BY <1>6, <3>1 DEF Parent
    <3>4. Around[l][s] \in U
      BY <3>2, <3>3
    <3> QED BY Zenon, <3>1, <3>4
  <2> HIDE DEF P
  <2>4. \A s \in 0 .. n : P[s]
    BY Zenon, <1>1, <2>1, <2>2, <2>3, ParentInduction
  <2> QED BY <2>4 DEF P
<1>8. Around[l] \in [0 .. n -> U]
  BY <1>6, <1>7
<1>9. Around[l][0] = {} /\ \A s \in 1 .. n : Around[l][s] = Around[l][Parent(l)[s]] \cup {s}
  BY SMTT(30), <1>1, <1>6 DEF Parent
<1> QED BY <1>8, <1>9

\* The suites around a suite were written before it.
LEMMA AroundBelow ==
    ASSUME NEW l \in DOMAIN Layouts
    PROVE  \A s \in 0 .. Size(l) : Around[l][s] \subseteq 1 .. s
<1> DEFINE P == [s \in 0 .. Size(l) |-> Around[l][s] \subseteq 1 .. s]
<1>1. Size(l) \in Nat /\ \A s \in 1 .. Size(l) : Parent(l)[s] \in 0 .. s - 1
  BY TreeFacts
<1>2. P \in [0 .. Size(l) -> BOOLEAN] /\ P[0]
  <2>1. 0 \in 0 .. Size(l) /\ Around[l][0] = {}
    BY <1>1, AroundFacts
  <2> QED BY <2>1
<1>3. ASSUME NEW s \in 1 .. Size(l), P[Parent(l)[s]] PROVE P[s]
  <2>1. Parent(l)[s] \in 0 .. s - 1 /\ Parent(l)[s] \in 0 .. Size(l)
    BY <1>1
  <2>2. Around[l][Parent(l)[s]] \subseteq 1 .. Parent(l)[s]
    BY <1>3, <2>1
  <2>3. Around[l][s] = Around[l][Parent(l)[s]] \cup {s}
    BY AroundFacts
  <2>4. Around[l][s] \subseteq 1 .. s
    BY <2>1, <2>2, <2>3
  <2>5. s \in 0 .. Size(l)
    OBVIOUS
  <2> QED BY Zenon, <2>4, <2>5
<1> HIDE DEF P
<1>4. \A s \in 0 .. Size(l) : P[s]
  BY Zenon, <1>1, <1>2, <1>3, ParentInduction
<1> QED BY <1>4 DEF P

\* Of a suite and one around it, the outermost is the same.
LEMMA SameOutermost ==
    ASSUME NEW l \in DOMAIN Layouts, NEW r \in 1 .. Size(l), Parent(l)[r] = 0
    PROVE  \A s \in 0 .. Size(l) : r \in Around[l][s] => \A t \in Around[l][s] : r \in Around[l][t]
<1> DEFINE P == [s \in 0 .. Size(l) |->
                   r \in Around[l][s] => \A t \in Around[l][s] : r \in Around[l][t]]
<1>1. Size(l) \in Nat /\ \A s \in 1 .. Size(l) : Parent(l)[s] \in 0 .. s - 1
  BY TreeFacts
<1>2. P \in [0 .. Size(l) -> BOOLEAN] /\ P[0]
  <2>1. 0 \in 0 .. Size(l) /\ Around[l][0] = {}
    BY <1>1, AroundFacts
  <2> QED BY <2>1
<1>3. ASSUME NEW s \in 1 .. Size(l), P[Parent(l)[s]] PROVE P[s]
  <2>1. Parent(l)[s] \in 0 .. Size(l)
    BY <1>1
  <2>2. r \in Around[l][Parent(l)[s]] => \A t \in Around[l][Parent(l)[s]] : r \in Around[l][t]
    BY <1>3, <2>1
  <2>3. Around[l][s] = Around[l][Parent(l)[s]] \cup {s} /\ Around[l][0] = {}
    BY AroundFacts
  <2>4. ASSUME r \in Around[l][s], NEW t \in Around[l][s] PROVE r \in Around[l][t]
    <3>1. CASE t = s
      BY <2>4, <3>1
    <3>2. CASE t # s
      <4>1. t \in Around[l][Parent(l)[s]]
        BY <2>3, <3>2
      <4>2. r \in Around[l][Parent(l)[s]]
        BY <2>3, <2>4, <4>1
      <4> QED BY <2>2, <4>1, <4>2
    <3> QED BY <3>1, <3>2
  <2>5. s \in 0 .. Size(l)
    OBVIOUS
  <2> QED BY Zenon, <2>4, <2>5
<1> HIDE DEF P
<1>4. \A s \in 0 .. Size(l) : P[s]
  BY Zenon, <1>1, <1>2, <1>3, ParentInduction
<1> QED BY <1>4 DEF P

-----------------------------------------------------------------------------
(* The hooks that are run for a test.                                       *)

\* q lists the first i hooks of suite s that are of these kinds.
ListsUpTo(l, s, kinds, q, i) ==
    /\ q \in Seq(Hooks(l))
    /\ \A k \in DOMAIN q : q[k][1] = s /\ q[k][2] <= i /\ KindIn(l, q[k]) \in kinds
    /\ \A j, k \in DOMAIN q : j < k => q[j][2] < q[k][2]
    /\ \A h \in Hooks(l) : h[1] = s /\ h[2] <= i /\ KindIn(l, h) \in kinds =>
          \E k \in DOMAIN q : q[k] = h

\* A hook of these kinds is added to such a list, any other is left out.
LEMMA ListsOneMore ==
    ASSUME NEW l \in DOMAIN Layouts, NEW s \in 1 .. Size(l), NEW kinds,
           NEW i \in 1 .. Len(Layouts[l].hooks[s]), NEW q, ListsUpTo(l, s, kinds, q, i - 1)
    PROVE  ListsUpTo(l, s, kinds,
               IF Layouts[l].hooks[s][i] \in kinds THEN Append(q, <<s, i>>) ELSE q, i)
<1> DEFINE new == <<s, i>>
<1>1. new \in Hooks(l) /\ KindIn(l, new) = Layouts[l].hooks[s][i]
  BY SMTT(30), TreeFacts, HooksAre DEF KindIn
<1>2. /\ q \in Seq(Hooks(l)) /\ Len(q) \in Nat /\ DOMAIN q = 1 .. Len(q)
      /\ i \in Nat /\ i - 1 <= i /\ \A x \in Int : x <= i <=> x <= i - 1 \/ x = i
  BY TreeFacts DEF ListsUpTo
<1>3. \A h \in Hooks(l) : h[2] \in Nat /\ h = <<h[1], h[2]>>
  <2>1. ASSUME NEW h \in Hooks(l) PROVE h[2] \in Nat
    <3>1. h[1] \in 1 .. Size(l) /\ h[2] \in DOMAIN Layouts[l].hooks[h[1]]
      BY TreeFacts, HooksAre
    <3>2. Layouts[l].hooks[h[1]] \in Seq(HookKinds)
      BY TreeFacts, <3>1
    <3> QED BY <3>1, <3>2
  <2> QED BY <2>1, HooksAre
<1>4. \A k \in DOMAIN q : q[k] \in Hooks(l)
  BY <1>2
<1>5. CASE Layouts[l].hooks[s][i] \in kinds
  <2> DEFINE p == Append(q, new)
  <2>1. /\ p \in Seq(Hooks(l)) /\ DOMAIN p = 1 .. Len(q) + 1 /\ Len(p) = Len(q) + 1
        /\ p[Len(q) + 1] = new /\ \A k \in DOMAIN q : p[k] = q[k]
    BY <1>1, <1>2
  <2>2. \A k \in DOMAIN p : k \in DOMAIN q \/ k = Len(q) + 1
    BY <1>2, <2>1
  <2> HIDE DEF p
  <2>3. \A k \in DOMAIN p : p[k][1] = s /\ p[k][2] <= i /\ KindIn(l, p[k]) \in kinds
    <3>1. ASSUME NEW k \in DOMAIN q
          PROVE  p[k][1] = s /\ p[k][2] <= i /\ KindIn(l, p[k]) \in kinds
      <4>1. q[k][2] \in Nat /\ q[k][2] <= i - 1 /\ q[k][1] = s /\ KindIn(l, q[k]) \in kinds
        BY <1>3, <1>4 DEF ListsUpTo
      <4> QED BY <1>2, <2>1, <4>1
    <3>2. new[1] = s /\ new[2] <= i /\ KindIn(l, new) \in kinds
      BY <1>1, <1>2, <1>5
    <3> HIDE DEF new
    <3> QED BY <2>1, <2>2, <3>1, <3>2
  <2>4. \A j, k \in DOMAIN p : j < k => p[j][2] < p[k][2]
    <3>1. ASSUME NEW j \in DOMAIN p, NEW k \in DOMAIN p, j < k PROVE p[j][2] < p[k][2]
      <4>1. j \in DOMAIN q
        BY <1>2, <2>1, <3>1
      <4>2. CASE k \in DOMAIN q
        BY <2>1, <3>1, <4>1, <4>2 DEF ListsUpTo
      <4>3. CASE k = Len(q) + 1
        <5>1. q[j][2] \in Nat /\ q[j][2] <= i - 1
          BY <1>3, <1>4, <4>1 DEF ListsUpTo
        <5> QED BY <1>2, <2>1, <4>1, <4>3, <5>1
      <4> QED BY <2>2, <4>2, <4>3
    <3> QED BY <3>1
  <2>5. ASSUME NEW h \in Hooks(l), h[1] = s, h[2] <= i, KindIn(l, h) \in kinds
        PROVE  \E k \in DOMAIN p : p[k] = h
    <3>1. CASE h[2] <= i - 1
      <4>1. PICK k \in DOMAIN q : q[k] = h
        BY <2>5, <3>1 DEF ListsUpTo
      <4> QED BY <1>2, <2>1, <4>1
    <3>2. CASE h[2] = i
      <4>1. h = new
        BY <1>3, <2>5, <3>2
      <4>2. Len(q) + 1 \in DOMAIN p
        BY <1>2, <2>1
      <4> QED BY <2>1, <4>1, <4>2
    <3> QED BY <1>2, <1>3, <2>5, <3>1, <3>2
  <2>6. p = IF Layouts[l].hooks[s][i] \in kinds THEN Append(q, <<s, i>>) ELSE q
    BY <1>5 DEF p
  <2>7. ListsUpTo(l, s, kinds, p, i)
    BY <2>1, <2>3, <2>4, <2>5 DEF ListsUpTo
  <2> QED BY Zenon, <2>6, <2>7
<1>6. CASE Layouts[l].hooks[s][i] \notin kinds
  <2>1. \A k \in DOMAIN q : q[k][2] <= i
    <3>1. \A k \in DOMAIN q : q[k][2] \in Nat /\ q[k][2] <= i - 1
      BY <1>3, <1>4 DEF ListsUpTo
    <3> QED BY <1>2, <3>1
  <2>2. ASSUME NEW h \in Hooks(l), h[1] = s, h[2] <= i, KindIn(l, h) \in kinds
        PROVE  \E k \in DOMAIN q : q[k] = h
    <3>1. h[2] # i
      BY <1>6, <2>2 DEF KindIn
    <3>2. h[2] <= i - 1
      BY <1>2, <1>3, <2>2, <3>1
    <3> QED BY <2>2, <3>2 DEF ListsUpTo
  <2>3. ListsUpTo(l, s, kinds, q, i)
    BY <2>1, <2>2 DEF ListsUpTo
  <2> QED BY <1>6, <2>3
<1> QED BY <1>5, <1>6

\* HooksIn lists the hooks of the suite that are of these kinds.
LEMMA HooksInLists ==
    ASSUME NEW l \in DOMAIN Layouts, NEW s \in 1 .. Size(l), NEW kinds
    PROVE  ListsUpTo(l, s, kinds, HooksIn(l, s, kinds), Len(Layouts[l].hooks[s]))
<1> DEFINE m == Len(Layouts[l].hooks[s])
           U == Seq(Hooks(l))
           before == [i \in 1 .. m |-> i - 1]
           grow == [i \in 1 .. m |-> [q \in U |->
                      IF Layouts[l].hooks[s][i] \in kinds THEN Append(q, <<s, i>>) ELSE q]]
           Is(f) == f = [i \in 0 .. Len(Layouts[l].hooks[s]) |->
                           IF i = 0 THEN <<>>
                           ELSE IF Layouts[l].hooks[s][i] \in kinds
                                THEN Append(f[i - 1], <<s, i>>) ELSE f[i - 1]]
<1>1. /\ m \in Nat /\ DOMAIN Layouts[l].hooks[s] = 1 .. m
      /\ \A i \in 1 .. m : before[i] \in 0 .. i - 1
  BY TreeFacts
<1>2. <<>> \in U /\ grow \in [1 .. m -> [U -> U]]
  <2>1. \A i \in 1 .. m : <<s, i>> \in Hooks(l)
    BY <1>1, TreeFacts, HooksAre
  <2> QED BY <2>1
<1>3. PICK f \in [0 .. m -> U] : AlongParents(f, m, before, <<>>, grow)
  <2> HIDE DEF m, U, before, grow
  <2> QED BY ZenonT(60), <1>1, <1>2, ParentRecursion
<1>4. Is(f)
  <2>1. ASSUME NEW i \in 0 .. m, i # 0
        PROVE  grow[i][f[before[i]]] = IF Layouts[l].hooks[s][i] \in kinds
                                       THEN Append(f[i - 1], <<s, i>>) ELSE f[i - 1]
    <3>1. i \in 1 .. m /\ before[i] = i - 1 /\ i - 1 \in 0 .. m
      <4>1. m \in Nat
        BY Zenon, <1>1
      <4> HIDE DEF m
      <4> QED BY <2>1, <4>1
    <3> HIDE DEF U, m, before
    <3>2. f[i - 1] \in U
      BY Zenon, <1>3, <3>1
    <3>3. grow[i] = [q \in U |->
                       IF Layouts[l].hooks[s][i] \in kinds THEN Append(q, <<s, i>>) ELSE q]
      BY Zenon, <3>1
    <3> HIDE DEF grow
    <3> QED BY Zenon, <3>1, <3>2, <3>3
  <2>2. f = [i \in 0 .. m |-> IF i = 0 THEN <<>> ELSE grow[i][f[before[i]]]]
    BY <1>3 DEF AlongParents
  <2> HIDE DEF grow, U, before
  <2> QED BY <2>1, <2>2
<1> DEFINE upTo == CHOOSE g : Is(g)
<1>5. HooksIn(l, s, kinds) = upTo[m]
  BY DEF HooksIn
<1>6. Is(upTo)
  <2> HIDE DEF Is
  <2> QED BY Zenon, <1>4
<1> HIDE DEF upTo
<1>7. \A i \in 0 .. m : ListsUpTo(l, s, kinds, upTo[i], i)
  <2> DEFINE P == [i \in 0 .. m |-> ListsUpTo(l, s, kinds, upTo[i], i)]
  <2>1. P \in [0 .. m -> BOOLEAN]
    BY DEF ListsUpTo
  <2>2. P[0]
    <3>1. 0 \in 0 .. m /\ upTo[0] = <<>>
      BY <1>1, <1>6
    <3>2. ASSUME NEW h \in Hooks(l), h[1] = s PROVE ~ (h[2] <= 0)
      <4>1. h[2] \in 1 .. m
        BY <1>1, <3>2, HooksAre
      <4> QED BY <4>1
    <3>3. ListsUpTo(l, s, kinds, <<>>, 0)
      BY <3>2 DEF ListsUpTo
    <3> QED BY <3>1, <3>3
  <2>3. ASSUME NEW i \in 1 .. m, P[before[i]] PROVE P[i]
    <3>1. before[i] = i - 1 /\ i - 1 \in 0 .. m /\ i \in 0 .. m /\ i # 0
      BY <1>1
    <3>2. ListsUpTo(l, s, kinds, upTo[i - 1], i - 1)
      BY Zenon, <2>3, <3>1
    <3>3. upTo[i] = IF Layouts[l].hooks[s][i] \in kinds THEN Append(upTo[i - 1], <<s, i>>)
                    ELSE upTo[i - 1]
      BY <1>6, <3>1
    <3> DEFINE next == IF Layouts[l].hooks[s][i] \in kinds THEN Append(upTo[i - 1], <<s, i>>)
                       ELSE upTo[i - 1]
    <3>4. ListsUpTo(l, s, kinds, next, i)
      BY ZenonT(60), <3>2, ListsOneMore
    <3>5. upTo[i] = next
      BY Zenon, <3>3
    <3> HIDE DEF next
    <3>6. ListsUpTo(l, s, kinds, upTo[i], i)
      BY Zenon, <3>4, <3>5
    <3> QED BY Zenon, <3>1, <3>6
  <2> HIDE DEF P, m, before
  <2>4. \A i \in 0 .. m : P[i]
    BY ZenonT(60), <1>1, <2>1, <2>2, <2>3, ParentInduction
  <2> QED BY <2>4 DEF P
<1>8. m \in 0 .. m
  BY <1>1
<1> HIDE DEF Is
<1>9. ListsUpTo(l, s, kinds, upTo[m], m)
  <2> HIDE DEF m
  <2> QED BY Zenon, <1>7, <1>8
<1> QED BY <1>5, <1>9

\* Before a test, the hooks of a suite follow those of its parent.
LEMMA EachHooksFacts ==
    ASSUME NEW l \in DOMAIN Layouts
    PROVE  /\ EachHooksIn[l][0] = <<>>
           /\ \A s \in 1 .. Size(l) :
                EachHooksIn[l][s] = EachHooksIn[l][Parent(l)[s]] \o HooksIn(l, s, EachKinds)
<1> DEFINE n == Size(l)
           U == Seq(Hooks(l))
           own == [s \in 1 .. n |-> HooksIn(l, s, EachKinds)]
           grow == [s \in 1 .. n |-> [q \in U |-> q \o own[s]]]
           Is(f) == f = [s \in 0 .. Size(l) |->
                           IF s = 0 THEN <<>>
                           ELSE f[Layouts[l].parent[s]] \o HooksIn(l, s, EachKinds)]
<1>1. n \in Nat /\ \A s \in 1 .. n : Parent(l)[s] \in 0 .. s - 1
  BY TreeFacts
<1>2. <<>> \in U /\ grow \in [1 .. n -> [U -> U]]
  <2>1. \A s \in 1 .. n : HooksIn(l, s, EachKinds) \in U
    BY HooksInLists DEF ListsUpTo
  <2>2. \A s \in 1 .. n : own[s] \in U
    BY <2>1
  <2> HIDE DEF own
  <2>3. \A q \in U, r \in U : q \o r \in U
    OBVIOUS
  <2> HIDE DEF U
  <2>4. \A s \in 1 .. n : [q \in U |-> q \o own[s]] \in [U -> U]
    BY <2>2, <2>3
  <2>5. <<>> \in U
    BY DEF U
  <2> QED BY <2>4, <2>5
<1>3. PICK f \in [0 .. n -> U] : AlongParents(f, n, Parent(l), <<>>, grow)
  <2> HIDE DEF n, U, grow
  <2> QED BY ZenonT(60), <1>1, <1>2, ParentRecursion
<1>4. Is(f)
  <2>1. ASSUME NEW s \in 0 .. n, s # 0
        PROVE  grow[s][f[Parent(l)[s]]] = f[Layouts[l].parent[s]] \o HooksIn(l, s, EachKinds)
    <3>1. s \in 1 .. n
      BY <2>1
    <3>2. Parent(l)[s] \in 0 .. n
      BY <1>1, <3>1
    <3> HIDE DEF U
    <3>3. f[Parent(l)[s]] \in U
      BY Zenon, <1>3, <3>2
    <3> QED BY <3>1, <3>3 DEF Parent
  <2>2. f = [s \in 0 .. n |-> IF s = 0 THEN <<>> ELSE grow[s][f[Parent(l)[s]]]]
    BY ZenonT(60), <1>3 DEF AlongParents
  <2> HIDE DEF grow, U
  <2> QED BY Zenon, <2>1, <2>2
<1>5. EachHooksIn[l] = CHOOSE g : Is(g)
  BY DEF EachHooksIn, Size
<1>6. Is(EachHooksIn[l])
  <2> HIDE DEF Is
  <2> QED BY Zenon, <1>4, <1>5
<1>7. EachHooksIn[l][0] = <<>>
  <2>1. 0 \in 0 .. n
    <3>1. n \in Nat
      BY Zenon, <1>1
    <3> HIDE DEF n
    <3> QED BY <3>1
  <2> QED BY Zenon, <1>6, <2>1
<1>8. ASSUME NEW s \in 1 .. Size(l)
      PROVE  EachHooksIn[l][s] = EachHooksIn[l][Parent(l)[s]] \o HooksIn(l, s, EachKinds)
  <2>1. s \in 0 .. Size(l) /\ s # 0
    BY <1>1
  <2> QED BY <1>6, <2>1 DEF Parent
<1> QED BY <1>7, <1>8

\* After a test, the hooks of a suite come before those of its parent.
LEMMA AfterEachHooksFacts ==
    ASSUME NEW l \in DOMAIN Layouts
    PROVE  /\ AfterEachHooksIn[l][0] = <<>>
           /\ \A s \in 1 .. Size(l) :
                AfterEachHooksIn[l][s] =
                  HooksIn(l, s, {"snapshot"}) \o AfterEachHooksIn[l][Parent(l)[s]]
<1> DEFINE n == Size(l)
           U == Seq(Hooks(l))
           own == [s \in 1 .. n |-> HooksIn(l, s, {"snapshot"})]
           grow == [s \in 1 .. n |-> [q \in U |-> own[s] \o q]]
           Is(f) == f = [s \in 0 .. Size(l) |->
                           IF s = 0 THEN <<>>
                           ELSE HooksIn(l, s, {"snapshot"}) \o f[Layouts[l].parent[s]]]
<1>1. n \in Nat /\ \A s \in 1 .. n : Parent(l)[s] \in 0 .. s - 1
  BY TreeFacts
<1>2. <<>> \in U /\ grow \in [1 .. n -> [U -> U]]
  <2>1. \A s \in 1 .. n : HooksIn(l, s, {"snapshot"}) \in U
    BY HooksInLists DEF ListsUpTo
  <2>2. \A s \in 1 .. n : own[s] \in U
    BY <2>1
  <2> HIDE DEF own
  <2>3. \A q \in U, r \in U : q \o r \in U
    OBVIOUS
  <2> HIDE DEF U
  <2>4. \A s \in 1 .. n : [q \in U |-> own[s] \o q] \in [U -> U]
    BY <2>2, <2>3
  <2>5. <<>> \in U
    BY DEF U
  <2> QED BY <2>4, <2>5
<1>3. PICK f \in [0 .. n -> U] : AlongParents(f, n, Parent(l), <<>>, grow)
  <2> HIDE DEF n, U, grow
  <2> QED BY ZenonT(60), <1>1, <1>2, ParentRecursion
<1>4. Is(f)
  <2>1. ASSUME NEW s \in 0 .. n, s # 0
        PROVE  grow[s][f[Parent(l)[s]]] = HooksIn(l, s, {"snapshot"}) \o f[Layouts[l].parent[s]]
    <3>1. s \in 1 .. n
      BY <2>1
    <3>2. Parent(l)[s] \in 0 .. n
      BY <1>1, <3>1
    <3> HIDE DEF U
    <3>3. f[Parent(l)[s]] \in U
      BY Zenon, <1>3, <3>2
    <3> QED BY <3>1, <3>3 DEF Parent
  <2>2. f = [s \in 0 .. n |-> IF s = 0 THEN <<>> ELSE grow[s][f[Parent(l)[s]]]]
    BY ZenonT(60), <1>3 DEF AlongParents
  <2> HIDE DEF grow, U
  <2> QED BY Zenon, <2>1, <2>2
<1>5. AfterEachHooksIn[l] = CHOOSE g : Is(g)
  BY DEF AfterEachHooksIn, Size
<1>6. Is(AfterEachHooksIn[l])
  <2> HIDE DEF Is
  <2> QED BY Zenon, <1>4, <1>5
<1>7. AfterEachHooksIn[l][0] = <<>>
  <2>1. 0 \in 0 .. n
    <3>1. n \in Nat
      BY Zenon, <1>1
    <3> HIDE DEF n
    <3> QED BY <3>1
  <2> QED BY Zenon, <1>6, <2>1
<1>8. ASSUME NEW s \in 1 .. Size(l)
      PROVE  AfterEachHooksIn[l][s] =
               HooksIn(l, s, {"snapshot"}) \o AfterEachHooksIn[l][Parent(l)[s]]
  <2>1. s \in 0 .. Size(l) /\ s # 0
    BY <1>1
  <2> QED BY <1>6, <2>1 DEF Parent
<1> QED BY <1>7, <1>8

\* The hooks before a test are those of the suites around it, each after the ones that
\* were written earlier.
ListsBefore(l, s, q) ==
    /\ q \in Seq(Hooks(l))
    /\ \A i \in DOMAIN q : q[i][1] \in Around[l][s] /\ KindIn(l, q[i]) \in EachKinds
    /\ \A i, j \in DOMAIN q : i < j => EarlierHook(l, q[i], q[j])

LEMMA EachHooksList ==
    ASSUME NEW l \in DOMAIN Layouts
    PROVE  \A s \in 0 .. Size(l) : ListsBefore(l, s, EachHooksIn[l][s])
<1> DEFINE P == [s \in 0 .. Size(l) |-> ListsBefore(l, s, EachHooksIn[l][s])]
<1>1. Size(l) \in Nat /\ \A s \in 1 .. Size(l) : Parent(l)[s] \in 0 .. s - 1
  BY TreeFacts
<1>2. P \in [0 .. Size(l) -> BOOLEAN]
  BY DEF ListsBefore
<1>3. P[0]
  <2>1. 0 \in 0 .. Size(l) /\ EachHooksIn[l][0] = <<>>
    BY <1>1, EachHooksFacts
  <2>2. ListsBefore(l, 0, <<>>)
    BY DEF ListsBefore
  <2> QED BY <2>1, <2>2
<1>4. ASSUME NEW s \in 1 .. Size(l), P[Parent(l)[s]] PROVE P[s]
  <2> DEFINE p == Parent(l)[s]
             out == EachHooksIn[l][p]
             own == HooksIn(l, s, EachKinds)
             q == EachHooksIn[l][s]
  <2>1. p \in 0 .. s - 1 /\ p \in 0 .. Size(l) /\ s \in 0 .. Size(l) /\ s \notin 1 .. p
    BY <1>1
  <2>2. /\ out \in Seq(Hooks(l))
        /\ \A i \in DOMAIN out : out[i][1] \in Around[l][p] /\ KindIn(l, out[i]) \in EachKinds
        /\ \A i, j \in DOMAIN out : i < j => EarlierHook(l, out[i], out[j])
    BY Zenon, <1>4, <2>1 DEF ListsBefore
  <2>3. /\ own \in Seq(Hooks(l))
        /\ \A i \in DOMAIN own : own[i][1] = s /\ KindIn(l, own[i]) \in EachKinds
        /\ \A i, j \in DOMAIN own : i < j => own[i][2] < own[j][2]
    BY HooksInLists DEF ListsUpTo
  <2>4. q = out \o own
    BY EachHooksFacts
  <2>5. Around[l][s] = Around[l][p] \cup {s} /\ s \notin Around[l][p]
    BY <2>1, AroundFacts, AroundBelow
  <2> HIDE DEF p, out, own, q
  <2>6. /\ q \in Seq(Hooks(l)) /\ Len(out) \in Nat /\ Len(own) \in Nat
        /\ DOMAIN out = 1 .. Len(out) /\ DOMAIN own = 1 .. Len(own)
        /\ DOMAIN q = 1 .. Len(out) + Len(own)
        /\ \A i \in DOMAIN out : q[i] = out[i]
        /\ \A i \in DOMAIN q \ DOMAIN out :
              i - Len(out) \in DOMAIN own /\ q[i] = own[i - Len(out)]
    BY <2>2, <2>3, <2>4
  <2>7. ASSUME NEW i \in DOMAIN q
        PROVE  q[i][1] \in Around[l][s] /\ KindIn(l, q[i]) \in EachKinds
    <3>1. CASE i \in DOMAIN out
      BY <2>2, <2>5, <2>6, <3>1
    <3>2. CASE i \notin DOMAIN out
      BY <2>3, <2>5, <2>6, <3>2
    <3> QED BY <3>1, <3>2
  <2>8. ASSUME NEW i \in DOMAIN q, NEW j \in DOMAIN q, i < j
        PROVE  EarlierHook(l, q[i], q[j])
    <3>1. CASE j \in DOMAIN out
      <4>1. i \in DOMAIN out
        BY <2>6, <2>8, <3>1
      <4> QED BY <2>2, <2>6, <2>8, <3>1, <4>1
    <3>2. CASE i \in DOMAIN out /\ j \notin DOMAIN out
      <4>1. q[i][1] \in Around[l][p] /\ q[j][1] = s
        BY <2>2, <2>3, <2>6, <3>2
      <4> QED BY <2>5, <4>1 DEF EarlierHook
    <3>3. CASE i \notin DOMAIN out /\ j \notin DOMAIN out
      <4>1. i - Len(out) < j - Len(out)
        BY <2>6, <2>8
      <4>2. q[i][1] = s /\ q[j][1] = s /\ q[i][2] < q[j][2]
        BY <2>3, <2>6, <3>3, <4>1
      <4> QED BY <4>2 DEF EarlierHook
    <3> QED BY <3>1, <3>2, <3>3
  <2>9. ListsBefore(l, s, q)
    BY <2>6, <2>7, <2>8 DEF ListsBefore
  <2> QED BY Zenon, <2>1, <2>9 DEF q
<1> HIDE DEF P
<1>5. \A s \in 0 .. Size(l) : P[s]
  BY ZenonT(60), <1>1, <1>2, <1>3, <1>4, ParentInduction
<1> QED BY <1>5 DEF P

\* The hooks after a test are the snapshot hooks of the suites around it, all of them.
ListsAfter(l, s, q) ==
    /\ q \in Seq(Hooks(l))
    /\ \A i \in DOMAIN q : KindIn(l, q[i]) = "snapshot"
    /\ \A h \in Hooks(l) : h[1] \in Around[l][s] /\ KindIn(l, h) = "snapshot" =>
          \E i \in DOMAIN q : q[i] = h

LEMMA AfterEachHooksList ==
    ASSUME NEW l \in DOMAIN Layouts
    PROVE  \A s \in 0 .. Size(l) : ListsAfter(l, s, AfterEachHooksIn[l][s])
<1> DEFINE P == [s \in 0 .. Size(l) |-> ListsAfter(l, s, AfterEachHooksIn[l][s])]
<1>1. Size(l) \in Nat /\ \A s \in 1 .. Size(l) : Parent(l)[s] \in 0 .. s - 1
  BY TreeFacts
<1>2. P \in [0 .. Size(l) -> BOOLEAN]
  BY DEF ListsAfter
<1>3. P[0]
  <2>1. 0 \in 0 .. Size(l) /\ AfterEachHooksIn[l][0] = <<>> /\ Around[l][0] = {}
    BY <1>1, AfterEachHooksFacts, AroundFacts
  <2>2. ListsAfter(l, 0, <<>>)
    BY <2>1 DEF ListsAfter
  <2> QED BY <2>1, <2>2
<1>4. ASSUME NEW s \in 1 .. Size(l), P[Parent(l)[s]] PROVE P[s]
  <2> DEFINE p == Parent(l)[s]
             out == AfterEachHooksIn[l][p]
             own == HooksIn(l, s, {"snapshot"})
             q == AfterEachHooksIn[l][s]
  <2>1. p \in 0 .. Size(l) /\ s \in 0 .. Size(l)
    BY <1>1
  <2>2. /\ out \in Seq(Hooks(l))
        /\ \A i \in DOMAIN out : KindIn(l, out[i]) = "snapshot"
        /\ \A h \in Hooks(l) : h[1] \in Around[l][p] /\ KindIn(l, h) = "snapshot" =>
              \E i \in DOMAIN out : out[i] = h
    BY Zenon, <1>4, <2>1 DEF ListsAfter
  <2>3. /\ own \in Seq(Hooks(l))
        /\ \A i \in DOMAIN own : KindIn(l, own[i]) = "snapshot"
        /\ \A h \in Hooks(l) : h[1] = s /\ KindIn(l, h) = "snapshot" =>
              \E i \in DOMAIN own : own[i] = h
    <3>1. ListsUpTo(l, s, {"snapshot"}, own, Len(Layouts[l].hooks[s]))
      BY HooksInLists
    <3>2. \A h \in Hooks(l) : h[1] = s => h[2] <= Len(Layouts[l].hooks[s])
      BY TreeFacts, HooksAre
    <3> QED BY <3>1, <3>2 DEF ListsUpTo
  <2>4. q = own \o out
    BY AfterEachHooksFacts
  <2>5. Around[l][s] = Around[l][p] \cup {s}
    BY AroundFacts
  <2> HIDE DEF p, out, own, q
  <2>6. /\ q \in Seq(Hooks(l)) /\ Len(out) \in Nat /\ Len(own) \in Nat
        /\ DOMAIN out = 1 .. Len(out) /\ DOMAIN own = 1 .. Len(own)
        /\ DOMAIN q = 1 .. Len(own) + Len(out)
        /\ \A i \in DOMAIN own : q[i] = own[i]
        /\ \A i \in DOMAIN out : Len(own) + i \in DOMAIN q /\ q[Len(own) + i] = out[i]
        /\ \A i \in DOMAIN q \ DOMAIN own :
              i - Len(own) \in DOMAIN out /\ q[i] = out[i - Len(own)]
    BY <2>2, <2>3, <2>4
  <2>7. ASSUME NEW i \in DOMAIN q PROVE KindIn(l, q[i]) = "snapshot"
    <3>1. CASE i \in DOMAIN own
      BY <2>3, <2>6, <3>1
    <3>2. CASE i \notin DOMAIN own
      BY <2>2, <2>6, <3>2
    <3> QED BY <3>1, <3>2
  <2>8. ASSUME NEW h \in Hooks(l), h[1] \in Around[l][s], KindIn(l, h) = "snapshot"
        PROVE  \E i \in DOMAIN q : q[i] = h
    <3>1. CASE h[1] = s
      <4>1. PICK i \in DOMAIN own : own[i] = h
        BY <2>3, <2>8, <3>1
      <4>2. i \in DOMAIN q
        BY <2>6
      <4> QED BY <2>6, <4>1, <4>2
    <3>2. CASE h[1] \in Around[l][p]
      <4>1. PICK i \in DOMAIN out : out[i] = h
        BY <2>2, <2>8, <3>2
      <4> QED BY <2>6, <4>1
    <3> QED BY <2>5, <2>8, <3>1, <3>2
  <2>9. ListsAfter(l, s, q)
    BY <2>6, <2>7, <2>8 DEF ListsAfter
  <2> QED BY Zenon, <2>1, <2>9 DEF q
<1> HIDE DEF P
<1>5. \A s \in 0 .. Size(l) : P[s]
  BY ZenonT(60), <1>1, <1>2, <1>3, <1>4, ParentInduction
<1> QED BY <1>5 DEF P

-----------------------------------------------------------------------------
(* The stack of snapshot ids.                                               *)

\* The ids of q, oldest first, are among D.
OrderedIn(q, D) ==
    /\ q \in Seq(D)
    /\ \A i, j \in DOMAIN q : i < j => q[i] < q[j]

LEMMA PushKeepsOrder ==
    ASSUME NEW D, D \subseteq Nat, NEW q, OrderedIn(q, D), NEW new \in Nat, \A d \in D : d < new
    PROVE  OrderedIn(Append(q, new), D \cup {new}) /\ Len(Append(q, new)) = Len(q) + 1
<1> DEFINE p == Append(q, new)
<1>1. /\ q \in Seq(D \cup {new}) /\ Len(q) \in Nat /\ DOMAIN q = 1 .. Len(q)
      /\ \A i \in DOMAIN q : q[i] \in D
  BY DEF OrderedIn
<1>2. /\ p \in Seq(D \cup {new}) /\ DOMAIN p = 1 .. Len(q) + 1 /\ Len(p) = Len(q) + 1
      /\ p[Len(q) + 1] = new /\ \A i \in DOMAIN q : p[i] = q[i]
  BY <1>1
<1> HIDE DEF p
<1>3. ASSUME NEW i \in DOMAIN p, NEW j \in DOMAIN p, i < j PROVE p[i] < p[j]
  <2>1. i \in DOMAIN q
    BY <1>1, <1>2, <1>3
  <2>2. CASE j \in DOMAIN q
    BY <1>2, <1>3, <2>1, <2>2 DEF OrderedIn
  <2>3. CASE j = Len(q) + 1
    BY <1>1, <1>2, <2>1, <2>3
  <2> QED BY <1>1, <1>2, <2>2, <2>3
<1>4. OrderedIn(p, D \cup {new})
  BY <1>2, <1>3 DEF OrderedIn
<1> QED BY <1>2, <1>4 DEF p

LEMMA PopKeepsOrder ==
    ASSUME NEW D, D \subseteq Nat, NEW q, OrderedIn(q, D), q # <<>>
    PROVE  /\ Last(q) \in D
           /\ OrderedIn(Front(q), {d \in D : d < Last(q)})
           /\ OrderedIn(Front(q), D)
           /\ Len(Front(q)) = Len(q) - 1
<1> DEFINE n == Len(q)
           E == {d \in D : d < Last(q)}
           p == Front(q)
<1>1. q \in Seq(D) /\ n \in Nat /\ n # 0 /\ DOMAIN q = 1 .. n /\ \A i \in DOMAIN q : q[i] \in D
  BY DEF OrderedIn
<1>2. Last(q) = q[n] /\ n \in DOMAIN q
  BY <1>1 DEF Last
<1>3. p = [i \in 1 .. n - 1 |-> q[i]]
  BY <1>1 DEF Front, SubSeq
<1>4. \A i \in 1 .. n - 1 : i \in DOMAIN q /\ p[i] = q[i] /\ q[i] \in E
  <2>1. ASSUME NEW i \in 1 .. n - 1 PROVE i \in DOMAIN q /\ p[i] = q[i] /\ q[i] \in D /\ i < n
    BY <1>1, <1>3
  <2> QED BY <1>2, <2>1 DEF OrderedIn
<1>5. n - 1 \in Nat
  BY <1>1
<1> HIDE DEF p, E, n
<1>6. p \in Seq(E) /\ Len(p) = n - 1 /\ DOMAIN p = 1 .. n - 1
  <2>1. p \in [1 .. n - 1 -> E]
    BY <1>3, <1>4
  <2> QED BY <1>5, <2>1
<1>7. OrderedIn(p, E)
  BY <1>4, <1>6 DEF OrderedIn
<1>8. OrderedIn(p, D)
  <2>1. p \in Seq(D)
    BY <1>6 DEF E
  <2> QED BY <1>7, <2>1 DEF OrderedIn
<1> QED BY <1>1, <1>2, <1>6, <1>7, <1>8 DEF p, E, n

LEMMA KeepsBelow ==
    ASSUME NEW D, D \subseteq Nat, NEW q, OrderedIn(q, D), NEW id,
           \A i \in DOMAIN q : q[i] < id
    PROVE  OrderedIn(q, {d \in D : d < id})
<1>1. q \in Seq(D) /\ \A i \in DOMAIN q : q[i] \in {d \in D : d < id}
  BY DEF OrderedIn
<1>2. q \in [1 .. Len(q) -> {d \in D : d < id}] /\ Len(q) \in Nat
  BY <1>1
<1>3. q \in Seq({d \in D : d < id})
  <2> DEFINE E == {d \in D : d < id}
  <2> HIDE DEF E
  <2>1. q \in [1 .. Len(q) -> E] /\ Len(q) \in Nat
    BY <1>2 DEF E
  <2>2. q \in Seq(E)
    BY <2>1
  <2> QED BY <2>2 DEF E
<1> QED BY <1>3 DEF OrderedIn

\* The hooks that are left after the first of a list.
LEMMA TailFacts ==
    ASSUME NEW S, NEW q \in Seq(S), q # <<>>
    PROVE  /\ Head(q) = q[1] /\ 1 \in DOMAIN q /\ Head(q) \in S
           /\ Tail(q) \in Seq(S)
           /\ \A i \in DOMAIN Tail(q) : i \in Nat /\ i + 1 \in DOMAIN q /\ Tail(q)[i] = q[i + 1]
           /\ \A i \in DOMAIN q : i = 1 \/ (i - 1 \in DOMAIN Tail(q) /\ Tail(q)[i - 1] = q[i])
<1>1. Len(q) \in Nat /\ Len(q) # 0 /\ DOMAIN q = 1 .. Len(q)
  OBVIOUS
<1>2. /\ Tail(q) \in Seq(S) /\ Len(Tail(q)) = Len(q) - 1 /\ DOMAIN Tail(q) = 1 .. Len(q) - 1
      /\ \A i \in 1 .. Len(q) - 1 : Tail(q)[i] = q[i + 1]
  BY <1>1
<1> QED BY <1>1, <1>2

-----------------------------------------------------------------------------
(* The stack of testingUtils.ts holds the ids of the caches around.         *)

\* Where mocha is in the tree.
RunnerPlaced ==
    /\ layout \in DOMAIN Layouts
    /\ cur \in 0 .. Size(layout)
    /\ Path(cur) \subseteq visited
    /\ phase \in {"next", "before", "each", "test", "afterEach", "after"}
    /\ phase = "after" => cur # 0

\* The ids on the stack, oldest first, are live.
StackOrdered ==
    /\ nextId \in Nat \ {0}
    /\ DOMAIN snapshots \subseteq 1 .. nextId - 1
    /\ OrderedIn(SNAPSHOTS, DOMAIN snapshots)

\* A cache that is initialized belongs to a suite that was entered.
CachesEntered ==
    /\ IsFiniteSet(initialized)
    /\ initialized \subseteq {h \in Hooks(layout) : Kind(h) = "cache" /\ h[1] \in visited}

\* What is left to run fits the phase.
TodoFits ==
    /\ todo \in Seq(Hooks(layout))
    /\ phase \in {"next", "test"} => todo = <<>>
    /\ phase = "before" => \A i \in DOMAIN todo : Kind(todo[i]) = "before"
    /\ phase = "each" => ListsBefore(layout, cur, todo)
    /\ phase = "afterEach" => \A i \in DOMAIN todo : Kind(todo[i]) = "snapshot"
    /\ phase = "after" =>
         /\ \A i \in DOMAIN todo : todo[i][1] = cur /\ Kind(todo[i]) = "cache"
         /\ \A i, j \in DOMAIN todo : i < j => todo[i] # todo[j]

\* Where a snapshot was taken for a test to go back to, and has not been gone back to,
\* the caches around are all older, and no other cache runs before it is gone.
Pending(h) ==
    /\ h[1] \in Path(cur)
    /\ \A i \in DOMAIN SNAPSHOTS : SNAPSHOTS[i] < snapshotId[h]
    /\ phase \in {"each", "test", "afterEach"}
    /\ phase = "each" => \A i \in DOMAIN todo : Kind(todo[i]) # "cache"
    /\ phase = "afterEach" => \E i \in DOMAIN todo : todo[i] = h

SavedLast ==
    /\ snapshotId \in [Hooks(layout) -> Nat]
    /\ \A h \in Hooks(layout) : snapshotId[h] < nextId
    /\ \A h \in Hooks(layout) :
          Kind(h) = "snapshot" /\ snapshotId[h] \in DOMAIN snapshots => Pending(h)

\* One id for each initialized cache of the suites that are being run.
StackCounts == Len(SNAPSHOTS) = Cardinality(openCaches \ closing)

SandboxInv == RunnerPlaced /\ StackOrdered /\ CachesEntered /\ TodoFits /\ SavedLast /\ StackCounts

LEMMA InitEstablishesSandboxInv == SandboxInit => SandboxInv
<1> SUFFICES ASSUME SandboxInit PROVE SandboxInv
  OBVIOUS
<1>1. RunnerPlaced
  <2>1. layout \in DOMAIN Layouts /\ cur = 0 /\ visited = {} /\ phase = "next"
    BY DEF SandboxInit
  <2>2. Size(layout) \in Nat /\ Around[layout][0] = {}
    BY <2>1, TreeFacts, AroundFacts
  <2> QED BY <2>1, <2>2 DEF RunnerPlaced, Path
<1>2. StackOrdered
  <2>1. DOMAIN snapshots = {} /\ nextId = 1 /\ SNAPSHOTS = <<>>
    BY DEF SandboxInit
  <2> QED BY <2>1 DEF StackOrdered, OrderedIn
<1>3. CachesEntered
  BY FS_EmptySet DEF SandboxInit, CachesEntered
<1>4. TodoFits
  BY DEF SandboxInit, TodoFits
<1>5. SavedLast
  BY DEF SandboxInit, SavedLast
<1>6. StackCounts
  <2>1. SNAPSHOTS = <<>> /\ openCaches \ closing = {}
    BY DEF SandboxInit, openCaches
  <2> QED BY <2>1, FS_EmptySet DEF StackCounts
<1> QED BY <1>1, <1>2, <1>3, <1>4, <1>5, <1>6 DEF SandboxInv

\* When neither the chain's snapshots nor the stack change, and the caches in use are the
\* same, the stack is as it was.
LEMMA StackStays ==
    ASSUME StackOrdered, StackCounts, UNCHANGED <<snapshots, nextId, SNAPSHOTS>>,
           (openCaches \ closing)' = openCaches \ closing
    PROVE  StackOrdered' /\ StackCounts'
<1>1. StackOrdered'
  BY DEF StackOrdered, OrderedIn
<1> QED BY <1>1 DEF StackCounts

LEMMA NextTestKeeps == SandboxInv /\ NextTest => SandboxInv'
<1> SUFFICES ASSUME SandboxInv, NextTest PROVE SandboxInv'
  OBVIOUS
<1> USE DEF SandboxInv
<1>1. /\ phase = "next" /\ phase' = "each" /\ todo' = EachHooks(cur)
      /\ UNCHANGED <<layout, nodeVars, scriptVars, cur, visited>>
  BY DEF NextTest
<1>2. ListsBefore(layout, cur, EachHooks(cur))
  BY EachHooksList DEF RunnerPlaced, EachHooks
<1>3. RunnerPlaced'
  BY <1>1 DEF RunnerPlaced, Path
<1>4. (openCaches \ closing)' = openCaches \ closing
  BY <1>1 DEF scriptVars, openCaches, closing, Path
<1>5. StackOrdered' /\ StackCounts'
  BY <1>1, <1>4, StackStays DEF nodeVars, scriptVars
<1>6. CachesEntered'
  BY <1>1 DEF CachesEntered, scriptVars, Kind
<1>7. TodoFits'
  <2>1. todo' \in Seq(Hooks(layout'))
    BY <1>1, <1>2 DEF ListsBefore
  <2>2. ListsBefore(layout, cur, todo)'
    BY <1>1, <1>2
  <2> QED BY <1>1, <2>1, <2>2 DEF TodoFits
<1>8. SavedLast'
  BY <1>1 DEF SavedLast, Pending, nodeVars, scriptVars, Kind
<1> QED BY <1>3, <1>5, <1>6, <1>7, <1>8

\* There is a first suite among those left.
LEMMA FirstSuite ==
    ASSUME NEW T, T \subseteq Nat, T # {}
    PROVE  \E x \in T : \A y \in T : x <= y
<1> DEFINE R == {ss \in Nat \X Nat : ss[1] < ss[2]}
<1>1. IsWellFoundedOn(R, Nat)
  BY Zenon, NatLessThanWellFounded DEF OpToRel
<1>2. PICK x \in T : \A y \in T : ~ (<<y, x>> \in R)
  BY Zenon, <1>1, WFMin
<1>3. ASSUME NEW y \in T PROVE x <= y
  <2>1. x \in Nat /\ y \in Nat /\ ~ (y < x)
    BY <1>2
  <2> QED BY <2>1
<1> QED BY <1>3

LEMMA EnterSuiteKeeps == SandboxInv /\ EnterSuite => SandboxInv'
<1> SUFFICES ASSUME SandboxInv, EnterSuite PROVE SandboxInv'
  OBVIOUS
<1> USE DEF SandboxInv
<1> DEFINE c == CHOOSE c \in Unvisited : \A d \in Unvisited : c <= d
<1>1. /\ phase = "next" /\ phase' = "before" /\ cur' = c /\ visited' = visited \cup {c}
      /\ todo' = HooksOf(c, {"before"})
      /\ UNCHANGED <<layout, nodeVars, scriptVars>>
  BY DEF EnterSuite
<1>2. c \in Unvisited
  <2>1. layout \in DOMAIN Layouts
    BY DEF RunnerPlaced
  <2>2. Unvisited \subseteq Nat /\ Unvisited # {}
    BY <2>1, TreeFacts DEF EnterSuite, Unvisited
  <2>3. \E x \in Unvisited : \A y \in Unvisited : x <= y
    BY Zenon, <2>2, FirstSuite
  <2> QED BY Zenon, <2>3
<1> HIDE DEF c
<1>3. /\ layout \in DOMAIN Layouts /\ c \in 1 .. Size(layout) /\ c \notin visited
      /\ Parent(layout)[c] = cur /\ c \in 0 .. Size(layout) /\ c # 0
  <2>1. layout \in DOMAIN Layouts
    BY DEF RunnerPlaced
  <2>2. /\ c \in 1 .. Size(layout) /\ c \notin visited
        /\ Parent(layout)[c] = cur /\ Size(layout) \in Nat
    BY <1>2, <2>1, TreeFacts DEF Unvisited, Parent
  <2> QED BY <2>1, <2>2
<1>4. Path(c) = Path(cur) \cup {c}
  BY <1>3, AroundFacts DEF Path
<1>5. RunnerPlaced'
  <2>1. Path(c) \subseteq visited'
    BY <1>1, <1>4 DEF RunnerPlaced
  <2> QED BY <1>1, <1>3, <2>1 DEF RunnerPlaced, Path
<1>6. (openCaches \ closing)' = openCaches \ closing
  <2>1. \A h \in initialized : h[1] # c
    BY <1>3 DEF CachesEntered
  <2>2. Path(cur)' = Path(cur) \cup {c}
    BY <1>1, <1>4 DEF Path
  <2> QED BY <1>1, <2>1, <2>2 DEF scriptVars, openCaches, closing
<1>7. StackOrdered' /\ StackCounts'
  BY <1>1, <1>6, StackStays DEF nodeVars, scriptVars
<1>8. CachesEntered'
  BY <1>1 DEF CachesEntered, scriptVars, Kind
<1>9. TodoFits'
  <2>1. ListsUpTo(layout, c, {"before"}, todo', Len(Layouts[layout].hooks[c]))
    BY <1>1, <1>3, HooksInLists DEF HooksOf
  <2> QED BY <1>1, <2>1 DEF TodoFits, ListsUpTo, Kind
<1>10. SavedLast'
  BY <1>1 DEF SavedLast, Pending, nodeVars, scriptVars, Kind
<1> QED BY <1>5, <1>7, <1>8, <1>9, <1>10

LEMMA LeaveSuiteKeeps == SandboxInv /\ LeaveSuite => SandboxInv'
<1> SUFFICES ASSUME SandboxInv, LeaveSuite PROVE SandboxInv'
  OBVIOUS
<1> USE DEF SandboxInv
<1>1. /\ phase = "next" /\ phase' = "after" /\ cur # 0 /\ todo' = HooksOf(cur, {"cache"})
      /\ UNCHANGED <<layout, nodeVars, scriptVars, cur, visited>>
  BY DEF LeaveSuite
<1>2. layout \in DOMAIN Layouts /\ cur \in 1 .. Size(layout)
  BY <1>1, TreeFacts DEF RunnerPlaced
<1>3. ListsUpTo(layout, cur, {"cache"}, todo', Len(Layouts[layout].hooks[cur]))
  BY <1>1, <1>2, HooksInLists DEF HooksOf
<1>4. RunnerPlaced'
  BY <1>1 DEF RunnerPlaced, Path
<1>5. (openCaches \ closing)' = openCaches \ closing
  <2>1. ASSUME NEW h \in initialized, h[1] = cur PROVE h \in ToSet(todo')
    <3>1. h \in Hooks(layout) /\ KindIn(layout, h) = "cache"
      BY DEF CachesEntered, Kind
    <3>2. h[2] <= Len(Layouts[layout].hooks[cur])
      BY <1>2, <2>1, <3>1, HooksAre, TreeFacts
    <3>3. PICK k \in DOMAIN todo' : todo'[k] = h
      BY <1>3, <2>1, <3>1, <3>2 DEF ListsUpTo
    <3> QED BY <3>3 DEF ToSet
  <2>2. closing' = {} /\ closing = {}
    BY <1>1, <2>1 DEF closing, scriptVars
  <2>3. openCaches' = openCaches
    BY <1>1 DEF openCaches, scriptVars, Path
  <2> QED BY <2>2, <2>3
<1>6. StackOrdered' /\ StackCounts'
  BY <1>1, <1>5, StackStays DEF nodeVars, scriptVars
<1>7. CachesEntered'
  BY <1>1 DEF CachesEntered, scriptVars, Kind
<1>8. TodoFits'
  <2>1. ASSUME NEW i \in DOMAIN todo', NEW j \in DOMAIN todo', i < j PROVE todo'[i] # todo'[j]
    <3>1. todo'[j] \in Hooks(layout)
      BY <1>3 DEF ListsUpTo
    <3>2. todo'[j][2] \in Nat
      <4>1. /\ todo'[j][1] \in Suites(layout)
            /\ todo'[j][2] \in DOMAIN Layouts[layout].hooks[todo'[j][1]]
        BY Zenon, <3>1, HooksAre
      <4>2. Layouts[layout].hooks[todo'[j][1]] \in Seq(HookKinds)
        <5>1. todo'[j][1] \in 1 .. Size(layout)
          BY Zenon, <1>2, <4>1, TreeFacts
        <5> QED BY Zenon, <1>2, <5>1, TreeFacts
      <4> DEFINE own == Layouts[layout].hooks[todo'[j][1]]
      <4>3. DOMAIN own = 1 .. Len(own) /\ Len(own) \in Nat
        BY <4>2
      <4> QED BY <4>1, <4>3
    <3>3. todo'[i][2] < todo'[j][2]
      BY <1>3, <2>1 DEF ListsUpTo
    <3> QED BY <3>2, <3>3
  <2> QED BY <1>1, <1>3, <2>1 DEF TodoFits, ListsUpTo, Kind
<1>9. SavedLast'
  BY <1>1 DEF SavedLast, Pending, nodeVars, scriptVars, Kind
<1> QED BY <1>4, <1>6, <1>7, <1>8, <1>9

LEMMA RunTestKeeps == SandboxInv /\ RunTest => SandboxInv'
<1> SUFFICES ASSUME SandboxInv, RunTest PROVE SandboxInv'
  OBVIOUS
<1> USE DEF SandboxInv
<1>1. /\ phase = "test" /\ phase' = "afterEach" /\ todo' = AfterEachHooks(cur)
      /\ UNCHANGED <<layout, snapshots, nextId, scriptVars, cur, visited>>
  BY DEF RunTest
<1>2. ListsAfter(layout, cur, todo')
  BY <1>1, AfterEachHooksList DEF RunnerPlaced, AfterEachHooks
<1>3. RunnerPlaced'
  BY <1>1 DEF RunnerPlaced, Path
<1>4. (openCaches \ closing)' = openCaches \ closing
  BY <1>1 DEF scriptVars, openCaches, closing, Path
<1>5. StackOrdered' /\ StackCounts'
  BY <1>1, <1>4, StackStays DEF scriptVars
<1>6. CachesEntered'
  BY <1>1 DEF CachesEntered, scriptVars, Kind
<1>7. TodoFits'
  BY <1>1, <1>2 DEF TodoFits, ListsAfter, Kind
<1>8. SavedLast'
  <2>1. ASSUME NEW h \in Hooks(layout), Kind(h) = "snapshot", snapshotId[h] \in DOMAIN snapshots
        PROVE  Pending(h)'
    <3>1. h[1] \in Path(cur) /\ \A i \in DOMAIN SNAPSHOTS : SNAPSHOTS[i] < snapshotId[h]
      BY <2>1 DEF SavedLast, Pending
    <3>2. \E i \in DOMAIN todo' : todo'[i] = h
      BY <1>2, <2>1, <3>1 DEF ListsAfter, Path, Kind
    <3> QED BY <1>1, <3>1, <3>2 DEF Pending, Path, scriptVars
  <2> QED BY <1>1, <2>1 DEF SavedLast, scriptVars, Kind
<1> QED BY <1>3, <1>5, <1>6, <1>7, <1>8

\* The runner of a killed run leaves nothing on the new runner's stack.
LEMMA RestartKeeps == SandboxInv /\ Restart => SandboxInv'
<1> SUFFICES ASSUME SandboxInv, Restart PROVE SandboxInv'
  OBVIOUS
<1> USE DEF SandboxInv
<1>1. /\ SNAPSHOTS' = <<>> /\ initialized' = {} /\ snapshotId' = [h \in Hooks(layout) |-> 0]
      /\ cur' = 0 /\ visited' = {} /\ phase' = "next" /\ todo' = <<>>
      /\ UNCHANGED <<layout, nodeVars>>
  BY DEF Restart
<1>2. layout \in DOMAIN Layouts /\ Size(layout) \in Nat /\ Around[layout][0] = {}
  BY TreeFacts, AroundFacts DEF RunnerPlaced
<1>3. RunnerPlaced'
  BY <1>1, <1>2 DEF RunnerPlaced, Path
<1>4. StackOrdered'
  <2>1. OrderedIn(<<>>, DOMAIN snapshots)
    BY DEF OrderedIn
  <2> QED BY <1>1, <2>1 DEF StackOrdered, nodeVars
<1>5. CachesEntered'
  BY <1>1, FS_EmptySet DEF CachesEntered
<1>6. TodoFits'
  BY <1>1 DEF TodoFits
<1>7. SavedLast'
  <2>1. nextId' \in Nat \ {0} /\ DOMAIN snapshots' \subseteq 1 .. nextId' - 1
    BY <1>1 DEF StackOrdered, nodeVars
  <2>2. \A h \in Hooks(layout) : snapshotId'[h] = 0
    BY <1>1
  <2> QED BY <1>1, <2>1, <2>2 DEF SavedLast
<1>8. StackCounts'
  <2>1. SNAPSHOTS' = <<>> /\ (openCaches \ closing)' = {}
    BY <1>1 DEF openCaches
  <2> QED BY <2>1, FS_EmptySet DEF StackCounts
<1> QED BY <1>3, <1>4, <1>5, <1>6, <1>7, <1>8

\* A failed hook leaves the stack alone, and its afterEach hooks include every snapshot
\* that is to be gone back to.
LEMMA HookFailsKeeps == SandboxInv /\ HookFails => SandboxInv'
<1> SUFFICES ASSUME SandboxInv, HookFails PROVE SandboxInv'
  OBVIOUS
<1> USE DEF SandboxInv
<1> DEFINE failed == Head(todo)
<1>1. /\ todo # <<>> /\ phase \in {"before", "each"}
      /\ phase' = IF phase = "before" THEN "next" ELSE "afterEach"
      /\ todo' = IF phase = "before" THEN <<>> ELSE AfterEachHooks(failed[1])
      /\ UNCHANGED <<layout, cur, visited, snapshots, nextId, SNAPSHOTS, snapshotId, initialized>>
  BY DEF HookFails, FailHook
<1>2. layout \in DOMAIN Layouts /\ 1 \in DOMAIN todo /\ failed = todo[1] /\ failed \in Hooks(layout)
  BY <1>1, TailFacts DEF RunnerPlaced, TodoFits
<1> HIDE DEF failed
<1>3. failed[1] \in 1 .. Size(layout) /\ failed[1] \in 0 .. Size(layout)
  BY <1>2, HooksAre, TreeFacts
<1>4. ListsAfter(layout, failed[1], AfterEachHooks(failed[1]))
  BY <1>2, <1>3, AfterEachHooksList DEF AfterEachHooks
<1>5. RunnerPlaced'
  BY <1>1 DEF RunnerPlaced, Path
<1>6. (openCaches \ closing)' = openCaches \ closing
  BY <1>1 DEF openCaches, closing, Path
<1>7. StackOrdered' /\ StackCounts'
  BY <1>1, <1>6, StackStays
<1>8. CachesEntered'
  BY <1>1 DEF CachesEntered, Kind
<1>9. TodoFits'
  <2>1. CASE phase = "before"
    BY <1>1, <2>1 DEF TodoFits
  <2>2. CASE phase = "each"
    BY <1>1, <1>4, <2>2 DEF TodoFits, ListsAfter, Kind
  <2> QED BY <1>1, <2>1, <2>2
<1>10. SavedLast'
  <2>1. ASSUME NEW h \in Hooks(layout), Kind(h) = "snapshot", snapshotId[h] \in DOMAIN snapshots
        PROVE  Pending(h)'
    <3>1. /\ h[1] \in Path(cur) /\ phase = "each"
          /\ \A i \in DOMAIN SNAPSHOTS : SNAPSHOTS[i] < snapshotId[h]
      BY <1>1, <2>1 DEF SavedLast, Pending
    <3>2. failed[1] \in Path(cur)
      BY <1>2, <3>1 DEF TodoFits, ListsBefore, Path
    <3>3. Parent(layout)[h[1]] = 0 /\ h[1] \in 1 .. Size(layout)
      BY <1>2, <2>1, CacheUseAssumption, HooksAre, TreeFacts DEF Kind, Parent
    <3>4. h[1] \in Around[layout][failed[1]]
      BY <1>2, <3>1, <3>2, <3>3, SameOutermost DEF Path, RunnerPlaced
    <3>5. \E i \in DOMAIN todo' : todo'[i] = h
      BY <1>1, <1>4, <2>1, <3>1, <3>4 DEF ListsAfter, Kind
    <3> QED BY <1>1, <3>1, <3>5 DEF Pending, Path
  <2> QED BY <1>1, <2>1 DEF SavedLast, Kind
<1> QED BY <1>5, <1>7, <1>8, <1>9, <1>10

\* Where the hooks of a phase have all run.
LEMMA HooksDoneKeeps == SandboxInv /\ HooksDone => SandboxInv'
<1> SUFFICES ASSUME SandboxInv, HooksDone PROVE SandboxInv'
  OBVIOUS
<1> USE DEF SandboxInv
<1>1. /\ todo = <<>> /\ todo' = <<>>
      /\ UNCHANGED <<layout, snapshots, nextId, SNAPSHOTS, snapshotId, initialized, visited>>
  BY DEF HooksDone, nodeVars, scriptVars
<1>2. \/ phase = "before" /\ phase' = "next" /\ cur' = cur
      \/ phase = "each" /\ phase' = "test" /\ cur' = cur
      \/ phase = "afterEach" /\ phase' = "next" /\ cur' = cur
      \/ phase = "after" /\ phase' = "next" /\ cur' = Parent(layout)[cur]
  BY DEF HooksDone, Parent
<1>3. CachesEntered'
  BY <1>1 DEF CachesEntered, Kind
<1>4. TodoFits'
  BY <1>1, <1>2 DEF TodoFits
<1>5. SavedLast'
  <2>1. ASSUME NEW h \in Hooks(layout), Kind(h) = "snapshot", snapshotId[h] \in DOMAIN snapshots
        PROVE  Pending(h)'
    <3>1. /\ h[1] \in Path(cur) /\ \A i \in DOMAIN SNAPSHOTS : SNAPSHOTS[i] < snapshotId[h]
          /\ phase \in {"each", "test", "afterEach"}
          /\ phase = "afterEach" => \E i \in DOMAIN todo : todo[i] = h
      BY <2>1 DEF SavedLast, Pending
    <3>2. DOMAIN todo = {} /\ DOMAIN todo' = {}
      BY <1>1
    <3> QED BY <1>1, <1>2, <3>1, <3>2 DEF Pending, Path
  <2> QED BY <1>1, <2>1 DEF SavedLast, Kind
<1>6. CASE phase # "after"
  <2>1. cur' = cur /\ phase' \in {"next", "test"}
    BY <1>2, <1>6
  <2>2. RunnerPlaced'
    BY <1>1, <2>1 DEF RunnerPlaced, Path
  <2>3. (openCaches \ closing)' = openCaches \ closing
    BY <1>1, <1>6, <2>1 DEF openCaches, closing, Path
  <2>4. StackOrdered' /\ StackCounts'
    BY <1>1, <2>3, StackStays
  <2> QED BY <1>3, <1>4, <1>5, <2>2, <2>4
<1>7. CASE phase = "after"
  <2>1. cur' = Parent(layout)[cur] /\ phase' = "next"
    BY <1>2, <1>7
  <2>2. layout \in DOMAIN Layouts /\ cur \in 1 .. Size(layout) /\ cur \in 0 .. Size(layout)
    BY <1>7, TreeFacts DEF RunnerPlaced
  <2>3. Parent(layout)[cur] \in 0 .. cur - 1 /\ Parent(layout)[cur] \in 0 .. Size(layout)
    BY <2>2, TreeFacts
  <2>4. Path(cur) = Path(Parent(layout)[cur]) \cup {cur} /\ cur \notin Path(Parent(layout)[cur])
    <3>1. cur \notin 1 .. Parent(layout)[cur]
      BY <2>2, <2>3
    <3>2. Around[layout][Parent(layout)[cur]] \subseteq 1 .. Parent(layout)[cur]
      BY <2>2, <2>3, AroundBelow
    <3> QED BY <2>2, <3>1, <3>2, AroundFacts DEF Path
  <2>5. Path(cur)' = Path(Parent(layout)[cur])
    BY <1>1, <2>1 DEF Path
  <2>6. RunnerPlaced'
    BY <1>1, <2>1, <2>2, <2>3, <2>4, <2>5 DEF RunnerPlaced
  <2>7. (openCaches \ closing)' = openCaches \ closing
    <3>1. ToSet(todo) = {}
      BY <1>1 DEF ToSet
    <3>2. closing = {h \in initialized : h[1] = cur} /\ closing' = {}
      BY <1>7, <2>1, <3>1 DEF closing
    <3>3. openCaches' = {h \in initialized : h[1] \in Path(Parent(layout)[cur])}
      BY <1>1, <2>5 DEF openCaches
    <3> QED BY <2>4, <3>2, <3>3 DEF openCaches
  <2>8. StackOrdered' /\ StackCounts'
    BY <1>1, <2>7, StackStays
  <2> QED BY <1>3, <1>4, <1>5, <2>6, <2>8
<1> QED BY <1>6, <1>7

\* A snapshot is taken after every cache around the test has been run.
LEMMA NoCacheAfterSnapshot ==
    ASSUME NEW l \in DOMAIN Layouts, NEW g \in Hooks(l), NEW h \in Hooks(l),
           EarlierHook(l, g, h), KindIn(l, g) = "snapshot"
    PROVE  KindIn(l, h) # "cache"
BY CacheUseAssumption

LEMMA StaysOrdered ==
    ASSUME NEW D, NEW q, OrderedIn(q, D), NEW x
    PROVE  OrderedIn(q, D \cup {x})
<1>1. q \in Seq(D \cup {x})
  BY DEF OrderedIn
<1> QED BY <1>1 DEF OrderedIn

\* The hook that is run, and what is left to run after it.
LEMMA HookFacts ==
    ASSUME SandboxInv, Hook
    PROVE  LET h == Head(todo)
           IN  /\ layout \in DOMAIN Layouts /\ h \in Hooks(layout) /\ RunHook(h)
               /\ 1 \in DOMAIN todo /\ h = todo[1] /\ todo' = Tail(todo)
               /\ phase \in {"before", "each", "afterEach", "after"}
               /\ phase = "before" => Kind(h) = "before"
               /\ phase = "each" => Kind(h) \in EachKinds /\ h[1] \in Path(cur)
               /\ phase = "afterEach" => Kind(h) = "snapshot"
               /\ phase = "after" => Kind(h) = "cache" /\ h[1] = cur
               /\ \A i \in DOMAIN todo' : /\ i + 1 \in DOMAIN todo /\ todo'[i] = todo[i + 1]
                                          /\ 1 < i + 1
               /\ \A i \in DOMAIN todo : i = 1 \/ \E j \in DOMAIN todo' : todo'[j] = todo[i]
               /\ UNCHANGED <<layout, cur, visited, phase>>
<1> DEFINE h == Head(todo)
<1> USE DEF SandboxInv
<1>1. /\ todo # <<>> /\ todo \in Seq(Hooks(layout)) /\ RunHook(h) /\ todo' = Tail(todo)
      /\ UNCHANGED <<layout, cur, visited, phase>>
  BY DEF Hook, TodoFits
<1>2. /\ h = todo[1] /\ 1 \in DOMAIN todo /\ h \in Hooks(layout)
      /\ \A i \in DOMAIN todo' : i \in Nat /\ i + 1 \in DOMAIN todo /\ todo'[i] = todo[i + 1]
      /\ \A i \in DOMAIN todo : i = 1 \/ (i - 1 \in DOMAIN todo' /\ todo'[i - 1] = todo[i])
  BY Zenon, <1>1, TailFacts
<1>3. layout \in DOMAIN Layouts /\ phase \in {"before", "each", "afterEach", "after"}
  BY <1>1 DEF RunnerPlaced, TodoFits
<1> HIDE DEF h
<1>4. /\ phase = "before" => Kind(h) = "before"
      /\ phase = "each" => Kind(h) \in EachKinds /\ h[1] \in Path(cur)
      /\ phase = "afterEach" => Kind(h) = "snapshot"
      /\ phase = "after" => Kind(h) = "cache" /\ h[1] = cur
  BY <1>2 DEF TodoFits, ListsBefore, Kind, Path
<1>5. \A i \in DOMAIN todo' : i + 1 \in DOMAIN todo /\ todo'[i] = todo[i + 1] /\ 1 < i + 1
  <2>1. ASSUME NEW i \in DOMAIN todo' PROVE i \in Nat /\ i # 0
    <3>1. todo' \in Seq(Hooks(layout))
      BY Zenon, <1>1, TailFacts
    <3> QED BY <3>1
  <2> QED BY <1>2, <2>1
<1>6. \A i \in DOMAIN todo : i = 1 \/ \E j \in DOMAIN todo' : todo'[j] = todo[i]
  BY Zenon, <1>2
<1> QED BY <1>1, <1>2, <1>3, <1>4, <1>5, <1>6 DEF h

\* Wherever the hook comes from, the runner is as it should be for the rest.
LEMMA HookKeepsRunner ==
    ASSUME SandboxInv, Hook
    PROVE  RunnerPlaced' /\ TodoFits'
<1> USE DEF SandboxInv
<1>1. /\ UNCHANGED <<layout, cur, visited, phase>>
      /\ phase \in {"before", "each", "afterEach", "after"}
      /\ \A i \in DOMAIN todo' : i + 1 \in DOMAIN todo /\ todo'[i] = todo[i + 1]
  BY HookFacts
<1>2. todo' \in Seq(Hooks(layout))
  BY Zenon, TailFacts DEF Hook, TodoFits
<1>3. RunnerPlaced'
  BY <1>1 DEF RunnerPlaced, Path
<1>4. \A i, j \in DOMAIN todo' : i < j => i + 1 < j + 1
  BY <1>2
<1>5. CASE phase = "before"
  BY <1>1, <1>2, <1>3, <1>5 DEF TodoFits, Kind
<1>6. CASE phase = "each"
  <2>1. ListsBefore(layout, cur, todo)
    BY <1>6 DEF TodoFits
  <2>2. \A i \in DOMAIN todo' :
          todo'[i][1] \in Around[layout][cur] /\ KindIn(layout, todo'[i]) \in EachKinds
    BY <1>1, <2>1 DEF ListsBefore
  <2>3. \A i, j \in DOMAIN todo' : i < j => EarlierHook(layout, todo'[i], todo'[j])
    BY <1>1, <1>4, <2>1 DEF ListsBefore
  <2>4. ListsBefore(layout, cur, todo')
    BY <1>2, <2>2, <2>3 DEF ListsBefore
  <2> QED BY <1>1, <1>2, <1>3, <1>6, <2>4 DEF TodoFits
<1>7. CASE phase = "afterEach"
  BY <1>1, <1>2, <1>3, <1>7 DEF TodoFits, Kind
<1>8. CASE phase = "after"
  <2>1. \A i \in DOMAIN todo' : todo'[i][1] = cur /\ Kind(todo'[i]) = "cache"
    BY <1>1, <1>8 DEF TodoFits
  <2>2. \A i, j \in DOMAIN todo' : i < j => todo'[i] # todo'[j]
    BY <1>1, <1>4, <1>8 DEF TodoFits
  <2> QED BY <1>1, <1>2, <1>3, <1>8, <2>1, <2>2 DEF TodoFits, Kind
<1> QED BY <1>1, <1>3, <1>5, <1>6, <1>7, <1>8

\* What the hooks leave of the invariant: everything but the parts about the stack.
StackParts == StackOrdered /\ CachesEntered /\ SavedLast /\ StackCounts

\* A hook of the test file only deploys.
LEMMA SetUpHookKeeps ==
    ASSUME SandboxInv, Hook, phase \in {"before", "each"}, SetUpHook(Head(todo))
    PROVE  StackParts'
<1> USE DEF SandboxInv
<1>1. UNCHANGED <<snapshots, nextId, SNAPSHOTS, snapshotId, initialized>>
  BY DEF SetUpHook
<1>2. /\ UNCHANGED <<layout, cur, visited, phase>>
      /\ \A i \in DOMAIN todo' : i + 1 \in DOMAIN todo /\ todo'[i] = todo[i + 1]
  BY HookFacts
<1>3. (openCaches \ closing)' = openCaches \ closing
  BY <1>1, <1>2 DEF openCaches, closing, Path
<1>4. StackOrdered' /\ StackCounts'
  BY <1>1, <1>3, StackStays
<1>5. CachesEntered'
  BY <1>1, <1>2 DEF CachesEntered, Kind
<1>6. SavedLast'
  <2>1. ASSUME NEW x \in Hooks(layout), Kind(x) = "snapshot", snapshotId[x] \in DOMAIN snapshots
        PROVE  Pending(x)'
    <3>1. /\ x[1] \in Path(cur) /\ \A i \in DOMAIN SNAPSHOTS : SNAPSHOTS[i] < snapshotId[x]
          /\ phase = "each" /\ \A i \in DOMAIN todo : Kind(todo[i]) # "cache"
      BY <2>1 DEF SavedLast, Pending
    <3>2. \A i \in DOMAIN todo' : Kind(todo'[i]) # "cache"
      BY <1>2, <3>1
    <3> QED BY <1>1, <1>2, <3>1, <3>2 DEF Pending, Path, Kind
  <2> QED BY <1>1, <1>2, <2>1 DEF SavedLast, Kind
<1> QED BY <1>4, <1>5, <1>6 DEF StackParts

\* The snapshot for a test is taken last, above the whole stack.
LEMMA SaveHookKeeps ==
    ASSUME SandboxInv, Hook, phase = "each", Kind(Head(todo)) = "snapshot", SaveHook(Head(todo))
    PROVE  StackParts'
<1> USE DEF SandboxInv
<1> DEFINE h == Head(todo)
<1>1. /\ DOMAIN snapshots' = DOMAIN snapshots \cup {nextId} /\ nextId' = nextId + 1
      /\ snapshotId' = [snapshotId EXCEPT ![h] = nextId]
      /\ UNCHANGED <<SNAPSHOTS, initialized>>
  BY DEF SaveHook, saveSnapshotAsync, takeSnapshot
<1>2. /\ layout \in DOMAIN Layouts /\ h \in Hooks(layout) /\ 1 \in DOMAIN todo /\ h = todo[1]
      /\ h[1] \in Path(cur) /\ UNCHANGED <<layout, cur, visited, phase>>
      /\ \A i \in DOMAIN todo' : i + 1 \in DOMAIN todo /\ todo'[i] = todo[i + 1] /\ 1 < i + 1
  BY HookFacts
<1>3. Kind(h) = "snapshot"
  OBVIOUS
<1> HIDE DEF h
<1>4. /\ nextId \in Nat /\ nextId # 0 /\ DOMAIN snapshots \subseteq Nat
      /\ \A d \in DOMAIN snapshots : d < nextId /\ d \in 1 .. nextId - 1
  BY DEF StackOrdered
<1>5. StackOrdered'
  <2>1. OrderedIn(SNAPSHOTS, DOMAIN snapshots \cup {nextId})
    BY StaysOrdered DEF StackOrdered
  <2>2. DOMAIN snapshots' \subseteq 1 .. nextId' - 1 /\ nextId' \in Nat \ {0}
    BY <1>1, <1>4
  <2> QED BY <1>1, <2>1, <2>2 DEF StackOrdered
<1>6. (openCaches \ closing)' = openCaches \ closing
  BY <1>1, <1>2 DEF openCaches, closing, Path
<1>7. StackCounts'
  BY <1>1, <1>6 DEF StackCounts
<1>8. CachesEntered'
  BY <1>1, <1>2 DEF CachesEntered, Kind
<1>9. \A i \in DOMAIN todo' : Kind(todo'[i]) # "cache"
  <2>1. ASSUME NEW i \in DOMAIN todo' PROVE Kind(todo'[i]) # "cache"
    <3>1. i + 1 \in DOMAIN todo /\ todo'[i] = todo[i + 1] /\ 1 < i + 1
      BY <1>2
    <3>2. EarlierHook(layout, h, todo[i + 1]) /\ todo[i + 1] \in Hooks(layout)
      BY <1>2, <3>1 DEF TodoFits, ListsBefore
    <3> QED BY <1>2, <1>3, <3>1, <3>2, NoCacheAfterSnapshot DEF Kind
  <2> QED BY <2>1
<1>10. SavedLast'
  <2>1. /\ snapshotId \in [Hooks(layout) -> Nat]
        /\ \A x \in Hooks(layout) : snapshotId[x] < nextId
    BY DEF SavedLast
  <2>2. /\ snapshotId' \in [Hooks(layout) -> Nat] /\ snapshotId'[h] = nextId
        /\ \A x \in Hooks(layout) : x # h => snapshotId'[x] = snapshotId[x]
        /\ \A x \in Hooks(layout) : snapshotId'[x] < nextId'
    BY <1>1, <1>2, <1>4, <2>1
  <2>3. ASSUME NEW x \in Hooks(layout), Kind(x) = "snapshot", snapshotId'[x] \in DOMAIN snapshots'
        PROVE  Pending(x)'
    <3>1. CASE x = h
      <4>1. \A i \in DOMAIN SNAPSHOTS : SNAPSHOTS[i] < nextId
        BY <1>4 DEF StackOrdered, OrderedIn
      <4> QED BY <1>1, <1>2, <1>9, <2>2, <3>1, <4>1 DEF Pending, Path, Kind
    <3>2. CASE x # h
      <4>1. snapshotId'[x] = snapshotId[x] /\ snapshotId[x] \in DOMAIN snapshots
        BY <1>1, <2>1, <2>2, <2>3, <3>2
      <4>2. x[1] \in Path(cur) /\ \A i \in DOMAIN SNAPSHOTS : SNAPSHOTS[i] < snapshotId[x]
        BY <2>3, <4>1 DEF SavedLast, Pending
      <4> QED BY <1>1, <1>2, <1>9, <4>1, <4>2 DEF Pending, Path, Kind
    <3> QED BY <3>1, <3>2
  <2> QED BY <1>1, <1>2, <2>2, <2>3 DEF SavedLast, Kind
<1> QED BY <1>5, <1>7, <1>8, <1>10 DEF StackParts

\* Going back to it, or to one that is gone, forgets nothing that is on the stack.
LEMMA RestoreHookKeeps ==
    ASSUME SandboxInv, Hook, phase = "afterEach", RestoreHook(Head(todo))
    PROVE  StackParts'
<1> USE DEF SandboxInv
<1> DEFINE h == Head(todo)
           id == snapshotId[h]
<1>1. /\ snapshots' = Remaining(id)
      /\ UNCHANGED <<nextId, SNAPSHOTS, snapshotId, initialized>>
  BY DEF RestoreHook, scriptVars
<1>2. /\ layout \in DOMAIN Layouts /\ h \in Hooks(layout) /\ h = todo[1]
      /\ Kind(h) = "snapshot" /\ UNCHANGED <<layout, cur, visited, phase>>
      /\ \A i \in DOMAIN todo : i = 1 \/ \E j \in DOMAIN todo' : todo'[j] = todo[i]
  BY HookFacts
<1> HIDE DEF h
<1>3. /\ nextId \in Nat /\ nextId # 0 /\ DOMAIN snapshots \subseteq 1 .. nextId - 1
      /\ OrderedIn(SNAPSHOTS, DOMAIN snapshots) /\ DOMAIN snapshots \subseteq Nat
  BY DEF StackOrdered
<1>4. DOMAIN snapshots' = IF id \in DOMAIN snapshots THEN {d \in DOMAIN snapshots : d < id}
                          ELSE DOMAIN snapshots
  BY <1>1 DEF Remaining
<1> HIDE DEF id
<1>5. OrderedIn(SNAPSHOTS, DOMAIN snapshots')
  <2>1. CASE id \in DOMAIN snapshots
    <3>1. \A i \in DOMAIN SNAPSHOTS : SNAPSHOTS[i] < id
      BY <1>2, <2>1 DEF SavedLast, Pending, id
    <3>2. OrderedIn(SNAPSHOTS, {d \in DOMAIN snapshots : d < id})
      BY <1>3, <3>1, KeepsBelow
    <3> QED BY <1>4, <2>1, <3>2
  <2>2. CASE id \notin DOMAIN snapshots
    BY <1>3, <1>4, <2>2
  <2> QED BY <2>1, <2>2
<1>6. StackOrdered'
  <2>1. DOMAIN snapshots' \subseteq DOMAIN snapshots
    BY <1>4
  <2> QED BY <1>1, <1>3, <1>5, <2>1 DEF StackOrdered
<1>7. StackCounts'
  <2>1. (openCaches \ closing)' = openCaches \ closing
    BY <1>1, <1>2 DEF openCaches, closing, Path
  <2> QED BY <1>1, <2>1 DEF StackCounts
<1>8. CachesEntered'
  BY <1>1, <1>2 DEF CachesEntered, Kind
<1>9. SavedLast'
  <2>1. ASSUME NEW x \in Hooks(layout), Kind(x) = "snapshot", snapshotId[x] \in DOMAIN snapshots'
        PROVE  Pending(x)'
    <3>1. snapshotId[x] \in DOMAIN snapshots
      BY <1>4, <2>1
    <3>2. x # h
      <4>1. CASE id \in DOMAIN snapshots
        <5>1. id \in Nat /\ ~ (id < id)
          BY <1>3, <4>1
        <5>2. snapshotId[x] # id
          BY <1>4, <2>1, <4>1, <5>1
        <5> QED BY <5>2 DEF id
      <4>2. CASE id \notin DOMAIN snapshots
        BY <3>1, <4>2 DEF id
      <4> QED BY <4>1, <4>2
    <3>3. /\ x[1] \in Path(cur) /\ \A i \in DOMAIN SNAPSHOTS : SNAPSHOTS[i] < snapshotId[x]
          /\ \E i \in DOMAIN todo : todo[i] = x
      BY <2>1, <3>1 DEF SavedLast, Pending
    <3>4. \E j \in DOMAIN todo' : todo'[j] = x
      BY <1>2, <3>2, <3>3
    <3> QED BY <1>1, <1>2, <3>3, <3>4 DEF Pending, Path
  <2> QED BY <1>1, <1>2, <2>1 DEF SavedLast, Kind
<1> QED BY <1>6, <1>7, <1>8, <1>9 DEF StackParts

\* While a cache is to be run, no snapshot is left for a test to go back to.
LEMMA NothingSaved ==
    ASSUME SandboxInv, Hook, phase = "each", Kind(Head(todo)) = "cache"
    PROVE  \A x \in Hooks(layout) : Kind(x) = "snapshot" => snapshotId[x] \notin DOMAIN snapshots
<1>1. 1 \in DOMAIN todo /\ Head(todo) = todo[1]
  BY HookFacts
<1> QED BY <1>1 DEF SandboxInv, SavedLast, Pending

\* What both ways of running a cache do to the snapshots: the new id is on top of the
\* stack, and of the older ones only ids below it are left.
LEMMA CachePushes ==
    ASSUME SandboxInv, Hook, phase = "each", Kind(Head(todo)) = "cache",
           nextId' = nextId + 1, snapshotId' = [snapshotId EXCEPT ![Head(todo)] = nextId],
           NEW D, D \subseteq DOMAIN snapshots, DOMAIN snapshots' = D \cup {nextId},
           NEW q, OrderedIn(q, D), SNAPSHOTS' = Append(q, nextId)
    PROVE  StackOrdered' /\ SavedLast' /\ Len(SNAPSHOTS') = Len(q) + 1
<1> USE DEF SandboxInv
<1> DEFINE h == Head(todo)
<1>1. h \in Hooks(layout) /\ UNCHANGED <<layout, cur, visited, phase>>
  BY HookFacts
<1>2. Kind(h) = "cache" /\ snapshotId' = [snapshotId EXCEPT ![h] = nextId]
  OBVIOUS
<1>3. \A x \in Hooks(layout) : Kind(x) = "snapshot" => snapshotId[x] \notin DOMAIN snapshots
  BY NothingSaved
<1> HIDE DEF h
<1>4. /\ nextId \in Nat /\ nextId # 0 /\ D \subseteq Nat
      /\ \A d \in DOMAIN snapshots : d \in 1 .. nextId - 1 /\ d < nextId
  BY DEF StackOrdered
<1>5. OrderedIn(Append(q, nextId), D \cup {nextId}) /\ Len(Append(q, nextId)) = Len(q) + 1
  <2>1. \A d \in D : d < nextId
    BY <1>4
  <2> QED BY Zenon, <1>4, <2>1, PushKeepsOrder
<1>6. StackOrdered'
  <2>1. DOMAIN snapshots' \subseteq 1 .. nextId' - 1 /\ nextId' \in Nat \ {0}
    BY <1>4
  <2>2. OrderedIn(SNAPSHOTS', DOMAIN snapshots')
    BY <1>5
  <2> QED BY <2>1, <2>2 DEF StackOrdered
<1>7. SavedLast'
  <2>1. /\ snapshotId \in [Hooks(layout) -> Nat]
        /\ \A x \in Hooks(layout) : snapshotId[x] < nextId
    BY DEF SavedLast
  <2>2. /\ snapshotId' \in [Hooks(layout) -> Nat]
        /\ \A x \in Hooks(layout) : x # h => snapshotId'[x] = snapshotId[x]
        /\ \A x \in Hooks(layout) : snapshotId'[x] < nextId'
    BY <1>1, <1>2, <1>4, <2>1
  <2>3. ASSUME NEW x \in Hooks(layout), Kind(x) = "snapshot"
        PROVE  snapshotId'[x] \notin DOMAIN snapshots'
    <3>1. x # h /\ snapshotId'[x] = snapshotId[x] /\ snapshotId[x] < nextId
      BY <1>2, <2>1, <2>2, <2>3
    <3>2. snapshotId[x] \notin DOMAIN snapshots /\ snapshotId[x] # nextId
      BY <1>3, <1>4, <2>1, <2>3, <3>1
    <3> QED BY <3>1, <3>2
  <2> QED BY <1>1, <2>2, <2>3 DEF SavedLast, Kind
<1> QED BY <1>5, <1>6, <1>7

LEMMA CacheInitKeeps ==
    ASSUME SandboxInv, Hook, phase = "each", Kind(Head(todo)) = "cache", CacheInit(Head(todo))
    PROVE  StackParts'
<1> USE DEF SandboxInv
<1> DEFINE h == Head(todo)
<1>1. /\ h \notin initialized /\ initialized' = initialized \cup {h}
      /\ DOMAIN snapshots' = DOMAIN snapshots \cup {nextId} /\ nextId' = nextId + 1
      /\ snapshotId' = [snapshotId EXCEPT ![h] = nextId]
      /\ SNAPSHOTS' = Append(SNAPSHOTS, nextId)
  BY DEF CacheInit, saveSnapshotAsync, takeSnapshot
<1>2. /\ h \in Hooks(layout) /\ h[1] \in Path(cur) /\ UNCHANGED <<layout, cur, visited, phase>>
  BY HookFacts
<1>3. StackOrdered' /\ SavedLast' /\ Len(SNAPSHOTS') = Len(SNAPSHOTS) + 1
  <2>1. OrderedIn(SNAPSHOTS, DOMAIN snapshots)
    BY DEF StackOrdered
  <2> QED BY <1>1, <2>1, CachePushes
<1>4. CachesEntered'
  <2>1. IsFiniteSet(initialized')
    BY <1>1, FS_AddElement DEF CachesEntered
  <2>2. h[1] \in visited
    BY <1>2 DEF RunnerPlaced
  <2> QED BY <1>1, <1>2, <2>1, <2>2 DEF CachesEntered, Kind
<1>5. StackCounts'
  <2>1. openCaches \ closing = openCaches /\ (openCaches \ closing)' = openCaches'
    BY <1>2 DEF closing
  <2>2. openCaches' = openCaches \cup {h} /\ h \notin openCaches
    BY <1>1, <1>2 DEF openCaches, Path
  <2>3. IsFiniteSet(openCaches)
    <3>1. openCaches \subseteq initialized
      BY DEF openCaches
    <3> QED BY <3>1, FS_Subset DEF CachesEntered
  <2>4. Cardinality(openCaches') = Cardinality(openCaches) + 1
    BY <2>2, <2>3, FS_AddElement
  <2> QED BY <1>3, <2>1, <2>4 DEF StackCounts
<1> QED BY <1>3, <1>4, <1>5 DEF StackParts

\* The stack is not empty when a cache of the suites around is to be found on it.
LEMMA StackNotEmpty ==
    ASSUME SandboxInv, NEW h \in openCaches \ closing
    PROVE  SNAPSHOTS # <<>>
<1>1. IsFiniteSet(openCaches \ closing)
  <2>1. openCaches \ closing \subseteq initialized
    BY DEF openCaches
  <2> QED BY <2>1, FS_Subset DEF SandboxInv, CachesEntered
<1>2. Cardinality(openCaches \ closing) # 0
  BY <1>1, FS_EmptySet
<1> QED BY <1>2 DEF SandboxInv, StackCounts

LEMMA CacheHitKeeps ==
    ASSUME SandboxInv, Hook, phase = "each", Kind(Head(todo)) = "cache", CacheHit(Head(todo))
    PROVE  StackParts'
<1> USE DEF SandboxInv
<1> DEFINE h == Head(todo)
           id == Last(SNAPSHOTS)
           D == {d \in DOMAIN snapshots : d < id}
<1>1. /\ h \in initialized /\ UNCHANGED initialized /\ nextId' = nextId + 1
      /\ DOMAIN snapshots' = DOMAIN Remaining(id) \cup {nextId}
      /\ snapshotId' = [snapshotId EXCEPT ![h] = nextId]
      /\ SNAPSHOTS' = Append(Front(SNAPSHOTS), nextId)
  BY DEF CacheHit
<1>2. /\ h \in Hooks(layout) /\ h[1] \in Path(cur) /\ UNCHANGED <<layout, cur, visited, phase>>
  BY HookFacts
<1>3. openCaches \ closing = openCaches /\ (openCaches \ closing)' = openCaches
  BY <1>1, <1>2 DEF openCaches, closing, Path
<1>4. SNAPSHOTS # <<>>
  <2>1. h \in openCaches \ closing
    BY <1>1, <1>2, <1>3 DEF openCaches
  <2> QED BY <2>1, StackNotEmpty
<1>5. /\ id \in DOMAIN snapshots /\ OrderedIn(Front(SNAPSHOTS), D)
      /\ Len(Front(SNAPSHOTS)) = Len(SNAPSHOTS) - 1
  <2>1. OrderedIn(SNAPSHOTS, DOMAIN snapshots) /\ DOMAIN snapshots \subseteq Nat
    BY DEF StackOrdered
  <2> QED BY ZenonT(60), <1>4, <2>1, PopKeepsOrder
<1> HIDE DEF id
<1>6. DOMAIN snapshots' = D \cup {nextId}
  BY <1>1, <1>5 DEF Remaining
<1>7. D \subseteq DOMAIN snapshots
  OBVIOUS
<1> HIDE DEF D
<1>8. StackOrdered' /\ SavedLast' /\ Len(SNAPSHOTS') = Len(Front(SNAPSHOTS)) + 1
  BY <1>1, <1>5, <1>6, <1>7, CachePushes
<1>9. CachesEntered'
  BY <1>1, <1>2 DEF CachesEntered, Kind
<1>10. StackCounts'
  <2>1. Len(SNAPSHOTS) = Cardinality(openCaches)
    BY <1>3 DEF StackCounts
  <2>2. Len(SNAPSHOTS) \in Nat
    BY DEF StackOrdered, OrderedIn
  <2>3. Len(SNAPSHOTS') = Len(SNAPSHOTS)
    BY <1>5, <1>8, <2>2
  <2>4. Cardinality((openCaches \ closing)') = Cardinality(openCaches)
    BY Zenon, <1>3
  <2>5. Len(SNAPSHOTS') = Cardinality((openCaches \ closing)')
    BY Zenon, <2>1, <2>3, <2>4
  <2> QED BY <2>5 DEF StackCounts
<1> QED BY <1>8, <1>9, <1>10 DEF StackParts

\* Of the caches of a suite that is left, each that was initialized takes its id with it.
LEMMA CacheAfterKeeps ==
    ASSUME SandboxInv, Hook, phase = "after", CacheAfter(Head(todo))
    PROVE  StackParts'
<1> USE DEF SandboxInv
<1> DEFINE h == Head(todo)
<1>1. /\ SNAPSHOTS' = IF h \in initialized THEN Front(SNAPSHOTS) ELSE SNAPSHOTS
      /\ UNCHANGED <<snapshots, nextId, snapshotId, initialized>>
  BY DEF CacheAfter, nodeVars
<1>2. /\ h \in Hooks(layout) /\ h[1] = cur /\ UNCHANGED <<layout, cur, visited, phase>>
      /\ 1 \in DOMAIN todo /\ h = todo[1]
      /\ \A i \in DOMAIN todo' : i + 1 \in DOMAIN todo /\ todo'[i] = todo[i + 1] /\ 1 < i + 1
      /\ \A i \in DOMAIN todo : i = 1 \/ \E j \in DOMAIN todo' : todo'[j] = todo[i]
  BY HookFacts
<1> HIDE DEF h
<1>3. ToSet(todo) = ToSet(todo') \cup {h} /\ h \notin ToSet(todo')
  <2>1. \A i \in DOMAIN todo' : todo'[i] # h
    BY <1>2 DEF TodoFits
  <2>2. /\ ToSet(todo) = {todo[i] : i \in DOMAIN todo}
        /\ ToSet(todo') = {todo'[i] : i \in DOMAIN todo'}
    BY DEF ToSet
  <2> QED BY <1>2, <2>1, <2>2
<1>4. (openCaches \ closing)' = (openCaches \ closing) \ {h}
  <2>1. openCaches' = openCaches
    BY <1>1, <1>2 DEF openCaches, Path
  <2>2. /\ closing = {x \in initialized : x[1] = cur /\ x \notin ToSet(todo)}
        /\ closing' = {x \in initialized : x[1] = cur /\ x \notin ToSet(todo')}
    BY <1>1, <1>2 DEF closing
  <2>3. openCaches' \ closing' = (openCaches \ closing) \ {h}
    BY <1>2, <1>3, <2>1, <2>2 DEF openCaches
  <2> QED BY <2>3
<1>5. h \in initialized <=> h \in openCaches \ closing
  <2>1. cur \in Path(cur)
    <3>1. layout \in DOMAIN Layouts /\ cur \in 1 .. Size(layout)
      BY TreeFacts DEF RunnerPlaced
    <3> QED BY <3>1, AroundFacts DEF Path
  <2> QED BY <1>2, <1>3, <2>1 DEF openCaches, closing
<1>6. OrderedIn(SNAPSHOTS, DOMAIN snapshots) /\ DOMAIN snapshots \subseteq Nat
  BY DEF StackOrdered
<1>7. CachesEntered'
  BY <1>1, <1>2 DEF CachesEntered, Kind
<1>8. SavedLast'
  BY <1>1, <1>2 DEF SavedLast, Pending, Kind
<1>9. CASE h \in initialized
  <2>1. SNAPSHOTS # <<>>
    BY <1>5, <1>9, StackNotEmpty
  <2>2. /\ OrderedIn(Front(SNAPSHOTS), DOMAIN snapshots)
        /\ Len(Front(SNAPSHOTS)) = Len(SNAPSHOTS) - 1
    BY ZenonT(60), <1>6, <2>1, PopKeepsOrder
  <2>3. StackOrdered'
    BY <1>1, <1>9, <2>2 DEF StackOrdered
  <2>4. IsFiniteSet(openCaches \ closing)
    <3>1. openCaches \ closing \subseteq initialized
      BY DEF openCaches
    <3> QED BY <3>1, FS_Subset DEF CachesEntered
  <2>5. Cardinality((openCaches \ closing) \ {h}) = Cardinality(openCaches \ closing) - 1
    BY <1>5, <1>9, <2>4, FS_RemoveElement
  <2>6. StackCounts'
    BY <1>1, <1>4, <1>9, <2>2, <2>5 DEF StackCounts
  <2> QED BY <1>7, <1>8, <2>3, <2>6 DEF StackParts
<1>10. CASE h \notin initialized
  <2>1. (openCaches \ closing)' = openCaches \ closing
    BY <1>4, <1>5, <1>10
  <2>2. StackOrdered' /\ StackCounts'
    BY <1>1, <1>10, <2>1, StackStays
  <2> QED BY <1>7, <1>8, <2>2 DEF StackParts
<1> QED BY <1>9, <1>10

LEMMA HookKeeps == SandboxInv /\ Hook => SandboxInv'
<1> SUFFICES ASSUME SandboxInv, Hook PROVE SandboxInv'
  OBVIOUS
<1> DEFINE h == Head(todo)
<1>1. /\ RunHook(h)
      /\ phase = "before" => Kind(h) = "before"
  BY HookFacts
<1>2. StackParts'
  <2>1. CASE phase = "afterEach" /\ RestoreHook(h)
    BY Zenon, <2>1, RestoreHookKeeps
  <2>2. CASE phase = "after" /\ CacheAfter(h)
    BY Zenon, <2>2, CacheAfterKeeps
  <2>3. CASE phase = "each" /\ Kind(h) = "snapshot" /\ SaveHook(h)
    BY Zenon, <2>3, SaveHookKeeps
  <2>4. CASE phase = "each" /\ Kind(h) = "cache" /\ (CacheInit(h) \/ CacheHit(h))
    BY Zenon, <2>4, CacheInitKeeps, CacheHitKeeps
  <2>5. CASE phase \in {"before", "each"} /\ SetUpHook(h)
    BY Zenon, <2>5, SetUpHookKeeps
  <2> HIDE DEF h
  <2> QED BY <1>1, <2>1, <2>2, <2>3, <2>4, <2>5 DEF RunHook
<1>3. RunnerPlaced' /\ TodoFits'
  BY HookKeepsRunner
<1> QED BY <1>2, <1>3 DEF SandboxInv, StackParts

LEMMA SandboxNextKeeps == SandboxInv /\ [SandboxNext]_sandboxVars => SandboxInv'
<1> SUFFICES ASSUME SandboxInv, [SandboxNext]_sandboxVars PROVE SandboxInv'
  OBVIOUS
<1>1. CASE UNCHANGED sandboxVars
  BY <1>1 DEF SandboxInv, RunnerPlaced, StackOrdered, CachesEntered, TodoFits, SavedLast, Pending,
     StackCounts, openCaches, closing, Path, Kind, sandboxVars, nodeVars, scriptVars, runnerVars
<1> QED
  BY <1>1, NextTestKeeps, EnterSuiteKeeps, LeaveSuiteKeeps, HookKeeps, HookFailsKeeps,
     HooksDoneKeeps, RunTestKeeps, RestartKeeps DEF SandboxNext, RunnerStep

\* Whatever the suites, the failures and the restarts: each beforeEach of cacheBeforeEach
\* finds the ids of the caches around it on the stack of testingUtils.ts, all of them live,
\* and each after pops the id of a cache of its own suite.
THEOREM StackAlwaysMatches == SandboxSpec => []StackMatchesSuites
<1>1. SandboxInv => StackMatchesSuites
  <2>1. ASSUME SandboxInv PROVE ToSet(SNAPSHOTS) \subseteq DOMAIN snapshots
    BY <2>1 DEF SandboxInv, StackOrdered, OrderedIn, ToSet
  <2> QED BY <2>1 DEF StackMatchesSuites, SandboxInv, StackCounts
<1> QED BY <1>1, InitEstablishesSandboxInv, SandboxNextKeeps, PTL DEF SandboxSpec
=============================================================================
