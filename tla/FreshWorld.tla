----------------------------- MODULE FreshWorld -----------------------------
(***************************************************************************)
(* What test sandboxing promises, whatever it is built from: a test starts *)
(* in a world that holds what the hooks of the suites around it set up,    *)
(* each of them exactly as if it had just run, and nothing another test    *)
(* left behind; and every test has its turn unless a hook it needs failed.  *)
(***************************************************************************)
CONSTANTS
    Tests,          \* every test there is
    SetUp(_),       \* the hooks around a test
    NoTest          \* no test is running

VARIABLES
    pending,        \* tests that have not had their turn
    running,        \* the test that is running, or NoTest
    world           \* what the running test finds

vars == <<pending, running, world>>

Init ==
    /\ pending \in SUBSET Tests
    /\ running = NoTest
    /\ world = {}

Start(t) ==
    /\ running = NoTest
    /\ t \in pending
    /\ pending' = pending \ {t}
    /\ running' = t
    /\ world' = SetUp(t)

Finish ==
    /\ running # NoTest
    /\ running' = NoTest
    /\ world' = {}
    /\ UNCHANGED pending

\* Hook h failed: exactly the tests that need it are passed over.
Break(h) ==
    /\ running = NoTest
    /\ pending' = {t \in pending : h \notin SetUp(t)}
    /\ UNCHANGED <<running, world>>

\* The process is killed, and some or all of the tests are run afresh.
Restart ==
    /\ pending' \in SUBSET Tests
    /\ running' = NoTest
    /\ world' = {}

Next ==
    \/ \E t \in Tests : Start(t) \/ \E h \in SetUp(t) : Break(h)
    \/ Finish
    \/ Restart

Spec == Init /\ [][Next]_vars /\ <>(pending = {} /\ running = NoTest)
=============================================================================
