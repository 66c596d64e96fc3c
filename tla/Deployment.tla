---------------------------- MODULE Deployment ----------------------------
(***************************************************************************)
(* A protocol system as the test fixtures deploy it: SystemFixture's       *)
(* initialize and createSetToken over the deploy helpers, the controller's *)
(* one-off initialize, and the contracts that tests deploy next to it.     *)
(*                                                                         *)
(* initialize is a dozen transactions, each of which stores a contract in  *)
(* a field of the fixture.  It may stop at any of them, and tests run it   *)
(* again on the same fixture, over the fields the last time left.          *)
(***************************************************************************)
EXTENDS DeployHelpers, SequencesExt

CONSTANTS
    MaxExtra,       \* bound: contracts deployed besides those of initialize
    MaxInits        \* bound: calls of initialize

ASSUME DeploymentAssumption == MaxExtra \in Nat /\ MaxInits \in Nat

Fields == {"controller", "issuanceModule", "weth", "usdc", "integrationRegistry", "factory",
           "priceOracle", "setValuer", "streamingFeeModule", "navIssuanceModule"}

\* An address, with what is behind it; NoAddress is undefined, and <<a, 0>> an account or a
\* contract deployed elsewhere.
NoAddress == <<"", -1>>

VARIABLES
    deployed,       \* what was deployed: kind and constructor arguments
    fixture,        \* fields of the fixture
    controllers,    \* state of the controllers that were initialized, by address
    step,           \* next step of initialize; 0 when it is not running
    ready,          \* the last initialize has run to its end
    setToken,       \* what the last createSetToken returned
    inits, extra

deployVars == <<deployed, fixture, controllers, step, ready, setToken, inits, extra>>

-----------------------------------------------------------------------------

\* initialize, up to the controller's own; initializeStandardComponents (of which weth and
\* the usdc mock are kept) is called inside.  The integration registry is deployed twice.
InitializeSteps == <<
    [field |-> "controller", contract |-> "Controller"],
    [field |-> "issuanceModule", contract |-> "BasicIssuanceModule"],
    [field |-> "weth", contract |-> "WETH9"],
    [field |-> "usdc", contract |-> "StandardTokenMock"],
    [field |-> "integrationRegistry", contract |-> "IntegrationRegistry"],
    [field |-> "factory", contract |-> "SetTokenCreator"],
    [field |-> "priceOracle", contract |-> "PriceOracle"],
    [field |-> "integrationRegistry", contract |-> "IntegrationRegistry"],
    [field |-> "setValuer", contract |-> "SetValuer"],
    [field |-> "streamingFeeModule", contract |-> "StreamingFeeModule"],
    [field |-> "navIssuanceModule", contract |-> "CustomOracleNavIssuanceModule"] >>

\* The address a caller has for an argument: a field of the fixture or something outside.
AddressFor(arg) ==
    CASE arg = "masterQuoteAsset" -> fixture["usdc"]
      [] arg \in Fields -> fixture[arg]
      [] OTHER -> <<arg, 0>>

Arguments(c) == IF c \in DOMAIN Deploys THEN Deploys[c] ELSE <<>>
Address(c) == <<c, Len(deployed) + 1>>

DeployContract(c) ==
    deployed' = Append(deployed, [kind |-> c,
                                    args |-> [i \in DOMAIN Arguments(c) |-> AddressFor(Arguments(c)[i])]])

DeployInit ==
    /\ deployed = <<>>
    /\ fixture = [f \in Fields |-> NoAddress]
    /\ controllers = <<>>
    /\ step = 0 /\ ready = FALSE
    /\ setToken = NoAddress
    /\ inits = 0 /\ extra = 0

StartInitialize ==
    /\ step = 0
    /\ inits < MaxInits
    /\ inits' = inits + 1
    /\ step' = 1
    /\ ready' = FALSE
    /\ UNCHANGED <<deployed, fixture, controllers, setToken, extra>>

InitializeStep ==
    /\ step \in DOMAIN InitializeSteps
    /\ DeployContract(InitializeSteps[step].contract)
    /\ fixture' = [fixture EXCEPT ![InitializeSteps[step].field] = Address(InitializeSteps[step].contract)]
    /\ step' = step + 1
    /\ UNCHANGED <<controllers, ready, setToken, inits, extra>>

\* Faulty: not in the order of the resource ids.
resourcesMisordered ==
    <<fixture["integrationRegistry"], fixture["setValuer"], fixture["priceOracle"]>>

resources ==
    <<fixture["integrationRegistry"], fixture["priceOracle"], fixture["setValuer"]>>

\* Controller.initialize; it refuses a second call.
ControllerInitialize ==
    /\ step = Len(InitializeSteps) + 1
    /\ fixture["controller"] \notin DOMAIN controllers
    /\ LET resourceIds == <<0, 1, 2>>
           ctl == [factories |-> {fixture["factory"]},
                   modules |-> {fixture["issuanceModule"], fixture["streamingFeeModule"],
                                fixture["navIssuanceModule"]},
                   resourceId |-> [id \in ToSet(resourceIds) |->
                       resources[CHOOSE i \in DOMAIN resourceIds : resourceIds[i] = id]],
                   sets |-> {}]
       IN  controllers' = OfEach({fixture["controller"]}, ctl) ++ controllers
    /\ step' = 0 /\ ready' = TRUE
    /\ UNCHANGED <<deployed, fixture, setToken, inits, extra>>

\* A transaction of initialize fails: the fields stored so far stay.
InitializeFails ==
    /\ step # 0
    /\ step' = 0
    /\ UNCHANGED <<deployed, fixture, controllers, ready, setToken, inits, extra>>

\* createSetToken: the factory asks its own controller about the modules, deploys the set
\* and registers it; getCreatedSetTokenAddress takes the last SetTokenCreated of the latest
\* block, which this transaction was mined in.
ControllerOf(a) ==
    LET c == deployed[a[2]]
    IN  c.args[CHOOSE i \in DOMAIN c.args : Arguments(c.kind)[i] = "controller"]

\* Faulty: the set is told of the fixture's controller.
argumentsFromFixture(ctl) ==
    [i \in 1 .. 7 |-> AddressFor(SetToken_constructor[i])]

SetTokenArguments(ctl) ==
    [i \in 1 .. 7 |-> IF SetToken_constructor[i] = "controller" THEN ctl
                      ELSE AddressFor(SetToken_constructor[i])]

createSetToken(module) ==
    LET ctl == ControllerOf(fixture["factory"])
    IN  /\ step = 0
        /\ extra < MaxExtra
        /\ fixture["factory"] # NoAddress
        /\ ctl \in DOMAIN controllers
        /\ fixture[module] \in controllers[ctl].modules
        /\ deployed' = Append(deployed, [kind |-> "SetToken", args |-> SetTokenArguments(ctl)])
        /\ controllers' = [controllers EXCEPT ![ctl].sets = @ \cup {Address("SetToken")}]
        /\ setToken' = Address("SetToken")
        /\ extra' = extra + 1
        /\ UNCHANGED <<fixture, step, ready, inits>>

\* A test deploys contract c next to the system.
DeployBySide(c) ==
    /\ step = 0 /\ ready
    /\ extra < MaxExtra
    /\ c \in DOMAIN Deploys
    /\ DeployContract(c)
    /\ extra' = extra + 1
    /\ UNCHANGED <<fixture, controllers, step, ready, setToken, inits>>

DeployNext ==
    \/ StartInitialize \/ InitializeStep \/ ControllerInitialize \/ InitializeFails
    \/ \E module \in {"issuanceModule", "streamingFeeModule"} : createSetToken(module)
    \/ \E c \in DOMAIN Deploys : DeployBySide(c)

DeploySpec == DeployInit /\ [][DeployNext]_deployVars

-----------------------------------------------------------------------------
(* Properties *)

\* What a constructor parameter must be bound to.
Fits(parameter, address) ==
    CASE parameter = "controller" -> address[1] = "Controller"
      [] parameter = "weth" -> address[1] = "WETH9"
      [] parameter = "masterQuoteAsset" -> address[1] = "StandardTokenMock"
      [] parameter = "setValuer" -> address[1] = "SetValuer"
      [] OTHER -> address = <<parameter, 0>>

\* Whatever was deployed, by the fixture or next to it, has in each constructor parameter
\* what the contract takes that parameter for: no helper exchanges two addresses, and
\* none passes a field before the step that sets it.
WiredByName ==
    \A n \in DOMAIN deployed : deployed[n].kind \in DOMAIN Constructors =>
        LET c == deployed[n]
        IN  /\ Len(c.args) = Len(Constructors[c.kind])
            /\ \A i \in DOMAIN c.args : Fits(Constructors[c.kind][i], c.args[i])

\* Once initialize has returned, first time or again over what a failed one left, the
\* fixture is one system: the contracts its controller knows were built for that very
\* controller, are the ones the fixture holds, and each resource id of ResourceIdentifier
\* leads to the contract it names.
OneSystem ==
    ready =>
        LET me == fixture["controller"]
            ctl == controllers[me]
        IN  /\ \A a \in ctl.factories \cup ctl.modules \cup ToSet(<<ctl.resourceId[0],
                        ctl.resourceId[1], ctl.resourceId[2]>>) :
                  ControllerOf(a) = me /\ a \in {fixture[f] : f \in Fields}
            /\ ctl.resourceId[0][1] = "IntegrationRegistry"
            /\ ctl.resourceId[1][1] = "PriceOracle"
            /\ ctl.resourceId[2][1] = "SetValuer"

\* A set the fixture returns is registered with the controller the set itself asks, and
\* until initialize is called again that is the fixture's.
SetsKnowTheirController ==
    [][setToken' # setToken =>
          LET ctl == deployed'[setToken'[2]].args[4]
          IN  /\ ctl \in DOMAIN controllers
              /\ setToken' \in controllers'[ctl].sets
              /\ ready => ctl = fixture["controller"]]_deployVars
=============================================================================
