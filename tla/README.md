# A verification development for Index Protocol

Index Protocol is a set of Ethereum contracts for tokens that stand for a basket
of other tokens, with a TypeScript harness that builds, deploys and tests them.
This directory holds TLA+ models of the core of both, the TLC configurations that
check them on small instances, and TLAPS proofs of what matters most. Every
definition is translated from the Solidity under `src/contracts` or the TypeScript
and shell scripts beside it; `PROJECT.json` maps each definition to its lines.

## 1. The system

### Parts, state and operations

| Part | State it keeps | Operations that change it |
|---|---|---|
| `SetToken` | supply, `components`, per component a default virtual unit and a list of modules with external virtual units, `positionMultiplier`, module states, lock and locker, manager | edits by modules (`editDefaultPositionUnit`, `editExternalPositionUnit`, `add/removeComponent`, `add/removeExternalPositionModule`, `editPositionMultiplier`), `mint`, `burn`, `lock`, `unlock`, `initializeModule`, `invoke`; by the manager `addModule`, `removeModule`, `removePendingModule`, `setManager` |
| `Position`, `PreciseUnitMath`, `AddressArrayUtils` | none | the arithmetic and the list handling every module goes through |
| `Controller`, `IntegrationRegistry`, `PriceOracle`, `SetTokenCreator` | lists of sets, modules, factories, resources, fees, adapters, oracles | additions and removals by the owner; creation of sets |
| Issuance: `BasicIssuanceModule`, `DebtIssuanceModule`, V2, V3, `IssuanceModule`, `SlippageIssuanceModule`, `CustomOracleNAVIssuanceModule` | fee settings, lists of hook modules | `issue`, `redeem`, settings, hook registration |
| `StreamingFeeModule` | rate, maximum, time of the last accrual | `accrueFee`, `updateStreamingFee`, `initialize`, `removeModule` |
| Rebalancing: `AuctionRebalanceModuleV1`, `GeneralIndexModule`, `SingleIndexModule` | targets, rebalance data, limits, allow lists | start, bid or trade, raise targets, unlock, settings |
| Leverage: Aave V2 and V3, Compound, Morpho, PerpV2 | enabled assets or markets | lever, delever, sync, issuance hooks, asset lists, lifecycle |
| Single-position modules: `TradeModule`, `AirdropModule`, `WrapModule` (V2), `AmmModule`, `StakingModule`, `ClaimModule`, `NotionalTradeModule`, `RebasingComponentModule` | little: airdrop settings, staking records, claim lists | swap one position for another |
| Adapters, viewers, products | none, or periphery | calldata encoding, reads |
| Test expectation helpers (`utils/common/*Utils.ts`) | none | compute what a contract should answer; the assertions compare with that |
| Test sandboxing (`utils/test`, `blockchainUtils.ts`) | one stack of snapshot ids, one id per cache or suite; the node's snapshots | snapshot, revert, cache an initializer, drop a cache |
| Build (`tasks/`, `hardhat.config.ts`, `package.json`) | artifacts, external artifacts under git, generated types, `.env` | clean, compile, compile in isolation, rewrite ABIs, generate types, test |
| Deployment (`utils/deploys`, `systemFixture.ts`) | the fixture's fields, what is deployed | deploy by position of arguments, `initialize`, `createSetToken` |

### How the parts interact

All calls happen inside transactions: a call either runs to its end with all the
calls it makes or reverts without a trace. Concurrency is the interleaving of
transactions by different parties (manager, the modules' users, bidders, the
Controller's owner, third parties that send tokens, external protocols whose
balances move by themselves). Modules share one state, the `SetToken`: each
reads units and supply, moves tokens with `invoke` and writes units back. The
set asks the Controller whether a module is still enabled; issuance modules
call hooks of the leverage modules before tokens move; `removeModule` calls back
into the module.

The harness is different: mocha runs hooks and tests one after another against a
node that outlives it, builds are operating system processes that share one working
directory, and any of them may be killed. What ties it to the contracts are the
expectation helpers: a test believes in a contract because the two agree.

### What is hard

- **Rounding.** A unit is stored as a virtual unit and read through the position
  multiplier; amounts are units times supply. Both round, at each step in a
  direction somebody chose. Nobody tests long sequences of roundings.
- **Lists beside mappings.** `components`, `modules`, `externalPositionModules`,
  `biddersHistory`, enabled assets: each list mirrors a mapping, and is edited by
  conditions over rounded values, by several modules.
- **Stale values.** Units are stale as soon as interest accrues; targets are
  fixed in terms of an older multiplier; permissions survive in mappings.
- **Failure of one part.** Modules are disabled on the Controller, hooks are
  registered in `try`/`catch`, subtractions revert in conditions nobody meant to
  be able to fail.
- **Boundaries.** Supply zero, targets zero, fees of 100%, amounts below a
  transfer buffer.
- **Value instead of amounts.** NAV issuance and Perp issuance compute from prices
  and account values, with three scales of decimals and signs; supply, unit and
  multiplier move together, each rounded on its own.
- **Restart and failure of the harness.** A runner killed and started again on a live
  node, a hook that throws half way, a build killed between rewriting a tracked file
  and restoring it, a second process that reads what the first has truncated, a
  fixture deployed again over a failed one.

`PROJECT.json` lists these as hazards at their lines, with the properties that
would catch them going wrong.

### What makes each part correct

- *SetToken*: lists and positions agree; no stored position reads as zero; a
  locked set can always be unlocked by an initialized module; no other party
  moves it meanwhile.
- *Issuance*: the set holds what its units promise; nobody's redemption blocks.
- *Streaming fee*: one accrual takes no more than the fee that was due; the set
  stays collateralized up to a bound.
- *Rebalancing*: positions stay backed; no trade passes its target; a complete
  fill settles a target; an exclusive rebalance is exclusive.
- *Leverage*: debt is tracked and covered by the holders; holders can leave while
  the health factor holds, and all together always; a removed module leaves nothing
  behind.
- *NAV and Perp issuance*: whoever issues or redeems leaves the sets of everybody
  else worth what they were; the reserve is there.
- *Expectation helpers*: they agree with the contracts in every reachable state they
  have an answer for, and not only at the amounts the tests use.
- *Sandboxing*: every test starts in the world its hooks set up and no other, and has
  its turn.
- *Build*: tracked files are restored or accounted for; tests run on the chain they
  are tagged for; scripts end.
- *Deployment*: every constructor gets what it takes an argument for; a fixture is one
  system, also after a failure.

## 2. Modules and their correspondence to the code

```
PreciseUnitMath, AddressArrayUtils
  Position                     extends both
    SetToken
    Issuance
      StreamingFee             instantiates FeeModuleUtils
      AuctionRebalance
      GeneralIndex
      Leverage
      NAVIssuance              instantiates NavIssuanceModuleUtils
  AuctionBidders               extends AddressArrayUtils
MCAuctionRebalance             AuctionRebalance and AuctionBidders
  PerpIssuance                 extends PreciseUnitMath, instantiates PerpV2Utils
MathUtils
  FeeModuleUtils, NavIssuanceModuleUtils, PerpV2Utils
MCValuedIssuance               NAVIssuance and PerpIssuance

FreshWorld
  TestSandbox                  instantiates FreshWorld: the refinement
HardhatConfig
  BuildTasks
DeployHelpers
  Deployment
MCToolchain                    TestSandbox, BuildTasks and Deployment
```

Indented modules extend the one above them, except where said otherwise. `MCAuctionRebalance`, `MCValuedIssuance` and `MCToolchain` compose
systems that do not interact: their variable `subject` says which of them is explored,
and the others wait in one initial state, so one run covers several models without
multiplying their states.

- **PreciseUnitMath, AddressArrayUtils.** The library functions as operators. An
  operator `fReverts` or `fOK` says when the code reverts. Integers are
  unbounded: SafeMath turns an overflow into a revert, and a step that reverts is
  a step not taken. The constant `PRECISE_UNIT` stands for 10^18.
- **Position.** Components, default and external virtual units and the multiplier
  are one record, as an edit by the library is several low-level calls of one
  transaction. `getDefaultPositionRealUnit`, `editDefaultPosition`,
  `editExternalPosition`, `calculateAndEditDefaultPosition`,
  `validateNewMultiplier` keep the source's names.
- **SetToken.** One action per operation, the caller a parameter. `UnitWriter`
  holds modules that, as the PerpV2 hooks do, write an external unit without
  editing the lists. `Init` is what `SetTokenCreator` lets through. The
  Controller's registry of modules is a variable.
- **Issuance.** Component balances beside the positions. `BasicIssue`,
  `BasicRedeem`; `Issue` and `Redeem` for the three versions of the debt module
  (their equity side); `Trade`; `Absorb`; `Gift`, a transfer by anybody. Fee
  rates are inputs of the step that charges them, as their owners may change
  them between any two transactions; the tokens lost in a transfer are an input
  too.
- **StreamingFee.** The module on a set that is issued and redeemed. Only the time
  since the last accrual is kept. `issued` is a history variable.
- **AuctionRebalance.** Rebalances, bids, raised targets, lock and unlock, with
  issuance and multiplier changes in between. The price is an input.
- **AuctionBidders.** The allow list and the array that must clear it.
- **GeneralIndex.** The same question for trades against WETH on an exchange, with
  maxima, cool-off and the spending of the remaining WETH. The exchange is
  external.
- **Leverage.** The Aave modules and the debt side and hooks of
  `DebtIssuanceModuleV2`. Aave's debts, its use of collateral and its prices are
  state; its rules are in the operators marked external. The health factor is asked
  of every loan, withdrawal and aToken that leaves: of every aToken in V2, and in V3 of
  those in use as collateral (`ChecksEveryTransfer`). A price here includes the
  liquidation threshold, and the sums are exact where Aave rounds each. Interest,
  moves of price, liquidation of a set below a health factor of 1, repayment by others,
  donations and the disabling of the module are steps of their own.

- **MathUtils, FeeModuleUtils, NavIssuanceModuleUtils, PerpV2Utils.** The expectation
  helpers of the test suite, function by function. The modules they predict
  instantiate them: `StreamingFee` (`HelpersPredictAccrual`), `NAVIssuance`
  (`HelpersPredictNav`), `PerpIssuance` (`HelpersPredictPerp`).
- **NAVIssuance.** `CustomOracleNAVIssuanceModule` on top of `Issuance`'s state:
  reserve assets of different decimals, prices that move, fees and premium as inputs,
  `BasicIssuanceModule` in between. `SetValuer` is `calculateSetTokenValuation`.
- **PerpIssuance.** The issue and redeem hooks of `PerpV2LeverageModuleV2` and the
  module that calls them, with manager trades, deposits and withdrawals. Perp's
  clearing house (base, quote, realized profit, funding, liquidation) is external. The
  state is the account, the module's list of markets, the set's external position and the
  supply. The hooks sync the list (`syncPositionList`), a liquidation does not touch it,
  and the helpers read it as it is stored (`Listed`, `Quotes`).
- **FreshWorld, TestSandbox.** `FreshWorld` is the abstract promise: a test starts in
  the world its hooks set up, and every test has its turn unless a hook it needs failed.
  `TestSandbox` is the mechanism: one stack of snapshot ids shared by all caches, a node
  whose reverts forget later snapshots, mocha's order of hooks, hooks that throw before
  or after touching the chain, a runner killed and restarted on a live node. The
  refinement mapping is `Abstract`. What a test file may do around the helpers is
  `CacheUseAssumption`, read off the test files.
- **HardhatConfig, BuildTasks.** The configuration's decisions as operators of the
  environment; the scripts as sequences of commands, each command a loop of steps of a
  process. Reading a file, truncating it and filling it are three steps; a plain text that
  is written over another process's gas, which is longer, leaves a file nobody can parse.
  A process dies wherever the code throws, and may be killed anywhere. `.env` may hold
  anything and is edited between steps; `yarn chain` and `yarn chain:fork` start the node
  behind localhost, with the `.env` of that moment. Arbitrum's url may be missing, and then
  no chain answers.
- **DeployHelpers, Deployment.** What each deploy helper passes and what each constructor
  takes, position by position; `initialize` one transaction at a time, with a failure
  after any of them and a second call over what is left.

A definition whose comment begins with "Faulty" is a plausible wrong version of
the definition that follows it. No specification uses it; `PROJECT.json` pairs
each with the property that notices it.

## 3. Model-checking runs

**Fairness.** The contracts state none: nothing in them runs by itself, every step is
somebody's transaction, so the code promises only what a step may do and when it is
possible. "Can leave", "can be unlocked" are therefore stated as invariants: in every
reachable state the guards of the redemption, or of the unlock, hold. The harness does
run by itself. `SandboxFairness` is weak fairness of the runner: mocha's loop awaits one
hook or test after the other, and the timeout in `hardhat.config.ts` ends one that hangs.
`BuildFairness` is weak fairness of each process's own steps: the subtasks await only the
file system and the compiler, never another process, and the scheduler runs every process.
Being killed, failing and restarting are never fair.

`CHECK_DEADLOCK FALSE` is set where the bounds end the behaviours or where the system may
stop: the contracts always may, and mocha and the build do when they have finished.

| Run | Shows |
|---|---|
| `set_token` | `ComponentsExact`, `PositionsVisible`, `ModuleListExact`, `LockerStaysInitialized` and `FrozenWithoutLocker` on one component and two modules, one of which writes past the library; four units with both signs and multipliers around the precise unit, so that most conversions round. Several components are covered by the proofs. |
| `issuance` | With up to two components, all four modules, trades, absorptions and gifts: `Collateralized`, `RedemptionNeverBlocked`, `BufferCoversLoss`. A precise unit of 2 rounds half of the products; fee rates are 0, 50% and 100%; tokens lose up to the buffer. |
| `streaming_fee` | `ShortfallBounded`, `FeeShareBounded`, `BlockedAccrualIsFinal`, and `HelpersPredictAccrual` for the tests' fee helpers, over several years of accruals at 0, 10% and 40%, with issues and redemptions in between. |
| `auction_rebalance` | `PositionsBacked`, `BidNeverOvershoots`, `FillMeetsTarget`, `LockedRebalanceIsExclusive` for bids of every size in both directions, either token as quote asset. `NoStalePermission`, `HistoryExact` for four bidders updated in batches of up to two: the array is long enough for a removal in its middle. |
| `auction_unlock` | violation, disagreement 1 |
| `general_index` | `PositionsBacked`, `TradeNeverOvershoots`, `FullTradeMeetsTarget`, `RemainingKeepsTargets`. |
| `leverage` | `HealthyLeverageRedeemable`, `DebtIsTracked`, `SupplyChangeCoversDebt`, `OnlyInterestUncoversDebt` on one collateral and one borrow asset worth as much or twice that, with the module disabled and enabled at any time and Aave V2's check of every aToken. Interest, prices and liquidations take sets below a health factor of 1 and back. |
| `leverage_removal` | violation, disagreement 2 |
| `valued_issuance` | NAV: `NavShortfallBounded`, `NoDilution`, `HelpersPredictNav` over up to three NAV issues and redemptions in two reserve assets, one with half the decimals, with component issues and price moves in between. Perp: `SlippageBorneByIssuer`, `HelpersPredictPerp` over up to five issues, redemptions, trades, deposits, moves of price and funding and liquidations in two markets. |
| `liquidated_helper` | violation, disagreement 4 |
| `toolchain` | Sandboxing: `StackMatchesSuites` and `ImplementsFreshWorld`, safety and liveness, on four layouts of suites with a failing hook and a restart. Build: `ExternalsRestored`, `ScriptsEnd` for two processes, two scripts started and one kill. Tests: `TestsFitTheChain` for one process that runs the test scripts under six kinds of `.env` (forking or not, either network, with, without or with a fake token, with and without Arbitrum's url), with up to three edits of `.env` and starts and stops of a node. Deployment: `WiredByName`, `OneSystem`, `SetsKnowTheirController` for two calls of `initialize` that may fail anywhere, and one more contract of any kind. |
| `publish_gas` | violation, disagreement 3 |

**Why the bounds are enough.** The interesting cases are rounding, order and
emptiness, all of which happen with small numbers. A supply that is not a multiple
of the precise unit, a unit that is not a multiple of the multiplier and a fee
that is not a whole number of tokens occur in every run with arithmetic; supplies
return to zero; a second holder is a part of the supply. Bounds that only cut
behaviours short are named `Max...` and stand in the guards of the actions (through
`WithinBounds`). What would need larger numbers is a bound that grows with the
length of a behaviour: `ShortfallBounded` and `NavShortfallBounded` are of that kind,
and their runs go through every sequence up to 2.4 and 1.25 sets issued. `valued_issuance`
has a precise unit of 20 and units, prices, quantities and rates on both sides of it that
do not divide each other; three NAV steps are enough for an issue, a redemption in
the other asset and a third under a multiplier both have changed, five Perp steps
for a position in each market, opposite in sign, a move, and an issue and a
redemption.

In `toolchain` what matters is nesting and order: the layouts have caches three deep, two
in one suite, suites beside them, two files one after the other, and the other
helper around a whole file, which are the shapes the test files have. Two processes
that share two files are what it takes for one to read what the other has torn; a
third adds no new pair. One fault already ends a process at each of its steps.
`TestsFitTheChain` is about one process and one node, so it is explored with one of each
and no other build beside them: three changes are enough for a node to be started, `.env`
edited, and a second node started from it, before or after the tests.

In `leverage` two units of debt beside two of collateral and prices of 1 and 2 put sets on
both sides of a health factor of 1 and exactly at it.

### What holds with a qualification

- `RedemptionNeverBlocked`: V3 cannot pay out an amount smaller than its transfer
  buffer.
- `BidNeverOvershoots`, `TradeNeverOvershoots`: up to one base unit per set below,
  since a real unit loses up to one when it is stored and read back; less than
  one precise unit over the whole supply above. `RemainingKeepsTargets` leaves
  out empty sets, on which a trade of nothing closes positions.
- `SupplyChangeCoversDebt`: not for a debt that outlived the supply, which takes
  redemptions that passed by the hook.
- `HelpersPredict...`: the helpers round in another order than the contracts. The
  properties give the distance: none while the multiplier is one, which is
  all the tests try, and afterwards less than the size of the roundings they
  exchange. In a reserve asset with fewer decimals a redemption may be up to three
  base units off, and more only where the fees together exceed the whole.
  `FundingPredicted` needs a premium that has kept its direction since the set last
  settled, `LeverUpAccepted` a notional of which two percent is more than the
  rounding of a unit per set. `HelpersPredictTransferOut` is up to the roundings of the
  closing ratio, market by market. The helpers for an issue and a redemption on Perp
  predict what happens while the module's list of markets is in sync (`PositionsInSync`).
  It is not from a liquidation, or an issue that takes a base unit down to 1, until the
  next hook syncs it: then one helper divides by zero (disagreement 4) and the other asks
  for a quote of nothing.
- `HealthyLeverageRedeemable`: below a health factor of 1, after interest, a move of price
  or a loss of collateral, Aave lets no aToken of a part of the supply leave, and those
  redemptions revert until somebody repays, delevers or liquidates. A redemption of the
  whole supply repays all debt before the aTokens leave, and passes. That a part passes at a
  health factor of exactly 1 is up to Aave's own rounding, which the model leaves out.
- `TestsFitTheChain`: on localhost the process cannot know what the node forks. The
  property says exactly when the tests fit: when the node, by its own script and the `.env`
  it was started from, forks what the process would have forked. With `FORK=true` in an `.env`
  edited after `yarn chain`, or with `yarn chain:fork` behind `yarn test` and no `FORK` in
  `.env`, they do not fit. And `FORK_NETWORK=arbitrum` in `.env` turns `test:fork:ethereum` into
  a run of the Arbitrum tests on Arbitrum.
- `SlippageBorneByIssuer`: not for a redemption from an account that has nothing left
  for it, whose share the code represents as zero; and up to `perpRounding`, which counts
  a position too small to be listed at what it would bring.
- The proofs found three of these bounds too small, by amounts that no example of a run
  exceeds: `perpRounding` netted an unlisted position against its funding, which is charged
  all the same, `HelpersPredictTransferOut` left out the truncation of each market's own
  quote, and `LeverUpAccepted` the last unit of the quote.
- `NoDilution`: up to `truncationLoss`, the sum of what each rounding of the module can
  cost the whole supply. The sets minted are paid for at a rounded valuation per set, so
  one part of it grows with the ratio of the sets minted to the old supply; this part is
  small above `minSetTokenSupply`, for which the contract asks. The proof found the
  bound without it, which no example of a run exceeds, to be too small.
- `ExternalsRestored`: a process that dies leaves what it had not restored; the
  property says that nothing else does. A file that another's write has garbled stays
  the dead process's to account for.
- The leverage run keeps the protocol's share of fees below 100%: at 100%
  `DebtIssuanceModule` charges a fee and mints none, and the debt taken on for it
  has no holder.

### Disagreements with the documentation

1. *Auction.* `unlock` "can be called once the rebalance duration has elapsed", but
   evaluates the condition for an early unlock first, and that reverts when a
   target or a unit is zero (`auction_unlock`).
2. *Leverage.* After the last redemption the sync is skipped, and the module can be
   removed while the set still lists its position (`leverage_removal`).
3. *Publishing.* The gas modifications "should be skipped when publishing to npm", but
   the variable that skips them is set for the first of the script's commands only, and
   the second writes the artifacts again (`publish_gas`).
4. *Perp helper.* `calculateUSDCTransferOut` "returns notional amount of USDC to transfer on
   redeem" and "handles multiple positions, long and short", but divides by the base balance
   of every market the module lists. After a liquidation, until a hook syncs the list, it
   throws for a redemption that passes (`liquidated_helper`).

Three further ones met while modelling, without a run of their own:

- `accrueFee` promises full collateralization. Issues between accruals pay the rounded
  unit, and after further accruals the set tracks more than it holds.
  `ShortfallBounded` gives the bound: one base unit of a component for each set ever
  issued.
- A borrow asset delisted with its position in place is borrowed again by the next
  issue; the debt check of `removeModule` does not see it.
- Removed while disabled on the Controller, the leverage module stays registered as a
  hook and blocks redemptions through the issuance module.

## 4. Proofs

`tlapm` checks eight modules of proofs, for every value of the constants under the
assumptions the specifications name: `PRECISE_UNIT` is a positive natural number,
components and modules are finite sets of any size, units and multipliers are integers
of any size (those an index manager gives, natural numbers up to the precise unit),
quantities, fees, prices, losses and the buffer are natural numbers, a token's base unit
divides `PRECISE_UNIT` (both are powers of ten, and no token in these systems has more than
18 decimals), spot prices on Perp are positive, the test helper's slippage is at most
100%, `NULL` is no module, the leverage module writes units through the library (`leverageModule \notin
UnitWriter`, as both Aave modules do), the scripts are those of `package.json` (what `.env` holds is
not restricted), prices at Aave are positive, and test files use the sandboxing helpers as `CacheUseAssumption` says. No bound of a run is needed: `WithinBounds` and its like
only take steps away.

| Module | Theorems |
|---|---|
| **LibraryProofs** | *Induction*: `LeastNatural`, `BoundedInduction`, `StepsExist`. *PreciseUnitMath*: signs, monotonicity, floor bounds, `RoundTripConservative`. *AddressArrayUtils*: `AppendFacts`, `RemoveStorageFacts`. *The tests' mathUtils*: `MulAgrees`, `MulCeilAgrees`, `DivAgrees`, `DivCeilAgrees`, `DivDownAgrees`, `MulCeilIntRoundsAway`. *Sums over finite sets*: `SumIsUnique`, `SumTakes`, `SumCombines`, `SumStaysBelow`, `SumAgrees`, `SumSplits`. *Position*: `EditDefaultPositionKeepsInv`, `EditExternalPositionKeepsInv`, `WriteExternalUnitKeepsInv`, `EditPositionMultiplierKeepsInv` |
| **SetTokenProofs** | `TypeCorrect`, `ComponentsAlwaysExact`, `PositionsAlwaysVisible`, `ModuleListAlwaysExact`, `LockerAlwaysInitialized`, and of its steps `FrozenUntilLockerEnabled` |
| **IssuanceProofs** | `AlwaysCollateralized`, `AlwaysRedeemable`, `BufferAlwaysCoversLoss` |
| **TradeProofs** | `GeneralIndex`: `PositionsStayBacked`, and of its steps `NeverOvershoots`, `FullTradesSettle`, `RemainingRespectsTargets`. `PerpIssuance`: `PerpAlwaysPredicted`, and of its steps `SlippageAlwaysBorneByIssuer` |
| **AuctionRebalanceProofs** | `BidsKeepBacking`, `LockedRebalanceAlwaysExclusive`, and of its steps `BidsStopAtTarget`, `FillsSettle`; of the bidders `PermissionsEndWithModule`, `HistoryAlwaysExact` |
| **InflationProofs** | Streaming fee: `ShortfallAlwaysBounded`, `AccrualAlwaysPredicted`, and of its steps `FeeShareAlwaysBounded`, `BlockedAccrualStaysBlocked`. NAV issuance: `NavShortfallAlwaysBounded`, `NavAlwaysPredicted`, and of its steps `NobodyDiluted` |
| **LeverageProofs** | `DebtAlwaysTracked`, `HealthyAlwaysRedeemable`, and of its steps `SupplyChangesCoverDebt`, `CoverLostToInterestOnly` |
| **ToolchainProofs** | The build: `ExternalsAccountedFor`, `AlwaysFitsTheChain`, for any number of processes, files, contracts, runs and deaths. Deployment: `FixtureIsOneSystem`, `EverythingIsWiredByName`, and of its steps `SetsAlwaysKnowTheirController`, for any number of calls, failures and further contracts. Sandboxing: `StackAlwaysMatches`, for any trees of suites, failing hooks and restarts |

With these, every invariant and action property of the runs `set_token`, `issuance`,
`streaming_fee`, `auction_rebalance`, `general_index`, `leverage` and `valued_issuance` is a theorem, and of `toolchain` all but `ImplementsFreshWorld` and `ScriptsEnd`.

*Positions.* `ComponentsExact` speaks of virtual units while the library decides by
real ones, so it is not inductive: an edit that finds a real unit of zero over a
virtual unit that is not would list the component twice. What excludes this is
that no stored unit ever reads as zero, which in turn rests on two facts: a
write stores a virtual unit that reads back as non-zero or reverts
(`convertRealToVirtualUnitOK`), and a new multiplier is accepted only if the
smallest tracked unit stays positive under it (`validateNewMultiplier`), hence by
monotonicity all of them do. `PositionInv` is the conjunction of the two with the
lists' freedom from duplicates and, for modules outside `UnitWriter`, the
equivalence of being listed and having a unit. `SetTokenProofs!IInv` adds the type
invariant, `ModuleListExact` and `LockerStaysInitialized`. Each of the library's operations
is shown to keep `PositionInv` on its own, so a step of `SetToken` is one citation.

*Collateral.* `Collateralized` rounds, so a step's bound cannot be
added to it. `IssuanceProofs!IInv` is its form without a division: supply times unit is
at most the precise unit times the balance (`Backs`), on top of `PositionInv`. An issue
then adds two such inequalities (`Minted`), a redemption subtracts them (`Burned`), and
fees only mean that fewer sets are minted than were paid for (`FeesMinted`, `Fewer`).
V1 rests on exact transfers, V2 and V3 on the check after them: whatever is lost, the
check's bound is what the proof uses. A trade or an absorption writes a unit: the
quotient by the supply rounds down (`DivIsBelow`), storing and reading it back never
grows it (`RoundTripConservative`), so supply times the unit that is read is at most what
the balance backs (`EditedToBalance`).

*Nobody's redemption blocks.* `RedemptionNeverBlocked` and `BufferCoversLoss` need no more
than that invariant, but they state that guards hold, so each check of the four modules is
derived: what a redemption takes out, the rest keeps backing. Rounding down what goes out
and up what must stay, and the fee's sets, which keep their collateral, point the same way.
For V3 the buffer is subtracted from the amount sent and added to what must come in, and
pays for the transfer's loss on either side.

*Rebalancing.* Both modules reuse `IInv` for backing. Where a trade ends is a question of
four roundings in a row: two notionals, the division that applies the protocol fee, and the
division of the balance by the supply when the unit is written. The lemmas bound the size of
a trade from both sides, by the distance to the target for `...Overshoots` and, with one
whole set, from below for `Full...` and `Fills...`; the last unit is lost or not when the
unit is stored, which takes the invariant `NotRaised`: the multiplier starts at 100% and
nothing in these systems raises it, so a stored unit reads back at most one lower
(`RoundTripLosesOne`). `LockedRebalanceIsExclusive` is inductive beside the types.

*The allow list.* `HistoryExact` is inductive for one bidder; a batch is a loop, whose
states are the values of a recursive function over its turns. `BoundedInduction` carries the
invariant through them and `StepsExist` gives the function.

*Inflation.* What a streaming fee accrual and a NAV issue or redemption have in common is
that supply and multiplier change against each other, both rounded. The invariants `FeeInv`
and `NavInv` bound the claim of the whole supply in virtual units (`ClaimBounded`), where
an accrual is a product that shrinks (`AccrualArithmetic`), an issue against components adds
less than one base unit per set, and a redemption takes out no more than its share.
`BlockedAccrualIsFinal` follows from monotonicity: time only raises the fee due, a larger fee
means a smaller multiplier, and a smaller multiplier still fails `validateNewMultiplier`,
while issues and redemptions leave units alone. `HelpersPredictAccrual` and
`HelpersPredictNav` compare nested quotients by the products they bracket (`ScalingOrder`,
`MultiplierOrder`, `ThereAndBack`, `RedeemOrder`). For a redemption into an asset with fewer
decimals the proof says what the examples of a run do not: the two orders can be
three base units apart, and there is no bound at all where the fees together exceed the
whole, which only the two fees' separate maxima limit. `NoDilution` compares two sums over the components, the value of a set
before and after. A new multiplier is the old one times old over new supply, less what truncation
takes (`ScaledMultiplier`), so for each component the old claim exceeds the new one by at most
its own part of `truncationLoss` (`OtherKeepsValue`); the reserve asset's unit, which is
recomputed from the balance, has what was paid in, or lacks what was paid out, on top
(`ReserveKeepsValue`). The payment is measured at the valuation: the sets minted are
worth no more than was paid (`MintedArePaidFor`), what a redemption takes no more than the sets
burned (`RedeemedForLess`). `SumCompares` adds the components up.

*Perp.* `PerpInv` has the types, the signs and the vault that is never overdrawn; all else
follows from one step at a time. The account is a sum over markets (`AccountAddsUp`). A swap
conserves it market by market, whether it opens, reduces or turns a position, but for what
the swap itself costs (`OpenPositionConserves`, `SwapsConserve`); a settlement or withdrawal
moves funding and profit into the vault and leaves the rest of a dollar where it was
(`WithdrawnSettles`). The swaps of an issue or a redemption are a share of each position, so
their value is that share of the account up to a rounding per market (`AccountShare`,
`ShareOfAccount`), what is transferred covers it (`TransferCoversValue`), and the other sets
keep theirs (`IssueKeepsWorth`, `RedeemKeepsWorth`). The helpers are compared order by
order. For an issue both sides are one quotient of the same sum (`TransferInValue`); for a
redemption the helper closes each market by a ratio of its own (`CloseRatio`, `MarketClose`)
and the distances are added up (`CloseSums`); `LeverUpBase` and `QuoteNearEstimate` bracket
the three divisions behind the bound that `leverUp` asks for, and `FundingClose` the division by
the day before or after the multiplication.

*Leverage.* `LInv` says that the multiplier stays 100% (`Unscaled`), so that units read back
exactly; that a borrow asset's unit is never positive, and negative while there is a debt
(`OwedByUnit`); and that components which are not collateral are
backed (`Backs`), as collateral earns and loses by itself. It also ties `enabledAssets` to the
mappings beside it (`AssetsMatch`). A sync walks the two lists of assets; `SyncedUnits` says
what units it ends with, by induction over the walk. After it the tracked units, rounded away
from zero, cover Aave's debts (`Covers`); an issue borrows, rounded down, what the new sets owe
on top (`BorrowedOnTop`), and a redemption repays, rounded up, what the old ones owed
(`RepaidOffTop`), so that either leaves a covered debt covered.
That a redemption passes (`HealthyLeverageRedeemable`) is the longest argument: what is
sent out in each component, what the hook repays of each debt with tokens the redeemer brings,
and the check after each transfer, for sets whose positions the module manages
(`WellManaged`), whatever interest, liquidation or a stranger's repayment has done to the
balances in between. Aave's check of the aTokens that leave compares two sums over assets:
the redeemer takes of each collateral at most his share of the supply (`ShareOut`) and repays of
each debt at least that (`ShareRepaid`), so both sums times the supply keep their order
(`HealthKept`); and a debt of a well managed set is one the redemption repays
(`ManagedDebtCovered`), so that after the last of the supply nothing is owed.

*The build.* `ExternalsRestored` is not inductive: an overlapping write can take away from
a file what its owner still has to restore. `FilesInv` says who answers for each kind of file
(`Answered`): for a torn one whoever opened it, for one that holds gas, or the rest of it, whoever
has still to take the gas out, and for either the process that died over it. A step touches no file
and gives up none (`KeepsFiles`), or touches one and opens it, fills it, leaves it plain or
garbles another's (`TouchesFile`); what the others answer for does not depend on it
(`OthersAnswer`). `ScriptInv` has the commands a process has left. `TestsFitTheChain` needs
only that whatever was loaded is an environment (`EnvInv`): in every environment the tests
selected are those of the chain forked (`TestsOfEnv`), and no two chains share a tag
(`TagsDiffer`), which settles localhost.

*The fixtures.* `DeployInv`: what every field stored by the running `initialize`, or by the last
one when it has returned (`Stored`), holds was built for the fixture's controller
(`OfThisSystem`). What a failed one has left does not matter, because the controller is stored
first and every other field again after it. `WiredInv` adds the kind of contract each
stored field holds. The deploy helpers' tables are compared with the constructors' table by
table (`HelpersAgree`), and so are the parameters with the fields (`ParametersAreNotKept`): a
step of `initialize` takes only fields of earlier steps (`StoredBefore`).

*The sandbox.* That the stack has as many ids as there are initialized caches around the
test (`StackCounts`) is not inductive: a hook that reverts could take ids with it that are
still on the stack. `SandboxInv` excludes this by the order of the ids. Those on the stack
are live and increase (`StackOrdered`); the id a test's own snapshot took is newer than all
of them until it is gone, and it is gone before a cache runs (`SavedLast`): a revert to the top
of the stack, or to a snapshot above it, forgets no other id of the stack. The
rest ties mocha's lists to the tree: the runner is in a suite it entered, beside what it has
not entered yet (`RunnerPlaced`), the caches that ran are of entered suites
(`CachesEntered`), and the hooks to be run are those of the suites around the test, each
once, in the order of a walk along the parents (`TodoFits`, `Pending`). The suites around a suite
and their hooks are defined along the parents; `ParentInduction` and `ParentRecursion` do
for trees what bounded induction does for loops. `CacheUseAssumption` is
needed: with a snapshot hook before a cache, the revert after the test would
forget an id that is still on the stack.

*Loops and sums.* The library's induction theorems take an operator as parameter, which the
installed provers cannot instantiate. `LibraryProofs` therefore derives from the
well-foundedness of the naturals that a non-empty set of them has a least element, and from
that an induction over a function of truth values up to a bound (`BoundedInduction`) and the
existence of a function that takes a bounded number of steps (`StepsExist`). This is enough
for loops over a list, when the model states them as recursive functions. A sum over a finite set
is determined by its values on smaller sets (`SumIsUnique`); from that follow that it is an integer,
that one summand can be taken out (`SumTakes`), that sums add up and split (`SumCombines`,
`SumSplits`) and that a sum of smaller terms is smaller (`SumStaysBelow`, `SumCompares`).

**Only model-checked**: `ImplementsFreshWorld`, whose promise is about the contents of the chain
and rests on more than `CacheUseAssumption`: that each test has one of the two helpers around it,
and that a `before` inside a suite with a cache does not touch the chain (the cache would undo
it). The layouts of the run have both properties, and so have the test files that use
`cacheBeforeEach`: the only such `before` that awaits anything,
`test/protocol/modules/v2/perpV2BasisTradingModule.spec.ts:2060`, picks an address. **Out of
the prover's reach**: liveness under fairness (`ScriptsEnd`, the liveness of
`ImplementsFreshWorld`) and `ENABLED`, induction over data beyond bounded loops and finite sums,
and recursive operators. None of the modules declares a recursive operator.

## 5. Plan

Done so far, in order: positions and the set; issuance and its relatives; rebalancing;
Aave leverage; NAV and Perp issuance with the helpers that predict them; the harness.
What is left:

1. *Other leverage.* Compound, where a repayment above the debt reverts and assets
   are synced before they are removed; Morpho, where the collateral is an external
   position, `removeModule` is documented to refuse debt and has no such check, and
   hook and issuance module round differently.
2. *Modules that swap one position for another*: wrap, AMM, staking, claim,
   Notional, rebasing components, as further actions on `Issuance`'s state, with
   `Collateralized` and `RedemptionNeverBlocked` as the questions, in the same run.
3. *Registries*: Controller, IntegrationRegistry, creation of sets; lists against
   mappings again. PriceOracle and the linear price curve as operators with
   reference definitions. `SingleIndexModule` beside `GeneralIndex`.
4. *An abstract specification of a basket*: supply, claims per component and
   balances, with issue, redeem, exchange and dilution; `Issuance` and, up to its
   shortfall, `StreamingFee` as its refinements.

Theorems worth proving next: the steps of `ImplementsFreshWorld`, from an invariant that says which
deployments each snapshot on the stack holds.

## 6. What is not modelled

- `invoke` as such, the bytes of external positions and events: their effects belong
  to the calling module or to nobody.
- Adapters for exchanges, wrapping, claiming and governance: they encode calls to
  external protocols and keep no state.
- Exponential and logarithmic price curves: fixed-point transcendental functions,
  beyond either tool at useful widths.
- Reentrancy: the modules' entry points are `nonReentrant`, and callbacks of
  external tokens and manager hooks are not followed.
- Holders one by one, and the addresses fees are paid to: holders are pooled and a
  fee is supply that is minted.
- Perp's margin requirements and the basis module's own tracking of funding: the first
  can only make a call revert, the second belongs to a module of its own.
- `calculateMaxIssueQuantity` of `perpV2Utils.ts`, which sizes an issue by Perp's margin
  requirements, and `uniswapUtils.ts`, estimates beside modules that are not modelled.
- The deployment of third-party protocols and mocks (`deployExternal.ts`,
  `deployMocks.ts`, `dependencies.ts` and the fixtures of other protocols): straight-line
  set-up, one line per contract, without a decision of this system in it.
- Publishing itself, coverage and linting; time travel and mining helpers of
  `blockchainUtils.ts`, which a revert undoes like any other block.
- Gas, viewers, interfaces, mocks, and the products built beside the protocol.
