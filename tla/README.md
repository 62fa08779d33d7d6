# Yault: a verification project in TLA+

This directory holds TLA+ models of the Yault custody and release platform, the TLC configurations that
check them on small instances, and proofs that TLAPS checks for every instance. The models are
translated from the code under `src/`; `PROJECT.json` names, for each definition, the file and lines it
stands for.

Yault lets an owner commit assets to heirs. Each heir has a numbered *path* of a wallet; what a path was
allotted is paid out only after a *release* of that path has been attested on chain. A server decides
when: an authority, an oracle or an emergency procedure creates a *trigger*, a cooldown runs, the
release is attested, and the heir's credential is delivered.

## 1. Inventory

### Contracts (`src/contracts/src`)

| Component | State | Operations | What makes it correct |
|---|---|---|---|
| `ReleaseAttestation` | one decision slot per (wallet, path), submitter roles | submit, set roles | RELEASE is final; a fallback never overrules a live oracle decision |
| `VaultShareEscrow` | per wallet: owner, total; per path: allocated and claimed shares; the vault's share balances and transfer exemptions | registerWallet, deposit, claim, reclaim, reclaimFor | pays only released paths; the two books agree; the escrow holds what it owes |
| `AdminFactorVault` | per path: owner, encrypted factor | store, destroy, destroyAndReclaim | a released heir keeps the factor; a destroyed path keeps a decision |
| `YaultPathClaim` | per wallet: pool; per path: controller, amount, claimed, nonce | registerWallet, deposit, registerPath, claim, reclaim, reclaimAllocated | a nonce pays once; reservations are backed; released amounts are kept |
| `YaultVault` | ERC-4626 shares, recorded principals, escrowed revenue, strategy | deposit, mint, withdraw, redeem, transfer, harvest, claimAuthorityRevenue, invest, divest, a change of authority with its delay | what is owed to authorities is backed and in nobody's shares; a harvest takes yield only; nobody dilutes anybody |
| `CrossChainVaultBridge` | nonces, remote chains and their list, relayed positions and decisions | send, receive, configure | no message twice, none shut out by another's nonce; list and mapping agree |
| `AutoHarvest` | targets, upkeep history ring | add, remove, checkUpkeep, performUpkeep, harvestTarget | a failed attempt shuts no depositor out; the ring holds the latest attempts |
| `PortfolioAnalytics`, `ChainlinkPriceFeedTracker` | requests, results, snapshots | request, fulfil, record | a late answer does not replace a newer one |
| `YaultVaultFactory`, `YaultVaultCreator` | registry of vaults | create | one vault per authority and asset |

### Server (`src/server`, Node.js: one process, every `await` a point of interleaving)

| Component | State | Operations | What makes it correct |
|---|---|---|---|
| Trigger records (`api/trigger/*`, trigger endpoints of `api/admin`) | trigger rows, the in-process lock `_finalizingTriggers`, the pause flag | create (4 ways), decide, cancel, confirm, abort, resume, retry, reset, finalize | one finalizer; the gate, the confirmation and the cooldown are never skipped |
| Attestation gate and submitter | none (they read and write the chain) | evaluate, submit | what is released is attested |
| RWA delivery (`deliverRwaRelease`, `release/distribute`, `release/replace-path-payload`) | delivery log, in-flight map, active binding | deliver, force, replace, distribute, retry, reset | no credential minted twice without a reason; none forgotten |
| Arweave storage | registry of manifests | upload, look up, update the registry | no entry is dropped |
| Scheduler | `_processing` flag | a tick a minute: allowances, blocked triggers, delivery retries | a tick acts on what is still true |
| Storage adapters (`db-sqlite`, `db-postgres`) | rows; for SQLite also the file, the dirty flag, the save in flight | create, update, save, reload | what is not on disk is marked for the next save |
| Inactivity monitor, oracle queue, oracle workflow | in-memory request queue | check, enqueue, poll, attest | a silent owner is eventually noticed |
| Admin multisig | approvals with a threshold and an expiry | propose, approve, execute | executed once, by enough people |
| Agent policies and spending limits | the ledger of reservations, the lock of each policy | check, reserve, refund, bind a key | a budget is not overspent; the ledger is what was spent; no request hangs |
| Vault API and operator executor | positions, and the operator's wallet on chain | deposit, redeem, send, transfer | funds pulled for a deposit end in shares or go back |
| Accounts, members, allowances, withdrawal limits | rows | pay, cancel, check | an allowance is paid once per period but for counted setbacks; a limit holds but for counted overlaps |
| Release configuration, plans, bindings | rows | configure, create, delete | a plan has one active binding |
| Authentication, claim lookup, portfolio, insurance, revenue, email, compliance | sessions; otherwise rows and calls | — | — |

The web application, the client library, the `wasm-core` cryptography, scripts and documents keep no
state the above depends on.

### How the parts interact

The owner deposits shares in the escrow, stores admin factors in the factor vault and distributes
encrypted payloads (Arweave and a binding row). A trigger is created through the API, by the oracle
endpoint or by an administrator. Deciding *release* puts it in cooldown. Every 30 seconds
`finalizeCooldowns` takes the triggers that are due, checks the gate (oracle kinds need their RELEASE on
chain, high-value wallets a legal confirmation), attests legal releases as fallback submitter for every
recipient of the binding, marks the trigger released, and delivers the credentials. The heir then claims
from the escrow or, with a signed message, from the path pool.

The shares themselves are those of the vault, whose yield is harvested by the depositor, the owner or
the automation contract; decisions and positions are relayed to other chains by the bridges. Beside all
this the server keeps positions and allowances of sub-accounts in its database, pays them by a timer,
and lets agents spend an owner's funds through the operator's wallet within a policy.

### What is hard

* `db.triggers.update` **replaces** a record. Every handler writes back the whole record it read before
  its awaits (chain calls, uploads, 1.5-second pauses), over whatever was written meanwhile.
* Sweeps are started by a timer whether or not the last one has returned, and `cancel` starts a
  finalizer too (the scheduler no longer does: `scheduler.js:217`). Only an in-process set keeps them
  apart.
* Any read or write of the database may throw. Some errors are caught around one step, some around a
  whole handler, some nowhere; what was written before them stays.
* The server restarts between any two awaits; locks, in-flight maps and handlers vanish, rows stay.
* The mint service may have minted although its answer was lost or late.
* The contracts keep several books of the same shares, changed by functions of three contracts in one
  transaction, and in any order by independent accounts.
* Replay: a signed claim can be submitted by anybody, late, twice, out of order; a bridge message can be
  delivered late, twice, out of order, and by a bridge that was redeployed.
* Rounded conversions between shares and assets, with revenue that belongs to nobody's shares lying
  among the tokens that back them.
* Positions and limits are read, and written back awaits later, by the scheduler and five routes; the
  file they are saved to is written behind their back and may overrule them.

The list in `PROJECT.json` under `hazards` gives each of these at its line.

## 2. Modules

    ReleaseAttestation              the decision slots
      ├─ VaultShareEscrow             the escrow over the slots
      │    └─ AdminFactorVault          the factor vault over both: the composed release path
      │         └─ AdminFactorVault_proofs   the theorems
      ├─ YaultPathClaim               the pool over the slots
      │    └─ YaultPathClaim_proofs     the theorems
      └─ TriggerLifecycle             the server's triggers over the slots
           └─ TriggerCooldown           with a history of the time served
                └─ TriggerLifecycle_proofs   the theorems about both
    PathLedger                      what both payout contracts promise (abstract)
    RwaDelivery                     delivery of one path's credential
      └─ RwaDelivery_proofs           the theorems
    YaultVault                      the ERC-4626 vault
      └─ AutoHarvest                  the automation contract over the vault
    RelayBoard                      what bridges promise (abstract)
    CrossChainVaultBridge           bridges on several chains, and the router
    VaultContracts_proofs           the theorems about the vault, its automation and the bridges
    AgentBudget                     policies, their lock and the ledger
      └─ OperatorExecutor             what requests within a policy do on chain
           └─ OperatorExecutor_proofs   the theorems about both
    DbFile                          the SQLite adapter
      └─ Allowances                   positions, limits and the scheduler's payments over it
           └─ Allowances_proofs         the theorems about both
    Sums                            lemmas about sums, used by the four proofs about books
    MCRelease, MCPathClaim, MCTrigger, MCCooldown, MCDelivery, MCVault, MCBridge, MCAgents,
    MCAllowances                    instances for TLC

**ReleaseAttestation.** `attestations[path]` is the slot; `EmptySlot` has Solidity's zero values (an
oracle RELEASE that does not exist), which matters to `AdminFactorVault._destroy`. `SubmitAttestation`
is `submitAttestation`, with `Authorised` and `MayOverwrite` its two groups of `require`s. Evidence
hashes, reason codes and timestamps are left out: nothing tests them.

**VaultShareEscrow.** `totalDeposited`, `allocatedShares`, `claimedShares` are the escrow's mappings,
`sharesOf` the vault's balances. One action per external function; a claim with `redeemToAsset` burns
the shares, otherwise they go to the recipient. Checked arithmetic is a guard. The vault refuses share
transfers unless one side is exempt; its owner grants the escrow that exemption and may revoke it
(`transferExempt`, `SetTransferExempt`, `Exemptible`), and every deposit, claim in shares and reclaim is
refused meanwhile. `SendShares` is a transfer straight to the escrow, which the books never see.

**AdminFactorVault.** The composition. `DestroyAndReclaim` is one action of three contracts, as it is
one transaction: the factor goes, the slot may get a REJECT (`RejectSlot`, whose guard is the code's
reading of a possibly absent slot), and the escrow gives back what the path had left. `Attest`,
`EscrowCall` and `AdminFactorCall` group the calls by contract. `Appointable` are the accounts and
contracts that may be given a submitter role; deployments give one to the factor vault.

**YaultPathClaim.** EIP-712 messages are records in `signed`; whether a signature recovers to the
controller is whether the record is in the set. A message past its deadline is one that nobody submits
any more, so deadlines need no clock.

**PathLedger.** The abstract specification: a path *holds* an amount, *pays* it after a release,
*refunds* it before, and a release is for ever. `AdminFactorVault` and `YaultPathClaim` both implement
it (`ImplementsLedger`), with held = allocated less claimed and paid = claimed.

**TriggerLifecycle.** `db` is the collection; a `job` is a handler or sweep in flight with the snapshot it
read, its next step, and the recipients it still has to attest. A handler's first action is its read, its
checks and early returns; its later actions are the awaits that write. The finalizer is `Sweep → Reread →
Lock`, then `Gate` for oracle kinds or `ReadBinding → AttestRecipient*` for legal ones, then `Release →
Audit`, with `Keep` where the code writes a snapshot back without releasing; `Unlock` is its `finally`.
`Throw` is an error of an await that nothing around it catches: it ends the handler with nothing written,
and a finalizer past its lock gives the lock back. `Requests` are slots for API handlers and the
scheduler, `Sweepers` slots for sweeps; two sweepers may work on one trigger, as the timer allows.

**TriggerCooldown** adds two history variables: `due`, the cooldown each decision asked for and not yet
spent, and `alone`, whether so far the handlers of each trigger have come one after the other. `due` is
told only as long as they have.

**RwaDelivery.** One path: its `log` entry, `inFlight` (who owns the promise in the map), a `job` per
caller, the binding and the registry by payload version, and one replacement in flight (`ReplacePath` or
`Distribute`, in the order in which each writes registry, log and binding). `warrants` counts the
reasons to mint, less the credentials minted. A call that finds another's promise in the map waits for
it; when that promise is rejected, every call that waited starts a delivery of its own, and only the
last of them is in the map. The others are `replaced`.

**YaultVault.** The four entry points go through `Enter` and `Leave`, the code's `_deposit` and
`_withdraw`, and differ in what is rounded which way (`ToShares`, `ToSharesUp`, `ToAssets`, `ToAssetsUp`:
OpenZeppelin's conversions, with the code's decimals offset as `Offset`). A withdrawal lowers the recorded
principal in proportion. A transfer is allowed only from or to an exempt contract: shares that leave a
depositor take their part of the principal along, and shares that an exempt contract hands out are
recorded at their value. The contracts hold shares and redeem them, as the escrow does for a claim that
asks for the asset. `HarvestFor` is the whole of `_harvestInternal`: the checks (`CanHarvest`), the split,
the shares burnt, the revenue put in escrow, the payment and the unwinding of the strategy it may need
(`Shortfall`, `Pay`). A pool that pulls its tokens needs the vault's approval, which the owner renews
(`ApproveStrategyToken`) and each unwinding uses up: without it a payment is refused (`Payable`).
`TotalAssets` leaves out the escrowed revenue. A change of authority waits `ChangeDelay` ticks; timestamps
are ages that stop growing once nothing tests them.

**AutoHarvest** composes with the vault: each of its attempts runs the vault's action or, when the vault
would revert, records a failure. `CheckUpkeep` is the list the view function returns; `PerformUpkeep`
may get any older one, since the forwarder's call comes later, and the vault may have changed under it.
`HarvestFor` needs the vault's ownership,
which `TransferOwnership` hands over. The ring is kept as the numbers of the attempts in it.

**CrossChainVaultBridge.** Bridges, each deployed on a chain (`Home`); two may be deployed on one chain
one after the other. A nonce is a pair of issuing bridge and counter, which is what the code hashes.
`ConfigureRemoteChain` keeps the mapping and the list with its swap and pop (`Without`). The router is
the set `network`: nothing leaves it, so every message may arrive at any later time, in any order, or
never; `CcipReceive` is the receiver with its checks. **RelayBoard** is the abstract specification:
every letter is put up at most once, and only at its addressee. It promises no order, since the code
does not: an older HOLD delivered after a RELEASE overwrites it.

**AgentBudget.** A request reads its key, waits for the policy's lock, checks, reserves and releases the
lock, each an await (`ReadKey`, `Wait`, `Check`, `Reserve`, `ReleaseLock`); a key without a policy skips
the lock (`CheckUnlocked`). `lock` is the chain of promises as a queue. `Refund` is the rollback, which
swallows an error of its delete; `Throw` is an error of any other read or write before the operation.
Either may leave an entry nobody will take back: `leftover` has their numbers.
**OperatorExecutor** adds the routes and the chain: a deposit is a pull and a vault deposit, with
`Recover` when the second fails; a transaction may fail, or happen and have its answer lost. `Restart`
forgets the requests and the locks; ledger and chain stay.

**DbFile.** `rows` in memory, `disk` the file; `fresh` says whether the file still has the version last
seen. A save looks at the file, exports (`Export`), writes and renames (`WriteAndRename`), then reads
the new version (`Stat`); a conflict or a reload takes the file's side. `late` marks a change made
between an export and its rename.

**Allowances** extends it with one parent, one member and a recurring allowance. `Route` lists the
awaits of each handler, `Step` runs the next one: the limit, the payer's position read and written, the
payee's, the record, the advance of the next execution. `Advance` and `Cancel` write the whole record
the handler read. `overlaps` counts pairs of handlers that were at once between their first read and
their last write. Any await may throw: where the scheduler and the one-time allowance catch it around
the two positions, the execution goes on as pending (`TransferFails`); elsewhere the handler, or the
allowance's turn, ends (`Throw`). `stranded` counts the debits that were never credited for it,
`unadvanced` the executions after which the allowance was not advanced.

### Abstractions a reader should know

* One clock tick stands for the unit all waits are given in. Zero stands for a null time.
* Whether an attestation has expired at the gate is a nondeterministic choice (`Gate`), and so is any
  await that can throw.
* The order in which a binding's recipients are attested is arbitrary.
* `simulate-chainlink` is one action per recipient.
* `OracleOwned` says whether somebody signs in as `ORACLE_AUTHORITY_ID`: the code gives oracle triggers
  to that id, and whether a person holds it is configuration.
* In RwaDelivery the wait after a rate limit is nondeterministic, and replacements of one path do not
  overlap. Attempts past the limit are not told apart.
* Legacy packages stored in the database and authority counters are left out.
* In the vault: the platform's fee leaves it in the payment of a harvest and is not followed further.
  `sweepUnderlying` is left out because there is never an excess for it: `totalAssets` plus the escrowed
  revenue is never below the idle balance. Harvests are of depositors; `harvestFor` of the escrow
  contract, which has no recorded principal, would take all the shares it holds for yield.
* In Allowances all amounts are one unit; a limit period is no longer than a tick of the clock, and time
  passes only between handlers, which take seconds where periods take days. `OtherChange` stands for the
  audit log and other tables: it renews the dirty mark, and is left out where it makes no difference.
  Three concurrent saves are left out (a save would have to take two timer periods).
* In OperatorExecutor shares and assets are worth the same; user-signed transactions are not modelled.

## 3. Runs

| Run | Instance | What it shows |
|---|---|---|
| `release` | two paths of one wallet, the owner, the factor vault as possible submitter, 2 shares, an exemption of the escrow that comes and goes | `ClaimedOnlyWhenReleased`; `ReleasedIsClaimable`: what a released path has left can always be redeemed, and be claimed in shares while the escrow is exempt; `DestroyLeavesDecision`, `HeirKeepsFactor`; `BooksBalance`: the wallet's total is what its paths have left; `EscrowSolvent`: the escrow holds its books; the composed contracts implement `PathLedger` |
| `path_claim` | two interchangeable paths, 2 tokens, 2 signed messages | `ClaimsAreSigned`, `AllocationsBacked`, `PoolSolvent`; the pool implements `PathLedger` |
| `vault` | a depositor, an escrow contract, an authority, a strategy, one automation target | `EscrowBacked`: revenue owed is in the vault; `NobodyDilutes`: nobody's shares lose value by what others do, but for at most the value of one share in another's harvest; `HarvestKeepsPrincipal`; `NobodyShutOut`: whom the vault would harvest now with enough yield is due, whatever was attempted on stale lists; `HistoryIsLatest` |
| `bridge` | five bridges on four chains, one a redeployment; one has three remote chains; 2 messages | `SupportedMatchesAllowed`; the bridges implement `RelayBoard`: no message twice, none shut out by another's nonce |
| `trigger_sweeps` | one trigger of a high-value wallet, two sweeps, one request, a restart, three points of time | `OneFinalizer`, `OracleReleaseIsAttested`, `ReleasedOnTime`, `HighValueIsConfirmed` under every interleaving of stale writes |
| `cooldown` | one trigger, a request and a sweep that overlap, errors, a restart, four points of time, cooldowns of 2 | `CooldownServed`: as long as the trigger's handlers came one after the other, no sequence of abort, resume, cancel, decide again, block, retry and reset shortens a cooldown; `CooldownResolves`: a legal release leaves cooldown, also when handlers overlap, fail or are cut off |
| `delivery` | an API caller and the scheduler, 2 attempts, one fault, one forced call, two payloads | `OneDelivery`, `MintsHaveCauses`, `PendingIsRetried` |
| `agents` | two requests of two users under one policy, errors at any await, one fault on chain, one new binding, one restart | `WithinBudget`: the lock makes check and reservation one step; `LedgerMatchesSpend`; `FundsStayWhole`: a failed deposit goes back to whom it came from; `EveryRequestEnds`: no request hangs, least of all on a lock |
| `allowances` | two runs of the scheduler, one request, two saves, one mishap, two periods | `UnsavedIsMarked`: what is not on disk is marked, but for a change during a save; `LimitNearlyHolds`: a limit is passed by at most one payment for each overlap; `PaidOncePerPeriod`, but for restarts, older files read back and errors between execution and advance; `PositionsAddUp` but for counted overlaps and restarts and errors between debit and credit, as long as no older file is read back |

`release`, `path_claim`, `vault`, `trigger_sweeps` and `delivery` also check that the state stays well
formed (`TypeOK`); for the others that is proved (§4), with the invariants it is part of.

Three runs show where the code does not do what its comments or answers say. Each checks one property
and TLC finds a behaviour that breaks it:

| Run | What the code says | What happens |
|---|---|---|
| `abort_overwritten` | "Trigger aborted. Cooldown paused" (`api/admin/index.js:940`) | a finalizer past its re-read writes its older snapshot over the abort. A legal confirmation or a cancellation is lost in the same way |
| `unattested_release` | "If attestation write fails, DON'T finalize" (`decision.js:346`) | the loop swallows every failure, so the deferring branch is never taken |
| `superseded_lost` | the log is reset so that the new payload can be delivered (`replace-path-payload.js:117`) | a delivery of the old payload then records itself as delivered |

Other disagreements were met while modelling and have no run of their own; the models contain the
behaviour unless noted:

* `AdminFactorVault.sol:259` says that the REJECT a destroy leaves prevents a future release. It is not
  final: the oracle, or another fallback submitter, may release the path afterwards.
* `VaultShareEscrow.sol:195` says that a reclaim "only works if no attestation has been submitted yet".
  The code, the comment on its check and the tests allow it after HOLD and REJECT as well, and the
  ledger's `Refund` follows the code.
* `VaultShareEscrow.sol:31` notes that the share branch of a claim reverts where the vault disables
  transfers. It does so as soon as the escrow's exemption is revoked, and deposits and reclaims do too.
* `initiate.js:202` answers that an active trigger already exists, but check and create are two awaits
  apart and two requests pass; `oracle.js:247` takes a lock for this very race.
* `withdrawalLimits.js:10` names `POST /api/vault/redeem` as a user of `checkLimit`. It never calls it,
  and its record counts twice against the limit, as sent and as received (`Used`).
* A cancelled allowance is written active again by a scheduler run that listed it before (`Advance`).
* `deliverRwaRelease.js:21` introduces the in-flight map as what prevents concurrent delivery of one
  path. Two calls that waited for a delivery that was rejected both go on to deliver (lines 84 to 92).
* A key bound to another policy while a request waits for the lock is checked against the new policy
  and recorded against the old one, whose lock it has (`checkAndReserve`). A key that loses its policy and
  gets one again lets a request that was waiting between the two spend without a reservation.
* Two decisions on one pending trigger that overlap can each start a cooldown, and the second one
  written decides when the trigger is released, be it sooner than the first would have. So
  `CooldownServed` speaks of triggers whose handlers came one after the other (`alone`).
* An error between the debit and the credit of a payment is logged, and the amount is in neither position
  (`scheduler.js:123`, `accounts/allowances.js:99`): nothing returns it (`stranded`). One after the credit
  leaves the allowance due, and the next tick pays it again (`scheduler.js:179`).
* `rollbackReservation` logs an error of its delete and returns (`spendingPolicyService.js:255`), so the
  budget stays charged for an operation that failed (`leftover`).
* The agent's redeem looks up the position and reserves "max" outside any try (`vault/index.js:501`): an
  error there is answered by nobody.
* A handler that read a position before the file is reloaded writes it over the reloaded one
  (`db-sqlite.js:218`): the positions may then be off by more than the change that was lost.
* The automation's `minYieldThreshold` (`AutoHarvest.sol:136`) and the vault's `minHarvestYield`
  (`YaultVault.sol:258`) are each set by an owner, and nothing relates them. If the first is below the
  second, `checkUpkeep` lists targets the vault refuses, and upkeeps are spent on recording the failure;
  `performUpkeep` does so too before the vault's ownership is handed over, and when a listed target has
  withdrawn or been harvested meanwhile. No property says that an upkeep succeeds. What the code does
  ensure is that such an attempt does not count as a harvest (`NobodyShutOut`).
* A credential whose log entry is *superseded* is retried by nobody until it is asked for.
* A delivery lost to a restart before its first log entry is not retried: the scheduler looks at the log
  only.

### Bounds, and why they are enough

* Contracts: two shares distinguish nothing, part and all of an allocation; two paths show every decision
  order and that their books do not mix. `InitialShares` bounds the funds and with them every counter;
  `MaxUint` stands for 2^256 − 1 in the overflow guard of `deposit`. `Appointable` are those who may be
  given a submitter role. The theorems remove these bounds for the properties they state.
* Path pool: two messages let one be replayed, reordered or superseded by a nonce; two paths compete for
  one pool. The paths are interchangeable, so `AlikePaths` is sound.
* Vault: the split is 6/8 to the depositor and 2/8 to the authority (7500 and 500 of 10000 points in the
  code: any such split rounds; a platform's part is the rest, and with none the whole fee stays in
  escrow), the offset 10^4 (10^6 in the code, so that TLC's 32-bit integers hold every product), amounts
  of 12, up to two deposits, one yield of 12, a minimum yield of 2 in the vault and 4 in the automation.
  The pool pulls its tokens (`PoolPulls`) and an approval is for 12, so that unwinding may be refused.
  Depositor, escrow contract and authority are one each: they are the three kinds of claim on the same
  tokens. A ring of two wraps at the third attempt.
* Bridges: two on one chain issue the same counters, which is when a nonce of the wrong kind collides;
  three remote chains are the fewest of which removing the first one swaps in the last past another.
  `Lanes` are the pairs that are ever configured, and `Tuned` the bridges whose interval is changed; two
  messages are late, reordered or repeated. The theorems hold for any numbers, lanes and bridges.
* Triggers: triggers share only the chain and the lock set, in which entries are independent, so one
  trigger suffices. Two sweeps and a request are the smallest number in which a writer with an old
  snapshot races a finalizer that holds the lock and one that does not. The sweeper slots are
  interchangeable (`Slots`).
* Cooldown: three ticks hold a cooldown of two, an abort in its middle, a resume, and a release late by
  one. A request and a sweep are the fewest that overlap; `trigger_sweeps` has a second sweep.
* Agents: two requests contend for one lock and one budget of one, each of one unit; a window of one and a
  horizon of two let reservations expire. One fault, one binding and one restart each happen at any point,
  and errors of the database as often as there are awaits.
* Allowances: one unit of funds and a limit of one make every second payment one too many; two periods
  show an allowance paid again. Two runs of the scheduler are what its `_processing` flag must keep apart.
  Each save runs once after a start, so two saves overlap, follow or fail one another. `MaxFaults` is one
  failed save, foreign write, error of an await or restart; `MaxRollbacks` bounds how often other rows are
  read back. Runs, and saves, are interchangeable (`Alike`).
* `MaxRestarts`, `MaxFaults`, `MaxForced`, `MaxBinds` bound events that cost a run one repetition each;
  liveness needs them finite, since a server that restarts for ever finalizes nothing.
* Delivery: an API caller and the scheduler are the smallest number that wait for one another; the
  theorems hold for any number. `MaxWarrants` caps the number of reasons to mint that are counted, above
  what the calls in flight can need at once: a cap only makes the property stronger.

`CHECK_DEADLOCK FALSE` is stated where the clock, the messages or the faults run out: the system then
rests. In the other contract runs there is always a call to make, and deadlock is checked.

### Fairness

`TriggerLifecycle` assumes weak fairness of the clock, of every job (`JobStep \/ Throw`: an awaited call
returns or throws; the chain client and the Arweave client have timeouts) and of each sweep of each
trigger (the 30-second interval in `src/server/index.js` runs as long as the process does). Since any of
these calls may throw, it also assumes, per trigger, strong fairness of the three that a legal release
cannot do without (`Reread`, `ReadBinding`, `Release`): the database does not refuse the finalizers of a
trigger for ever. No API call is ever assumed to happen, and none to stop: sweeps have slots of their
own. `CooldownResolves` also needs releases not to be paused for ever: the flag is an operator's.
`RwaDelivery` assumes weak fairness of the scheduler's minute tick and of the steps of a delivery (the
mint is aborted after 60 seconds). `OperatorExecutor` assumes weak fairness of the steps of a request,
its errors included: an awaited call returns or throws. Replacements and restarts are never assumed.

## 4. Proofs

Each proof module has, per property, an inductive invariant, a lemma for the initial states, one lemma
per action or per kind of step, and a theorem that combines them. The invariants below are the heart of
it; TLC checked each on an instance before it was proved.

### Sums

The books of the contracts and of the agents are sums over functions, and what a sum over a finite set
computes needs induction. `Sums` does it by the least counterexample: a set of naturals that is not
empty has a least element (`LeastNatural`, from the library's theorem on well-founded relations), so a
set that has 0 and with n also n + 1 has them all (`Stepwise`), so what holds of the empty subset and
survives adding an element holds of every subset of a finite set (`SubsetsStepwise`). From that: the sum
exists and is what its recursion says (`AddsExists`, `SumAdds`), does not depend on the order
(`AddsAny`), changes by the difference where the function changes (`SumUpdate`), is monotone, and is
bounded by and bounds its parts (`SumAbove`, `SumSubset`).

### The release path: `AdminFactorVault_proofs`

For any finite sets of wallets and indices, and any accounts, contracts, shares and roles:

* `TypeCorrect`: `Spec => []TypeOK`;
* `ClaimsNeedRelease`: `Spec => []ClaimedOnlyWhenReleased`;
* `NoOverclaim`: no path claims more than it was allocated;
* `FactorSurvivesRelease`: `Spec => HeirKeepsFactor`;
* `DestroyedIsDecided`: `Spec => []DestroyLeavesDecision`;
* `BooksAlwaysBalance`: `Spec => []BooksBalance`;
* `EscrowStaysSolvent`: `Spec => []EscrowSolvent`;
* `ClaimsAreCovered`: what a path has left is covered by its plan's total and by the escrow's shares;
* `ContractsImplementLedger`: `Spec => ImplementsLedger`.

They rest on the inductive invariants

    ReleaseInv == TypeOK /\ NeverOverclaimed /\ ClaimedOnlyWhenReleased
    BooksInv == ReleaseInv /\ BooksBalance /\ EscrowSolvent

None of the three parts of `ReleaseInv` is inductive alone. `TypeOK` says that what a path has left is a
natural number only because claims never exceed allocations; `NeverOverclaimed` survives a reclaim,
which lowers the allocation, only because the amount is bounded by what is left;
`ClaimedOnlyWhenReleased` survives an attestation only because a RELEASE is final
(`SubmitKeepsReleases`), and survives a destroy because `RejectSlot` goes through the same submission.
`DestroyedIsDecided` looks at the one step that destroys: either the slot held a decision and keeps it,
or `RejectSlot` writes one, or the call reverts.

For the books, every call changes one path of one wallet, so the sum of what the paths have left changes
by exactly what the call adds to or takes from the wallet's total; the escrow pays what it takes off the
total; and shares sent to it unasked only raise its balance. `ClaimsAreCovered` draws the conclusion: a
part of a sum of naturals is at most the sum, so the two checks that could still refuse the claim of a
released path never do. `CoveredClaimIsStep` adds that such a claim, of all that is left, is a step of the
model, as a redemption always and in shares while the escrow is exempt; that is as much of
`ReleasedIsClaimable` as can be said without ENABLED.

The refinement maps each contract call to one ledger step or a stutter: deposits to `Fund`, attestations
to `Release` or a stutter, claims to `Pay`, reclaims and `DestroyAndReclaim` to `Refund`; `ReleaseInv`
gives the steps' guards.

### The pool: `YaultPathClaim_proofs`

For any finite sets of plans and paths, and any keys, accounts and signed messages:

* `TypeCorrect`: `Spec => []TypeOK`;
* `NoOverclaim`: no path claims more than it was promised;
* `AllocationsStayBacked`: `Spec => []AllocationsBacked`, the sum included;
* `PoolStaysSolvent`: `Spec => []PoolSolvent`;
* `ClaimsStaySigned`: `Spec => []ClaimsAreSigned`;
* `PoolImplementsLedger`: `Spec => ImplementsLedger`.

The invariants are

    PoolInv == TypeOK /\ NeverOverclaimed /\ UnregisteredIsEmpty /\ ReservationsCovered
    BooksInv == PoolInv /\ ReservationsAddUp /\ Solvent /\ SignedInv

`UnregisteredIsEmpty` is there because registering a path resets its promise and its claims, which
forgets nothing only if there was nothing; `ReservationsCovered` because a reclaim subtracts
reservations and deposits from one another, which stays a natural number only then. A claim lowers the
pool's balance and raises the claimed amounts by the same, a reclaim lowers balance and deposits by the
same, and that is `Solvent`. `SignedInv` bounds what a path has claimed by the sum, over the nonces it
has used up, of the most its controller signed for each: a claim uses the next nonce with a message that
was signed for it, and signing more only raises the bound.

### The triggers: `TriggerLifecycle_proofs`

For any triggers, requests and sweeps in flight, cooldowns and restarts:

* `TypeCorrect`: `Spec => []TypeOK`;
* `OneFinalizerAtATime`: `Spec => []OneFinalizer`;
* `OracleReleasesAttested`: `Spec => []OracleReleaseIsAttested`;
* `ReleasesOnTime`: `Spec => []ReleasedOnTime`;
* `HighValueConfirmed`: `Spec => []HighValueIsConfirmed`;
* `CooldownIsServed`: `DueSpec => []CooldownServed`.

None of the middle three is inductive: a handler writes back a snapshot it read long before, so what
holds of the stored records has to hold of every snapshot too. `TriggerInv` therefore asks of records
and snapshots alike that they are in `SoundTrigger`, the records that may be stored at ANY later time:
one that waits (cooldown, aborted, blocked) has been decided release, and one that is released was due
and passed its gate. `SoundStays` shows that a sound record stays sound: the clock only advances, and
nothing overwrites a RELEASE. `SoundJob` adds that a finalizer past its lock carries a trigger that was
in cooldown and due. With these, each action is one of a few moves (`Begins`, `GoesOn`, `Ends`,
`EndsInside`), and the lock is one of four (stay outside, stay inside, go in, come out). The proof never
uses that a write is based on a recent read: any sound snapshot of a trigger may overwrite its record.
So these properties hold in spite of the lost updates that the violation runs show.

The cooldown is different. What a record still makes its trigger wait (`Left`) is never less than what is
due of it, and `CooldownInv` asks the same of every snapshot in flight, unless it sends the trigger back
to be decided again (`Carried`). A second handler of the same trigger breaks this: one that aborts
leaves the snapshot of another behind, and two decisions that overlap can leave the shorter cooldown
(§3). So `CooldownInv` is asked only while `alone` holds, as the property is: the handlers of one
trigger have come one after the other, while those of other triggers overlap as they like. The code does
not enforce that.

### Delivery: `RwaDelivery_proofs`

For any finite set of callers, any number of attempts, faults, forced calls and payload versions:

* `DeliveryTypes`: `Spec => []TypeOK`;
* `OneDeliveryHolds`: `Spec => []OneDelivery`;
* `MintsAlwaysHaveCauses`: `Spec => []MintsHaveCauses`.

    DeliveryInv == TypeOK /\ MapIsOwn /\ JobsInShape /\ ReplacingHasVersion /\ Need <= warrants

`MapIsOwn` says that the map names a caller exactly while its regular delivery is going on, from which
`OneDelivery` follows. `Need` counts the credentials that may still be minted on what is in hand: one
for each call at its mint, forced or replaced before its check, or failed and not yet recorded
(`Carrier`); and one for a delivery still to be begun while the log does not say delivered and nobody in
the map is past the check (`Open`). A mint whose answer is lost uses up its warrant and has its own, the
fault, in exchange.

### Agents: `OperatorExecutor_proofs`

For any finite set of requests, any users, policies, funds and limits, in layers:

* `ExecutorTypes`: `Spec => []JobInv`, the shape of each running request, and that reservation numbers
  are its own;
* `FundsAreWhole`: `Spec => []FundsStayWhole`;
* `LedgerIsSpend`: `Spec => [](binds <= 1 => LedgerMatchesSpend)`;
* `BudgetIsKept`: no rolling period holds more than the limit, while no key was bound anew or there is
  only one policy to lose and get back.

`FundsInv` is about the operator's one wallet, out of which any request may be paid with what another
pulled: the wallet holds all that was pulled but for as many units as there are strays (`Stray`: lost
answers and cut-off requests), and each user has theirs but for as many. `LedgerInv` says of each running
request what ledger and chain know of it at each step (`Known`); an error may leave its entry behind,
and then it is among the `leftover`. `BudgetInv` puts the request that
checks and reserves at the head of its policy's queue (`QueueInv`), so that what it found to fit still
fits when it is entered (`Room`); the periods are sums over the ledger. The conditions on bindings are
those of §3: without them the code does what the statement denies, as TLC shows with a second binding
or a second policy. The `agents` run has one policy and one binding.

### Allowances: `Allowances_proofs`

For any finite sets of scheduler runs and requests, one save or two, and any number of failures, foreign
writes, reloads and restarts:

* `UnsavedAlwaysMarked`: `Spec => []UnsavedIsMarked`;
* `LimitHolds`: `Spec => []LimitNearlyHolds`;
* `PaymentsArePaidOnce`: `Spec => []PaidOncePerPeriod`;
* `PositionsNearlyAddUp`: `Spec => []PositionsAddUp`.

    FileInv == OneWriter /\ WriterIsCurrent /\ UnsavedIsMarked   (and the form of `saver`)
    BookInv == MoversInv /\ CopiesInv /\ LimitInv /\ PayInv
    AddUpInv == rollbacks = 0 => HighInv /\ LowInv

*The file.* One save at a time writes it, and while it does the mark is kept and its image is the memory
unless that was changed since the export: without this a rename could clear the mark of something else.

*Limit and payments.* A reload puts back the file or an image that is being written to it, so
`CopiesInv` says of all of these that they record no more than memory does and are behind the allowance
by no more than the setbacks allow (`Setbacks`: files read back, restarts, and errors between an execution
and its advance). `LimitInv` bounds what is recorded together with the handlers that
passed the limit's check and will yet be recorded; there is at most one more at work than there were
overlaps. `PayInv` says the same of the allowance each run of the scheduler has read, for it is what
`Advance` will write, and counts the one payment that is recorded and not yet advanced.

*Positions.* A handler reads a position and writes it back, one unit more or less, an await later; what
it has read is its *view* of it. `Parents` and `Members` are the rows and all the views of each. The
invariant bounds the sum of ANY view of the parent and ANY view of the member, since any two may be what
is written next. `Ceiling` is the deposits and the strays, less what is in transit, less one for each
handler that will yet lower a position; `Floor` is the deposits, less the strays and what is in transit,
plus one for each that will yet raise one. A handler that comes to work while others are counts an
overlap, which pays for its unit; the first has none to count, so any two views are within one of the
bounds. The second line of `HighInv` and `LowInv` gives that one back: as soon as somebody else is at
work, or nobody is, the views that only raise (or only lower) keep the bound itself. A restart drops all
views and costs one unit, whoever was cut off between the two positions; an error there costs one too
(`stranded`), on the side of what is missing only. The statement stops at the
first reload of older rows, as the property does: a handler in flight writes its view over them.

### The vault and its automation: `VaultContracts_proofs`

For any finite sets of users, contracts and authorities, any amounts, decimals offset, split of the yield
and thresholds, and a ring of any length:

* `VaultTypes`: `Spec => []TypeOK`, so no holding, balance or debt ever becomes negative;
* `RevenueBacked`: `Spec => []EscrowBacked`;
* `DilutesNobody`: `Spec => NobodyDilutes`;
* `PrincipalKept`: `Spec => HarvestKeepsPrincipal`;
* `HistoryLatest`: `Spec => []HistoryIsLatest`;
* `ShutsNobodyOut`: `Spec => []NobodyShutOut`, if the automation's interval is not longer than the
  vault's.

The invariants are

    VaultInv == VaultTypeOK /\ EscrowBacked /\ OnlyStrategyHolds
    AutoInv == VaultInv /\ AutoTypeOK /\ RingHolds

`EscrowBacked` is needed for the types, since `totalAssets` subtracts the escrowed revenue from the
tokens held; and the tokens held stay what they are only because nothing is invested without a strategy
(`OnlyStrategyHolds`): a payment divests what is not idle.

*Prices.* P tokens stand for Q shares, each with its virtual one, and h shares are worth hP/Q rounded
down. The solver does not find its way among quotients of products, so the rounding is done once, in
lemmas about four naturals. Who enters pays at least what the new shares are worth (`EnterPrice`), who
leaves takes at most that (`LeavePrice`), and either way nobody else's value falls (`DivMonotone`). A
harvest burns s = fQ/P shares for the part f of the yield v that is paid out, rounded down. The identity

    P((h - s)(P - f) - (v - f)(Q - s)) = (hP - vQ)(P - f) + (fQ - sP)(P - v)

has only naturals on the right, so what the depositor keeps is worth at least v − f (`HarvestLeaves`), and
that is `PrincipalKept`. For the others the same rounding is a loss: a share too few is burnt, and its
value comes out of all that remain. `HarvestCosts` bounds it by the value of one share, rounded up, which
is the allowance in `NobodyDilutes`: one unit as long as shares outnumber tokens, as the offset makes
them do until yield has raised the price by that factor. Without the allowance the property is false.

*Steps.* One lemma per kind of step (`EnterKeeps`, `LeaveKeeps`, `TransferKeeps`, `HarvestKeeps`,
`ClaimKeeps`, `GovernanceKeeps`, `StrategyKeeps`, ...) shows that it keeps `VaultInv` and dilutes
nobody; `StepKeeps` puts them together. The debts are a sum over authorities and the shares one over
accounts, of which a step changes one or two entries (`Sums`).

*The ring.* `RingHolds` says that slot k has an attempt of the latest `MaxHistory` whose number is k − 1
modulo `MaxHistory`. There is one such number in any stretch of that length (`ModUnique`), so the slots
hold all of them and no other (`RingIsLatest`), and recording an attempt replaces exactly the oldest
(`RecordKeepsRing`).

*The automation.* A target it holds back was harvested in the vault too, and no longer ago than it
recorded (`DatesKept`), so the vault holds it back as long. A failed attempt dates neither, a success
dates both, and a call of the vault makes no harvest look older (`CallsDoNotAge`).

### The bridges: `VaultContracts_proofs`, second part

For any bridges, chains, keys, values and intervals:

* `BridgeInvariant`: the inductive invariant below, and from it `BridgeTypes`;
* `ListInStep`: `BridgeSpec => []SupportedMatchesAllowed`;
* `BridgesImplementRelay`: `BridgeSpec => ImplementsRelay`.

The invariant is

    BridgeInv == BridgeTypeOK /\ SupportedMatchesAllowed /\ AllowedHasBridge /\ NoncesIssued

`SupportedMatchesAllowed` is proved from two lemmas about the list: appending a chain that is not listed
(`AppendListed`) and the swap and pop of one that is (`WithoutListed`) keep it free of repetitions and
add or remove exactly that chain. `NoncesIssued` says that every message in the network has a nonce its
sender has already used up, and that no two have the same; it makes a fresh message differ from all that
were sent, so that `Send` is the board's `Send` (`SendIsSend`) and that a receiver which has not
processed a nonce has not put its message up (`ReceiveIsApply`). `AllowedHasBridge` says that an allowed
chain has a bridge configured, so that a message always has an addressee.

### What is assumed, and what is not proved

The only assumptions are the named ones on the constants: addresses are distinct from "none", the
contracts are not externally owned accounts, amounts, cooldowns and intervals are naturals, the parts of
the yield are together at most all of it, every bridge has a chain, there are one or two saves at a time;
and wallets and indices (256 bits each), the vault's users, contracts and authorities, callers, requests
and scheduler runs are finitely many. TLC evaluates them on every run. One theorem states a condition of
its own, because the code does not enforce it: `ShutsNobodyOut` (the vault's interval is a constant of one
day, the automation's a day that its owner may change). The lemmas about the decision slots stand in each
of the three modules that use them.

Only model-checked: liveness (`PendingIsRetried`, `CooldownResolves`, `EveryRequestEnds`), which needs
fairness, and `ReleasedIsClaimable`, which is about ENABLED. Both are outside the prover. Every other
property of the passing runs is a theorem.

## 5. Plan

In this order; each with its runs, bounds and theorems.

1. `OracleQueue`: the inactivity monitor, the request queue and the oracle workflow. Property: a silent
   owner's request reaches the chain unless a response is lost.
2. The Arweave registry: a read, a merge and an upload, with a fetch that fails.
3. `PortfolioAnalytics`: requests fulfilled late and out of order.
4. `AdminMultisig`: threshold and expiry.

Composition: `TriggerLifecycle` extends the slots; `RwaDelivery` starts where its `Audit` step ends and
shares no variable with it. `YaultVault` refines the balances `VaultShareEscrow` keeps by whole shares;
the escrow is one of its exempt contracts.

## 6. Not modelled, and why

`PROJECT.json` lists every component with its status. Besides the plan above: the web application and
the client library are user interface, and most of the repository's lines; `wasm-core` is key derivation
and encryption, a computation rather than a protocol; authentication keeps a map of challenges with an
expiry; claim lookup, portfolio, insurance, revenue, e-mail and compliance read rows and call services;
members, invites, plans and factors are single-row writes; factory and creator write a registry once per
vault. Signatures and ciphertexts are opaque throughout: a signature is valid if its message was signed.
