# FairWins escrow, membership, custody and relay: a TLA+ verification project

FairWins lets two people, or a pool of people, put stakes into a contract and
have them paid out by agreement, by an arbitrator or by an oracle. Users may
submit their calls themselves or sign an *intent* that a relay gateway submits
for them. Around the escrow there are paid memberships, spending policies for
shared vaults and a bridge whose transfers the frontend follows to their end.
This directory holds TLA+ models of the contracts that keep the money and the
rights, of the service that relays the calls and of the two parts of the
frontend that a user's money depends on, the TLC configurations that check them on
small instances, and TLAPS proofs of the most important results for every value
of the constants.

`PROJECT.json` lists the components, the runs, the mutants that show each
property can fail, the source lines each definition models, the hazards and the
theorems. Paths below are relative to the repository.

## 1. Inventory

### What the protocol is made of

| Component | State it keeps | Operations | Modelled in |
|---|---|---|---|
| `WagerRegistry` with `WagerRegistryCore` and `WagerRegistryIntents` (contracts/wagers) | wagers, draw consents, claim index, allowed tokens, frozen accounts, wired adapters, guard and manager, escrowed tokens | create, open challenge, accept, cancel, decline, declare winner, draw and revoke, oracle resolution, payout, refund, batch expiry, operator setters, relayed twins | `WagerRegistry` (all but the relayed twins) |
| `WagerPool` (contracts/pools) | pool state, roster, frozen denominator, proposals and approvals, claimed rows, refunds, escrow | join, close, poke, propose, approve, claim, refund, cancel, each with a relayed twin | `WagerPool` |
| `SignerIntentBase` (contracts/upgradeable) | burned nonces | intent verification, two ways to invalidate a nonce, EIP-3009 pull, gas-fee netting | `SignerIntent`, used by `WagerPool` |
| `MembershipManager`, `MembershipVoucher` (contracts/access) | memberships, tiers, active-wager slots, monthly windows, accrued fees, vouchers | purchase, upgrade, extend, redeem, grant, revoke, `checkCanCreate`, `recordCreate`, `recordClose` | `Membership`; the hooks also inside `WagerRegistry` |
| `SanctionsGuard` (contracts/access) | deny list, oracle address | `isAllowed`, `setDenied` | its verdict, as a changing set |
| `WagerPoolFactory` (contracts/pools) | pools, phrases, templates | create pool, screen, require membership, forward relayed calls | its parameter checks and hooks, inside `WagerPool` |
| Oracle adapters (contracts/oracles) | resolution caches, assertions, pending requests, feed conditions | fetch, assert, request, fulfil, resolve | an answer that appears and stays, or may be fetched again and change, inside `WagerRegistry` |
| Relay gateway (services/relay-gateway) | intent records, de-duplication map, quota windows, kill switch | `POST /v1/intents`, status poll, engine webhook | `RelayGateway`, which implements `IntentRelay` |
| Gasless client (frontend/src/lib/relay) | status and intent of a hook, the intent that may be invalidated, activity entries | run, pay own gas, invalidate, reset | `RelayClient`, over `IntentRelay` |
| Bridge tracker (frontend/src/lib/bridge, data/ledger) | append-only client ledger, notification buffer, polls in progress | capture, reconcile, list, queue, restore a backup | `BridgeTracker` |
| `SafePolicyGuardV2` (contracts/custody) | rules, spending windows, cooldown | check before a Safe transaction, preview, configure | `PolicyGuard` |
| `FeeRouter`, `CallsignRegistry`, `MiniAppRegistry`, routers, token factory, registries, paymaster, smart accounts | see `PROJECT.json` | | see `PROJECT.json` |
| subgraph, finops exporter, the rest of the frontend, archived contracts | none of the protocol's | | not modelled |

### How they interact

* The registry calls the manager in the transaction that creates or closes a
  wager (`checkCanCreate`, `recordCreate`, `recordClose`), asks the sanctions
  guard about parties, and reads an adapter when somebody settles an oracle
  wager. All of this is one transaction; between transactions anybody may act
  and operators may pause, freeze, delist, rewire adapters and swap the manager.
* A pool asks its factory to screen a member when he joins. Nothing else in a
  pool depends on outside state.
* A relayed call is the same body as the direct one, behind a signature, a
  validity window and a single-use nonce. The relayer chooses when to submit,
  how often and in which order.
* The gateway verifies an intent, reserves its marker, screens, meters, posts a
  transaction to a submission engine and learns the outcome from webhooks. It
  is one Node process: handlers interleave at every `await`, and its maps are
  lost at a restart.
* The gasless client probes the gateway, asks the wallet for a signature, posts
  and polls. Whenever the gateway is out of reach it asks the wallet to send the
  same call itself, although the gateway may still have the intent.
* The guard is called by the Safe, after the Safe has counted up its nonce and
  before it executes. The Safe's owners, approved hashes and executors are not
  the guard's to decide.
* A voucher is an ordinary token until the manager redeems and burns it.
* The bridge page and the notification engine of every device poll the gateway
  and the chains and write the same ledger; a backup copies one device's ledger
  into another's.

### What is hard

* *Money*: six exits from a wager and two from a pool share one token balance.
  A long mix of them over several wagers must pay each unit exactly once.
* *Time*: accept, resolve and refund windows meet at a second; an oracle answer
  may come after the refund became possible, and both calls are permissionless.
* *Changing surroundings*: pausing, freezing, sanctions, lapsed memberships,
  rewired adapters and a swapped manager meet wagers that are already funded.
* *Delivery*: intents replayed, late or reordered; engine posts that time out
  and are sent again; webhooks late, repeated, out of order or before the record
  is attached; a restart between a post and its webhook.
* *Stale reads*: a poll writes what it derived from an entry read before its
  awaits; approvals outlive owners and nonces; caches and counters outlive the
  policy they were computed for; prices change under running memberships.
* *Liveness*: no creator, member, operator or silent oracle may keep stakes
  locked; no intent may stay in flight; no gasless call may leave its user
  without a way to act.

`PROJECT.json` lists the hazards at their lines, with the properties that would
catch each going wrong, or the reason there is none yet.

## 2. Modules

| Module | What it is |
|---|---|
| `SignerIntent` | the intent record, `VerifyIntent` (window, nonce, burn) and the EIP-3009 authorization of a payment |
| `WagerPool` | one pool clone, direct and relayed calls; extends `SignerIntent` |
| `WagerRegistry` | the one-to-one escrow with what it sees of its neighbours |
| `Escrow` | what those who stake may rely on, as an abstract specification; one pool and each wager implement it |
| `IntentRelay` | what a client of the gateway may rely on, as an abstract specification |
| `RelayGateway` | the intent pipeline with the engine and the chain around it; implements `IntentRelay` |
| `RelayClient` | the frontend's gasless path, composed with `IntentRelay` |
| `BridgeTracker` | one bridge transfer as the frontend's devices follow it |
| `Membership` | the membership manager with the voucher and the batch minter |
| `PolicyGuard` | the spending policy of one vault |
| `MC...` | small instances for TLC, one module per component |
| `...Proofs` | theorems and their proofs, one module per component |
| `SumTheorems` | lemmas about `SumFunction` and about induction over intervals, used by four proof modules |

### WagerPool

Variables carry the contract's names (`state`, `memberCount`,
`frozenDenominator`, `currentProposalId`, `proposalApprovals`, ...). `balance` is
the token balance of the clone; `received` and `executed` are history. Each
external function is an action; the bodies shared by a call and its relayed twin
are operators named after the internal functions (`JoinBy` for `_recordMember`,
`ApproveBy` for `_approveBy`). A proposal id is the matrix itself, because the
contract keys proposals by a hash that is taken to be injective. The parameters
satisfy what the factory enforces (`PoolAssumption`). `ComplianceChange` changes
who the factory would admit, at any time.

### WagerRegistry

`wagers[i]` is the `Wager` struct without its text fields; a deleted wager is
`NoWager`. `paidIn` and `paidOut` are history: what each user put into and got
out of each wager. Each entry point is an action with its modifiers as conjuncts;
`CloseActive`, `SettleDraw`, `ReleaseOpen` and the like are the internal
functions. `membershipManager`, `authorized`, `tier` and `activeCount` are the
part of the manager the hooks read and write, for each manager an admin may
wire. A claim code is an authority; its signature over a wager and a taker is
the pair itself. Oracle answers appear by `OracleReport`, once per condition, except
at the adapters in `Rewritable`, which stand for Polymarket's: there every fetch
writes the cache again, and another CTF contract may say something else.

### Escrow, and its two refinements

`Escrow` keeps a phase, the claims that are not paid yet with their worth
(`due`), and what is held. Staking adds a claim; the escrow is settled once,
either by returning the stakes (`Return`) or by dividing anew exactly what is
held (`Award`); a payment pays some claims in full and leaves the others. There is
no way back, no second settlement and no other way out.

`WagerPool` implements it with the members' buy-ins as claims, or the rows of the
locked matrix that are not claimed (`Due`), and its balance as `held`. Its
`Settlement` changes from funding to returning when the creator cancels and, with
nobody acting, when `resolveDeadline` passes over a closed pool; this is where a
refund and an approval could meet. In `WagerRegistry` every id is an escrow of its
own (`Promise(i)`): the claims are the parties' stakes, then the winner's pot, and
`Held(i)` is what came into the wager and has not left it. An id that was
released counts as returned, so it can never be funded again.

### RelayGateway

`handler[r]` is where request `r` is suspended (`verifying`, `screening`,
`estimating`, `posting`) or how it was answered; an action runs from one `await`
to the next, because nothing else runs in the process meanwhile. `record`,
`engineTxId` and `dedup` are the two stores. A post is a pair of a request and
an attempt; `tx[p]` follows it over the wire into the engine and the chain. A
post may be lost, taken late, or taken although its answer was lost. A webhook
may report any status a transaction has reached, any number of times, or never.
`Restart` empties the stores and cuts requests off. Policy refusals (kill
switch, sanctions, quotas, fee and spend caps) may hit any request; that a
request is refused or not is all the pipeline sees of them. The queue bound is
modelled exactly. A marker that somebody else consumes on chain shows as a
transaction that fails.

### IntentRelay, and the refinement

`IntentRelay` keeps four things: the answer to each request, the requests whose
call has left the gateway, the markers the chain has executed and the status a
poll would report. It says that a refused request never left, that a marker runs
at most once, that `confirmed` follows the execution, and that the process may
forget everything it reported. It does not say that a request that was given up
will not run, nor that `failed` means anything, because the code does not
guarantee either. `RelayGateway` maps its handlers to answers (`AnswerTo`), its
posts to exposure (`Exposed`) and its records to reports (`ReportOf`).

### RelayClient

`pc[r]` is the await one call of the hook is suspended at, or what it returned.
Calls share `status`, `intent` and `unsubmitted`, as they do in the hook. The
gateway's steps are those of `IntentRelay` with one marker per call, because a
nonce is drawn when an intent is signed; an intent executes only while it is
valid and its nonce not burned.

A fetch is two awaits. `boundedFetch` aborts at a timer, which it clears when the
headers arrive (`Bounded`); the body is read after that, without a budget
(`Reading`), and may stall or break off. A timeout is possible at any moment of a
post, whatever the gateway is doing. An error may come from the gateway or from
whatever stands in front of it, also after the gateway has taken the intent: 429
and 503 send the call to the wallet, every other error is shown as a rejection.
So a rejection promises nothing about the intent, and no property says it does.

Validity is judged by two clocks: the contract's by `block.timestamp` (`lapsed`),
the polling loop's by `Date.now()` (`overdue`). `deviceClock` says whether the device
may run ahead of the chain; one that does not finds an intent overdue only when
no later block can execute it.

### BridgeTracker

The records of a transfer are its states, each superseding another one; their
order in the store is a relation, which is what `find` and the tie-break of
`listBridgeEntries` depend on. A poll carries the entry it read (`from`) over its
awaits; `Settle` derives, captures and queues in one step, because nothing
interrupts the code there. A capture may fail silently (full storage) and the
notification is queued all the same. The gateway may know any part of what
happened, the chains' reads may find nothing, and a reorganisation may make the
origin transaction fail after it was captured.

### Membership

`member[u]` is the `Membership` struct; `held` is the manager's balance of each
token it was ever paid in; `open` is history, the wagers registries opened here.
`Started` and `Renewed` are the two ways the code writes a membership. A voucher
carries the tier and the duration of the moment it was minted. The relayed twins
run the same bodies for their signer, so they are the same steps.

### PolicyGuard

`rules`, `acc` and the four fields of `_meta` are the guard's storage for one
vault; `owners`, `nonce` and `approved` are the Safe's. `Scan` is the loop of
`_evaluate` with its bookkeeping, one `LoopRound` per rule; `Governs` reads it as a
set of rules, and `LoopFindsGoverning` says that the two agree on every
transaction in every state. Limits fit the contract's uint128. `Enforced` is all that
checkTransaction asks: the rules (`Allowed`) and the checked addition of
`_commitSpend` (`Fits`), which reverts when two legs of one transaction overflow the
counter. `ledger` is history.
A transaction the guard denies reverts and is not a
step. Approvers are sets, so duplicate approvers and the caps on list lengths
are left out.

## 3. Runs

All runs finish within four minutes on two cores.

| Run | Checks | Shows |
|---|---|---|
| `pool_core` | `EscrowExact`, `LockedByQuorum`, `ImplementsEscrow`, `EscrowDrains` | every interleaving of three wallets' joins, closings, proposals, approvals, claims and refunds keeps the escrow exact to the unit, locks only with a quorum of distinct members, is settled once and by refunds or payouts but never by both, and in the end pays out everything |
| `pool_relay` | `IntentRunsOnce`, `RelayedAsSigned` | intents and payment authorizations, replayed and reordered at will, run at most once and do what was signed |
| `registry_wagers` | `EscrowExact`, `SlotsExact`, `ClaimIndexConsistent`, `ImpartialParties`, `DeadlinesDivide` | two concurrent wagers or open challenges of three users, in two tokens, with even and uneven stakes and an arbitrator; at every second of a deadline exactly one side of it is open |
| `registry_admin` | `SettledFairly`, `TermsAndVerdictFinal`, `ImplementsEscrow` | oracle answers, answers that are rewritten, ties and late answers race refunds while operators pause, freeze, rewire adapters, swap and de-authorize managers; whichever settlement comes second finds nothing left |
| `registry_live` | `EveryWagerSettles`, `WinnerIsPaid` | every wager settles although the protocol may stay paused and both parties frozen, sanctioned or without membership |
| `gateway_relay` | `SingleFlight`, `NoFalseSuccess`, `QueueBounded`, `NeverAcceptAndDrop`, `ImplementsIntentRelay` | three requests, two for the same intent, through refusals, retries, lost and repeated posts, late and repeated webhooks and a restart |
| `gateway_live` | `InFlightEnds` | no intent stays in flight, with two retries (the default) and a restart |
| `relay_client` | `ConfirmedIsOnChain`, `TwiceOnlyUnanswered`, `ExpiredIsOver`, `NeverStrandedIfRead` | two overlapping calls of the gasless hook against everything the gateway and a proxy may do: confirmed is never shown before the fact, only a run whose acceptance never arrived can take effect twice, what expired by a clock that is not ahead is over, and every call ends or asks the wallet unless a body stalls for ever |
| `bridge_tracker` | `HonestOutcome`, `NeverLost`, `OutcomeFinal` | overlapping polls of two devices that restore each other's histories: no outcome that did not happen, no transfer lost, no outcome taken back |
| `membership` | `ActiveCountExact`, `FeesHeld`, `GateMatchesHook`, `StandingKept`, `VoucherNotWasted` | purchases, upgrades, extensions, grants, revocations, vouchers and open wagers under changing tiers, tokens, sanctions and authorizations |
| `policy_guard` | `AccountingExact`, `WindowCapped`, `CooldownSpaced`, `ApproversStandBehind`, `LoopFindsGoverning`, `PreviewIsTwin` | replaced policies, changing owners, approvals given early, in time and late and spends through several windows |

### Disagreements between documents and code

`guard_preview` checks one sentence of the repository, and TLC finds it violated
by what the code does: "Reporting the requirement as unmet keeps preview
conservative — it never says "allowed" where enforcement would deny"
(contracts/custody/SafePolicyGuardV2.sol:574). Two rules have one scope; the
first needs an approver and has the lower limit. A preview without the hash
skips the first rule and says allowed by the second (`PreviewConservative`); at
enforcement the first rule has its approver, governs, and denies. With the hash
the preview is exact (`PreviewIsTwin`, in `policy_guard`), but for one case that the
property names: two legs of one transaction, each within what is left of a window
limit above half of uint128, overflow the counter, and checkTransaction reverts
where the preview says allowed.

The models show these as well; they have no run of their own:

* "revising restarts approvals" (contracts/pools/WagerPool.sol:289): approvals
  are keyed by matrix and never cleared, so a creator that returns to an earlier
  matrix finds its old approvals counted.
* "The settler is fixed **at creation**" (docs/system-overview/security.md:96):
  the adapter wired when somebody resolves the wager decides
  (contracts/wagers/WagerRegistryIntents.sol:254).
* "`recordClose` hooks keep concurrent-wager counts accurate"
  (docs/developer-guide/smart-contracts.md:120): after `setMembershipManager` the
  new manager starts every member at zero, and recordClose stops at zero there.
* "Neither affects escrowed funds or refund paths", of pause and freezes
  (docs/developer-guide/smart-contracts.md:122): a frozen winner cannot collect
  as long as he is frozen (contracts/wagers/WagerRegistry.sol:375).
* "The on-chain nonce was not consumed; a fresh submission of the same marker is
  safe" (services/relay-gateway/src/engine/webhook.js:74): a post that timed out
  may be executed while its retry reverts, and the intent is reported failed.
  For this reason `IntentRelay` promises nothing about `failed`.
* A gasless call that timed out offers "Pay my own gas"
  (frontend/src/components/intents/IntentStatus.jsx) although the gateway may
  have executed the intent; `TwiceOnlyUnanswered` says that this is the only way
  a call takes effect twice. `invalidate()` promises that "the intent can never
  execute" (frontend/src/lib/relay/useIntentAction.js:284) and resolves when its
  write is broadcast; and any call that ends drops the reference it works on.
* "no funds moved", of `RelayRejected` (frontend/src/lib/relay/errors.js:7): every
  non-2xx status but 429 and 503 becomes one (intentClient.js:261), so also a 500,
  502 or 504 of a proxy after the gateway took the intent, which may still run.
* "`fetch` with a bounded budget" (frontend/src/lib/relay/intentClient.js:75), on
  which the never-stranded rule rests: the timer is cleared at the headers, and the
  body is awaited without one (:92-98). A body that stalls suspends the probe, the
  post or the polling loop, whose deadline is tested between awaits only.
  `NeverStrandedIfRead` is what remains true.
* "expired before execution" (frontend/src/lib/relay/useIntentAction.js:58): with
  the device's clock ahead of the chain's, the intent may run after the entry; and
  with any clock it may have run before, unreported.
* A transfer that `needs_attention` may be put back to `in_flight` by an older
  poll, because the two have one rank; and a fork that a restored backup makes
  may list an earlier live state. Outcomes are final (`OutcomeFinal`).
* `withdrawFees` after `setPaymentToken` pays the fees counted in the old token
  out of the new one; the sum over the tokens is still exact (`FeesHeld`).
* The comment of `_requireResolving` says "on/before the resolve deadline" and
  the code refuses the deadline second itself (contracts/pools/WagerPool.sol:378);
  the functional checklist expects settlement to revert while paused
  (docs/fairwins-functional-testing-checklist.md:560) and the code, with
  docs/system-overview/governance.md, lets it through.

### Bounds, and why they are enough

* Pools: three wallets, buy-in 2, threshold 5001 of 10000 (two of two, two of
  three, so that rounding up matters), deadlines 2 and 4, horizon 5, so that
  time passes before, at and after each. The matrices pay one winner, one winner
  twice, a wallet that never joined, and some are malformed. The relayed run has
  two wallets, two matrices, up to two signed intents that share a nonce per
  wallet, and a window that ends.
* Registry: two wagers suffice for one to eat into the other's escrow, and for a
  claim code to be reused; three users for an arbitrator. Deadlines 1 and 2 and
  horizon 3 give a second before, at and after each. `registry_admin` has one
  wager, because the state of the operators multiplies everything.
* Gateway: two requests for one marker and one for another are the least that
  have both a duplicate and a queue to fill (`MaxQueueDepth` 1). One retry gives
  two engine transactions for one intent; one restart suffices for a second
  submission next to a forgotten one. The two requests for one marker are
  interchangeable, and `gateway_relay` (safety only) uses that symmetry.
* Client: one call that relays and one "Pay my own gas" of the same hook, which
  overlap at every await; invalidations, resets and expiry, by either clock, come at
  any moment, on a device that is ahead of the chain and on one that is not.
  More calls are left to the theorems, which hold for any number.
* Bridge: two devices with one poll each. A poll reads and writes at different
  moments, so two of them already give every order of stale writes, and merges
  go both ways and may repeat. All seven states of a transfer occur.
* Membership: one member and one other holder of vouchers, two tiers of which
  one changes its price and closes, two tokens, two open wagers (limits of one
  and of none), and three seconds with a window of one: memberships lapse, run
  and are extended, and the month ends before, at and after a call. Fees and
  vouchers are bounded by 2.
* Guard: two owners and a stranger who executes; eight transactions (small and
  large native, token, both at once, a plain call, a delegatecall, a gas
  refund, value sent to the guard); no policy, alternatives of one scope, and bands with a rule that
  needs both owners; windows of two seconds in a time of three, cooldowns 0 and
  1, four transactions of the vault, and counters of width 3, which the two legs
  of one transaction can overflow.
* Deadlock is checked in `relay_client`, `membership` and `policy_guard`. In the
  others it is not: with the horizon reached and the escrow empty, with all
  requests answered or with every fact about a transfer known and recorded,
  these systems may stop.

### Fairness

* `WagerPool`: blocks are mined (`Tick`), somebody pokes the deadline (anybody
  may), members take their refunds and winners claim their rows. It is in their
  interest and needs no one's consent. Nothing is assumed of creators,
  proposals or approvals.
* `WagerRegistry`: blocks are mined, a third party nobody has moderated calls
  `claimRefund` on what has expired (it is permissionless), and winners collect.
  Nothing is assumed of parties, arbitrators, oracles or operators. The run
  leaves out de-authorizing the registry at the manager: while that lasts
  `recordClose` reverts and no wager in flight can be settled.
* `RelayGateway`: every await ends (the engine post has a timeout), the engine
  finishes what it has accepted, and its terminal webhook gets through at last.
  The last one is an assumption about the engine: the gateway never polls, and a
  webhook that comes before the record is attached is answered 404.
* `RelayClient`: the timer of the probe and of the post fires (weak fairness), and
  the polling loop tests its deadline in one of the rounds it comes to (strong
  fairness, because each answer of the gateway takes it out of the loop's test for
  a moment). Nothing is assumed of the network, the gateway, the chain or the
  user's wallet; that bodies are read is the hypothesis of the property, since
  the code does not provide for it.
* The other three are checked for safety only. That a transfer's outcome is
  recorded at last needs a member who comes back to the app; the guard and the
  manager act only when they are called.

## 4. Proofs

Constants are arbitrary within the named assumptions (`PoolAssumption`,
`RegistryAssumption`, `RequestsAssumption`, `ConfigAssumption`, `RunsAssumption`,
`BridgeAssumption`, `MembershipAssumption`, `GuardAssumption`), which TLC evaluates
in every run. They say that users, managers and tokens are finite sets (the chain
has finitely many addresses), and that amounts fit the widths the contracts give
them; deadlines and thresholds are those the factory admits.

**`SumTheorems`**. The escrow properties are about sums over members, rows, wagers,
tokens and histories. The library's induction theorems take a predicate as a
parameter, which the provers cannot instantiate. That strict inclusion is
well-founded on the subsets of a finite set is stated without one, and gives
induction over finite sets with the hypothesis as a set of subsets
(`SubsetInduction`), and induction over an interval of numbers from that
(`IntervalInduction`, for the loop of the guard). `SumFunction` is a fold that picks
the next point itself, so the lemmas first show that the choice does not matter,
and then what the other modules use: a sum of natural numbers is one (`SumNat`),
splits as its terms do (`SumSplit`), loses what a lost point was worth
(`SumWithout`), changes by as much as one of its terms (`SumChange`), and is the sum
of the one or two terms that are not zero (`SumAlone`, `SumPair`).

**`WagerPoolProofs`**: `PoolTypeCorrect`, `PoolLockedByQuorum`,
`PoolRefundXorPayout`, `PoolEscrowExact`, `PoolCovered`, `PoolIntentRunsOnce`,
`PoolRelayedAsSigned`, `PoolImplementsEscrow`. The quorum is stated over sets of members while the code
counts, so the inductive invariant `CoreInv` says that counters are
cardinalities (`memberCount` of the roster, `proposalApprovals` of the
approvers), that the denominator is frozen with the roster, that a resolved pool
has a locked matrix with enough approvals, and that a refund implies a cancelled
pool or a time past the deadline. Rounding up is arithmetic on
`RequiredApprovals`. `EscrowInv` adds what the sums need: a proposal
allocates the frozen escrow, which is a buy-in for each member of a roster that
changes no more; only members take refunds and only rows of the locked matrix
are claimed; so the rows nobody claimed, or the buy-ins not refunded, add up to
the balance. `Covered` follows: no exit fails for lack of funds.
Replays are excluded by `ReplayInv`: whatever was executed has its nonce burned.
The refinement is a step simulation under all of these; the step without an
actor is `Tick`, which may turn funding into returning.

**`WagerRegistryProofs`**: `RegistrySettlesFairly`, `RegistryVerdictFinal`,
`RegistryClaimIndex`, `RegistryImpartial`, `RegistrySlotsExact`,
`RegistryTypeCorrect`, `RegistryEscrowExact`, `RegistryCovered`,
`RegistrySlotsCovered`, `RegistryImplementsEscrow`. That a refund gives each user what he paid needs two
different parties, a wager nothing has left yet and ids that are untouched until
the counter reaches them; `Inv` adds these to the types and the claim index.
Every call is reduced to a few kinds of step on one wager (`CallCases`), and
each kind has a lemma. For the escrow each kind of step changes the sum of what
is owed in one token by what it moves, and `Covered` follows because one term of
a sum of natural numbers is at most the sum. The simulation of `Escrow` reduces a
step further, to how one wager may move (`MoveCases`), and shows that what is held
for a wager is what its claims are worth (`HeldIsOwed`) before every move.
`RegistrySlotsExact` assumes that the manager is not swapped. Without that
assumption `RegistrySlotsCovered` says what remains: over all managers together
no fewer slots are counted than wagers are live, because a close under another
manager than the one that opened stops at zero and can only leave a slot behind.

**`RelayGatewayProofs`**: `GatewaySingleFlight`, `GatewayNoFalseSuccess`,
`GatewayQueueBounded`, `GatewayNeverAcceptAndDrop`, `GatewayTypeCorrect`,
`GatewayImplementsIntentRelay`, for any number of requests, markers, retries and restarts. `Placed` ties a record to the
await its handler is suspended at; without it a refusal could release what
another request holds. `Unposted` says that posts still to come have left no
trace; without it a retry could overwrite an executed transaction. Steps are
grouped by effect in `StepCases`.

The refinement is a step simulation: initial states map to initial states, and
under the same invariant every step of the pipeline, of the engine or of a
webhook is a step of `IntentRelay` or leaves its four variables alone.

**`RelayClientProofs`**: `ClientTypeCorrect`, `ClientConfirmedIsOnChain`,
`ClientTwiceOnlyUnanswered`, `ClientExpiredIsOver`, for any number of overlapping
calls. The invariant says what the relay's answers mean (`RelaySound`: what was
executed was exposed, what was refused never was, what was reported confirmed or
original was executed) and traces each call to them (`Traced`: a body that says
confirmed is of an executed intent, only a call that went to the wallet has a
transaction, only a call whose acceptance arrived has a `submitted` entry and it
never goes to the wallet, an expired one is overdue, and what is overdue has
lapsed unless the device's clock is ahead). Expiry is final, on a device whose
clock is not ahead, because an intent is executed only while it is valid.

**`BridgeTrackerProofs`**: `BridgeTypeCorrect`, `BridgeHonestOutcome`,
`BridgeNeverLost`, `BridgeOutcomeFinal`, for any devices and polls. The
invariant says that the records a device holds are ordered (`OrderWithin`,
`OrderAsymmetric`), that a record supersedes only an earlier one
(`SupersedesEarlier`) and never an outcome (`OutcomesKept`), and that every
nonempty set of a device's records has a last one (`LastExists`). The last is
carried along as part of the invariant, which spares an induction on the number
of records: an appended record comes last, and a merge puts the records that are new
after the device's own, in the order they had. `NeverLost` then takes the last
record of a transfer, which nothing supersedes.

**`MembershipProofs`**: `MembershipTypeCorrect`, `MembershipActiveCountExact`,
`MembershipGateMatchesHook`, `MembershipStandingKept`,
`MembershipVoucherNotWasted`, `MembershipBlockedGainsNothing`,
`MembershipFeesHeld`. The types carry
most of it; `ActiveCountExact` is inductive with them, by the cardinality of a
finite set with one member more or less, and `FeesHeld` by the sum over the
tokens when one balance changes.

**`PolicyGuardProofs`**: `GuardTypeCorrect`, `GuardCooldownSpaced`,
`GuardApproversStandBehind`, `GuardPreviewIsTwin`, `GuardAccountingExact`,
`GuardWindowCapped`, `GuardCastSafe`, `GuardLoopFindsGoverning`,
`GuardPreviewRight`. The cooldown needs that
`lastCountedTxAt` is no earlier than any counted movement made under a cooldown;
the approvers need that the history of the present list is a history of its
rules; the preview needs that the cached flag is exact, and that what the rules
allow fits the counter unless two legs may overflow it (`AllowedFits`: one leg is at
most what is left of a limit that itself fits).

The windows rest on `WindowsInv`: a rule's counter is what the history let through
since its window began (`Exact`), and what was let through shortly before that was
one window's and is bounded as well (`Before`). The last part gives the bound for
*any* time as long as a window, which a window that restarts lazily keeps only to
twice the limit. A rule on any asset may count two
legs of one transaction, each checked before either is counted, so its ceiling is
twice its limit; `GuardCastSafe` shows that this never loses a unit in the cast to
uint128, and that the counter of a rule on one asset cannot overflow.

`GuardLoopFindsGoverning` is an induction over the rules the loop has passed. The
invariant of a round (`SeenRight`) says what the bookkeeping means: as long as the
loop goes on, every rule that matched lacks approvals and is of the scope of the
one remembered, and when it stops it has found what governs or nothing does. `GuardPreviewRight` is the
part of the source's comment on previews that is true: without the hash the
preview is conservative, against all that checkTransaction does, for every rule
that no approver rule of its own scope precedes; the overflow of two legs apart. `guard_preview` shows the rest to be false.

Model-checked only: liveness (`EscrowDrains`, `EveryWagerSettles`, `WinnerIsPaid`,
`InFlightEnds`, `NeverStrandedIfRead`), which rests on fairness and ENABLED;
`DeadlinesDivide`, which is about what is ENABLED at a deadline; and the violation in
`guard_preview`. Every other safety property of every run has a theorem.

Proved only: the type invariants, `RefundXorPayout`, `BlockedGainsNothing`, the
two `Covered`, `SlotsCovered`, `CastSafe` and `PreviewRight`. The theorems cover
every instance, so no run repeats them.

## 5. What is not modelled, and the plan

Not modelled for good: vendored account code and signature cryptography,
stateless routers to third-party protocols, per-sender key-value registries, the
subgraph and the metrics exporter, archived contracts, and the bulk of the
frontend. Nine tenths of the repository's lines are React components, generated
ABIs, network and token tables, styles, deployment scripts and tests. They
render state or move data and have no protocol of their own that a property
could be about, so the share of all lines that a faithful model can cover stays
small; what is modelled is where money, rights and promises are decided.
Fee-on-transfer and reentrant tokens are outside the models: the code
allow-lists its tokens and guards every exit.

Left out inside modelled components: `setTreasury`, terms hashes and fee netting
of the manager; royalties and metadata of the voucher; caps on list lengths,
duplicate approvers, calldata decoding and failing inner calls of the guard;
`setFeeNetting` and `setIntentExtension` of the registry (the second replaces code);
a winner of a pool who names the pool itself as the recipient of his row (he would
be giving it away); the withdrawal by a reorganisation of a fill that the bridge
tracker has read at `latest` (frontend/src/lib/bridge/bridgeStatus.js:367), so
`HonestOutcome` is about fills that stay; pruning of the client ledger and the draining of the notification buffer (which
clears it before the notifications are persisted).

Next, in this order:

1. `WagerRegistryIntents`: the relayed twins over `WagerRegistry` and
   `SignerIntent`, with the stapled payment (`_pullWithAuthorization`) and gas
   fee netting (`_settleGasFee`). Properties: an intent runs once and as signed;
   escrow stays exact with netted fees.
2. One module per oracle adapter, with "an answer appears once and stays" as the
   abstract specification to refine, or "appears and may change" for Polymarket,
   whose cache rewrites the registry's model already allows for; the
   never-fulfilled Functions request is the interesting case.
3. The registry's view of the manager as an abstract specification that
   `Membership` implements.
4. The gateway's sliding quota windows, `WagerPoolFactory` (phrases, screens,
   forwarders), `FeeRouter` (quotes and caps), `CallsignRegistry` (commit,
   reveal, quarantine).

Theorems to come: `IntentRunsOnce` and `RelayedAsSigned` for the registry's relayed
twins, and the step simulation of the refinements in items 2 and 3.
