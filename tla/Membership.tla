----------------------------- MODULE Membership -----------------------------
(***************************************************************************)
(* MembershipManager.sol with the voucher that may be redeemed at it       *)
(* (MembershipVoucher.sol, VoucherBatchMinter.sol), for one role.          *)
(*                                                                         *)
(* A transaction is one step.  A relayed ...WithAuthorization or ...WithSig *)
(* call runs the body of the plain call for its signer, at a moment the    *)
(* signer does not choose, and is one of the steps below; that it runs     *)
(* once is the matter of SignerIntent.  The role manager, the admin and    *)
(* the sanctions guard may act at any time.  A payer who lacks the money   *)
(* makes the call revert, so it is not a step.                             *)
(***************************************************************************)
EXTENDS Naturals, FiniteSets, Functions

CONSTANTS
  Users,          \* who may become members
  Others,         \* who may hold vouchers besides them
  Tiers,          \* the tiers for sale
  None,           \* Tier.None, and no voucher
  Configs,        \* what setTier may write for each tier
  Tokens,         \* tokens the admin may name as payment token
  FirstToken,     \* the one the manager and the batch minter were deployed with
  Registries,     \* callers of recordCreate and recordClose
  Slots,          \* places for open wagers
  RegistryOf,     \* the registry that keeps each of them
  UserOf,         \* and the user it counts for
  Window,         \* ROLLING_WINDOW
  GrantDays,      \* durations the role manager grants
  MaxTime,        \* bound on the clock
  MaxExpiry,      \* bound on extensions
  MaxFees,        \* bound on the fees collected
  MaxMonth,       \* bound on the wagers of a month
  MaxVouchers     \* bound on the vouchers minted

ConfigRecords == [price : Nat, days : Nat, active : BOOLEAN, monthly : Nat, concurrent : Nat]

Holders == Users \cup Others

VoucherInfos == [owner : Holders, tier : Tiers, days : Nat]

ASSUME MembershipAssumption ==
  /\ None \notin Tiers /\ None \notin VoucherInfos
  /\ Configs \in [Tiers -> SUBSET ConfigRecords]
  /\ FirstToken \in Tokens /\ IsFiniteSet(Tokens)
  /\ IsFiniteSet(Slots)
  /\ RegistryOf \in [Slots -> Registries] /\ UserOf \in [Slots -> Users]
  /\ Window \in Nat /\ GrantDays \subseteq Nat
  /\ MaxTime \in Nat /\ MaxExpiry \in Nat /\ MaxFees \in Nat /\ MaxMonth \in Nat
  /\ MaxVouchers \in Nat

VARIABLES
  now,            \* block.timestamp
  config,         \* _tiers
  member,         \* _memberships
  paymentToken,
  accruedFees,
  held,           \* the manager's balance of each token
  authorized,     \* authorizedCallers
  blocked,        \* users the sanctions guard refuses
  wired,          \* the voucher is the one setVoucher named last
  nextId,         \* vouchers minted so far
  voucher,        \* vouchers by id: owner, tier and days, None once burned
  open            \* slots with a wager that was not closed yet

feeVars == <<paymentToken, accruedFees, held>>
adminVars == <<config, authorized, blocked, wired>>
voucherVars == <<nextId, voucher>>
vars == <<now, member, feeVars, adminVars, voucherVars, open>>

Members == [tier : Tiers \cup {None}, expiresAt : Nat, monthCount : Nat,
            monthAnchor : Nat, activeCount : Nat]

AllConfigs == UNION {Configs[t] : t \in Tiers}

Ids == 1..MaxVouchers

Init ==
  /\ now = 1
  /\ config \in {c \in [Tiers -> AllConfigs] : \A t \in Tiers : c[t] \in Configs[t]}
  /\ member = [u \in Users |-> [tier |-> None, expiresAt |-> 0, monthCount |-> 0,
                                monthAnchor |-> 0, activeCount |-> 0]]
  /\ paymentToken = FirstToken /\ accruedFees = 0 /\ held = [t \in Tokens |-> 0]
  /\ authorized = Registries /\ blocked = {} /\ wired = TRUE
  /\ nextId = 0 /\ voucher = [v \in Ids |-> None]
  /\ open = {}

-----------------------------------------------------------------------------
\* hasActiveRole
Active(u) == member[u].tier # None /\ member[u].expiresAt > now

ConfigOf(u) == config[member[u].tier]

\* Mutant: a new membership starts with free slots.
Started_NoSlots(u, tier, days) ==
  [tier |-> tier, expiresAt |-> now + days, monthCount |-> 0, monthAnchor |-> now,
   activeCount |-> 0]

\* A membership that starts now: the month starts too, open wagers still count.
Started(u, tier, days) ==
  [tier |-> tier, expiresAt |-> now + days, monthCount |-> 0, monthAnchor |-> now,
   activeCount |-> member[u].activeCount]

Renewed(u, tier, expiresAt) ==
  [tier |-> tier, expiresAt |-> expiresAt, monthCount |-> member[u].monthCount,
   monthAnchor |-> member[u].monthAnchor, activeCount |-> member[u].activeCount]

\* Mutant: the fee is counted where it was collected only.
CollectPayment_Uncounted(amount) ==
  /\ accruedFees + amount <= MaxFees
  /\ held' = [held EXCEPT ![paymentToken] = @ + amount]
  /\ UNCHANGED <<accruedFees, paymentToken>>

\* _collectPayment
CollectPayment(amount) ==
  /\ accruedFees + amount <= MaxFees
  /\ held' = [held EXCEPT ![paymentToken] = @ + amount]
  /\ accruedFees' = accruedFees + amount
  /\ UNCHANGED paymentToken

\* _purchaseTier
PurchaseTier(u, t) ==
  /\ u \notin blocked
  /\ config[t].active /\ config[t].price # 0
  /\ ~Active(u)
  /\ CollectPayment(config[t].price)
  /\ member' = [member EXCEPT ![u] = Started(u, t, config[t].days)]
  /\ UNCHANGED <<now, adminVars, voucherVars, open>>

\* _upgradeTier: the difference of the prices in force is due.
UpgradeTier(u, t) ==
  /\ u \notin blocked
  /\ Active(u)
  /\ config[t].active /\ config[t].price > ConfigOf(u).price
  /\ CollectPayment(config[t].price - ConfigOf(u).price)
  /\ member' = [member EXCEPT ![u] = Renewed(u, t, member[u].expiresAt)]
  /\ UNCHANGED <<now, adminVars, voucherVars, open>>

\* _extendMembership, of a membership that is over too.
ExtendMembership(u) ==
  /\ u \notin blocked
  /\ member[u].tier # None
  /\ ConfigOf(u).active /\ ConfigOf(u).price # 0
  /\ CollectPayment(ConfigOf(u).price)
  /\ LET base == IF member[u].expiresAt > now THEN member[u].expiresAt ELSE now
     IN /\ base + ConfigOf(u).days <= MaxExpiry
        /\ member' = [member EXCEPT ![u] = Renewed(u, member[u].tier, base + ConfigOf(u).days)]
  /\ UNCHANGED <<now, adminVars, voucherVars, open>>

\* grantMembership replaces whatever the user had.
GrantMembership(u, t, days) ==
  /\ u \notin blocked
  /\ member' = [member EXCEPT ![u] = Started(u, t, days)]
  /\ UNCHANGED <<now, feeVars, adminVars, voucherVars, open>>

\* revokeMembership leaves the counters to the registries.
RevokeMembership(u) ==
  /\ member' = [member EXCEPT ![u] = Renewed(u, None, 0)]
  /\ UNCHANGED <<now, feeVars, adminVars, voucherVars, open>>

\* withdrawFees
WithdrawFees(amount) ==
  /\ amount <= accruedFees /\ amount <= held[paymentToken]
  /\ accruedFees' = accruedFees - amount
  /\ held' = [held EXCEPT ![paymentToken] = @ - amount]
  /\ UNCHANGED <<now, paymentToken, member, adminVars, voucherVars, open>>

-----------------------------------------------------------------------------
\* The voucher.  Its price goes to the treasury, not to the manager.

\* mint: tier and duration are those of the moment.
Minted(n, owner, t) ==
  [v \in Ids |-> IF v \in (nextId + 1)..(nextId + n)
                 THEN [owner |-> owner, tier |-> t, days |-> config[t].days] ELSE voucher[v]]

\* mint, and n mints of mintBatch for a recipient.  The batch minter pays with
\* the token it was deployed with, which the voucher must still ask for.
Mint(h, t, n) ==
  /\ config[t].active /\ config[t].price # 0
  /\ n = 1 \/ paymentToken = FirstToken
  /\ nextId + n <= MaxVouchers
  /\ nextId' = nextId + n
  /\ voucher' = Minted(n, h, t)
  /\ UNCHANGED <<now, member, feeVars, adminVars, open>>

Live(v) == voucher[v] # None

\* A transfer of the token: a sale or a gift.
Transfer(v, to) ==
  /\ Live(v)
  /\ voucher' = [voucher EXCEPT ![v] = [owner |-> to, tier |-> voucher[v].tier, days |-> voucher[v].days]]
  /\ UNCHANGED <<now, member, feeVars, adminVars, nextId, open>>

\* burn, by the owner.
Burn(v) ==
  /\ Live(v)
  /\ voucher' = [voucher EXCEPT ![v] = None]
  /\ UNCHANGED <<now, member, feeVars, adminVars, nextId, open>>

\* Mutant: whoever signed the redemption gets the membership.
RedeemVoucher_AnySigner(u, v) ==
  /\ wired /\ Live(v) /\ ~Active(u) /\ u \notin blocked
  /\ member' = [member EXCEPT ![u] = Started(u, voucher[v].tier, voucher[v].days)]
  /\ voucher' = [voucher EXCEPT ![v] = None]
  /\ UNCHANGED <<now, feeVars, adminVars, nextId, open>>

\* Mutant: a running membership is no obstacle.
RedeemVoucher_WhileActive(u, v) ==
  /\ wired /\ Live(v) /\ voucher[v].owner = u /\ u \notin blocked
  /\ member' = [member EXCEPT ![u] = Started(u, voucher[v].tier, voucher[v].days)]
  /\ voucher' = [voucher EXCEPT ![v] = None]
  /\ UNCHANGED <<now, feeVars, adminVars, nextId, open>>

\* _redeemVoucher, which ends with the burn.
RedeemVoucher(u, v) ==
  /\ wired
  /\ Live(v) /\ voucher[v].owner = u
  /\ ~Active(u)
  /\ u \notin blocked
  /\ member' = [member EXCEPT ![u] = Started(u, voucher[v].tier, voucher[v].days)]
  /\ voucher' = [voucher EXCEPT ![v] = None]
  /\ UNCHANGED <<now, feeVars, adminVars, nextId, open>>

-----------------------------------------------------------------------------
\* The hooks of the registries.

Below(count, limit) == limit > 0 => count < limit

\* checkCanCreate, which a registry asks first.
CheckCanCreate(u) ==
  /\ Active(u)
  /\ Below(IF now >= member[u].monthAnchor + Window THEN 0 ELSE member[u].monthCount,
           ConfigOf(u).monthly)
  /\ Below(member[u].activeCount, ConfigOf(u).concurrent)

\* Mutant: the month ends one second later than the view says.
MonthOver_Late(u) == now > member[u].monthAnchor + Window

\* recordCreate: the month is over,
MonthOver(u) == now >= member[u].monthAnchor + Window

\* so that its count and its anchor start anew.
Rolled(u) ==
  IF MonthOver(u)
  THEN [tier |-> member[u].tier, expiresAt |-> member[u].expiresAt, monthCount |-> 0,
        monthAnchor |-> now, activeCount |-> member[u].activeCount]
  ELSE member[u]

MayRecord(u) ==
  /\ Active(u)
  /\ Below(Rolled(u).monthCount, ConfigOf(u).monthly)
  /\ Below(Rolled(u).activeCount, ConfigOf(u).concurrent)

\* recordCreate
RecordCreate(w) ==
  LET u == UserOf[w]
      m == Rolled(u)
  IN /\ w \notin open
     /\ RegistryOf[w] \in authorized
     /\ MayRecord(u)
     /\ m.monthCount < MaxMonth
     /\ member' = [member EXCEPT ![u] =
                     [tier |-> m.tier, expiresAt |-> m.expiresAt, monthCount |-> m.monthCount + 1,
                      monthAnchor |-> m.monthAnchor, activeCount |-> m.activeCount + 1]]
     /\ open' = open \cup {w}
     /\ UNCHANGED <<now, feeVars, adminVars, voucherVars>>

\* recordClose, by a registry that settles the wager; without authorization
\* the whole settlement reverts.
RecordClose(w) ==
  LET u == UserOf[w]
      m == member[u]
  IN /\ w \in open
     /\ RegistryOf[w] \in authorized
     /\ member' = [member EXCEPT ![u] =
                     [tier |-> m.tier, expiresAt |-> m.expiresAt, monthCount |-> m.monthCount,
                      monthAnchor |-> m.monthAnchor,
                      activeCount |-> IF m.activeCount > 0 THEN m.activeCount - 1 ELSE 0]]
     /\ open' = open \ {w}
     /\ UNCHANGED <<now, feeVars, adminVars, voucherVars>>

-----------------------------------------------------------------------------
\* The admin and the guard.

SetTier(t, c) ==
  /\ config' = [config EXCEPT ![t] = c]
  /\ UNCHANGED <<now, member, feeVars, authorized, blocked, wired, voucherVars, open>>

SetPaymentToken(token) ==
  /\ paymentToken' = token
  /\ UNCHANGED <<now, member, accruedFees, held, adminVars, voucherVars, open>>

SetAuthorizedCaller(r, allowed) ==
  /\ authorized' = IF allowed THEN authorized \cup {r} ELSE authorized \ {r}
  /\ UNCHANGED <<now, member, feeVars, config, blocked, wired, voucherVars, open>>

\* setSanctionsGuard, or a new answer of the guard.
SetBlocked(S) ==
  /\ blocked' = S
  /\ UNCHANGED <<now, member, feeVars, config, authorized, wired, voucherVars, open>>

\* setVoucher to this voucher or to another one.
SetVoucher(this) ==
  /\ wired' = this
  /\ UNCHANGED <<now, member, feeVars, config, authorized, blocked, voucherVars, open>>

Tick ==
  /\ now < MaxTime
  /\ now' = now + 1
  /\ UNCHANGED <<member, feeVars, adminVars, voucherVars, open>>

-----------------------------------------------------------------------------
UserStep(u) ==
  \/ \E t \in Tiers : PurchaseTier(u, t) \/ UpgradeTier(u, t)
  \/ ExtendMembership(u)
  \/ \E v \in Ids : RedeemVoucher(u, v)

HolderStep(h) ==
  \/ \E t \in Tiers, n \in 1..2 : Mint(h, t, n)
  \/ \E v \in Ids : Transfer(v, h)

ManagerStep(u) ==
  \/ \E t \in Tiers, days \in GrantDays : GrantMembership(u, t, days)
  \/ RevokeMembership(u)

AdminStep ==
  \/ \E t \in Tiers : \E c \in Configs[t] : SetTier(t, c)
  \/ \E token \in Tokens : SetPaymentToken(token)
  \/ \E r \in Registries, allowed \in BOOLEAN : SetAuthorizedCaller(r, allowed)
  \/ \E S \in SUBSET Users : SetBlocked(S)
  \/ \E this \in BOOLEAN : SetVoucher(this)
  \/ \E amount \in 1..MaxFees : WithdrawFees(amount)

Next ==
  \/ \E u \in Users : UserStep(u) \/ ManagerStep(u)
  \/ \E h \in Holders : HolderStep(h)
  \/ \E v \in Ids : Burn(v)
  \/ \E w \in Slots : RecordCreate(w) \/ RecordClose(w)
  \/ AdminStep
  \/ Tick

Spec == Init /\ [][Next]_vars

-----------------------------------------------------------------------------
\* The types.
TypeOK ==
  /\ now \in Nat
  /\ config \in [Tiers -> ConfigRecords]
  /\ member \in [Users -> Members]
  /\ paymentToken \in Tokens /\ accruedFees \in Nat /\ held \in [Tokens -> Nat]
  /\ authorized \subseteq Registries /\ blocked \subseteq Users /\ wired \in BOOLEAN
  /\ nextId \in Nat /\ voucher \in [Ids -> VoucherInfos \cup {None}]
  /\ open \subseteq Slots

\* activeCount is the number of the user's wagers that registries opened here
\* and did not close: no purchase, grant, redemption or revocation forgets one,
\* and recordClose never meets its floor at zero.  (A registry that is given
\* another manager closes there what it opened here.)
ActiveCountExact ==
  \A u \in Users : member[u].activeCount = Cardinality({w \in open : UserOf[w] = u})

\* The fees counted are the money the manager holds, over all the tokens it
\* was ever paid in.
FeesHeld == accruedFees = SumFunction(held)

\* What checkCanCreate allows, recordCreate allows, and nothing else: the two
\* compute the month each on its own.
GateMatchesHook == \A u \in Users : CheckCanCreate(u) <=> MayRecord(u)

\* Only the role manager takes from a running membership: for anybody else its
\* tier and its end stay, or one of the two gets better.
StandingKept ==
  [][\A u \in Users :
       (Active(u) /\ ~ManagerStep(u)) =>
         \/ member'[u].tier = member[u].tier /\ member'[u].expiresAt >= member[u].expiresAt
         \/ /\ member'[u].expiresAt = member[u].expiresAt
            /\ member'[u].tier # None
            /\ config[member'[u].tier].price > ConfigOf(u).price]_vars

\* A voucher is given up for the membership it promised when it was minted, by
\* its owner of that moment, or burned by the owner; a redemption that fails
\* leaves it alone.
VoucherNotWasted ==
  [][\A v \in Ids : (Live(v) /\ ~Live(v)') =>
       \/ Burn(v)
       \/ \E u \in Users : /\ u = voucher[v].owner
                           /\ member'[u] = Started(u, voucher[v].tier, voucher[v].days)]_vars

\* A user the guard refuses gains no standing, not even from the role manager.
BlockedGainsNothing ==
  [][\A u \in blocked :
       /\ member'[u].tier \in {member[u].tier, None}
       /\ member'[u].expiresAt <= member[u].expiresAt]_vars

=============================================================================
