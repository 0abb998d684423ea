--------------------------- MODULE WagerRegistry ---------------------------
(***************************************************************************)
(* contracts/wagers/WagerRegistry.sol, its shared body WagerRegistryCore   *)
(* and the cold paths served by WagerRegistryIntents: the escrow of every  *)
(* one-to-one wager.  The components it calls are seen through what it     *)
(* uses of them: the active-wager slots of MembershipManager, the verdict  *)
(* of SanctionsGuard, the answers of the oracle adapters, ERC-20 balances. *)
(*                                                                         *)
(* A signature of the claim-code key over (wagerId, taker) is a pair the   *)
(* holder of the code hands to a taker; terms hashes, metadata and the     *)
(* append-only per-user index carry no control and are left out.           *)
(***************************************************************************)
EXTENDS Naturals, FiniteSets, Functions

CONSTANTS
  Users,             \* addresses that create, take, arbitrate or settle
  Neutral,           \* a third-party address nobody has moderated
  NoAddress,         \* address(0)
  Tokens,            \* ERC-20 stake tokens
  Authorities,       \* code-derived claim keys
  Managers,          \* membership managers the admin may wire
  MaxConcurrent,     \* maxConcurrentMarkets of the tiers (0: unlimited)
  Adapters,          \* oracle adapters the admin may wire
  NoAdapter,         \* a type without adapter
  Rewritable,        \* adapters that may fetch an answer again (Polymarket's)
  Conditions,        \* oracle condition ids
  NoCondition,       \* bytes32(0)
  Args,              \* createWager argument records the callers submit
  OpenArgs,          \* createOpenWager argument records the callers submit
  MaxAcceptWindow,   \* MAX_ACCEPT_WINDOW
  MaxResolveWindow,  \* MAX_RESOLVE_WINDOW
  MaxWagers,         \* bound: wagers created in a behaviour
  AdminOps,          \* bound: the operator calls a run exercises
  Moderated,         \* bound: the users whose standing the operators change
  Horizon            \* bound: the last block timestamp explored

Participant == {"Either", "Creator", "Opponent"}
ExtensibleOracles == {"ChainlinkDataFeed", "ChainlinkFunctions", "UMA"}
OracleTypes == ExtensibleOracles \cup {"Polymarket"}
ResolutionTypes == Participant \cup {"ThirdParty"} \cup OracleTypes

Statuses == {"None", "Open", "Active", "Resolved", "Cancelled", "Refunded", "Draw"}

\* What an adapter says of a condition; a tie exists on Polymarket only.
Answers == {"unresolved", "yes", "no", "tie"}

\* The tiers the registry tells apart: none, below Silver, Silver and above.
Tiers == {"None", "Bronze", "Silver"}

Ids == 1..MaxWagers
Addresses == Users \cup {NoAddress}

CreateArgs ==
  [opponent : Addresses, arbitrator : Addresses, token : Tokens,
   creatorStake : Nat, opponentStake : Nat, acceptDeadline : Nat,
   resolveDeadline : Nat, resolutionType : ResolutionTypes,
   conditionId : Conditions \cup {NoCondition}, creatorIsYes : BOOLEAN]

ASSUME RegistryAssumption ==
  /\ NoAddress \notin Users \cup {Neutral} /\ Neutral \notin Users
  /\ NoCondition \notin Conditions /\ NoAdapter \notin Adapters
  /\ Rewritable \subseteq Adapters
  /\ Args \subseteq CreateArgs /\ OpenArgs \subseteq CreateArgs
  /\ NoAddress \notin Authorities /\ NoAddress \notin Tokens
  /\ IsFiniteSet(Users) /\ Moderated \subseteq Users /\ IsFiniteSet(Managers)
  /\ MaxConcurrent \in Nat /\ MaxWagers \in Nat /\ Horizon \in Nat
  /\ MaxAcceptWindow \in Nat /\ MaxResolveWindow \in Nat

VARIABLES
  now,                 \* block.timestamp
  nextWagerId,         \* _nextWagerId
  wagers,              \* _wagers
  drawConsent,         \* _drawConsent: the roles that agreed to a draw
  claimAuthority,      \* claimAuthority
  openWagerIdByClaim,  \* openWagerIdByClaim (0: none)
  paused, frozen, allowedTokens,
  adapters,            \* oracleAdapters and polymarketAdapter
  answers,             \* what each adapter answers for each condition
  guardSet,            \* sanctionsGuard is wired
  blocked,             \* addresses SanctionsGuard.checkBlocked reverts for
  membershipManager,   \* the wired manager
  authorized,          \* managers that list the registry as authorized caller
  tier,                \* tier[m][u]: u's active tier at manager m
  activeCount,         \* activeCount[m][u]: u's open slots at manager m
  balance,             \* balanceOf(registry), by token
  paidIn, paidOut      \* history: what each user put into and got out of each wager

wagerVars  == <<nextWagerId, wagers, drawConsent, claimAuthority, openWagerIdByClaim>>
configVars == <<paused, frozen, allowedTokens, adapters, guardSet, membershipManager>>
worldVars  == <<now, answers, blocked, authorized, tier>>
moneyVars  == <<balance, paidIn, paidOut>>
vars == <<wagerVars, configVars, worldVars, activeCount, moneyVars>>

NoWager ==
  [creator |-> NoAddress, opponent |-> NoAddress, arbitrator |-> NoAddress,
   token |-> NoAddress, creatorStake |-> 0, opponentStake |-> 0,
   acceptDeadline |-> 0, resolveDeadline |-> 0, resolutionType |-> "Either",
   conditionId |-> NoCondition, creatorIsYes |-> FALSE, status |-> "None",
   paid |-> FALSE, winner |-> NoAddress]

-----------------------------------------------------------------------------
\* initialize, followed by the wiring a deployment does before opening.
Init ==
  /\ now = 0
  /\ nextWagerId = 1
  /\ wagers = [i \in Ids |-> NoWager]
  /\ drawConsent = [i \in Ids |-> {}]
  /\ claimAuthority = [i \in Ids |-> NoAddress]
  /\ openWagerIdByClaim = [a \in Authorities |-> 0]
  /\ paused = FALSE /\ frozen = {} /\ allowedTokens = Tokens
  /\ \E wired \in Adapters : adapters = [rt \in OracleTypes |-> wired]
  /\ answers = [ad \in Adapters |-> [c \in Conditions |-> "unresolved"]]
  /\ guardSet = TRUE /\ blocked = {}
  /\ membershipManager \in Managers /\ authorized = Managers
  /\ tier \in [Managers -> {[u \in Users |-> "Silver"]}]
  /\ activeCount = [m \in Managers |-> [u \in Users |-> 0]]
  /\ balance = [t \in Tokens |-> 0]
  /\ paidIn = [i \in Ids |-> [u \in Users |-> 0]]
  /\ paidOut = [i \in Ids |-> [u \in Users |-> 0]]

-----------------------------------------------------------------------------
(* The gates.                                                               *)

\* notFrozen
NotFrozen(user) == user \notin frozen

\* _screen: skipped without a guard, otherwise the guard must clear the account.
Screen(account) == guardSet => account \notin blocked

\* MembershipManager.checkCanCreate, and the same conditions in recordCreate.
\* Tier None also stands for a membership that expired or used up its month:
\* the registry cannot tell them apart.
CheckCanCreate(user) ==
  /\ tier[membershipManager][user] # "None"
  /\ MaxConcurrent > 0 => activeCount[membershipManager][user] < MaxConcurrent

\* onlyAuthorized of recordCreate and recordClose: otherwise the call reverts,
\* and the registry's transaction with it.
CallerAuthorized == membershipManager \in authorized

\* _checkDeadlines
CheckDeadlines(acceptDeadline, resolveDeadline) ==
  /\ acceptDeadline > now
  /\ resolveDeadline > acceptDeadline
  /\ acceptDeadline <= now + MaxAcceptWindow
  /\ resolveDeadline <= now + MaxResolveWindow

\* _checkOracleLinkage: an oracle type needs a condition, an adapter, and an
\* adapter that does not already know the answer.
CheckOracleLinkage(rt, conditionId) ==
  IF rt \in OracleTypes
  THEN /\ conditionId # NoCondition
       /\ adapters[rt] # NoAdapter
       /\ answers[adapters[rt]][conditionId] = "unresolved"
  ELSE conditionId = NoCondition

\* A third-party wager has an arbitrator other than the parties, no other has one.
CheckArbitrator(a, parties) ==
  IF a.resolutionType = "ThirdParty"
  THEN a.arbitrator # NoAddress /\ a.arbitrator \notin parties
  ELSE a.arbitrator = NoAddress

\* _runAcceptGuard
RunAcceptGuard(taker, creator) ==
  /\ Screen(taker) /\ Screen(creator)
  /\ CheckCanCreate(taker)

-----------------------------------------------------------------------------
(* Effects shared by the operations.                                        *)

\* safeTransferFrom of a stake into escrow, booked to wager i.
PullStake(i, token, from, amount) ==
  /\ balance' = [balance EXCEPT ![token] = @ + amount]
  /\ paidIn' = [paidIn EXCEPT ![i][from] = @ + amount]
  /\ UNCHANGED paidOut

\* safeTransfer of amounts[u] to each user u, total in all, out of the escrow of
\* wager i; the token reverts on an overdraft.
PayOut(i, token, amounts, total) ==
  /\ total <= balance[token]
  /\ balance' = [balance EXCEPT ![token] = @ - total]
  /\ paidOut' = [paidOut EXCEPT ![i] = [u \in Users |-> @[u] + amounts[u]]]
  /\ UNCHANGED paidIn

Pot(w) == w.creatorStake + w.opponentStake

\* The stakes of wager w going back to those who paid them.
CreatorStakeBack(w) == [u \in Users |-> IF u = w.creator THEN w.creatorStake ELSE 0]
BothStakesBack(w) ==
  [u \in Users |-> CASE u = w.creator  -> w.creatorStake
                     [] u = w.opponent -> w.opponentStake
                     [] OTHER -> 0]

WinnerTakesAll(w) == [u \in Users |-> IF u = w.winner THEN Pot(w) ELSE 0]

\* recordCreate: one more slot for the user.
RecordCreate(user) ==
  /\ CallerAuthorized
  /\ activeCount' = [activeCount EXCEPT ![membershipManager][user] = @ + 1]

\* recordClose for each of the users: one slot less, floored at zero.
RecordClose(users) ==
  /\ CallerAuthorized
  /\ activeCount' = [activeCount EXCEPT ![membershipManager] =
       [u \in Users |-> IF u \in users /\ @[u] > 0 THEN @[u] - 1 ELSE @[u]]]

\* _clearClaim: both directions of the claim index, nothing for other wagers.
ClearClaim(i) ==
  LET a == claimAuthority[i]
  IN  IF a # NoAddress
      THEN /\ openWagerIdByClaim' = [openWagerIdByClaim EXCEPT ![a] = 0]
           /\ claimAuthority' = [claimAuthority EXCEPT ![i] = NoAddress]
      ELSE UNCHANGED <<openWagerIdByClaim, claimAuthority>>

SetWager(i, w) == wagers' = [wagers EXCEPT ![i] = w]

NewWager(creator, opponent, a) ==
  [creator |-> creator, opponent |-> opponent, arbitrator |-> a.arbitrator,
   token |-> a.token, creatorStake |-> a.creatorStake,
   opponentStake |-> a.opponentStake, acceptDeadline |-> a.acceptDeadline,
   resolveDeadline |-> a.resolveDeadline, resolutionType |-> a.resolutionType,
   conditionId |-> a.conditionId, creatorIsYes |-> a.creatorIsYes,
   status |-> "Open", paid |-> FALSE, winner |-> NoAddress]

\* The effects common to both create paths: allocate the id, store the wager,
\* pull the creator's stake, take a membership slot.
StoreWager(creator, opponent, a) ==
  LET i == nextWagerId
  IN  /\ nextWagerId <= MaxWagers
      /\ nextWagerId' = nextWagerId + 1
      /\ SetWager(i, NewWager(creator, opponent, a))
      /\ PullStake(i, a.token, creator, a.creatorStake)
      /\ RecordCreate(creator)
      /\ UNCHANGED <<configVars, worldVars, drawConsent>>

-----------------------------------------------------------------------------
(* Creation and acceptance.                                                 *)

\* _createWager
CreateWagerBy(creator, a) ==
  /\ Screen(creator)
  /\ a.opponent # NoAddress /\ a.opponent # creator
  /\ a.token \in allowedTokens
  /\ a.creatorStake > 0 /\ a.opponentStake > 0
  /\ CheckDeadlines(a.acceptDeadline, a.resolveDeadline)
  /\ a.resolutionType = "Either" => a.creatorStake = a.opponentStake
  /\ CheckArbitrator(a, {creator, a.opponent})
  /\ CheckOracleLinkage(a.resolutionType, a.conditionId)
  /\ CheckCanCreate(creator)
  /\ StoreWager(creator, a.opponent, a)
  /\ UNCHANGED <<claimAuthority, openWagerIdByClaim>>

\* createOpenWager: one stake, no opponent yet, a claim code nobody is using,
\* no single-party resolution, and a Silver membership.
CreateOpenWagerBy(creator, authority, a) ==
  /\ Screen(creator)
  /\ openWagerIdByClaim[authority] = 0
  /\ a.token \in allowedTokens
  /\ a.creatorStake > 0
  /\ CheckDeadlines(a.acceptDeadline, a.resolveDeadline)
  /\ a.resolutionType \notin {"Creator", "Opponent"}
  /\ CheckArbitrator(a, {creator})
  /\ CheckOracleLinkage(a.resolutionType, a.conditionId)
  /\ CheckCanCreate(creator)
  /\ tier[membershipManager][creator] = "Silver"
  /\ StoreWager(creator, NoAddress, [a EXCEPT !.opponentStake = a.creatorStake])
  /\ claimAuthority' = [claimAuthority EXCEPT ![nextWagerId] = authority]
  /\ openWagerIdByClaim' = [openWagerIdByClaim EXCEPT ![authority] = nextWagerId]

\* _settleAccept: escrow the taker's stake and take a slot.
SettleAccept(taker, i) ==
  /\ PullStake(i, wagers[i].token, taker, wagers[i].opponentStake)
  /\ RecordCreate(taker)
  /\ UNCHANGED <<configVars, worldVars, nextWagerId, drawConsent>>

\* _acceptWager
AcceptWagerBy(taker, i) ==
  LET w == wagers[i]
  IN  /\ w.status = "Open"
      /\ taker = w.opponent
      /\ now <= w.acceptDeadline
      /\ RunAcceptGuard(taker, w.creator)
      /\ SetWager(i, [w EXCEPT !.status = "Active"])
      /\ SettleAccept(taker, i)
      /\ UNCHANGED <<claimAuthority, openWagerIdByClaim>>

\* Mutant: the arbitrator is free to take the challenge.
AcceptOpenWagerBy_ArbitratorTakes(taker, i, proof) ==
  LET w == wagers[i]
  IN  /\ w.status = "Open" /\ claimAuthority[i] # NoAddress
      /\ now <= w.acceptDeadline
      /\ proof = <<claimAuthority[i], i, taker>>
      /\ taker # w.creator
      /\ RunAcceptGuard(taker, w.creator)
      /\ SetWager(i, [w EXCEPT !.opponent = taker, !.status = "Active"])
      /\ ClearClaim(i)
      /\ SettleAccept(taker, i)

\* _acceptOpenWager: proof is the (wagerId, taker) pair the claim key signed.
AcceptOpenWagerBy(taker, i, proof) ==
  LET w == wagers[i]
  IN  /\ w.status = "Open" /\ claimAuthority[i] # NoAddress
      /\ now <= w.acceptDeadline
      /\ proof = <<claimAuthority[i], i, taker>>
      /\ taker # w.creator
      /\ w.resolutionType = "ThirdParty" => taker # w.arbitrator
      /\ RunAcceptGuard(taker, w.creator)
      /\ SetWager(i, [w EXCEPT !.opponent = taker, !.status = "Active"])
      /\ ClearClaim(i)
      /\ SettleAccept(taker, i)

-----------------------------------------------------------------------------
(* Leaving Open.                                                            *)

\* Mutant: the record survives.
ReleaseOpen_KeepsWager(i) ==
  LET w == wagers[i]
  IN  /\ RecordClose({w.creator})
      /\ PayOut(i, w.token, CreatorStakeBack(w), w.creatorStake)
      /\ UNCHANGED <<configVars, worldVars, nextWagerId, wagers, drawConsent>>

\* delete _wagers[i], the creator's slot and stake back.
ReleaseOpen(i) ==
  LET w == wagers[i]
  IN  /\ RecordClose({w.creator})
      /\ SetWager(i, NoWager)
      /\ PayOut(i, w.token, CreatorStakeBack(w), w.creatorStake)
      /\ UNCHANGED <<configVars, worldVars, nextWagerId, drawConsent>>

\* _cancelOpen
CancelOpenBy(actor, i) ==
  /\ wagers[i].status = "Open"
  /\ actor = wagers[i].creator
  /\ ClearClaim(i)
  /\ ReleaseOpen(i)

\* _declineWager: a named opponent only, an open challenge has none.
DeclineWagerBy(actor, i) ==
  /\ wagers[i].status = "Open"
  /\ claimAuthority[i] = NoAddress
  /\ actor = wagers[i].opponent
  /\ ReleaseOpen(i)
  /\ UNCHANGED <<claimAuthority, openWagerIdByClaim>>

-----------------------------------------------------------------------------
(* Settling an active wager.                                                *)

\* Mutant: the opponent's slot is forgotten.
CloseActive_CreatorOnly(i, w) ==
  /\ SetWager(i, w)
  /\ RecordClose({w.creator})
  /\ UNCHANGED <<configVars, worldVars, nextWagerId, claimAuthority,
                 openWagerIdByClaim>>

\* The parties' slots are released by every settlement of an active wager.
CloseActive(i, w) ==
  /\ SetWager(i, w)
  /\ RecordClose({w.creator, w.opponent})
  /\ UNCHANGED <<configVars, worldVars, nextWagerId, claimAuthority,
                 openWagerIdByClaim>>

\* Who may name the winner, by resolution type.
MayDeclare(w, actor) ==
  CASE w.resolutionType = "Either"     -> actor \in {w.creator, w.opponent}
    [] w.resolutionType = "Creator"    -> actor = w.creator
    [] w.resolutionType = "Opponent"   -> actor = w.opponent
    [] w.resolutionType = "ThirdParty" -> actor = w.arbitrator
    [] OTHER -> FALSE

\* The wager is decided; the winner collects later.
ResolveTo(i, winner) ==
  /\ CloseActive(i, [wagers[i] EXCEPT !.status = "Resolved", !.winner = winner])
  /\ UNCHANGED <<drawConsent, moneyVars>>

\* _declareWinner
DeclareWinnerBy(actor, i, winner) ==
  LET w == wagers[i]
  IN  /\ w.status = "Active"
      /\ now <= w.resolveDeadline
      /\ winner \in {w.creator, w.opponent}
      /\ MayDeclare(w, actor)
      /\ ResolveTo(i, winner)

\* _settleDraw: consent is cleared and both stakes go back.
SettleDraw(i) ==
  /\ CloseActive(i, [wagers[i] EXCEPT !.status = "Draw"])
  /\ drawConsent' = [drawConsent EXCEPT ![i] = {}]
  /\ PayOut(i, wagers[i].token, BothStakesBack(wagers[i]), Pot(wagers[i]))

Role(w, actor) == IF actor = w.creator THEN "creator" ELSE "opponent"

\* _declareDraw: the arbitrator alone, or the second of two consenting parties.
DeclareDrawBy(actor, i) ==
  LET w == wagers[i]
      consent == drawConsent[i] \cup {Role(w, actor)}
  IN  /\ w.status = "Active"
      /\ now <= w.resolveDeadline
      /\ w.resolutionType \notin OracleTypes
      /\ \/ w.resolutionType = "ThirdParty" /\ actor = w.arbitrator /\ SettleDraw(i)
         \/ /\ w.resolutionType # "ThirdParty" /\ actor \in {w.creator, w.opponent}
            /\ IF consent = {"creator", "opponent"}
               THEN SettleDraw(i)
               ELSE /\ drawConsent' = [drawConsent EXCEPT ![i] = consent]
                    /\ UNCHANGED <<configVars, worldVars, nextWagerId, wagers, claimAuthority,
                                   openWagerIdByClaim, activeCount, moneyVars>>

\* _revokeDraw: no deadline, only a consent that was given.
RevokeDrawBy(actor, i) ==
  LET w == wagers[i]
  IN  /\ w.status = "Active"
      /\ actor \in {w.creator, w.opponent}
      /\ Role(w, actor) \in drawConsent[i]
      /\ drawConsent' = [drawConsent EXCEPT ![i] = @ \ {Role(w, actor)}]
      /\ UNCHANGED <<configVars, worldVars, nextWagerId, wagers, claimAuthority,
                     openWagerIdByClaim, activeCount, moneyVars>>

\* _settleOracleWin: creatorIsYes maps the answer to a side.
SettleOracleWin(i, outcome) ==
  LET w == wagers[i]
  IN  ResolveTo(i, IF outcome = w.creatorIsYes THEN w.creator ELSE w.opponent)

\* autoResolveFromPolymarket: anybody; no deadline, pause or freeze gate; a
\* resolved tie is a draw.
AutoResolveFromPolymarket(i) ==
  LET w == wagers[i]
      answer == answers[adapters["Polymarket"]][w.conditionId]
  IN  /\ w.status = "Active"
      /\ w.resolutionType = "Polymarket"
      /\ adapters["Polymarket"] # NoAdapter
      /\ \/ answer = "tie" /\ SettleDraw(i)
         \/ answer \in {"yes", "no"} /\ SettleOracleWin(i, answer = "yes")

\* autoResolveFromOracle
AutoResolveFromOracle(i) ==
  LET w == wagers[i]
      answer == answers[adapters[w.resolutionType]][w.conditionId]
  IN  /\ w.status = "Active"
      /\ w.resolutionType \in ExtensibleOracles
      /\ adapters[w.resolutionType] # NoAdapter
      /\ answer \in {"yes", "no"}
      /\ SettleOracleWin(i, answer = "yes")

\* Mutant: paid is not checked.
ClaimPayoutBy_Repeatable(actor, i) ==
  LET w == wagers[i]
  IN  /\ w.status = "Resolved"
      /\ actor = w.winner
      /\ SetWager(i, [w EXCEPT !.paid = TRUE])
      /\ PayOut(i, w.token, WinnerTakesAll(w), Pot(w))
      /\ UNCHANGED <<configVars, worldVars, nextWagerId, drawConsent, claimAuthority,
                     openWagerIdByClaim, activeCount>>

\* _claimPayout
ClaimPayoutBy(actor, i) ==
  LET w == wagers[i]
  IN  /\ w.status = "Resolved"
      /\ actor = w.winner
      /\ ~w.paid
      /\ SetWager(i, [w EXCEPT !.paid = TRUE])
      /\ PayOut(i, w.token, WinnerTakesAll(w), Pot(w))
      /\ UNCHANGED <<configVars, worldVars, nextWagerId, drawConsent, claimAuthority,
                     openWagerIdByClaim, activeCount>>

\* Mutant: the claim code stays taken.
ExpireOpen_KeepsClaim(i) ==
  LET w == wagers[i]
  IN  /\ w.status = "Open"
      /\ now > w.acceptDeadline
      /\ SetWager(i, [w EXCEPT !.status = "Refunded"])
      /\ RecordClose({w.creator})
      /\ PayOut(i, w.token, CreatorStakeBack(w), w.creatorStake)
      /\ UNCHANGED <<configVars, worldVars, nextWagerId, drawConsent,
                     claimAuthority, openWagerIdByClaim>>

\* The open half of _claimRefund, and each eligible id of _batchExpireOpen.
ExpireOpen(i) ==
  LET w == wagers[i]
  IN  /\ w.status = "Open"
      /\ now > w.acceptDeadline
      /\ SetWager(i, [w EXCEPT !.status = "Refunded"])
      /\ RecordClose({w.creator})
      /\ ClearClaim(i)
      /\ PayOut(i, w.token, CreatorStakeBack(w), w.creatorStake)
      /\ UNCHANGED <<configVars, worldVars, nextWagerId, drawConsent>>

\* Mutant: a verdict nobody collected yet is refunded too.
RefundActive_Resolved(i) ==
  LET w == wagers[i]
  IN  /\ w.status = "Active" \/ (w.status = "Resolved" /\ ~w.paid)
      /\ now > w.resolveDeadline
      /\ CloseActive(i, [w EXCEPT !.status = "Refunded"])
      /\ PayOut(i, w.token, BothStakesBack(w), Pot(w))
      /\ UNCHANGED drawConsent

\* Mutant: the refund opens one second early.
RefundActive_AtDeadline(i) ==
  LET w == wagers[i]
  IN  /\ w.status = "Active"
      /\ now >= w.resolveDeadline
      /\ CloseActive(i, [w EXCEPT !.status = "Refunded"])
      /\ PayOut(i, w.token, BothStakesBack(w), Pot(w))
      /\ UNCHANGED drawConsent

\* The active half of _claimRefund.
RefundActive(i) ==
  LET w == wagers[i]
  IN  /\ w.status = "Active"
      /\ now > w.resolveDeadline
      /\ CloseActive(i, [w EXCEPT !.status = "Refunded"])
      /\ PayOut(i, w.token, BothStakesBack(w), Pot(w))
      /\ UNCHANGED drawConsent

\* _claimRefund
ClaimRefundBy(i) == ExpireOpen(i) \/ RefundActive(i)

-----------------------------------------------------------------------------
(* The external functions: pause stops creating and accepting only, freeze   *)
(* stops the frozen account, every other exit stays open to anybody.         *)

CreateWager(u, a) == ~paused /\ NotFrozen(u) /\ CreateWagerBy(u, a)
CreateOpenWager(u, authority, a) ==
  ~paused /\ NotFrozen(u) /\ CreateOpenWagerBy(u, authority, a)
AcceptWager(u, i) == ~paused /\ NotFrozen(u) /\ AcceptWagerBy(u, i)
AcceptOpenWager(u, i, proof) ==
  ~paused /\ NotFrozen(u) /\ AcceptOpenWagerBy(u, i, proof)
CancelOpen(u, i) == NotFrozen(u) /\ CancelOpenBy(u, i)
DeclineWager(u, i) == NotFrozen(u) /\ DeclineWagerBy(u, i)
DeclareWinner(u, i, winner) == NotFrozen(u) /\ DeclareWinnerBy(u, i, winner)
DeclareDraw(u, i) == NotFrozen(u) /\ DeclareDrawBy(u, i)
RevokeDraw(u, i) == NotFrozen(u) /\ RevokeDrawBy(u, i)

\* Mutants: pausing stops the exits too.
ClaimPayout_WhenNotPaused(u, i) == ~paused /\ NotFrozen(u) /\ ClaimPayoutBy(u, i)
ClaimRefund_WhenNotPaused(u, i) == ~paused /\ NotFrozen(u) /\ ClaimRefundBy(i)

ClaimPayout(u, i) == NotFrozen(u) /\ ClaimPayoutBy(u, i)
ClaimRefund(u, i) == NotFrozen(u) /\ ClaimRefundBy(i)

\* batchExpireOpen skips ineligible ids, so a batch is its eligible ids in turn.
BatchExpireOpen(i) == ~paused /\ ExpireOpen(i)

-----------------------------------------------------------------------------
(* The operators.                                                           *)

\* setMembershipManager
SetMembershipManager(m) ==
  /\ "manager" \in AdminOps
  /\ membershipManager' = m
  /\ UNCHANGED <<wagerVars, worldVars, activeCount, moneyVars,
                 paused, frozen, allowedTokens, adapters, guardSet>>

\* setPolymarketAdapter and setOracleAdapter: no wager in flight is looked at.
SetOracleAdapter(rt, ad) ==
  /\ "adapter" \in AdminOps
  /\ adapters' = [adapters EXCEPT ![rt] = ad]
  /\ UNCHANGED <<wagerVars, worldVars, activeCount, moneyVars,
                 paused, frozen, allowedTokens, guardSet, membershipManager>>

\* setSanctionsGuard
SetSanctionsGuard ==
  /\ "sanctions" \in AdminOps
  /\ guardSet' = ~guardSet
  /\ UNCHANGED <<wagerVars, worldVars, activeCount, moneyVars,
                 paused, frozen, allowedTokens, adapters, membershipManager>>

\* setTokenAllowed
SetTokenAllowed(t, allowed) ==
  /\ "token" \in AdminOps
  /\ allowedTokens' = IF allowed THEN allowedTokens \cup {t} ELSE allowedTokens \ {t}
  /\ UNCHANGED <<wagerVars, worldVars, activeCount, moneyVars,
                 paused, frozen, adapters, guardSet, membershipManager>>

\* pause and unpause: each reverts in the state it would set.
SetPaused ==
  /\ "pause" \in AdminOps
  /\ paused' = ~paused
  /\ UNCHANGED <<wagerVars, worldVars, activeCount, moneyVars,
                 frozen, allowedTokens, adapters, guardSet, membershipManager>>

\* freezeAccount and unfreezeAccount
SetFrozen(u, on) ==
  /\ "freeze" \in AdminOps
  /\ frozen' = IF on THEN frozen \cup {u} ELSE frozen \ {u}
  /\ UNCHANGED <<wagerVars, worldVars, activeCount, moneyVars,
                 paused, allowedTokens, adapters, guardSet, membershipManager>>

-----------------------------------------------------------------------------
(* The contracts around the registry, and time.                             *)

\* MembershipManager.setAuthorizedCaller
SetAuthorizedCaller(m, allowed) ==
  /\ "authorize" \in AdminOps
  /\ authorized' = IF allowed THEN authorized \cup {m} ELSE authorized \ {m}
  /\ UNCHANGED <<wagerVars, configVars, activeCount, moneyVars,
                 now, answers, blocked, tier>>

\* A membership is bought, upgraded, exhausted, revoked or expires.
MembershipChange(m, u, level) ==
  /\ "membership" \in AdminOps
  /\ tier' = [tier EXCEPT ![m][u] = level]
  /\ UNCHANGED <<wagerVars, configVars, activeCount, moneyVars,
                 now, answers, blocked, authorized>>

\* The deny list or the sanctions oracle changes its mind about an account.
SanctionsChange(u) ==
  /\ "sanctions" \in AdminOps
  /\ blocked' = IF u \in blocked THEN blocked \ {u} ELSE blocked \cup {u}
  /\ UNCHANGED <<wagerVars, configVars, activeCount, moneyVars,
                 now, answers, authorized, tier>>

\* An adapter learns the answer for a condition and keeps it; but anybody may
\* have Polymarket's fetch it again, from any of the supported CTF contracts.
OracleReport(ad, c, answer) ==
  /\ answers[ad][c] = "unresolved" \/ (ad \in Rewritable /\ answers[ad][c] # answer)
  /\ answers' = [answers EXCEPT ![ad][c] = answer]
  /\ UNCHANGED <<wagerVars, configVars, activeCount, moneyVars,
                 now, blocked, authorized, tier>>

Tick ==
  /\ now < Horizon
  /\ now' = now + 1
  /\ UNCHANGED <<wagerVars, configVars, activeCount, moneyVars,
                 answers, blocked, authorized, tier>>

-----------------------------------------------------------------------------
UserCall ==
  \E u \in Users :
    \/ \E a \in Args : CreateWager(u, a)
    \/ \E authority \in Authorities, a \in OpenArgs : CreateOpenWager(u, authority, a)
    \/ \E i \in Ids :
         \/ AcceptWager(u, i) \/ CancelOpen(u, i) \/ DeclineWager(u, i)
         \/ DeclareDraw(u, i) \/ RevokeDraw(u, i) \/ ClaimPayout(u, i)
         \/ \E winner \in Users : DeclareWinner(u, i, winner)
         \/ \E authority \in Authorities, j \in Ids, taker \in Users :
              AcceptOpenWager(u, i, <<authority, j, taker>>)

AnybodyCall ==
  \E i \in Ids :
    \/ AutoResolveFromPolymarket(i) \/ AutoResolveFromOracle(i) \/ BatchExpireOpen(i)
    \/ \E u \in Users \cup {Neutral} : ClaimRefund(u, i)

\* Bound: only adapters that some wager of the run may consult are rewired.
UsedOracleTypes == {a.resolutionType : a \in Args \cup OpenArgs} \cap OracleTypes

OperatorCall ==
  \/ SetSanctionsGuard \/ SetPaused
  \/ \E m \in Managers : SetMembershipManager(m)
  \/ \E rt \in UsedOracleTypes, ad \in Adapters \cup {NoAdapter} : SetOracleAdapter(rt, ad)
  \/ \E t \in Tokens, allowed \in BOOLEAN : SetTokenAllowed(t, allowed)
  \/ \E u \in Moderated, on \in BOOLEAN : SetFrozen(u, on)

Environment ==
  \/ Tick
  \/ \E m \in Managers, allowed \in BOOLEAN : SetAuthorizedCaller(m, allowed)
  \/ \E m \in Managers, u \in Moderated, level \in Tiers : MembershipChange(m, u, level)
  \/ \E u \in Moderated : SanctionsChange(u)
  \/ \E ad \in Adapters, c \in Conditions, answer \in {"yes", "no", "tie"} :
       OracleReport(ad, c, answer)

Next == UserCall \/ AnybodyCall \/ OperatorCall \/ Environment

Spec == Init /\ [][Next]_vars

\* Blocks keep coming, some third party refunds what has expired (anybody may),
\* and a winner collects.
Fairness ==
  /\ WF_vars(Tick)
  /\ \A i \in Ids : WF_vars(ClaimRefund(Neutral, i))
  /\ \A u \in Users, i \in Ids : WF_vars(ClaimPayout(u, i))

FairSpec == Spec /\ Fairness

-----------------------------------------------------------------------------
(* Properties.                                                              *)

Wager ==
  [creator : Addresses, opponent : Addresses, arbitrator : Addresses,
   token : Tokens \cup {NoAddress}, creatorStake : Nat, opponentStake : Nat,
   acceptDeadline : Nat, resolveDeadline : Nat, resolutionType : ResolutionTypes,
   conditionId : Conditions \cup {NoCondition}, creatorIsYes : BOOLEAN,
   status : Statuses, paid : BOOLEAN, winner : Addresses]

\* Type correctness of the registry's storage and of what it sees of its
\* neighbours; the slot counters never go below zero (uint32).
TypeOK ==
  /\ now \in Nat /\ nextWagerId \in Nat
  /\ wagers \in [Ids -> Wager]
  /\ drawConsent \in [Ids -> SUBSET {"creator", "opponent"}]
  /\ claimAuthority \in [Ids -> Authorities \cup {NoAddress}]
  /\ openWagerIdByClaim \in [Authorities -> Nat]
  /\ paused \in BOOLEAN /\ guardSet \in BOOLEAN
  /\ frozen \subseteq Users /\ blocked \subseteq Users /\ allowedTokens \subseteq Tokens
  /\ adapters \in [OracleTypes -> Adapters \cup {NoAdapter}]
  /\ answers \in [Adapters -> [Conditions -> Answers]]
  /\ membershipManager \in Managers /\ authorized \subseteq Managers
  /\ tier \in [Managers -> [Users -> Tiers]]
  /\ activeCount \in [Managers -> [Users -> Nat]]
  /\ balance \in [Tokens -> Nat]
  /\ paidIn \in [Ids -> [Users -> Nat]] /\ paidOut \in [Ids -> [Users -> Nat]]

Live(i) == wagers[i].status \in {"Open", "Active"}
Parties(i) ==
  IF wagers[i].status = "Open" THEN {wagers[i].creator}
                               ELSE {wagers[i].creator, wagers[i].opponent}

Owed(w) ==
  CASE w.status = "Open" -> w.creatorStake
    [] w.status = "Active" -> Pot(w)
    [] w.status = "Resolved" /\ ~w.paid -> Pot(w)
    [] OTHER -> 0

\* The registry holds of each token exactly what it owes on the wagers staked
\* in it: no sequence of settlements of some wagers eats into or strands the
\* escrow of another (claimPayout, claimRefund, cancelOpen, _settleDraw).
EscrowExact ==
  \A t \in Tokens :
    balance[t] = SumFunction([i \in Ids |-> IF wagers[i].token = t THEN Owed(wagers[i]) ELSE 0])

\* Every wager is settled once and fairly: while it lives, its parties have put
\* in their stakes and got nothing out; a cancelled, declined, refunded or
\* drawn one gave each user exactly what he put in; a resolved one gives the
\* whole pot to the winner, a party to it, and nobody else (claimPayout, claimRefund, _settleDraw).
SettledFairly ==
  \A i \in Ids :
    LET w == wagers[i]
        contributed == [u \in Users |-> CASE u = w.creator -> w.creatorStake
                                          [] u = w.opponent /\ w.status # "Open" -> w.opponentStake
                                          [] OTHER -> 0]
        nothing == [u \in Users |-> 0]
        prize == [u \in Users |-> IF u = w.winner THEN w.creatorStake + w.opponentStake ELSE 0]
    IN  /\ w.status \in {"None", "Refunded", "Draw"} => paidOut[i] = paidIn[i]
        /\ w.status \in {"Open", "Active", "Resolved"} => paidIn[i] = contributed
        /\ w.status \in {"Open", "Active"} => paidOut[i] = nothing
        /\ w.status = "Resolved" =>
             /\ w.winner \in {w.creator, w.opponent}
             /\ paidOut[i] = IF w.paid THEN prize ELSE nothing

\* A member's slots count exactly the live wagers he is a party to: every path
\* out of Open and Active releases each party's slot once (recordClose), so
\* that the concurrency limit neither leaks nor is bypassed.
SlotsExact ==
  \A u \in Users :
    activeCount[membershipManager][u] = Cardinality({i \in Ids : Live(i) /\ u \in Parties(i)})

\* The two directions of the claim index agree, and only open challenges that
\* still wait for a taker are in it: a code is free for reuse as soon as its
\* challenge is taken, cancelled or expired (_clearClaim).
ClaimIndexConsistent ==
  /\ \A i \in Ids : claimAuthority[i] # NoAddress =>
       /\ wagers[i].status = "Open" /\ wagers[i].opponent = NoAddress
       /\ openWagerIdByClaim[claimAuthority[i]] = i
  /\ \A a \in Authorities : openWagerIdByClaim[a] # 0 =>
       openWagerIdByClaim[a] \in Ids /\ claimAuthority[openWagerIdByClaim[a]] = a
  /\ \A i \in Ids : wagers[i].status = "Open" /\ wagers[i].opponent = NoAddress =>
       claimAuthority[i] # NoAddress

\* Nobody wagers against himself or arbitrates his own wager, whichever of
\* create, open challenge and accept put the parties together, and nothing is
\* settled between fewer than two parties.
ImpartialParties ==
  \A i \in Ids :
    LET w == wagers[i]
    IN  /\ w.status \in {"Active", "Resolved", "Draw"} => w.opponent # NoAddress
        /\ w.opponent # NoAddress =>
             /\ w.creator # w.opponent
             /\ w.arbitrator \notin {w.creator, w.opponent}

Terms(w) ==
  <<w.creator, w.arbitrator, w.token, w.creatorStake, w.opponentStake, w.acceptDeadline,
    w.resolveDeadline, w.resolutionType, w.conditionId, w.creatorIsYes>>

\* What one step may turn wager i from w into.
Evolves(i, w, v) ==
  \/ w = v
  \/ w = NoWager /\ i = nextWagerId
  \/ v = NoWager /\ w.status = "Open"
  \/ /\ Terms(v) = Terms(w)
     /\ v.opponent = w.opponent \/ (w.status = "Open" /\ w.opponent = NoAddress)
     /\ w.status \in {"Resolved", "Refunded", "Draw"} =>
          w.status = "Resolved" /\ ~w.paid /\ v = [w EXCEPT !.paid = TRUE]

\* The terms of a wager never change, its opponent is bound once, only an open
\* wager is ever deleted, and a verdict, a refund or a draw is final: a late
\* oracle answer does not undo a refund nor a late refund a verdict.
TermsAndVerdictFinal ==
  [][\A i \in Ids : Evolves(i, wagers[i], wagers'[i])]_vars

\* Wager i as an escrow.  Ids the counter has not reached are still to be
\* funded; a deleted wager is one whose stake went back.
Settlement(i) ==
  CASE wagers[i].status = "Resolved" -> "awarded"
    [] Live(i) \/ i >= nextWagerId -> "funding"
    [] OTHER -> "returning"

\* A claim is a party's stake, or the winner's pot.
Due(w) ==
  CASE w.status = "Open" -> [u \in {w.creator} |-> w.creatorStake]
    [] w.status = "Active" -> [u \in {w.creator, w.opponent} |->
                                 IF u = w.creator THEN w.creatorStake ELSE w.opponentStake]
    [] w.status = "Resolved" /\ ~w.paid -> [u \in {w.winner} |-> Pot(w)]
    [] OTHER -> [u \in {} |-> 0]

\* What came into wager i and has not left it.
Held(i) == SumFunction(paidIn[i]) - SumFunction(paidOut[i])

Promise(i) ==
  INSTANCE Escrow WITH phase <- Settlement(i), due <- Due(wagers[i]), held <- Held(i)

\* Every wager is an escrow of its own: settled once, by giving the stakes back
\* or by awarding the pot, whatever oracle answers, refunds, cancellations and
\* operators race for it; and an id that was released is never funded again.
\* (This is Promise(i)!Spec for every id, in the form TLC takes.)
ImplementsEscrow ==
  /\ \A i \in Ids : Promise(i)!Init
  /\ [][\A i \in Ids : [Promise(i)!Next]_(Promise(i)!vars)]_vars

\* The deadlines divide the time without a gap and without an overlap, to the
\* second.  With nobody frozen and the registry listed at its manager, a wager
\* in force that people decide can at every moment either be decided by them or
\* be refunded by a stranger, and never both; and nobody can accept a wager
\* that a stranger could refund.
DeadlinesDivide ==
  \A i \in Ids :
    LET refundable == ENABLED ClaimRefund(Neutral, i)
        acceptable ==
          \E u \in Users :
            \/ ENABLED AcceptWager(u, i)
            \/ \E a \in Authorities : ENABLED AcceptOpenWager(u, i, <<a, i, u>>)
        decidable == \E u, v \in Users : ENABLED DeclareWinner(u, i, v)
        calm == CallerAuthorized /\ frozen = {}
    IN  /\ (calm /\ wagers[i].status = "Active" /\ wagers[i].resolutionType \notin OracleTypes)
             => (decidable <=> ~refundable)
        /\ wagers[i].status = "Open" => ~(acceptable /\ refundable)

\* No stake stays in a live wager: pausing for ever, freezing both parties and
\* silent oracles included, every wager is eventually settled or refunded.
EveryWagerSettles == \A i \in Ids : Live(i) ~> ~Live(i)

\* A winner who is not frozen eventually has the pot, paused or not.
WinnerIsPaid ==
  \A i \in Ids :
    wagers[i].status = "Resolved" ~> (wagers[i].paid \/ wagers[i].winner \in frozen)

=============================================================================
