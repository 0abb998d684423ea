----------------------------- MODULE WagerPool -----------------------------
(***************************************************************************)
(* One clone of contracts/pools/WagerPool.sol: members pay a buy-in, the   *)
(* creator proposes a payout matrix, the members approve it, winners claim *)
(* their rows; a cancelled or unresolved pool refunds every member.        *)
(*                                                                         *)
(* Addresses are model values.  keccak256(entries) is injective, so a      *)
(* proposal id is the matrix itself.  Every actor-attributed call has a    *)
(* relayed twin: the same body behind VerifyIntent (module SignerIntent).  *)
(***************************************************************************)
EXTENDS Naturals, FiniteSets, Sequences, Functions, SignerIntent

CONSTANTS
  Wallets,          \* addresses that may join, win or receive
  ZeroAddress,      \* address(0)
  Creator,          \* creator, seeded by initialize
  BuyIn,            \* buyIn
  MaxMembers,       \* maxMembers
  ThresholdBips,    \* thresholdBips
  AcceptDeadline,   \* acceptDeadline
  ResolveDeadline,  \* resolveDeadline
  Matrices,         \* the payout matrices anybody submits
  NoProposal,       \* bytes32(0)
  Nonces,           \* nonces the wallets draw from
  Windows,          \* <<validAfter, validBefore>> pairs the wallets sign
  MaxSigned,        \* bound: intents signed in a behaviour
  Screened,         \* bound: wallets whose compliance status changes
  Horizon           \* bound: the last block timestamp explored

Addresses == Wallets \cup {ZeroAddress}

PayoutEntries == [winner : Addresses, amount : Nat]

\* What WagerPoolFactory._createPool and _checkDeadlines guarantee of the
\* parameters a clone is initialised with (time 0 is the creation block).
ASSUME PoolAssumption ==
  /\ IsFiniteSet(Wallets) /\ ZeroAddress \notin Wallets /\ Creator \in Wallets
  /\ BuyIn \in Nat /\ BuyIn > 0
  /\ MaxMembers \in Nat /\ MaxMembers >= 2
  /\ ThresholdBips \in 1..10000
  /\ AcceptDeadline \in Nat /\ ResolveDeadline \in Nat
  /\ 0 < AcceptDeadline /\ AcceptDeadline < ResolveDeadline
  /\ Matrices \subseteq Seq(PayoutEntries) /\ NoProposal \notin Matrices
  /\ Windows \subseteq Nat \X Nat /\ MaxSigned \in Nat /\ Horizon \in Nat
  /\ Screened \subseteq Wallets

VARIABLES
  now,                \* block.timestamp
  eligible,           \* wallets the factory's screen and requireMembership let in
  state,              \* PoolState
  hasJoined,          \* the set of joined members
  memberCount,
  frozenDenominator,
  escrowTotal,
  currentProposalId,
  lockedOutcome,
  approvedBy,         \* approvedBy[p]: the members that approved proposal p
  proposalApprovals,
  claimedIndex,       \* claimed row indices of the locked matrix
  refunded,           \* members that took their refund
  balance,            \* the token's balanceOf(pool)
  received,           \* history: what the pool paid to each wallet
  signed,             \* intents and payment authorizations the wallets signed
  used,               \* burned intent nonces of this clone
  tokenUsed,          \* burned EIP-3009 nonces of the buy-in token
  executed            \* history: how often each intent ran

roster     == <<hasJoined, memberCount>>
frozenVars == <<frozenDenominator, escrowTotal>>
votes      == <<currentProposalId, lockedOutcome, approvedBy, proposalApprovals>>
exits      == <<claimedIndex, refunded, received>>
intentVars == <<signed, used, tokenUsed, executed>>
world      == <<now, eligible>>
vars == <<world, state, roster, frozenVars, votes, exits, balance, intentVars>>

PoolStates == {"JoiningOpen", "JoiningClosed", "Resolved", "Cancelled"}

\* _sum: the amount a matrix allocates.
MatrixTotal(m) == SumFunction([i \in DOMAIN m |-> m[i].amount])

\* The arguments of the calls that have a relayed twin.
NoArg == <<>>
IntentArgs(kind) ==
  CASE kind \in {"approve", "propose"} -> Matrices
    [] kind = "claim" -> (UNION {DOMAIN m : m \in Matrices}) \X Wallets
    [] kind = "join"  -> {BuyIn, BuyIn + 1}
    [] OTHER -> {NoArg}

Kinds == {"close", "cancel", "propose", "approve", "claim", "refund", "join",
          "invalidate"}

Intents ==
  UNION {{Intent(k, w, n, a, v[1], v[2]) :
            w \in Wallets, n \in Nonces, a \in IntentArgs(k), v \in Windows} : k \in Kinds}

-----------------------------------------------------------------------------
Init ==
  /\ now = 0
  /\ eligible \in SUBSET Wallets
  /\ state = "JoiningOpen"
  /\ hasJoined = {} /\ memberCount = 0
  /\ frozenDenominator = 0 /\ escrowTotal = 0
  /\ currentProposalId = NoProposal /\ lockedOutcome = NoProposal
  /\ approvedBy = [p \in Matrices |-> {}]
  /\ proposalApprovals = [p \in Matrices |-> 0]
  /\ claimedIndex = {} /\ refunded = {}
  /\ balance = 0 /\ received = [w \in Wallets |-> 0]
  /\ signed = {} /\ used = {} /\ tokenUsed = {}
  /\ executed = [sn \in Wallets \X Nonces |-> 0]

-----------------------------------------------------------------------------
(* Joining.                                                                 *)

\* _preJoin: every check, the compliance call-backs into the factory included.
PreJoin(member) ==
  /\ state = "JoiningOpen"
  /\ now < AcceptDeadline
  /\ memberCount < MaxMembers
  /\ member \notin hasJoined
  /\ member \in eligible

\* _close: freezes the denominator and the escrow for n members.
Close(n) ==
  /\ state' = "JoiningClosed"
  /\ frozenDenominator' = n
  /\ escrowTotal' = n * BuyIn

\* _recordMember, the token pull, and _maybeAutoClose.
JoinBy(member) ==
  /\ PreJoin(member)
  /\ hasJoined' = hasJoined \cup {member}
  /\ memberCount' = memberCount + 1
  /\ balance' = balance + BuyIn
  /\ IF memberCount + 1 >= MaxMembers
     THEN Close(memberCount + 1)
     ELSE UNCHANGED <<state, frozenVars>>
  /\ UNCHANGED <<votes, exits>>

\* _closeJoiningBy
CloseJoiningBy(actor) ==
  /\ actor = Creator
  /\ state = "JoiningOpen"
  /\ Close(memberCount)
  /\ UNCHANGED <<roster, votes, exits, balance>>

\* pokeDeadline: anybody, once the accept deadline has come.
PokeDeadline ==
  /\ state = "JoiningOpen"
  /\ now >= AcceptDeadline
  /\ Close(memberCount)
  /\ UNCHANGED <<world, roster, votes, exits, balance, intentVars>>

\* _cancelBy
CancelBy(actor) ==
  /\ actor = Creator
  /\ state = "JoiningOpen"
  /\ state' = "Cancelled"
  /\ UNCHANGED <<roster, frozenVars, votes, exits, balance>>

-----------------------------------------------------------------------------
(* Resolution.                                                              *)

\* Mutant: resolution has no deadline.
RequireResolving_NoDeadline == state = "JoiningClosed"

\* _requireResolving
RequireResolving == state = "JoiningClosed" /\ now < ResolveDeadline

\* _proposeOutcomeBy: the matrix must be non-empty, name no zero winner and
\* allocate exactly the frozen escrow.
ProposeOutcomeBy(actor, m) ==
  /\ actor = Creator
  /\ RequireResolving
  /\ m # <<>>
  /\ \A i \in DOMAIN m : m[i].winner # ZeroAddress
  /\ MatrixTotal(m) = escrowTotal
  /\ currentProposalId' = m
  /\ UNCHANGED <<state, roster, frozenVars, lockedOutcome, approvedBy,
                 proposalApprovals, exits, balance>>

\* _requiredApprovals: the rounded-up fraction of the joined members, at
\* least one, and at least two as soon as two members joined.
RequiredApprovals(denominator) ==
  LET req == (denominator * ThresholdBips + 9999) \div 10000
      one == IF req = 0 THEN 1 ELSE req
  IN  IF denominator >= 2 /\ one < 2 THEN 2 ELSE one

\* Mutant: a member may approve the same proposal again.
ApproveBy_Again(member) ==
  LET pid   == currentProposalId
      count == proposalApprovals[pid] + 1
  IN  /\ RequireResolving
      /\ member \in hasJoined
      /\ pid # NoProposal
      /\ approvedBy' = [approvedBy EXCEPT ![pid] = @ \cup {member}]
      /\ proposalApprovals' = [proposalApprovals EXCEPT ![pid] = count]
      /\ IF count >= RequiredApprovals(frozenDenominator)
         THEN state' = "Resolved" /\ lockedOutcome' = pid
         ELSE UNCHANGED <<state, lockedOutcome>>
      /\ UNCHANGED <<roster, frozenVars, currentProposalId, exits, balance>>

\* _approveBy: one approval per member and proposal; the approval that
\* reaches the threshold locks the outcome.
ApproveBy(member) ==
  LET pid   == currentProposalId
      count == proposalApprovals[pid] + 1
  IN  /\ RequireResolving
      /\ member \in hasJoined
      /\ pid # NoProposal
      /\ member \notin approvedBy[pid]
      /\ approvedBy' = [approvedBy EXCEPT ![pid] = @ \cup {member}]
      /\ proposalApprovals' = [proposalApprovals EXCEPT ![pid] = count]
      /\ IF count >= RequiredApprovals(frozenDenominator)
         THEN state' = "Resolved" /\ lockedOutcome' = pid
         ELSE UNCHANGED <<state, lockedOutcome>>
      /\ UNCHANGED <<roster, frozenVars, currentProposalId, exits, balance>>

-----------------------------------------------------------------------------
(* The exits.                                                               *)

\* _claimBy: the preimage of the locked outcome, a row of the claimant that
\* nobody claimed; the amount goes to the recipient the claimant names, who is
\* any wallet but not the pool itself.
ClaimBy(claimant, m, index, recipient) ==
  /\ state = "Resolved"
  /\ m = lockedOutcome
  /\ index \in DOMAIN m
  /\ m[index].winner = claimant
  /\ index \notin claimedIndex
  /\ MatrixTotal(m) = escrowTotal
  /\ m[index].amount <= balance      \* the token reverts on an overdraft
  /\ claimedIndex' = claimedIndex \cup {index}
  /\ balance' = balance - m[index].amount
  /\ received' = [received EXCEPT ![recipient] = @ + m[index].amount]
  /\ UNCHANGED <<state, roster, frozenVars, votes, refunded>>

\* Mutant: the refund flag is not consulted.
RefundBy_Repeatable(member) ==
  /\ \/ state = "Cancelled"
     \/ state = "JoiningClosed" /\ now >= ResolveDeadline
  /\ member \in hasJoined
  /\ BuyIn <= balance
  /\ refunded' = refunded \cup {member}
  /\ balance' = balance - BuyIn
  /\ received' = [received EXCEPT ![member] = @ + BuyIn]
  /\ UNCHANGED <<state, roster, frozenVars, votes, claimedIndex>>

\* Mutant: only a cancelled pool refunds.
RefundBy_CancelledOnly(member) ==
  /\ state = "Cancelled"
  /\ member \in hasJoined /\ member \notin refunded
  /\ BuyIn <= balance
  /\ refunded' = refunded \cup {member}
  /\ balance' = balance - BuyIn
  /\ received' = [received EXCEPT ![member] = @ + BuyIn]
  /\ UNCHANGED <<state, roster, frozenVars, votes, claimedIndex>>

\* _refundBy: a cancelled pool, or a closed one whose resolve deadline came.
RefundBy(member) ==
  /\ \/ state = "Cancelled"
     \/ state = "JoiningClosed" /\ now >= ResolveDeadline
  /\ member \in hasJoined /\ member \notin refunded
  /\ BuyIn <= balance                \* the token reverts on an overdraft
  /\ refunded' = refunded \cup {member}
  /\ balance' = balance - BuyIn
  /\ received' = [received EXCEPT ![member] = @ + BuyIn]
  /\ UNCHANGED <<state, roster, frozenVars, votes, claimedIndex>>

-----------------------------------------------------------------------------
(* Self-submitted calls: msg.sender is the actor.                           *)

Join(w)           == JoinBy(w)              /\ UNCHANGED <<world, intentVars>>
CloseJoining(w)   == CloseJoiningBy(w)      /\ UNCHANGED <<world, intentVars>>
Cancel(w)         == CancelBy(w)            /\ UNCHANGED <<world, intentVars>>
ProposeOutcome(w, m) == ProposeOutcomeBy(w, m) /\ UNCHANGED <<world, intentVars>>
Approve(w)        == ApproveBy(w)           /\ UNCHANGED <<world, intentVars>>
Claim(w, m, index, recipient) ==
  ClaimBy(w, m, index, recipient) /\ UNCHANGED <<world, intentVars>>
Refund(w)         == RefundBy(w)            /\ UNCHANGED <<world, intentVars>>

-----------------------------------------------------------------------------
(* Relayed twins: anybody submits intent i; the signer is the actor.        *)

\* _verifyIntent, then the body runs for the signer in the same transaction.
Relay(i, kind) ==
  /\ i.kind = kind
  /\ VerifyIntent(i, signed, used, now)
  /\ used' = UseNonce(i, used)
  /\ executed' = [executed EXCEPT ![<<i.signer, i.nonce>>] = @ + 1]
  /\ UNCHANGED <<world, signed, tokenUsed>>

CloseJoiningWithSig(i)   == Relay(i, "close")   /\ CloseJoiningBy(i.signer)
CancelWithSig(i)         == Relay(i, "cancel")  /\ CancelBy(i.signer)
ProposeOutcomeWithSig(i) == Relay(i, "propose") /\ ProposeOutcomeBy(i.signer, i.arg)
RefundWithSig(i)         == Relay(i, "refund")  /\ RefundBy(i.signer)

\* Mutant: the relayed approval is not bound to the signed proposal.
ApproveWithSig_AnyProposal(i) == Relay(i, "approve") /\ ApproveBy(i.signer)

\* approveWithSig: the signed proposal must still be the current one.
ApproveWithSig(i) ==
  /\ Relay(i, "approve")
  /\ currentProposalId = i.arg
  /\ ApproveBy(i.signer)

\* claimWithSig: the submitter supplies the matrix, the signer signed the row
\* and the recipient.
ClaimWithSig(i, m) ==
  Relay(i, "claim") /\ ClaimBy(i.signer, m, i.arg[1], i.arg[2])

\* joinWithAuthorization: the value must be the buy-in; the token checks and
\* burns the payment authorization itself.
JoinWithAuthorization(a) ==
  /\ a.kind = "join"
  /\ a.arg = BuyIn
  /\ VerifyPayment(a, signed, tokenUsed, now)
  /\ JoinBy(a.signer)
  /\ tokenUsed' = UseNonce(a, tokenUsed)
  /\ UNCHANGED <<world, signed, used, executed>>

\* invalidateNonce (by the wallet) burns a nonce without running anything.
InvalidateNonce(w, n) ==
  /\ <<w, n>> \notin used
  /\ used' = used \cup {<<w, n>>}
  /\ UNCHANGED <<world, state, roster, frozenVars, votes, exits, balance,
                 signed, tokenUsed, executed>>

\* invalidateNonceWithSig: the signed cancellation has no validAfter.
InvalidateNonceWithSig(i) ==
  /\ i.kind = "invalidate"
  /\ i \in signed /\ now <= i.validBefore
  /\ InvalidateNonce(i.signer, i.nonce)

-----------------------------------------------------------------------------
(* Outside the contract.                                                    *)

\* A wallet signs an intent (off chain) and hands it to a relayer.
Sign(i) ==
  /\ i \notin signed
  /\ Cardinality(signed) < MaxSigned
  /\ signed' = signed \cup {i}
  /\ UNCHANGED <<world, state, roster, frozenVars, votes, exits, balance,
                 used, tokenUsed, executed>>

\* The sanctions list or a membership changes: the factory's hooks now answer
\* differently for one wallet.
ComplianceChange(w) ==
  /\ eligible' = (eligible \ {w}) \cup ({w} \ eligible)
  /\ UNCHANGED <<now, state, roster, frozenVars, votes, exits, balance, intentVars>>

\* A later block.
Tick ==
  /\ now < Horizon
  /\ now' = now + 1
  /\ UNCHANGED <<eligible, state, roster, frozenVars, votes, exits, balance, intentVars>>

SelfSubmitted ==
  \E w \in Wallets :
    \/ Join(w) \/ CloseJoining(w) \/ Cancel(w) \/ Approve(w) \/ Refund(w)
    \/ \E m \in Matrices :
         \/ ProposeOutcome(w, m)
         \/ \E index \in DOMAIN m, recipient \in Wallets : Claim(w, m, index, recipient)
    \/ \E n \in Nonces : InvalidateNonce(w, n)

Relayed ==
  \E i \in signed :
    \/ CloseJoiningWithSig(i) \/ CancelWithSig(i) \/ ProposeOutcomeWithSig(i)
    \/ ApproveWithSig(i) \/ RefundWithSig(i) \/ JoinWithAuthorization(i)
    \/ InvalidateNonceWithSig(i)
    \/ \E m \in Matrices : ClaimWithSig(i, m)

Environment ==
  \/ Tick
  \/ \E w \in Screened : ComplianceChange(w)
  \/ \E i \in Intents : Sign(i)

Next == SelfSubmitted \/ PokeDeadline \/ Relayed \/ Environment

Spec == Init /\ [][Next]_vars

\* Blocks keep coming, somebody pokes a pool whose accept deadline passed
\* (permissionless), members take refunds and winners claim what is theirs.
Fairness ==
  /\ WF_vars(Tick)
  /\ WF_vars(PokeDeadline)
  /\ \A w \in Wallets :
       /\ WF_vars(Refund(w))
       /\ \A m \in Matrices : \A index \in DOMAIN m :
            WF_vars(\E recipient \in Wallets : Claim(w, m, index, recipient))

FairSpec == Spec /\ Fairness

-----------------------------------------------------------------------------
(* Properties.                                                              *)

\* Type correctness of the clone's storage and of the token balance it holds.
TypeOK ==
  /\ now \in Nat /\ eligible \subseteq Wallets
  /\ state \in PoolStates
  /\ hasJoined \subseteq Wallets /\ memberCount \in Nat
  /\ frozenDenominator \in Nat /\ escrowTotal \in Nat
  /\ currentProposalId \in Matrices \cup {NoProposal}
  /\ lockedOutcome \in Matrices \cup {NoProposal}
  /\ approvedBy \in [Matrices -> SUBSET Wallets]
  /\ proposalApprovals \in [Matrices -> Nat]
  /\ claimedIndex \subseteq Nat /\ refunded \subseteq Wallets
  /\ balance \in Nat /\ received \in [Wallets -> Nat]
  /\ signed \subseteq Intents
  /\ used \subseteq Wallets \X Nonces /\ tokenUsed \subseteq Wallets \X Nonces
  /\ executed \in [Wallets \X Nonces -> Nat]

\* What the pool still owes: the unclaimed rows of a locked outcome, or one
\* buy-in for each member that was not refunded.
Owed ==
  IF state = "Resolved"
  THEN MatrixTotal([i \in DOMAIN lockedOutcome \ claimedIndex |-> lockedOutcome[i]])
  ELSE BuyIn * Cardinality(hasJoined \ refunded)

\* The escrow always equals what is owed, to the last unit: no exit overdraws
\* it and no order of joins, locks, claims and refunds strands any of it (the
\* "ONLY escrow exits" paragraph of the contract, claim and refund included).
EscrowExact == balance = Owed

\* An outcome is locked only by the share of the joined members the pool was
\* created with, counted as distinct members that joined, and never by one
\* member alone when two or more joined: the creator cannot force a payout.
LockedByQuorum ==
  state = "Resolved" =>
    LET approvers == approvedBy[lockedOutcome]
    IN  /\ approvers \subseteq hasJoined
        /\ Cardinality(approvers) * 10000 >= ThresholdBips * Cardinality(hasJoined)
        /\ Cardinality(hasJoined) >= 2 => Cardinality(approvers) >= 2

\* Refund and payout exclude each other for ever: once one member was refunded
\* no outcome can be locked, and no row of a pool that refunds is ever claimed.
RefundXorPayout ==
  /\ refunded # {} => /\ state \in {"Cancelled", "JoiningClosed"}
                      /\ state = "JoiningClosed" => now >= ResolveDeadline
  /\ claimedIndex # {} => state = "Resolved" /\ refunded = {}

\* No signed intent runs twice, whatever a relayer submits again and however
\* the wallets reuse nonces (_useNonce).
IntentRunsOnce == \A sn \in DOMAIN executed : executed[sn] <= 1

\* A relayed call does exactly what its signer signed, inside the window he
\* signed: an approval counts for the signed matrix and no revision of it, a
\* claim pays the signed row to the signed recipient.
RelayedAsSigned ==
  [][\A sn \in Wallets \X Nonces :
       executed'[sn] # executed[sn] =>
         \E i \in signed :
           /\ <<i.signer, i.nonce>> = sn
           /\ i.validAfter <= now /\ now <= i.validBefore
           /\ i.kind = "approve" =>
                approvedBy' = [approvedBy EXCEPT ![i.arg] = @ \cup {i.signer}]
           /\ i.kind = "propose" => i.signer = Creator /\ currentProposalId' = i.arg
           /\ i.kind = "claim" =>
                /\ claimedIndex' = claimedIndex \cup {i.arg[1]}
                /\ \A w \in Wallets \ {i.arg[2]} : received'[w] = received[w]
           /\ i.kind = "refund" => refunded' = refunded \cup {i.signer}
           /\ i.kind \in {"close", "cancel"} => i.signer = Creator /\ state' # state]_vars

\* The pool as an escrow.  Its stakes go back when it is cancelled, or when
\* it is closed and the resolve deadline comes, which no call marks; an award
\* is the lock of a matrix.
Settlement ==
  CASE state = "Resolved" -> "awarded"
    [] state = "Cancelled" \/ (state = "JoiningClosed" /\ now >= ResolveDeadline) -> "returning"
    [] OTHER -> "funding"

\* A claim is a row of the locked matrix, or the buy-in of a member.
Due ==
  IF state = "Resolved"
  THEN [i \in DOMAIN lockedOutcome \ claimedIndex |-> lockedOutcome[i].amount]
  ELSE [w \in hasJoined \ refunded |-> BuyIn]

Promise == INSTANCE Escrow WITH phase <- Settlement, due <- Due, held <- balance

\* The pool is settled once, by refunds or by the locked matrix and never by
\* both, however the calls, the relayed twins and the two deadlines meet; an
\* award allocates exactly what is held, and every claim is paid once
\* (_requireResolving, _refundBy, _claimBy).
ImplementsEscrow == Promise!Spec

\* Funds are never stuck: whatever the creator, the members and the compliance
\* hooks do, the pool ends up holding nothing (the contract's "the
\* resolveDeadline refund path guarantees funds are never stuck").
EscrowDrains == <>[](balance = 0)

=============================================================================
