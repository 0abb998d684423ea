-------------------------- MODULE WagerPoolProofs --------------------------
(***************************************************************************)
(* Theorems about WagerPool for any set of wallets, any buy-in, threshold  *)
(* and deadlines the factory admits, any payout matrices and any relayer.  *)
(* The inductive invariant is CoreInv: the counters the contract keeps are *)
(* the cardinalities they stand for, the denominator is frozen with the    *)
(* roster, and a lock, a claim or a refund carries the evidence it needs.  *)
(* EscrowInv adds what the balance is in each phase of the pool, ReplayInv *)
(* what a burned nonce and a used authorization stand for.                 *)
(***************************************************************************)
EXTENDS WagerPool, SumTheorems

CoreTypeOK ==
  /\ now \in Nat /\ eligible \subseteq Wallets
  /\ state \in PoolStates
  /\ hasJoined \subseteq Wallets /\ memberCount \in Nat
  /\ frozenDenominator \in Nat /\ escrowTotal \in Nat
  /\ currentProposalId \in Matrices \cup {NoProposal}
  /\ lockedOutcome \in Matrices \cup {NoProposal}
  /\ approvedBy \in [Matrices -> SUBSET Wallets]
  /\ proposalApprovals \in [Matrices -> Nat]
  /\ claimedIndex \subseteq Nat /\ refunded \subseteq Wallets
  /\ balance \in Nat /\ received \in [Wallets -> Nat]

IntentTypeOK ==
  /\ signed \subseteq Intents
  /\ used \subseteq Wallets \X Nonces /\ tokenUsed \subseteq Wallets \X Nonces
  /\ executed \in [Wallets \X Nonces -> Nat]

\* The counters are cardinalities, and the denominator is frozen with the roster.
RosterInv ==
  /\ memberCount = Cardinality(hasJoined)
  /\ state \in {"JoiningClosed", "Resolved"} => frozenDenominator = memberCount

\* Approvals are counted once per member, and only members approve.
VoteInv ==
  /\ \A p \in Matrices : /\ approvedBy[p] \subseteq hasJoined
                         /\ proposalApprovals[p] = Cardinality(approvedBy[p])
  /\ state = "Resolved" =>
       /\ lockedOutcome \in Matrices
       /\ proposalApprovals[lockedOutcome] >= RequiredApprovals(frozenDenominator)

\* Which exit a pool has taken.
ExitInv ==
  /\ state # "Resolved" => claimedIndex = {}
  /\ refunded # {} => \/ state = "Cancelled"
                      \/ state = "JoiningClosed" /\ now >= ResolveDeadline

CoreInv == CoreTypeOK /\ RosterInv /\ VoteInv /\ ExitInv

\* The core variables, the clock left aside.
core == <<state, roster, frozenVars, votes, exits, balance>>

-----------------------------------------------------------------------------
\* The approval threshold is a natural number, covers the fraction the pool
\* was created with, and is at least two for a pool of two or more members.
LEMMA ThresholdBound ==
  ASSUME NEW n \in Nat
  PROVE  /\ RequiredApprovals(n) \in Nat
         /\ RequiredApprovals(n) * 10000 >= ThresholdBips * n
         /\ n >= 2 => RequiredApprovals(n) >= 2
<1> DEFINE num == n * ThresholdBips
           req == (num + 9999) \div 10000
<1>1. ThresholdBips \in Nat
  BY PoolAssumption
<1>2. num \in Nat /\ num = ThresholdBips * n
  BY <1>1
<1> HIDE DEF num
<1>3. req \in Nat /\ req * 10000 >= num
  BY <1>2
<1> HIDE DEF req
<1>4. RequiredApprovals(n) =
        LET one == IF req = 0 THEN 1 ELSE req
        IN  IF n >= 2 /\ one < 2 THEN 2 ELSE one
  BY DEF RequiredApprovals, req, num
<1> QED
  BY <1>2, <1>3, <1>4

\* Finite sets of wallets: a new element adds one to the cardinality.
LEMMA CountOneMore ==
  ASSUME NEW S, S \subseteq Wallets, NEW w \in Wallets, w \notin S
  PROVE  /\ Cardinality(S) \in Nat
         /\ Cardinality(S \cup {w}) = Cardinality(S) + 1
<1>1. IsFiniteSet(S)
  BY PoolAssumption, FS_Subset
<1> QED
  BY <1>1, FS_AddElement, FS_CardinalityType

-----------------------------------------------------------------------------
\* CoreInv looks at the core variables and the clock only.
LEMMA CoreStutter ==
  ASSUME CoreInv, UNCHANGED <<world, core>>
  PROVE  CoreInv'
BY DEF CoreInv, CoreTypeOK, RosterInv, VoteInv, ExitInv, world, core, roster,
       frozenVars, votes, exits

\* Joining counts the new member, and an automatic close freezes that count.
LEMMA JoinPreserves ==
  ASSUME CoreInv, NEW w \in Wallets, JoinBy(w), UNCHANGED world
  PROVE  CoreInv'
<1> USE DEF world, votes, exits, frozenVars
<1>1. /\ memberCount + 1 = Cardinality(hasJoined \cup {w})
      /\ (memberCount + 1) * BuyIn \in Nat
  BY CountOneMore, PoolAssumption DEF CoreInv, CoreTypeOK, RosterInv, JoinBy, PreJoin
<1>2. CoreTypeOK'
  BY <1>1, PoolAssumption DEF CoreInv, CoreTypeOK, JoinBy, PreJoin, Close, PoolStates
<1>3. RosterInv'
  BY <1>1 DEF CoreInv, CoreTypeOK, RosterInv, JoinBy, PreJoin, Close
<1>4. VoteInv'
  BY DEF CoreInv, CoreTypeOK, VoteInv, JoinBy, PreJoin, Close
<1>5. ExitInv'
  BY DEF CoreInv, CoreTypeOK, ExitInv, JoinBy, PreJoin, Close
<1> QED
  BY <1>2, <1>3, <1>4, <1>5 DEF CoreInv

\* Closing, by the creator or by a poke, freezes the roster as it is.
LEMMA ClosePreserves ==
  ASSUME CoreInv, state = "JoiningOpen", Close(memberCount),
         UNCHANGED <<world, roster, votes, exits, balance>>
  PROVE  CoreInv'
<1> USE DEF world, roster, votes, exits
<1>1. memberCount * BuyIn \in Nat
  BY PoolAssumption DEF CoreInv, CoreTypeOK
<1>2. CoreTypeOK'
  BY <1>1 DEF CoreInv, CoreTypeOK, Close, PoolStates
<1>3. RosterInv' /\ VoteInv' /\ ExitInv'
  BY DEF CoreInv, CoreTypeOK, RosterInv, VoteInv, ExitInv, Close
<1> QED
  BY <1>2, <1>3 DEF CoreInv

LEMMA CancelPreserves ==
  ASSUME CoreInv, NEW w \in Wallets, CancelBy(w), UNCHANGED world
  PROVE  CoreInv'
BY DEF CoreInv, CoreTypeOK, RosterInv, VoteInv, ExitInv, CancelBy, PoolStates,
       world, roster, frozenVars, votes, exits

LEMMA ProposePreserves ==
  ASSUME CoreInv, NEW w \in Wallets, NEW m \in Matrices, ProposeOutcomeBy(w, m),
         UNCHANGED world
  PROVE  CoreInv'
BY DEF CoreInv, CoreTypeOK, RosterInv, VoteInv, ExitInv, ProposeOutcomeBy,
       world, roster, frozenVars, exits

\* One approval adds one distinct member; the lock carries the threshold.
LEMMA ApprovePreserves ==
  ASSUME CoreInv, NEW w \in Wallets, ApproveBy(w), UNCHANGED world
  PROVE  CoreInv'
<1> USE DEF world, roster, frozenVars, exits
<1> DEFINE pid == currentProposalId
<1>1. /\ pid \in Matrices /\ w \in hasJoined /\ w \notin approvedBy[pid]
      /\ state = "JoiningClosed" /\ now < ResolveDeadline
      /\ approvedBy' = [approvedBy EXCEPT ![pid] = approvedBy[pid] \cup {w}]
      /\ proposalApprovals' =
           [proposalApprovals EXCEPT ![pid] = proposalApprovals[pid] + 1]
      /\ IF proposalApprovals[pid] + 1 >= RequiredApprovals(frozenDenominator)
         THEN state' = "Resolved" /\ lockedOutcome' = pid
         ELSE UNCHANGED <<state, lockedOutcome>>
      /\ UNCHANGED <<roster, frozenVars, currentProposalId, exits, balance>>
  BY DEF ApproveBy, RequireResolving, CoreInv, CoreTypeOK
<1> HIDE DEF pid
<1>2. Cardinality(approvedBy[pid] \cup {w}) = Cardinality(approvedBy[pid]) + 1
  BY <1>1, CountOneMore DEF CoreInv, CoreTypeOK
<1>3. CoreTypeOK'
  BY <1>1 DEF CoreInv, CoreTypeOK, PoolStates
<1>4. RosterInv'
  BY <1>1 DEF CoreInv, RosterInv
<1>5. \A p \in Matrices : /\ approvedBy'[p] \subseteq hasJoined'
                          /\ proposalApprovals'[p] = Cardinality(approvedBy'[p])
  BY <1>1, <1>2 DEF CoreInv, CoreTypeOK, VoteInv
<1>6. state' = "Resolved" =>
        /\ lockedOutcome' \in Matrices
        /\ proposalApprovals'[lockedOutcome'] >= RequiredApprovals(frozenDenominator')
  BY <1>1 DEF CoreInv, CoreTypeOK, VoteInv
<1>7. VoteInv'
  BY <1>5, <1>6 DEF VoteInv, RequiredApprovals
<1>8. ExitInv'
  BY <1>1, PoolAssumption DEF CoreInv, CoreTypeOK, ExitInv
<1> QED
  BY <1>3, <1>4, <1>7, <1>8 DEF CoreInv

LEMMA ClaimPreserves ==
  ASSUME CoreInv, NEW w \in Wallets, NEW m \in Matrices, NEW i \in DOMAIN m,
         NEW r \in Wallets, ClaimBy(w, m, i, r), UNCHANGED world
  PROVE  CoreInv'
<1> USE DEF world, roster, frozenVars, votes
<1>1. m \in Seq(PayoutEntries)
  BY PoolAssumption
<1>2. m[i] \in PayoutEntries /\ i \in Nat
  BY <1>1
<1>3. m[i].amount \in Nat
  BY <1>2 DEF PayoutEntries
<1> DEFINE a == m[i].amount
<1>4. /\ a <= balance /\ balance' = balance - a
      /\ received' = [received EXCEPT ![r] = received[r] + a]
      /\ claimedIndex' = claimedIndex \cup {i}
  BY DEF ClaimBy
<1> HIDE DEF a
<1>5. balance' \in Nat /\ received' \in [Wallets -> Nat]
  BY <1>3, <1>4 DEF CoreInv, CoreTypeOK, a
<1>6. CoreTypeOK'
  BY <1>2, <1>4, <1>5 DEF CoreInv, CoreTypeOK, ClaimBy
<1>7. RosterInv' /\ VoteInv' /\ ExitInv'
  BY DEF CoreInv, CoreTypeOK, RosterInv, VoteInv, ExitInv, ClaimBy
<1> QED
  BY <1>6, <1>7 DEF CoreInv

LEMMA RefundPreserves ==
  ASSUME CoreInv, NEW w \in Wallets, RefundBy(w), UNCHANGED world
  PROVE  CoreInv'
<1> USE DEF world, roster, frozenVars, votes
<1>1. CoreTypeOK'
  BY PoolAssumption DEF CoreInv, CoreTypeOK, RefundBy
<1>2. RosterInv' /\ VoteInv' /\ ExitInv'
  BY DEF CoreInv, CoreTypeOK, RosterInv, VoteInv, ExitInv, RefundBy
<1> QED
  BY <1>1, <1>2 DEF CoreInv

-----------------------------------------------------------------------------
\* What a signed intent carries, whatever its kind.
LEMMA IntentFields ==
  ASSUME NEW i \in Intents
  PROVE  /\ i.signer \in Wallets /\ i.nonce \in Nonces
         /\ i.kind \in {"propose", "approve"} => i.arg \in Matrices
         /\ i.kind = "claim" => i.arg[2] \in Wallets
<1>1. PICK k \in Kinds : \E w \in Wallets, n \in Nonces, a \in IntentArgs(k), v \in Windows :
        i = Intent(k, w, n, a, v[1], v[2])
  BY DEF Intents
<1>2. PICK w \in Wallets, n \in Nonces, a \in IntentArgs(k), v \in Windows :
        i = Intent(k, w, n, a, v[1], v[2])
  BY <1>1
<1>3. i.kind = k /\ i.signer = w /\ i.nonce = n /\ i.arg = a
  BY <1>2 DEF Intent
<1>4. k \in {"propose", "approve"} => a \in Matrices
  BY <1>2 DEF IntentArgs
<1>5. k = "claim" => a[2] \in Wallets
  BY <1>2 DEF IntentArgs
<1> QED
  BY <1>2, <1>3, <1>4, <1>5

\* Every relayed twin burns one nonce of its signer's and keeps the types.
LEMMA RelayTypes ==
  ASSUME IntentTypeOK, NEW i \in signed, NEW k, Relay(i, k)
  PROVE  IntentTypeOK' /\ UNCHANGED world
<1>1. i.signer \in Wallets /\ i.nonce \in Nonces
  BY IntentFields DEF IntentTypeOK
<1> QED
  BY <1>1 DEF IntentTypeOK, Relay, UseNonce, world

\* A self-submitted call keeps the invariant.
LEMMA SelfSubmittedPreserves ==
  ASSUME CoreInv, IntentTypeOK, SelfSubmitted
  PROVE  CoreInv' /\ IntentTypeOK'
<1>1. PICK w \in Wallets :
        \/ Join(w) \/ CloseJoining(w) \/ Cancel(w) \/ Approve(w) \/ Refund(w)
        \/ \E m \in Matrices :
             \/ ProposeOutcome(w, m)
             \/ \E index \in DOMAIN m, recipient \in Wallets : Claim(w, m, index, recipient)
        \/ \E n \in Nonces : InvalidateNonce(w, n)
  BY DEF SelfSubmitted
<1>2. ASSUME UNCHANGED intentVars PROVE IntentTypeOK'
  BY <1>2 DEF IntentTypeOK, intentVars
<1>3. CASE Join(w)
  BY <1>2, <1>3, JoinPreserves DEF Join
<1>4. CASE CloseJoining(w)
  BY <1>2, <1>4, ClosePreserves DEF CloseJoining, CloseJoiningBy
<1>5. CASE Cancel(w)
  BY <1>2, <1>5, CancelPreserves DEF Cancel
<1>6. CASE Approve(w)
  BY <1>2, <1>6, ApprovePreserves DEF Approve
<1>7. CASE Refund(w)
  BY <1>2, <1>7, RefundPreserves DEF Refund
<1>8. ASSUME NEW m \in Matrices, ProposeOutcome(w, m) PROVE CoreInv' /\ IntentTypeOK'
  BY <1>2, <1>8, ProposePreserves DEF ProposeOutcome
<1>9. ASSUME NEW m \in Matrices, NEW index \in DOMAIN m, NEW recipient \in Wallets,
             Claim(w, m, index, recipient)
      PROVE  CoreInv' /\ IntentTypeOK'
  BY <1>2, <1>9, ClaimPreserves DEF Claim
<1>10. ASSUME NEW n \in Nonces, InvalidateNonce(w, n) PROVE CoreInv' /\ IntentTypeOK'
  BY <1>10, CoreStutter DEF InvalidateNonce, IntentTypeOK, core
<1> QED
  BY <1>1, <1>3, <1>4, <1>5, <1>6, <1>7, <1>8, <1>9, <1>10

\* So does a relayed one, whoever submits it.
LEMMA RelayedPreserves ==
  ASSUME CoreInv, IntentTypeOK, Relayed
  PROVE  CoreInv' /\ IntentTypeOK'
<1>1. PICK i \in signed :
        \/ CloseJoiningWithSig(i) \/ CancelWithSig(i) \/ ProposeOutcomeWithSig(i)
        \/ ApproveWithSig(i) \/ RefundWithSig(i) \/ JoinWithAuthorization(i)
        \/ InvalidateNonceWithSig(i)
        \/ \E m \in Matrices : ClaimWithSig(i, m)
  BY DEF Relayed
<1>2. /\ i \in Intents /\ i.signer \in Wallets /\ i.nonce \in Nonces
      /\ i.kind \in {"propose", "approve"} => i.arg \in Matrices
      /\ i.kind = "claim" => i.arg[2] \in Wallets
  BY IntentFields DEF IntentTypeOK
<1>3. CASE CloseJoiningWithSig(i)
  BY <1>3, RelayTypes, ClosePreserves DEF CloseJoiningWithSig, CloseJoiningBy
<1>4. CASE CancelWithSig(i)
  BY <1>2, <1>4, RelayTypes, CancelPreserves DEF CancelWithSig
<1>5. CASE ProposeOutcomeWithSig(i)
  <2>1. i.kind = "propose"
    BY <1>5 DEF ProposeOutcomeWithSig, Relay
  <2> QED
    BY <1>2, <1>5, <2>1, RelayTypes, ProposePreserves DEF ProposeOutcomeWithSig
<1>6. CASE ApproveWithSig(i)
  BY <1>2, <1>6, RelayTypes, ApprovePreserves DEF ApproveWithSig
<1>7. CASE RefundWithSig(i)
  BY <1>2, <1>7, RelayTypes, RefundPreserves DEF RefundWithSig
<1>8. CASE JoinWithAuthorization(i)
  <2>1. CoreInv'
    BY <1>2, <1>8, JoinPreserves DEF JoinWithAuthorization
  <2>2. IntentTypeOK'
    BY <1>2, <1>8 DEF JoinWithAuthorization, IntentTypeOK, UseNonce
  <2> QED
    BY <2>1, <2>2
<1>9. CASE InvalidateNonceWithSig(i)
  BY <1>2, <1>9, CoreStutter
     DEF InvalidateNonceWithSig, InvalidateNonce, IntentTypeOK, core
<1>10. ASSUME NEW m \in Matrices, ClaimWithSig(i, m) PROVE CoreInv' /\ IntentTypeOK'
  <2>1. i.kind = "claim" /\ Relay(i, "claim") /\ ClaimBy(i.signer, m, i.arg[1], i.arg[2])
    BY <1>10 DEF ClaimWithSig, Relay
  <2>2. i.arg[1] \in DOMAIN m
    BY <2>1 DEF ClaimBy
  <2> QED
    BY <1>2, <2>1, <2>2, RelayTypes, ClaimPreserves
<1> QED
  BY <1>1, <1>3, <1>4, <1>5, <1>6, <1>7, <1>8, <1>9, <1>10

\* Time, compliance changes and signatures do not disturb it either.
LEMMA EnvironmentPreserves ==
  ASSUME CoreInv, IntentTypeOK, Environment
  PROVE  CoreInv' /\ IntentTypeOK'
<1>1. CASE Tick
  BY <1>1, PoolAssumption
     DEF Tick, CoreInv, CoreTypeOK, RosterInv, VoteInv, ExitInv, IntentTypeOK,
         roster, frozenVars, votes, exits, intentVars
<1>2. ASSUME NEW w \in Screened, ComplianceChange(w) PROVE CoreInv' /\ IntentTypeOK'
  BY <1>2, PoolAssumption
     DEF ComplianceChange, CoreInv, CoreTypeOK, RosterInv, VoteInv, ExitInv, IntentTypeOK,
         roster, frozenVars, votes, exits, intentVars
<1>3. ASSUME NEW i \in Intents, Sign(i) PROVE CoreInv' /\ IntentTypeOK'
  BY <1>3, CoreStutter DEF Sign, IntentTypeOK, core
<1> QED
  BY <1>1, <1>2, <1>3 DEF Environment

-----------------------------------------------------------------------------
\* CoreInv, with the intent types, is an inductive invariant of the pool.
THEOREM PoolInvariant == Spec => [](CoreInv /\ IntentTypeOK)
<1>1. Init => CoreInv /\ IntentTypeOK
  BY FS_EmptySet
     DEF Init, CoreInv, CoreTypeOK, RosterInv, VoteInv, ExitInv, IntentTypeOK, PoolStates
<1>2. CoreInv /\ IntentTypeOK /\ [Next]_vars => (CoreInv /\ IntentTypeOK)'
  <2> SUFFICES ASSUME CoreInv, IntentTypeOK, [Next]_vars
               PROVE  CoreInv' /\ IntentTypeOK'
    OBVIOUS
  <2>1. CASE PokeDeadline
    BY <2>1, ClosePreserves DEF PokeDeadline, IntentTypeOK, intentVars
  <2>2. CASE UNCHANGED vars
    BY <2>2, CoreStutter DEF vars, IntentTypeOK, intentVars, core
  <2> QED
    BY <2>1, <2>2, SelfSubmittedPreserves, RelayedPreserves, EnvironmentPreserves DEF Next
<1> QED
  BY <1>1, <1>2, PTL DEF Spec

\* The storage of every clone stays well typed, the token balance included: no
\* exit underflows it (type correctness of the whole contract).
THEOREM PoolTypeCorrect == Spec => []TypeOK
<1>1. CoreInv /\ IntentTypeOK => TypeOK
  BY DEF CoreInv, CoreTypeOK, IntentTypeOK, TypeOK
<1> QED
  BY <1>1, PoolInvariant, PTL

\* Whatever the threshold, the roster and the relayers do, an outcome is locked
\* only by the promised share of distinct members, and never by one member of a
\* pool of two or more (_approveBy and _requiredApprovals).
THEOREM PoolLockedByQuorum == Spec => []LockedByQuorum
<1>1. CoreInv => LockedByQuorum
  <2> SUFFICES ASSUME CoreInv, state = "Resolved"
               PROVE  LET approvers == approvedBy[lockedOutcome]
                      IN  /\ approvers \subseteq hasJoined
                          /\ Cardinality(approvers) * 10000 >= ThresholdBips * Cardinality(hasJoined)
                          /\ Cardinality(hasJoined) >= 2 => Cardinality(approvers) >= 2
    BY DEF LockedByQuorum
  <2> DEFINE n == Cardinality(hasJoined)
             k == Cardinality(approvedBy[lockedOutcome])
  <2>1. /\ n \in Nat /\ frozenDenominator = n
        /\ k \in Nat /\ k >= RequiredApprovals(n)
        /\ approvedBy[lockedOutcome] \subseteq hasJoined
    BY DEF CoreInv, CoreTypeOK, RosterInv, VoteInv
  <2> HIDE DEF n, k
  <2>2. /\ RequiredApprovals(n) \in Nat
        /\ RequiredApprovals(n) * 10000 >= ThresholdBips * n
        /\ n >= 2 => RequiredApprovals(n) >= 2
    BY <2>1, ThresholdBound
  <2>3. ThresholdBips * n \in Nat
    <3>1. ThresholdBips \in Nat
      BY PoolAssumption
    <3> QED
      BY <2>1, <3>1
  <2>4. k * 10000 >= ThresholdBips * n /\ (n >= 2 => k >= 2)
    BY <2>1, <2>2, <2>3
  <2> QED
    BY <2>1, <2>4 DEF n, k
<1> QED
  BY <1>1, PoolInvariant, PTL

\* Refunds and payouts exclude each other in every behaviour: the deadline that
\* opens the refunds has closed the approvals (_refundBy and _requireResolving).
THEOREM PoolRefundXorPayout == Spec => []RefundXorPayout
<1>1. CoreInv => RefundXorPayout
  BY DEF CoreInv, CoreTypeOK, ExitInv, RefundXorPayout, PoolStates
<1> QED
  BY <1>1, PoolInvariant, PTL
-----------------------------------------------------------------------------
\* What a step does to the pool, whoever submitted the call.
CoreStep ==
  \/ UNCHANGED core
  \/ \E w \in Wallets : JoinBy(w) \/ CancelBy(w) \/ ApproveBy(w) \/ RefundBy(w)
  \/ \E w \in Wallets : \E m \in Matrices : ProposeOutcomeBy(w, m)
  \/ \E w \in Wallets : \E m \in Matrices : \E i \in DOMAIN m : \E r \in Wallets :
       ClaimBy(w, m, i, r)
  \/ state = "JoiningOpen" /\ Close(memberCount) /\ UNCHANGED <<roster, votes, exits, balance>>

LEMMA StepCases ==
  ASSUME IntentTypeOK, [Next]_vars
  PROVE  CoreStep
<1>1. CASE SelfSubmitted
  BY <1>1 DEF SelfSubmitted, Join, CloseJoining, CloseJoiningBy, Cancel, ProposeOutcome,
              Approve, Claim, Refund, InvalidateNonce, CoreStep, core
<1>2. CASE PokeDeadline
  BY <1>2 DEF PokeDeadline, CoreStep
<1>3. ASSUME NEW i \in signed,
             \/ CloseJoiningWithSig(i) \/ CancelWithSig(i) \/ ProposeOutcomeWithSig(i)
             \/ ApproveWithSig(i) \/ RefundWithSig(i) \/ JoinWithAuthorization(i)
             \/ InvalidateNonceWithSig(i)
      PROVE  CoreStep
  <2>1. i.signer \in Wallets /\ (i.kind = "propose" => i.arg \in Matrices)
    BY IntentFields DEF IntentTypeOK
  <2> QED
    BY <1>3, <2>1 DEF CloseJoiningWithSig, CloseJoiningBy, CancelWithSig, ProposeOutcomeWithSig,
         ApproveWithSig, RefundWithSig, JoinWithAuthorization, InvalidateNonceWithSig,
         InvalidateNonce, Relay, CoreStep, core
<1>4. ASSUME NEW i \in signed, NEW m \in Matrices, ClaimWithSig(i, m) PROVE CoreStep
  <2>1. i.kind = "claim" /\ ClaimBy(i.signer, m, i.arg[1], i.arg[2])
    BY <1>4 DEF ClaimWithSig, Relay
  <2>2. i.signer \in Wallets /\ i.arg[2] \in Wallets /\ i.arg[1] \in DOMAIN m
    BY <2>1, IntentFields DEF IntentTypeOK, ClaimBy
  <2> QED
    BY <2>1, <2>2 DEF CoreStep
<1>5. CASE Environment
  BY <1>5 DEF Environment, Tick, ComplianceChange, Sign, CoreStep, core
<1>6. CASE UNCHANGED vars
  BY <1>6 DEF vars, CoreStep, core
<1> QED
  BY <1>1, <1>2, <1>3, <1>4, <1>5, <1>6 DEF Next, Relayed

-----------------------------------------------------------------------------
\* The amounts of the rows of matrix m that are not in C.
Amounts(m, C) == [i \in DOMAIN m \ C |-> m[i].amount]

\* What is summed over is finite and the amounts are naturals.
LEMMA AmountTypes ==
  ASSUME NEW m \in Matrices, NEW C
  PROVE  /\ IsFiniteSet(DOMAIN m \ C) /\ Amounts(m, C) \in [DOMAIN m \ C -> Nat]
         /\ MatrixTotal([i \in DOMAIN m \ C |-> m[i]]) = SumFunction(Amounts(m, C))
         /\ MatrixTotal(m) = SumFunction(Amounts(m, {}))
         /\ \A i \in DOMAIN m : m[i].amount \in Nat
<1>1. m \in Seq(PayoutEntries)
  BY PoolAssumption
<1>2. DOMAIN m = 1..Len(m) /\ Len(m) \in Nat /\ \A i \in DOMAIN m : m[i] \in PayoutEntries
  BY <1>1
<1>3. IsFiniteSet(DOMAIN m)
  BY <1>2, FS_Interval
<1>4. IsFiniteSet(DOMAIN m \ C)
  BY <1>3, FS_Subset
<1>5. \A i \in DOMAIN m : m[i].amount \in Nat
  BY <1>2 DEF PayoutEntries
<1>6. Amounts(m, C) \in [DOMAIN m \ C -> Nat]
  BY <1>5 DEF Amounts
<1>7. MatrixTotal([i \in DOMAIN m \ C |-> m[i]]) = SumFunction(Amounts(m, C))
  <2> DEFINE rest == [i \in DOMAIN m \ C |-> m[i]]
  <2>1. [i \in DOMAIN rest |-> rest[i].amount] = Amounts(m, C)
    BY DEF Amounts
  <2> HIDE DEF rest
  <2>2. MatrixTotal(rest) = SumFunction(Amounts(m, C))
    BY <2>1 DEF MatrixTotal
  <2> QED
    BY <2>2 DEF rest
<1>8. MatrixTotal(m) = SumFunction(Amounts(m, {}))
  <2>1. DOMAIN m \ {} = DOMAIN m
    OBVIOUS
  <2>2. [i \in DOMAIN m |-> m[i].amount] = Amounts(m, {})
    BY <2>1 DEF Amounts
  <2> QED
    BY <2>2 DEF MatrixTotal
<1> QED
  BY <1>4, <1>5, <1>6, <1>7, <1>8

\* The escrow is exact because a proposal allocates the frozen escrow, which is
\* a buy-in for each member of a roster that changes no more, and because only
\* members take refunds and only rows of the locked matrix are claimed.
EscrowInv ==
  /\ refunded \subseteq hasJoined
  /\ state \in {"JoiningClosed", "Resolved"} => escrowTotal = BuyIn * memberCount
  /\ currentProposalId # NoProposal => /\ state \in {"JoiningClosed", "Resolved"}
                                       /\ MatrixTotal(currentProposalId) = escrowTotal
  /\ state = "Resolved" =>
       /\ claimedIndex \subseteq DOMAIN lockedOutcome
       /\ balance = SumFunction(Amounts(lockedOutcome, claimedIndex))
  /\ state # "Resolved" => balance = BuyIn * Cardinality(hasJoined \ refunded)

\* EscrowInv under each kind of step.
LEMMA EscrowStep ==
  ASSUME CoreInv, EscrowInv, CoreStep
  PROVE  EscrowInv'
<1> USE DEF roster, frozenVars, votes, exits
<1>0. /\ BuyIn \in Nat /\ memberCount \in Nat /\ balance \in Nat
      /\ hasJoined \subseteq Wallets /\ refunded \subseteq Wallets
      /\ IsFiniteSet(hasJoined) /\ memberCount = Cardinality(hasJoined)
  <2>1. hasJoined \subseteq Wallets
    BY DEF CoreInv, CoreTypeOK
  <2>2. IsFiniteSet(hasJoined)
    BY <2>1, PoolAssumption, FS_Subset
  <2> QED
    BY <2>1, <2>2, PoolAssumption DEF CoreInv, CoreTypeOK, RosterInv
<1>1. CASE UNCHANGED core
  BY <1>1 DEF core, EscrowInv, Amounts
<1>2. ASSUME NEW w \in Wallets, JoinBy(w) PROVE EscrowInv'
  <2>1. /\ state = "JoiningOpen" /\ w \notin hasJoined /\ refunded = {}
        /\ currentProposalId = NoProposal
    BY <1>2 DEF JoinBy, PreJoin, CoreInv, ExitInv, EscrowInv
  <2>2. /\ hasJoined' = hasJoined \cup {w} /\ memberCount' = memberCount + 1
        /\ balance' = balance + BuyIn /\ refunded' = refunded
        /\ currentProposalId' = currentProposalId
        /\ state' \in {"JoiningOpen", "JoiningClosed"}
        /\ state' = "JoiningClosed" => escrowTotal' = (memberCount + 1) * BuyIn
    BY <1>2, <2>1 DEF JoinBy, Close
  <2>3. hasJoined \ refunded = hasJoined /\ hasJoined' \ refunded' = hasJoined \cup {w}
    BY <2>1, <2>2
  <2>4. Cardinality(hasJoined \cup {w}) = memberCount + 1
    BY <1>0, <2>1, CountOneMore
  <2>5. balance = BuyIn * memberCount
    BY <1>0, <2>1, <2>3 DEF EscrowInv
  <2>6. balance' = BuyIn * (memberCount + 1)
    BY <1>0, <2>2, <2>5
  <2>7. (memberCount + 1) * BuyIn = BuyIn * (memberCount + 1)
    BY <1>0
  <2> QED
    BY <2>1, <2>2, <2>3, <2>4, <2>6, <2>7 DEF EscrowInv
<1>3. ASSUME NEW w \in Wallets, CancelBy(w) PROVE EscrowInv'
  <2>1. state = "JoiningOpen" /\ currentProposalId = NoProposal
    BY <1>3 DEF CancelBy, EscrowInv
  <2> QED
    BY <1>3, <2>1 DEF CancelBy, EscrowInv
<1>4. ASSUME NEW w \in Wallets, ApproveBy(w) PROVE EscrowInv'
  <2> DEFINE m == currentProposalId
  <2>1. /\ state = "JoiningClosed" /\ now < ResolveDeadline /\ m # NoProposal /\ m \in Matrices
        /\ UNCHANGED <<hasJoined, memberCount, escrowTotal, currentProposalId, claimedIndex,
                       refunded, balance>>
        /\ \/ state' = "JoiningClosed"
           \/ state' = "Resolved" /\ lockedOutcome' = m
    BY <1>4 DEF ApproveBy, RequireResolving, CoreInv, CoreTypeOK
  <2>2. refunded = {} /\ claimedIndex = {}
    BY <2>1, PoolAssumption DEF CoreInv, CoreTypeOK, ExitInv
  <2>3. balance = BuyIn * memberCount
    <3>1. hasJoined \ refunded = hasJoined
      BY <2>2
    <3> QED
      BY <1>0, <2>1, <3>1 DEF EscrowInv
  <2>4. balance = MatrixTotal(m)
    BY <2>1, <2>3 DEF EscrowInv
  <2>5. balance = SumFunction(Amounts(m, {}))
    BY <2>1, <2>4, AmountTypes
  <2>6. CASE state' = "Resolved" /\ lockedOutcome' = m
    BY <2>1, <2>2, <2>5, <2>6 DEF EscrowInv, Amounts
  <2>7. CASE state' = "JoiningClosed"
    BY <2>1, <2>7 DEF EscrowInv
  <2> QED
    BY <2>1, <2>6, <2>7
<1>5. ASSUME NEW w \in Wallets, RefundBy(w) PROVE EscrowInv'
  <2>1. /\ state \in {"Cancelled", "JoiningClosed"} /\ state' = state
        /\ w \in hasJoined \ refunded /\ refunded' = refunded \cup {w}
        /\ balance' = balance - BuyIn
        /\ UNCHANGED <<hasJoined, memberCount, escrowTotal, currentProposalId>>
    BY <1>5 DEF RefundBy
  <2>2. hasJoined' \ refunded' = (hasJoined \ refunded) \ {w}
    BY <2>1
  <2>3. IsFiniteSet(hasJoined \ refunded)
    BY <1>0, FS_Subset
  <2> DEFINE n == Cardinality(hasJoined \ refunded)
  <2>4. n \in Nat /\ Cardinality(hasJoined' \ refunded') = n - 1
    BY <2>1, <2>2, <2>3, FS_RemoveElement, FS_CardinalityType
  <2>5. balance = BuyIn * n
    BY <2>1 DEF EscrowInv
  <2> HIDE DEF n
  <2>6. balance - BuyIn = BuyIn * (n - 1)
    BY <1>0, <2>4, <2>5
  <2> QED
    BY <2>1, <2>4, <2>6 DEF EscrowInv
<1>6. ASSUME NEW w \in Wallets, NEW m \in Matrices, ProposeOutcomeBy(w, m) PROVE EscrowInv'
  BY <1>6 DEF ProposeOutcomeBy, RequireResolving, EscrowInv
<1>7. ASSUME NEW w \in Wallets, NEW m \in Matrices, NEW i \in DOMAIN m, NEW r \in Wallets,
             ClaimBy(w, m, i, r)
      PROVE  EscrowInv'
  <2>1. /\ state = "Resolved" /\ state' = state /\ m = lockedOutcome /\ lockedOutcome' = m
        /\ i \in DOMAIN m \ claimedIndex /\ claimedIndex' = claimedIndex \cup {i}
        /\ balance' = balance - m[i].amount
        /\ UNCHANGED <<hasJoined, memberCount, escrowTotal, currentProposalId, refunded>>
    BY <1>7 DEF ClaimBy
  <2> DEFINE f == Amounts(m, claimedIndex)
             g == Amounts(m, claimedIndex \cup {i})
             S == DOMAIN m \ claimedIndex
  <2>2. IsFiniteSet(S) /\ f \in [S -> Nat] /\ m[i].amount \in Nat
    BY AmountTypes
  <2>3. DOMAIN g = S \ {i} /\ (\A j \in S \ {i} : g[j] = f[j]) /\ f[i] = m[i].amount /\ i \in S
    BY <2>1 DEF Amounts
  <2> HIDE DEF f, g, S
  <2>4. SumFunction(f) = f[i] + SumFunction(g) /\ SumFunction(g) \in Nat
    <3>1. IsFiniteSet(S) /\ f \in [S -> Nat] /\ i \in S
      BY <2>2, <2>3
    <3>2. DOMAIN g = S \ {i} /\ \A j \in S \ {i} : g[j] = f[j]
      BY <2>3
    <3> QED
      BY <3>1, <3>2, SumWithout
  <2>5. balance = SumFunction(f)
    BY <2>1 DEF EscrowInv, f
  <2>6. balance' = SumFunction(g)
    BY <2>1, <2>2, <2>3, <2>4, <2>5
  <2>7. SumFunction(Amounts(lockedOutcome, claimedIndex)') = SumFunction(g)
    BY <2>1 DEF Amounts, g
  <2> QED
    BY <2>1, <2>6, <2>7 DEF EscrowInv
<1>8. CASE state = "JoiningOpen" /\ Close(memberCount) /\ UNCHANGED <<roster, votes, exits, balance>>
  <2>1. currentProposalId = NoProposal /\ memberCount * BuyIn = BuyIn * memberCount
    BY <1>0, <1>8 DEF EscrowInv
  <2> QED
    BY <1>8, <2>1 DEF EscrowInv, Close
<1> QED
  BY <1>1, <1>2, <1>3, <1>4, <1>5, <1>6, <1>7, <1>8 DEF CoreStep

\* EscrowInv holds in every reachable state.
THEOREM PoolEscrowInvariant == Spec => []EscrowInv
<1>1. Init => EscrowInv
  <2> SUFFICES ASSUME Init PROVE EscrowInv
    OBVIOUS
  <2>1. hasJoined \ refunded = {} /\ BuyIn * 0 = 0
    BY PoolAssumption DEF Init
  <2>2. Cardinality(hasJoined \ refunded) = 0
    BY <2>1, FS_EmptySet
  <2> QED
    BY <2>1, <2>2 DEF Init, EscrowInv
<1>2. CoreInv /\ IntentTypeOK /\ EscrowInv /\ [Next]_vars => EscrowInv'
  BY StepCases, EscrowStep
<1> QED
  BY <1>1, <1>2, PoolInvariant, PTL DEF Spec

\* The pool holds exactly what it owes, for any roster, buy-in and matrices and
\* in any order of joins, proposals, approvals, claims and refunds, relayed or
\* not: the contract's claim that claim and refund are the only escrow exits
\* and that neither strands a unit (_claimBy, _refundBy).
THEOREM PoolEscrowExact == Spec => []EscrowExact
<1>1. CoreInv /\ EscrowInv => EscrowExact
  <2> SUFFICES ASSUME CoreInv, EscrowInv PROVE balance = Owed
    BY DEF EscrowExact
  <2>1. CASE state = "Resolved"
    <3>1. lockedOutcome \in Matrices
      BY <2>1 DEF CoreInv, VoteInv
    <3> QED
      BY <2>1, <3>1, AmountTypes DEF EscrowInv, Owed
  <2>2. CASE state # "Resolved"
    BY <2>2 DEF EscrowInv, Owed
  <2> QED
    BY <2>1, <2>2
<1> QED
  BY <1>1, PoolInvariant, PoolEscrowInvariant, PTL

\* Every row of the locked matrix nobody claimed yet, and every refund nobody
\* took yet, is covered by the balance.
Covered ==
  /\ state = "Resolved" =>
       \A i \in DOMAIN lockedOutcome \ claimedIndex : lockedOutcome[i].amount <= balance
  /\ state # "Resolved" => (hasJoined \ refunded # {} => BuyIn <= balance)

\* No claim and no refund ever fails for want of money, however many of the
\* others were paid before it: the token never reverts on an overdraft.
THEOREM PoolCovered == Spec => []Covered
<1>1. CoreInv /\ EscrowInv => Covered
  <2> SUFFICES ASSUME CoreInv, EscrowInv PROVE Covered
    OBVIOUS
  <2>1. ASSUME state = "Resolved", NEW i \in DOMAIN lockedOutcome \ claimedIndex
        PROVE  lockedOutcome[i].amount <= balance
    <3> DEFINE f == Amounts(lockedOutcome, claimedIndex)
               S == DOMAIN lockedOutcome \ claimedIndex
    <3>1. lockedOutcome \in Matrices
      BY <2>1 DEF CoreInv, VoteInv
    <3>2. IsFiniteSet(S) /\ f \in [S -> Nat]
      BY <3>1, AmountTypes
    <3>3. f[i] = lockedOutcome[i].amount /\ i \in S
      BY DEF Amounts
    <3>4. balance = SumFunction(f)
      BY <2>1 DEF EscrowInv
    <3> HIDE DEF f, S
    <3>5. f[i] <= SumFunction(f)
      BY <3>2, <3>3, SumChange
    <3> QED
      BY <3>3, <3>4, <3>5
  <2>2. ASSUME state # "Resolved", hasJoined \ refunded # {} PROVE BuyIn <= balance
    <3> DEFINE n == Cardinality(hasJoined \ refunded)
    <3>1. hasJoined \ refunded \in SUBSET Wallets
      BY DEF CoreInv, CoreTypeOK
    <3>2. n \in Nat /\ n # 0
      BY <2>2, <3>1, PoolAssumption, FS_Subset, FS_CardinalityType, FS_EmptySet
    <3>3. balance = BuyIn * n
      BY <2>2 DEF EscrowInv
    <3> HIDE DEF n
    <3>4. PICK k \in Nat : n = k + 1
      BY <3>2
    <3>5. BuyIn * (k + 1) = BuyIn * k + BuyIn /\ BuyIn * k \in Nat
      BY PoolAssumption
    <3> QED
      BY <3>3, <3>4, <3>5, PoolAssumption
  <2> QED
    BY <2>1, <2>2 DEF Covered
<1> QED
  BY <1>1, PoolInvariant, PoolEscrowInvariant, PTL

-----------------------------------------------------------------------------
\* A nonce whose intent ran is burned, so that it ran at most once.
ReplayInv ==
  \A sn \in Wallets \X Nonces : executed[sn] <= 1 /\ (executed[sn] = 1 => sn \in used)

\* Only a relayed twin runs an intent, one that was signed, inside its window
\* and with a nonce nobody burned; every other step burns nonces at most.
RelayStep ==
  \/ /\ executed' = executed /\ used \subseteq used'
  \/ \E i \in signed :
       /\ \/ CloseJoiningWithSig(i) \/ CancelWithSig(i) \/ ProposeOutcomeWithSig(i)
          \/ ApproveWithSig(i) \/ RefundWithSig(i)
          \/ \E m \in Matrices : ClaimWithSig(i, m)
       /\ \E k : Relay(i, k)

LEMMA RelayCases ==
  ASSUME [Next]_vars
  PROVE  RelayStep
<1>1. CASE SelfSubmitted \/ PokeDeadline \/ Environment \/ UNCHANGED vars
  BY <1>1 DEF SelfSubmitted, PokeDeadline, Environment, Join, CloseJoining, Cancel,
       ProposeOutcome, Approve, Claim, Refund, InvalidateNonce, Tick, ComplianceChange, Sign,
       vars, intentVars, RelayStep
<1>2. CASE Relayed
  BY <1>2 DEF Relayed, CloseJoiningWithSig, CancelWithSig, ProposeOutcomeWithSig,
       ApproveWithSig, RefundWithSig, ClaimWithSig, JoinWithAuthorization,
       InvalidateNonceWithSig, InvalidateNonce, RelayStep
<1> QED
  BY <1>1, <1>2 DEF Next

\* No intent runs twice, for any number of wallets, nonces and signed intents
\* and whatever relayers submit again (_useNonce).
THEOREM PoolIntentRunsOnce == Spec => []IntentRunsOnce
<1>1. Init => ReplayInv
  BY DEF Init, ReplayInv
<1>2. IntentTypeOK /\ ReplayInv /\ [Next]_vars => ReplayInv'
  <2> SUFFICES ASSUME IntentTypeOK, ReplayInv, [Next]_vars PROVE ReplayInv'
    OBVIOUS
  <2>1. CASE executed' = executed /\ used \subseteq used'
    BY <2>1 DEF ReplayInv
  <2>2. ASSUME NEW i \in signed, NEW k, Relay(i, k) PROVE ReplayInv'
    <3> DEFINE sn == <<i.signer, i.nonce>>
    <3>1. sn \in Wallets \X Nonces
      BY IntentFields DEF IntentTypeOK
    <3>2. /\ sn \notin used /\ used' = used \cup {sn}
          /\ executed' = [executed EXCEPT ![sn] = executed[sn] + 1]
      BY <2>2 DEF Relay, VerifyIntent, NonceFresh, UseNonce
    <3> HIDE DEF sn
    <3>3. executed[sn] = 0
      BY <3>1, <3>2 DEF ReplayInv, IntentTypeOK
    <3> QED
      BY <3>1, <3>2, <3>3 DEF ReplayInv, IntentTypeOK
  <2> QED
    BY <2>1, <2>2, RelayCases DEF RelayStep
<1>3. IntentTypeOK /\ ReplayInv => IntentRunsOnce
  BY DEF IntentTypeOK, ReplayInv, IntentRunsOnce
<1> QED
  BY <1>1, <1>2, <1>3, PoolInvariant, PTL DEF Spec

\* What intent i of signer and nonce sn says the step may do.
AsSigned(i, sn) ==
  /\ <<i.signer, i.nonce>> = sn
  /\ i.validAfter <= now /\ now <= i.validBefore
  /\ i.kind = "approve" => approvedBy' = [approvedBy EXCEPT ![i.arg] = @ \cup {i.signer}]
  /\ i.kind = "propose" => i.signer = Creator /\ currentProposalId' = i.arg
  /\ i.kind = "claim" =>
       /\ claimedIndex' = claimedIndex \cup {i.arg[1]}
       /\ \A w \in Wallets \ {i.arg[2]} : received'[w] = received[w]
  /\ i.kind = "refund" => refunded' = refunded \cup {i.signer}
  /\ i.kind \in {"close", "cancel"} => i.signer = Creator /\ state' # state

\* The twin of each kind does what the intent says.
LEMMA TwinsAsSigned ==
  ASSUME CoreInv, IntentTypeOK, NEW i \in signed,
         \/ CloseJoiningWithSig(i) \/ CancelWithSig(i) \/ ProposeOutcomeWithSig(i)
         \/ ApproveWithSig(i) \/ RefundWithSig(i)
         \/ \E m \in Matrices : ClaimWithSig(i, m)
  PROVE  AsSigned(i, <<i.signer, i.nonce>>)
<1>1. ASSUME NEW k, Relay(i, k) PROVE i.kind = k /\ i.validAfter <= now /\ now <= i.validBefore
  <2>1. i.kind = k /\ now >= i.validAfter /\ now <= i.validBefore
    BY <1>1 DEF Relay, VerifyIntent
  <2> QED
    BY <2>1
<1>2. CASE CloseJoiningWithSig(i)
  BY <1>1, <1>2 DEF CloseJoiningWithSig, CloseJoiningBy, Close, AsSigned
<1>3. CASE CancelWithSig(i)
  BY <1>1, <1>3 DEF CancelWithSig, CancelBy, AsSigned
<1>4. CASE ProposeOutcomeWithSig(i)
  BY <1>1, <1>4 DEF ProposeOutcomeWithSig, ProposeOutcomeBy, AsSigned
<1>5. CASE ApproveWithSig(i)
  BY <1>1, <1>5 DEF ApproveWithSig, ApproveBy, AsSigned
<1>6. CASE RefundWithSig(i)
  BY <1>1, <1>6 DEF RefundWithSig, RefundBy, AsSigned
<1>7. ASSUME NEW m \in Matrices, ClaimWithSig(i, m) PROVE AsSigned(i, <<i.signer, i.nonce>>)
  <2>1. /\ i.kind = "claim" /\ i.validAfter <= now /\ now <= i.validBefore
        /\ claimedIndex' = claimedIndex \cup {i.arg[1]}
        /\ received' = [received EXCEPT ![i.arg[2]] = @ + m[i.arg[1]].amount]
    BY <1>1, <1>7 DEF ClaimWithSig, ClaimBy
  <2>2. \A w \in Wallets \ {i.arg[2]} : received'[w] = received[w]
    BY <2>1 DEF CoreInv, CoreTypeOK
  <2> QED
    BY <2>1, <2>2 DEF AsSigned
<1> QED
  BY <1>2, <1>3, <1>4, <1>5, <1>6, <1>7

\* A relayed call does what its signer signed and when he said, whatever was
\* proposed, revised, claimed or invalidated between signature and submission.
THEOREM PoolRelayedAsSigned == Spec => RelayedAsSigned
<1> DEFINE Ran == \A sn \in Wallets \X Nonces :
                    executed'[sn] # executed[sn] =>
                      \E i \in signed : AsSigned(i, sn)
<1>1. CoreInv /\ IntentTypeOK /\ [Next]_vars => [Ran]_vars
  <2> SUFFICES ASSUME CoreInv, IntentTypeOK, [Next]_vars PROVE Ran
    OBVIOUS
  <2>1. CASE executed' = executed
    BY <2>1
  <2>2. ASSUME NEW i \in signed, NEW k, Relay(i, k), AsSigned(i, <<i.signer, i.nonce>>) PROVE Ran
    <3>1. executed' = [executed EXCEPT ![<<i.signer, i.nonce>>] = @ + 1]
      BY <2>2 DEF Relay
    <3>2. \A sn \in Wallets \X Nonces : sn # <<i.signer, i.nonce>> => executed'[sn] = executed[sn]
      BY <3>1 DEF IntentTypeOK
    <3> QED
      BY <2>2, <3>2
  <2> QED
    BY <2>1, <2>2, RelayCases, TwinsAsSigned DEF RelayStep
<1> QED
  BY <1>1, PoolInvariant, PTL DEF Spec, RelayedAsSigned, AsSigned, Ran

-----------------------------------------------------------------------------
\* The sum of the abstract escrow is the sum of the theorems.
LEMMA SameSum ==
  ASSUME NEW f
  PROVE  Promise!SumFunction(f) = SumFunction(f)
BY DEF Promise!SumFunction, SumFunction, Promise!SumFunctionOnSet, SumFunctionOnSet,
       Promise!FoldFunctionOnSet, FoldFunctionOnSet, Promise!MapThenFoldSet, MapThenFoldSet

\* A claim paid alone.
LEMMA PayOne ==
  ASSUME NEW k \in DOMAIN Due, Due[k] \in Nat, DOMAIN Due' = DOMAIN Due \ {k},
         Due' = [j \in DOMAIN Due \ {k} |-> Due[j]], balance' = balance - Due[k]
  PROVE  Promise!PayOut({k})
<1> DEFINE S == {k}
           f == [j \in S |-> Due[j]]
<1>1. k \in S /\ (\A z \in S : z = k) /\ f \in [S -> Nat] /\ f[k] = Due[k]
  OBVIOUS
<1>2. SumFunction(f) = Due[k]
  <2> HIDE DEF f, S
  <2> QED BY <1>1, SumOne
<1> QED
  BY <1>2, SameSum DEF Promise!PayOut

\* Nobody is paid.
LEMMA PayNone ==
  ASSUME Due' = Due, balance' = balance, balance \in Nat
  PROVE  Promise!PayOut({})
<1> DEFINE f == [j \in {} |-> Due[j]]
<1>1. SumFunction(f) = 0
  <2>1. DOMAIN f = {}
    OBVIOUS
  <2> HIDE DEF f
  <2> QED BY <2>1, SumNone
<1>2. Due = [j \in DOMAIN Due \ {} |-> Due[j]]
  <2>1. CASE state = "Resolved"
    BY <2>1 DEF Due
  <2>2. CASE state # "Resolved"
    BY <2>2 DEF Due
  <2> QED
    BY <2>1, <2>2
<1> QED
  BY <1>1, <1>2, SameSum DEF Promise!PayOut

\* Time passes and calls that move no money settle the pool at most by
\* returning the stakes.
LEMMA QuietStep ==
  ASSUME CoreInv, Due' = Due, balance' = balance,
         Settlement' = Settlement \/ (Settlement = "funding" /\ Settlement' = "returning")
  PROVE  [Promise!Next]_(Promise!vars)
<1>1. balance \in Nat
  BY DEF CoreInv, CoreTypeOK
<1>2. CASE Settlement' = Settlement
  BY <1>2 DEF Promise!vars
<1>3. CASE Settlement = "funding" /\ Settlement' = "returning"
  <2>1. Promise!Return({})
    BY <1>1, <1>3, PayNone DEF Promise!Return
  <2>2. {} \in SUBSET DOMAIN Due
    OBVIOUS
  <2> QED
    BY <2>1, <2>2 DEF Promise!Next
<1> QED
  BY <1>2, <1>3

\* Only a block that does nothing else moves the clock.
LEMMA ClockStep ==
  ASSUME [Next]_vars, now \in Nat
  PROVE  now' = now \/ (now' = now + 1 /\ UNCHANGED core)
<1> USE DEF world, intentVars
<1>1. CASE SelfSubmitted
  BY <1>1 DEF SelfSubmitted, Join, CloseJoining, Cancel, ProposeOutcome, Approve, Claim, Refund,
              InvalidateNonce
<1>2. CASE PokeDeadline
  BY <1>2 DEF PokeDeadline
<1>3. CASE Relayed
  BY <1>3 DEF Relayed, CloseJoiningWithSig, CancelWithSig, ProposeOutcomeWithSig, ApproveWithSig,
              RefundWithSig, ClaimWithSig, JoinWithAuthorization, InvalidateNonceWithSig,
              InvalidateNonce, Relay
<1>4. CASE Environment
  BY <1>4 DEF Environment, Tick, ComplianceChange, Sign, core
<1>5. CASE UNCHANGED vars
  BY <1>5 DEF vars
<1> QED
  BY <1>1, <1>2, <1>3, <1>4, <1>5 DEF Next

\* Each kind of step, as a step of the escrow.
LEMMA EscrowSimulated ==
  ASSUME CoreInv, EscrowInv, CoreInv', EscrowInv', CoreStep,
         now' = now \/ (now' = now + 1 /\ UNCHANGED core)
  PROVE  [Promise!Next]_(Promise!vars)
<1> USE DEF roster, frozenVars, votes, exits
<1>0. /\ BuyIn \in Nat /\ balance \in Nat /\ now \in Nat
      /\ AcceptDeadline \in Nat /\ ResolveDeadline \in Nat /\ AcceptDeadline < ResolveDeadline
  BY PoolAssumption DEF CoreInv, CoreTypeOK
<1>1. CASE UNCHANGED core
  <2>1. Due' = Due /\ balance' = balance /\ state' = state
    BY <1>1 DEF core, Due
  <2>2. now' >= now
    BY <1>0
  <2>3. Settlement' = Settlement \/ (Settlement = "funding" /\ Settlement' = "returning")
    BY <1>0, <2>1, <2>2 DEF Settlement
  <2> QED
    BY <2>1, <2>3, QuietStep
<1>2. ASSUME NEW w \in Wallets, JoinBy(w), now' = now PROVE Promise!Next
  <2>1. /\ state = "JoiningOpen" /\ now < AcceptDeadline /\ w \notin hasJoined
        /\ hasJoined' = hasJoined \cup {w} /\ refunded' = refunded
        /\ balance' = balance + BuyIn /\ state' \in {"JoiningOpen", "JoiningClosed"}
    BY <1>2 DEF JoinBy, PreJoin, Close
  <2>2. refunded = {}
    BY <2>1 DEF CoreInv, ExitInv
  <2>3. Settlement = "funding" /\ Settlement' = "funding"
    BY <1>0, <1>2, <2>1 DEF Settlement
  <2>4. Due = [m \in hasJoined |-> BuyIn] /\ Due' = [m \in hasJoined \cup {w} |-> BuyIn]
    BY <2>1, <2>2 DEF Due
  <2>5. /\ w \in DOMAIN Due' \ DOMAIN Due /\ DOMAIN Due' = DOMAIN Due \cup {w}
        /\ \A j \in DOMAIN Due : Due'[j] = Due[j]
        /\ balance' = balance + Due'[w]
    BY <2>1, <2>4
  <2> QED
    BY <2>3, <2>5 DEF Promise!Next, Promise!Deposit
<1>3. ASSUME NEW w \in Wallets, CancelBy(w), now' = now PROVE [Promise!Next]_(Promise!vars)
  <2>1. Due' = Due /\ balance' = balance
    BY <1>3 DEF CancelBy, Due
  <2>2. Settlement = "funding" /\ Settlement' = "returning"
    BY <1>3 DEF CancelBy, Settlement
  <2> QED
    BY <2>1, <2>2, QuietStep
<1>4. ASSUME NEW w \in Wallets, ApproveBy(w), now' = now PROVE [Promise!Next]_(Promise!vars)
  <2>1. /\ state = "JoiningClosed" /\ now < ResolveDeadline /\ balance' = balance
        /\ UNCHANGED <<roster, exits>>
        /\ state' = "Resolved" \/ (state' = state /\ lockedOutcome' = lockedOutcome)
    BY <1>4 DEF ApproveBy, RequireResolving
  <2>2. Settlement = "funding"
    BY <1>0, <2>1 DEF Settlement
  <2>3. CASE state' = "Resolved"
    <3>1. balance' = SumFunction(Due')
      BY <2>3 DEF EscrowInv, Due, Amounts
    <3>2. Promise!SumFunction(Due') = balance
      BY <2>1, <3>1, SameSum
    <3>3. Settlement' = "awarded"
      BY <2>3 DEF Settlement
    <3> QED
      BY <2>1, <2>2, <3>2, <3>3 DEF Promise!Next, Promise!Award
  <2>4. CASE state' = state /\ lockedOutcome' = lockedOutcome
    <3>1. Due' = Due /\ Settlement' = Settlement
      BY <1>4, <2>1, <2>4 DEF Due, Settlement
    <3> QED
      BY <2>1, <3>1, QuietStep
  <2> QED
    BY <2>1, <2>3, <2>4
<1>5. ASSUME NEW w \in Wallets, RefundBy(w), now' = now PROVE Promise!Next
  <2>1. /\ state = "Cancelled" \/ (state = "JoiningClosed" /\ now >= ResolveDeadline)
        /\ w \in hasJoined \ refunded /\ state' = state /\ hasJoined' = hasJoined
        /\ refunded' = refunded \cup {w} /\ balance' = balance - BuyIn
    BY <1>5 DEF RefundBy
  <2>2. Settlement = "returning" /\ Settlement' = "returning"
    BY <1>5, <2>1 DEF Settlement
  <2>3. /\ Due = [m \in hasJoined \ refunded |-> BuyIn]
        /\ Due' = [m \in (hasJoined \ refunded) \ {w} |-> BuyIn]
    BY <2>1 DEF Due
  <2>4. /\ w \in DOMAIN Due /\ Due[w] \in Nat /\ balance' = balance - Due[w]
        /\ DOMAIN Due' = DOMAIN Due \ {w} /\ Due' = [j \in DOMAIN Due \ {w} |-> Due[j]]
    BY <1>0, <2>1, <2>3
  <2>5. Promise!Pay({w})
    BY <2>2, <2>4, PayOne DEF Promise!Pay
  <2>6. {w} \in SUBSET DOMAIN Due
    BY <2>4
  <2> QED
    BY <2>5, <2>6 DEF Promise!Next
<1>6. ASSUME NEW w \in Wallets, NEW m \in Matrices, ProposeOutcomeBy(w, m), now' = now
      PROVE  [Promise!Next]_(Promise!vars)
  <2>1. Due' = Due /\ balance' = balance /\ Settlement' = Settlement
    BY <1>6 DEF ProposeOutcomeBy, Due, Settlement
  <2> QED
    BY <2>1, QuietStep
<1>7. ASSUME NEW w \in Wallets, NEW m \in Matrices, NEW i \in DOMAIN m, NEW r \in Wallets,
             ClaimBy(w, m, i, r), now' = now
      PROVE  Promise!Next
  <2>1. /\ state = "Resolved" /\ state' = state /\ m = lockedOutcome /\ lockedOutcome' = m
        /\ i \notin claimedIndex /\ claimedIndex' = claimedIndex \cup {i}
        /\ balance' = balance - m[i].amount
    BY <1>7 DEF ClaimBy
  <2>2. Settlement = "awarded" /\ Settlement' = "awarded"
    BY <2>1 DEF Settlement
  <2>3. /\ Due = [j \in DOMAIN m \ claimedIndex |-> m[j].amount]
        /\ Due' = [j \in (DOMAIN m \ claimedIndex) \ {i} |-> m[j].amount]
    BY <2>1 DEF Due
  <2>4. m[i].amount \in Nat
    BY AmountTypes
  <2>5. /\ i \in DOMAIN Due /\ Due[i] \in Nat /\ balance' = balance - Due[i]
        /\ DOMAIN Due' = DOMAIN Due \ {i} /\ Due' = [j \in DOMAIN Due \ {i} |-> Due[j]]
    BY <2>1, <2>3, <2>4
  <2>6. Promise!Pay({i})
    BY <2>2, <2>5, PayOne DEF Promise!Pay
  <2>7. {i} \in SUBSET DOMAIN Due
    BY <2>5
  <2> QED
    BY <2>6, <2>7 DEF Promise!Next
<1>8. ASSUME state = "JoiningOpen", Close(memberCount), UNCHANGED <<roster, votes, exits, balance>>,
             now' = now
      PROVE  [Promise!Next]_(Promise!vars)
  <2>1. Due' = Due /\ balance' = balance
    BY <1>8 DEF Close, Due
  <2>2. Settlement = "funding" /\ Settlement' \in {"funding", "returning"}
    BY <1>8 DEF Close, Settlement
  <2> QED
    BY <2>1, <2>2, QuietStep
<1> QED
  BY <1>1, <1>2, <1>3, <1>4, <1>5, <1>6, <1>7, <1>8 DEF CoreStep

\* The clone, relayed calls and the permissionless poke included, keeps the
\* promise of Escrow for any roster, matrices, threshold and deadlines: it is
\* settled once, by refunds or by a matrix that allocates what it holds, and
\* every claim is paid once.
THEOREM PoolImplementsEscrow == Spec => ImplementsEscrow
<1>1. Init => Promise!Init
  BY DEF Init, Promise!Init, Settlement, Due
<1>2. /\ CoreInv /\ IntentTypeOK /\ EscrowInv /\ [Next]_vars
      /\ (CoreInv /\ IntentTypeOK)' /\ EscrowInv'
      => [Promise!Next]_(Promise!vars)
  BY StepCases, ClockStep, EscrowSimulated DEF CoreInv, CoreTypeOK
<1> QED
  BY <1>1, <1>2, PoolInvariant, PoolEscrowInvariant, PTL DEF Spec, ImplementsEscrow, Promise!Spec
=============================================================================
