------------------------ MODULE WagerRegistryProofs ------------------------
(***************************************************************************)
(* Theorems about WagerRegistry for any users, tokens, claim codes,        *)
(* managers, adapters, arguments and bounds.                               *)
(*                                                                         *)
(* SettledFairly is not inductive: that a refund gives each user back what *)
(* he paid needs to know that the parties are two different users, that    *)
(* nothing left the wager before, and that an id the counter has not       *)
(* reached is untouched.  Inv adds these facts (Sound, Fair, FreshInv) and *)
(* the claim index, without which an open challenge could be rebound.      *)
(* Every call is first reduced to one of a few kinds of step on one wager  *)
(* (CallCases); each kind preserves Inv by a lemma of its own.  The money  *)
(* and the slots follow from the same kinds, as sums that change at one    *)
(* wager or at one manager.                                                *)
(***************************************************************************)
EXTENDS WagerRegistry, SumTheorems

\* The configuration and the world around the registry.
ConfigTypeOK ==
  /\ now \in Nat
  /\ paused \in BOOLEAN /\ guardSet \in BOOLEAN
  /\ frozen \subseteq Users /\ blocked \subseteq Users /\ allowedTokens \subseteq Tokens
  /\ adapters \in [OracleTypes -> Adapters \cup {NoAdapter}]
  /\ answers \in [Adapters -> [Conditions -> Answers]]
  /\ membershipManager \in Managers /\ authorized \subseteq Managers
  /\ tier \in [Managers -> [Users -> Tiers]]

\* The registry's own books.
StateTypeOK ==
  /\ nextWagerId \in Nat
  /\ wagers \in [Ids -> Wager]
  /\ drawConsent \in [Ids -> SUBSET {"creator", "opponent"}]
  /\ claimAuthority \in [Ids -> Authorities \cup {NoAddress}]
  /\ openWagerIdByClaim \in [Authorities -> Nat]
  /\ activeCount \in [Managers -> [Users -> Nat]]
  /\ balance \in [Tokens -> Nat]
  /\ paidIn \in [Ids -> [Users -> Nat]] /\ paidOut \in [Ids -> [Users -> Nat]]

\* What is true of one wager w into which the users put ins and got outs.
Contributed(w) ==
  [u \in Users |-> CASE u = w.creator -> w.creatorStake
                     [] u = w.opponent /\ w.status # "Open" -> w.opponentStake
                     [] OTHER -> 0]
Nothing == [u \in Users |-> 0]

Sound(w) ==
  /\ w.status # "Cancelled"
  /\ w.status = "None" => w = NoWager
  /\ w.status # "None" =>
       /\ w.creator \in Users /\ w.token \in Tokens /\ w.arbitrator # w.creator
       /\ w.resolutionType # "ThirdParty" => w.arbitrator = NoAddress
  /\ w.status \in {"Active", "Resolved", "Draw"} => w.opponent \in Users
  /\ w.opponent # NoAddress =>
       w.creator # w.opponent /\ w.arbitrator \notin {w.creator, w.opponent}
  /\ w.status \in {"Open", "Active"} => ~w.paid
  /\ w.status = "Resolved" => w.winner \in {w.creator, w.opponent}

Fair(w, ins, outs) ==
  /\ w.status \in {"None", "Refunded", "Draw"} => outs = ins
  /\ w.status \in {"Open", "Active", "Resolved"} => ins = Contributed(w)
  /\ w.status \in {"Open", "Active"} => outs = Nothing
  /\ w.status = "Resolved" => outs = IF w.paid THEN WinnerTakesAll(w) ELSE Nothing

\* Ids at and above the counter are untouched.
FreshInv ==
  /\ nextWagerId >= 1
  /\ \A i \in Ids : i >= nextWagerId =>
       /\ wagers[i] = NoWager /\ claimAuthority[i] = NoAddress
       /\ paidIn[i] = Nothing /\ paidOut[i] = Nothing

SoundInv == \A i \in Ids : Sound(wagers[i])
FairInv == \A i \in Ids : Fair(wagers[i], paidIn[i], paidOut[i])

Inv ==
  /\ ConfigTypeOK /\ StateTypeOK /\ FreshInv /\ SoundInv /\ FairInv
  /\ ClaimIndexConsistent

books == <<nextWagerId, wagers, claimAuthority, openWagerIdByClaim, activeCount,
           moneyVars>>

-----------------------------------------------------------------------------
\* A step of the registry, by what it does to the books.
OpenStep(i) ==
  /\ wagers[i].status = "Open"
  /\ \/ ReleaseOpen(i) /\ ClearClaim(i)
     \/ ExpireOpen(i)

ActiveStep(i) ==
  /\ wagers[i].status = "Active"
  /\ \/ \E winner \in {wagers[i].creator, wagers[i].opponent} : ResolveTo(i, winner)
     \/ SettleDraw(i)
     \/ RefundActive(i)

AcceptStep(i, u) == AcceptWagerBy(u, i) \/ \E proof : AcceptOpenWagerBy(u, i, proof)

CreateStep(u) ==
  \/ \E a \in Args : CreateWagerBy(u, a)
  \/ \E authority \in Authorities, a \in OpenArgs : CreateOpenWagerBy(u, authority, a)

\* Draw proposals and revocations touch nothing but the consents of one wager.
ConsentStep(i) ==
  /\ UNCHANGED <<books, configVars, worldVars>>
  /\ \E c \in SUBSET {"creator", "opponent"} : drawConsent' = [drawConsent EXCEPT ![i] = c]

WagerStep ==
  \/ \E u \in Users : CreateStep(u)
  \/ \E u \in Users, i \in Ids : AcceptStep(i, u) \/ ClaimPayoutBy(u, i)
  \/ \E i \in Ids : OpenStep(i) \/ ActiveStep(i) \/ ConsentStep(i)

\* Every call of a user or of anybody is one of these steps.
LEMMA CallCases ==
  ASSUME StateTypeOK, UserCall \/ AnybodyCall
  PROVE  WagerStep
<1>1. ASSUME NEW u \in Users, NEW i \in Ids, CancelOpen(u, i)
      PROVE  OpenStep(i)
  BY <1>1 DEF CancelOpen, CancelOpenBy, OpenStep
<1>2. ASSUME NEW u \in Users, NEW i \in Ids, DeclineWager(u, i)
      PROVE  OpenStep(i)
  BY <1>2 DEF DeclineWager, DeclineWagerBy, OpenStep, ClearClaim
<1>3. ASSUME NEW u \in Users, NEW i \in Ids, DeclareDraw(u, i)
      PROVE  ActiveStep(i) \/ ConsentStep(i)
  <2>1. drawConsent[i] \in SUBSET {"creator", "opponent"}
    BY DEF StateTypeOK
  <2>2. drawConsent[i] \cup {Role(wagers[i], u)} \in SUBSET {"creator", "opponent"}
    BY <2>1 DEF Role
  <2> QED
    BY <1>3, <2>2 DEF DeclareDraw, DeclareDrawBy, ActiveStep, ConsentStep, books
<1>4. ASSUME NEW u \in Users, NEW i \in Ids, RevokeDraw(u, i)
      PROVE  ConsentStep(i)
  <2>1. drawConsent[i] \in SUBSET {"creator", "opponent"} /\ drawConsent \in [Ids -> SUBSET {"creator", "opponent"}]
    BY DEF StateTypeOK
  <2>2. drawConsent[i] \ {Role(wagers[i], u)} \in SUBSET {"creator", "opponent"}
    BY <2>1
  <2> QED
    BY <1>4, <2>2 DEF RevokeDraw, RevokeDrawBy, ConsentStep, books
<1>5. ASSUME NEW u \in Users, NEW i \in Ids, NEW winner \in Users, DeclareWinner(u, i, winner)
      PROVE  ActiveStep(i)
  BY <1>5 DEF DeclareWinner, DeclareWinnerBy, ActiveStep
<1>6. ASSUME NEW i \in Ids, AutoResolveFromPolymarket(i) \/ AutoResolveFromOracle(i)
      PROVE  ActiveStep(i)
  BY <1>6 DEF AutoResolveFromPolymarket, AutoResolveFromOracle, SettleOracleWin, ActiveStep
<1>7. ASSUME NEW i \in Ids, NEW u, ClaimRefund(u, i) \/ BatchExpireOpen(i)
      PROVE  OpenStep(i) \/ ActiveStep(i)
  BY <1>7 DEF ClaimRefund, ClaimRefundBy, BatchExpireOpen, ExpireOpen, RefundActive,
              OpenStep, ActiveStep
<1>8. CASE UserCall
  <2>1. PICK u \in Users :
          \/ \E a \in Args : CreateWager(u, a)
          \/ \E authority \in Authorities, a \in OpenArgs : CreateOpenWager(u, authority, a)
          \/ \E i \in Ids :
               \/ AcceptWager(u, i) \/ CancelOpen(u, i) \/ DeclineWager(u, i)
               \/ DeclareDraw(u, i) \/ RevokeDraw(u, i) \/ ClaimPayout(u, i)
               \/ \E winner \in Users : DeclareWinner(u, i, winner)
               \/ \E authority \in Authorities, j \in Ids, taker \in Users :
                    AcceptOpenWager(u, i, <<authority, j, taker>>)
    BY <1>8 DEF UserCall
  <2> QED
    BY <2>1, <1>1, <1>2, <1>3, <1>4, <1>5
    DEF WagerStep, CreateStep, AcceptStep, CreateWager, CreateOpenWager, AcceptWager,
        AcceptOpenWager, ClaimPayout
<1>9. CASE AnybodyCall
  BY <1>9, <1>6, <1>7 DEF AnybodyCall, WagerStep
<1> QED
  BY <1>8, <1>9

-----------------------------------------------------------------------------
\* Updates of one wager stay inside the record type.
LEMMA WagerUpdates ==
  ASSUME NEW w \in Wager
  PROVE  /\ \A s \in Statuses : [w EXCEPT !.status = s] \in Wager
         /\ \A s \in Statuses, v \in Addresses :
              /\ [w EXCEPT !.status = s, !.winner = v] \in Wager
              /\ [w EXCEPT !.opponent = v, !.status = s] \in Wager
         /\ [w EXCEPT !.paid = TRUE] \in Wager
  BY DEF Wager

LEMMA NoWagerType == NoWager \in Wager
  BY DEF NoWager, Wager, Addresses, ResolutionTypes, Participant, Statuses

LEMMA NewWagerType ==
  ASSUME NEW u \in Users, NEW o \in Addresses, NEW a \in CreateArgs
  PROVE  NewWager(u, o, a) \in Wager
  BY DEF NewWager, CreateArgs, Wager, Addresses, Statuses
-----------------------------------------------------------------------------
\* What the shared effects do to the books of one wager, and that they leave
\* the others alone.
LEMMA PullStakeEffect ==
  ASSUME StateTypeOK, NEW i \in Ids, NEW t \in Tokens, NEW u \in Users, NEW n \in Nat,
         PullStake(i, t, u, n)
  PROVE  /\ balance' \in [Tokens -> Nat]
         /\ paidIn' \in [Ids -> [Users -> Nat]] /\ paidOut' \in [Ids -> [Users -> Nat]]
         /\ paidIn'[i] = [paidIn[i] EXCEPT ![u] = @ + n] /\ paidOut' = paidOut
         /\ \A j \in Ids \ {i} : paidIn'[j] = paidIn[j]
  BY DEF StateTypeOK, PullStake

LEMMA PayOutEffect ==
  ASSUME StateTypeOK, NEW i \in Ids, NEW t \in Tokens, NEW f \in [Users -> Nat],
         NEW n \in Nat, PayOut(i, t, f, n)
  PROVE  /\ balance' \in [Tokens -> Nat]
         /\ paidIn' \in [Ids -> [Users -> Nat]] /\ paidOut' \in [Ids -> [Users -> Nat]]
         /\ paidOut'[i] = [u \in Users |-> paidOut[i][u] + f[u]] /\ paidIn' = paidIn
         /\ \A j \in Ids \ {i} : paidOut'[j] = paidOut[j]
<1>1. balance[t] \in Nat /\ n <= balance[t] /\ balance' = [balance EXCEPT ![t] = @ - n]
  BY DEF StateTypeOK, PayOut
<1>2. balance[t] - n \in Nat
  BY <1>1
<1>3. balance' \in [Tokens -> Nat]
  BY <1>1, <1>2 DEF StateTypeOK
<1>4. /\ paidOut' = [paidOut EXCEPT ![i] = [u \in Users |-> @[u] + f[u]]]
      /\ paidIn' = paidIn
  BY DEF PayOut
<1>5. paidOut[i] \in [Users -> Nat]
  BY DEF StateTypeOK
<1>6. [u \in Users |-> paidOut[i][u] + f[u]] \in [Users -> Nat]
  BY <1>5
<1> QED
  BY <1>3, <1>4, <1>6 DEF StateTypeOK

LEMMA SlotEffects ==
  ASSUME StateTypeOK, ConfigTypeOK
  PROVE  /\ \A u \in Users : RecordCreate(u) => activeCount' \in [Managers -> [Users -> Nat]]
         /\ \A S : RecordClose(S) => activeCount' \in [Managers -> [Users -> Nat]]
<1>1. membershipManager \in Managers /\ activeCount \in [Managers -> [Users -> Nat]]
  BY DEF StateTypeOK, ConfigTypeOK
<1>2. ASSUME NEW u \in Users, RecordCreate(u)
      PROVE  activeCount' \in [Managers -> [Users -> Nat]]
  BY <1>1, <1>2 DEF RecordCreate
<1>3. ASSUME NEW S, RecordClose(S)
      PROVE  activeCount' \in [Managers -> [Users -> Nat]]
  <2> DEFINE c == activeCount[membershipManager]
             d == [u \in Users |-> IF u \in S /\ c[u] > 0 THEN c[u] - 1 ELSE c[u]]
  <2>1. c \in [Users -> Nat]
    BY <1>1
  <2>2. d \in [Users -> Nat]
    BY <2>1
  <2>3. activeCount' = [activeCount EXCEPT ![membershipManager] = d]
    BY <1>3 DEF RecordClose
  <2> QED
    BY <1>1, <2>2, <2>3
<1> QED
  BY <1>2, <1>3

LEMMA ClearClaimEffect ==
  ASSUME StateTypeOK, NEW i \in Ids, ClearClaim(i)
  PROVE  /\ claimAuthority' = [claimAuthority EXCEPT ![i] = NoAddress]
         /\ claimAuthority' \in [Ids -> Authorities \cup {NoAddress}]
         /\ openWagerIdByClaim' \in [Authorities -> Nat]
         /\ \A a \in Authorities : openWagerIdByClaim'[a] =
              IF a = claimAuthority[i] THEN 0 ELSE openWagerIdByClaim[a]
<1>1. /\ claimAuthority \in [Ids -> Authorities \cup {NoAddress}]
      /\ openWagerIdByClaim \in [Authorities -> Nat] /\ NoAddress \notin Authorities
  BY RegistryAssumption DEF StateTypeOK
<1>2. CASE claimAuthority[i] = NoAddress
  BY <1>1, <1>2 DEF ClearClaim
<1>3. CASE claimAuthority[i] # NoAddress
  BY <1>1, <1>3 DEF ClearClaim
<1> QED
  BY <1>2, <1>3

\* The configuration keeps its types: calls do not touch it.
LEMMA ConfigTyped ==
  ASSUME ConfigTypeOK, StateTypeOK, [Next]_vars
  PROVE  ConfigTypeOK'
<1>1. CASE WagerStep
  <2>1. UNCHANGED <<configVars, worldVars>>
    BY <1>1 DEF WagerStep, CreateStep, AcceptStep, OpenStep, ActiveStep, ConsentStep,
         CreateWagerBy, CreateOpenWagerBy, StoreWager, AcceptWagerBy, AcceptOpenWagerBy,
         SettleAccept, ClaimPayoutBy, ReleaseOpen, ExpireOpen, ResolveTo, SettleDraw,
         RefundActive, CloseActive
  <2> QED
    BY <2>1 DEF ConfigTypeOK, configVars, worldVars
<1> USE DEF ConfigTypeOK, configVars, worldVars
<1>2. CASE OperatorCall
  <2>1. CASE SetSanctionsGuard \/ SetPaused
    BY <2>1 DEF SetSanctionsGuard, SetPaused
  <2>2. ASSUME NEW m \in Managers, SetMembershipManager(m)
        PROVE  ConfigTypeOK'
    BY <2>2 DEF SetMembershipManager
  <2>3. ASSUME NEW rt \in OracleTypes, NEW ad \in Adapters \cup {NoAdapter},
               SetOracleAdapter(rt, ad)
        PROVE  ConfigTypeOK'
    BY <2>3 DEF SetOracleAdapter
  <2>4. ASSUME NEW t \in Tokens, NEW allowed \in BOOLEAN, SetTokenAllowed(t, allowed)
        PROVE  ConfigTypeOK'
    BY <2>4 DEF SetTokenAllowed
  <2>5. ASSUME NEW u \in Moderated, NEW on \in BOOLEAN, SetFrozen(u, on)
        PROVE  ConfigTypeOK'
    BY <2>5, RegistryAssumption DEF SetFrozen
  <2> QED
    BY <1>2, <2>1, <2>2, <2>3, <2>4, <2>5 DEF OperatorCall, UsedOracleTypes
<1>3. CASE Environment
  <2>1. CASE Tick
    BY <2>1 DEF Tick
  <2>2. ASSUME NEW m \in Managers, NEW allowed \in BOOLEAN, SetAuthorizedCaller(m, allowed)
        PROVE  ConfigTypeOK'
    BY <2>2 DEF SetAuthorizedCaller
  <2>3. ASSUME NEW m \in Managers, NEW u \in Moderated, NEW level \in Tiers,
               MembershipChange(m, u, level)
        PROVE  ConfigTypeOK'
    <3>1. u \in Users
      BY RegistryAssumption
    <3>2. tier' \in [Managers -> [Users -> Tiers]]
      BY <2>3, <3>1 DEF MembershipChange
    <3> QED
      BY <2>3, <3>2 DEF MembershipChange
  <2>4. ASSUME NEW u \in Moderated, SanctionsChange(u)
        PROVE  ConfigTypeOK'
    BY <2>4, RegistryAssumption DEF SanctionsChange
  <2>5. ASSUME NEW ad \in Adapters, NEW c \in Conditions, NEW answer \in {"yes", "no", "tie"},
               OracleReport(ad, c, answer)
        PROVE  ConfigTypeOK'
    <3>1. answer \in Answers
      BY DEF Answers
    <3>2. answers' \in [Adapters -> [Conditions -> Answers]]
      BY <2>5, <3>1 DEF OracleReport
    <3> QED
      BY <2>5, <3>2 DEF OracleReport
  <2> QED
    BY <1>3, <2>1, <2>2, <2>3, <2>4, <2>5 DEF Environment
<1>4. CASE UNCHANGED vars
  BY <1>4 DEF vars, configVars, worldVars, ConfigTypeOK
<1> QED
  BY <1>1, <1>2, <1>3, <1>4, CallCases DEF Next
-----------------------------------------------------------------------------
\* A change of one wager that is sound and fair by itself keeps all of them so.
LEMMA OneWager ==
  ASSUME Inv, NEW i \in Ids, NEW v \in Wager, wagers' = [wagers EXCEPT ![i] = v],
         Sound(v), Fair(v, paidIn'[i], paidOut'[i]),
         \A j \in Ids \ {i} : paidIn'[j] = paidIn[j] /\ paidOut'[j] = paidOut[j]
  PROVE  SoundInv' /\ FairInv' /\ wagers' \in [Ids -> Wager]
<1>1. wagers \in [Ids -> Wager]
  BY DEF Inv, StateTypeOK
<1>2. wagers'[i] = v /\ \A j \in Ids \ {i} : wagers'[j] = wagers[j]
  BY <1>1
<1>3. wagers' \in [Ids -> Wager]
  BY <1>1
<1>4. \A j \in Ids : Sound(wagers[j]) /\ Fair(wagers[j], paidIn[j], paidOut[j])
  BY DEF Inv, SoundInv, FairInv
<1>5. \A j \in Ids : Sound(wagers'[j])
  BY <1>2, <1>4
<1>6. \A j \in Ids : Fair(wagers'[j], paidIn'[j], paidOut'[j])
  BY <1>2, <1>4
<1> QED
  BY <1>3, <1>5, <1>6 DEF SoundInv, FairInv, Sound, Fair, Contributed, Nothing, WinnerTakesAll

\* An existing wager has an id below the counter.
LEMMA Allocated ==
  ASSUME Inv, NEW i \in Ids, wagers[i].status # "None"
  PROVE  i < nextWagerId
<1>1. NoWager.status = "None" /\ i \in Nat /\ nextWagerId \in Nat
  BY DEF NoWager, Inv, StateTypeOK, Ids
<1>2. i >= nextWagerId => wagers[i] = NoWager
  BY DEF Inv, FreshInv
<1> QED
  BY <1>1, <1>2

\* Untouched ids stay untouched when an existing wager changes.
LEMMA FreshKept ==
  ASSUME Inv, NEW i \in Ids, NEW v, wagers[i].status # "None", nextWagerId' = nextWagerId,
         wagers' = [wagers EXCEPT ![i] = v],
         \A j \in Ids \ {i} : /\ paidIn'[j] = paidIn[j] /\ paidOut'[j] = paidOut[j]
                              /\ claimAuthority'[j] = claimAuthority[j]
  PROVE  FreshInv'
<1>1. i < nextWagerId /\ i \in Nat /\ nextWagerId \in Nat
  BY Allocated DEF Inv, StateTypeOK, Ids
<1>2. \A j \in Ids : j >= nextWagerId => j # i
  BY <1>1 DEF Ids
<1>3. \A j \in Ids \ {i} : wagers'[j] = wagers[j]
  BY DEF Inv, StateTypeOK
<1> QED
  BY <1>2, <1>3 DEF Inv, FreshInv, Nothing

\* The claim index under a step that leaves it alone.
LEMMA ClaimKept ==
  ASSUME Inv, NEW i \in Ids, NEW v, wagers' = [wagers EXCEPT ![i] = v],
         UNCHANGED <<claimAuthority, openWagerIdByClaim>>, claimAuthority[i] = NoAddress,
         ~(v.status = "Open" /\ v.opponent = NoAddress)
  PROVE  ClaimIndexConsistent'
<1>1. wagers'[i] = v /\ \A j \in Ids \ {i} : wagers'[j] = wagers[j]
  BY DEF Inv, StateTypeOK
<1> QED
  BY <1>1 DEF Inv, ClaimIndexConsistent

\* The claim index under _clearClaim of a wager that leaves Open.
LEMMA ClaimCleared ==
  ASSUME Inv, NEW i \in Ids, NEW v, wagers' = [wagers EXCEPT ![i] = v],
         ClearClaim(i), v.status # "Open"
  PROVE  ClaimIndexConsistent'
<1>1. wagers'[i] = v /\ \A j \in Ids \ {i} : wagers'[j] = wagers[j]
  BY DEF Inv, StateTypeOK
<1>2. /\ claimAuthority \in [Ids -> Authorities \cup {NoAddress}]
      /\ claimAuthority' = [claimAuthority EXCEPT ![i] = NoAddress]
      /\ \A a \in Authorities : openWagerIdByClaim'[a] =
              IF a = claimAuthority[i] THEN 0 ELSE openWagerIdByClaim[a]
  BY ClearClaimEffect DEF Inv, StateTypeOK
<1>3. claimAuthority'[i] = NoAddress /\ \A j \in Ids \ {i} : claimAuthority'[j] = claimAuthority[j]
  BY <1>2
<1>4. \A j \in Ids \ {i} : claimAuthority[j] # NoAddress => claimAuthority[j] # claimAuthority[i]
  BY DEF Inv, ClaimIndexConsistent
<1>5. \A j \in Ids : claimAuthority'[j] # NoAddress =>
        /\ wagers'[j].status = "Open" /\ wagers'[j].opponent = NoAddress
        /\ openWagerIdByClaim'[claimAuthority'[j]] = j
  BY <1>1, <1>2, <1>3, <1>4 DEF Inv, ClaimIndexConsistent
<1>6. \A a \in Authorities : openWagerIdByClaim'[a] # 0 =>
        openWagerIdByClaim'[a] \in Ids /\ claimAuthority'[openWagerIdByClaim'[a]] = a
  BY <1>2, <1>3 DEF Inv, ClaimIndexConsistent
<1>7. \A j \in Ids : wagers'[j].status = "Open" /\ wagers'[j].opponent = NoAddress =>
        claimAuthority'[j] # NoAddress
  BY <1>1, <1>3 DEF Inv, ClaimIndexConsistent
<1> QED
  BY <1>5, <1>6, <1>7 DEF ClaimIndexConsistent
-----------------------------------------------------------------------------
\* What is paid back is what was put in.
LEMMA StakesBack ==
  ASSUME NEW w \in Wager, Sound(w)
  PROVE  /\ Pot(w) \in Nat /\ w.creatorStake \in Nat /\ Nothing \in [Users -> Nat]
         /\ CreatorStakeBack(w) \in [Users -> Nat] /\ BothStakesBack(w) \in [Users -> Nat]
         /\ WinnerTakesAll(w) \in [Users -> Nat]
         /\ w.status = "Open" =>
              [u \in Users |-> Nothing[u] + CreatorStakeBack(w)[u]] = Contributed(w)
         /\ w.status = "Active" =>
              [u \in Users |-> Nothing[u] + BothStakesBack(w)[u]] = Contributed(w)
         /\ [u \in Users |-> Nothing[u] + WinnerTakesAll(w)[u]] = WinnerTakesAll(w)
<1>1. w.creatorStake \in Nat /\ w.opponentStake \in Nat
  BY DEF Wager
<1>2. Pot(w) \in Nat
  BY <1>1 DEF Pot
<1>3. CreatorStakeBack(w) \in [Users -> Nat] /\ BothStakesBack(w) \in [Users -> Nat]
  BY <1>1 DEF CreatorStakeBack, BothStakesBack
<1>4. WinnerTakesAll(w) \in [Users -> Nat] /\ Nothing \in [Users -> Nat]
  BY <1>2 DEF WinnerTakesAll, Nothing
<1>5. w.status = "Open" =>
        \A u \in Users : Nothing[u] + CreatorStakeBack(w)[u] = Contributed(w)[u]
  BY <1>1 DEF Nothing, CreatorStakeBack, Contributed
<1>6. w.status = "Active" =>
        \A u \in Users : Nothing[u] + BothStakesBack(w)[u] = Contributed(w)[u]
  BY <1>1 DEF Nothing, BothStakesBack, Contributed
<1>7. \A u \in Users : Nothing[u] + WinnerTakesAll(w)[u] = WinnerTakesAll(w)[u]
  BY <1>2 DEF Nothing, WinnerTakesAll
<1>8. /\ Contributed(w) = [u \in Users |-> Contributed(w)[u]]
      /\ WinnerTakesAll(w) = [u \in Users |-> WinnerTakesAll(w)[u]]
  BY DEF Contributed, WinnerTakesAll
<1> QED
  BY <1>1, <1>2, <1>3, <1>4, <1>5, <1>6, <1>7, <1>8

\* Cancelling, declining and expiring an open wager.
LEMMA OpenKeepsInv ==
  ASSUME Inv, NEW i \in Ids, OpenStep(i)
  PROVE  StateTypeOK' /\ FreshInv' /\ SoundInv' /\ FairInv' /\ ClaimIndexConsistent'
<1> DEFINE w == wagers[i]
<1>1. w \in Wager /\ Sound(w) /\ Fair(w, paidIn[i], paidOut[i]) /\ w.status = "Open"
  BY DEF Inv, StateTypeOK, SoundInv, FairInv, OpenStep
<1>2. w.token \in Tokens /\ w.creator \in Users
  BY <1>1 DEF Sound
<1>3. PICK v \in {NoWager, [w EXCEPT !.status = "Refunded"]} :
        /\ wagers' = [wagers EXCEPT ![i] = v]
        /\ ClearClaim(i) /\ RecordClose({w.creator})
        /\ PayOut(i, w.token, CreatorStakeBack(w), w.creatorStake)
        /\ UNCHANGED <<nextWagerId, drawConsent>>
  BY DEF OpenStep, ReleaseOpen, ExpireOpen, SetWager
<1>4. v \in Wager
  BY <1>1, NoWagerType, WagerUpdates DEF Statuses
<1>5. /\ balance' \in [Tokens -> Nat]
      /\ paidIn' \in [Ids -> [Users -> Nat]] /\ paidOut' \in [Ids -> [Users -> Nat]]
      /\ paidOut'[i] = [u \in Users |-> paidOut[i][u] + CreatorStakeBack(w)[u]]
      /\ paidIn' = paidIn /\ \A j \in Ids \ {i} : paidOut'[j] = paidOut[j]
  <2> HIDE DEF w
  <2>1. CreatorStakeBack(w) \in [Users -> Nat] /\ w.creatorStake \in Nat
    BY <1>1, StakesBack
  <2> QED
    BY <2>1, <1>2, <1>3, PayOutEffect DEF Inv
<1>6. paidOut[i] = Nothing /\ paidIn[i] = Contributed(w)
  BY <1>1 DEF Fair
<1>7. paidOut'[i] = paidIn'[i]
  <2> HIDE DEF w
  <2> QED
    BY <1>1, <1>5, <1>6, StakesBack
<1>8. v.status \in {"None", "Refunded"} /\ Sound(v)
  <2>1. CASE v = NoWager
    BY <2>1 DEF NoWager, Sound
  <2>2. CASE v = [w EXCEPT !.status = "Refunded"]
    BY <2>2, <1>1 DEF Sound, Wager
  <2> QED
    BY <1>3, <2>1, <2>2
<1>9. Fair(v, paidIn'[i], paidOut'[i])
  BY <1>7, <1>8 DEF Fair
<1> HIDE DEF w
<1>10. SoundInv' /\ FairInv' /\ wagers' \in [Ids -> Wager]
  BY <1>3, <1>4, <1>5, <1>8, <1>9, OneWager
<1>11. /\ claimAuthority' = [claimAuthority EXCEPT ![i] = NoAddress]
       /\ claimAuthority' \in [Ids -> Authorities \cup {NoAddress}]
       /\ openWagerIdByClaim' \in [Authorities -> Nat]
  BY <1>3, ClearClaimEffect DEF Inv
<1>12. \A j \in Ids \ {i} : claimAuthority'[j] = claimAuthority[j]
  BY <1>11 DEF Inv, StateTypeOK
<1>13. FreshInv'
  BY <1>1, <1>3, <1>5, <1>12, FreshKept DEF w
<1>14. ClaimIndexConsistent'
  BY <1>3, <1>8, ClaimCleared
<1>15. StateTypeOK'
  BY <1>3, <1>5, <1>10, <1>11, SlotEffects DEF Inv, StateTypeOK
<1> QED
  BY <1>10, <1>13, <1>14, <1>15

\* Only an open challenge is in the claim index.
LEMMA NotIndexed ==
  ASSUME Inv, NEW i \in Ids, wagers[i].status # "Open" \/ wagers[i].opponent # NoAddress
  PROVE  claimAuthority[i] = NoAddress
  BY DEF Inv, ClaimIndexConsistent

\* A verdict: the wager is resolved, no money moves.
LEMMA VerdictKeepsInv ==
  ASSUME Inv, NEW i \in Ids, wagers[i].status = "Active",
         NEW winner \in {wagers[i].creator, wagers[i].opponent}, ResolveTo(i, winner)
  PROVE  StateTypeOK' /\ FreshInv' /\ SoundInv' /\ FairInv' /\ ClaimIndexConsistent'
<1> DEFINE w == wagers[i]
           v == [w EXCEPT !.status = "Resolved", !.winner = winner]
<1>1. w \in Wager /\ Sound(w) /\ Fair(w, paidIn[i], paidOut[i])
  BY DEF Inv, StateTypeOK, SoundInv, FairInv
<1>2. w.creator \in Users /\ w.opponent \in Users /\ winner \in Addresses
  BY <1>1 DEF Sound, Addresses
<1>3. v \in Wager
  BY <1>1, <1>2, WagerUpdates DEF Statuses
<1>4. /\ wagers' = [wagers EXCEPT ![i] = v]
      /\ UNCHANGED <<nextWagerId, claimAuthority, openWagerIdByClaim, drawConsent,
                     balance, paidIn, paidOut>>
      /\ RecordClose({v.creator, v.opponent})
  BY DEF ResolveTo, CloseActive, SetWager, moneyVars
<1>5. /\ v.status = "Resolved" /\ v.winner = winner /\ v.paid = w.paid
      /\ v.creator = w.creator /\ v.opponent = w.opponent /\ v.arbitrator = w.arbitrator
      /\ v.token = w.token /\ v.resolutionType = w.resolutionType
      /\ v.creatorStake = w.creatorStake /\ v.opponentStake = w.opponentStake
  BY <1>1 DEF Wager
<1>6. Sound(v)
  BY <1>1, <1>2, <1>5 DEF Sound
<1>7. Contributed(v) = Contributed(w)
  BY <1>5 DEF Contributed
<1>8. Fair(v, paidIn'[i], paidOut'[i])
  BY <1>1, <1>4, <1>5, <1>7 DEF Fair, Sound
<1> HIDE DEF v
<1>9. SoundInv' /\ FairInv' /\ wagers' \in [Ids -> Wager]
  BY <1>3, <1>4, <1>6, <1>8, OneWager
<1>10. FreshInv'
  BY <1>4, FreshKept
<1>11. ClaimIndexConsistent'
  BY <1>4, <1>5, NotIndexed, ClaimKept
<1>12. StateTypeOK'
  BY <1>4, <1>9, SlotEffects DEF Inv, StateTypeOK
<1> QED
  BY <1>9, <1>10, <1>11, <1>12

\* A draw or a refund of an active wager: both stakes go back.
LEMMA BothBackKeepsInv ==
  ASSUME Inv, NEW i \in Ids, wagers[i].status = "Active", SettleDraw(i) \/ RefundActive(i)
  PROVE  StateTypeOK' /\ FreshInv' /\ SoundInv' /\ FairInv' /\ ClaimIndexConsistent'
<1> DEFINE w == wagers[i]
<1>1. w \in Wager /\ Sound(w) /\ Fair(w, paidIn[i], paidOut[i])
  BY DEF Inv, StateTypeOK, SoundInv, FairInv
<1>2. w.creator \in Users /\ w.opponent \in Users /\ w.token \in Tokens
  BY <1>1 DEF Sound
<1>3. PICK s \in {"Draw", "Refunded"} :
        /\ wagers' = [wagers EXCEPT ![i] = [w EXCEPT !.status = s]]
        /\ UNCHANGED <<nextWagerId, claimAuthority, openWagerIdByClaim>>
        /\ \E S : RecordClose(S)
        /\ drawConsent' \in {drawConsent, [drawConsent EXCEPT ![i] = {}]}
        /\ PayOut(i, w.token, BothStakesBack(w), Pot(w))
  BY DEF SettleDraw, RefundActive, CloseActive, SetWager
<1> DEFINE v == [w EXCEPT !.status = s]
<1>4. v \in Wager
  BY <1>1, WagerUpdates DEF Statuses
<1>5. /\ balance' \in [Tokens -> Nat]
      /\ paidIn' \in [Ids -> [Users -> Nat]] /\ paidOut' \in [Ids -> [Users -> Nat]]
      /\ paidOut'[i] = [u \in Users |-> paidOut[i][u] + BothStakesBack(w)[u]]
      /\ paidIn' = paidIn /\ \A j \in Ids \ {i} : paidOut'[j] = paidOut[j]
  <2> HIDE DEF w
  <2>1. BothStakesBack(w) \in [Users -> Nat] /\ Pot(w) \in Nat
    BY <1>1, StakesBack
  <2> QED
    BY <2>1, <1>2, <1>3, PayOutEffect DEF Inv
<1>6. paidOut[i] = Nothing /\ paidIn[i] = Contributed(w)
  BY <1>1 DEF Fair
<1>7. paidOut'[i] = paidIn'[i]
  <2>1. w.status = "Active"
    OBVIOUS
  <2> HIDE DEF w
  <2> QED
    BY <1>1, <1>5, <1>6, <2>1, StakesBack
<1>8. /\ v.status = s /\ v.creator = w.creator /\ v.opponent = w.opponent
      /\ v.arbitrator = w.arbitrator /\ v.token = w.token /\ v.resolutionType = w.resolutionType
  BY <1>1 DEF Wager
<1>9. Sound(v)
  BY <1>1, <1>2, <1>8 DEF Sound
<1>10. Fair(v, paidIn'[i], paidOut'[i])
  BY <1>7, <1>8 DEF Fair
<1>11. wagers' = [wagers EXCEPT ![i] = v]
  BY <1>3
<1> HIDE DEF v
<1>12. SoundInv' /\ FairInv' /\ wagers' \in [Ids -> Wager]
  BY <1>4, <1>5, <1>9, <1>10, <1>11, OneWager
<1>13. FreshInv'
  BY <1>3, <1>5, <1>11, FreshKept
<1>14. ClaimIndexConsistent'
  BY <1>3, <1>8, <1>11, NotIndexed, ClaimKept
<1>15. drawConsent' \in [Ids -> SUBSET {"creator", "opponent"}]
  BY <1>3 DEF Inv, StateTypeOK
<1>16. activeCount' \in [Managers -> [Users -> Nat]]
  BY <1>3, SlotEffects DEF Inv
<1>17. StateTypeOK'
  BY <1>3, <1>5, <1>12, <1>15, <1>16 DEF Inv, StateTypeOK
<1> QED
  BY <1>12, <1>13, <1>14, <1>17

\* The winner collects the pot.
LEMMA PayoutKeepsInv ==
  ASSUME Inv, NEW i \in Ids, NEW actor \in Users, ClaimPayoutBy(actor, i)
  PROVE  StateTypeOK' /\ FreshInv' /\ SoundInv' /\ FairInv' /\ ClaimIndexConsistent'
<1> DEFINE w == wagers[i]
           v == [w EXCEPT !.paid = TRUE]
<1>1. w \in Wager /\ Sound(w) /\ Fair(w, paidIn[i], paidOut[i])
  BY DEF Inv, StateTypeOK, SoundInv, FairInv
<1>2. /\ w.status = "Resolved" /\ ~w.paid
      /\ wagers' = [wagers EXCEPT ![i] = v]
      /\ PayOut(i, w.token, WinnerTakesAll(w), Pot(w))
      /\ UNCHANGED <<nextWagerId, drawConsent, claimAuthority, openWagerIdByClaim,
                     activeCount>>
  BY DEF ClaimPayoutBy, SetWager
<1>3. v \in Wager /\ w.token \in Tokens
  BY <1>1, <1>2, WagerUpdates DEF Sound
<1>4. /\ balance' \in [Tokens -> Nat]
      /\ paidIn' \in [Ids -> [Users -> Nat]] /\ paidOut' \in [Ids -> [Users -> Nat]]
      /\ paidOut'[i] = [u \in Users |-> paidOut[i][u] + WinnerTakesAll(w)[u]]
      /\ paidIn' = paidIn /\ \A j \in Ids \ {i} : paidOut'[j] = paidOut[j]
  <2> HIDE DEF w, v
  <2>1. WinnerTakesAll(w) \in [Users -> Nat] /\ Pot(w) \in Nat
    BY <1>1, StakesBack
  <2> QED
    BY <2>1, <1>2, <1>3, PayOutEffect DEF Inv
<1>5. paidOut[i] = Nothing /\ paidIn[i] = Contributed(w)
  BY <1>1, <1>2 DEF Fair
<1>6. paidOut'[i] = WinnerTakesAll(w)
  <2> HIDE DEF w, v
  <2> QED
    BY <1>1, <1>4, <1>5, StakesBack
<1>7. /\ v.status = w.status /\ v.creator = w.creator /\ v.opponent = w.opponent
      /\ v.arbitrator = w.arbitrator /\ v.token = w.token /\ v.winner = w.winner
      /\ v.resolutionType = w.resolutionType
      /\ v.creatorStake = w.creatorStake /\ v.opponentStake = w.opponentStake /\ v.paid
  BY <1>1 DEF Wager
<1>8. Sound(v)
  BY <1>1, <1>2, <1>7 DEF Sound
<1>9. Contributed(v) = Contributed(w) /\ WinnerTakesAll(v) = WinnerTakesAll(w)
  BY <1>7 DEF Contributed, WinnerTakesAll, Pot
<1>10. Fair(v, paidIn'[i], paidOut'[i])
  BY <1>2, <1>4, <1>5, <1>6, <1>7, <1>9 DEF Fair
<1> HIDE DEF v
<1>11. SoundInv' /\ FairInv' /\ wagers' \in [Ids -> Wager]
  BY <1>2, <1>3, <1>4, <1>8, <1>10, OneWager
<1>12. FreshInv'
  BY <1>2, <1>4, FreshKept
<1>13. ClaimIndexConsistent'
  BY <1>2, <1>7, NotIndexed, ClaimKept
<1>14. StateTypeOK'
  BY <1>2, <1>4, <1>11 DEF Inv, StateTypeOK
<1> QED
  BY <1>11, <1>12, <1>13, <1>14

\* An opponent or a taker accepts: his stake joins the creator's.
LEMMA AcceptKeepsInv ==
  ASSUME Inv, NEW i \in Ids, NEW taker \in Users, AcceptStep(i, taker)
  PROVE  StateTypeOK' /\ FreshInv' /\ SoundInv' /\ FairInv' /\ ClaimIndexConsistent'
<1> DEFINE w == wagers[i]
           v == [w EXCEPT !.opponent = taker, !.status = "Active"]
<1>1. w \in Wager /\ Sound(w) /\ Fair(w, paidIn[i], paidOut[i])
  BY DEF Inv, StateTypeOK, SoundInv, FairInv
<1>2. w.status = "Open" /\ SettleAccept(taker, i)
  BY DEF AcceptStep, AcceptWagerBy, AcceptOpenWagerBy
<1>3. w.creator \in Users /\ w.token \in Tokens /\ w.opponentStake \in Nat /\ taker # NoAddress
  BY <1>1, <1>2, RegistryAssumption DEF Sound, Wager
<1>4. v \in Wager
  BY <1>1, WagerUpdates DEF Statuses, Addresses
<1>5. wagers' = [wagers EXCEPT ![i] = v] /\ ClearClaim(i)
  <2>1. CASE AcceptWagerBy(taker, i)
    <3>1. /\ taker = w.opponent /\ UNCHANGED <<claimAuthority, openWagerIdByClaim>>
          /\ wagers' = [wagers EXCEPT ![i] = [w EXCEPT !.status = "Active"]]
      BY <2>1 DEF AcceptWagerBy, SetWager
    <3>2. v = [w EXCEPT !.status = "Active"]
      BY <3>1, <1>1 DEF Wager
    <3>3. claimAuthority[i] = NoAddress
      BY <3>1, <1>3, NotIndexed
    <3> QED
      BY <3>1, <3>2, <3>3 DEF ClearClaim
  <2>2. CASE \E proof : AcceptOpenWagerBy(taker, i, proof)
    BY <2>2 DEF AcceptOpenWagerBy, SetWager
  <2> QED
    BY <2>1, <2>2 DEF AcceptStep
<1>6. taker # w.creator /\ w.arbitrator # taker /\ w.arbitrator # w.creator
  <2>1. CASE AcceptWagerBy(taker, i)
    BY <2>1, <1>1, <1>3 DEF AcceptWagerBy, Sound
  <2>2. CASE \E proof : AcceptOpenWagerBy(taker, i, proof)
    BY <2>2, <1>1, <1>2, <1>3 DEF AcceptOpenWagerBy, Sound
  <2> QED
    BY <2>1, <2>2 DEF AcceptStep
<1>7. /\ v.status = "Active" /\ v.creator = w.creator /\ v.opponent = taker
      /\ v.arbitrator = w.arbitrator /\ v.token = w.token /\ v.paid = w.paid
      /\ v.resolutionType = w.resolutionType
      /\ v.creatorStake = w.creatorStake /\ v.opponentStake = w.opponentStake
  BY <1>1 DEF Wager
<1>8. Sound(v)
  BY <1>1, <1>2, <1>3, <1>6, <1>7 DEF Sound
<1>9. /\ PullStake(i, w.token, taker, w.opponentStake) /\ RecordCreate(taker)
      /\ UNCHANGED <<nextWagerId, drawConsent>>
  BY <1>2 DEF SettleAccept
<1>10. /\ balance' \in [Tokens -> Nat]
       /\ paidIn' \in [Ids -> [Users -> Nat]] /\ paidOut' \in [Ids -> [Users -> Nat]]
       /\ paidIn'[i] = [paidIn[i] EXCEPT ![taker] = @ + w.opponentStake]
       /\ paidOut' = paidOut /\ \A j \in Ids \ {i} : paidIn'[j] = paidIn[j]
  <2> HIDE DEF w, v
  <2> QED
    BY <1>3, <1>9, PullStakeEffect DEF Inv
<1>11. paidOut[i] = Nothing /\ paidIn[i] = Contributed(w)
  BY <1>1, <1>2 DEF Fair
<1>12. paidIn'[i] = Contributed(v)
  <2>2. w.creatorStake \in Nat /\ w.opponentStake \in Nat
    BY <1>1 DEF Wager
  <2> HIDE DEF w, v
  <2>3. \A u \in Users : [Contributed(w) EXCEPT ![taker] = @ + w.opponentStake][u] = Contributed(v)[u]
    BY <1>2, <1>6, <1>7, <2>2 DEF Contributed
  <2>5. [Contributed(w) EXCEPT ![taker] = @ + w.opponentStake] = [u \in Users |-> Contributed(v)[u]]
    BY <2>3 DEF Contributed
  <2>6. Contributed(v) = [u \in Users |-> Contributed(v)[u]]
    BY DEF Contributed
  <2> QED
    BY <1>10, <1>11, <2>5, <2>6
<1>13. Fair(v, paidIn'[i], paidOut'[i])
  BY <1>7, <1>10, <1>11, <1>12 DEF Fair
<1> HIDE DEF v
<1>14. SoundInv' /\ FairInv' /\ wagers' \in [Ids -> Wager]
  BY <1>4, <1>5, <1>8, <1>10, <1>13, OneWager
<1>15. /\ claimAuthority' = [claimAuthority EXCEPT ![i] = NoAddress]
       /\ claimAuthority' \in [Ids -> Authorities \cup {NoAddress}]
       /\ openWagerIdByClaim' \in [Authorities -> Nat]
  BY <1>5, ClearClaimEffect DEF Inv
<1>16. \A j \in Ids \ {i} : claimAuthority'[j] = claimAuthority[j]
  BY <1>15 DEF Inv, StateTypeOK
<1>17. FreshInv'
  BY <1>2, <1>5, <1>9, <1>10, <1>16, FreshKept
<1>18. ClaimIndexConsistent'
  BY <1>5, <1>7, ClaimCleared
<1>19. activeCount' \in [Managers -> [Users -> Nat]]
  BY <1>9, SlotEffects DEF Inv
<1>20. StateTypeOK'
  BY <1>9, <1>10, <1>14, <1>15, <1>19 DEF Inv, StateTypeOK
<1> QED
  BY <1>14, <1>17, <1>18, <1>20

\* Creating a wager, named opponent or open challenge: a fresh id, one stake.
LEMMA CreateKeepsInv ==
  ASSUME Inv, NEW creator \in Users, CreateStep(creator)
  PROVE  StateTypeOK' /\ FreshInv' /\ SoundInv' /\ FairInv' /\ ClaimIndexConsistent'
<1>0. PICK i \in Nat : i = nextWagerId
  BY DEF Inv, StateTypeOK
<1>1. PICK a \in CreateArgs, opponent \in Addresses :
        /\ StoreWager(creator, opponent, a)
        /\ CheckArbitrator(a, {creator, opponent})
        /\ \/ /\ opponent # NoAddress /\ opponent # creator
              /\ UNCHANGED <<claimAuthority, openWagerIdByClaim>>
           \/ /\ opponent = NoAddress
              /\ \E authority \in Authorities :
                   /\ openWagerIdByClaim[authority] = 0
                   /\ claimAuthority' = [claimAuthority EXCEPT ![i] = authority]
                   /\ openWagerIdByClaim' = [openWagerIdByClaim EXCEPT ![authority] = i]
  <2>1. ASSUME NEW b \in Args, CreateWagerBy(creator, b)
        PROVE  /\ b \in CreateArgs /\ b.opponent \in Addresses
               /\ StoreWager(creator, b.opponent, b)
               /\ CheckArbitrator(b, {creator, b.opponent})
               /\ b.opponent # NoAddress /\ b.opponent # creator
               /\ UNCHANGED <<claimAuthority, openWagerIdByClaim>>
    BY <2>1, RegistryAssumption DEF CreateWagerBy, CreateArgs
  <2>2. ASSUME NEW authority \in Authorities, NEW b \in OpenArgs,
               CreateOpenWagerBy(creator, authority, b)
        PROVE  \E a \in CreateArgs :
                 /\ StoreWager(creator, NoAddress, a)
                 /\ CheckArbitrator(a, {creator, NoAddress})
                 /\ openWagerIdByClaim[authority] = 0
                 /\ claimAuthority' = [claimAuthority EXCEPT ![i] = authority]
                 /\ openWagerIdByClaim' = [openWagerIdByClaim EXCEPT ![authority] = i]
    <3> DEFINE a == [b EXCEPT !.opponentStake = b.creatorStake]
    <3>1. b \in CreateArgs
      BY RegistryAssumption
    <3>2. a \in CreateArgs /\ a.arbitrator = b.arbitrator /\ a.resolutionType = b.resolutionType
      BY <3>1 DEF CreateArgs
    <3>3. /\ StoreWager(creator, NoAddress, a)
          /\ CheckArbitrator(b, {creator})
          /\ openWagerIdByClaim[authority] = 0
          /\ claimAuthority' = [claimAuthority EXCEPT ![i] = authority]
          /\ openWagerIdByClaim' = [openWagerIdByClaim EXCEPT ![authority] = i]
      BY <1>0, <2>2 DEF CreateOpenWagerBy
    <3> HIDE DEF a
    <3>4. CheckArbitrator(a, {creator, NoAddress})
      BY <3>2, <3>3 DEF CheckArbitrator
    <3> QED
      BY <3>2, <3>3, <3>4
  <2>3. NoAddress \in Addresses
    BY DEF Addresses
  <2>4. CASE \E b \in Args : CreateWagerBy(creator, b)
    BY <2>4, <2>1
  <2>5. CASE \E authority \in Authorities, b \in OpenArgs : CreateOpenWagerBy(creator, authority, b)
    BY <2>5, <2>2, <2>3
  <2> QED
    BY <2>4, <2>5 DEF CreateStep
<1> DEFINE v == NewWager(creator, opponent, a)
<1>2. /\ i <= MaxWagers /\ nextWagerId' = i + 1 /\ wagers' = [wagers EXCEPT ![i] = v]
      /\ PullStake(i, a.token, creator, a.creatorStake) /\ RecordCreate(creator)
      /\ drawConsent' = drawConsent
  BY <1>0, <1>1 DEF StoreWager, SetWager
<1>3. i \in Ids
  BY <1>0, <1>2, RegistryAssumption DEF Inv, StateTypeOK, FreshInv, Ids
<1>4. /\ wagers[i] = NoWager /\ claimAuthority[i] = NoAddress
      /\ paidIn[i] = Nothing /\ paidOut[i] = Nothing
  BY <1>0, <1>3 DEF Inv, FreshInv
<1>5. v \in Wager /\ a.token \in Tokens /\ a.creatorStake \in Nat
  BY NewWagerType DEF CreateArgs
<1>6. /\ v.status = "Open" /\ v.creator = creator /\ v.opponent = opponent /\ ~v.paid
      /\ v.arbitrator = a.arbitrator /\ v.resolutionType = a.resolutionType
      /\ v.token = a.token /\ v.creatorStake = a.creatorStake
  BY DEF NewWager
<1> HIDE DEF v
<1>7. Sound(v)
  BY <1>1, <1>5, <1>6, RegistryAssumption DEF Sound, CheckArbitrator
<1>8. /\ balance' \in [Tokens -> Nat]
      /\ paidIn' \in [Ids -> [Users -> Nat]] /\ paidOut' \in [Ids -> [Users -> Nat]]
      /\ paidIn'[i] = [paidIn[i] EXCEPT ![creator] = @ + a.creatorStake]
      /\ paidOut' = paidOut /\ \A j \in Ids \ {i} : paidIn'[j] = paidIn[j]
  BY <1>2, <1>3, <1>5, PullStakeEffect DEF Inv
<1>9. paidIn'[i] = Contributed(v)
  BY <1>4, <1>5, <1>6, <1>8 DEF Nothing, Contributed
<1>10. Fair(v, paidIn'[i], paidOut'[i])
  BY <1>4, <1>6, <1>8, <1>9 DEF Fair
<1>11. SoundInv' /\ FairInv' /\ wagers' \in [Ids -> Wager]
  BY <1>2, <1>3, <1>5, <1>7, <1>8, <1>10, OneWager
<1>12. /\ claimAuthority \in [Ids -> Authorities \cup {NoAddress}]
       /\ openWagerIdByClaim \in [Authorities -> Nat] /\ wagers \in [Ids -> Wager]
       /\ NoAddress \notin Authorities
  BY RegistryAssumption DEF Inv, StateTypeOK
<1>13. /\ claimAuthority' \in [Ids -> Authorities \cup {NoAddress}]
       /\ openWagerIdByClaim' \in [Authorities -> Nat]
       /\ \A j \in Ids \ {i} : claimAuthority'[j] = claimAuthority[j] /\ wagers'[j] = wagers[j]
       /\ wagers'[i] = v
  BY <1>1, <1>2, <1>3, <1>12
<1>14. FreshInv'
  <2>1. \A j \in Ids : j >= i + 1 => j # i /\ j >= i
    BY <1>3 DEF Ids
  <2>2. nextWagerId' = i + 1 /\ i >= 1
    BY <1>2, <1>3 DEF Ids
  <2>3. FreshInv
    BY DEF Inv
  <2>4. ASSUME NEW j \in Ids, j >= i + 1
        PROVE  /\ wagers'[j] = NoWager /\ claimAuthority'[j] = NoAddress
               /\ paidIn'[j] = Nothing /\ paidOut'[j] = Nothing
    BY <2>4, <1>0, <1>3, <1>8, <1>13, <2>1, <2>3 DEF FreshInv
  <2>5. i \in Nat /\ \A j \in Ids : j \in Nat
    BY <1>3 DEF Ids
  <2>6. nextWagerId' >= 1
    BY <2>2, <2>5
  <2> QED
    BY <2>2, <2>4, <2>6 DEF FreshInv, Nothing
<1>15. ClaimIndexConsistent'
  <2>1. CASE UNCHANGED <<claimAuthority, openWagerIdByClaim>> /\ opponent # NoAddress
    BY <2>1, <1>2, <1>3, <1>4, <1>6, ClaimKept
  <2>2. ASSUME opponent = NoAddress, NEW authority \in Authorities,
               openWagerIdByClaim[authority] = 0,
               claimAuthority' = [claimAuthority EXCEPT ![i] = authority],
               openWagerIdByClaim' = [openWagerIdByClaim EXCEPT ![authority] = i]
        PROVE  ClaimIndexConsistent'
    <3>1. claimAuthority'[i] = authority /\ openWagerIdByClaim'[authority] = i
      BY <2>2, <1>3, <1>12
    <3>2. \A j \in Ids : claimAuthority[j] # authority
      BY <2>2, <1>12 DEF Inv, ClaimIndexConsistent, Ids
    <3>3. \A b \in Authorities \ {authority} : openWagerIdByClaim'[b] = openWagerIdByClaim[b]
      BY <2>2, <1>12
    <3>4. \A b \in Authorities : openWagerIdByClaim[b] # i
      BY <1>3, <1>4, <1>12 DEF Inv, ClaimIndexConsistent, Ids
    <3>5. \A j \in Ids : claimAuthority'[j] # NoAddress =>
            /\ wagers'[j].status = "Open" /\ wagers'[j].opponent = NoAddress
            /\ openWagerIdByClaim'[claimAuthority'[j]] = j
      BY <2>2, <3>1, <3>2, <3>3, <1>6, <1>12, <1>13 DEF Inv, ClaimIndexConsistent
    <3>6. \A b \in Authorities : openWagerIdByClaim'[b] # 0 =>
            openWagerIdByClaim'[b] \in Ids /\ claimAuthority'[openWagerIdByClaim'[b]] = b
      BY <3>1, <3>3, <3>4, <1>3, <1>13 DEF Inv, ClaimIndexConsistent
    <3>7. \A j \in Ids : wagers'[j].status = "Open" /\ wagers'[j].opponent = NoAddress =>
            claimAuthority'[j] # NoAddress
      BY <3>1, <1>12, <1>13 DEF Inv, ClaimIndexConsistent
    <3> QED
      BY <3>5, <3>6, <3>7 DEF ClaimIndexConsistent
  <2> QED
    BY <1>1, <2>1, <2>2
<1>16. activeCount' \in [Managers -> [Users -> Nat]]
  BY <1>2, SlotEffects DEF Inv
<1>18. StateTypeOK'
  BY <1>2, <1>3, <1>8, <1>11, <1>13, <1>16 DEF Inv, StateTypeOK
<1> QED
  BY <1>11, <1>14, <1>15, <1>18

-----------------------------------------------------------------------------
\* A step that leaves the books and the consents' type alone.
LEMMA QuietKeepsInv ==
  ASSUME Inv, UNCHANGED books, drawConsent' \in [Ids -> SUBSET {"creator", "opponent"}]
  PROVE  StateTypeOK' /\ FreshInv' /\ SoundInv' /\ FairInv' /\ ClaimIndexConsistent'
<1>1. /\ nextWagerId' = nextWagerId /\ wagers' = wagers /\ claimAuthority' = claimAuthority
      /\ openWagerIdByClaim' = openWagerIdByClaim /\ activeCount' = activeCount
      /\ balance' = balance /\ paidIn' = paidIn /\ paidOut' = paidOut
  BY DEF books, moneyVars
<1>2. StateTypeOK'
  BY <1>1 DEF Inv, StateTypeOK
<1>3. FreshInv' /\ SoundInv' /\ FairInv'
  BY <1>1 DEF Inv, FreshInv, SoundInv, FairInv
<1>4. ClaimIndexConsistent'
  BY <1>1 DEF Inv, ClaimIndexConsistent
<1> QED
  BY <1>2, <1>3, <1>4

\* The operators and the world around the registry move no wager and no money.
LEMMA OutsideSteps ==
  ASSUME OperatorCall \/ Environment \/ UNCHANGED vars
  PROVE  UNCHANGED <<books, drawConsent>>
<1>1. CASE UNCHANGED vars
  BY <1>1 DEF vars, wagerVars, books
<1>2. CASE OperatorCall
  BY <1>2 DEF OperatorCall, SetSanctionsGuard, SetPaused, SetMembershipManager,
       SetOracleAdapter, SetTokenAllowed, SetFrozen, wagerVars, books
<1>3. CASE Environment
  BY <1>3 DEF Environment, Tick, SetAuthorizedCaller, MembershipChange, SanctionsChange,
       OracleReport, wagerVars, books
<1> QED
  BY <1>1, <1>2, <1>3

\* The invariant is inductive: every call of the contract, every operator
\* action and every step of the world preserves it.
LEMMA InvPreserved ==
  ASSUME Inv, [Next]_vars
  PROVE  Inv'
<1>1. ConfigTypeOK'
  BY ConfigTyped DEF Inv
<1>2. CASE OperatorCall \/ Environment \/ UNCHANGED vars
  <2>1. UNCHANGED books /\ drawConsent' \in [Ids -> SUBSET {"creator", "opponent"}]
    BY <1>2, OutsideSteps DEF Inv, StateTypeOK
  <2> QED
    BY <1>1, <2>1, QuietKeepsInv DEF Inv
<1>3. ASSUME NEW i \in Ids, ConsentStep(i)
      PROVE  Inv'
  <2>1. UNCHANGED books
    BY <1>3 DEF ConsentStep
  <2>2. drawConsent' \in [Ids -> SUBSET {"creator", "opponent"}]
    BY <1>3 DEF ConsentStep, Inv, StateTypeOK
  <2> QED
    BY <1>1, <2>1, <2>2, QuietKeepsInv DEF Inv
<1>4. ASSUME NEW i \in Ids, ActiveStep(i)
      PROVE  Inv'
  <2>1. CASE \E winner \in {wagers[i].creator, wagers[i].opponent} : ResolveTo(i, winner)
    BY <1>1, <1>4, <2>1, VerdictKeepsInv DEF ActiveStep, Inv
  <2>2. CASE SettleDraw(i) \/ RefundActive(i)
    BY <1>1, <1>4, <2>2, BothBackKeepsInv DEF ActiveStep, Inv
  <2> QED
    BY <1>4, <2>1, <2>2 DEF ActiveStep
<1>5. CASE WagerStep
  BY <1>1, <1>3, <1>4, <1>5, OpenKeepsInv, PayoutKeepsInv, AcceptKeepsInv, CreateKeepsInv
  DEF WagerStep, Inv
<1>6. CASE UserCall \/ AnybodyCall
  BY <1>5, <1>6, CallCases DEF Inv
<1> QED
  BY <1>2, <1>6 DEF Next

LEMMA InitInv == Init => Inv
<1> SUFFICES ASSUME Init PROVE Inv
  OBVIOUS
<1>1. ConfigTypeOK
  <2>1. /\ now \in Nat /\ paused \in BOOLEAN /\ guardSet \in BOOLEAN
        /\ frozen \subseteq Users /\ blocked \subseteq Users /\ allowedTokens \subseteq Tokens
        /\ membershipManager \in Managers /\ authorized \subseteq Managers
        /\ adapters \in [OracleTypes -> Adapters \cup {NoAdapter}]
    BY DEF Init
  <2>2. answers \in [Adapters -> [Conditions -> Answers]]
    BY DEF Init, Answers
  <2>3. tier \in [Managers -> [Users -> Tiers]]
    <3>1. [u \in Users |-> "Silver"] \in [Users -> Tiers]
      BY DEF Tiers
    <3> QED
      BY <3>1 DEF Init
  <2> QED
    BY <2>1, <2>2, <2>3 DEF ConfigTypeOK
<1>2. StateTypeOK
  BY NoWagerType DEF Init, StateTypeOK
<1>3. FreshInv
  BY DEF Init, FreshInv, Nothing
<1>4. SoundInv
  BY DEF Init, SoundInv, Sound, NoWager
<1>5. FairInv
  BY DEF Init, FairInv, Fair, NoWager
<1>6. ClaimIndexConsistent
  BY DEF Init, ClaimIndexConsistent, NoWager
<1> QED
  BY <1>1, <1>2, <1>3, <1>4, <1>5, <1>6 DEF Inv

\* The inductive invariant holds in every reachable state of the registry.
THEOREM RegistryInvariant == Spec => []Inv
<1>1. Init => Inv
  BY InitInv
<1>2. Inv /\ [Next]_vars => Inv'
  BY InvPreserved
<1> QED
  BY <1>1, <1>2, PTL DEF Spec

\* Every storage word of the registry keeps its type; in particular no slot
\* counter of the membership manager and no token balance goes below zero,
\* whichever manager is wired in at settlement (recordClose, safeTransfer).
THEOREM RegistryTypeCorrect == Spec => []TypeOK
<1>1. Inv => TypeOK
  BY DEF Inv, ConfigTypeOK, StateTypeOK, TypeOK
<1> QED
  BY <1>1, RegistryInvariant, PTL

\* Every wager is settled once and fairly, for any number of wagers, users and
\* tokens and any order of calls: stakes back exactly as they came in, or the
\* whole pot to the one winner (_claimPayout, _claimRefund, _settleDraw,
\* _cancelOpen, _declineWager).
THEOREM RegistrySettlesFairly == Spec => []SettledFairly
<1>1. Inv => SettledFairly
  <2> SUFFICES ASSUME Inv, NEW i \in Ids
               PROVE  LET w == wagers[i]
                          contributed ==
                            [u \in Users |-> CASE u = w.creator -> w.creatorStake
                                               [] u = w.opponent /\ w.status # "Open" -> w.opponentStake
                                               [] OTHER -> 0]
                          nothing == [u \in Users |-> 0]
                          prize == [u \in Users |-> IF u = w.winner THEN w.creatorStake + w.opponentStake ELSE 0]
                      IN  /\ w.status \in {"None", "Refunded", "Draw"} => paidOut[i] = paidIn[i]
                          /\ w.status \in {"Open", "Active", "Resolved"} => paidIn[i] = contributed
                          /\ w.status \in {"Open", "Active"} => paidOut[i] = nothing
                          /\ w.status = "Resolved" =>
                               /\ w.winner \in {w.creator, w.opponent}
                               /\ paidOut[i] = IF w.paid THEN prize ELSE nothing
    BY DEF SettledFairly
  <2>1. Sound(wagers[i]) /\ Fair(wagers[i], paidIn[i], paidOut[i])
    BY DEF Inv, SoundInv, FairInv
  <2> QED
    BY <2>1 DEF Sound, Fair, Contributed, Nothing, WinnerTakesAll, Pot
<1> QED
  BY <1>1, RegistryInvariant, PTL

\* The claim index never disagrees with itself or with the wagers, so that one
\* claim code opens exactly one open challenge at a time (_createOpenWager,
\* _acceptOpenWager, _clearClaim).
THEOREM RegistryClaimIndex == Spec => []ClaimIndexConsistent
<1>1. Inv => ClaimIndexConsistent
  BY DEF Inv
<1> QED
  BY <1>1, RegistryInvariant, PTL

\* Nobody plays against himself or judges his own wager, however creation,
\* open challenge and acceptance are combined (_createWager, _acceptOpenWager).
THEOREM RegistryImpartial == Spec => []ImpartialParties
<1>1. Inv => ImpartialParties
  BY RegistryAssumption DEF Inv, SoundInv, Sound, ImpartialParties
<1> QED
  BY <1>1, RegistryInvariant, PTL

-----------------------------------------------------------------------------
\* A step that rewrites one wager in a permitted way lets every wager evolve.
LEMMA OneEvolves ==
  ASSUME Inv, NEW i \in Ids, NEW v, wagers' = [wagers EXCEPT ![i] = v],
         Evolves(i, wagers[i], v)
  PROVE  \A j \in Ids : Evolves(j, wagers[j], wagers'[j])
<1>1. wagers'[i] = v /\ \A j \in Ids \ {i} : wagers'[j] = wagers[j]
  BY DEF Inv, StateTypeOK
<1>2. \A j \in Ids \ {i} : Evolves(j, wagers[j], wagers'[j])
  BY <1>1 DEF Evolves
<1> QED
  BY <1>1, <1>2

\* Rewriting the status, the winner, the opponent or the paid flag keeps the
\* terms and, but for the opponent, the parties.
LEMMA TermsKept ==
  ASSUME NEW w \in Wager, NEW s \in Statuses, NEW u \in Addresses
  PROVE  /\ Terms([w EXCEPT !.status = s]) = Terms(w)
         /\ Terms([w EXCEPT !.status = s, !.winner = u]) = Terms(w)
         /\ Terms([w EXCEPT !.opponent = u, !.status = s]) = Terms(w)
         /\ Terms([w EXCEPT !.paid = TRUE]) = Terms(w)
         /\ [w EXCEPT !.status = s].opponent = w.opponent
         /\ [w EXCEPT !.status = s, !.winner = u].opponent = w.opponent
         /\ [w EXCEPT !.paid = TRUE].opponent = w.opponent
  BY DEF Terms, Wager

LEMMA StepEvolves ==
  ASSUME Inv, [Next]_vars
  PROVE  \A j \in Ids : Evolves(j, wagers[j], wagers'[j])
<1>1. \A j \in Ids : wagers[j] \in Wager
  BY DEF Inv, StateTypeOK
<1>2. CASE OperatorCall \/ Environment \/ UNCHANGED vars
  BY <1>2, OutsideSteps DEF books, Evolves
<1>3. ASSUME NEW i \in Ids, ConsentStep(i)
      PROVE  \A j \in Ids : Evolves(j, wagers[j], wagers'[j])
  BY <1>3 DEF ConsentStep, books, Evolves
<1>4. ASSUME NEW i \in Ids, OpenStep(i)
      PROVE  \A j \in Ids : Evolves(j, wagers[j], wagers'[j])
  <2>1. CASE ReleaseOpen(i)
    <3>1. wagers' = [wagers EXCEPT ![i] = NoWager]
      BY <2>1 DEF ReleaseOpen, SetWager
    <3>2. Evolves(i, wagers[i], NoWager)
      BY <1>4 DEF OpenStep, Evolves
    <3> QED
      BY <3>1, <3>2, OneEvolves
  <2>2. CASE ExpireOpen(i)
    <3> DEFINE v == [wagers[i] EXCEPT !.status = "Refunded"]
    <3>1. wagers' = [wagers EXCEPT ![i] = v]
      BY <2>2 DEF ExpireOpen, SetWager
    <3>2. Terms(v) = Terms(wagers[i]) /\ v.opponent = wagers[i].opponent
      BY <1>1, TermsKept DEF Statuses, Addresses
    <3>3. Evolves(i, wagers[i], v)
      BY <1>4, <3>2 DEF OpenStep, Evolves
    <3> HIDE DEF v
    <3> QED
      BY <3>1, <3>3, OneEvolves
  <2> QED
    BY <1>4, <2>1, <2>2 DEF OpenStep
<1>5. ASSUME NEW i \in Ids, ActiveStep(i)
      PROVE  \A j \in Ids : Evolves(j, wagers[j], wagers'[j])
  <2>0. wagers[i].status = "Active" /\ wagers[i] \in Wager
    BY <1>1, <1>5 DEF ActiveStep
  <2>1. ASSUME NEW winner \in {wagers[i].creator, wagers[i].opponent}, ResolveTo(i, winner)
        PROVE  \A j \in Ids : Evolves(j, wagers[j], wagers'[j])
    <3> DEFINE v == [wagers[i] EXCEPT !.status = "Resolved", !.winner = winner]
    <3>1. wagers' = [wagers EXCEPT ![i] = v]
      BY <2>1 DEF ResolveTo, CloseActive, SetWager
    <3>2. winner \in Addresses
      BY <2>0 DEF Wager
    <3>3. Terms(v) = Terms(wagers[i]) /\ v.opponent = wagers[i].opponent
      BY <2>0, <3>2, TermsKept DEF Statuses
    <3>4. Evolves(i, wagers[i], v)
      BY <2>0, <3>3 DEF Evolves
    <3> HIDE DEF v
    <3> QED
      BY <3>1, <3>4, OneEvolves
  <2>2. ASSUME NEW s \in {"Draw", "Refunded"},
               wagers' = [wagers EXCEPT ![i] = [wagers[i] EXCEPT !.status = s]]
        PROVE  \A j \in Ids : Evolves(j, wagers[j], wagers'[j])
    <3> DEFINE v == [wagers[i] EXCEPT !.status = s]
    <3>1. Terms(v) = Terms(wagers[i]) /\ v.opponent = wagers[i].opponent
      BY <2>0, TermsKept DEF Statuses, Addresses
    <3>2. Evolves(i, wagers[i], v) /\ wagers' = [wagers EXCEPT ![i] = v]
      BY <2>0, <2>2, <3>1 DEF Evolves
    <3> HIDE DEF v
    <3> QED
      BY <3>2, OneEvolves
  <2> QED
    BY <1>5, <2>1, <2>2 DEF ActiveStep, SettleDraw, RefundActive, CloseActive, SetWager
<1>6. ASSUME NEW i \in Ids, NEW u \in Users, ClaimPayoutBy(u, i)
      PROVE  \A j \in Ids : Evolves(j, wagers[j], wagers'[j])
  <2> DEFINE v == [wagers[i] EXCEPT !.paid = TRUE]
  <2>1. wagers' = [wagers EXCEPT ![i] = v] /\ wagers[i].status = "Resolved" /\ ~wagers[i].paid
    BY <1>6 DEF ClaimPayoutBy, SetWager
  <2>2. Terms(v) = Terms(wagers[i]) /\ v.opponent = wagers[i].opponent
    BY <1>1, TermsKept DEF Statuses, Addresses
  <2>3. Evolves(i, wagers[i], v)
    BY <2>1, <2>2 DEF Evolves
  <2> HIDE DEF v
  <2> QED
    BY <2>1, <2>3, OneEvolves
<1>7. ASSUME NEW i \in Ids, NEW u \in Users, AcceptStep(i, u)
      PROVE  \A j \in Ids : Evolves(j, wagers[j], wagers'[j])
  <2>0. wagers[i].status = "Open" /\ wagers[i] \in Wager
    BY <1>1, <1>7 DEF AcceptStep, AcceptWagerBy, AcceptOpenWagerBy
  <2>1. CASE AcceptWagerBy(u, i)
    <3> DEFINE v == [wagers[i] EXCEPT !.status = "Active"]
    <3>1. wagers' = [wagers EXCEPT ![i] = v]
      BY <2>1 DEF AcceptWagerBy, SetWager
    <3>2. Terms(v) = Terms(wagers[i]) /\ v.opponent = wagers[i].opponent
      BY <2>0, TermsKept DEF Statuses, Addresses
    <3>3. Evolves(i, wagers[i], v)
      BY <2>0, <3>2 DEF Evolves
    <3> HIDE DEF v
    <3> QED
      BY <3>1, <3>3, OneEvolves
  <2>2. ASSUME NEW proof, AcceptOpenWagerBy(u, i, proof)
        PROVE  \A j \in Ids : Evolves(j, wagers[j], wagers'[j])
    <3> DEFINE v == [wagers[i] EXCEPT !.opponent = u, !.status = "Active"]
    <3>1. wagers' = [wagers EXCEPT ![i] = v] /\ claimAuthority[i] # NoAddress
      BY <2>2 DEF AcceptOpenWagerBy, SetWager
    <3>2. wagers[i].opponent = NoAddress
      BY <3>1, NotIndexed
    <3>3. Terms(v) = Terms(wagers[i])
      BY <2>0, TermsKept DEF Statuses, Addresses
    <3>4. Evolves(i, wagers[i], v)
      BY <2>0, <3>2, <3>3 DEF Evolves
    <3> HIDE DEF v
    <3> QED
      BY <3>1, <3>4, OneEvolves
  <2> QED
    BY <1>7, <2>1, <2>2 DEF AcceptStep
<1>8. ASSUME NEW u \in Users, CreateStep(u)
      PROVE  \A j \in Ids : Evolves(j, wagers[j], wagers'[j])
  <2>1. PICK i \in Nat : i = nextWagerId
    BY DEF Inv, StateTypeOK
  <2>2. PICK v : i <= MaxWagers /\ wagers' = [wagers EXCEPT ![i] = v]
    BY <1>8, <2>1 DEF CreateStep, CreateWagerBy, CreateOpenWagerBy, StoreWager, SetWager
  <2>3. i \in Ids
    BY <2>1, <2>2, RegistryAssumption DEF Inv, StateTypeOK, FreshInv, Ids
  <2>4. Evolves(i, wagers[i], v)
    BY <2>1, <2>3 DEF Inv, FreshInv, Evolves
  <2> QED
    BY <2>2, <2>3, <2>4, OneEvolves
<1>9. CASE UserCall \/ AnybodyCall
  BY <1>3, <1>4, <1>5, <1>6, <1>7, <1>8, <1>9, CallCases DEF Inv, WagerStep
<1> QED
  BY <1>2, <1>9 DEF Next

\* No call, in any order and by anybody, changes the terms of a wager, rebinds
\* its opponent, deletes it once taken, or touches a verdict, a refund or a draw
\* except to pay the verdict out once: a late oracle answer and a late refund
\* cannot both take effect (_claimRefund, autoResolveFromOracle).
THEOREM RegistryVerdictFinal == Spec => TermsAndVerdictFinal
<1>1. Inv /\ [Next]_vars => [\A i \in Ids : Evolves(i, wagers[i], wagers'[i])]_vars
  BY StepEvolves
<1> QED
  BY <1>1, RegistryInvariant, PTL DEF Spec, TermsAndVerdictFinal

-----------------------------------------------------------------------------
\* The live wagers u is a party to.
Slots(u) == {i \in Ids : Live(i) /\ u \in Parties(i)}

LEMMA SlotsFinite ==
  ASSUME NEW u
  PROVE  IsFiniteSet(Slots(u))
<1>1. IsFiniteSet(Ids)
  BY FS_Interval, RegistryAssumption DEF Ids
<1> QED
  BY <1>1, FS_Subset DEF Slots

\* What a step does to the slots: nothing; a wager ends and frees its parties';
\* or a user joins one and takes a slot.
SlotsStay == activeCount' = activeCount /\ \A u \in Users : Slots(u)' = Slots(u)

SlotsFreed(i) ==
  /\ RecordClose(Parties(i))
  /\ \A u \in Users : Slots(u)' = Slots(u) \ {i} /\ (i \in Slots(u) <=> u \in Parties(i))

SlotTaken(i, user) ==
  /\ RecordCreate(user) /\ i \notin Slots(user)
  /\ \A u \in Users : Slots(u)' = IF u = user THEN Slots(u) \cup {i} ELSE Slots(u)

SlotsMove ==
  \/ SlotsStay
  \/ \E i \in Ids : SlotsFreed(i)
  \/ \E i \in Ids, user \in Users : SlotTaken(i, user)

\* One wager ends and its parties' slots are released.
LEMMA SlotsReleased ==
  ASSUME Inv, NEW i \in Ids, Live(i), NEW v, wagers' = [wagers EXCEPT ![i] = v],
         v.status \notin {"Open", "Active"}, RecordClose(Parties(i))
  PROVE  SlotsMove
<1>1. wagers'[i] = v /\ \A j \in Ids \ {i} : wagers'[j] = wagers[j]
  BY DEF Inv, StateTypeOK
<1>2. ASSUME NEW u \in Users
      PROVE  Slots(u)' = Slots(u) \ {i} /\ (i \in Slots(u) <=> u \in Parties(i))
  BY <1>1 DEF Slots, Live, Parties
<1>3. SlotsFreed(i)
  BY <1>2 DEF SlotsFreed
<1> QED
  BY <1>3 DEF SlotsMove

\* A user joins one wager and takes a slot.
LEMMA SlotsTaken ==
  ASSUME Inv, NEW i \in Ids, NEW v, wagers' = [wagers EXCEPT ![i] = v], NEW user \in Users,
         RecordCreate(user), v.status \in {"Open", "Active"}, user \notin Parties(i) \/ ~Live(i),
         \A u \in Users : u \in Parties(i)' <=> u = user \/ (Live(i) /\ u \in Parties(i))
  PROVE  SlotsMove
<1>1. wagers'[i] = v /\ \A j \in Ids \ {i} : wagers'[j] = wagers[j]
  BY DEF Inv, StateTypeOK
<1>2. ASSUME NEW u \in Users
      PROVE  Slots(u)' = IF u = user THEN Slots(u) \cup {i} ELSE Slots(u)
  <2>1. \A j \in Ids \ {i} : j \in Slots(u)' <=> j \in Slots(u)
    BY <1>1 DEF Slots, Live, Parties
  <2>2. i \in Slots(u)' <=> u = user \/ i \in Slots(u)
    BY <1>1 DEF Slots, Live
  <2> QED
    BY <2>1, <2>2 DEF Slots
<1>3. i \notin Slots(user)
  BY DEF Slots
<1>4. SlotTaken(i, user)
  BY <1>2, <1>3 DEF SlotTaken
<1> QED
  BY <1>4 DEF SlotsMove

LEMMA SlotsKept ==
  ASSUME wagers' = wagers, activeCount' = activeCount
  PROVE  SlotsMove
  BY DEF SlotsMove, SlotsStay, Slots, Live, Parties

LEMMA SlotCases ==
  ASSUME Inv, [Next]_vars
  PROVE  SlotsMove
<1>1. \A j \in Ids : wagers[j] \in Wager /\ Sound(wagers[j])
  BY DEF Inv, StateTypeOK, SoundInv
<1>2. CASE OperatorCall \/ Environment \/ UNCHANGED vars
  BY <1>2, OutsideSteps, SlotsKept DEF books
<1>3. ASSUME NEW i \in Ids, ConsentStep(i)
      PROVE  SlotsMove
  BY <1>3, SlotsKept DEF ConsentStep, books
<1>4. ASSUME NEW i \in Ids, OpenStep(i)
      PROVE  SlotsMove
  <2>1. Live(i) /\ Parties(i) = {wagers[i].creator} /\ wagers[i] \in Wager
    BY <1>1, <1>4 DEF OpenStep, Live, Parties
  <2>2. PICK v : wagers' = [wagers EXCEPT ![i] = v] /\ v.status \notin {"Open", "Active"}
    <3>1. NoWager.status = "None" /\ [wagers[i] EXCEPT !.status = "Refunded"].status = "Refunded"
      BY <2>1 DEF NoWager, Wager
    <3> QED
      BY <1>4, <3>1 DEF OpenStep, ReleaseOpen, ExpireOpen, SetWager
  <2>3. RecordClose(Parties(i))
    BY <1>4, <2>1 DEF OpenStep, ReleaseOpen, ExpireOpen
  <2> QED
    BY <2>1, <2>2, <2>3, SlotsReleased
<1>5. ASSUME NEW i \in Ids, ActiveStep(i)
      PROVE  SlotsMove
  <2>1. Live(i) /\ Parties(i) = {wagers[i].creator, wagers[i].opponent} /\ wagers[i] \in Wager
    BY <1>1, <1>5 DEF ActiveStep, Live, Parties
  <2>2. PICK v : /\ CloseActive(i, v) /\ v.status \notin {"Open", "Active"}
                 /\ v.creator = wagers[i].creator /\ v.opponent = wagers[i].opponent
    <3>1. ASSUME NEW winner \in {wagers[i].creator, wagers[i].opponent}, ResolveTo(i, winner)
          PROVE  \E v : /\ CloseActive(i, v) /\ v.status \notin {"Open", "Active"}
                        /\ v.creator = wagers[i].creator /\ v.opponent = wagers[i].opponent
      <4> DEFINE v == [wagers[i] EXCEPT !.status = "Resolved", !.winner = winner]
      <4>1. /\ v.status = "Resolved" /\ v.creator = wagers[i].creator
            /\ v.opponent = wagers[i].opponent
        BY <2>1 DEF Wager
      <4>2. CloseActive(i, v)
        BY <3>1 DEF ResolveTo
      <4> HIDE DEF v
      <4> QED
        BY <4>1, <4>2
    <3>2. ASSUME NEW s \in {"Draw", "Refunded"}, CloseActive(i, [wagers[i] EXCEPT !.status = s])
          PROVE  \E v : /\ CloseActive(i, v) /\ v.status \notin {"Open", "Active"}
                        /\ v.creator = wagers[i].creator /\ v.opponent = wagers[i].opponent
      <4> DEFINE v == [wagers[i] EXCEPT !.status = s]
      <4>1. v.status = s /\ v.creator = wagers[i].creator /\ v.opponent = wagers[i].opponent
        BY <2>1 DEF Wager
      <4>2. CloseActive(i, v)
        BY <3>2
      <4> HIDE DEF v
      <4> QED
        BY <4>1, <4>2
    <3> QED
      BY <1>5, <3>1, <3>2 DEF ActiveStep, SettleDraw, RefundActive
  <2>3. wagers' = [wagers EXCEPT ![i] = v] /\ RecordClose(Parties(i))
    BY <2>1, <2>2 DEF CloseActive, SetWager
  <2> QED
    BY <2>1, <2>2, <2>3, SlotsReleased
<1>6. ASSUME NEW i \in Ids, NEW u \in Users, ClaimPayoutBy(u, i)
      PROVE  SlotsMove
  <2> DEFINE v == [wagers[i] EXCEPT !.paid = TRUE]
  <2>1. /\ wagers' = [wagers EXCEPT ![i] = v] /\ wagers[i].status = "Resolved"
        /\ activeCount' = activeCount
    BY <1>6 DEF ClaimPayoutBy, SetWager
  <2>2. v.status = "Resolved"
    BY <1>1, <2>1 DEF Wager
  <2> HIDE DEF v
  <2>3. wagers'[i] = v /\ \A j \in Ids \ {i} : wagers'[j] = wagers[j]
    BY <2>1 DEF Inv, StateTypeOK
  <2>4. \A x \in Users : Slots(x)' = Slots(x)
    BY <2>1, <2>2, <2>3 DEF Slots, Live, Parties
  <2> QED
    BY <2>1, <2>4 DEF SlotsMove, SlotsStay
<1>7. ASSUME NEW i \in Ids, NEW u \in Users, AcceptStep(i, u)
      PROVE  SlotsMove
  <2>1. /\ wagers[i].status = "Open" /\ wagers[i] \in Wager /\ RecordCreate(u)
        /\ u # wagers[i].creator
    BY <1>1, <1>7, RegistryAssumption
    DEF AcceptStep, AcceptWagerBy, AcceptOpenWagerBy, SettleAccept, Sound
  <2>2. PICK v : /\ wagers' = [wagers EXCEPT ![i] = v] /\ v.status = "Active"
                 /\ v.creator = wagers[i].creator /\ v.opponent = u
    <3>1. /\ [wagers[i] EXCEPT !.status = "Active"].status = "Active"
          /\ [wagers[i] EXCEPT !.status = "Active"].creator = wagers[i].creator
          /\ [wagers[i] EXCEPT !.status = "Active"].opponent = wagers[i].opponent
          /\ [wagers[i] EXCEPT !.opponent = u, !.status = "Active"].status = "Active"
          /\ [wagers[i] EXCEPT !.opponent = u, !.status = "Active"].creator = wagers[i].creator
          /\ [wagers[i] EXCEPT !.opponent = u, !.status = "Active"].opponent = u
      BY <2>1 DEF Wager
    <3> QED
      BY <1>7, <3>1 DEF AcceptStep, AcceptWagerBy, AcceptOpenWagerBy, SetWager
  <2>3. wagers'[i] = v
    BY <2>2 DEF Inv, StateTypeOK
  <2>4. Live(i) /\ Parties(i) = {wagers[i].creator} /\ Parties(i)' = {wagers[i].creator, u}
    BY <2>1, <2>2, <2>3 DEF Live, Parties
  <2> QED
    BY <2>1, <2>2, <2>4, SlotsTaken
<1>8. ASSUME NEW u \in Users, CreateStep(u)
      PROVE  SlotsMove
  <2>1. PICK i \in Nat : i = nextWagerId
    BY DEF Inv, StateTypeOK
  <2>2. PICK v : /\ i <= MaxWagers /\ wagers' = [wagers EXCEPT ![i] = v] /\ RecordCreate(u)
                 /\ v.status = "Open" /\ v.creator = u
    <3>1. \A o, a : NewWager(u, o, a).status = "Open" /\ NewWager(u, o, a).creator = u
      BY DEF NewWager
    <3>2. PICK o, a : StoreWager(u, o, a)
      BY <1>8 DEF CreateStep, CreateWagerBy, CreateOpenWagerBy
    <3> QED
      BY <2>1, <3>1, <3>2 DEF StoreWager, SetWager
  <2>3. i \in Ids
    BY <2>1, <2>2, RegistryAssumption DEF Inv, StateTypeOK, FreshInv, Ids
  <2>4. wagers'[i] = v /\ wagers[i] = NoWager
    BY <2>1, <2>2, <2>3 DEF Inv, StateTypeOK, FreshInv
  <2>5. ~Live(i) /\ Parties(i)' = {u}
    BY <2>2, <2>4 DEF Live, Parties, NoWager
  <2> QED
    BY <2>2, <2>3, <2>5, SlotsTaken
<1>9. CASE UserCall \/ AnybodyCall
  BY <1>3, <1>4, <1>5, <1>6, <1>7, <1>8, <1>9, CallCases DEF Inv, WagerStep
<1> QED
  BY <1>2, <1>9 DEF Next

\* The counters of the manager that is wired, over such a step.
LEMMA CounterMoves ==
  ASSUME Inv, NEW u \in Users
  PROVE  /\ membershipManager \in Managers /\ activeCount \in [Managers -> [Users -> Nat]]
         /\ \A users : RecordClose(users) =>
              /\ \A m \in Managers \ {membershipManager} : activeCount'[m][u] = activeCount[m][u]
              /\ activeCount'[membershipManager][u] =
                   IF u \in users /\ activeCount[membershipManager][u] > 0
                   THEN activeCount[membershipManager][u] - 1 ELSE activeCount[membershipManager][u]
         /\ \A user \in Users : RecordCreate(user) =>
              /\ \A m \in Managers \ {membershipManager} : activeCount'[m][u] = activeCount[m][u]
              /\ activeCount'[membershipManager][u] =
                   IF u = user THEN activeCount[membershipManager][u] + 1
                               ELSE activeCount[membershipManager][u]
<1>1. membershipManager \in Managers /\ activeCount \in [Managers -> [Users -> Nat]]
  BY DEF Inv, StateTypeOK, ConfigTypeOK
<1> QED
  BY <1>1 DEF RecordClose, RecordCreate

LEMMA SlotsStep ==
  ASSUME Inv, SlotsExact, SlotsMove, membershipManager' = membershipManager
  PROVE  SlotsExact'
<1> SUFFICES ASSUME NEW u \in Users
             PROVE  activeCount'[membershipManager][u] = Cardinality(Slots(u)')
  BY DEF SlotsExact, Slots
<1> DEFINE n == activeCount[membershipManager][u]
<1>1. n = Cardinality(Slots(u)) /\ n \in Nat
  BY CounterMoves DEF SlotsExact, Slots
<1>2. CASE SlotsStay
  BY <1>1, <1>2 DEF SlotsStay
<1>3. ASSUME NEW i \in Ids, SlotsFreed(i)
      PROVE  activeCount'[membershipManager][u] = Cardinality(Slots(u)')
  <2>1. activeCount'[membershipManager][u] = IF u \in Parties(i) /\ n > 0 THEN n - 1 ELSE n
    BY <1>3, CounterMoves DEF SlotsFreed
  <2>2. Slots(u)' = Slots(u) \ {i} /\ (i \in Slots(u) <=> u \in Parties(i))
    BY <1>3 DEF SlotsFreed
  <2>3. Cardinality(Slots(u) \ {i}) = IF i \in Slots(u) THEN n - 1 ELSE n
    BY <1>1, SlotsFinite, FS_RemoveElement
  <2>4. i \in Slots(u) => n # 0
    BY <1>1, SlotsFinite, FS_EmptySet
  <2> QED
    BY <1>1, <2>1, <2>2, <2>3, <2>4
<1>4. ASSUME NEW i \in Ids, NEW user \in Users, SlotTaken(i, user)
      PROVE  activeCount'[membershipManager][u] = Cardinality(Slots(u)')
  <2>1. activeCount'[membershipManager][u] = IF u = user THEN n + 1 ELSE n
    BY <1>4, CounterMoves DEF SlotTaken
  <2>2. Slots(u)' = IF u = user THEN Slots(u) \cup {i} ELSE Slots(u)
    BY <1>4 DEF SlotTaken
  <2>3. u = user => Cardinality(Slots(u) \cup {i}) = n + 1
    BY <1>1, <1>4, SlotsFinite, FS_AddElement DEF SlotTaken
  <2> QED
    BY <1>1, <2>1, <2>2, <2>3
<1> QED
  BY <1>2, <1>3, <1>4 DEF SlotsMove

\* As long as no operator swaps the membership manager, a member's slot count
\* is exactly the number of live wagers he is a party to, through every way of
\* creating, accepting and ending one (recordCreate, recordClose): the floor at
\* zero in recordClose is never what keeps the counter right.
THEOREM RegistrySlotsExact == Spec /\ [][UNCHANGED membershipManager]_vars => []SlotsExact
<1>1. Init => SlotsExact
  <2> SUFFICES ASSUME Init, NEW u \in Users
               PROVE  activeCount[membershipManager][u] = Cardinality(Slots(u))
    BY DEF SlotsExact, Slots
  <2>1. Slots(u) = {}
    BY DEF Init, Slots, Live, NoWager
  <2>2. activeCount[membershipManager][u] = 0
    BY DEF Init
  <2> QED
    BY <2>1, <2>2, FS_EmptySet
<1>2. Inv /\ SlotsExact /\ [Next]_vars /\ [UNCHANGED membershipManager]_vars => SlotsExact'
  <2>1. UNCHANGED vars => membershipManager' = membershipManager
    BY DEF vars, configVars
  <2> QED
    BY <2>1, SlotCases, SlotsStep
<1> QED
  BY <1>1, <1>2, RegistryInvariant, PTL DEF Spec

\* The slots of u at every manager.
SlotsAt(u) == [m \in Managers |-> activeCount[m][u]]

\* Whatever managers were wired in turn, every live wager holds a slot of each
\* of its parties at one of them: setMembershipManager may leave slots behind
\* that nobody frees, but no wager goes uncounted by all.
SlotsCovered == \A u \in Users : Cardinality(Slots(u)) <= SumFunction(SlotsAt(u))

LEMMA SlotsCoveredStep ==
  ASSUME Inv, Inv', SlotsCovered, SlotsMove
  PROVE  SlotsCovered'
<1> SUFFICES ASSUME NEW u \in Users
             PROVE  Cardinality(Slots(u)') <= SumFunction(SlotsAt(u)')
  BY DEF SlotsCovered
<1> DEFINE f == SlotsAt(u)
           g == SlotsAt(u)'
           m == membershipManager
           n == Cardinality(Slots(u))
           s == SumFunction(f)
<1>1. m \in Managers /\ f \in [Managers -> Nat] /\ g \in [Managers -> Nat] /\ IsFiniteSet(Managers)
  BY CounterMoves, RegistryAssumption DEF SlotsAt, Inv, StateTypeOK, ConfigTypeOK
<1>2. f[m] = activeCount[m][u] /\ g[m] = activeCount'[m][u]
  BY <1>1 DEF SlotsAt
<1>3. n \in Nat /\ s \in Nat /\ n <= s /\ SumFunction(g) \in Nat
  <2>1. n \in Nat
    BY SlotsFinite, FS_CardinalityType
  <2>2. n <= s
    BY DEF SlotsCovered
  <2> HIDE DEF f, g
  <2> QED
    BY <1>1, <2>1, <2>2, SumNat
<1>4. CASE SlotsStay
  <2>1. Slots(u)' = Slots(u) /\ g = f
    BY <1>4 DEF SlotsStay, SlotsAt
  <2> QED
    BY <1>3, <2>1
<1>5. ASSUME \A k \in Managers \ {m} : g[k] = f[k]
      PROVE  SumFunction(g) + f[m] = s + g[m]
  <2> HIDE DEF f, g, m
  <2> QED
    BY <1>1, <1>5, SumChange
<1>6. f[m] \in Nat /\ g[m] \in Nat
  BY <1>1
<1>7. ASSUME NEW i \in Ids, SlotsFreed(i)
      PROVE  Cardinality(Slots(u)') <= SumFunction(g)
  <2>1. /\ \A k \in Managers \ {m} : g[k] = f[k]
        /\ g[m] = IF u \in Parties(i) /\ f[m] > 0 THEN f[m] - 1 ELSE f[m]
    BY <1>1, <1>2, <1>7, CounterMoves DEF SlotsFreed, SlotsAt
  <2>2. Slots(u)' = Slots(u) \ {i} /\ (i \in Slots(u) <=> u \in Parties(i))
    BY <1>7 DEF SlotsFreed
  <2>3. Cardinality(Slots(u) \ {i}) = IF i \in Slots(u) THEN n - 1 ELSE n
    BY SlotsFinite, FS_RemoveElement
  <2>4. SumFunction(g) + f[m] = s + g[m]
    BY <1>5, <2>1
  <2> HIDE DEF f, g, m, n, s
  <2> QED
    BY <1>3, <1>6, <2>1, <2>2, <2>3, <2>4
<1>8. ASSUME NEW i \in Ids, NEW user \in Users, SlotTaken(i, user)
      PROVE  Cardinality(Slots(u)') <= SumFunction(g)
  <2>1. /\ \A k \in Managers \ {m} : g[k] = f[k]
        /\ g[m] = IF u = user THEN f[m] + 1 ELSE f[m]
    BY <1>1, <1>2, <1>8, CounterMoves DEF SlotTaken, SlotsAt
  <2>2. Slots(u)' = IF u = user THEN Slots(u) \cup {i} ELSE Slots(u)
    BY <1>8 DEF SlotTaken
  <2>3. Cardinality(Slots(u)') = IF u = user THEN n + 1 ELSE n
    BY <1>8, <2>2, SlotsFinite, FS_AddElement DEF SlotTaken
  <2>4. SumFunction(g) + f[m] = s + g[m]
    BY <1>5, <2>1
  <2> HIDE DEF f, g, m, n, s
  <2> QED
    BY <1>3, <1>6, <2>1, <2>3, <2>4
<1> QED
  BY <1>4, <1>7, <1>8 DEF SlotsMove

\* The counters of all managers together never fall below the live wagers,
\* although recordClose stops at zero where the slot was taken elsewhere.
THEOREM RegistrySlotsCovered == Spec => []SlotsCovered
<1>1. Init => SlotsCovered
  <2> SUFFICES ASSUME Init, NEW u \in Users
               PROVE  Cardinality(Slots(u)) <= SumFunction(SlotsAt(u))
    BY DEF SlotsCovered
  <2>1. Slots(u) = {} /\ Cardinality({}) = 0
    BY FS_EmptySet DEF Init, Slots, Live, NoWager
  <2>2. SlotsAt(u) \in [Managers -> Nat] /\ IsFiniteSet(Managers)
    BY RegistryAssumption DEF Init, SlotsAt
  <2>3. SumFunction(SlotsAt(u)) \in Nat
    BY <2>2, SumNat
  <2> QED
    BY <2>1, <2>3
<1>2. Inv /\ Inv' /\ SlotsCovered /\ [Next]_vars => SlotsCovered'
  BY SlotCases, SlotsCoveredStep
<1> QED
  BY <1>1, <1>2, RegistryInvariant, PTL DEF Spec

-----------------------------------------------------------------------------
\* What is owed in token t on each wager.
OwedIn(t) == [i \in Ids |-> IF wagers[i].token = t THEN Owed(wagers[i]) ELSE 0]

\* What is owed on a wager is an amount; on one that is over or was never
\* made it is nothing.
LEMMA OwedTypes ==
  ASSUME NEW w \in Wager
  PROVE  /\ Owed(w) \in Nat
         /\ w.status = "Open" => Owed(w) = w.creatorStake
         /\ w.status = "Active" => Owed(w) = Pot(w)
         /\ w.status = "Resolved" /\ ~w.paid => Owed(w) = Pot(w)
         /\ w.status = "Resolved" /\ w.paid => Owed(w) = 0
         /\ w.status \in {"None", "Refunded", "Draw"} => Owed(w) = 0
<1>1. w.creatorStake \in Nat /\ w.opponentStake \in Nat /\ w.paid \in BOOLEAN
  BY DEF Wager
<1>2. Pot(w) \in Nat
  BY <1>1 DEF Pot
<1> QED
  BY <1>1, <1>2 DEF Owed

LEMMA OwedInTypes ==
  ASSUME wagers \in [Ids -> Wager], NEW t
  PROVE  OwedIn(t) \in [Ids -> Nat] /\ IsFiniteSet(Ids)
<1>1. \A i \in Ids : Owed(wagers[i]) \in Nat
  BY OwedTypes
<1>2. IsFiniteSet(Ids)
  BY FS_Interval, RegistryAssumption DEF Ids
<1> QED
  BY <1>1, <1>2 DEF OwedIn

\* A step that turns wager i into v and moves as much of its token as the debt
\* on i changes leaves all the balances equal to all the debts.
LEMMA EscrowMoved ==
  ASSUME Inv, EscrowExact, NEW i \in Ids, NEW v \in Wager, NEW t \in Tokens, NEW b \in Nat,
         wagers' = [wagers EXCEPT ![i] = v], balance' = [balance EXCEPT ![t] = b],
         v.token = t \/ Owed(v) = 0, wagers[i].token = t \/ Owed(wagers[i]) = 0,
         b + Owed(wagers[i]) = balance[t] + Owed(v)
  PROVE  EscrowExact'
<1>1. wagers \in [Ids -> Wager] /\ wagers' \in [Ids -> Wager] /\ balance \in [Tokens -> Nat]
  BY DEF Inv, StateTypeOK
<1>2. wagers'[i] = v /\ \A j \in Ids \ {i} : wagers'[j] = wagers[j]
  BY <1>1
<1>3. SUFFICES ASSUME NEW x \in Tokens
               PROVE  balance'[x] = SumFunction(OwedIn(x)')
  BY DEF EscrowExact, OwedIn
<1>4. OwedIn(x) \in [Ids -> Nat] /\ OwedIn(x)' \in [Ids -> Nat] /\ IsFiniteSet(Ids)
  <2>1. \A w \in Wager : Owed(w) \in Nat
    BY OwedTypes
  <2> QED
    BY <1>1, <2>1, OwedInTypes DEF OwedIn
<1>5. \A j \in Ids \ {i} : OwedIn(x)'[j] = OwedIn(x)[j]
  BY <1>2 DEF OwedIn
<1>6. SumFunction(OwedIn(x)') + OwedIn(x)[i] = SumFunction(OwedIn(x)) + OwedIn(x)'[i]
  BY <1>4, <1>5, SumChange
<1>7. balance[x] = SumFunction(OwedIn(x))
  BY DEF EscrowExact, OwedIn
<1>8. SumFunction(OwedIn(x)') \in Nat /\ SumFunction(OwedIn(x)) \in Nat
  BY <1>4, SumNat
<1>9. Owed(v) \in Nat /\ Owed(wagers[i]) \in Nat /\ balance[t] \in Nat /\ balance[x] \in Nat
  BY <1>1, OwedTypes
<1>10. /\ OwedIn(x)[i] = IF wagers[i].token = x THEN Owed(wagers[i]) ELSE 0
       /\ OwedIn(x)'[i] = IF v.token = x THEN Owed(v) ELSE 0
  BY <1>2 DEF OwedIn
<1>11. CASE x = t
  <2>1. balance'[x] = b /\ OwedIn(x)[i] = Owed(wagers[i]) /\ OwedIn(x)'[i] = Owed(v)
    BY <1>1, <1>10, <1>11
  <2> QED
    BY <1>6, <1>7, <1>8, <1>9, <1>11, <2>1
<1>12. CASE x # t
  <2>1. balance'[x] = balance[x] /\ OwedIn(x)[i] = 0 /\ OwedIn(x)'[i] = 0
    BY <1>1, <1>10, <1>12
  <2> QED
    BY <1>6, <1>7, <1>8, <1>9, <2>1
<1> QED
  BY <1>11, <1>12

\* Money paid out of wager i, whose debt ends with the payment.
LEMMA EscrowPaidOut ==
  ASSUME Inv, EscrowExact, NEW i \in Ids, NEW v \in Wager, NEW f,
         wagers[i].status # "None", wagers' = [wagers EXCEPT ![i] = v], Owed(v) = 0,
         PayOut(i, wagers[i].token, f, Owed(wagers[i]))
  PROVE  EscrowExact'
<1>1. wagers[i] \in Wager /\ wagers[i].token \in Tokens /\ balance \in [Tokens -> Nat]
  BY DEF Inv, StateTypeOK, SoundInv, Sound
<1> DEFINE t == wagers[i].token
           b == balance[t] - Owed(wagers[i])
<1>2. Owed(wagers[i]) \in Nat /\ balance[t] \in Nat /\ Owed(wagers[i]) <= balance[t]
  BY <1>1, OwedTypes DEF PayOut
<1>3. b \in Nat /\ b + Owed(wagers[i]) = balance[t] + Owed(v)
  BY <1>2
<1>4. balance' = [balance EXCEPT ![t] = b]
  BY DEF PayOut
<1> HIDE DEF b
<1> QED
  BY <1>1, <1>3, <1>4, EscrowMoved

\* A stake pulled into escrow for wager i, which owes as much more.
LEMMA EscrowPulled ==
  ASSUME Inv, EscrowExact, NEW i \in Ids, NEW v \in Wager, NEW u, NEW n \in Nat,
         wagers' = [wagers EXCEPT ![i] = v], v.token \in Tokens,
         wagers[i].token = v.token \/ Owed(wagers[i]) = 0,
         Owed(v) = Owed(wagers[i]) + n, PullStake(i, v.token, u, n)
  PROVE  EscrowExact'
<1>1. wagers[i] \in Wager /\ balance \in [Tokens -> Nat]
  BY DEF Inv, StateTypeOK
<1> DEFINE b == balance[v.token] + n
<1>2. Owed(wagers[i]) \in Nat /\ balance[v.token] \in Nat
  BY <1>1, OwedTypes
<1>3. b \in Nat /\ b + Owed(wagers[i]) = balance[v.token] + Owed(v)
  BY <1>2
<1>4. balance' = [balance EXCEPT ![v.token] = b]
  BY DEF PullStake
<1> HIDE DEF b
<1> QED
  BY <1>1, <1>3, <1>4, EscrowMoved

\* Every step keeps the balances equal to the debts.
LEMMA EscrowStep ==
  ASSUME Inv, EscrowExact, [Next]_vars
  PROVE  EscrowExact'
<1>1. \A j \in Ids : wagers[j] \in Wager /\ Sound(wagers[j])
  BY DEF Inv, StateTypeOK, SoundInv
<1>2. ASSUME UNCHANGED books PROVE EscrowExact'
  BY <1>2 DEF books, moneyVars, EscrowExact
<1>3. CASE OperatorCall \/ Environment \/ UNCHANGED vars
  BY <1>2, <1>3, OutsideSteps
<1>4. ASSUME NEW i \in Ids, OpenStep(i)
      PROVE  EscrowExact'
  <2>1. wagers[i].status = "Open" /\ wagers[i] \in Wager /\ Owed(wagers[i]) = wagers[i].creatorStake
    BY <1>1, <1>4, OwedTypes DEF OpenStep
  <2>2. PICK v \in Wager : /\ wagers' = [wagers EXCEPT ![i] = v] /\ v.status \in {"None", "Refunded"}
    <3>1. /\ NoWager.status = "None" /\ [wagers[i] EXCEPT !.status = "Refunded"].status = "Refunded"
          /\ NoWager \in Wager /\ [wagers[i] EXCEPT !.status = "Refunded"] \in Wager
      BY <2>1, NoWagerType DEF NoWager, Wager, Statuses
    <3> QED
      BY <1>4, <3>1 DEF OpenStep, ReleaseOpen, ExpireOpen, SetWager
  <2>3. PayOut(i, wagers[i].token, CreatorStakeBack(wagers[i]), Owed(wagers[i]))
    BY <1>4, <2>1 DEF OpenStep, ReleaseOpen, ExpireOpen
  <2>4. Owed(v) = 0
    BY <2>2, OwedTypes
  <2> QED
    BY <2>1, <2>2, <2>3, <2>4, EscrowPaidOut
<1>5. ASSUME NEW i \in Ids, ActiveStep(i)
      PROVE  EscrowExact'
  <2>1. wagers[i].status = "Active" /\ wagers[i] \in Wager /\ Owed(wagers[i]) = Pot(wagers[i])
    BY <1>1, <1>5, OwedTypes DEF ActiveStep
  <2>2. ASSUME NEW winner \in {wagers[i].creator, wagers[i].opponent}, ResolveTo(i, winner)
        PROVE  EscrowExact'
    <3> DEFINE v == [wagers[i] EXCEPT !.status = "Resolved", !.winner = winner]
               t == wagers[i].token
    <3>1. v \in Wager /\ v.status = "Resolved" /\ v.paid = wagers[i].paid /\ v.token = t
          /\ Pot(v) = Pot(wagers[i])
      BY <2>1 DEF Wager, Statuses, Pot
    <3>2. ~wagers[i].paid /\ t \in Tokens
      BY <1>1, <2>1 DEF Sound
    <3>3. Owed(v) = Owed(wagers[i])
      BY <2>1, <3>1, <3>2, OwedTypes
    <3>4. wagers' = [wagers EXCEPT ![i] = v] /\ balance' = balance
      BY <2>2 DEF ResolveTo, CloseActive, SetWager, moneyVars
    <3>5. balance[t] \in Nat /\ balance = [balance EXCEPT ![t] = balance[t]]
      BY <3>2 DEF Inv, StateTypeOK
    <3> HIDE DEF v, t
    <3> QED
      BY <3>1, <3>2, <3>3, <3>4, <3>5, EscrowMoved DEF t
  <2>3. ASSUME NEW s \in {"Draw", "Refunded"},
               wagers' = [wagers EXCEPT ![i] = [wagers[i] EXCEPT !.status = s]],
               PayOut(i, wagers[i].token, BothStakesBack(wagers[i]), Pot(wagers[i]))
        PROVE  EscrowExact'
    <3> DEFINE v == [wagers[i] EXCEPT !.status = s]
    <3>1. v \in Wager /\ v.status = s
      BY <2>1 DEF Wager, Statuses
    <3>2. Owed(v) = 0
      BY <3>1, OwedTypes
    <3>3. wagers' = [wagers EXCEPT ![i] = v]
      BY <2>3
    <3> HIDE DEF v
    <3> QED
      BY <2>1, <2>3, <3>1, <3>2, <3>3, EscrowPaidOut
  <2> QED
    BY <1>5, <2>2, <2>3 DEF ActiveStep, SettleDraw, RefundActive, CloseActive, SetWager
<1>6. ASSUME NEW i \in Ids, NEW u \in Users, ClaimPayoutBy(u, i)
      PROVE  EscrowExact'
  <2> DEFINE v == [wagers[i] EXCEPT !.paid = TRUE]
  <2>1. /\ wagers' = [wagers EXCEPT ![i] = v] /\ wagers[i].status = "Resolved" /\ ~wagers[i].paid
        /\ PayOut(i, wagers[i].token, WinnerTakesAll(wagers[i]), Pot(wagers[i]))
    BY <1>6 DEF ClaimPayoutBy, SetWager
  <2>2. v \in Wager /\ v.status = "Resolved" /\ v.paid
    BY <1>1, <2>1 DEF Wager
  <2> HIDE DEF v
  <2>3. Owed(v) = 0 /\ Owed(wagers[i]) = Pot(wagers[i])
    BY <1>1, <2>1, <2>2, OwedTypes
  <2> QED
    BY <2>1, <2>2, <2>3, EscrowPaidOut
<1>7. ASSUME NEW i \in Ids, NEW u \in Users, AcceptStep(i, u)
      PROVE  EscrowExact'
  <2>1. /\ wagers[i].status = "Open" /\ wagers[i] \in Wager /\ wagers[i].token \in Tokens
        /\ PullStake(i, wagers[i].token, u, wagers[i].opponentStake)
    BY <1>1, <1>7 DEF AcceptStep, AcceptWagerBy, AcceptOpenWagerBy, SettleAccept, Sound
  <2>2. PICK v \in Wager :
          /\ wagers' = [wagers EXCEPT ![i] = v] /\ v.status = "Active"
          /\ v.token = wagers[i].token /\ Pot(v) = Pot(wagers[i])
    <3>1. ASSUME NEW v, v = [wagers[i] EXCEPT !.status = "Active"]
                        \/ v = [wagers[i] EXCEPT !.opponent = u, !.status = "Active"]
          PROVE  /\ v \in Wager /\ v.status = "Active"
                 /\ v.token = wagers[i].token /\ Pot(v) = Pot(wagers[i])
      BY <2>1, <3>1 DEF Wager, Statuses, Pot, Addresses
    <3> QED
      BY <1>7, <3>1 DEF AcceptStep, AcceptWagerBy, AcceptOpenWagerBy, SetWager
  <2>3. wagers[i].opponentStake \in Nat /\ Owed(v) = Owed(wagers[i]) + wagers[i].opponentStake
    <3>1. Owed(v) = Pot(wagers[i]) /\ Owed(wagers[i]) = wagers[i].creatorStake
      BY <2>1, <2>2, OwedTypes
    <3> QED
      BY <2>1, <3>1 DEF Wager, Pot
  <2> QED
    BY <2>1, <2>2, <2>3, EscrowPulled
<1>8. ASSUME NEW u \in Users, CreateStep(u)
      PROVE  EscrowExact'
  <2>1. PICK o \in Addresses, a \in CreateArgs : StoreWager(u, o, a)
    <3>1. \A a \in Args : a \in CreateArgs /\ a.opponent \in Addresses
      BY RegistryAssumption DEF CreateArgs
    <3>2. \A a \in OpenArgs : [a EXCEPT !.opponentStake = a.creatorStake] \in CreateArgs
      BY RegistryAssumption DEF CreateArgs
    <3>3. NoAddress \in Addresses
      BY DEF Addresses
    <3> QED
      BY <1>8, <3>1, <3>2, <3>3 DEF CreateStep, CreateWagerBy, CreateOpenWagerBy
  <2> DEFINE i == nextWagerId
             v == NewWager(u, o, a)
  <2>2. /\ i \in Ids /\ wagers' = [wagers EXCEPT ![i] = v]
        /\ PullStake(i, a.token, u, a.creatorStake)
    BY <2>1, RegistryAssumption DEF StoreWager, SetWager, Inv, StateTypeOK, FreshInv, Ids
  <2>3. v \in Wager /\ v.status = "Open" /\ v.token = a.token /\ v.creatorStake = a.creatorStake
        /\ a.token \in Tokens /\ a.creatorStake \in Nat
    BY NewWagerType DEF NewWager, CreateArgs
  <2>4. wagers[i] = NoWager /\ NoWager \in Wager /\ NoWager.status = "None"
    BY <2>2, NoWagerType DEF Inv, FreshInv, StateTypeOK, NoWager
  <2> HIDE DEF v, i
  <2>5. Owed(wagers[i]) = 0 /\ Owed(v) = a.creatorStake
    BY <2>3, <2>4, OwedTypes
  <2>6. Owed(v) = Owed(wagers[i]) + a.creatorStake
    BY <2>3, <2>5
  <2> QED
    BY <2>2, <2>3, <2>5, <2>6, EscrowPulled
<1>9. CASE UserCall \/ AnybodyCall
  BY <1>2, <1>4, <1>5, <1>6, <1>7, <1>8, <1>9, CallCases DEF Inv, WagerStep, ConsentStep
<1> QED
  BY <1>3, <1>9 DEF Next

\* The registry holds of each token exactly the sum of what it owes on the
\* wagers staked in it, for any number of wagers and tokens and any order of
\* creating, accepting, settling, refunding and claiming them.
THEOREM RegistryEscrowExact == Spec => []EscrowExact
<1>1. Init => EscrowExact
  <2> SUFFICES ASSUME Init, NEW t \in Tokens
               PROVE  balance[t] = SumFunction(OwedIn(t))
    BY DEF EscrowExact, OwedIn
  <2>1. wagers = [i \in Ids |-> NoWager] /\ balance[t] = 0
    BY DEF Init
  <2>2. Owed(NoWager) = 0 /\ wagers \in [Ids -> Wager]
    BY <2>1, NoWagerType, OwedTypes DEF NoWager
  <2>3. DOMAIN OwedIn(t) = Ids /\ \A i \in Ids : OwedIn(t)[i] = 0
    BY <2>1, <2>2 DEF OwedIn
  <2> QED
    BY <2>1, <2>2, <2>3, OwedInTypes, SumZero
<1>2. Inv /\ EscrowExact /\ [Next]_vars => EscrowExact'
  BY EscrowStep
<1> QED
  BY <1>1, <1>2, RegistryInvariant, PTL DEF Spec

\* Whatever is owed on a wager is there in its token.
Covered == \A i \in Ids : wagers[i].status # "None" => Owed(wagers[i]) <= balance[wagers[i].token]

\* The escrow always covers the next payout: no refund, draw or claim ever
\* fails for want of money, whichever other wagers were settled before it (the
\* overdraft guard of PayOut never decides anything).
THEOREM RegistryCovered == Spec => []Covered
<1>1. Inv /\ EscrowExact => Covered
  <2> SUFFICES ASSUME Inv, EscrowExact, NEW i \in Ids, wagers[i].status # "None"
               PROVE  Owed(wagers[i]) <= balance[wagers[i].token]
    BY DEF Covered
  <2> DEFINE t == wagers[i].token
  <2>1. t \in Tokens /\ wagers \in [Ids -> Wager]
    BY DEF Inv, StateTypeOK, SoundInv, Sound
  <2>2. OwedIn(t)[i] <= SumFunction(OwedIn(t))
    BY <2>1, OwedInTypes, SumChange
  <2>3. OwedIn(t)[i] = Owed(wagers[i]) /\ balance[t] = SumFunction(OwedIn(t))
    BY <2>1 DEF EscrowExact, OwedIn
  <2> QED
    BY <2>2, <2>3
<1> QED
  BY <1>1, RegistryInvariant, RegistryEscrowExact, PTL

-----------------------------------------------------------------------------
\* What one step may do to wager i, v being what it becomes.
Moves(i, v) ==
  LET w == wagers[i]
      sameStakes == /\ v.creator = w.creator /\ v.creatorStake = w.creatorStake
                    /\ v.opponentStake = w.opponentStake
  IN  \/ i = nextWagerId /\ nextWagerId' = i + 1 /\ w = NoWager /\ v.status = "Open"
      \/ /\ i < nextWagerId /\ nextWagerId' = nextWagerId
         /\ \/ w.status = "Open" /\ v.status = "Active" /\ sameStakes
            \/ w.status \in {"Open", "Active"} /\ v.status \in {"None", "Refunded", "Draw"}
            \/ w.status = "Active" /\ v.status = "Resolved" /\ ~v.paid /\ sameStakes
            \/ w.status = "Resolved" /\ ~w.paid /\ v.status = "Resolved" /\ v.paid

WagerMoves ==
  \/ UNCHANGED <<wagers, nextWagerId>>
  \/ \E i \in Ids : Moves(i, wagers'[i]) /\ \A j \in Ids \ {i} : wagers'[j] = wagers[j]

LEMMA OneMoves ==
  ASSUME Inv, NEW i \in Ids, NEW v, wagers' = [wagers EXCEPT ![i] = v], Moves(i, v)
  PROVE  WagerMoves
<1>1. wagers'[i] = v /\ \A j \in Ids \ {i} : wagers'[j] = wagers[j]
  BY DEF Inv, StateTypeOK
<1> QED
  BY <1>1 DEF WagerMoves

\* Every call moves at most one wager, in one of these ways.
LEMMA MoveCases ==
  ASSUME Inv, [Next]_vars
  PROVE  WagerMoves
<1>1. \A j \in Ids : wagers[j] \in Wager /\ Sound(wagers[j])
  BY DEF Inv, StateTypeOK, SoundInv
<1>2. \A j \in Ids : wagers[j].status # "None" => j < nextWagerId
  <2>1. nextWagerId \in Nat /\ \A j \in Ids : j \in Nat
    BY RegistryAssumption DEF Inv, StateTypeOK, Ids
  <2>2. NoWager.status = "None"
    BY DEF NoWager
  <2> QED
    BY <2>1, <2>2 DEF Inv, FreshInv
<1>3. CASE OperatorCall \/ Environment \/ UNCHANGED vars
  BY <1>3, OutsideSteps DEF books, WagerMoves
<1>4. ASSUME NEW i \in Ids, ConsentStep(i) PROVE WagerMoves
  BY <1>4 DEF ConsentStep, books, WagerMoves
<1>5. ASSUME NEW i \in Ids, OpenStep(i) PROVE WagerMoves
  <2>1. wagers[i].status = "Open" /\ wagers[i] \in Wager /\ nextWagerId' = nextWagerId
    BY <1>1, <1>5 DEF OpenStep, ReleaseOpen, ExpireOpen
  <2>2. PICK v : wagers' = [wagers EXCEPT ![i] = v] /\ v.status \in {"None", "Refunded"}
    <3>1. NoWager.status = "None" /\ [wagers[i] EXCEPT !.status = "Refunded"].status = "Refunded"
      BY <2>1 DEF NoWager, Wager
    <3> QED
      BY <1>5, <3>1 DEF OpenStep, ReleaseOpen, ExpireOpen, SetWager
  <2>3. Moves(i, v)
    BY <1>2, <2>1, <2>2 DEF Moves
  <2> QED
    BY <2>2, <2>3, OneMoves
<1>6. ASSUME NEW i \in Ids, ActiveStep(i) PROVE WagerMoves
  <2>1. /\ wagers[i].status = "Active" /\ wagers[i] \in Wager /\ ~wagers[i].paid
        /\ nextWagerId' = nextWagerId
    BY <1>1, <1>6 DEF ActiveStep, ResolveTo, SettleDraw, RefundActive, CloseActive, Sound
  <2>2. ASSUME NEW winner \in {wagers[i].creator, wagers[i].opponent}, ResolveTo(i, winner)
        PROVE  WagerMoves
    <3> DEFINE v == [wagers[i] EXCEPT !.status = "Resolved", !.winner = winner]
    <3>1. wagers' = [wagers EXCEPT ![i] = v]
      BY <2>2 DEF ResolveTo, CloseActive, SetWager
    <3>2. /\ v.status = "Resolved" /\ ~v.paid /\ v.creator = wagers[i].creator
          /\ v.creatorStake = wagers[i].creatorStake /\ v.opponentStake = wagers[i].opponentStake
      BY <2>1 DEF Wager
    <3> HIDE DEF v
    <3>3. Moves(i, v)
      BY <1>2, <2>1, <3>2 DEF Moves
    <3> QED
      BY <3>1, <3>3, OneMoves
  <2>3. ASSUME NEW s \in {"Draw", "Refunded"},
               wagers' = [wagers EXCEPT ![i] = [wagers[i] EXCEPT !.status = s]]
        PROVE  WagerMoves
    <3> DEFINE v == [wagers[i] EXCEPT !.status = s]
    <3>1. v.status = s /\ wagers' = [wagers EXCEPT ![i] = v]
      BY <2>1, <2>3 DEF Wager
    <3> HIDE DEF v
    <3>2. Moves(i, v)
      BY <1>2, <2>1, <3>1 DEF Moves
    <3> QED
      BY <3>1, <3>2, OneMoves
  <2> QED
    BY <1>6, <2>2, <2>3 DEF ActiveStep, SettleDraw, RefundActive, CloseActive, SetWager
<1>7. ASSUME NEW i \in Ids, NEW u \in Users, ClaimPayoutBy(u, i) PROVE WagerMoves
  <2> DEFINE v == [wagers[i] EXCEPT !.paid = TRUE]
  <2>1. /\ wagers' = [wagers EXCEPT ![i] = v] /\ wagers[i].status = "Resolved" /\ ~wagers[i].paid
        /\ nextWagerId' = nextWagerId
    BY <1>7 DEF ClaimPayoutBy, SetWager
  <2>2. v.status = "Resolved" /\ v.paid
    BY <1>1, <2>1 DEF Wager
  <2> HIDE DEF v
  <2>3. Moves(i, v)
    BY <1>2, <2>1, <2>2 DEF Moves
  <2> QED
    BY <2>1, <2>3, OneMoves
<1>8. ASSUME NEW i \in Ids, NEW u \in Users, AcceptStep(i, u) PROVE WagerMoves
  <2>1. wagers[i].status = "Open" /\ wagers[i] \in Wager /\ nextWagerId' = nextWagerId
    BY <1>1, <1>8 DEF AcceptStep, AcceptWagerBy, AcceptOpenWagerBy, SettleAccept
  <2>2. ASSUME NEW o, NEW v, v = [wagers[i] EXCEPT !.opponent = o, !.status = "Active"],
               wagers' = [wagers EXCEPT ![i] = v]
        PROVE  WagerMoves
    <3>1. /\ v.status = "Active" /\ v.creator = wagers[i].creator
          /\ v.creatorStake = wagers[i].creatorStake /\ v.opponentStake = wagers[i].opponentStake
      BY <2>1, <2>2 DEF Wager
    <3>2. Moves(i, v)
      BY <1>2, <2>1, <3>1 DEF Moves
    <3> QED
      BY <2>2, <3>2, OneMoves
  <2>3. [wagers[i] EXCEPT !.status = "Active"]
          = [wagers[i] EXCEPT !.opponent = wagers[i].opponent, !.status = "Active"]
    BY <2>1 DEF Wager
  <2> QED
    BY <1>8, <2>2, <2>3 DEF AcceptStep, AcceptWagerBy, AcceptOpenWagerBy, SetWager
<1>9. ASSUME NEW u \in Users, CreateStep(u) PROVE WagerMoves
  <2>1. PICK i \in Nat : i = nextWagerId
    BY DEF Inv, StateTypeOK
  <2>2. PICK v : /\ i <= MaxWagers /\ wagers' = [wagers EXCEPT ![i] = v]
                 /\ v.status = "Open" /\ nextWagerId' = nextWagerId + 1
    <3>1. \A o, a : NewWager(u, o, a).status = "Open"
      BY DEF NewWager
    <3>2. PICK o, a : StoreWager(u, o, a)
      BY <1>9 DEF CreateStep, CreateWagerBy, CreateOpenWagerBy
    <3> QED
      BY <2>1, <3>1, <3>2 DEF StoreWager, SetWager
  <2>3. i \in Ids
    BY <2>1, <2>2, RegistryAssumption DEF Inv, StateTypeOK, FreshInv, Ids
  <2>4. Moves(i, v)
    BY <2>1, <2>2, <2>3 DEF Inv, FreshInv, Moves
  <2> QED
    BY <2>2, <2>3, <2>4, OneMoves
<1>10. CASE UserCall \/ AnybodyCall
  BY <1>4, <1>5, <1>6, <1>7, <1>8, <1>9, <1>10, CallCases DEF Inv, WagerStep
<1> QED
  BY <1>3, <1>10 DEF Next

\* What was put into a wager and has not left it is what it owes.
HeldExact == \A i \in Ids : Held(i) = Owed(wagers[i])

LEMMA HeldIsOwed == Inv => HeldExact
<1> SUFFICES ASSUME Inv, NEW i \in Ids
             PROVE  Held(i) = Owed(wagers[i])
  BY DEF HeldExact
<1> DEFINE w == wagers[i]
           ins == paidIn[i]
           outs == paidOut[i]
<1>1. /\ w \in Wager /\ Sound(w) /\ Fair(w, ins, outs)
      /\ ins \in [Users -> Nat] /\ outs \in [Users -> Nat] /\ IsFiniteSet(Users)
  BY RegistryAssumption DEF Inv, StateTypeOK, SoundInv, FairInv
<1>2. /\ w.creatorStake \in Nat /\ w.opponentStake \in Nat /\ Pot(w) = w.creatorStake + w.opponentStake
      /\ w.status \in {"None", "Open", "Active", "Resolved", "Refunded", "Draw"} /\ w.paid \in BOOLEAN
  BY <1>1 DEF Wager, Statuses, Sound, Pot
<1>3. SumFunction(ins) \in Nat /\ SumFunction(outs) \in Nat
  BY <1>1, SumNat
<1>4. outs = Nothing => SumFunction(outs) = 0
  <2>1. outs = Nothing => DOMAIN outs = Users /\ \A u \in Users : outs[u] = 0
    BY DEF Nothing
  <2> QED
    BY <1>1, <2>1, SumZero
<1>5. Held(i) = SumFunction(ins) - SumFunction(outs)
  BY DEF Held
<1> HIDE DEF w, ins, outs
<1>6. CASE w.status \in {"None", "Refunded", "Draw"}
  <2>1. outs = ins /\ Owed(w) = 0
    BY <1>1, <1>6, OwedTypes DEF Fair
  <2> QED
    BY <1>3, <1>5, <2>1 DEF w
<1>7. CASE w.status = "Open"
  <2>1. /\ w.creator \in Users /\ ins[w.creator] = w.creatorStake
        /\ \A u \in Users \ {w.creator} : ins[u] = 0
    BY <1>1, <1>7 DEF Sound, Fair, Contributed
  <2>2. SumFunction(ins) = w.creatorStake
    BY <1>1, <2>1, SumAlone
  <2>3. SumFunction(outs) = 0 /\ Owed(w) = w.creatorStake
    BY <1>1, <1>4, <1>7, OwedTypes DEF Fair
  <2> QED
    BY <1>2, <1>5, <2>2, <2>3 DEF w
<1>8. CASE w.status \in {"Active", "Resolved"}
  <2>1. /\ w.creator \in Users /\ w.opponent \in Users /\ w.creator # w.opponent
        /\ ins[w.creator] = w.creatorStake /\ ins[w.opponent] = w.opponentStake
        /\ \A u \in Users \ {w.creator, w.opponent} : ins[u] = 0
    BY <1>1, <1>8, RegistryAssumption DEF Sound, Fair, Contributed
  <2>2. SumFunction(ins) = Pot(w)
    BY <1>1, <1>2, <2>1, SumPair
  <2>3. CASE w.status = "Active" \/ ~w.paid
    <3>1. SumFunction(outs) = 0 /\ Owed(w) = Pot(w)
      BY <1>1, <1>4, <1>8, <2>3, OwedTypes DEF Fair
    <3> QED
      BY <1>2, <1>5, <2>2, <3>1 DEF w
  <2>4. CASE w.status = "Resolved" /\ w.paid
    <3>1. /\ w.winner \in Users /\ outs[w.winner] = Pot(w)
          /\ \A u \in Users \ {w.winner} : outs[u] = 0
      BY <1>1, <2>1, <2>4 DEF Sound, Fair, WinnerTakesAll
    <3>2. SumFunction(outs) = Pot(w) /\ Owed(w) = 0
      BY <1>1, <2>4, <3>1, SumAlone, OwedTypes
    <3> QED
      BY <1>2, <1>5, <2>2, <3>2 DEF w
  <2> QED
    BY <1>8, <2>3, <2>4
<1> QED
  BY <1>2, <1>6, <1>7, <1>8

\* The sum of the abstract escrow is the sum of the theorems.
LEMMA SameSum ==
  ASSUME NEW i, NEW f
  PROVE  Promise(i)!SumFunction(f) = SumFunction(f)
BY DEF Promise!SumFunction, SumFunction, Promise!SumFunctionOnSet, SumFunctionOnSet,
       Promise!FoldFunctionOnSet, FoldFunctionOnSet, Promise!MapThenFoldSet, MapThenFoldSet

\* The claims on a wager are together what it owes.
LEMMA DueSum ==
  ASSUME NEW w \in Wager, Sound(w)
  PROVE  /\ SumFunction(Due(w)) = Owed(w) /\ Due(w) \in [DOMAIN Due(w) -> Nat]
         /\ Due(w) = [k \in DOMAIN Due(w) |-> Due(w)[k]]
         /\ w.status \in {"None", "Refunded", "Draw"} \/ (w.status = "Resolved" /\ w.paid)
              => Due(w) = [k \in {} |-> 0]
<1>1. /\ w.creatorStake \in Nat /\ w.opponentStake \in Nat /\ Pot(w) = w.creatorStake + w.opponentStake
      /\ w.status \in {"None", "Open", "Active", "Resolved", "Refunded", "Draw"} /\ w.paid \in BOOLEAN
  BY DEF Wager, Statuses, Sound, Pot
<1>2. Pot(w) \in Nat
  BY <1>1
<1> DEFINE f == Due(w)
           S == DOMAIN f
<1>3. CASE w.status = "Open"
  <2>1. f = [u \in {w.creator} |-> w.creatorStake] /\ Owed(w) = w.creatorStake
    BY <1>3, OwedTypes DEF Due
  <2>2. /\ w.creator \in S /\ (\A z \in S : z = w.creator) /\ f[w.creator] = w.creatorStake
        /\ f \in [S -> Nat] /\ f = [k \in S |-> f[k]]
    BY <1>1, <2>1
  <2> HIDE DEF f, S
  <2>3. SumFunction(f) = f[w.creator]
    BY <2>2, SumOne
  <2> QED
    BY <1>3, <2>1, <2>2, <2>3 DEF f, S
<1>4. CASE w.status = "Active"
  <2>1. /\ f = [u \in {w.creator, w.opponent} |->
                  IF u = w.creator THEN w.creatorStake ELSE w.opponentStake]
        /\ Owed(w) = Pot(w) /\ w.creator # w.opponent
    BY <1>4, OwedTypes, RegistryAssumption DEF Due, Sound
  <2>2. /\ w.creator \in S /\ w.opponent \in S /\ (\A z \in S : z \in {w.creator, w.opponent})
        /\ f[w.creator] = w.creatorStake /\ f[w.opponent] = w.opponentStake
        /\ f \in [S -> Nat] /\ f = [k \in S |-> f[k]]
    BY <1>1, <2>1
  <2> HIDE DEF f, S
  <2>3. SumFunction(f) = f[w.creator] + f[w.opponent]
    BY <2>1, <2>2, SumTwo
  <2> QED
    BY <1>1, <1>4, <2>1, <2>2, <2>3 DEF f, S
<1>5. CASE w.status = "Resolved" /\ ~w.paid
  <2>1. f = [u \in {w.winner} |-> Pot(w)] /\ Owed(w) = Pot(w)
    BY <1>5, OwedTypes DEF Due
  <2>2. /\ w.winner \in S /\ (\A z \in S : z = w.winner) /\ f[w.winner] = Pot(w)
        /\ f \in [S -> Nat] /\ f = [k \in S |-> f[k]]
    BY <1>2, <2>1
  <2> HIDE DEF f, S
  <2>3. SumFunction(f) = f[w.winner]
    BY <2>2, SumOne
  <2> QED
    BY <1>5, <2>1, <2>2, <2>3 DEF f, S
<1>6. CASE w.status \in {"None", "Refunded", "Draw"} \/ (w.status = "Resolved" /\ w.paid)
  <2>1. f = [u \in {} |-> 0] /\ Owed(w) = 0
    BY <1>6, OwedTypes DEF Due
  <2>2. S = {} /\ f \in [S -> Nat] /\ f = [k \in S |-> f[k]]
    BY <2>1
  <2> HIDE DEF f, S
  <2>3. SumFunction(f) = 0
    <3>1. DOMAIN f = {}
      BY <2>1
    <3> QED
      BY <3>1, SumNone
  <2> QED
    BY <2>1, <2>2, <2>3 DEF f, S
<1> QED
  BY <1>1, <1>3, <1>4, <1>5, <1>6

\* A wager all of whose claims are paid at once.
LEMMA PayAll ==
  ASSUME Inv, Inv', HeldExact, HeldExact', NEW i \in Ids,
         \/ wagers'[i].status \in {"None", "Refunded", "Draw"}
         \/ wagers'[i].status = "Resolved" /\ wagers'[i].paid
  PROVE  Promise(i)!PayOut(DOMAIN Due(wagers[i]))
<1> DEFINE f == Due(wagers[i])
           S == DOMAIN f
<1>1. /\ wagers[i] \in Wager /\ Sound(wagers[i])
      /\ wagers'[i] \in Wager /\ Sound(wagers'[i])
  BY DEF Inv, StateTypeOK, SoundInv
<1>2. /\ SumFunction(f) = Owed(wagers[i]) /\ f = [k \in S |-> f[k]] /\ Owed(wagers[i]) \in Nat
      /\ Due(wagers'[i]) = [k \in {} |-> 0] /\ Owed(wagers'[i]) = 0
  BY <1>1, DueSum, OwedTypes
<1>3. Held(i) = Owed(wagers[i]) /\ Held(i)' = Owed(wagers'[i])
  BY DEF HeldExact
<1>4. Held(i)' = Held(i) - SumFunction([k \in S |-> f[k]])
  BY <1>2, <1>3
<1>5. Due(wagers'[i]) = [k \in S \ S |-> f[k]]
  BY <1>2
<1>6. Due(wagers[i])' = Due(wagers'[i])
  BY DEF Due, Pot
<1> QED
  BY <1>4, <1>5, <1>6, SameSum DEF Promise!PayOut

\* Each way a wager moves, as a step of its escrow.
LEMMA EscrowSimulated ==
  ASSUME Inv, Inv', HeldExact, HeldExact', NEW i \in Ids, Moves(i, wagers'[i])
  PROVE  Promise(i)!Next
<1> DEFINE w == wagers[i]
           v == wagers'[i]
<1>1. /\ w \in Wager /\ Sound(w) /\ v \in Wager /\ Sound(v)
      /\ i \in Nat /\ nextWagerId \in Nat
  BY RegistryAssumption DEF Inv, StateTypeOK, SoundInv, Ids
<1>2. Held(i) = Owed(w) /\ Held(i)' = Owed(v) /\ Due(wagers[i])' = Due(v)
  BY DEF HeldExact, Due, Pot
<1>3. /\ Settlement(i) = (CASE w.status = "Resolved" -> "awarded"
                             [] w.status \in {"Open", "Active"} \/ i >= nextWagerId -> "funding"
                             [] OTHER -> "returning")
      /\ Settlement(i)' = (CASE v.status = "Resolved" -> "awarded"
                              [] v.status \in {"Open", "Active"} \/ i >= nextWagerId' -> "funding"
                              [] OTHER -> "returning")
  BY DEF Settlement, Live
<1>4. /\ w.creatorStake \in Nat /\ w.opponentStake \in Nat /\ Pot(w) = w.creatorStake + w.opponentStake
      /\ v.creatorStake \in Nat /\ v.opponentStake \in Nat /\ Pot(v) = v.creatorStake + v.opponentStake
  BY <1>1 DEF Wager, Pot
<1>5. DOMAIN Due(w) \in SUBSET DOMAIN Due(wagers[i])
  OBVIOUS
<1> HIDE DEF w, v
<1>6. CASE i = nextWagerId /\ nextWagerId' = i + 1 /\ w = NoWager /\ v.status = "Open"
  <2>1. w.status = "None"
    BY <1>6 DEF NoWager
  <2>2. Settlement(i) = "funding" /\ Settlement(i)' = "funding"
    BY <1>1, <1>3, <1>6, <2>1
  <2>3. Due(w) = [k \in {} |-> 0] /\ Due(v) = [u \in {v.creator} |-> v.creatorStake]
    BY <1>6, <2>1 DEF Due
  <2>4. Owed(w) = 0 /\ Owed(v) = v.creatorStake
    BY <1>1, <1>6, <2>1, OwedTypes
  <2>5. /\ v.creator \in DOMAIN Due(v) \ DOMAIN Due(w)
        /\ DOMAIN Due(v) = DOMAIN Due(w) \cup {v.creator}
        /\ \A j \in DOMAIN Due(w) : Due(v)[j] = Due(w)[j]
        /\ Owed(v) = Owed(w) + Due(v)[v.creator]
    BY <1>4, <2>3, <2>4
  <2> QED
    BY <1>2, <2>2, <2>5 DEF Promise!Next, Promise!Deposit, w
<1>7. CASE /\ i < nextWagerId /\ nextWagerId' = nextWagerId
           /\ w.status = "Open" /\ v.status = "Active" /\ v.creator = w.creator
           /\ v.creatorStake = w.creatorStake /\ v.opponentStake = w.opponentStake
  <2>1. Settlement(i) = "funding" /\ Settlement(i)' = "funding"
    BY <1>3, <1>7
  <2>2. /\ Due(w) = [u \in {w.creator} |-> w.creatorStake]
        /\ Due(v) = [u \in {w.creator, v.opponent} |->
                       IF u = w.creator THEN w.creatorStake ELSE w.opponentStake]
        /\ w.creator # v.opponent
    BY <1>1, <1>7, RegistryAssumption DEF Due, Sound
  <2>3. Owed(w) = w.creatorStake /\ Owed(v) = w.creatorStake + w.opponentStake
    BY <1>1, <1>4, <1>7, OwedTypes
  <2>4. /\ v.opponent \in DOMAIN Due(v) \ DOMAIN Due(w)
        /\ DOMAIN Due(v) = DOMAIN Due(w) \cup {v.opponent}
        /\ \A j \in DOMAIN Due(w) : Due(v)[j] = Due(w)[j]
        /\ Owed(v) = Owed(w) + Due(v)[v.opponent]
    BY <2>2, <2>3
  <2> QED
    BY <1>2, <2>1, <2>4 DEF Promise!Next, Promise!Deposit, w
<1>8. CASE /\ i < nextWagerId /\ nextWagerId' = nextWagerId
           /\ w.status \in {"Open", "Active"} /\ v.status \in {"None", "Refunded", "Draw"}
  <2>1. Settlement(i) = "funding" /\ Settlement(i)' = "returning"
    BY <1>1, <1>3, <1>8
  <2>2. Promise(i)!PayOut(DOMAIN Due(wagers[i]))
    BY <1>8, PayAll DEF v
  <2> QED
    BY <2>1, <2>2 DEF Promise!Next, Promise!Return
<1>9. CASE /\ i < nextWagerId /\ nextWagerId' = nextWagerId
           /\ w.status = "Active" /\ v.status = "Resolved" /\ ~v.paid
           /\ v.creatorStake = w.creatorStake /\ v.opponentStake = w.opponentStake
  <2>1. Settlement(i) = "funding" /\ Settlement(i)' = "awarded"
    BY <1>1, <1>3, <1>9
  <2>2. Owed(v) = Owed(w)
    BY <1>1, <1>4, <1>9, OwedTypes
  <2>3. SumFunction(Due(v)) = Owed(v)
    BY <1>1, DueSum
  <2>4. Promise(i)!SumFunction(Due(v)) = Held(i) /\ Held(i)' = Held(i)
    BY <1>2, <2>2, <2>3, SameSum
  <2> QED
    BY <1>2, <2>1, <2>4 DEF Promise!Next, Promise!Award
<1>10. CASE /\ i < nextWagerId /\ nextWagerId' = nextWagerId
            /\ w.status = "Resolved" /\ ~w.paid /\ v.status = "Resolved" /\ v.paid
  <2>1. Settlement(i) = "awarded" /\ Settlement(i)' = "awarded"
    BY <1>1, <1>3, <1>10
  <2>2. Promise(i)!PayOut(DOMAIN Due(wagers[i]))
    BY <1>10, PayAll DEF v
  <2> QED
    BY <2>1, <2>2 DEF Promise!Next, Promise!Pay
<1> QED
  BY <1>6, <1>7, <1>8, <1>9, <1>10 DEF Moves, w, v

\* A step moves at most one wager and leaves the escrows of the others alone.
LEMMA EveryEscrowSimulated ==
  ASSUME Inv, Inv', HeldExact, HeldExact', [Next]_vars
  PROVE  \A i \in Ids : [Promise(i)!Next]_(Promise(i)!vars)
<1> SUFFICES ASSUME NEW i \in Ids
             PROVE  [Promise(i)!Next]_(Promise(i)!vars)
  OBVIOUS
<1>1. nextWagerId \in Nat /\ \A j \in Ids : j \in Nat
  BY RegistryAssumption DEF Inv, StateTypeOK, Ids
<1>2. ASSUME wagers'[i] = wagers[i], i >= nextWagerId' <=> i >= nextWagerId
      PROVE  UNCHANGED Promise(i)!vars
  <2>1. Settlement(i)' = Settlement(i)
    BY <1>2 DEF Settlement, Live
  <2>2. Due(wagers[i])' = Due(wagers[i])
    BY <1>2 DEF Due, Pot
  <2>3. Held(i)' = Held(i)
    <3>1. Owed(wagers'[i]) = Owed(wagers[i])
      BY <1>2
    <3> QED
      BY <3>1 DEF HeldExact
  <2> QED
    BY <2>1, <2>2, <2>3 DEF Promise!vars
<1>3. CASE UNCHANGED <<wagers, nextWagerId>>
  BY <1>2, <1>3
<1>4. ASSUME NEW m \in Ids, Moves(m, wagers'[m]), \A j \in Ids \ {m} : wagers'[j] = wagers[j]
      PROVE  [Promise(i)!Next]_(Promise(i)!vars)
  <2>1. CASE i = m
    BY <1>4, <2>1, EscrowSimulated
  <2>2. CASE i # m
    <3>1. nextWagerId' = nextWagerId \/ (m = nextWagerId /\ nextWagerId' = m + 1)
      BY <1>4 DEF Moves
    <3>2. i >= nextWagerId' <=> i >= nextWagerId
      BY <1>1, <2>2, <3>1
    <3> QED
      BY <1>2, <1>4, <2>2, <3>2
  <2> QED
    BY <2>1, <2>2
<1> QED
  BY <1>3, <1>4, MoveCases DEF WagerMoves

\* Every wager is an escrow of its own, for any users, tokens, operators and
\* order of calls: funded by its parties, settled once by returning the stakes
\* or awarding the pot, paid once (_claimRefund, _settleDraw, _claimPayout),
\* and never funded again.
THEOREM RegistryImplementsEscrow == Spec => ImplementsEscrow
<1>1. Init => \A i \in Ids : Promise(i)!Init
  <2> SUFFICES ASSUME Init, NEW i \in Ids
               PROVE  Promise(i)!Init
    OBVIOUS
  <2>1. wagers[i] = NoWager /\ nextWagerId = 1 /\ i \in Nat /\ i >= 1
    BY RegistryAssumption DEF Init, Ids
  <2>2. wagers[i].status = "None"
    BY <2>1 DEF NoWager
  <2>3. Settlement(i) = "funding" /\ DOMAIN Due(wagers[i]) = {}
    BY <2>1, <2>2 DEF Settlement, Due
  <2>4. Held(i) = Owed(wagers[i]) /\ Owed(wagers[i]) = 0
    BY <2>2, InitInv, HeldIsOwed DEF HeldExact, Owed
  <2> QED
    BY <2>3, <2>4 DEF Promise!Init
<1>2. Inv /\ HeldExact /\ [Next]_vars /\ Inv' /\ HeldExact'
        => [\A i \in Ids : [Promise(i)!Next]_(Promise(i)!vars)]_vars
  BY EveryEscrowSimulated
<1> QED
  BY <1>1, <1>2, RegistryInvariant, HeldIsOwed, PTL DEF Spec, ImplementsEscrow
=============================================================================
