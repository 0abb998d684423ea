-------------------------- MODULE MembershipProofs --------------------------
(***************************************************************************)
(* Proofs about Membership: the types, the count of open wagers, the fees  *)
(* held in all tokens, and what a step may do to a running membership, a   *)
(* voucher and a blocked user.                                             *)
(***************************************************************************)
EXTENDS Membership, SumTheorems

-----------------------------------------------------------------------------
\* What a step does to the memberships.

\* Only u's membership changes, to m.
Wrote(u, m) == u \in Users /\ m \in Members /\ member' = [member EXCEPT ![u] = m]

FeeTypes == paymentToken \in Tokens /\ accruedFees \in Nat /\ held \in [Tokens -> Nat]

\* The count of the fees moves with the balance of one token.
FeeStep ==
  /\ FeeTypes'
  /\ \E k \in Tokens : \E b \in Nat : /\ held' = [held EXCEPT ![k] = b]
                                      /\ accruedFees' + held[k] = accruedFees + b

\* A fee that is collected is counted.
LEMMA Collected ==
  ASSUME TypeOK, NEW amount \in Nat, CollectPayment(amount)
  PROVE  FeeStep
  <1>1. paymentToken' = paymentToken /\ accruedFees' = accruedFees + amount
        /\ held' = [held EXCEPT ![paymentToken] = held[paymentToken] + amount]
    BY DEF CollectPayment
  <1>2. FeeTypes
    BY DEF TypeOK, FeeTypes
  <1>3. held[paymentToken] + amount \in Nat
        /\ accruedFees' + held[paymentToken] = accruedFees + (held[paymentToken] + amount)
    BY <1>1, <1>2 DEF FeeTypes
  <1>4. FeeTypes'
    BY <1>1, <1>2, <1>3 DEF FeeTypes
  <1>. QED BY <1>1, <1>2, <1>3, <1>4 DEF FeeStep, FeeTypes

\* A step that leaves fees and balances alone.
LEMMA FeesKept ==
  ASSUME FeeTypes, paymentToken' \in Tokens, accruedFees' = accruedFees, held' = held
  PROVE  FeeStep
  <1>1. FeeTypes'
    BY DEF FeeTypes
  <1>2. held[paymentToken] \in Nat /\ held' = [held EXCEPT ![paymentToken] = held[paymentToken]]
    BY DEF FeeTypes
  <1>. QED BY <1>1, <1>2 DEF FeeStep, FeeTypes

\* Writing a membership keeps the function's type.
LEMMA WroteTypes ==
  ASSUME TypeOK, NEW u, NEW m, Wrote(u, m)
  PROVE  member' \in [Users -> Members]
  BY DEF TypeOK, Wrote

\* A fresh membership has its type, whoever it is for.
LEMMA StartedType ==
  ASSUME TypeOK, NEW u \in Users, NEW t \in Tiers, NEW days \in Nat
  PROVE  Started(u, t, days) \in Members
  <1>1. member[u] \in Members /\ now \in Nat
    BY DEF TypeOK
  <1>2. member[u].activeCount \in Nat
    BY <1>1 DEF Members
  <1>. QED BY <1>1, <1>2 DEF Started, Members

\* So has a membership whose tier or end is written.
LEMMA RenewedType ==
  ASSUME TypeOK, NEW u \in Users, NEW t \in Tiers \cup {None}, NEW e \in Nat
  PROVE  Renewed(u, t, e) \in Members
  <1>1. member[u] \in Members
    BY DEF TypeOK
  <1>. QED BY <1>1 DEF Renewed, Members

\* The configuration of a member's tier.
LEMMA ConfigTypes ==
  ASSUME TypeOK
  PROVE  /\ \A t \in Tiers : /\ config[t].price \in Nat /\ config[t].days \in Nat
                             /\ config[t].monthly \in Nat /\ config[t].concurrent \in Nat
         /\ \A u \in Users : member[u].tier # None => member[u].tier \in Tiers
         /\ \A u \in Users : /\ member[u].expiresAt \in Nat /\ member[u].monthCount \in Nat
                             /\ member[u].monthAnchor \in Nat /\ member[u].activeCount \in Nat
  <1>1. \A t \in Tiers : config[t] \in ConfigRecords
    BY DEF TypeOK
  <1>2. \A u \in Users : member[u] \in Members
    BY DEF TypeOK
  <1>3. \A c \in ConfigRecords : c.price \in Nat /\ c.days \in Nat /\ c.monthly \in Nat /\ c.concurrent \in Nat
    BY DEF ConfigRecords
  <1>4. \A m \in Members : /\ m.tier \in Tiers \cup {None} /\ m.expiresAt \in Nat
                           /\ m.monthCount \in Nat /\ m.monthAnchor \in Nat /\ m.activeCount \in Nat
    BY DEF Members
  <1>. QED BY <1>1, <1>2, <1>3, <1>4

\* A month that rolls over keeps the type.
LEMMA RolledType ==
  ASSUME TypeOK, NEW u \in Users
  PROVE  Rolled(u) \in Members
  <1>1. member[u] \in Members /\ now \in Nat
    BY DEF TypeOK
  <1>. QED BY <1>1 DEF Rolled, Members

-----------------------------------------------------------------------------
\* The steps that write a membership, by what they write.

\* Nothing is written.
Kept == member' = member /\ open' = open

\* A membership starts: bought, granted or redeemed.
Starts(u, t, days) ==
  /\ u \notin blocked
  /\ ~Active(u) \/ ManagerStep(u)
  /\ member' = [member EXCEPT ![u] = Started(u, t, days)]
  /\ open' = open

Upgrades(u, t) ==
  /\ u \notin blocked
  /\ config[t].price > ConfigOf(u).price
  /\ member' = [member EXCEPT ![u] = Renewed(u, t, member[u].expiresAt)]
  /\ open' = open

Extends(u, e) ==
  /\ u \notin blocked
  /\ e >= member[u].expiresAt
  /\ member' = [member EXCEPT ![u] = Renewed(u, member[u].tier, e)]
  /\ open' = open

Revokes(u) ==
  /\ ManagerStep(u)
  /\ member' = [member EXCEPT ![u] = Renewed(u, None, 0)]
  /\ open' = open

\* A wager is opened, with the month's count and anchor the hook computes.
Opens(w, count, anchor) ==
  LET u == UserOf[w]
  IN /\ w \notin open /\ open' = open \cup {w}
     /\ member' = [member EXCEPT ![u] =
          [tier |-> member[u].tier, expiresAt |-> member[u].expiresAt, monthCount |-> count,
           monthAnchor |-> anchor, activeCount |-> member[u].activeCount + 1]]

Closes(w) ==
  LET u == UserOf[w]
      m == member[u]
  IN /\ w \in open /\ open' = open \ {w}
     /\ member' = [member EXCEPT ![u] =
          [tier |-> m.tier, expiresAt |-> m.expiresAt, monthCount |-> m.monthCount,
           monthAnchor |-> m.monthAnchor,
           activeCount |-> IF m.activeCount > 0 THEN m.activeCount - 1 ELSE 0]]

MemberStep ==
  \/ Kept
  \/ \E u \in Users : \E t \in Tiers : \E days \in Nat : Starts(u, t, days)
  \/ \E u \in Users : \E t \in Tiers : Upgrades(u, t)
  \/ \E u \in Users : \E e \in Nat : member[u].tier # None /\ Extends(u, e)
  \/ \E u \in Users : Revokes(u)
  \/ \E w \in Slots : \E count \in Nat : \E anchor \in Nat : Opens(w, count, anchor)
  \/ \E w \in Slots : Closes(w)

\* The voucher a redemption names has a tier and a duration.
LEMMA LiveVoucher ==
  ASSUME TypeOK, NEW v \in Ids, Live(v)
  PROVE  /\ voucher[v] \in VoucherInfos
         /\ voucher[v].owner \in Holders /\ voucher[v].tier \in Tiers /\ voucher[v].days \in Nat
  <1>1. voucher[v] \in VoucherInfos
    BY DEF TypeOK, Live
  <1>. QED BY <1>1 DEF VoucherInfos

\* Recording a wager is one of the writes above.
LEMMA RecordCreateOpens ==
  ASSUME TypeOK, NEW w \in Slots, RecordCreate(w)
  PROVE  \E count \in Nat : \E anchor \in Nat : Opens(w, count, anchor)
  <1>. DEFINE u == UserOf[w]
  <1>1. u \in Users
    BY MembershipAssumption
  <1>2. /\ Rolled(u).tier = member[u].tier /\ Rolled(u).expiresAt = member[u].expiresAt
        /\ Rolled(u).activeCount = member[u].activeCount
    <2>1. CASE MonthOver(u)
      BY <2>1 DEF Rolled
    <2>2. CASE ~MonthOver(u)
      BY <2>2 DEF Rolled
    <2>. QED BY <2>1, <2>2
  <1>3. Rolled(u).monthCount + 1 \in Nat /\ Rolled(u).monthAnchor \in Nat
    BY <1>1, RolledType DEF Members
  <1>4. Opens(w, Rolled(u).monthCount + 1, Rolled(u).monthAnchor)
    BY <1>2 DEF RecordCreate, Opens
  <1>. QED BY <1>3, <1>4

\* Every step writes the memberships in one of these ways.
LEMMA StepCases ==
  ASSUME TypeOK, [Next]_vars
  PROVE  MemberStep
  <1>. USE DEF adminVars, voucherVars, feeVars
  <1>1. ASSUME NEW u \in Users, NEW t \in Tiers, PurchaseTier(u, t) PROVE MemberStep
    <2>1. Starts(u, t, config[t].days)
      BY <1>1 DEF PurchaseTier, Starts
    <2>. QED BY <2>1, ConfigTypes DEF MemberStep
  <1>2. ASSUME NEW u \in Users, NEW t \in Tiers, UpgradeTier(u, t) PROVE MemberStep
    <2>1. Upgrades(u, t)
      BY <1>2 DEF UpgradeTier, Upgrades
    <2>. QED BY <2>1 DEF MemberStep
  <1>3. ASSUME NEW u \in Users, ExtendMembership(u) PROVE MemberStep
    <2>. DEFINE base == IF member[u].expiresAt > now THEN member[u].expiresAt ELSE now
                e == base + ConfigOf(u).days
    <2>1. member[u].tier \in Tiers /\ now \in Nat /\ member[u].expiresAt \in Nat
      BY <1>3, ConfigTypes DEF ExtendMembership, TypeOK
    <2>2. ConfigOf(u).days \in Nat
      BY <2>1, ConfigTypes DEF ConfigOf
    <2>3. base \in Nat /\ base >= member[u].expiresAt
      BY <2>1
    <2>4. e \in Nat /\ e >= member[u].expiresAt
      <3>. HIDE DEF base
      <3>. QED BY <2>1, <2>2, <2>3
    <2>5. member' = [member EXCEPT ![u] = Renewed(u, member[u].tier, e)] /\ open' = open
          /\ u \notin blocked /\ member[u].tier # None
      BY <1>3 DEF ExtendMembership
    <2>. HIDE DEF e
    <2>. QED BY <2>4, <2>5 DEF Extends, MemberStep
  <1>4. ASSUME NEW u \in Users, NEW v \in Ids, RedeemVoucher(u, v) PROVE MemberStep
    <2>1. Starts(u, voucher[v].tier, voucher[v].days) /\ Live(v)
      BY <1>4 DEF RedeemVoucher, Starts
    <2>. QED BY <2>1, LiveVoucher DEF MemberStep
  <1>5. ASSUME NEW u \in Users, NEW t \in Tiers, NEW days \in GrantDays, GrantMembership(u, t, days)
        PROVE  MemberStep
    <2>1. ManagerStep(u)
      BY <1>5 DEF ManagerStep
    <2>2. Starts(u, t, days)
      BY <1>5, <2>1 DEF GrantMembership, Starts
    <2>. QED BY <2>2, MembershipAssumption DEF MemberStep
  <1>6. ASSUME NEW u \in Users, RevokeMembership(u) PROVE MemberStep
    <2>1. ManagerStep(u)
      BY <1>6 DEF ManagerStep
    <2>2. Revokes(u)
      BY <1>6, <2>1 DEF RevokeMembership, Revokes
    <2>. QED BY <2>2 DEF MemberStep
  <1>7. ASSUME NEW w \in Slots, RecordCreate(w) PROVE MemberStep
    BY <1>7, RecordCreateOpens DEF MemberStep
  <1>8. ASSUME NEW w \in Slots, RecordClose(w) PROVE MemberStep
    <2>1. Closes(w)
      BY <1>8 DEF RecordClose, Closes
    <2>. QED BY <2>1 DEF MemberStep
  <1>9. ASSUME NEW h \in Holders, HolderStep(h) PROVE MemberStep
    <2>1. Kept
      BY <1>9 DEF HolderStep, Mint, Transfer, Kept
    <2>. QED BY <2>1 DEF MemberStep
  <1>10. ASSUME NEW v \in Ids, Burn(v) PROVE MemberStep
    <2>1. Kept
      BY <1>10 DEF Burn, Kept
    <2>. QED BY <2>1 DEF MemberStep
  <1>11. ASSUME AdminStep \/ Tick \/ UNCHANGED vars PROVE MemberStep
    <2>1. Kept
      BY <1>11 DEF AdminStep, SetTier, SetPaymentToken, SetAuthorizedCaller, SetBlocked,
                   SetVoucher, WithdrawFees, Tick, vars, Kept
    <2>. QED BY <2>1 DEF MemberStep
  <1>12. ASSUME NEW u \in Users, UserStep(u) PROVE MemberStep
    BY <1>12, <1>1, <1>2, <1>3, <1>4 DEF UserStep
  <1>13. ASSUME NEW u \in Users, ManagerStep(u) PROVE MemberStep
    BY <1>13, <1>5, <1>6 DEF ManagerStep
  <1>. QED BY <1>7, <1>8, <1>9, <1>10, <1>11, <1>12, <1>13 DEF Next

-----------------------------------------------------------------------------
\* The memberships keep their type, whatever the step.
LEMMA MemberTypeStep ==
  ASSUME TypeOK, [Next]_vars
  PROVE  member' \in [Users -> Members]
  <1>. USE DEF Wrote
  <1>0. member \in [Users -> Members]
    BY DEF TypeOK
  <1>1. CASE Kept
    BY <1>0, <1>1 DEF Kept
  <1>2. ASSUME NEW u \in Users, NEW t \in Tiers, NEW days \in Nat, Starts(u, t, days)
        PROVE  member' \in [Users -> Members]
    BY <1>0, <1>2, StartedType DEF Starts
  <1>3. ASSUME NEW u \in Users, NEW t \in Tiers, Upgrades(u, t)
        PROVE  member' \in [Users -> Members]
    BY <1>0, <1>3, RenewedType, ConfigTypes DEF Upgrades
  <1>4. ASSUME NEW u \in Users, NEW e \in Nat, member[u].tier # None, Extends(u, e)
        PROVE  member' \in [Users -> Members]
    BY <1>0, <1>4, RenewedType, ConfigTypes DEF Extends
  <1>5. ASSUME NEW u \in Users, Revokes(u) PROVE member' \in [Users -> Members]
    BY <1>0, <1>5, RenewedType DEF Revokes
  <1>6. ASSUME NEW w \in Slots, NEW count \in Nat, NEW anchor \in Nat, Opens(w, count, anchor)
        PROVE  member' \in [Users -> Members]
    <2>1. UserOf[w] \in Users
      BY MembershipAssumption
    <2>2. member[UserOf[w]] \in Members
      BY <1>0, <2>1
    <2>. QED BY <1>0, <1>6, <2>1, <2>2 DEF Opens, Members
  <1>7. ASSUME NEW w \in Slots, Closes(w) PROVE member' \in [Users -> Members]
    <2>1. UserOf[w] \in Users
      BY MembershipAssumption
    <2>2. member[UserOf[w]] \in Members
      BY <1>0, <2>1
    <2>. QED BY <1>0, <1>7, <2>1, <2>2 DEF Closes, Members
  <1>. QED BY <1>1, <1>2, <1>3, <1>4, <1>5, <1>6, <1>7, StepCases DEF MemberStep

\* So do the fees, which stay with the balances.
LEMMA FeesMove ==
  ASSUME TypeOK, [Next]_vars
  PROVE  FeeStep
  <1>. USE DEF feeVars
  <1>0. FeeTypes
    BY DEF TypeOK, FeeTypes
  <1>1. ASSUME NEW u \in Users, NEW t \in Tiers, PurchaseTier(u, t) PROVE FeeStep
    BY <1>1, Collected, ConfigTypes DEF PurchaseTier
  <1>2. ASSUME NEW u \in Users, NEW t \in Tiers, UpgradeTier(u, t) PROVE FeeStep
    <2>1. member[u].tier \in Tiers
      BY <1>2, ConfigTypes DEF UpgradeTier, Active
    <2>2. config[t].price - ConfigOf(u).price \in Nat
      BY <1>2, <2>1, ConfigTypes DEF UpgradeTier, ConfigOf
    <2>. QED BY <1>2, <2>2, Collected DEF UpgradeTier
  <1>3. ASSUME NEW u \in Users, ExtendMembership(u) PROVE FeeStep
    <2>1. ConfigOf(u).price \in Nat
      BY <1>3, ConfigTypes DEF ExtendMembership, ConfigOf
    <2>. QED BY <1>3, <2>1, Collected DEF ExtendMembership
  <1>4. ASSUME NEW amount \in 1..MaxFees, WithdrawFees(amount) PROVE FeeStep
    <2>1. paymentToken' = paymentToken /\ accruedFees' = accruedFees - amount
          /\ held' = [held EXCEPT ![paymentToken] = held[paymentToken] - amount]
          /\ amount <= accruedFees /\ amount <= held[paymentToken]
      BY <1>4 DEF WithdrawFees
    <2>2. /\ amount \in Nat /\ accruedFees - amount \in Nat /\ held[paymentToken] - amount \in Nat
          /\ accruedFees' + held[paymentToken] = accruedFees + (held[paymentToken] - amount)
      BY <1>0, <2>1, MembershipAssumption DEF FeeTypes
    <2>3. FeeTypes'
      BY <1>0, <2>1, <2>2 DEF FeeTypes
    <2>. QED BY <1>0, <2>1, <2>2, <2>3 DEF FeeTypes, FeeStep
  <1>5. ASSUME NEW token \in Tokens, SetPaymentToken(token) PROVE FeeStep
    BY <1>0, <1>5, FeesKept DEF SetPaymentToken
  <1>6. ASSUME UNCHANGED feeVars PROVE FeeStep
    BY <1>0, <1>6, FeesKept DEF FeeTypes
  <1>7. ASSUME NEW u \in Users, UserStep(u) \/ ManagerStep(u) PROVE FeeStep
    BY <1>7, <1>1, <1>2, <1>3, <1>6
       DEF UserStep, RedeemVoucher, ManagerStep, GrantMembership, RevokeMembership
  <1>8. ASSUME AdminStep PROVE FeeStep
    BY <1>8, <1>4, <1>5, <1>6 DEF AdminStep, SetTier, SetAuthorizedCaller, SetBlocked, SetVoucher
  <1>9. ASSUME NEW h \in Holders, HolderStep(h) PROVE FeeStep
    BY <1>9, <1>6 DEF HolderStep, Mint, Transfer
  <1>10. ASSUME NEW w \in Slots, RecordCreate(w) \/ RecordClose(w) PROVE FeeStep
    BY <1>10, <1>6 DEF RecordCreate, RecordClose
  <1>11. ASSUME Tick \/ UNCHANGED vars PROVE FeeStep
    BY <1>11, <1>6 DEF Tick, vars
  <1>12. ASSUME NEW v \in Ids, Burn(v) PROVE FeeStep
    BY <1>12, <1>6 DEF Burn
  <1>. QED BY <1>7, <1>8, <1>9, <1>10, <1>11, <1>12 DEF Next
-----------------------------------------------------------------------------
\* The steps that touch a voucher.
VoucherStep ==
  \/ UNCHANGED voucherVars
  \/ \E h \in Holders : \E t \in Tiers : \E n \in 1..2 : Mint(h, t, n)
  \/ \E h \in Holders : \E v \in Ids : Transfer(v, h)
  \/ \E v \in Ids : Burn(v)
  \/ \E u \in Users : \E v \in Ids : RedeemVoucher(u, v)

LEMMA VoucherCases ==
  ASSUME [Next]_vars
  PROVE  VoucherStep
  <1>1. ASSUME NEW u \in Users, UserStep(u) \/ ManagerStep(u) PROVE VoucherStep
    BY <1>1 DEF VoucherStep, UserStep, PurchaseTier, UpgradeTier, ExtendMembership,
                ManagerStep, GrantMembership, RevokeMembership
  <1>2. ASSUME AdminStep PROVE VoucherStep
    BY <1>2 DEF VoucherStep, AdminStep, SetTier, SetPaymentToken, SetAuthorizedCaller,
                SetBlocked, SetVoucher, WithdrawFees
  <1>3. ASSUME NEW h \in Holders, HolderStep(h) PROVE VoucherStep
    BY <1>3 DEF HolderStep, VoucherStep
  <1>4. ASSUME NEW w \in Slots, RecordCreate(w) \/ RecordClose(w) PROVE VoucherStep
    BY <1>4 DEF RecordCreate, RecordClose, VoucherStep
  <1>5. ASSUME Tick \/ UNCHANGED vars PROVE VoucherStep
    BY <1>5 DEF Tick, vars, VoucherStep
  <1>6. ASSUME NEW v \in Ids, Burn(v) PROVE VoucherStep
    BY <1>6 DEF VoucherStep
  <1>. QED BY <1>1, <1>2, <1>3, <1>4, <1>5, <1>6 DEF Next

VoucherTypes == nextId \in Nat /\ voucher \in [Ids -> VoucherInfos \cup {None}]

\* The vouchers keep their type.
LEMMA VoucherTypeStep ==
  ASSUME TypeOK, [Next]_vars
  PROVE  VoucherTypes'
  <1>. USE DEF VoucherTypes, voucherVars
  <1>0. VoucherTypes
    BY DEF TypeOK
  <1>1. CASE UNCHANGED voucherVars
    BY <1>0, <1>1
  <1>2. ASSUME NEW h \in Holders, NEW t \in Tiers, NEW n \in 1..2, Mint(h, t, n)
        PROVE  VoucherTypes'
    <2>1. [owner |-> h, tier |-> t, days |-> config[t].days] \in VoucherInfos
      BY ConfigTypes DEF VoucherInfos
    <2>2. Minted(n, h, t) \in [Ids -> VoucherInfos \cup {None}]
      BY <1>0, <2>1 DEF Minted
    <2>. QED BY <1>0, <1>2, <2>2 DEF Mint
  <1>3. ASSUME NEW h \in Holders, NEW v \in Ids, Transfer(v, h) PROVE VoucherTypes'
    <2>1. [owner |-> h, tier |-> voucher[v].tier, days |-> voucher[v].days] \in VoucherInfos
      BY <1>3, LiveVoucher DEF VoucherInfos, Transfer
    <2>. QED BY <1>0, <1>3, <2>1 DEF Transfer
  <1>4. ASSUME NEW v \in Ids, Burn(v) PROVE VoucherTypes'
    BY <1>0, <1>4 DEF Burn
  <1>5. ASSUME NEW u \in Users, NEW v \in Ids, RedeemVoucher(u, v) PROVE VoucherTypes'
    BY <1>0, <1>5 DEF RedeemVoucher
  <1>. QED BY <1>1, <1>2, <1>3, <1>4, <1>5, VoucherCases DEF VoucherStep

AdminTypes ==
  /\ now \in Nat
  /\ config \in [Tiers -> ConfigRecords]
  /\ authorized \subseteq Registries /\ blocked \subseteq Users /\ wired \in BOOLEAN

\* What the admin, the guard and the clock write keeps its type.
LEMMA AdminTypeStep ==
  ASSUME TypeOK, [Next]_vars
  PROVE  AdminTypes'
  <1>. USE DEF AdminTypes, adminVars
  <1>0. AdminTypes
    BY DEF TypeOK
  <1>1. ASSUME UNCHANGED <<now, adminVars>> PROVE AdminTypes'
    BY <1>0, <1>1
  <1>2. ASSUME NEW u \in Users, UserStep(u) \/ ManagerStep(u) PROVE AdminTypes'
    <2>1. UNCHANGED <<now, adminVars>>
      BY <1>2 DEF UserStep, PurchaseTier, UpgradeTier, ExtendMembership, RedeemVoucher,
                  ManagerStep, GrantMembership, RevokeMembership
    <2>. QED BY <2>1, <1>1
  <1>3. ASSUME NEW h \in Holders, HolderStep(h) PROVE AdminTypes'
    BY <1>3, <1>1 DEF HolderStep, Mint, Transfer
  <1>4. ASSUME NEW w \in Slots, RecordCreate(w) \/ RecordClose(w) PROVE AdminTypes'
    BY <1>4, <1>1 DEF RecordCreate, RecordClose
  <1>5. ASSUME NEW v \in Ids, Burn(v) PROVE AdminTypes'
    BY <1>5, <1>1 DEF Burn
  <1>6. ASSUME NEW t \in Tiers, NEW c \in Configs[t], SetTier(t, c) PROVE AdminTypes'
    <2>1. c \in ConfigRecords
      BY MembershipAssumption
    <2>. QED BY <1>0, <1>6, <2>1 DEF SetTier
  <1>7. ASSUME NEW r \in Registries, NEW allowed \in BOOLEAN, SetAuthorizedCaller(r, allowed)
        PROVE  AdminTypes'
    <2>1. authorized' \subseteq Registries
      <3>1. CASE allowed
        BY <1>0, <1>7, <3>1 DEF SetAuthorizedCaller
      <3>2. CASE ~allowed
        BY <1>0, <1>7, <3>2 DEF SetAuthorizedCaller
      <3>. QED BY <3>1, <3>2
    <2>. QED BY <1>0, <1>7, <2>1 DEF SetAuthorizedCaller
  <1>8. ASSUME NEW S \in SUBSET Users, SetBlocked(S) PROVE AdminTypes'
    BY <1>0, <1>8 DEF SetBlocked
  <1>9. ASSUME NEW this \in BOOLEAN, SetVoucher(this) PROVE AdminTypes'
    BY <1>0, <1>9, Zenon DEF SetVoucher
  <1>10. ASSUME NEW token \in Tokens, SetPaymentToken(token) PROVE AdminTypes'
    BY <1>1, <1>10 DEF SetPaymentToken
  <1>11. ASSUME NEW amount \in 1..MaxFees, WithdrawFees(amount) PROVE AdminTypes'
    BY <1>1, <1>11 DEF WithdrawFees
  <1>12. ASSUME AdminStep PROVE AdminTypes'
    BY <1>12, <1>6, <1>7, <1>8, <1>9, <1>10, <1>11 DEF AdminStep
  <1>13. ASSUME Tick PROVE AdminTypes'
    BY <1>0, <1>13 DEF Tick
  <1>14. ASSUME UNCHANGED vars PROVE AdminTypes'
    BY <1>1, <1>14 DEF vars
  <1>. QED BY <1>2, <1>3, <1>4, <1>5, <1>12, <1>13, <1>14 DEF Next

\* Open wagers are slots.
LEMMA OpenStep ==
  ASSUME TypeOK, [Next]_vars
  PROVE  open' \subseteq Slots
  <1>1. open \subseteq Slots
    BY DEF TypeOK
  <1>. QED BY <1>1, StepCases DEF MemberStep, Kept, Starts, Upgrades, Extends, Revokes, Opens, Closes
-----------------------------------------------------------------------------
OpenOf(u) == {w \in open : UserOf[w] = u}

\* A step that opens and closes nothing and keeps the counts keeps them exact.
LEMMA SameCounts ==
  ASSUME ActiveCountExact, open' = open,
         \A u \in Users : member'[u].activeCount = member[u].activeCount
  PROVE  ActiveCountExact'
  BY DEF ActiveCountExact

\* Opening and closing a wager move the count of its user by one.
LEMMA CountStep ==
  ASSUME TypeOK, ActiveCountExact, [Next]_vars
  PROVE  ActiveCountExact'
  <1>0. member \in [Users -> Members] /\ open \subseteq Slots
    BY DEF TypeOK
  <1>1. \A u \in Users : IsFiniteSet(OpenOf(u)) /\ member[u].activeCount = Cardinality(OpenOf(u))
                         /\ member[u].activeCount \in Nat
    <2>1. \A u \in Users : OpenOf(u) \in SUBSET Slots
      BY <1>0 DEF OpenOf
    <2>. QED BY <2>1, FS_Subset, MembershipAssumption, ConfigTypes DEF ActiveCountExact, OpenOf
  <1>2. CASE Kept
    BY <1>2, SameCounts DEF Kept
  <1>3. ASSUME NEW u \in Users, NEW t \in Tiers, NEW days \in Nat, Starts(u, t, days)
        PROVE  ActiveCountExact'
    <2>1. \A x \in Users : member'[x].activeCount = member[x].activeCount
      BY <1>0, <1>3 DEF Starts, Started
    <2>. QED BY <1>3, <2>1, SameCounts DEF Starts
  <1>4. ASSUME NEW u \in Users, NEW t \in Tiers, Upgrades(u, t) PROVE ActiveCountExact'
    <2>1. \A x \in Users : member'[x].activeCount = member[x].activeCount
      BY <1>0, <1>4 DEF Upgrades, Renewed
    <2>. QED BY <1>4, <2>1, SameCounts DEF Upgrades
  <1>5. ASSUME NEW u \in Users, NEW e \in Nat, Extends(u, e) PROVE ActiveCountExact'
    <2>1. \A x \in Users : member'[x].activeCount = member[x].activeCount
      BY <1>0, <1>5 DEF Extends, Renewed
    <2>. QED BY <1>5, <2>1, SameCounts DEF Extends
  <1>6. ASSUME NEW u \in Users, Revokes(u) PROVE ActiveCountExact'
    <2>1. \A x \in Users : member'[x].activeCount = member[x].activeCount
      BY <1>0, <1>6 DEF Revokes, Renewed
    <2>. QED BY <1>6, <2>1, SameCounts DEF Revokes
  <1>7. ASSUME NEW w \in Slots, NEW count \in Nat, NEW anchor \in Nat, Opens(w, count, anchor)
        PROVE  ActiveCountExact'
    <2>1. UserOf[w] \in Users /\ w \notin open
      BY <1>7, MembershipAssumption DEF Opens
    <2>2. \A x \in Users : member'[x].activeCount =
            IF x = UserOf[w] THEN member[x].activeCount + 1 ELSE member[x].activeCount
      BY <1>0, <1>7, <2>1 DEF Opens
    <2>3. \A x \in Users : {v \in open' : UserOf[v] = x} =
            IF x = UserOf[w] THEN OpenOf(x) \cup {w} ELSE OpenOf(x)
      BY <1>7 DEF Opens, OpenOf
    <2>4. w \notin OpenOf(UserOf[w])
      BY <2>1 DEF OpenOf
    <2>5. Cardinality(OpenOf(UserOf[w]) \cup {w}) = Cardinality(OpenOf(UserOf[w])) + 1
      BY <1>1, <2>1, <2>4, FS_AddElement
    <2>6. ASSUME NEW x \in Users PROVE member'[x].activeCount = Cardinality({v \in open' : UserOf[v] = x})
      <3>1. CASE x = UserOf[w]
        BY <1>1, <2>2, <2>3, <2>5, <3>1
      <3>2. CASE x # UserOf[w]
        BY <1>1, <2>2, <2>3, <3>2
      <3>. QED BY <3>1, <3>2
    <2>. QED BY <2>6 DEF ActiveCountExact
  <1>8. ASSUME NEW w \in Slots, Closes(w) PROVE ActiveCountExact'
    <2>1. UserOf[w] \in Users /\ w \in OpenOf(UserOf[w])
      BY <1>8, MembershipAssumption DEF Closes, OpenOf
    <2>2. member[UserOf[w]].activeCount > 0
      BY <1>1, <2>1, FS_EmptySet
    <2>3. \A x \in Users : member'[x].activeCount =
            IF x = UserOf[w] THEN member[x].activeCount - 1 ELSE member[x].activeCount
      BY <1>0, <1>8, <2>1, <2>2 DEF Closes
    <2>4. \A x \in Users : {v \in open' : UserOf[v] = x} =
            IF x = UserOf[w] THEN OpenOf(x) \ {w} ELSE OpenOf(x)
      BY <1>8 DEF Closes, OpenOf
    <2>5. Cardinality(OpenOf(UserOf[w]) \ {w}) = Cardinality(OpenOf(UserOf[w])) - 1
      BY <1>1, <2>1, FS_RemoveElement
    <2>6. ASSUME NEW x \in Users PROVE member'[x].activeCount = Cardinality({v \in open' : UserOf[v] = x})
      <3>1. CASE x = UserOf[w]
        BY <1>1, <2>3, <2>4, <2>5, <3>1
      <3>2. CASE x # UserOf[w]
        BY <1>1, <2>3, <2>4, <3>2
      <3>. QED BY <3>1, <3>2
    <2>. QED BY <2>6 DEF ActiveCountExact
  <1>. QED BY <1>2, <1>3, <1>4, <1>5, <1>6, <1>7, <1>8, StepCases DEF MemberStep

\* The initial state: nobody is a member and nothing is open.
LEMMA InitHolds ==
  ASSUME Init
  PROVE  TypeOK /\ ActiveCountExact
  <1>1. TypeOK
    <2>1. config \in [Tiers -> ConfigRecords]
      <3>1. config \in [Tiers -> AllConfigs]
        BY DEF Init
      <3>2. AllConfigs \subseteq ConfigRecords
        BY MembershipAssumption DEF AllConfigs
      <3>. QED BY <3>1, <3>2
    <2>2. member \in [Users -> Members] /\ FeeTypes
      BY MembershipAssumption DEF Init, Members, FeeTypes
    <2>3. wired \in BOOLEAN
      BY DEF Init
    <2>. QED BY <2>1, <2>2, <2>3 DEF Init, TypeOK, FeeTypes
  <1>2. \A u \in Users : {w \in open : UserOf[w] = u} = {} /\ member[u].activeCount = 0
    BY DEF Init
  <1>3. ActiveCountExact
    BY <1>2, FS_EmptySet DEF ActiveCountExact
  <1>. QED BY <1>1, <1>3

\* The types and the counts hold together, in every reachable state.
THEOREM MembershipInvariant == Spec => [](TypeOK /\ ActiveCountExact)
  <1>1. Init => TypeOK /\ ActiveCountExact
    BY InitHolds
  <1>2. (TypeOK /\ ActiveCountExact) /\ [Next]_vars => (TypeOK /\ ActiveCountExact)'
    <2>. SUFFICES ASSUME TypeOK, ActiveCountExact, [Next]_vars
                  PROVE  TypeOK' /\ ActiveCountExact'
      OBVIOUS
    <2>1. TypeOK'
      BY MemberTypeStep, FeesMove, VoucherTypeStep, AdminTypeStep, OpenStep
         DEF TypeOK, FeeStep, FeeTypes, VoucherTypes, AdminTypes
    <2>. QED BY <2>1, CountStep
  <1>. QED BY <1>1, <1>2, PTL DEF Spec

\* Memberships, fees, vouchers and configuration keep their types.
THEOREM MembershipTypeCorrect == Spec => []TypeOK
  BY MembershipInvariant, PTL

\* activeCount is the number of the user's open wagers: for any number of
\* users, registries and wagers, and whatever the memberships went through.
THEOREM MembershipActiveCountExact == Spec => []ActiveCountExact
  BY MembershipInvariant, PTL

\* The fees counted are the money the manager holds, summed over any number of
\* payment tokens, however often the admin changes the token in between.
THEOREM MembershipFeesHeld == Spec => []FeesHeld
  <1>1. Init => FeesHeld
    <2>. SUFFICES ASSUME Init PROVE FeesHeld
      OBVIOUS
    <2>1. DOMAIN held = Tokens /\ (\A t \in Tokens : held[t] = 0) /\ accruedFees = 0
      BY DEF Init
    <2>. QED BY <2>1, SumZero, MembershipAssumption DEF FeesHeld
  <1>2. TypeOK /\ FeesHeld /\ [Next]_vars => FeesHeld'
    <2>. SUFFICES ASSUME TypeOK, FeesHeld, [Next]_vars PROVE FeesHeld'
      OBVIOUS
    <2>1. PICK k \in Tokens, b \in Nat : /\ held' = [held EXCEPT ![k] = b]
                                         /\ accruedFees' + held[k] = accruedFees + b
      BY FeesMove DEF FeeStep
    <2>2. held \in [Tokens -> Nat] /\ held' \in [Tokens -> Nat] /\ accruedFees' \in Nat
      BY FeesMove DEF TypeOK, FeeStep, FeeTypes
    <2>3. held'[k] = b /\ \A t \in Tokens \ {k} : held'[t] = held[t]
      BY <2>1, <2>2
    <2>4. SumFunction(held') + held[k] = SumFunction(held) + held'[k]
      BY <2>2, <2>3, SumChange, MembershipAssumption
    <2>5. SumFunction(held') \in Nat /\ held[k] \in Nat
      BY <2>2, SumNat, MembershipAssumption
    <2>. QED BY <2>1, <2>2, <2>3, <2>4, <2>5 DEF FeesHeld
  <1>. QED BY <1>1, <1>2, MembershipTypeCorrect, PTL DEF Spec

\* checkCanCreate and recordCreate agree in every reachable state, at the
\* boundary of the rolling month too.
THEOREM MembershipGateMatchesHook == Spec => []GateMatchesHook
  <1>1. ASSUME TypeOK, NEW u \in Users
        PROVE  CheckCanCreate(u) <=> MayRecord(u)
    <2>1. CASE MonthOver(u)
      <3>1. Rolled(u).monthCount = 0 /\ Rolled(u).activeCount = member[u].activeCount
        BY <2>1 DEF Rolled
      <3>. QED BY <2>1, <3>1 DEF CheckCanCreate, MayRecord, MonthOver
    <2>2. CASE ~MonthOver(u)
      BY <2>2 DEF CheckCanCreate, MayRecord, MonthOver, Rolled
    <2>. QED BY <2>1, <2>2
  <1>2. TypeOK => GateMatchesHook
    BY <1>1 DEF GateMatchesHook
  <1>. QED BY <1>2, MembershipTypeCorrect, PTL
-----------------------------------------------------------------------------
Keeps(u) ==
  (Active(u) /\ ~ManagerStep(u)) =>
    \/ member'[u].tier = member[u].tier /\ member'[u].expiresAt >= member[u].expiresAt
    \/ /\ member'[u].expiresAt = member[u].expiresAt
       /\ member'[u].tier # None
       /\ config[member'[u].tier].price > ConfigOf(u).price

\* A running membership loses nothing by a step its role manager does not take.
LEMMA StandingStep ==
  ASSUME TypeOK, [Next]_vars, NEW u \in Users
  PROVE  Keeps(u)
  <1>. SUFFICES ASSUME Active(u), ~ManagerStep(u) PROVE Keeps(u)
    BY DEF Keeps
  <1>0. member \in [Users -> Members] /\ member[u].expiresAt \in Nat
    BY ConfigTypes DEF TypeOK
  <1>1. ASSUME member'[u].tier = member[u].tier, member'[u].expiresAt = member[u].expiresAt
        PROVE  Keeps(u)
    BY <1>0, <1>1 DEF Keeps
  <1>2. ASSUME NEW x \in Users, x # u, NEW m, member' = [member EXCEPT ![x] = m] PROVE Keeps(u)
    BY <1>0, <1>1, <1>2
  <1>3. CASE Kept
    BY <1>1, <1>3 DEF Kept
  <1>4. ASSUME NEW x \in Users, NEW t \in Tiers, NEW days \in Nat, Starts(x, t, days) PROVE Keeps(u)
    BY <1>4, <1>2 DEF Starts
  <1>5. ASSUME NEW x \in Users, NEW t \in Tiers, Upgrades(x, t) PROVE Keeps(u)
    <2>1. CASE x = u
      <3>1. member'[u].tier = t /\ member'[u].expiresAt = member[u].expiresAt
            /\ config[t].price > ConfigOf(u).price
        BY <1>0, <1>5, <2>1 DEF Upgrades, Renewed
      <3>. QED BY <3>1, MembershipAssumption DEF Keeps
    <2>2. CASE x # u
      BY <1>5, <1>2, <2>2 DEF Upgrades
    <2>. QED BY <2>1, <2>2
  <1>6. ASSUME NEW x \in Users, NEW e \in Nat, Extends(x, e) PROVE Keeps(u)
    <2>1. CASE x = u
      <3>1. member'[u].tier = member[u].tier /\ member'[u].expiresAt >= member[u].expiresAt
        BY <1>0, <1>6, <2>1 DEF Extends, Renewed
      <3>. QED BY <3>1 DEF Keeps
    <2>2. CASE x # u
      BY <1>6, <1>2, <2>2 DEF Extends
    <2>. QED BY <2>1, <2>2
  <1>7. ASSUME NEW x \in Users, Revokes(x) PROVE Keeps(u)
    BY <1>7, <1>2 DEF Revokes
  <1>8. ASSUME NEW w \in Slots, NEW count \in Nat, NEW anchor \in Nat, Opens(w, count, anchor)
        PROVE  Keeps(u)
    <2>1. UserOf[w] \in Users
      BY MembershipAssumption
    <2>2. member'[u].tier = member[u].tier /\ member'[u].expiresAt = member[u].expiresAt
      BY <1>0, <1>8, <2>1 DEF Opens
    <2>. QED BY <1>1, <2>2
  <1>9. ASSUME NEW w \in Slots, Closes(w) PROVE Keeps(u)
    <2>1. UserOf[w] \in Users
      BY MembershipAssumption
    <2>2. member'[u].tier = member[u].tier /\ member'[u].expiresAt = member[u].expiresAt
      BY <1>0, <1>9, <2>1 DEF Closes
    <2>. QED BY <1>1, <2>2
  <1>. QED BY <1>3, <1>4, <1>5, <1>6, <1>7, <1>8, <1>9, StepCases DEF MemberStep

\* Only the role manager takes from a running membership: no purchase,
\* upgrade, extension, redemption, hook or admin step does.
THEOREM MembershipStandingKept == Spec => StandingKept
  <1>1. TypeOK /\ [Next]_vars => [\A u \in Users : Keeps(u)]_vars
    BY StandingStep
  <1>. QED BY <1>1, MembershipTypeCorrect, PTL DEF Spec, StandingKept, Keeps

GainsNothing(u) ==
  /\ member'[u].tier \in {member[u].tier, None}
  /\ member'[u].expiresAt <= member[u].expiresAt

\* Every step that gives standing screens its user.
LEMMA BlockedStep ==
  ASSUME TypeOK, [Next]_vars, NEW u \in blocked
  PROVE  GainsNothing(u)
  <1>0. u \in Users /\ member \in [Users -> Members]
    BY DEF TypeOK
  <1>00. member[u].expiresAt \in Nat
    BY <1>0, ConfigTypes
  <1>1. ASSUME member'[u].tier = member[u].tier, member'[u].expiresAt = member[u].expiresAt
        PROVE  GainsNothing(u)
    BY <1>00, <1>1 DEF GainsNothing
  <1>2. ASSUME NEW x \in Users, x # u, NEW m, member' = [member EXCEPT ![x] = m] PROVE GainsNothing(u)
    BY <1>0, <1>1, <1>2
  <1>3. CASE Kept
    BY <1>1, <1>3 DEF Kept
  <1>4. ASSUME NEW x \in Users, NEW t \in Tiers, NEW days \in Nat, Starts(x, t, days)
        PROVE  GainsNothing(u)
    BY <1>4, <1>2 DEF Starts
  <1>5. ASSUME NEW x \in Users, NEW t \in Tiers, Upgrades(x, t) PROVE GainsNothing(u)
    BY <1>5, <1>2 DEF Upgrades
  <1>6. ASSUME NEW x \in Users, NEW e \in Nat, Extends(x, e) PROVE GainsNothing(u)
    BY <1>6, <1>2 DEF Extends
  <1>7. ASSUME NEW x \in Users, Revokes(x) PROVE GainsNothing(u)
    <2>1. CASE x = u
      <3>1. member'[u].tier = None /\ member'[u].expiresAt = 0
        BY <1>0, <1>7, <2>1 DEF Revokes, Renewed
      <3>. QED BY <1>00, <3>1 DEF GainsNothing
    <2>2. CASE x # u
      BY <1>7, <1>2, <2>2 DEF Revokes
    <2>. QED BY <2>1, <2>2
  <1>8. ASSUME NEW w \in Slots, NEW count \in Nat, NEW anchor \in Nat, Opens(w, count, anchor)
        PROVE  GainsNothing(u)
    <2>1. UserOf[w] \in Users
      BY MembershipAssumption
    <2>2. member'[u].tier = member[u].tier /\ member'[u].expiresAt = member[u].expiresAt
      BY <1>0, <1>8, <2>1 DEF Opens
    <2>. QED BY <1>1, <2>2
  <1>9. ASSUME NEW w \in Slots, Closes(w) PROVE GainsNothing(u)
    <2>1. UserOf[w] \in Users
      BY MembershipAssumption
    <2>2. member'[u].tier = member[u].tier /\ member'[u].expiresAt = member[u].expiresAt
      BY <1>0, <1>9, <2>1 DEF Closes
    <2>. QED BY <1>1, <2>2
  <1>. QED BY <1>3, <1>4, <1>5, <1>6, <1>7, <1>8, <1>9, StepCases DEF MemberStep

\* A user the sanctions guard refuses gains no tier and no time, by any path.
THEOREM MembershipBlockedGainsNothing == Spec => BlockedGainsNothing
  <1>1. TypeOK /\ [Next]_vars => [\A u \in blocked : GainsNothing(u)]_vars
    BY BlockedStep
  <1>. QED BY <1>1, MembershipTypeCorrect, PTL DEF Spec, BlockedGainsNothing, GainsNothing

GivenUpWell(v) ==
  (Live(v) /\ ~Live(v)') =>
    \/ Burn(v)
    \/ \E u \in Users : /\ u = voucher[v].owner
                        /\ member'[u] = Started(u, voucher[v].tier, voucher[v].days)

\* Where a voucher goes.
LEMMA VoucherFate ==
  ASSUME TypeOK, [Next]_vars, NEW v \in Ids
  PROVE  GivenUpWell(v)
  <1>. SUFFICES ASSUME Live(v), ~Live(v)' PROVE GivenUpWell(v)
    BY DEF GivenUpWell
  <1>0. member \in [Users -> Members] /\ voucher \in [Ids -> VoucherInfos \cup {None}]
        /\ voucher[v] # None /\ voucher'[v] = None
    BY DEF TypeOK, Live
  <1>1. CASE UNCHANGED voucherVars
    BY <1>0, <1>1 DEF voucherVars
  <1>2. ASSUME NEW h \in Holders, NEW t \in Tiers, NEW n \in 1..2, Mint(h, t, n) PROVE FALSE
    <2>1. [owner |-> h, tier |-> t, days |-> config[t].days] # None
      BY MembershipAssumption, ConfigTypes DEF VoucherInfos
    <2>2. voucher'[v] \in {[owner |-> h, tier |-> t, days |-> config[t].days], voucher[v]}
      BY <1>2 DEF Mint, Minted
    <2>. QED BY <1>0, <2>1, <2>2
  <1>3. ASSUME NEW h \in Holders, NEW x \in Ids, Transfer(x, h) PROVE FALSE
    <2>1. [owner |-> h, tier |-> voucher[x].tier, days |-> voucher[x].days] # None
      BY <1>3, MembershipAssumption, LiveVoucher DEF VoucherInfos, Transfer
    <2>. QED BY <1>0, <1>3, <2>1 DEF Transfer
  <1>4. ASSUME NEW x \in Ids, Burn(x) PROVE GivenUpWell(v)
    <2>1. x = v
      BY <1>0, <1>4 DEF Burn
    <2>. QED BY <1>4, <2>1 DEF GivenUpWell
  <1>5. ASSUME NEW u \in Users, NEW x \in Ids, RedeemVoucher(u, x) PROVE GivenUpWell(v)
    <2>1. x = v
      BY <1>0, <1>5 DEF RedeemVoucher
    <2>2. u = voucher[v].owner /\ member'[u] = Started(u, voucher[v].tier, voucher[v].days)
      BY <1>0, <1>5, <2>1 DEF RedeemVoucher
    <2>. QED BY <2>2 DEF GivenUpWell
  <1>. QED BY <1>1, <1>2, <1>3, <1>4, <1>5, VoucherCases DEF VoucherStep

\* A voucher is given up for the membership it promised to its owner of the
\* moment, or burned by the owner, whatever was sold or relayed in between.
THEOREM MembershipVoucherNotWasted == Spec => VoucherNotWasted
  <1>1. TypeOK /\ [Next]_vars => [\A v \in Ids : GivenUpWell(v)]_vars
    BY VoucherFate
  <1>. QED BY <1>1, MembershipTypeCorrect, PTL DEF Spec, VoucherNotWasted, GivenUpWell
=============================================================================
