-------------------------- MODULE PolicyGuardProofs --------------------------
(***************************************************************************)
(* Proofs about PolicyGuard: the types, the cooldown between movements of  *)
(* funds, the approvers behind what a rule let through and the preview;    *)
(* what the spending windows count and what they let through at most; and  *)
(* that the loop over the rules finds the one that governs.                *)
(***************************************************************************)
EXTENDS PolicyGuard, SumTheorems

-----------------------------------------------------------------------------
\* The inductive invariant.

\* What _appendRule leaves: a rule asks for approvals only of approvers.
RulesNormal == \A i \in DOMAIN rules : rules[i].approvers = {} => rules[i].required = 0

\* The cache is what the list says.
CacheExact == hasApproverRules <=> \E i \in DOMAIN rules : rules[i].approvers # {}

\* Entries are of the past, and of this list's rules if they name its version.
LedgerPast ==
  \A k \in DOMAIN ledger :
    /\ ledger[k].at <= now
    /\ ledger[k].version <= rulesVersion
    /\ ledger[k].version = rulesVersion => ledger[k].rule \in DOMAIN rules

\* lastCountedTxAt is not before any movement made under a cooldown.
LastIsLast ==
  \A k \in DOMAIN ledger :
    (Counted(ledger[k].tx) /\ ledger[k].cooldown > 0) => ledger[k].at <= lastCountedTxAt

IInv ==
  /\ TypeOK
  /\ RulesNormal /\ CacheExact
  /\ LedgerPast /\ LastIsLast
  /\ CooldownSpaced /\ ApproversStandBehind

-----------------------------------------------------------------------------
\* Facts about the operators.

LEMMA TxTypes ==
  ASSUME NEW tx \in Txs
  PROVE  tx.value \in Nat /\ tx.amount \in Nat /\ Moved(tx) \in Nat
  <1>1. tx \in TxRecords
    BY GuardAssumption
  <1>2. tx.value \in Nat /\ tx.amount \in Nat
    BY <1>1 DEF TxRecords
  <1>. QED BY <1>2 DEF Moved

LEMMA CountIsNat ==
  ASSUME NEW S \in SUBSET People
  PROVE  Cardinality(S) \in Nat
  BY FS_Subset, FS_CardinalityType, GuardAssumption

\* A list that setRules accepts is stored with its types.
LEMMA AppendedList ==
  ASSUME NEW policy \in Policies, Len(policy) <= MaxRules,
         NEW new, new = [i \in DOMAIN policy |-> Appended(policy[i])]
  PROVE  /\ new \in Seq(RuleRecords) /\ Len(new) <= MaxRules
         /\ DOMAIN new = DOMAIN policy
  <1>1. policy \in Seq(RuleRecords)
    BY GuardAssumption
  <1>2. DOMAIN policy = 1..Len(policy) /\ Len(policy) \in Nat
    BY <1>1
  <1>3. ASSUME NEW i \in DOMAIN policy PROVE Appended(policy[i]) \in RuleRecords
    <2>1. policy[i] \in RuleRecords
      BY <1>1
    <2>2. Cardinality(policy[i].approvers) \in Nat
      BY <2>1, CountIsNat DEF RuleRecords
    <2>. QED BY <2>1, <2>2 DEF Appended, RuleRecords
  <1>4. new \in [1..Len(policy) -> RuleRecords]
    BY <1>2, <1>3
  <1>5. new \in Seq(RuleRecords) /\ Len(new) = Len(policy)
    BY <1>2, <1>4
  <1>. QED BY <1>2, <1>5

\* A counter that is committed stays in its width.
LEMMA CommittedTypes ==
  ASSUME TypeOK, NEW i \in DOMAIN rules, NEW tx \in Txs, Fits(i, tx), Commit(i, tx)
  PROVE  /\ acc' \in [1..MaxRules -> [spent : 0..Uint128Max, start : Nat]]
         /\ lastCountedTxAt' \in Nat
  <1>1. /\ acc \in [1..MaxRules -> [spent : 0..Uint128Max, start : Nat]]
        /\ lastCountedTxAt \in Nat /\ now \in Nat /\ i \in 1..MaxRules
    BY GuardAssumption DEF TypeOK
  <1>2. lastCountedTxAt' \in Nat
    BY <1>1 DEF Commit
  <1>3. CASE Counted(tx) /\ rules[i].window > 0
    <2>1. acc' = [acc EXCEPT ![i] = Spent(i, tx)] /\ Spent(i, tx).spent <= Uint128Max
      BY <1>3 DEF Commit, Fits
    <2>2. acc[i].spent \in Nat /\ acc[i].start \in Nat
      BY <1>1, GuardAssumption
    <2>3. Spent(i, tx) \in [spent : 0..Uint128Max, start : Nat]
      BY <1>1, <2>1, <2>2, TxTypes, GuardAssumption DEF Spent
    <2>. QED BY <1>1, <1>2, <2>1, <2>3
  <1>4. CASE ~(Counted(tx) /\ rules[i].window > 0)
    BY <1>1, <1>2, <1>4 DEF Commit
  <1>. QED BY <1>3, <1>4

LEMMA EntryType ==
  ASSUME TypeOK, NEW i \in DOMAIN rules, NEW tx \in Txs, NEW e
  PROVE  Entry(i, tx, e) \in Entries
  <1>1. /\ now \in Nat /\ i \in 1..MaxRules /\ rulesVersion \in Nat /\ cooldown \in Nat
        /\ owners \subseteq People
    BY GuardAssumption DEF TypeOK
  <1>. QED BY <1>1 DEF Entry, Entries

-----------------------------------------------------------------------------
\* The steps, by what they do to the guard.

\* The guard's state stays: time passes, or the vault and its owners move.
Quiet ==
  /\ UNCHANGED <<guardVars, ledger>>
  /\ now' \in Nat /\ now' >= now
  /\ owners' \subseteq People /\ nonce' \in Nat /\ approved' \subseteq Hashes

\* A transaction passes by rule i.
Passed(i, tx, e) ==
  /\ Enforced(i, tx, e)
  /\ Commit(i, tx)
  /\ ledger' = Append(ledger, Entry(i, tx, e))
  /\ nonce' = nonce + 1
  /\ UNCHANGED <<now, rules, cooldown, rulesVersion, hasApproverRules, owners, approved>>

LEMMA StepCases ==
  ASSUME TypeOK, [Next]_vars
  PROVE  \/ Quiet
         \/ \E policy \in Policies : \E cd \in Cooldowns : SetRules(policy, cd)
         \/ \E i \in DOMAIN rules : \E tx \in Txs : \E e \in Executors : Passed(i, tx, e)
  <1>0. now \in Nat /\ owners \subseteq People /\ nonce \in Nat /\ approved \subseteq Hashes
    BY DEF TypeOK
  <1>1. ASSUME NEW tx \in Txs, NEW e \in Executors, CheckTransaction(tx, e)
        PROVE  \E i \in DOMAIN rules : Passed(i, tx, e)
    BY <1>1 DEF CheckTransaction, Passed
  <1>2. CASE Unguarded
    BY <1>0, <1>2 DEF Unguarded, Quiet
  <1>3. ASSUME NEW S \in OwnerSets, ChangeOwners(S) PROVE Quiet
    BY <1>0, <1>3, GuardAssumption DEF ChangeOwners, Quiet
  <1>4. ASSUME NEW h \in Hashes, ApproveHash(h) PROVE Quiet
    BY <1>0, <1>4 DEF ApproveHash, Quiet
  <1>5. CASE Tick
    BY <1>0, <1>5 DEF Tick, Quiet
  <1>6. CASE UNCHANGED vars
    BY <1>0, <1>6 DEF vars, Quiet
  <1>. QED BY <1>1, <1>2, <1>3, <1>4, <1>5, <1>6 DEF Next

\* A quiet step.
LEMMA QuietStep ==
  ASSUME IInv, Quiet
  PROVE  IInv'
  <1>. USE DEF Quiet, guardVars, metaVars
  <1>1. TypeOK'
    BY DEF IInv, TypeOK
  <1>2. RulesNormal' /\ ApproversStandBehind' /\ CooldownSpaced' /\ LastIsLast'
    BY DEF IInv, RulesNormal, ApproversStandBehind, CooldownSpaced, LastIsLast
  <1>3. CacheExact'
    BY Zenon DEF IInv, CacheExact
  <1>4. LedgerPast'
    <2>1. ASSUME NEW k \in DOMAIN ledger PROVE ledger[k].at <= now'
      <3>1. ledger[k] \in Entries
        BY DEF IInv, TypeOK
      <3>2. ledger[k].at \in Nat /\ now \in Nat /\ ledger[k].at <= now
        BY <3>1 DEF Entries, IInv, TypeOK, LedgerPast
      <3>. QED BY <3>2
    <2>. QED BY <2>1 DEF IInv, LedgerPast
  <1>. QED BY <1>1, <1>2, <1>3, <1>4 DEF IInv

\* A new list: no entry names its version yet.
LEMMA SetRulesStep ==
  ASSUME IInv, NEW policy \in Policies, NEW cd \in Cooldowns, SetRules(policy, cd)
  PROVE  IInv'
  <1>1. /\ rules' \in Seq(RuleRecords) /\ Len(rules') <= MaxRules
        /\ DOMAIN rules' = DOMAIN policy
        /\ \A i \in DOMAIN policy : rules'[i] = Appended(policy[i])
    BY AppendedList DEF SetRules
  <1>2. policy \in Seq(RuleRecords)
    BY GuardAssumption
  <1>3. TypeOK'
    <2>1. acc' \in [1..MaxRules -> [spent : 0..Uint128Max, start : Nat]]
      <3>1. NoSpend \in [spent : 0..Uint128Max, start : Nat]
        BY GuardAssumption DEF NoSpend
      <3>2. acc \in [1..MaxRules -> [spent : 0..Uint128Max, start : Nat]]
        BY DEF IInv, TypeOK
      <3>. QED BY <3>1, <3>2 DEF SetRules
    <2>2. hasApproverRules' \in BOOLEAN
      BY Zenon DEF SetRules
    <2>3. /\ now' \in Nat /\ cooldown' \in Nat /\ lastCountedTxAt' \in Nat /\ rulesVersion' \in Nat
          /\ owners' \subseteq People /\ nonce' \in Nat /\ approved' \subseteq Hashes
          /\ ledger' \in Seq(Entries)
      BY GuardAssumption DEF IInv, TypeOK, SetRules
    <2>. QED BY <1>1, <2>1, <2>2, <2>3 DEF TypeOK
  <1>4. RulesNormal'
    <2>1. ASSUME NEW i \in DOMAIN policy, rules'[i].approvers = {} PROVE rules'[i].required = 0
      <3>1. policy[i].approvers = {} /\ ValidRule(policy[i])
        BY <1>1, <2>1 DEF Appended, SetRules
      <3>2. policy[i].required = 0 /\ Cardinality(policy[i].approvers) = 0
        BY <3>1, FS_EmptySet DEF ValidRule
      <3>. QED BY <1>1, <3>2 DEF Appended
    <2>. QED BY <1>1, <2>1 DEF RulesNormal
  <1>5. CacheExact'
    <2>1. hasApproverRules' = \E i \in DOMAIN policy : policy[i].approvers # {}
      BY Zenon DEF SetRules
    <2>2. \A i \in DOMAIN policy : rules'[i].approvers = policy[i].approvers
      BY <1>1 DEF Appended
    <2>. QED BY <1>1, <2>1, <2>2, Zenon DEF CacheExact
  <1>6. now' = now /\ ledger' = ledger /\ lastCountedTxAt' = lastCountedTxAt
        /\ rulesVersion' = rulesVersion + 1
    BY DEF SetRules
  <1>7. \A k \in DOMAIN ledger : ledger[k].version < rulesVersion' /\ ledger[k].at <= now
    <2>1. ASSUME NEW k \in DOMAIN ledger PROVE ledger[k].version < rulesVersion' /\ ledger[k].at <= now
      <3>1. ledger[k] \in Entries
        BY DEF IInv, TypeOK
      <3>2. ledger[k].version \in Nat /\ rulesVersion \in Nat /\ ledger[k].version <= rulesVersion
            /\ ledger[k].at <= now
        BY <3>1 DEF Entries, IInv, TypeOK, LedgerPast
      <3>. QED BY <1>6, <3>2
    <2>. QED BY <2>1
  <1>71. \A k \in DOMAIN ledger : ledger[k].version \in Nat
    <2>1. \A k \in DOMAIN ledger : ledger[k] \in Entries
      BY DEF IInv, TypeOK
    <2>. QED BY <2>1 DEF Entries
  <1>72. rulesVersion' \in Nat
    BY <1>3 DEF TypeOK
  <1>8. LedgerPast' /\ ApproversStandBehind'
    BY <1>6, <1>7, <1>71, <1>72 DEF LedgerPast, ApproversStandBehind
  <1>9. LastIsLast' /\ CooldownSpaced'
    BY <1>6 DEF IInv, LastIsLast, CooldownSpaced
  <1>. QED BY <1>3, <1>4, <1>5, <1>8, <1>9 DEF IInv

\* The approvals a rule counted are signers of the entry.
LEMMA ApprovalsCounted ==
  ASSUME TypeOK, RulesNormal, NEW i \in DOMAIN rules, NEW tx \in Txs, NEW e, NEW evaluable,
         Enough(rules[i], tx, e, evaluable)
  PROVE  Cardinality(Entry(i, tx, e).signers \cap rules[i].approvers) >= rules[i].required
  <1>1. rules[i] \in RuleRecords /\ owners \subseteq People
    BY DEF TypeOK
  <1>2. rules[i].required \in Nat /\ rules[i].approvers \subseteq People
    BY <1>1 DEF RuleRecords
  <1>3. Entry(i, tx, e).signers \cap rules[i].approvers
          = {o \in rules[i].approvers \cap owners : Signed(o, tx, e)}
    BY DEF Entry, Signed
  <1>4. Cardinality(Entry(i, tx, e).signers \cap rules[i].approvers) \in Nat
    BY <1>2, CountIsNat
  <1>5. CASE rules[i].required = 0
    BY <1>4, <1>5
  <1>6. CASE rules[i].required # 0
    BY <1>3, <1>6 DEF Enough
  <1>. QED BY <1>5, <1>6

\* A transaction that passes: the new entry is a cooldown after every other.
LEMMA PassedStep ==
  ASSUME IInv, NEW i \in DOMAIN rules, NEW tx \in Txs, NEW e \in Executors, Passed(i, tx, e)
  PROVE  IInv'
  <1>. DEFINE x == Entry(i, tx, e)
  <1>1. TypeOK
    BY DEF IInv
  <1>2. /\ now' = now /\ rules' = rules /\ cooldown' = cooldown /\ rulesVersion' = rulesVersion
        /\ owners' = owners /\ approved' = approved
        /\ nonce' = nonce + 1 /\ ledger' = Append(ledger, x)
        /\ Commit(i, tx) /\ Fits(i, tx)
    BY DEF Passed, Enforced
  <1>3. x \in Entries /\ ledger \in Seq(Entries)
    BY <1>1, EntryType DEF TypeOK
  <1>4. x.tx = tx /\ x.rule = i /\ x.version = rulesVersion /\ x.at = now /\ x.cooldown = cooldown
    BY DEF Entry
  <1>. HIDE DEF x
  <1>5. /\ DOMAIN ledger' = DOMAIN ledger \cup {Len(ledger) + 1}
        /\ DOMAIN ledger = 1..Len(ledger) /\ Len(ledger) \in Nat
        /\ \A k \in DOMAIN ledger : ledger'[k] = ledger[k]
        /\ ledger'[Len(ledger) + 1] = x
    BY <1>2, <1>3
  <1>6. TypeOK'
    <2>1. ledger' \in Seq(Entries)
      BY <1>2, <1>3
    <2>2. hasApproverRules' \in BOOLEAN
      BY <1>1, Zenon DEF Passed, TypeOK
    <2>3. /\ acc' \in [1..MaxRules -> [spent : 0..Uint128Max, start : Nat]]
          /\ lastCountedTxAt' \in Nat
      BY <1>1, <1>2, CommittedTypes
    <2>. QED BY <1>1, <1>2, <2>1, <2>2, <2>3 DEF TypeOK
  <1>7. RulesNormal'
    BY <1>2 DEF IInv, RulesNormal
  <1>8. CacheExact'
    BY Zenon DEF IInv, CacheExact, Passed
  <1>9. now \in Nat /\ cooldown \in Nat /\ lastCountedTxAt \in Nat /\ rulesVersion \in Nat
    BY <1>1 DEF TypeOK
  <1>10. \A k \in DOMAIN ledger : ledger[k].at \in Nat /\ ledger[k].cooldown \in Nat
    <2>1. \A k \in DOMAIN ledger : ledger[k] \in Entries
      BY <1>3
    <2>. QED BY <2>1 DEF Entries
  <1>11. LedgerPast'
    BY <1>2, <1>4, <1>5, <1>9 DEF IInv, LedgerPast
  <1>12. lastCountedTxAt' = IF Counted(tx) /\ cooldown > 0 THEN now ELSE lastCountedTxAt
    BY <1>2 DEF Commit
  <1>13. \A k \in DOMAIN ledger : ledger[k].at <= now
    BY DEF IInv, LedgerPast
  <1>14. LastIsLast'
    <2>1. ASSUME NEW k \in DOMAIN ledger, Counted(ledger[k].tx), ledger[k].cooldown > 0
          PROVE  ledger[k].at <= lastCountedTxAt'
      <3>1. ledger[k].at <= lastCountedTxAt /\ ledger[k].at <= now
        BY <1>13, <2>1 DEF IInv, LastIsLast
      <3>. QED BY <1>12, <3>1
    <2>2. ASSUME Counted(x.tx), x.cooldown > 0 PROVE x.at <= lastCountedTxAt'
      BY <1>4, <1>9, <1>12, <2>2
    <2>. QED BY <1>5, <2>1, <2>2 DEF LastIsLast
  <1>15. CooldownSpaced'
    <2>1. ASSUME NEW k \in DOMAIN ledger, Counted(ledger[k].tx), ledger[k].cooldown > 0,
                 Counted(x.tx)
          PROVE  x.at >= ledger[k].at + x.cooldown
      <3>1. ledger[k].at <= lastCountedTxAt /\ ledger[k].at <= now
        BY <1>13, <2>1 DEF IInv, LastIsLast
      <3>2. cooldown > 0 => now >= lastCountedTxAt + cooldown
        BY <1>4, <2>1 DEF Passed, Enforced, Allowed, CooldownOver
      <3>. QED BY <1>4, <1>9, <1>10, <3>1, <3>2
    <2>2. ASSUME NEW k \in DOMAIN ledger', NEW l \in DOMAIN ledger', k < l,
                 Counted(ledger'[k].tx), Counted(ledger'[l].tx), ledger'[k].cooldown > 0
          PROVE  ledger'[l].at >= ledger'[k].at + ledger'[l].cooldown
      <3>1. k \in DOMAIN ledger
        BY <1>5, <2>2
      <3>2. CASE l = Len(ledger) + 1
        BY <1>5, <2>1, <2>2, <3>1, <3>2
      <3>3. CASE l \in DOMAIN ledger
        BY <1>5, <2>2, <3>1, <3>3 DEF IInv, CooldownSpaced
      <3>. QED BY <1>5, <3>2, <3>3
    <2>. QED BY <2>2 DEF CooldownSpaced
  <1>16. ApproversStandBehind'
    <2>1. Enough(rules[i], tx, e, hasApproverRules)
      BY DEF Passed, Enforced, Allowed, Governs
    <2>2. Cardinality(x.signers \cap rules[i].approvers) >= rules[i].required
      BY <1>1, <2>1, ApprovalsCounted DEF IInv, x
    <2>3. ASSUME NEW k \in DOMAIN ledger', ledger'[k].version = rulesVersion
          PROVE  Cardinality(ledger'[k].signers \cap rules[ledger'[k].rule].approvers)
                   >= rules[ledger'[k].rule].required
      <3>1. CASE k = Len(ledger) + 1
        BY <1>4, <1>5, <2>2, <3>1
      <3>2. CASE k \in DOMAIN ledger
        BY <1>5, <2>3, <3>2 DEF IInv, ApproversStandBehind
      <3>. QED BY <1>5, <3>1, <3>2
    <2>. QED BY <1>2, <2>3 DEF ApproversStandBehind
  <1>. QED BY <1>6, <1>7, <1>8, <1>11, <1>14, <1>15, <1>16 DEF IInv

LEMMA InitHolds ==
  ASSUME Init
  PROVE  IInv
  <1>1. rules = <<>> /\ ledger = <<>> /\ DOMAIN rules = {} /\ DOMAIN ledger = {}
    BY DEF Init
  <1>2. TypeOK
    <2>1. acc \in [1..MaxRules -> [spent : 0..Uint128Max, start : Nat]]
      BY GuardAssumption DEF Init, NoSpend
    <2>2. hasApproverRules \in BOOLEAN
      BY Zenon DEF Init
    <2>3. Len(rules) = 0 /\ rules \in Seq(RuleRecords) /\ ledger \in Seq(Entries)
      BY <1>1
    <2>. QED BY <2>1, <2>2, <2>3, GuardAssumption DEF Init, TypeOK
  <1>3. CacheExact
    BY <1>1, Zenon DEF Init, CacheExact
  <1>. QED BY <1>1, <1>2, <1>3 DEF IInv, RulesNormal, LedgerPast, LastIsLast, CooldownSpaced,
                                    ApproversStandBehind

-----------------------------------------------------------------------------
\* The inductive invariant holds, for every list of rules, vault and clock.
THEOREM GuardInvariant == Spec => []IInv
  <1>1. Init => IInv
    BY InitHolds
  <1>2. IInv /\ [Next]_vars => IInv'
    <2>. SUFFICES ASSUME IInv, [Next]_vars PROVE IInv'
      OBVIOUS
    <2>1. TypeOK
      BY DEF IInv
    <2>. QED BY <2>1, StepCases, QuietStep, SetRulesStep, PassedStep
  <1>. QED BY <1>1, <1>2, PTL DEF Spec

\* The guard's state keeps its types and its counters their width.
THEOREM GuardTypeCorrect == Spec => []TypeOK
  <1>1. IInv => TypeOK
    BY DEF IInv
  <1>. QED BY <1>1, GuardInvariant, PTL

\* Movements of funds under a cooldown are that cooldown apart, whichever rules
\* let them through and whenever the list was replaced.
THEOREM GuardCooldownSpaced == Spec => []CooldownSpaced
  <1>1. IInv => CooldownSpaced
    BY DEF IInv
  <1>. QED BY <1>1, GuardInvariant, PTL

\* A rule with approvers lets nothing through that they, as owners of that
\* moment, do not stand behind.
THEOREM GuardApproversStandBehind == Spec => []ApproversStandBehind
  <1>1. IInv => ApproversStandBehind
    BY DEF IInv
  <1>. QED BY <1>1, GuardInvariant, PTL

-----------------------------------------------------------------------------
\* What a rule let through, of a ledger l, by rule i of the list v, at the
\* times in T.

Term(x, v, i, T) == IF x.version = v /\ x.rule = i /\ x.at \in T THEN Moved(x.tx) ELSE 0
Terms(l, v, i, T) == [k \in DOMAIN l |-> Term(l[k], v, i, T)]
SpentIn(l, v, i, T) == SumFunction(Terms(l, v, i, T))

LEMMA SpentByIn == \A i, T : SpentBy(i, T) = SpentIn(ledger, rulesVersion, i, T)
  BY DEF SpentBy, SpentIn, Terms, Term

LEMMA TermType ==
  ASSUME NEW x \in Entries, NEW v, NEW i, NEW T
  PROVE  Term(x, v, i, T) \in Nat /\ x.at \in Nat
  <1>1. x.tx \in Txs /\ x.at \in Nat
    BY DEF Entries
  <1>. QED BY <1>1, TxTypes DEF Term

LEMMA LedgerShape ==
  ASSUME NEW l \in Seq(Entries)
  PROVE  /\ IsFiniteSet(DOMAIN l)
         /\ \A k \in DOMAIN l : l[k] \in Entries
         /\ \A v, i, T : Terms(l, v, i, T) \in [DOMAIN l -> Nat]
  <1>1. DOMAIN l = 1..Len(l) /\ Len(l) \in Nat
    OBVIOUS
  <1>2. IsFiniteSet(DOMAIN l)
    BY <1>1, FS_Interval
  <1>3. \A k \in DOMAIN l : l[k] \in Entries
    OBVIOUS
  <1>4. ASSUME NEW v, NEW i, NEW T PROVE Terms(l, v, i, T) \in [DOMAIN l -> Nat]
    BY <1>3, TermType DEF Terms
  <1>. QED BY <1>2, <1>3, <1>4

LEMMA SpentNat ==
  ASSUME NEW l \in Seq(Entries), NEW v, NEW i, NEW T
  PROVE  SpentIn(l, v, i, T) \in Nat
  <1>1. IsFiniteSet(DOMAIN l) /\ Terms(l, v, i, T) \in [DOMAIN l -> Nat]
    BY LedgerShape
  <1>. QED BY <1>1, SumNat DEF SpentIn

\* Nothing, if no entry is of this list, rule and time.
LEMMA SpentNone ==
  ASSUME NEW l \in Seq(Entries), NEW v, NEW i, NEW T,
         \A k \in DOMAIN l : ~(l[k].version = v /\ l[k].rule = i /\ l[k].at \in T)
  PROVE  SpentIn(l, v, i, T) = 0
  <1>1. IsFiniteSet(DOMAIN l) /\ Terms(l, v, i, T) \in [DOMAIN l -> Nat]
    BY LedgerShape
  <1>2. \A k \in DOMAIN l : Terms(l, v, i, T)[k] = 0
    BY DEF Terms, Term
  <1>3. DOMAIN Terms(l, v, i, T) = DOMAIN l
    BY DEF Terms
  <1>. QED BY <1>1, <1>2, <1>3, SumZero DEF SpentIn

\* SumSplit and SumWithout, for these sums.
LEMMA SpentPlus ==
  ASSUME NEW l, NEW v, NEW i, NEW T, NEW U, NEW V, IsFiniteSet(DOMAIN l),
         Terms(l, v, i, T) \in [DOMAIN l -> Nat], Terms(l, v, i, U) \in [DOMAIN l -> Nat],
         Terms(l, v, i, V) \in [DOMAIN l -> Nat],
         \A k \in DOMAIN l : Terms(l, v, i, V)[k] = Terms(l, v, i, T)[k] + Terms(l, v, i, U)[k]
  PROVE  SpentIn(l, v, i, V) = SpentIn(l, v, i, T) + SpentIn(l, v, i, U)
  BY SumSplit DEF SpentIn

LEMMA SpentWithout ==
  ASSUME NEW l, NEW m, NEW v, NEW i, NEW T, NEW n \in DOMAIN m, IsFiniteSet(DOMAIN m),
         Terms(m, v, i, T) \in [DOMAIN m -> Nat], DOMAIN Terms(l, v, i, T) = DOMAIN m \ {n},
         \A k \in DOMAIN m \ {n} : Terms(l, v, i, T)[k] = Terms(m, v, i, T)[k]
  PROVE  SpentIn(m, v, i, T) = Terms(m, v, i, T)[n] + SpentIn(l, v, i, T)
  BY SumWithout DEF SpentIn

\* Times that are told apart add up.
LEMMA SpentApart ==
  ASSUME NEW l \in Seq(Entries), NEW v, NEW i, NEW T, NEW U, NEW V,
         \A k \in DOMAIN l : /\ l[k].at \in V <=> (l[k].at \in T \/ l[k].at \in U)
                            /\ ~(l[k].at \in T /\ l[k].at \in U)
  PROVE  SpentIn(l, v, i, V) = SpentIn(l, v, i, T) + SpentIn(l, v, i, U)
  <1>1. /\ IsFiniteSet(DOMAIN l) /\ Terms(l, v, i, T) \in [DOMAIN l -> Nat]
        /\ Terms(l, v, i, U) \in [DOMAIN l -> Nat] /\ Terms(l, v, i, V) \in [DOMAIN l -> Nat]
    BY LedgerShape
  <1>2. ASSUME NEW k \in DOMAIN l
        PROVE  Terms(l, v, i, V)[k] = Terms(l, v, i, T)[k] + Terms(l, v, i, U)[k]
    <2>1. Moved(l[k].tx) \in Nat
      BY LedgerShape, TxTypes DEF Entries
    <2>2. Term(l[k], v, i, V) = Term(l[k], v, i, T) + Term(l[k], v, i, U)
      BY <2>1 DEF Term
    <2>. QED BY <2>2 DEF Terms
  <1>3. \A k \in DOMAIN l :
          Terms(l, v, i, V)[k] = Terms(l, v, i, T)[k] + Terms(l, v, i, U)[k]
    BY <1>2
  <1>. QED BY <1>1, <1>3, SpentPlus, SMTT(60)

\* More times, more spent.
LEMMA SpentLess ==
  ASSUME NEW l \in Seq(Entries), NEW v, NEW i, NEW T, NEW U,
         \A k \in DOMAIN l : l[k].at \in T => l[k].at \in U
  PROVE  SpentIn(l, v, i, T) <= SpentIn(l, v, i, U)
  <1>1. SpentIn(l, v, i, U) = SpentIn(l, v, i, T) + SpentIn(l, v, i, U \ T)
    BY SpentApart
  <1>2. SpentIn(l, v, i, T) \in Nat /\ SpentIn(l, v, i, U \ T) \in Nat
    BY SpentNat
  <1>. QED BY <1>1, <1>2

\* The same times, as far as the entries tell.
LEMMA SpentSame ==
  ASSUME NEW l \in Seq(Entries), NEW v, NEW i, NEW T, NEW U,
         \A k \in DOMAIN l : l[k].at \in T <=> l[k].at \in U
  PROVE  SpentIn(l, v, i, T) = SpentIn(l, v, i, U)
  <1>1. SpentIn(l, v, i, T) \in Nat /\ SpentIn(l, v, i, U) \in Nat
    BY SpentNat
  <1>2. SpentIn(l, v, i, T) <= SpentIn(l, v, i, U) /\ SpentIn(l, v, i, U) <= SpentIn(l, v, i, T)
    BY SpentLess
  <1>. QED BY <1>1, <1>2

\* An entry adds its term.
LEMMA SpentAppend ==
  ASSUME NEW l \in Seq(Entries), NEW x \in Entries, NEW v, NEW i, NEW T
  PROVE  SpentIn(Append(l, x), v, i, T) = Term(x, v, i, T) + SpentIn(l, v, i, T)
  <1>. DEFINE m == Append(l, x)
             n == Len(l) + 1
  <1>1. /\ m \in Seq(Entries) /\ n \in DOMAIN m /\ DOMAIN l = DOMAIN m \ {n}
        /\ m[n] = x /\ \A k \in DOMAIN l : m[k] = l[k]
    <2>1. Len(l) \in Nat /\ DOMAIN l = 1..Len(l) /\ m \in Seq(Entries) /\ Len(m) = n
      OBVIOUS
    <2>2. DOMAIN m = 1..n
      BY <2>1
    <2>3. n \in 1..n /\ 1..Len(l) = (1..n) \ {n}
      BY <2>1
    <2>4. m[n] = x /\ \A k \in 1..Len(l) : m[k] = l[k]
      OBVIOUS
    <2>. QED BY <2>1, <2>2, <2>3, <2>4
  <1>. HIDE DEF m, n
  <1>2. IsFiniteSet(DOMAIN m) /\ Terms(m, v, i, T) \in [DOMAIN m -> Nat]
    BY <1>1, LedgerShape
  <1>3. /\ DOMAIN Terms(l, v, i, T) = DOMAIN m \ {n}
        /\ \A k \in DOMAIN m \ {n} : Terms(l, v, i, T)[k] = Terms(m, v, i, T)[k]
    BY <1>1 DEF Terms
  <1>4. Terms(m, v, i, T)[n] = Term(x, v, i, T)
    BY <1>1 DEF Terms
  <1>5. SpentIn(m, v, i, T) = Terms(m, v, i, T)[n] + SpentIn(l, v, i, T)
    BY <1>1, <1>2, <1>3, SpentWithout
  <1>. QED BY <1>4, <1>5 DEF m

-----------------------------------------------------------------------------
\* Windows.

\* Entries are not of the future.
Past(l, n) == \A k \in DOMAIN l : l[k].at <= n

\* The counter a is what the rule let through since its window began.
Exact(l, v, i, a, n) ==
  /\ a.spent = SpentIn(l, v, i, a.start..n)
  /\ a.spent = SpentIn(l, v, i, a.start..(a.start + Window - 1))

\* What was let through shortly before the window began is at most the limit:
\* it was one window's.
Before(l, v, i, a, w) == SpentIn(l, v, i, (a.start - Window + 1)..(a.start - 1)) <= w

Capped(l, v, i, a, w) ==
  /\ a.spent <= w /\ Before(l, v, i, a, w)
  /\ \A t \in Nat : SpentIn(l, v, i, t..(t + Window - 1)) <= 2 * w

\* The inductive invariant of the windows.
WindowsInv ==
  \A i \in 1..MaxRules :
    IF i \in DOMAIN rules /\ rules[i].window > 0
    THEN /\ acc[i].start <= now
         /\ Exact(ledger, rulesVersion, i, acc[i], now)
         /\ Capped(ledger, rulesVersion, i, acc[i], Ceiling(rules[i]))
    ELSE acc[i] = NoSpend

Counters == [spent : Nat, start : Nat]

LEMMA AtTypes ==
  ASSUME NEW l \in Seq(Entries)
  PROVE  \A k \in DOMAIN l : l[k].at \in Nat
  <1>1. \A k \in DOMAIN l : l[k] \in Entries
    BY LedgerShape
  <1>. QED BY <1>1 DEF Entries

LEMMA TimePasses ==
  ASSUME NEW l \in Seq(Entries), NEW v, NEW i, NEW a \in Counters, NEW n \in Nat, NEW later \in Nat,
         n <= later, Past(l, n), Exact(l, v, i, a, n)
  PROVE  Exact(l, v, i, a, later)
  <1>. DEFINE T == a.start..n
             U == a.start..later
  <1>1. \A k \in DOMAIN l : l[k].at \in T <=> l[k].at \in U
    BY AtTypes DEF Past, Counters
  <1>. HIDE DEF T, U
  <1>2. SpentIn(l, v, i, T) = SpentIn(l, v, i, U)
    BY <1>1, SpentSame
  <1>. QED BY <1>2 DEF Exact, T, U

\* An entry that moves nothing, or is another rule's, changes no sum.
LEMMA OtherEntry ==
  ASSUME NEW l \in Seq(Entries), NEW x \in Entries, NEW v, NEW i, x.rule # i \/ Moved(x.tx) = 0
  PROVE  /\ \A T : SpentIn(Append(l, x), v, i, T) = SpentIn(l, v, i, T)
         /\ \A a, n : Exact(l, v, i, a, n) => Exact(Append(l, x), v, i, a, n)
         /\ \A a, w : Capped(l, v, i, a, w) => Capped(Append(l, x), v, i, a, w)
  <1>1. ASSUME NEW T PROVE SpentIn(Append(l, x), v, i, T) = SpentIn(l, v, i, T)
    <2>1. Term(x, v, i, T) = 0
      BY DEF Term
    <2>2. SpentIn(l, v, i, T) \in Nat
      BY SpentNat
    <2>. QED BY <2>1, <2>2, SpentAppend
  <1>. QED BY <1>1 DEF Exact, Capped, Before

\* An entry of the rule adds what it moves to the times it is in.
LEMMA OwnEntry ==
  ASSUME NEW l \in Seq(Entries), NEW x \in Entries, NEW T
  PROVE  /\ x.at \in T => SpentIn(Append(l, x), x.version, x.rule, T)
                            = SpentIn(l, x.version, x.rule, T) + Moved(x.tx)
         /\ x.at \notin T => SpentIn(Append(l, x), x.version, x.rule, T)
                               = SpentIn(l, x.version, x.rule, T)
         /\ SpentIn(l, x.version, x.rule, T) \in Nat /\ Moved(x.tx) \in Nat
  <1>1. SpentIn(l, x.version, x.rule, T) \in Nat
    BY SpentNat
  <1>2. Moved(x.tx) \in Nat
    BY TxTypes DEF Entries
  <1>3. Term(x, x.version, x.rule, T) = IF x.at \in T THEN Moved(x.tx) ELSE 0
    BY DEF Term
  <1>. QED BY <1>1, <1>2, <1>3, SpentAppend

LEMMA PastAppend ==
  ASSUME NEW l \in Seq(Entries), NEW x \in Entries, NEW n, Past(l, n), x.at <= n
  PROVE  Append(l, x) \in Seq(Entries) /\ Past(Append(l, x), n)
  BY DEF Past

\* The window is over: the entry begins the next one, and nothing was let
\* through between the two.
LEMMA NewWindow ==
  ASSUME NEW l \in Seq(Entries), NEW x \in Entries, NEW a \in Counters, Past(l, x.at),
         Exact(l, x.version, x.rule, a, x.at), x.at >= a.start + Window,
         NEW b, b = [spent |-> Moved(x.tx), start |-> x.at]
  PROVE  /\ Exact(Append(l, x), x.version, x.rule, b, x.at)
         /\ \A w \in Nat : a.spent <= w => Before(Append(l, x), x.version, x.rule, b, w)
  <1>. DEFINE n == x.at
             v == x.version
             i == x.rule
             In(T) == SpentIn(l, v, i, T)
  <1>1. n \in Nat /\ a.start \in Nat /\ a.spent \in Nat /\ Window \in Nat \ {0}
    BY GuardAssumption DEF Entries, Counters
  <1>2. \A k \in DOMAIN l : l[k].at \in Nat /\ l[k].at <= n
    BY AtTypes DEF Past
  <1>3. \A T : In(T) \in Nat
    BY SpentNat
  <1>4. In(a.start..n) = In(a.start..(a.start + Window - 1)) + In((a.start + Window)..n)
    <2>. DEFINE V == a.start..n
               T == a.start..(a.start + Window - 1)
               U == (a.start + Window)..n
    <2>1. \A k \in DOMAIN l : /\ l[k].at \in V <=> (l[k].at \in T \/ l[k].at \in U)
                             /\ ~(l[k].at \in T /\ l[k].at \in U)
      BY <1>1, <1>2
    <2>. HIDE DEF T, U, V
    <2>2. In(V) = In(T) + In(U)
      BY <2>1, SpentApart
    <2>. QED BY <2>2 DEF T, U, V
  <1>5. a.spent = In(a.start..n) /\ a.spent = In(a.start..(a.start + Window - 1))
    BY DEF Exact
  <1>6. In((a.start + Window)..n) = 0
    <2>. HIDE DEF In
    <2>. QED BY <1>1, <1>3, <1>4, <1>5
  <1>7. ASSUME NEW T, \A k \in DOMAIN l : l[k].at \in T => l[k].at \in (a.start + Window)..n
        PROVE  In(T) = 0
    <2>1. In(T) <= In((a.start + Window)..n)
      BY <1>7, SpentLess
    <2>. HIDE DEF In
    <2>. QED BY <1>3, <1>6, <2>1
  <1>8. In(n..n) = 0
    <2>1. \A k \in DOMAIN l : l[k].at \in n..n => l[k].at \in (a.start + Window)..n
      BY <1>1, <1>2
    <2>. QED BY <1>7, <2>1
  <1>9. In(n..(n + Window - 1)) = 0
    <2>1. \A k \in DOMAIN l : l[k].at \in n..(n + Window - 1) => l[k].at \in (a.start + Window)..n
      BY <1>1, <1>2
    <2>. QED BY <1>7, <2>1
  <1>10. n \in n..n /\ n \in n..(n + Window - 1) /\ n \notin (n - Window + 1)..(n - 1)
    BY <1>1
  <1>11. Moved(x.tx) = SpentIn(Append(l, x), v, i, n..n)
         /\ Moved(x.tx) = SpentIn(Append(l, x), v, i, n..(n + Window - 1))
    <2>1. ASSUME NEW T, x.at \in T, In(T) = 0 PROVE Moved(x.tx) = SpentIn(Append(l, x), v, i, T)
      BY <2>1, OwnEntry
    <2>. QED BY <1>8, <1>9, <1>10, <2>1
  <1>12. In((n - Window + 1)..(n - 1)) <= a.spent
    <2>1. \A k \in DOMAIN l : l[k].at \in (n - Window + 1)..(n - 1) => l[k].at \in a.start..n
      BY <1>1, <1>2
    <2>2. In((n - Window + 1)..(n - 1)) <= In(a.start..n)
      BY <2>1, SpentLess
    <2>. QED BY <1>5, <2>2
  <1>13. SpentIn(Append(l, x), v, i, (n - Window + 1)..(n - 1)) = In((n - Window + 1)..(n - 1))
    BY <1>10, OwnEntry
  <1>14. b.spent = Moved(x.tx) /\ b.start = n
    OBVIOUS
  <1>15. ASSUME NEW w \in Nat, a.spent <= w PROVE Before(Append(l, x), v, i, b, w)
    <2>1. In((n - Window + 1)..(n - 1)) <= w
      <3>1. In((n - Window + 1)..(n - 1)) \in Nat
        BY <1>3
      <3>. HIDE DEF In
      <3>. QED BY <1>1, <1>12, <1>15, <3>1
    <2>. QED BY <1>13, <1>14, <2>1 DEF Before
  <1>. QED BY <1>11, <1>14, <1>15 DEF Exact

\* The window goes on: the entry is counted in it.
LEMMA SameWindow ==
  ASSUME NEW l \in Seq(Entries), NEW x \in Entries, NEW a \in Counters, Past(l, x.at),
         Exact(l, x.version, x.rule, a, x.at), a.start <= x.at, x.at < a.start + Window,
         NEW b, b = [spent |-> a.spent + Moved(x.tx), start |-> a.start]
  PROVE  /\ Exact(Append(l, x), x.version, x.rule, b, x.at)
         /\ \A w : Before(l, x.version, x.rule, a, w) => Before(Append(l, x), x.version, x.rule, b, w)
  <1>1. x.at \in Nat /\ a.start \in Nat /\ a.spent \in Nat /\ Window \in Nat \ {0}
    BY GuardAssumption DEF Entries, Counters
  <1>2. b.spent = a.spent + Moved(x.tx) /\ b.start = a.start
    OBVIOUS
  <1>3. /\ x.at \in a.start..x.at /\ x.at \in a.start..(a.start + Window - 1)
        /\ x.at \notin (a.start - Window + 1)..(a.start - 1)
    BY <1>1
  <1>4. Exact(Append(l, x), x.version, x.rule, b, x.at)
    <2>1. ASSUME NEW T, x.at \in T, a.spent = SpentIn(l, x.version, x.rule, T)
          PROVE  b.spent = SpentIn(Append(l, x), x.version, x.rule, T)
      BY <1>2, <2>1, OwnEntry
    <2>. QED BY <1>2, <1>3, <2>1 DEF Exact
  <1>5. \A w : Before(l, x.version, x.rule, a, w) => Before(Append(l, x), x.version, x.rule, b, w)
    BY <1>2, <1>3, OwnEntry DEF Before
  <1>. QED BY <1>4, <1>5

\* A time as long as a window that holds the present reaches back over one
\* begin of a window at most.
LEMMA TwoWindows ==
  ASSUME NEW l \in Seq(Entries), NEW v, NEW i, NEW a \in Counters, NEW n \in Nat, NEW w \in Nat,
         Past(l, n), Exact(l, v, i, a, n), a.start <= n, n < a.start + Window,
         a.spent <= w, Before(l, v, i, a, w), NEW t \in Nat, n \in t..(t + Window - 1)
  PROVE  SpentIn(l, v, i, t..(t + Window - 1)) <= 2 * w
  <1>. DEFINE s == a.start
             In(T) == SpentIn(l, v, i, T)
  <1>1. s \in Nat /\ a.spent \in Nat /\ Window \in Nat \ {0}
    BY GuardAssumption DEF Counters
  <1>2. \A k \in DOMAIN l : l[k].at \in Nat /\ l[k].at <= n
    BY AtTypes DEF Past
  <1>3. In(t..(t + Window - 1)) <= In((s - Window + 1)..n)
    <2>1. \A k \in DOMAIN l : l[k].at \in t..(t + Window - 1) => l[k].at \in (s - Window + 1)..n
      BY <1>1, <1>2
    <2>. QED BY <2>1, SpentLess
  <1>4. In((s - Window + 1)..n) = In((s - Window + 1)..(s - 1)) + In(s..n)
    <2>. DEFINE V == (s - Window + 1)..n
               T == (s - Window + 1)..(s - 1)
               U == s..n
    <2>0. \A m \in Nat : m <= n => /\ m \in V <=> (m \in T \/ m \in U)
                                  /\ ~(m \in T /\ m \in U)
      BY <1>1
    <2>. HIDE DEF T, U, V
    <2>1. \A k \in DOMAIN l : /\ l[k].at \in V <=> (l[k].at \in T \/ l[k].at \in U)
                             /\ ~(l[k].at \in T /\ l[k].at \in U)
      BY <1>2, <2>0
    <2>2. In(V) = In(T) + In(U)
      BY <2>1, SpentApart
    <2>. QED BY <2>2 DEF T, U, V
  <1>5. In((s - Window + 1)..(s - 1)) <= w /\ In(s..n) <= w
    BY DEF Before, Exact
  <1>6. \A T : In(T) \in Nat
    BY SpentNat
  <1>. HIDE DEF In
  <1>7. In(t..(t + Window - 1)) <= 2 * w
    BY <1>3, <1>4, <1>5, <1>6
  <1>. QED BY <1>7 DEF In

\* A rule on one asset governs transactions with one leg, one on any asset also
\* those with two; each leg is checked.
LEMMA LegsWithin ==
  ASSUME NEW i \in DOMAIN rules, NEW tx \in Txs, NEW e, NEW evaluable, NEW refund,
         Allowed(i, tx, e, evaluable, refund), rules[i].window > 0, Remaining(i) \in Nat
  PROVE  /\ tx.value <= Remaining(i) /\ (tx.isToken => tx.amount <= Remaining(i))
         /\ rules[i].asset # AnyAsset => Moved(tx) <= Remaining(i)
         /\ Moved(tx) <= 2 * Remaining(i)
  <1>1. AssetMatches(rules[i], tx) /\ LimitsAllow(i, tx)
    BY DEF Allowed, Governs, ScopeMatches
  <1>2. tx.value \in Nat /\ tx.amount \in Nat
    BY TxTypes
  <1>3. tx.value <= Remaining(i) /\ (tx.isToken => tx.amount <= Remaining(i))
    BY <1>1, <1>2 DEF LimitsAllow, LegAllowed
  <1>4. CASE ~tx.isToken
    <2>1. Moved(tx) = tx.value
      BY <1>2, <1>4 DEF Moved
    <2>. QED BY <1>2, <1>3, <2>1
  <1>5. CASE tx.isToken
    <2>1. Moved(tx) = tx.value + tx.amount
      BY <1>5 DEF Moved
    <2>2. rules[i].asset # AnyAsset => tx.value = 0
      BY <1>1, <1>5 DEF AssetMatches
    <2>. QED BY <1>2, <1>3, <1>5, <2>1, <2>2
  <1>. QED BY <1>4, <1>5

\* The state as the lemmas about windows need it.
LEMMA WindowTypes ==
  ASSUME IInv
  PROVE  /\ ledger \in Seq(Entries) /\ now \in Nat /\ Past(ledger, now)
         /\ \A i \in 1..MaxRules : acc[i] \in Counters
         /\ \A i \in DOMAIN rules : /\ i \in 1..MaxRules /\ rules[i].window \in 0..Uint128Max
                                    /\ Ceiling(rules[i]) \in Nat
  <1>1. TypeOK
    BY DEF IInv
  <1>2. \A i \in 1..MaxRules : acc[i] \in Counters
    BY <1>1, GuardAssumption DEF TypeOK, Counters
  <1>3. ASSUME NEW i \in DOMAIN rules
        PROVE  i \in 1..MaxRules /\ rules[i].window \in 0..Uint128Max /\ Ceiling(rules[i]) \in Nat
    <2>1. rules[i] \in RuleRecords /\ i \in 1..MaxRules
      BY <1>1, GuardAssumption DEF TypeOK
    <2>2. rules[i].window \in 0..Uint128Max
      BY <2>1 DEF RuleRecords
    <2>. QED BY <2>1, <2>2, GuardAssumption DEF Ceiling
  <1>4. Past(ledger, now)
    BY DEF IInv, LedgerPast, Past
  <1>. QED BY <1>1, <1>2, <1>3, <1>4 DEF TypeOK

LEMMA WindowsQuiet ==
  ASSUME IInv, WindowsInv, Quiet
  PROVE  WindowsInv'
  <1>1. /\ rules' = rules /\ acc' = acc /\ rulesVersion' = rulesVersion /\ ledger' = ledger
        /\ now' \in Nat /\ now <= now' /\ now \in Nat
    BY WindowTypes DEF Quiet, guardVars, metaVars
  <1>2. ASSUME NEW i \in 1..MaxRules, i \in DOMAIN rules /\ rules[i].window > 0
        PROVE  /\ acc[i].start <= now' /\ Exact(ledger, rulesVersion, i, acc[i], now')
               /\ Capped(ledger, rulesVersion, i, acc[i], Ceiling(rules[i]))
    <2>1. acc[i] \in Counters
      BY WindowTypes
    <2>2. /\ acc[i].start <= now /\ Exact(ledger, rulesVersion, i, acc[i], now)
          /\ Capped(ledger, rulesVersion, i, acc[i], Ceiling(rules[i]))
      BY <1>2 DEF WindowsInv
    <2>3. Exact(ledger, rulesVersion, i, acc[i], now')
      BY <1>1, <2>1, <2>2, WindowTypes, TimePasses
    <2>4. acc[i].start <= now'
      BY <1>1, <2>1, <2>2 DEF Counters
    <2>. QED BY <2>2, <2>3, <2>4
  <1>3. \A i \in 1..MaxRules : ~(i \in DOMAIN rules /\ rules[i].window > 0) => acc[i] = NoSpend
    BY DEF WindowsInv
  <1>. QED BY <1>1, <1>2, <1>3 DEF WindowsInv

\* A new list begins with nothing counted and nothing let through.
LEMMA WindowsSetRules ==
  ASSUME IInv, IInv', WindowsInv, NEW policy \in Policies, NEW cd \in Cooldowns,
         SetRules(policy, cd)
  PROVE  WindowsInv'
  <1>1. now' = now /\ ledger' = ledger /\ rulesVersion' = rulesVersion + 1
    BY DEF SetRules
  <1>2. ASSUME NEW i \in 1..MaxRules PROVE acc'[i] = NoSpend
    <2>1. i \notin DOMAIN rules => acc[i] = NoSpend
      BY DEF WindowsInv
    <2>. QED BY <2>1 DEF SetRules
  <1>3. ASSUME NEW k \in DOMAIN ledger PROVE ledger[k].version # rulesVersion'
    <2>1. ledger[k].version \in Nat
      BY WindowTypes, LedgerShape DEF Entries
    <2>2. ledger[k].version <= rulesVersion /\ rulesVersion \in Nat
      BY DEF IInv, LedgerPast, TypeOK
    <2>. QED BY <1>1, <2>1, <2>2
  <1>4. ASSUME NEW i, NEW T PROVE SpentIn(ledger', rulesVersion', i, T) = 0
    BY <1>1, <1>3, WindowTypes, SpentNone
  <1>5. NoSpend.spent = 0 /\ NoSpend.start = 0
    BY DEF NoSpend
  <1>6. ASSUME NEW i \in DOMAIN rules'
        PROVE  /\ NoSpend.start <= now'
               /\ Exact(ledger', rulesVersion', i, NoSpend, now')
               /\ Capped(ledger', rulesVersion', i, NoSpend, Ceiling(rules'[i]))
    <2>1. rules'[i] \in RuleRecords
      BY DEF IInv, TypeOK
    <2>2. Ceiling(rules'[i]) \in Nat
      BY <2>1, GuardAssumption DEF RuleRecords, Ceiling
    <2>3. NoSpend.start <= now'
      BY <1>1, <1>5, WindowTypes
    <2>4. Exact(ledger', rulesVersion', i, NoSpend, now')
      BY <1>4, <1>5 DEF Exact
    <2>5. 0 <= Ceiling(rules'[i]) /\ 0 <= 2 * Ceiling(rules'[i])
      BY <2>2
    <2>. QED BY <1>4, <1>5, <2>3, <2>4, <2>5 DEF Capped, Before
  <1>. QED BY <1>2, <1>6 DEF WindowsInv

\* The rule that let the transaction through, which moved something.
LEMMA CountedEntry ==
  ASSUME IInv, WindowsInv, NEW i \in DOMAIN rules, NEW tx \in Txs, NEW e \in Executors,
         Passed(i, tx, e), Counted(tx), rules[i].window > 0
  PROVE  /\ acc'[i].start <= now
         /\ Exact(ledger', rulesVersion, i, acc'[i], now)
         /\ Capped(ledger', rulesVersion, i, acc'[i], Ceiling(rules[i]))
  <1>. DEFINE x == Entry(i, tx, e)
             a == acc[i]
             b == acc'[i]
             w == rules[i].window
             c == Ceiling(rules[i])
  <1>1. /\ ledger \in Seq(Entries) /\ now \in Nat /\ Past(ledger, now) /\ a \in Counters
        /\ i \in 1..MaxRules /\ w \in Nat /\ c \in Nat /\ c = IF rules[i].asset = AnyAsset THEN 2 * w ELSE w
    BY WindowTypes, GuardAssumption DEF Ceiling
  <1>2. x \in Entries /\ x.tx = tx /\ x.rule = i /\ x.version = rulesVersion /\ x.at = now
    BY EntryType DEF Entry, IInv
  <1>3. ledger' = Append(ledger, x) /\ b = Spent(i, tx)
    <2>1. acc' = [acc EXCEPT ![i] = Spent(i, tx)]
      BY DEF Passed, Commit
    <2>2. DOMAIN acc = 1..MaxRules
      BY DEF IInv, TypeOK
    <2>. QED BY <1>1, <2>1, <2>2 DEF Passed
  <1>4. /\ a.start <= now /\ Exact(ledger, rulesVersion, i, a, now)
        /\ Capped(ledger, rulesVersion, i, a, c)
    BY <1>1 DEF WindowsInv
  <1>5. a.start \in Nat /\ a.spent \in Nat /\ Moved(tx) \in Nat /\ Window \in Nat \ {0}
    BY <1>1, TxTypes, GuardAssumption DEF Counters
  <1>6. /\ Remaining(i) \in Nat
        /\ Moved(tx) <= IF rules[i].asset = AnyAsset THEN 2 * Remaining(i) ELSE Remaining(i)
    <2>1. Remaining(i) \in Nat
      BY <1>1, <1>5 DEF Remaining
    <2>. QED BY <2>1, LegsWithin DEF Passed, Enforced
  <1>. HIDE DEF x, w, c
  <1>7. /\ b \in Counters /\ b.start <= now /\ now < b.start + Window
        /\ Exact(ledger', rulesVersion, i, b, now)
        /\ b.spent <= c /\ Before(ledger', rulesVersion, i, b, c)
    <2>1. CASE WindowOver(i)
      <3>1. b = [spent |-> Moved(tx), start |-> now] /\ now >= a.start + Window
        BY <1>3, <2>1 DEF Spent, WindowOver
      <3>2. /\ Exact(ledger', rulesVersion, i, b, now)
            /\ \A m \in Nat : a.spent <= m => Before(ledger', rulesVersion, i, b, m)
        BY <1>1, <1>2, <1>3, <1>4, <3>1, NewWindow
      <3>3. b.spent <= c /\ a.spent <= c
        <4>1. a.spent <= c
          BY <1>4 DEF Capped
        <4>2. Remaining(i) <= w
          BY <1>1, <2>1 DEF Remaining, w
        <4>. QED BY <1>1, <1>5, <1>6, <3>1, <4>1, <4>2
      <3>4. b \in Counters /\ b.start <= now /\ now < b.start + Window
        BY <1>1, <1>5, <3>1 DEF Counters
      <3>. QED BY <1>1, <3>2, <3>3, <3>4
    <2>2. CASE ~WindowOver(i)
      <3>1. b = [spent |-> a.spent + Moved(tx), start |-> a.start] /\ now < a.start + Window
        BY <1>1, <1>3, <1>5, <2>2 DEF Spent, WindowOver
      <3>2. /\ Exact(ledger', rulesVersion, i, b, now)
            /\ \A m : Before(ledger, rulesVersion, i, a, m) => Before(ledger', rulesVersion, i, b, m)
        <4>1. a \in Counters /\ a.start <= x.at /\ x.at < a.start + Window /\ Past(ledger, x.at)
              /\ Exact(ledger, x.version, x.rule, a, x.at)
          BY <1>1, <1>2, <1>4, <3>1
        <4>2. b = [spent |-> a.spent + Moved(x.tx), start |-> a.start]
          BY <1>2, <3>1
        <4>. HIDE DEF a, b
        <4>. QED BY <1>1, <1>2, <1>3, <4>1, <4>2, SameWindow
      <3>3. b.spent <= c /\ Before(ledger, rulesVersion, i, a, c)
        <4>1. b.spent = a.spent + Moved(tx)
          BY <3>1
        <4>2. a.spent <= c /\ Before(ledger, rulesVersion, i, a, c)
          BY <1>4 DEF Capped
        <4>3. Remaining(i) = IF a.spent >= w THEN 0 ELSE w - a.spent
          BY <2>2 DEF Remaining, w
        <4>. HIDE DEF a, b
        <4>. QED BY <1>1, <1>5, <1>6, <4>1, <4>2, <4>3
      <3>4. b \in Counters /\ b.start <= now
        BY <1>4, <1>5, <3>1 DEF Counters
      <3>. QED BY <3>1, <3>2, <3>3, <3>4
    <2>. QED BY <2>1, <2>2
  <1>. HIDE DEF b
  <1>8. ledger' \in Seq(Entries) /\ Past(ledger', now)
    BY <1>1, <1>2, <1>3, PastAppend
  <1>9. ASSUME NEW t \in Nat
        PROVE  SpentIn(ledger', rulesVersion, i, t..(t + Window - 1)) <= 2 * c
    <2>. DEFINE T == t..(t + Window - 1)
    <2>1. CASE now \in T
      BY <1>1, <1>7, <1>8, <2>1, TwoWindows
    <2>2. CASE now \notin T
      <3>1. SpentIn(ledger, rulesVersion, i, T) <= 2 * c
        BY <1>4 DEF Capped
      <3>. HIDE DEF T
      <3>2. SpentIn(ledger', rulesVersion, i, T) = SpentIn(ledger, rulesVersion, i, T)
        BY <1>1, <1>2, <1>3, <2>2, OwnEntry
      <3>. QED BY <3>1, <3>2 DEF T
    <2>. QED BY <2>1, <2>2
  <1>. QED BY <1>7, <1>9 DEF Capped, b, c

LEMMA WindowsPassed ==
  ASSUME IInv, WindowsInv, NEW i \in DOMAIN rules, NEW tx \in Txs, NEW e \in Executors,
         Passed(i, tx, e)
  PROVE  WindowsInv'
  <1>. DEFINE x == Entry(i, tx, e)
  <1>1. /\ now' = now /\ rules' = rules /\ rulesVersion' = rulesVersion
        /\ ledger' = Append(ledger, x) /\ Commit(i, tx)
    BY DEF Passed
  <1>2. ledger \in Seq(Entries) /\ x \in Entries /\ x.tx = tx /\ x.rule = i
    BY WindowTypes, EntryType DEF Entry, IInv
  <1>3. acc \in [1..MaxRules -> [spent : 0..Uint128Max, start : Nat]] /\ i \in 1..MaxRules
    BY WindowTypes DEF IInv, TypeOK
  <1>. HIDE DEF x
  <1>4. ASSUME NEW j \in 1..MaxRules, j # i \/ ~Counted(tx) \/ ~(rules[i].window > 0)
        PROVE  acc'[j] = acc[j]
    BY <1>1, <1>3, <1>4 DEF Commit
  <1>5. ~Counted(tx) => Moved(tx) = 0
    BY TxTypes DEF Counted, Moved
  <1>6. ASSUME NEW j \in DOMAIN rules, rules[j].window > 0
        PROVE  /\ acc'[j].start <= now
               /\ Exact(ledger', rulesVersion, j, acc'[j], now)
               /\ Capped(ledger', rulesVersion, j, acc'[j], Ceiling(rules[j]))
    <2>1. CASE j = i /\ Counted(tx)
      BY <1>6, <2>1, CountedEntry
    <2>2. CASE ~(j = i /\ Counted(tx))
      <3>1. acc'[j] = acc[j]
        BY <1>4, <2>2, WindowTypes
      <3>2. /\ acc[j].start <= now /\ Exact(ledger, rulesVersion, j, acc[j], now)
            /\ Capped(ledger, rulesVersion, j, acc[j], Ceiling(rules[j]))
        BY <1>6, WindowTypes DEF WindowsInv
      <3>3. x.rule # j \/ Moved(x.tx) = 0
        BY <1>2, <1>5, <2>2
      <3>. QED BY <1>1, <1>2, <3>1, <3>2, <3>3, OtherEntry
    <2>. QED BY <2>1, <2>2
  <1>7. ASSUME NEW j \in 1..MaxRules, ~(j \in DOMAIN rules /\ rules[j].window > 0)
        PROVE  acc'[j] = NoSpend
    BY <1>4, <1>7 DEF WindowsInv
  <1>. QED BY <1>1, <1>6, <1>7 DEF WindowsInv

\* The inductive invariant of the windows holds, for every list of rules,
\* transactions and clock (_checkLeg, _commitSpend, setRules).
THEOREM GuardWindows == Spec => []WindowsInv
  <1>1. Init => WindowsInv
    <2>. SUFFICES ASSUME Init PROVE WindowsInv
      OBVIOUS
    <2>1. DOMAIN rules = {} /\ \A i \in 1..MaxRules : acc[i] = NoSpend
      BY DEF Init
    <2>. QED BY <2>1 DEF WindowsInv
  <1>2. IInv /\ IInv' /\ WindowsInv /\ [Next]_vars => WindowsInv'
    <2>. SUFFICES ASSUME IInv, IInv', WindowsInv, [Next]_vars PROVE WindowsInv'
      OBVIOUS
    <2>1. TypeOK
      BY DEF IInv
    <2>. QED BY <2>1, StepCases, WindowsQuiet, WindowsSetRules, WindowsPassed
  <1>. QED BY <1>1, <1>2, GuardInvariant, PTL DEF Spec

\* The counter of each rule is what it let through since its window began:
\* replaced lists and windows that are over leave nothing in it.
THEOREM GuardAccountingExact == Spec => []AccountingExact
  <1>1. WindowsInv => AccountingExact
    BY SpentByIn DEF WindowsInv, AccountingExact, Exact
  <1>. QED BY <1>1, GuardWindows, PTL

\* A rule lets at most its limit through in the window it counts, twice the
\* limit if it is on any asset, and at most twice that in any time as long as a
\* window.
THEOREM GuardWindowCapped == Spec => []WindowCapped
  <1>1. IInv /\ WindowsInv => WindowCapped
    <2>. SUFFICES ASSUME IInv, WindowsInv, NEW i \in DOMAIN rules, rules[i].window > 0
                  PROVE  /\ acc[i].spent <= Ceiling(rules[i])
                         /\ \A t \in Start..now :
                              SpentBy(i, t..(t + Window - 1)) <= 2 * Ceiling(rules[i])
      BY DEF WindowCapped
    <2>1. Capped(ledger, rulesVersion, i, acc[i], Ceiling(rules[i]))
      BY WindowTypes DEF WindowsInv
    <2>2. \A t \in Start..now : t \in Nat
      BY WindowTypes, GuardAssumption
    <2>. QED BY <2>1, <2>2, SpentByIn DEF Capped
  <1>. QED BY <1>1, GuardInvariant, GuardWindows, PTL

\* The amounts that _commitSpend casts to uint128 fit, and the counter it adds
\* to never overflows for a rule on one asset: the addition that would revert
\* the transaction decides nothing there.
CastSafe ==
  \A i \in DOMAIN rules, tx \in Txs, e \in Executors :
    (rules[i].window > 0 /\ Allowed(i, tx, e, hasApproverRules, tx.refund)) =>
      /\ tx.value <= Uint128Max /\ (tx.isToken => tx.amount <= Uint128Max)
      /\ rules[i].asset # AnyAsset => Spent(i, tx).spent <= Uint128Max

\* What the comment on _commitSpend says of its cast, and more of its sum.
THEOREM GuardCastSafe == Spec => []CastSafe
  <1>1. IInv /\ WindowsInv => CastSafe
    <2>. SUFFICES ASSUME IInv, WindowsInv, NEW i \in DOMAIN rules, NEW tx \in Txs, NEW e \in Executors,
                         rules[i].window > 0, Allowed(i, tx, e, hasApproverRules, tx.refund)
                  PROVE  /\ tx.value <= Uint128Max /\ (tx.isToken => tx.amount <= Uint128Max)
                         /\ rules[i].asset # AnyAsset => Spent(i, tx).spent <= Uint128Max
      BY DEF CastSafe
    <2>. DEFINE w == rules[i].window
    <2>1. /\ i \in 1..MaxRules /\ w \in Nat /\ w <= Uint128Max /\ Uint128Max \in Nat
          /\ acc[i] \in Counters
      BY WindowTypes, GuardAssumption
    <2>2. acc[i].spent \in Nat
      BY <2>1 DEF Counters
    <2>3. rules[i].asset # AnyAsset => acc[i].spent <= w
      BY <2>1 DEF WindowsInv, Capped, Ceiling
    <2>4. Remaining(i) \in Nat /\ Remaining(i) <= w
          /\ (~WindowOver(i) /\ acc[i].spent <= w => Remaining(i) = w - acc[i].spent)
      BY <2>1, <2>2 DEF Remaining
    <2>5. /\ tx.value <= Remaining(i) /\ (tx.isToken => tx.amount <= Remaining(i))
          /\ rules[i].asset # AnyAsset => Moved(tx) <= Remaining(i)
      BY <2>4, LegsWithin
    <2>6. tx.value \in Nat /\ tx.amount \in Nat /\ Moved(tx) \in Nat
      BY TxTypes
    <2>7. Spent(i, tx).spent = IF WindowOver(i) THEN Moved(tx) ELSE acc[i].spent + Moved(tx)
      BY DEF Spent
    <2>. HIDE DEF w
    <2>. QED BY <2>1, <2>2, <2>3, <2>4, <2>5, <2>6, <2>7
  <1>. QED BY <1>1, GuardInvariant, GuardWindows, PTL

-----------------------------------------------------------------------------
\* The preview.

\* An overflow apart, what the rules allow fits the counter.
LEMMA AllowedFits ==
  ASSUME IInv, NEW i \in DOMAIN rules, NEW tx \in Txs, NEW e, NEW evaluable, NEW refund,
         Allowed(i, tx, e, evaluable, refund), ~MayOverflow(i, tx)
  PROVE  Fits(i, tx)
  <1>. SUFFICES ASSUME Counted(tx), rules[i].window > 0 PROVE Spent(i, tx).spent <= Uint128Max
    BY DEF Fits
  <1>. DEFINE w == rules[i].window
             a == acc[i].spent
  <1>1. /\ i \in 1..MaxRules /\ w \in Nat /\ w <= Uint128Max /\ Uint128Max \in Nat
    BY WindowTypes, GuardAssumption
  <1>2. a \in Nat /\ a <= Uint128Max
    BY <1>1 DEF IInv, TypeOK
  <1>3. Remaining(i) = IF WindowOver(i) THEN w ELSE IF a >= w THEN 0 ELSE w - a
    BY <1>1 DEF Remaining
  <1>4. Remaining(i) \in Nat
    BY <1>1, <1>2, <1>3
  <1>5. tx.value <= Remaining(i) /\ (tx.isToken => tx.amount <= Remaining(i))
    BY <1>4, LegsWithin
  <1>6. tx.value \in Nat /\ tx.amount \in Nat /\ Moved(tx) \in Nat
    BY TxTypes
  <1>7. Spent(i, tx).spent = IF WindowOver(i) THEN Moved(tx) ELSE a + Moved(tx)
    BY DEF Spent
  <1>8. CASE ~tx.isToken \/ tx.value = 0
    <2>1. Moved(tx) <= Remaining(i)
      BY <1>4, <1>5, <1>6, <1>8 DEF Moved
    <2>. HIDE DEF w, a
    <2>. QED BY <1>1, <1>2, <1>3, <1>4, <1>6, <1>7, <2>1
  <1>9. CASE tx.isToken /\ tx.value # 0
    <2>1. 2 * w <= Uint128Max
      BY <1>1, <1>6, <1>9 DEF MayOverflow
    <2>2. Moved(tx) <= 2 * Remaining(i)
      BY <1>4, <1>5, <1>6, <1>9 DEF Moved
    <2>. HIDE DEF w, a
    <2>. QED BY <1>1, <1>2, <1>3, <1>4, <1>6, <1>7, <2>1, <2>2
  <1>. QED BY <1>8, <1>9

\* previewTransaction with the approved hash says what checkTransaction does,
\* although one reads the approvals always and the other by the cache, and only
\* the other counts: an overflow of two legs apart.
THEOREM GuardPreviewIsTwin == Spec => []PreviewIsTwin
  <1>1. ASSUME IInv, NEW i \in DOMAIN rules, NEW tx, NEW e
        PROVE  Enough(rules[i], tx, e, TRUE) <=> Enough(rules[i], tx, e, hasApproverRules)
    <2>1. CASE hasApproverRules
      <3>1. hasApproverRules = TRUE
        BY <1>1, <2>1, Zenon DEF IInv, TypeOK
      <3>. QED BY <3>1
    <2>2. CASE ~hasApproverRules
      <3>1. rules[i].approvers = {}
        BY <1>1, <2>2, Zenon DEF IInv, CacheExact
      <3>2. rules[i].required = 0
        BY <1>1, <3>1 DEF IInv, RulesNormal
      <3>. QED BY <3>2 DEF Enough
    <2>. QED BY <2>1, <2>2
  <1>2. ASSUME IInv, NEW i \in DOMAIN rules, NEW tx, NEW e
        PROVE  Governs(i, tx, e, TRUE) <=> Governs(i, tx, e, hasApproverRules)
    <2>1. rules \in Seq(RuleRecords) /\ DOMAIN rules = 1..Len(rules) /\ Len(rules) \in Nat
      BY <1>2 DEF IInv, TypeOK
    <2>2. \A j \in 1..(i - 1) : j \in DOMAIN rules
      BY <1>2, <2>1
    <2>3. \A j \in DOMAIN rules : Enough(rules[j], tx, e, TRUE) <=> Enough(rules[j], tx, e, hasApproverRules)
      BY <1>1, <1>2
    <2>. QED BY <1>2, <2>2, <2>3, Zenon DEF Governs
  <1>3. ASSUME IInv, NEW i \in DOMAIN rules, NEW tx, NEW e, ~tx.refund
        PROVE  Allowed(i, tx, e, TRUE, FALSE) <=> Allowed(i, tx, e, hasApproverRules, tx.refund)
    <2>1. HardDenied(tx, FALSE) <=> HardDenied(tx, tx.refund)
      BY <1>3, Zenon DEF HardDenied
    <2>. QED BY <1>2, <1>3, <2>1, Zenon DEF Allowed
  <1>4. ASSUME IInv, rules # <<>>, NEW tx \in Txs, NEW e \in Executors, ~tx.refund
        PROVE  /\ (\E i \in DOMAIN rules : Enforced(i, tx, e)) => Preview(tx, e, TRUE)
               /\ Preview(tx, e, TRUE) =>
                    \E i \in DOMAIN rules :
                      \/ Enforced(i, tx, e)
                      \/ Allowed(i, tx, e, hasApproverRules, tx.refund) /\ MayOverflow(i, tx)
    <2>1. ASSUME NEW i \in DOMAIN rules, Enforced(i, tx, e) PROVE Preview(tx, e, TRUE)
      <3>1. Allowed(i, tx, e, TRUE, FALSE)
        BY <1>3, <1>4, <2>1, Zenon DEF Enforced
      <3>2. ~ValueToGuard(tx)
        BY <3>1, Zenon DEF Allowed, HardDenied
      <3>. QED BY <3>1, <3>2, Zenon DEF Preview
    <2>2. ASSUME Preview(tx, e, TRUE)
          PROVE  \E i \in DOMAIN rules :
                   \/ Enforced(i, tx, e)
                   \/ Allowed(i, tx, e, hasApproverRules, tx.refund) /\ MayOverflow(i, tx)
      <3>1. PICK i \in DOMAIN rules : Allowed(i, tx, e, TRUE, FALSE)
        BY <1>4, <2>2, Zenon DEF Preview
      <3>2. Allowed(i, tx, e, hasApproverRules, tx.refund)
        BY <1>3, <1>4, <3>1, Zenon
      <3>3. Fits(i, tx) \/ MayOverflow(i, tx)
        BY <1>4, <3>1, AllowedFits, Zenon
      <3>. QED BY <3>2, <3>3, Zenon DEF Enforced
    <2>. QED BY <2>1, <2>2, Zenon
  <1>5. IInv => PreviewIsTwin
    BY <1>4, Zenon DEF PreviewIsTwin
  <1>. QED BY <1>5, GuardInvariant, PTL

\* Where no rule with approvers precedes rule i in its own scope, a preview that
\* finds i without the hash is right.  (Where one does, PreviewConservative is
\* what the comment claims and the code does not keep.)
PreviewRight ==
  \A i \in DOMAIN rules, tx \in Txs, e \in Executors :
    (/\ \A j \in 1..(i - 1) : ScopeEquals(rules[j], rules[i]) => rules[j].approvers = {}
     /\ ~tx.refund /\ Allowed(i, tx, e, FALSE, FALSE)) =>
      Enforced(i, tx, e) \/ MayOverflow(i, tx)

\* previewTransaction without the hash says allowed only where checkTransaction
\* lets the transaction through, on lists without alternatives to a rule with
\* approvers; an overflow of two legs apart.
THEOREM GuardPreviewRight == Spec => []PreviewRight
  <1>1. ASSUME IInv, NEW i \in DOMAIN rules, NEW tx, NEW e, Governs(i, tx, e, FALSE),
               \A j \in 1..(i - 1) : ScopeEquals(rules[j], rules[i]) => rules[j].approvers = {}
        PROVE  Governs(i, tx, e, hasApproverRules)
    <2>1. rules \in Seq(RuleRecords) /\ DOMAIN rules = 1..Len(rules) /\ Len(rules) \in Nat
      BY <1>1 DEF IInv, TypeOK
    <2>2. ScopeMatches(rules[i], tx) /\ rules[i].required = 0
      BY <1>1 DEF Governs, Enough
    <2>3. ASSUME NEW j \in 1..(i - 1), ScopeMatches(rules[j], tx) PROVE FALSE
      <3>1. ~Enough(rules[j], tx, e, FALSE) /\ ScopeEquals(rules[j], rules[i])
        BY <1>1, <2>3 DEF Governs
      <3>2. j \in DOMAIN rules /\ rules[j].approvers = {}
        BY <1>1, <2>1, <3>1
      <3>3. rules[j].required = 0
        BY <1>1, <3>2 DEF IInv, RulesNormal
      <3>. QED BY <3>1, <3>3 DEF Enough
    <2>. QED BY <2>2, <2>3 DEF Governs, Enough
  <1>2. ASSUME NEW tx, ~tx.refund PROVE HardDenied(tx, tx.refund) => HardDenied(tx, FALSE)
    BY <1>2, Zenon DEF HardDenied
  <1>3. IInv => PreviewRight
    <2>. SUFFICES ASSUME IInv, NEW i \in DOMAIN rules, NEW tx \in Txs, NEW e \in Executors,
                         \A j \in 1..(i - 1) : ScopeEquals(rules[j], rules[i]) => rules[j].approvers = {},
                         ~tx.refund, Allowed(i, tx, e, FALSE, FALSE)
                  PROVE  Enforced(i, tx, e) \/ MayOverflow(i, tx)
      BY Zenon DEF PreviewRight
    <2>1. Governs(i, tx, e, hasApproverRules)
      BY <1>1 DEF Allowed
    <2>2. Allowed(i, tx, e, hasApproverRules, tx.refund)
      BY <1>2, <2>1, Zenon DEF Allowed
    <2>3. Fits(i, tx) \/ MayOverflow(i, tx)
      BY <2>2, AllowedFits, Zenon
    <2>. QED BY <2>2, <2>3, Zenon DEF Enforced
  <1>. QED BY <1>3, GuardInvariant, PTL

-----------------------------------------------------------------------------
\* The loop of _evaluate.

\* f is what the loop knows after each of n rounds.
Loops(f, n, tx, e, evaluable) ==
  f = [i \in 0..n |-> IF i = 0 THEN NothingSeen ELSE LoopRound(f[i - 1], i, tx, e, evaluable)]

\* The loop has its rounds: a round more extends the ones before.
LEMMA LoopExists ==
  ASSUME NEW tx, NEW e, NEW evaluable, NEW n \in Nat
  PROVE  \E f : Loops(f, n, tx, e, evaluable)
  <1>. DEFINE G == {k \in 0..n : \E f : Loops(f, k, tx, e, evaluable)}
             R(s, i) == LoopRound(s, i, tx, e, evaluable)
  <1>1. 0 \in G
    <2>. DEFINE f == [i \in 0..0 |-> NothingSeen]
    <2>1. f = [i \in 0..0 |-> IF i = 0 THEN NothingSeen ELSE R(f[i - 1], i)]
      <3>. HIDE DEF R
      <3>. QED OBVIOUS
    <2>2. Loops(f, 0, tx, e, evaluable)
      BY <2>1 DEF Loops
    <2>. QED BY <2>2
  <1>2. ASSUME NEW k \in 0..n, k # n, k \in G PROVE k + 1 \in G
    <2>1. PICK f : f = [i \in 0..k |-> IF i = 0 THEN NothingSeen ELSE R(f[i - 1], i)]
      BY <1>2 DEF Loops
    <2>. DEFINE g == [i \in 0..(k + 1) |-> IF i \in 0..k THEN f[i] ELSE R(f[k], k + 1)]
    <2>. HIDE DEF R
    <2>2. \A i \in 0..k : g[i] = f[i]
      OBVIOUS
    <2>3. \A i \in 0..k : f[i] = IF i = 0 THEN NothingSeen ELSE R(f[i - 1], i)
      BY <2>1, Zenon
    <2>4. ASSUME NEW i \in 0..(k + 1)
          PROVE  g[i] = IF i = 0 THEN NothingSeen ELSE R(g[i - 1], i)
      <3>1. CASE i \in 0..k
        <4>1. i # 0 => i - 1 \in 0..k
          BY <3>1
        <4>2. i # 0 => g[i - 1] = f[i - 1]
          BY <2>2, <4>1
        <4>. QED BY <2>2, <2>3, <3>1, <4>2
      <3>2. CASE i = k + 1
        <4>1. i # 0 /\ i - 1 = k /\ i \notin 0..k /\ k \in 0..k
          BY <3>2
        <4>2. g[i] = R(f[k], k + 1) /\ g[k] = f[k]
          BY <2>2, <4>1
        <4>. QED BY <3>2, <4>1, <4>2
      <3>. QED BY <3>1, <3>2
    <2>5. g = [i \in 0..(k + 1) |-> g[i]]
      OBVIOUS
    <2>. HIDE DEF g
    <2>6. g = [i \in 0..(k + 1) |-> IF i = 0 THEN NothingSeen ELSE R(g[i - 1], i)]
      BY <2>4, <2>5
    <2>7. Loops(g, k + 1, tx, e, evaluable)
      BY <2>6 DEF Loops, R
    <2>8. k + 1 \in 0..n
      BY <1>2
    <2>. QED BY <2>7, <2>8
  <1>. HIDE DEF G
  <1>3. n \in G
    <2>1. \A k \in 0..n : k \in G
      BY <1>1, <1>2, IntervalInduction
    <2>. QED BY <2>1
  <1>. QED BY <1>3 DEF G

\* What the loop knows after i rounds.
SeenRight(s, i, tx, e, evaluable) ==
  /\ s \in [on : BOOLEAN, failed : 0..i, governing : 0..i]
  /\ s.on => s.governing = 0
  /\ (s.on /\ s.failed = 0) => \A j \in 1..i : ~ScopeMatches(rules[j], tx)
  /\ (s.on /\ s.failed # 0) =>
        /\ ScopeMatches(rules[s.failed], tx)
        /\ \A j \in 1..i : ScopeMatches(rules[j], tx) =>
              /\ ~Enough(rules[j], tx, e, evaluable)
              /\ ScopeEquals(rules[j], rules[s.failed])
  /\ s.governing # 0 => Governs(s.governing, tx, e, evaluable)
  /\ (~s.on /\ s.governing = 0) => \A j \in DOMAIN rules : ~Governs(j, tx, e, evaluable)

\* Scopes are equal as an equivalence.
LEMMA ScopesEquivalent ==
  /\ \A r : ScopeEquals(r, r)
  /\ \A r, s : ScopeEquals(r, s) => ScopeEquals(s, r)
  /\ \A r, s, t : ScopeEquals(r, s) /\ ScopeEquals(s, t) => ScopeEquals(r, t)
  BY DEF ScopeEquals

LEMMA RoundRight ==
  ASSUME NEW tx, NEW e, NEW evaluable, rules \in Seq(RuleRecords), NEW i \in DOMAIN rules,
         NEW s, SeenRight(s, i - 1, tx, e, evaluable)
  PROVE  SeenRight(LoopRound(s, i, tx, e, evaluable), i, tx, e, evaluable)
  <1>. DEFINE r == LoopRound(s, i, tx, e, evaluable)
             M(j) == ScopeMatches(rules[j], tx)
             E(j) == Enough(rules[j], tx, e, evaluable)
             Eq(j, k) == ScopeEquals(rules[j], rules[k])
             Gov(j) == Governs(j, tx, e, evaluable)
  <1>1. i \in Nat /\ i >= 1 /\ DOMAIN rules = 1..Len(rules) /\ Len(rules) \in Nat
    OBVIOUS
  <1>2. /\ s \in [on : BOOLEAN, failed : 0..(i - 1), governing : 0..(i - 1)]
        /\ s.on => s.governing = 0
        /\ (s.on /\ s.failed = 0) => \A j \in 1..(i - 1) : ~M(j)
        /\ (s.on /\ s.failed # 0) =>
              M(s.failed) /\ \A j \in 1..(i - 1) : M(j) => ~E(j) /\ Eq(j, s.failed)
        /\ s.governing # 0 => Gov(s.governing)
        /\ (~s.on /\ s.governing = 0) => \A j \in DOMAIN rules : ~Gov(j)
    BY DEF SeenRight
  <1>3. r = IF ~s.on \/ ~M(i) THEN s
            ELSE IF s.failed # 0 /\ ~Eq(s.failed, i) THEN [on |-> FALSE, failed |-> s.failed, governing |-> 0]
            ELSE IF E(i) THEN [on |-> FALSE, failed |-> s.failed, governing |-> i]
            ELSE [on |-> TRUE, failed |-> IF s.failed = 0 THEN i ELSE s.failed, governing |-> 0]
    BY DEF LoopRound
  <1>4. \A j \in DOMAIN rules :
          Gov(j) <=> M(j) /\ E(j) /\ \A k \in 1..(j - 1) : M(k) => ~E(k) /\ Eq(k, j)
    BY DEF Governs
  <1>5. /\ \A j : Eq(j, j)
        /\ \A j, k : Eq(j, k) => Eq(k, j)
        /\ \A j, k, m : Eq(j, k) /\ Eq(k, m) => Eq(j, m)
    BY ScopesEquivalent
  <1>6. 1..i = (1..(i - 1)) \cup {i}
    BY <1>1
  <1>. HIDE DEF r, M, E, Eq, Gov
  <1>7. /\ r \in [on : BOOLEAN, failed : 0..i, governing : 0..i]
        /\ r.on => r.governing = 0
        /\ (r.on /\ r.failed = 0) => \A j \in 1..i : ~M(j)
        /\ (r.on /\ r.failed # 0) =>
              M(r.failed) /\ \A j \in 1..i : M(j) => ~E(j) /\ Eq(j, r.failed)
        /\ r.governing # 0 => Gov(r.governing)
        /\ (~r.on /\ r.governing = 0) => \A j \in DOMAIN rules : ~Gov(j)
    <2>1. CASE ~s.on \/ ~M(i)
      <3>1. r = s
        BY <1>3, <2>1
      <3>. QED BY <1>1, <1>2, <1>6, <2>1, <3>1
    <2>2. CASE s.on /\ M(i) /\ s.failed # 0 /\ ~Eq(s.failed, i)
      <3>1. r = [on |-> FALSE, failed |-> s.failed, governing |-> 0]
        BY <1>3, <2>2
      <3>2. ASSUME NEW j \in DOMAIN rules, Gov(j) PROVE FALSE
        <4>1. M(j) /\ E(j) /\ \A k \in 1..(j - 1) : M(k) => ~E(k) /\ Eq(k, j)
          BY <1>4, <3>2
        <4>2. s.failed \in 1..(i - 1) /\ M(s.failed) /\ ~E(s.failed)
          BY <1>1, <1>2, <1>5, <2>2
        <4>3. ~(j < i)
          BY <1>1, <1>2, <2>2, <4>1
        <4>4. Eq(s.failed, j)
          BY <1>1, <4>1, <4>2, <4>3
        <4>5. j # i => Eq(i, j)
          BY <1>1, <2>2, <4>1, <4>3
        <4>. QED BY <1>5, <2>2, <4>4, <4>5
      <3>3. /\ r.on = FALSE /\ r.failed = s.failed /\ r.governing = 0
            /\ r \in [on : BOOLEAN, failed : 0..i, governing : 0..i]
        BY <1>1, <1>2, <2>2, <3>1
      <3>. QED BY <3>2, <3>3
    <2>3. CASE s.on /\ M(i) /\ ~(s.failed # 0 /\ ~Eq(s.failed, i)) /\ E(i)
      <3>1. r = [on |-> FALSE, failed |-> s.failed, governing |-> i]
        BY <1>3, <2>3
      <3>2. ASSUME NEW k \in 1..(i - 1), M(k) PROVE ~E(k) /\ Eq(k, i)
        BY <1>2, <1>5, <2>3, <3>2
      <3>3. Gov(i)
        BY <1>4, <2>3, <3>2
      <3>4. /\ r.on = FALSE /\ r.failed = s.failed /\ r.governing = i
            /\ r \in [on : BOOLEAN, failed : 0..i, governing : 0..i]
        BY <1>1, <1>2, <3>1
      <3>. QED BY <1>1, <3>3, <3>4
    <2>4. CASE s.on /\ M(i) /\ ~(s.failed # 0 /\ ~Eq(s.failed, i)) /\ ~E(i)
      <3>1. r = [on |-> TRUE, failed |-> IF s.failed = 0 THEN i ELSE s.failed, governing |-> 0]
        BY <1>3, <2>4
      <3>. QED BY <1>1, <1>2, <1>5, <1>6, <2>4, <3>1
    <2>. QED BY <2>1, <2>2, <2>3, <2>4
  <1>. QED BY <1>7 DEF SeenRight, r, M, E, Eq, Gov

\* The loop finds the rule that governs, if one does: on every list, for every
\* transaction and executor, with approvals and without.
THEOREM GuardLoopFindsGoverning == Spec => []LoopFindsGoverning
  <1>1. ASSUME TypeOK, NEW tx, NEW e, NEW evaluable, NEW i \in DOMAIN rules
        PROVE  (Scan(tx, e, evaluable) = i) <=> Governs(i, tx, e, evaluable)
    <2>. DEFINE N == Len(rules)
               Loop(g) == Loops(g, N, tx, e, evaluable)
               f == CHOOSE g : Loop(g)
               Right(k) == SeenRight(f[k], k, tx, e, evaluable)
               G == {k \in 0..N : Right(k)}
    <2>1. rules \in Seq(RuleRecords) /\ N \in Nat /\ DOMAIN rules = 1..N
      BY <1>1 DEF TypeOK
    <2>2. Scan(tx, e, evaluable) = f[N].governing
      BY DEF Scan, Loops
    <2>3. Loop(f)
      <3>1. \E g : Loop(g)
        BY <2>1, LoopExists
      <3>. QED BY <3>1
    <2>. HIDE DEF f
    <2>4. \A k \in 0..N : f[k] = IF k = 0 THEN NothingSeen
                                ELSE LoopRound(f[k - 1], k, tx, e, evaluable)
      BY <2>3, Zenon DEF Loops
    <2>5. 0 \in G
      <3>1. 0 \in 0..N /\ f[0] = NothingSeen
        BY <2>1, <2>4
      <3>2. SeenRight(NothingSeen, 0, tx, e, evaluable)
        BY DEF SeenRight, NothingSeen
      <3>. QED BY <3>1, <3>2
    <2>6. ASSUME NEW k \in 0..N, k # N, k \in G PROVE k + 1 \in G
      <3>1. k + 1 \in 0..N /\ k + 1 \in DOMAIN rules /\ k + 1 # 0 /\ (k + 1) - 1 = k
        <4>. HIDE DEF G, N
        <4>. QED BY <2>1, <2>6
      <3>2. f[k + 1] = LoopRound(f[k], k + 1, tx, e, evaluable)
        BY <2>4, <3>1
      <3>3. SeenRight(f[k], (k + 1) - 1, tx, e, evaluable)
        BY <2>6, <3>1
      <3>4. Right(k + 1)
        BY <2>1, <3>1, <3>2, <3>3, RoundRight
      <3>. QED BY <3>1, <3>4
    <2>7. Right(N)
      <3>. HIDE DEF G
      <3>1. \A k \in 0..N : k \in G
        BY <2>1, <2>5, <2>6, IntervalInduction
      <3>2. N \in G
        BY <2>1, <3>1
      <3>. QED BY <3>2 DEF G
    <2>. DEFINE s == f[N]
               Gov(j) == Governs(j, tx, e, evaluable)
    <2>8. /\ s \in [on : BOOLEAN, failed : 0..N, governing : 0..N]
          /\ s.governing # 0 => Gov(s.governing)
          /\ s.governing = 0 => \A j \in DOMAIN rules : ~Gov(j)
      <3>1. s.on => \A j \in DOMAIN rules : ~Gov(j)
        BY <2>1, <2>7 DEF SeenRight, Governs
      <3>. QED BY <2>7, <3>1 DEF SeenRight
    <2>9. ASSUME NEW j \in DOMAIN rules, NEW k \in DOMAIN rules, Gov(j), Gov(k) PROVE j = k
      <3>1. ~(j < k) /\ ~(k < j)
        BY <2>1, <2>9 DEF Governs
      <3>. QED BY <2>1, <3>1
    <2>. HIDE DEF s, Gov
    <2>10. s.governing \in 0..N
      BY <2>8
    <2>11. (s.governing = i) <=> Gov(i)
      <3>1. CASE s.governing = 0
        BY <2>1, <2>8, <3>1
      <3>2. CASE s.governing # 0
        BY <2>1, <2>8, <2>9, <2>10, <3>2
      <3>. QED BY <3>1, <3>2
    <2>. QED BY <2>2, <2>11 DEF s, Gov
  <1>2. TypeOK => LoopFindsGoverning
    BY <1>1 DEF LoopFindsGoverning
  <1>. QED BY <1>2, GuardTypeCorrect, PTL

=============================================================================
