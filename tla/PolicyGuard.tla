----------------------------- MODULE PolicyGuard -----------------------------
(***************************************************************************)
(* SafePolicyGuardV2.sol for one vault: an ordered list of rules that a    *)
(* transaction of the vault must pass before it executes.                  *)
(*                                                                         *)
(* The Safe is external: its owners change by its own transactions, which  *)
(* the guard lets through; owners approve transaction hashes, which bind a *)
(* nonce; anybody may execute what the threshold signed.  A transaction    *)
(* that the guard refuses reverts, nonce included, so it is not a step.    *)
(***************************************************************************)
EXTENDS Integers, Sequences, FiniteSets, SequencesExt

CONSTANTS
  People,         \* who may be an owner or an approver
  Executors,      \* who may send the transaction to the Safe
  Guard,          \* the guard's address
  Native, AnyAsset, \* the assets that are no ERC-20
  Txs,            \* transactions that may be proposed
  Hashes,         \* owner, transaction, nonce: the hashes owners may approve
  OwnerSets,      \* what the owners of the vault may become
  Policies,       \* rule lists that setRules may be called with
  Cooldowns,      \* and cooldowns
  Window,         \* WINDOW
  MaxRules,       \* MAX_RULES
  MaxCooldown,    \* MAX_COOLDOWN
  Uint128Max,     \* the largest window counter
  Start,          \* time of deployment
  MaxTime,        \* bound on the clock
  MaxNonce        \* bound on the vault's transactions

TxRecords == [to : STRING, value : Nat, isToken : BOOLEAN, amount : Nat, recipient : STRING,
              delegate : BOOLEAN, refund : BOOLEAN]

RuleRecords == [asset : STRING, perTx : 0..Uint128Max, window : 0..Uint128Max, required : Nat, banded : BOOLEAN,
                approvers : SUBSET People, targets : Seq(STRING)]

ASSUME GuardAssumption ==
  /\ Txs \subseteq TxRecords /\ \A tx \in Txs : tx.to = Guard => tx.value > 0
  /\ Hashes \subseteq People \X Txs \X Nat
  /\ OwnerSets \subseteq SUBSET People
  /\ IsFiniteSet(People)
  /\ Policies \subseteq Seq(RuleRecords) /\ Cooldowns \subseteq Nat
  /\ Window \in Nat \ {0} /\ MaxRules \in Nat /\ MaxCooldown \in Nat /\ Uint128Max \in Nat
  /\ Start \in Nat /\ Start >= Window /\ Start >= MaxCooldown
  /\ MaxTime \in Nat /\ MaxNonce \in Nat

VARIABLES
  now,            \* block.timestamp
  rules,          \* _rules
  acc,            \* _accounting, by rule number
  cooldown,       \* _meta
  lastCountedTxAt,
  rulesVersion,
  hasApproverRules,
  owners,         \* the Safe
  nonce,
  approved,       \* approvedHashes: owner, transaction and nonce
  ledger          \* history: what the rules let through

metaVars == <<cooldown, lastCountedTxAt, rulesVersion, hasApproverRules>>
guardVars == <<rules, acc, metaVars>>
vars == <<now, guardVars, owners, nonce, approved, ledger>>

NoSpend == [spent |-> 0, start |-> 0]

Init ==
  /\ now = Start
  /\ rules = <<>> /\ acc = [i \in 1..MaxRules |-> NoSpend]
  /\ cooldown = 0 /\ lastCountedTxAt = 0 /\ rulesVersion = 0 /\ hasApproverRules = FALSE
  /\ owners = People /\ nonce = 0 /\ approved = {}
  /\ ledger = <<>>

-----------------------------------------------------------------------------
\* setRules

\* The checks of _appendRule, but for the lengths of the lists.
ValidRule(r) ==
  /\ r.banded => r.perTx # 0
  /\ r.approvers = {} => r.required = 0
  /\ r.required <= Cardinality(r.approvers)
  /\ IsInjective(r.targets)

\* _appendRule: no number of approvals means all of them.
Appended(r) ==
  [asset |-> r.asset, perTx |-> r.perTx, window |-> r.window,
   required |-> IF r.required = 0 THEN Cardinality(r.approvers) ELSE r.required,
   banded |-> r.banded, approvers |-> r.approvers, targets |-> r.targets]

\* Mutant: the windows of the new list are cleared, not those of the old one.
SetRules_ClearsNew(policy, cd) ==
  /\ nonce < MaxNonce
  /\ Len(policy) <= MaxRules /\ cd <= MaxCooldown
  /\ \A i \in DOMAIN policy : ValidRule(policy[i])
  /\ rules' = [i \in DOMAIN policy |-> Appended(policy[i])]
  /\ acc' = [i \in 1..MaxRules |-> IF i \in DOMAIN policy THEN NoSpend ELSE acc[i]]
  /\ cooldown' = cd /\ rulesVersion' = rulesVersion + 1
  /\ hasApproverRules' = \E i \in DOMAIN policy : policy[i].approvers # {}
  /\ nonce' = nonce + 1
  /\ UNCHANGED <<now, lastCountedTxAt, owners, approved, ledger>>

\* Mutant: the cache is computed from the list that is replaced.
SetRules_OldCache(policy, cd) ==
  /\ nonce < MaxNonce
  /\ Len(policy) <= MaxRules /\ cd <= MaxCooldown
  /\ \A i \in DOMAIN policy : ValidRule(policy[i])
  /\ rules' = [i \in DOMAIN policy |-> Appended(policy[i])]
  /\ acc' = [i \in 1..MaxRules |-> IF i \in DOMAIN rules THEN NoSpend ELSE acc[i]]
  /\ cooldown' = cd /\ rulesVersion' = rulesVersion + 1
  /\ hasApproverRules' = \E i \in DOMAIN rules : rules[i].approvers # {}
  /\ nonce' = nonce + 1
  /\ UNCHANGED <<now, lastCountedTxAt, owners, approved, ledger>>

\* setRules, a transaction of the vault to the guard.
SetRules(policy, cd) ==
  /\ nonce < MaxNonce
  /\ Len(policy) <= MaxRules /\ cd <= MaxCooldown
  /\ \A i \in DOMAIN policy : ValidRule(policy[i])
  /\ rules' = [i \in DOMAIN policy |-> Appended(policy[i])]
  /\ acc' = [i \in 1..MaxRules |-> IF i \in DOMAIN rules THEN NoSpend ELSE acc[i]]
  /\ cooldown' = cd /\ rulesVersion' = rulesVersion + 1
  /\ hasApproverRules' = \E i \in DOMAIN policy : policy[i].approvers # {}
  /\ nonce' = nonce + 1
  /\ UNCHANGED <<now, lastCountedTxAt, owners, approved, ledger>>

-----------------------------------------------------------------------------
\* Which rule governs.

Counted(tx) == tx.value > 0 \/ tx.isToken

\* _scopeMatches: asset, amount band, destinations.
AssetMatches(r, tx) ==
  \/ r.asset = AnyAsset
  \/ r.asset = Native /\ tx.value > 0 /\ ~tx.isToken
  \/ r.asset # Native /\ tx.isToken /\ tx.to = r.asset /\ tx.value = 0

BandMatches(r, tx) ==
  r.banded => tx.value <= r.perTx /\ (tx.isToken => tx.amount <= r.perTx)

TargetMatches(r, tx) ==
  r.targets # <<>> =>
    /\ tx.isToken => tx.recipient \in Range(r.targets)
    /\ (~tx.isToken \/ tx.value > 0) => tx.to \in Range(r.targets)

ScopeMatches(r, tx) == AssetMatches(r, tx) /\ BandMatches(r, tx) /\ TargetMatches(r, tx)

\* _scopeEquals
ScopeEquals(r, s) ==
  /\ r.asset = s.asset /\ r.banded = s.banded
  /\ r.banded => r.perTx = s.perTx
  /\ r.targets = s.targets

\* The executor counts, and an approval of this transaction at this nonce: the
\* guard asks for nonce - 1 after the Safe counted it up.
Signed(o, tx, e) == o = e \/ <<o, tx, nonce>> \in approved

\* Mutant: an approver who is no owner any more still counts.
Enough_FormerOwners(r, tx, e, evaluable) ==
  \/ r.required = 0
  \/ evaluable /\ Cardinality({o \in r.approvers : Signed(o, tx, e)}) >= r.required

\* _countApprovals: only approvers who are owners now.
Enough(r, tx, e, evaluable) ==
  \/ r.required = 0
  \/ evaluable /\ Cardinality({o \in r.approvers \cap owners : Signed(o, tx, e)}) >= r.required

\* Mutant: any later match may take over.
LoopRound_AnyScope(seen, i, tx, e, evaluable) ==
  IF ~seen.on \/ ~ScopeMatches(rules[i], tx) THEN seen
  ELSE IF Enough(rules[i], tx, e, evaluable)
       THEN [on |-> FALSE, failed |-> seen.failed, governing |-> i]
  ELSE [on |-> TRUE, failed |-> IF seen.failed = 0 THEN i ELSE seen.failed, governing |-> 0]

\* One round of the loop of _evaluate, after seen.  It stops at a rule that
\* governs, or at one whose scope is not that of the first failure.
LoopRound(seen, i, tx, e, evaluable) ==
  IF ~seen.on \/ ~ScopeMatches(rules[i], tx) THEN seen
  ELSE IF seen.failed # 0 /\ ~ScopeEquals(rules[seen.failed], rules[i])
       THEN [on |-> FALSE, failed |-> seen.failed, governing |-> 0]
  ELSE IF Enough(rules[i], tx, e, evaluable)
       THEN [on |-> FALSE, failed |-> seen.failed, governing |-> i]
  ELSE [on |-> TRUE, failed |-> IF seen.failed = 0 THEN i ELSE seen.failed, governing |-> 0]

NothingSeen == [on |-> TRUE, failed |-> 0, governing |-> 0]

\* The loop: the rule that governs, or 0.
Scan(tx, e, evaluable) ==
  LET after[i \in 0..Len(rules)] ==
        IF i = 0 THEN NothingSeen ELSE LoopRound(after[i - 1], i, tx, e, evaluable)
  IN after[Len(rules)].governing

\* The same as a set of rules: i matches and is approved, no earlier match is,
\* and all of them have one scope.
Governs(i, tx, e, evaluable) ==
  /\ ScopeMatches(rules[i], tx) /\ Enough(rules[i], tx, e, evaluable)
  /\ \A j \in 1..(i - 1) :
       ScopeMatches(rules[j], tx) =>
         ~Enough(rules[j], tx, e, evaluable) /\ ScopeEquals(rules[j], rules[i])

-----------------------------------------------------------------------------
\* Limits.

WindowOver(i) == now >= acc[i].start + Window

\* _remaining, of what _checkLeg takes for spent.
Remaining(i) ==
  LET spent == IF WindowOver(i) THEN 0 ELSE acc[i].spent
  IN IF spent >= rules[i].window THEN 0 ELSE rules[i].window - spent

\* Mutant: it is enough that the limit was not reached before.
LegAllowed_NotFull(i, amount) ==
  /\ rules[i].perTx > 0 => amount <= rules[i].perTx
  /\ rules[i].window > 0 => Remaining(i) > 0

\* _checkLeg
LegAllowed(i, amount) ==
  /\ rules[i].perTx > 0 => amount <= rules[i].perTx
  /\ rules[i].window > 0 => amount <= Remaining(i)

\* _checkLimits: each leg on its own, before either is counted.
LimitsAllow(i, tx) ==
  /\ tx.value > 0 => LegAllowed(i, tx.value)
  /\ tx.isToken => LegAllowed(i, tx.amount)

\* Mutant: the cooldown is over one second early.
CooldownOver_Early(tx) == Counted(tx) /\ cooldown > 0 => now + 1 >= lastCountedTxAt + cooldown

CooldownOver(tx) == Counted(tx) /\ cooldown > 0 => now >= lastCountedTxAt + cooldown

\* A transaction to the guard carries no value, with rules or without: what
\* setRules is, and the only way past the rules besides the vault's own
\* management (ChangeOwners).
ValueToGuard(tx) == tx.to = Guard /\ tx.value > 0

\* _preCheck of the others.
HardDenied(tx, refund) == ValueToGuard(tx) \/ tx.delegate \/ refund

\* _evaluate after _preCheck: what the guard lets through with rules set.
Allowed(i, tx, e, evaluable, refund) ==
  /\ ~HardDenied(tx, refund)
  /\ Governs(i, tx, e, evaluable)
  /\ CooldownOver(tx)
  /\ LimitsAllow(i, tx)

\* _commitSpend, for the legs one after the other: the second one falls in the
\* window the first one began.
Moved(tx) == tx.value + (IF tx.isToken THEN tx.amount ELSE 0)

Spent(i, tx) ==
  IF WindowOver(i) THEN [spent |-> Moved(tx), start |-> now]
                   ELSE [spent |-> acc[i].spent + Moved(tx), start |-> acc[i].start]

\* The addition is checked: a counter that overflows reverts the transaction.
Fits(i, tx) == Counted(tx) /\ rules[i].window > 0 => Spent(i, tx).spent <= Uint128Max

\* What checkTransaction lets through by rule i.
Enforced(i, tx, e) == Allowed(i, tx, e, hasApproverRules, tx.refund) /\ Fits(i, tx)

\* _commitAccounting
Commit(i, tx) ==
  /\ lastCountedTxAt' = IF Counted(tx) /\ cooldown > 0 THEN now ELSE lastCountedTxAt
  /\ acc' = IF Counted(tx) /\ rules[i].window > 0
            THEN [acc EXCEPT ![i] = Spent(i, tx)] ELSE acc

\* History: what the guard let through, for whom and when, with the owners who
\* stand behind it.
Entry(i, tx, e) ==
  [tx |-> tx, rule |-> i, version |-> rulesVersion, at |-> now, cooldown |-> cooldown,
   signers |-> {o \in owners : o = e \/ <<o, tx, nonce>> \in approved}]

\* checkTransaction
CheckTransaction(tx, e) ==
  /\ nonce < MaxNonce
  /\ \E i \in DOMAIN rules :
       /\ Enforced(i, tx, e)
       /\ Commit(i, tx)
       /\ ledger' = Append(ledger, Entry(i, tx, e))
  /\ nonce' = nonce + 1
  /\ UNCHANGED <<now, rules, cooldown, rulesVersion, hasApproverRules, owners, approved>>

\* previewTransaction, with the approved hash or without one.
Preview(tx, e, hash) ==
  /\ ~ValueToGuard(tx)
  /\ rules = <<>> \/ \E i \in DOMAIN rules : Allowed(i, tx, e, hash, FALSE)

-----------------------------------------------------------------------------
\* The vault.

\* A vault without rules is hardly restricted.
Unguarded ==
  /\ rules = <<>> /\ nonce < MaxNonce
  /\ \E tx \in Txs : ~ValueToGuard(tx)
  /\ nonce' = nonce + 1
  /\ UNCHANGED <<now, guardVars, owners, approved, ledger>>

\* A transaction of the Safe to itself.
ChangeOwners(S) ==
  /\ nonce < MaxNonce
  /\ owners' = S /\ nonce' = nonce + 1
  /\ UNCHANGED <<now, guardVars, approved, ledger>>

ApproveHash(h) ==
  /\ h[1] \in owners
  /\ approved' = approved \cup {h}
  /\ UNCHANGED <<now, guardVars, owners, nonce, ledger>>

Tick ==
  /\ now < MaxTime
  /\ now' = now + 1
  /\ UNCHANGED <<guardVars, owners, nonce, approved, ledger>>

Next ==
  \/ \E policy \in Policies, cd \in Cooldowns : SetRules(policy, cd)
  \/ \E tx \in Txs, e \in Executors : CheckTransaction(tx, e)
  \/ Unguarded
  \/ \E S \in OwnerSets : ChangeOwners(S)
  \/ \E h \in Hashes : ApproveHash(h)
  \/ Tick

Spec == Init /\ [][Next]_vars

-----------------------------------------------------------------------------
Entries == [tx : Txs, rule : 1..MaxRules, version : Nat, at : Nat, cooldown : Nat,
            signers : SUBSET People]

\* The types; a window counter never leaves its width.
TypeOK ==
  /\ now \in Nat
  /\ rules \in Seq(RuleRecords) /\ Len(rules) <= MaxRules
  /\ acc \in [1..MaxRules -> [spent : 0..Uint128Max, start : Nat]]
  /\ cooldown \in Nat /\ lastCountedTxAt \in Nat /\ rulesVersion \in Nat
  /\ hasApproverRules \in BOOLEAN
  /\ owners \subseteq People /\ nonce \in Nat
  /\ approved \subseteq Hashes
  /\ ledger \in Seq(Entries)

\* What the current list let through by rule i at the times in T.
SpentBy(i, T) ==
  SumFunction([k \in DOMAIN ledger |->
                 IF ledger[k].version = rulesVersion /\ ledger[k].rule = i /\ ledger[k].at \in T
                 THEN Moved(ledger[k].tx) ELSE 0])

\* The counter of a rule is what it let through since its window began, under
\* the list in force: a list that was replaced leaves nothing behind, and a
\* window that is over leaves nothing either.
AccountingExact ==
  \A i \in 1..MaxRules :
    IF i \in DOMAIN rules /\ rules[i].window > 0
    THEN acc[i].spent = SpentBy(i, acc[i].start..now)
         /\ acc[i].spent = SpentBy(i, acc[i].start..(acc[i].start + Window - 1))
    ELSE acc[i] = NoSpend

\* A rule on any asset governs transactions of two legs, each of which is
\* checked before either is counted.
Ceiling(r) == IF r.asset = AnyAsset THEN 2 * r.window ELSE r.window

\* No rule lets more than its limit through in the window it counts, twice the
\* limit if it is on any asset; nor more than twice that in any time as long as
\* a window.
WindowCapped ==
  \A i \in DOMAIN rules :
    rules[i].window > 0 =>
      /\ acc[i].spent <= Ceiling(rules[i])
      /\ \A t \in Start..now : SpentBy(i, t..(t + Window - 1)) <= 2 * Ceiling(rules[i])

\* Two movements of funds are a cooldown apart, whichever rules governed them
\* and although the list was replaced in between, as long as a cooldown was in
\* force at both.
CooldownSpaced ==
  \A k, l \in DOMAIN ledger :
    (k < l /\ Counted(ledger[k].tx) /\ Counted(ledger[l].tx) /\ ledger[k].cooldown > 0) =>
      ledger[l].at >= ledger[k].at + ledger[l].cooldown

\* Whatever a rule with approvers let through had so many of them behind it:
\* owners at that moment, who approved this transaction at this nonce or sent it.
ApproversStandBehind ==
  \A k \in DOMAIN ledger :
    LET x == ledger[k]
    IN x.version = rulesVersion =>
         Cardinality(x.signers \cap rules[x.rule].approvers) >= rules[x.rule].required

\* The loop and its reading as a set of rules agree, on every transaction, with
\* and without approvals.
LoopFindsGoverning ==
  \A tx \in Txs, e \in Executors, evaluable \in BOOLEAN :
    LET found == Scan(tx, e, evaluable)
    IN \A i \in DOMAIN rules : (found = i) <=> Governs(i, tx, e, evaluable)

\* The preview leaves out the checked addition of _commitSpend, which can revert
\* only what moves two assets at once, by a rule whose limit is more than half
\* of the counter's range.
MayOverflow(i, tx) == tx.value > 0 /\ tx.isToken /\ 2 * rules[i].window > Uint128Max

\* The preview of an approved transaction says what enforcement will do, which
\* skips the approvals when the cache says that no rule has approvers: it
\* misses nothing that enforcement allows, and allows nothing that enforcement
\* denies, an overflow of two legs apart.
PreviewIsTwin ==
  rules # <<>> =>
    \A tx \in Txs, e \in Executors :
      ~tx.refund =>
        /\ (\E i \in DOMAIN rules : Enforced(i, tx, e)) => Preview(tx, e, TRUE)
        /\ Preview(tx, e, TRUE) =>
             \E i \in DOMAIN rules :
               \/ Enforced(i, tx, e)
               \/ Allowed(i, tx, e, hasApproverRules, tx.refund) /\ MayOverflow(i, tx)

\* What the comment in _countApprovals says: a preview without the hash never
\* says allowed where enforcement would deny.
PreviewConservative ==
  rules # <<>> =>
    \A tx \in Txs, e \in Executors :
      (~tx.refund /\ Preview(tx, e, FALSE)) => \E i \in DOMAIN rules : Enforced(i, tx, e)

=============================================================================
