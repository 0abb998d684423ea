------------------------ MODULE BridgeTrackerProofs ------------------------
(***************************************************************************)
(* Proofs about BridgeTracker, for any number of devices and polls.        *)
(*                                                                         *)
(* The properties rest on the shape of a device's ledger.  Its records are *)
(* ordered, a record only supersedes an earlier one, and never one with an *)
(* outcome.  That is preserved by an append, whose record comes last, and  *)
(* by a restored history, whose new records come after the device's own in *)
(* the order they had; the provers do no induction over data, so that each *)
(* set of records has a last one is part of the invariant.                 *)
(***************************************************************************)
EXTENDS BridgeTracker, TLAPS

\* No record supersedes an outcome.
OutcomesKept == \A d \in Devices : \A r \in store[d] : r.supersedes \notin Terminal

\* The order is one of the records of the device,
OrderWithin == \A d \in Devices : before[d] \subseteq Ids(d) \X Ids(d)

\* of two records only one is the earlier one,
OrderAsymmetric ==
  \A d \in Devices : \A x, y \in States : <<x, y>> \in before[d] => <<y, x>> \notin before[d]

\* and every set of records has a last one.
HasLast(S, order) == \E l \in S : \A t \in S \ {l} : <<t, l>> \in order

LastExists == \A d \in Devices : \A S \in SUBSET Ids(d) : S # {} => HasLast(S, before[d])

\* A record comes after the one it supersedes.
SupersedesEarlier ==
  \A d \in Devices : \A r \in store[d] :
    r.supersedes = "none" \/ <<r.supersedes, r.state>> \in before[d]

Ledger == OutcomesKept /\ OrderWithin /\ OrderAsymmetric /\ LastExists /\ SupersedesEarlier

Inv == TypeOK /\ HonestOutcome /\ Ledger

-----------------------------------------------------------------------------
\* What a step does to the ledgers: nothing,
LedgerSame == UNCHANGED ledgerVars

\* one device appends a record,
Appended(d, s, sup) ==
  /\ s \in States \ Ids(d)
  /\ sup = "none" \/ sup \in Ids(d) \ Terminal
  /\ store' = [store EXCEPT ![d] = @ \cup {[state |-> s, supersedes |-> sup]}]
  /\ before' = [before EXCEPT ![d] = @ \cup (Ids(d) \X {s})]

\* or one device takes over records of another.
FreshIds(d, e) == Ids(e) \ Ids(d)

Merged(d, e) ==
  /\ store' = [store EXCEPT ![d] = @ \cup {r \in store[e] : r.state \notin Ids(d)}]
  /\ before' = [before EXCEPT ![d] = @ \cup (Ids(d) \X FreshIds(d, e))
                                       \cup (before[e] \cap (FreshIds(d, e) \X FreshIds(d, e)))]

LedgerStep ==
  \/ LedgerSame
  \/ \E d \in Devices, s \in States, sup \in States \cup {"none"} : Appended(d, s, sup)
  \/ \E d, e \in Devices : Merged(d, e)

-----------------------------------------------------------------------------
\* The state machine names a state, and no outcome without evidence for it.
LEMMA DeriveSound ==
  ASSUME NEW from \in Live, NEW evidence, NEW isLate \in BOOLEAN
  PROVE /\ Derive(from, evidence, isLate) \in States
        /\ Derive(from, evidence, isLate) = "delivered" => "filled" \in evidence
        /\ Derive(from, evidence, isLate) = "refunded" => "refunded" \in evidence
        /\ Derive(from, evidence, isLate) = "failed" => "reverted" \in evidence
BY DEF Derive, States, Live, Terminal

\* A record appended to a ledger comes last.
LEMMA AppendStep ==
  ASSUME TypeOK, Ledger,
         NEW d \in Devices, NEW s \in States, NEW sup \in States \cup {"none"},
         Appended(d, s, sup)
  PROVE Ledger'
<1> DEFINE r0 == [state |-> s, supersedes |-> sup]
<1>1. /\ store'[d] = store[d] \cup {r0}
      /\ before'[d] = before[d] \cup (Ids(d) \X {s})
      /\ Ids(d)' = Ids(d) \cup {s}
      /\ \A f \in Devices \ {d} : store'[f] = store[f] /\ before'[f] = before[f] /\ Ids(f)' = Ids(f)
  <2>1. store'[d] = store[d] \cup {r0} /\ before'[d] = before[d] \cup (Ids(d) \X {s})
    BY DEF Appended, TypeOK
  <2>2. \A f \in Devices \ {d} : store'[f] = store[f] /\ before'[f] = before[f]
    BY DEF Appended, TypeOK
  <2>3. Ids(d)' = Ids(d) \cup {s}
    <3>1. Ids(d)' = {r.state : r \in store[d] \cup {r0}} BY <2>1 DEF Ids
    <3>2. r0.state = s OBVIOUS
    <3> QED BY <3>1, <3>2 DEF Ids
  <2>4. \A f \in Devices \ {d} : Ids(f)' = Ids(f)
    BY <2>2 DEF Ids
  <2> QED BY <2>1, <2>2, <2>3, <2>4
<1>2. Ids(d) \subseteq States /\ s \notin Ids(d)
  BY DEF TypeOK, Ids, Records, Appended
<1>3. OutcomesKept'
  <2> SUFFICES ASSUME NEW f \in Devices, NEW r \in store'[f] PROVE r.supersedes \notin Terminal
    BY DEF OutcomesKept
  <2>1. CASE f # d
    BY <2>1, <1>1 DEF Ledger, OutcomesKept
  <2>2. CASE f = d /\ r \in store[d]
    BY <2>2 DEF Ledger, OutcomesKept
  <2>3. CASE f = d /\ r = r0
    BY <2>3 DEF Appended, Terminal
  <2> QED BY <2>1, <2>2, <2>3, <1>1
<1>4. OrderWithin'
  BY <1>1 DEF Ledger, OrderWithin
<1>5. OrderAsymmetric'
  <2> SUFFICES ASSUME NEW f \in Devices, NEW x \in States, NEW y \in States,
                      <<x, y>> \in before'[f], <<y, x>> \in before'[f]
               PROVE FALSE
    BY DEF OrderAsymmetric
  <2>1. f = d
    BY <1>1 DEF Ledger, OrderAsymmetric
  <2>2. <<x, y>> \in before[d] => x \in Ids(d) /\ y \in Ids(d)
    BY DEF Ledger, OrderWithin
  <2>3. <<y, x>> \in before[d] => x \in Ids(d) /\ y \in Ids(d)
    BY DEF Ledger, OrderWithin
  <2> QED BY <2>1, <2>2, <2>3, <1>1, <1>2 DEF Ledger, OrderAsymmetric
<1>6. LastExists'
  <2> SUFFICES ASSUME NEW f \in Devices, NEW S \in SUBSET Ids(f)', S # {}
               PROVE HasLast(S, before'[f])
    BY DEF LastExists
  <2>1. CASE f # d
    BY <2>1, <1>1 DEF Ledger, LastExists
  <2>2. CASE f = d /\ s \in S
    BY <2>2, <1>1 DEF HasLast
  <2>3. CASE f = d /\ s \notin S
    BY <2>3, <1>1 DEF Ledger, LastExists, HasLast
  <2> QED BY <2>1, <2>2, <2>3
<1>7. SupersedesEarlier'
  <2> SUFFICES ASSUME NEW f \in Devices, NEW r \in store'[f], r.supersedes # "none"
               PROVE <<r.supersedes, r.state>> \in before'[f]
    BY DEF SupersedesEarlier
  <2>1. CASE f # d
    BY <2>1, <1>1 DEF Ledger, SupersedesEarlier
  <2>2. CASE f = d /\ r \in store[d]
    BY <2>2, <1>1 DEF Ledger, SupersedesEarlier
  <2>3. CASE f = d /\ r = r0
    BY <2>3, <1>1 DEF Appended
  <2> QED BY <2>1, <2>2, <2>3, <1>1
<1> QED BY <1>3, <1>4, <1>5, <1>6, <1>7 DEF Ledger

\* Records taken over from another device come after a device's own.
LEMMA MergeStep ==
  ASSUME TypeOK, Ledger,
         NEW d \in Devices, NEW e \in Devices, Merged(d, e)
  PROVE Ledger'
<1> DEFINE fresh == {r \in store[e] : r.state \notin Ids(d)}
           ids == FreshIds(d, e)
<1>1. store'[d] = store[d] \cup fresh
  BY DEF Merged, TypeOK
<1>2. before'[d] = before[d] \cup (Ids(d) \X ids) \cup (before[e] \cap (ids \X ids))
  BY DEF Merged, TypeOK
<1>3. \A f \in Devices \ {d} : store'[f] = store[f] /\ before'[f] = before[f]
  BY DEF Merged, TypeOK
<1>4. \A f \in Devices \ {d} : Ids(f)' = Ids(f)
  BY <1>3 DEF Ids
<1>5. Ids(d)' = Ids(d) \cup ids
  <2>1. Ids(d)' = {r.state : r \in store[d] \cup fresh} BY <1>1 DEF Ids
  <2> QED BY <2>1 DEF Ids, FreshIds
<1>6. ids \subseteq Ids(e) /\ ids \cap Ids(d) = {}
  BY DEF FreshIds
<1> HIDE DEF ids
<1>7. OutcomesKept'
  <2> SUFFICES ASSUME NEW f \in Devices, NEW r \in store'[f] PROVE r.supersedes \notin Terminal
    BY DEF OutcomesKept
  <2>1. CASE f # d
    BY <2>1, <1>3 DEF Ledger, OutcomesKept
  <2>2. CASE f = d
    BY <2>2, <1>1 DEF Ledger, OutcomesKept
  <2> QED BY <2>1, <2>2
<1>8. OrderWithin'
  <2> SUFFICES ASSUME NEW f \in Devices PROVE before'[f] \subseteq Ids(f)' \X Ids(f)'
    BY DEF OrderWithin
  <2>1. CASE f # d
    BY <2>1, <1>3, <1>4 DEF Ledger, OrderWithin
  <2>2. CASE f = d
    BY <2>2, <1>2, <1>5 DEF Ledger, OrderWithin
  <2> QED BY <2>1, <2>2
<1>9. OrderAsymmetric'
  <2> SUFFICES ASSUME NEW f \in Devices, NEW x \in States, NEW y \in States,
                      <<x, y>> \in before'[f], <<y, x>> \in before'[f]
               PROVE FALSE
    BY DEF OrderAsymmetric
  <2>1. f = d
    BY <1>3 DEF Ledger, OrderAsymmetric
  <2>2. <<x, y>> \in before[d] => x \in Ids(d) /\ y \in Ids(d)
    BY DEF Ledger, OrderWithin
  <2>3. <<y, x>> \in before[d] => x \in Ids(d) /\ y \in Ids(d)
    BY DEF Ledger, OrderWithin
  <2>4. \/ <<x, y>> \in before[d]
        \/ x \in Ids(d) /\ y \in ids
        \/ <<x, y>> \in before[e] /\ x \in ids /\ y \in ids
    BY <2>1, <1>2
  <2>5. \/ <<y, x>> \in before[d]
        \/ y \in Ids(d) /\ x \in ids
        \/ <<y, x>> \in before[e] /\ x \in ids /\ y \in ids
    BY <2>1, <1>2
  <2> QED BY <2>2, <2>3, <2>4, <2>5, <1>6 DEF Ledger, OrderAsymmetric
<1>10. LastExists'
  <2> SUFFICES ASSUME NEW f \in Devices, NEW S \in SUBSET Ids(f)', S # {}
               PROVE HasLast(S, before'[f])
    BY DEF LastExists
  <2>1. CASE f # d
    BY <2>1, <1>3, <1>4 DEF Ledger, LastExists
  <2>2. CASE f = d /\ S \cap ids # {}
    <3>1. HasLast(S \cap ids, before[e])
      BY <2>2, <1>6 DEF Ledger, LastExists
    <3>2. PICK l \in S \cap ids : \A t \in (S \cap ids) \ {l} : <<t, l>> \in before[e]
      BY <3>1 DEF HasLast
    <3>3. \A t \in S \ {l} : <<t, l>> \in before'[d]
      BY <3>2, <1>2, <1>5, <2>2
    <3> QED BY <3>2, <3>3, <2>2 DEF HasLast
  <2>3. CASE f = d /\ S \cap ids = {}
    <3>1. HasLast(S, before[d])
      BY <2>3, <1>5 DEF Ledger, LastExists
    <3> QED BY <3>1, <2>3, <1>2 DEF HasLast
  <2> QED BY <2>1, <2>2, <2>3
<1>11. SupersedesEarlier'
  <2> SUFFICES ASSUME NEW f \in Devices, NEW r \in store'[f], r.supersedes # "none"
               PROVE <<r.supersedes, r.state>> \in before'[f]
    BY DEF SupersedesEarlier
  <2>1. CASE f # d
    BY <2>1, <1>3 DEF Ledger, SupersedesEarlier
  <2>2. CASE f = d /\ r \in store[d]
    BY <2>2, <1>2 DEF Ledger, SupersedesEarlier
  <2>3. CASE f = d /\ r \in fresh
    <3>1. <<r.supersedes, r.state>> \in before[e]
      BY <2>3 DEF Ledger, SupersedesEarlier
    <3>2. r.supersedes \in Ids(e) /\ r.state \in Ids(e)
      BY <3>1 DEF Ledger, OrderWithin
    <3>3. r.state \in ids
      BY <2>3, <3>2 DEF ids, FreshIds
    <3>4. r.supersedes \in ids \/ r.supersedes \in Ids(d)
      BY <3>2 DEF ids, FreshIds
    <3> QED BY <3>1, <3>3, <3>4, <1>2, <2>3
  <2> QED BY <2>1, <2>2, <2>3, <1>1
<1> QED BY <1>7, <1>8, <1>9, <1>10, <1>11 DEF Ledger

-----------------------------------------------------------------------------
\* Every effect of a step on the ledgers keeps their shape.
LEMMA LedgerKept ==
  ASSUME TypeOK, Ledger, LedgerStep
  PROVE Ledger'
<1>1. CASE LedgerSame
  <2>1. \A d \in Devices : Ids(d)' = Ids(d)
    BY <1>1 DEF LedgerSame, ledgerVars, Ids
  <2>2. store' = store /\ before' = before
    BY <1>1 DEF LedgerSame, ledgerVars
  <2> QED BY <2>1, <2>2 DEF Ledger, OutcomesKept, OrderWithin, OrderAsymmetric, LastExists,
                           SupersedesEarlier
<1>2. ASSUME NEW d \in Devices, NEW s \in States, NEW sup \in States \cup {"none"},
             Appended(d, s, sup)
      PROVE Ledger'
  BY <1>2, AppendStep
<1>3. ASSUME NEW d \in Devices, NEW e \in Devices, Merged(d, e) PROVE Ledger'
  BY <1>3, MergeStep
<1> QED BY <1>1, <1>2, <1>3 DEF LedgerStep

\* A step that reports honestly: outcomes stay true, and a new record or
\* notification is one of another device or states what happened.
LEMMA StaysHonest ==
  ASSUME HonestOutcome, facts \subseteq facts',
         \A d \in Devices : \A s \in Ids(d)' \cup {told'} :
           \/ Happened(s)'
           \/ \E e \in Devices : s \in Ids(e) \cup {told}
  PROVE HonestOutcome'
BY DEF HonestOutcome, Happened

\* The invariant holds before the transfer is sent.
LEMMA InitInv == BridgeAssumption /\ Init => Inv
<1> SUFFICES ASSUME BridgeAssumption, Init PROVE Inv
  OBVIOUS
<1>1. \A d \in Devices : store[d] = {} /\ before[d] = {} /\ told = "none"
  BY DEF Init
<1>2. \A d \in Devices : Ids(d) = {}
  BY <1>1 DEF Ids
<1>3. Idle \in PollRecords
  BY DEF Idle, PollRecords, Live
<1>4. TypeOK
  BY <1>3 DEF Init, TypeOK, Facts
<1>5. HonestOutcome
  BY <1>1, <1>2 DEF HonestOutcome, Happened
<1>6. Ledger
  BY <1>1, <1>2 DEF Ledger, OutcomesKept, OrderWithin, OrderAsymmetric, LastExists, SupersedesEarlier
<1> QED BY <1>4, <1>5, <1>6 DEF Inv

-----------------------------------------------------------------------------
\* Evidence of what happened.
Supported(evidence) == evidence \cap Facts \subseteq facts

\* A poll ends: what it writes follows from its evidence.
LEMMA SettleStep ==
  ASSUME BridgeAssumption, Inv, NEW p \in Polls, NEW evidence, NEW isLate \in BOOLEAN,
         Supported(evidence), Settle(p, evidence, isLate)
  PROVE TypeOK' /\ HonestOutcome' /\ LedgerStep
<1> DEFINE d == DeviceOf[p]
           s == Derive(poll[p].from, evidence, isLate)
<1>1. d \in Devices /\ poll[p].from \in Live
  BY DEF BridgeAssumption, Inv, TypeOK, PollRecords
<1>2. s \in States
  BY <1>1, DeriveSound
<1>3. Happened(s)
  BY <1>1, DeriveSound DEF Supported, Happened, Facts
<1> HIDE DEF s
<1>4. UNCHANGED worldVars /\ poll' = [poll EXCEPT ![p] = Idle]
  BY DEF Settle
<1>5. facts' = facts /\ expired' = expired /\ late' = late
  BY <1>4 DEF worldVars
<1>6. Idle \in PollRecords
  BY DEF Idle, PollRecords, Live
<1>7. poll' \in [Polls -> PollRecords]
  BY <1>4, <1>6 DEF Inv, TypeOK
<1>8. \A t : t = s => Happened(t)'
  BY <1>3, <1>5 DEF Happened
<1>9. CASE UNCHANGED <<ledgerVars, told>>
  <2>1. store' = store /\ before' = before /\ told' = told
    BY <1>9 DEF ledgerVars
  <2>2. TypeOK'
    BY <2>1, <1>5, <1>7 DEF Inv, TypeOK
  <2>3. HonestOutcome'
    BY <2>1, <1>5 DEF Inv, HonestOutcome, Happened, Ids
  <2> QED BY <2>2, <2>3, <1>9 DEF LedgerStep, LedgerSame
<1>10. CASE \E c \in States : IsCurrent(d, c) /\ Writable(s, c) /\ AppendRecord(d, s, c) /\ Queue(s)
  <2>1. PICK c \in States : IsCurrent(d, c) /\ Writable(s, c) /\ AppendRecord(d, s, c) /\ Queue(s)
    BY <1>10
  <2>2. told' \in Notified \cup {"none"} /\ told' \in {told, s}
    BY <2>1 DEF Queue, Inv, TypeOK
  <2>3. LedgerSame \/ Appended(d, s, c)
    BY <2>1, <1>2 DEF AppendRecord, Appended, IsCurrent, IsFirst, Tips, Writable, LedgerSame
  <2>4. LedgerStep
    BY <2>3, <1>1, <1>2 DEF LedgerStep
  <2>5. /\ store' \in [Devices -> SUBSET Records]
        /\ before' \in [Devices -> SUBSET (States \X States)]
    <3>1. CASE LedgerSame
      BY <3>1 DEF LedgerSame, ledgerVars, Inv, TypeOK
    <3>2. CASE Appended(d, s, c)
      <4>1. [state |-> s, supersedes |-> c] \in Records
        BY <1>2 DEF Records
      <4>2. Ids(d) \subseteq States
        BY <1>1 DEF Inv, TypeOK, Ids, Records
      <4> QED BY <3>2, <4>1, <4>2, <1>1, <1>2 DEF Appended, Inv, TypeOK
    <3> QED BY <3>1, <3>2, <2>3
  <2>6. TypeOK'
    BY <2>2, <2>5, <1>5, <1>7 DEF Inv, TypeOK
  <2>7. \A f \in Devices : Ids(f)' \subseteq Ids(f) \cup {s}
    <3> SUFFICES ASSUME NEW f \in Devices, NEW r \in store'[f]
                 PROVE r.state \in Ids(f) \cup {s}
      BY DEF Ids
    <3>1. r \in store[f] \/ r = [state |-> s, supersedes |-> c]
      BY <2>3, <1>1 DEF LedgerSame, ledgerVars, Appended, Inv, TypeOK
    <3> QED BY <3>1 DEF Ids
  <2>8. HonestOutcome'
    <3>1. \A f \in Devices : \A t \in Ids(f)' \cup {told'} :
            Happened(t)' \/ \E e \in Devices : t \in Ids(e) \cup {told}
      BY <2>2, <2>7, <1>8
    <3> QED BY <3>1, <1>5, StaysHonest DEF Inv
  <2> QED BY <2>4, <2>6, <2>8
<1> QED BY <1>9, <1>10 DEF Settle, s

-----------------------------------------------------------------------------
\* A step that leaves ledgers and notifications alone.
LEMMA QuietStep ==
  ASSUME Inv, UNCHANGED <<ledgerVars, told>>, facts \subseteq facts', facts' \subseteq Facts,
         expired' \in BOOLEAN, late' \in BOOLEAN, poll' \in [Polls -> PollRecords]
  PROVE TypeOK' /\ HonestOutcome' /\ LedgerStep
<1>1. store' = store /\ before' = before /\ told' = told
  BY DEF ledgerVars
<1>2. TypeOK'
  BY <1>1 DEF Inv, TypeOK
<1>3. \A d \in Devices : Ids(d)' = Ids(d)
  BY <1>1 DEF Ids
<1>4. HonestOutcome'
  BY <1>1, <1>3, StaysHonest DEF Inv
<1> QED BY <1>1, <1>2, <1>4 DEF LedgerStep, LedgerSame, ledgerVars

\* A poll begins, or goes on to its next await.
LEMMA AwaitStep ==
  ASSUME Inv, NEW p \in Polls, NEW pc \in Awaits, NEW from \in Live,
         NEW l \in BOOLEAN, NEW x \in BOOLEAN,
         poll' = [poll EXCEPT ![p] = [pc |-> pc, from |-> from, late |-> l, expired |-> x]],
         UNCHANGED <<worldVars, ledgerVars, told>>
  PROVE TypeOK' /\ HonestOutcome' /\ LedgerStep
<1>1. facts' = facts /\ expired' = expired /\ late' = late
  BY DEF worldVars
<1>2. [pc |-> pc, from |-> from, late |-> l, expired |-> x] \in PollRecords
  BY DEF PollRecords
<1>3. poll' \in [Polls -> PollRecords]
  BY <1>2 DEF Inv, TypeOK
<1>4. UNCHANGED <<ledgerVars, told>>
  OBVIOUS
<1> QED BY <1>1, <1>3, <1>4, QuietStep DEF Inv, TypeOK

\* Every step of a poll keeps the types and the honesty of what is recorded.
LEMMA PollKeeps ==
  ASSUME BridgeAssumption, Inv, NEW p \in Polls, PollStep(p)
  PROVE TypeOK' /\ HonestOutcome' /\ LedgerStep
<1>1. /\ poll[p].from \in Live /\ poll[p].late \in BOOLEAN /\ poll[p].expired \in BOOLEAN
      /\ late \in BOOLEAN /\ expired \in BOOLEAN
  BY DEF Inv, TypeOK, PollRecords
<1>2. CASE List(p)
  <2>1. PICK s \in Live, pc \in {"asking", "reading"} :
          poll' = [poll EXCEPT ![p] = [pc |-> pc, from |-> s, late |-> late, expired |-> FALSE]]
    BY <1>2 DEF List
  <2>2. UNCHANGED <<worldVars, ledgerVars, told>> /\ pc \in Awaits
    BY <1>2 DEF List, Awaits
  <2> QED BY <2>1, <2>2, <1>1, AwaitStep
<1>3. CASE GatewayFails(p)
  <2>1. UNCHANGED <<worldVars, ledgerVars, told>> /\ "reading" \in Awaits
    BY <1>3 DEF GatewayFails, Awaits
  <2>2. poll' = [poll EXCEPT ![p] =
                   [pc |-> "reading", from |-> poll[p].from, late |-> poll[p].late, expired |-> FALSE]]
    BY <1>3 DEF GatewayFails
  <2> QED BY <2>1, <2>2, <1>1, AwaitStep
<1>4. CASE GatewayAnswers(p)
  <2>1. PICK seen \in SUBSET (facts \ {"reverted"}) : Settle(p, {"indexed"} \cup seen, FALSE)
    BY <1>4 DEF GatewayAnswers
  <2>2. Supported({"indexed"} \cup seen)
    BY DEF Supported, Facts
  <2> QED BY <2>1, <2>2, SettleStep
<1>5. CASE GatewayPending(p)
  <2>1. PICK l \in Clock(p), x \in {FALSE, expired} :
          \/ Settle(p, {"indexed"}, FALSE)
          \/ /\ poll' = [poll EXCEPT ![p] =
                           [pc |-> "checking", from |-> poll[p].from, late |-> l, expired |-> x]]
             /\ UNCHANGED <<worldVars, ledgerVars, told>>
    BY <1>5 DEF GatewayPending
  <2>2. l \in BOOLEAN /\ x \in BOOLEAN /\ "checking" \in Awaits
    BY <1>1 DEF Clock, Awaits
  <2>3. Supported({"indexed"})
    BY DEF Supported, Facts
  <2> QED BY <2>1, <2>2, <2>3, <1>1, SettleStep, AwaitStep
<1>6. CASE ChainAnswers(p)
  <2>1. PICK source \in {{}, {"mined"}, {"mined", "indexed"}} \cup
                          IF "reverted" \in facts THEN {{"mined", "reverted"}} ELSE {},
             fill \in SUBSET (facts \cap {"filled"}),
             l \in Clock(p) : Settle(p, source \cup fill, l)
    BY <1>6 DEF ChainAnswers
  <2>2. l \in BOOLEAN
    BY <1>1 DEF Clock
  <2>3. Supported(source \cup fill)
    BY DEF Supported, Facts
  <2> QED BY <2>1, <2>2, <2>3, SettleStep
<1>7. CASE SecondOpinion(p)
  <2>1. PICK fill \in SUBSET (facts \cap {"filled"}) :
          Settle(p, {"indexed"} \cup (IF poll[p].expired THEN {"expired"} ELSE {}) \cup fill, poll[p].late)
    BY <1>7 DEF SecondOpinion
  <2>2. Supported({"indexed"} \cup (IF poll[p].expired THEN {"expired"} ELSE {}) \cup fill)
    BY DEF Supported, Facts
  <2> QED BY <2>1, <2>2, <1>1, SettleStep
<1> QED BY <1>2, <1>3, <1>4, <1>5, <1>6, <1>7 DEF PollStep

\* So does a restored history, whose records were honest where they came from.
LEMMA MergeKeeps ==
  ASSUME Inv, NEW d \in Devices, NEW e \in Devices, Merge(d, e)
  PROVE TypeOK' /\ HonestOutcome' /\ LedgerStep
<1>1. {r.state : r \in {q \in store[e] : q.state \notin Ids(d)}} = FreshIds(d, e)
  BY DEF FreshIds, Ids
<1>2. Merged(d, e)
  BY <1>1 DEF Merge, Merged
<1>3. facts' = facts /\ expired' = expired /\ late' = late /\ told' = told /\ poll' = poll
  BY DEF Merge, worldVars
<1>4. store' \in [Devices -> SUBSET Records]
  BY <1>2 DEF Merged, Inv, TypeOK
<1>5. Ids(d) \subseteq States /\ Ids(e) \subseteq States
  BY DEF Inv, TypeOK, Ids, Records
<1>6. before' \in [Devices -> SUBSET (States \X States)]
  <2>1. Ids(d) \X FreshIds(d, e) \subseteq States \X States
    BY <1>5 DEF FreshIds
  <2> QED BY <1>2, <2>1 DEF Merged, Inv, TypeOK
<1>7. TypeOK'
  BY <1>3, <1>4, <1>6 DEF Inv, TypeOK
<1>8. \A f \in Devices : Ids(f)' \subseteq Ids(f) \cup Ids(e)
  <2> SUFFICES ASSUME NEW f \in Devices, NEW r \in store'[f] PROVE r.state \in Ids(f) \cup Ids(e)
    BY DEF Ids
  <2>1. r \in store[f] \/ r \in store[e]
    BY <1>2 DEF Merged, Inv, TypeOK
  <2> QED BY <2>1 DEF Ids
<1>9. HonestOutcome'
  BY <1>3, <1>8, StaysHonest DEF Inv
<1> QED BY <1>2, <1>7, <1>9 DEF LedgerStep

\* What any step of the tracker does.
LEMMA NextKeeps ==
  ASSUME BridgeAssumption, Inv, [Next]_vars
  PROVE TypeOK' /\ HonestOutcome' /\ LedgerStep
<1>1. CASE Submit
  <2>1. Home \in Devices
    BY DEF BridgeAssumption
  <2>2. facts' = facts /\ expired' = expired /\ late' = late /\ told' = told /\ poll' = poll
    BY <1>1 DEF Submit, worldVars
  <2>3. LedgerSame \/ Appended(Home, "submitted", "none")
    BY <1>1 DEF Submit, AppendRecord, Appended, LedgerSame, States, Live
  <2>4. CASE LedgerSame
    BY <2>2, <2>4, QuietStep DEF LedgerSame, Inv, TypeOK
  <2>5. CASE Appended(Home, "submitted", "none")
    <3>1. [state |-> "submitted", supersedes |-> "none"] \in Records
      BY DEF Records, States, Live
    <3>2. Ids(Home) \subseteq States /\ "submitted" \in States
      BY <2>1 DEF Inv, TypeOK, Ids, Records, States, Live
    <3>3. TypeOK'
      BY <2>2, <2>5, <3>1, <3>2 DEF Appended, Inv, TypeOK
    <3>4. \A f \in Devices : Ids(f)' \subseteq Ids(f) \cup {"submitted"}
      <4> SUFFICES ASSUME NEW f \in Devices, NEW r \in store'[f]
                   PROVE r.state \in Ids(f) \cup {"submitted"}
        BY DEF Ids
      <4>1. r \in store[f] \/ r = [state |-> "submitted", supersedes |-> "none"]
        BY <2>5 DEF Appended, Inv, TypeOK
      <4> QED BY <4>1 DEF Ids
    <3>5. \A t : t = "submitted" => Happened(t)'
      BY DEF Happened
    <3>6. HonestOutcome'
      BY <2>2, <3>4, <3>5, StaysHonest DEF Inv
    <3> QED BY <2>1, <2>5, <3>2, <3>3, <3>6 DEF LedgerStep
  <2> QED BY <2>3, <2>4, <2>5
<1>2. ASSUME NEW p \in Polls, PollStep(p) PROVE TypeOK' /\ HonestOutcome' /\ LedgerStep
  BY <1>2, PollKeeps
<1>3. ASSUME NEW d \in Devices, DeviceStep(d) PROVE TypeOK' /\ HonestOutcome' /\ LedgerStep
  <2>1. CASE Reload(d)
    <3>1. UNCHANGED <<worldVars, ledgerVars, told>>
      BY <2>1 DEF Reload
    <3>2. facts' = facts /\ expired' = expired /\ late' = late
      BY <3>1 DEF worldVars
    <3>3. Idle \in PollRecords
      BY DEF Idle, PollRecords, Live
    <3>4. poll' \in [Polls -> PollRecords]
      BY <2>1, <3>3 DEF Reload, Inv, TypeOK
    <3> QED BY <3>1, <3>2, <3>4, QuietStep DEF Inv, TypeOK
  <2>2. ASSUME NEW e \in Devices, Merge(d, e) PROVE TypeOK' /\ HonestOutcome' /\ LedgerStep
    BY <2>2, MergeKeeps
  <2> QED BY <1>3, <2>1, <2>2 DEF DeviceStep
<1>4. CASE World
  <2>1. UNCHANGED <<ledgerVars, told>> /\ poll' = poll
    BY <1>4 DEF World, Fill, Refund, Revert, Expire, BecomeLate
  <2>2. facts \subseteq facts' /\ facts' \subseteq Facts
    BY <1>4 DEF World, Fill, Refund, Revert, Expire, BecomeLate, Inv, TypeOK, Facts
  <2>3. expired' \in BOOLEAN /\ late' \in BOOLEAN
    BY <1>4 DEF World, Fill, Refund, Revert, Expire, BecomeLate, Inv, TypeOK
  <2> QED BY <2>1, <2>2, <2>3, QuietStep DEF Inv, TypeOK
<1>5. CASE UNCHANGED vars
  <2>1. /\ UNCHANGED <<ledgerVars, told>>
        /\ facts' = facts /\ expired' = expired /\ late' = late /\ poll' = poll
    BY <1>5 DEF vars, worldVars
  <2> QED BY <2>1, QuietStep DEF Inv, TypeOK
<1> QED BY <1>1, <1>2, <1>3, <1>4, <1>5 DEF Next

\* The invariant behind the theorems.
THEOREM BridgeInvariant == Spec => []Inv
<1>1. Init => Inv
  BY InitInv, BridgeAssumption
<1>2. Inv /\ [Next]_vars => Inv'
  <2> SUFFICES ASSUME Inv, [Next]_vars PROVE Inv'
    OBVIOUS
  <2>1. TypeOK' /\ HonestOutcome' /\ LedgerStep
    BY NextKeeps, BridgeAssumption
  <2>2. Ledger'
    BY <2>1, LedgerKept DEF Inv
  <2> QED BY <2>1, <2>2 DEF Inv
<1> QED BY <1>1, <1>2, PTL DEF Spec

\* Every variable of the tracker keeps its type; only the three states worth
\* one are notified (BRIDGE_NOTIFIED_STATES).
THEOREM BridgeTypeCorrect == Spec => []TypeOK
BY BridgeInvariant, PTL DEF Inv

\* deriveBridgeState and captureBridgeState name no outcome that did not
\* happen, whatever was observed late or twice.
THEOREM BridgeHonestOutcome == Spec => []HonestOutcome
BY BridgeInvariant, PTL DEF Inv

\* listClientRecords always finds a record of a captured transfer: the last
\* record of a ledger is superseded by none.
THEOREM BridgeNeverLost == Spec => []NeverLost
<1>1. Inv => NeverLost
  <2> SUFFICES ASSUME Inv, NEW d \in Devices, store[d] # {} PROVE Tips(d) # {}
    BY DEF NeverLost
  <2>1. Ids(d) # {} /\ Ids(d) \subseteq States
    BY DEF Ids, Inv, TypeOK, Records
  <2>2. PICK l \in Ids(d) : \A t \in Ids(d) \ {l} : <<t, l>> \in before[d]
    BY <2>1 DEF Inv, Ledger, LastExists, HasLast
  <2>3. ASSUME NEW r \in store[d], r.supersedes = l PROVE FALSE
    <3>1. l # "none"
      BY <2>1 DEF States, Live, Terminal
    <3>2. <<l, r.state>> \in before[d]
      BY <2>3, <3>1 DEF Inv, Ledger, SupersedesEarlier
    <3>3. r.state \in Ids(d)
      BY DEF Ids
    <3>4. r.state = l \/ <<r.state, l>> \in before[d]
      BY <2>2, <3>3
    <3> QED BY <2>1, <3>2, <3>3, <3>4 DEF Inv, Ledger, OrderAsymmetric
  <2>4. l \in Tips(d)
    BY <2>2, <2>3 DEF Tips
  <2> QED BY <2>4
<1> QED BY <1>1, BridgeInvariant, PTL

\* Outcomes are never superseded, so they are the resolved tips.
LEMMA ResolvedTips ==
  ASSUME OutcomesKept, NEW d \in Devices
  PROVE Tips(d) \cap Terminal = Ids(d) \cap Terminal
BY DEF OutcomesKept, Tips

\* A device lists an outcome when no other outcome comes before it.
LEMMA ListedOutcome ==
  ASSUME OutcomesKept, NEW d \in Devices, NEW s \in Ids(d) \cap Terminal
  PROVE IsListed(d, s) <=> \A t \in (Ids(d) \cap Terminal) \ {s} : <<s, t>> \in before[d]
<1>1. Tips(d) \cap Terminal = Ids(d) \cap Terminal
  BY ResolvedTips
<1>2. Ids(d) \cap Terminal # {}
  OBVIOUS
<1> QED BY <1>1, <1>2 DEF IsListed, IsFirst

\* A step keeps the records and their order, and new records come after them.
LEMMA LedgerGrows ==
  ASSUME TypeOK, LedgerStep, NEW d \in Devices
  PROVE /\ before[d] \subseteq before'[d]
        /\ Ids(d) \subseteq Ids(d)'
        /\ \A s \in Ids(d), t \in Ids(d)' \ Ids(d) : <<s, t>> \in before'[d]
<1>1. CASE LedgerSame
  BY <1>1 DEF LedgerSame, ledgerVars, Ids
<1>2. ASSUME NEW f \in Devices, NEW s \in States, NEW sup \in States \cup {"none"},
             Appended(f, s, sup)
      PROVE /\ before[d] \subseteq before'[d]
            /\ Ids(d) \subseteq Ids(d)'
            /\ \A x \in Ids(d), t \in Ids(d)' \ Ids(d) : <<x, t>> \in before'[d]
  <2>1. store[d] \subseteq store'[d] /\ before[d] \subseteq before'[d]
    BY <1>2 DEF Appended, TypeOK
  <2>2. Ids(d) \subseteq Ids(d)'
    BY <2>1 DEF Ids
  <2>3. CASE d # f
    <3>1. store'[d] = store[d]
      BY <1>2, <2>3 DEF Appended, TypeOK
    <3>2. Ids(d)' = Ids(d)
      BY <3>1 DEF Ids
    <3> QED BY <2>1, <3>2
  <2>4. CASE d = f
    <3>1. store'[d] = store[d] \cup {[state |-> s, supersedes |-> sup]}
      BY <1>2, <2>4 DEF Appended, TypeOK
    <3>2. before'[d] = before[d] \cup (Ids(d) \X {s})
      BY <1>2, <2>4 DEF Appended, TypeOK
    <3>3. Ids(d)' \subseteq Ids(d) \cup {s}
      <4> SUFFICES ASSUME NEW r \in store'[d] PROVE r.state \in Ids(d) \cup {s}
        BY DEF Ids
      <4> QED BY <3>1 DEF Ids
    <3> QED BY <2>1, <2>2, <3>2, <3>3
  <2> QED BY <2>3, <2>4
<1>3. ASSUME NEW f \in Devices, NEW e \in Devices, Merged(f, e)
      PROVE /\ before[d] \subseteq before'[d]
            /\ Ids(d) \subseteq Ids(d)'
            /\ \A x \in Ids(d), t \in Ids(d)' \ Ids(d) : <<x, t>> \in before'[d]
  <2>1. store[d] \subseteq store'[d] /\ before[d] \subseteq before'[d]
    BY <1>3 DEF Merged, TypeOK
  <2>2. Ids(d) \subseteq Ids(d)'
    BY <2>1 DEF Ids
  <2>3. CASE d # f
    <3>1. store'[d] = store[d]
      BY <1>3, <2>3 DEF Merged, TypeOK
    <3>2. Ids(d)' = Ids(d)
      BY <3>1 DEF Ids
    <3> QED BY <2>1, <3>2
  <2>4. CASE d = f
    <3>1. store'[d] \subseteq store[d] \cup store[e]
      BY <1>3, <2>4 DEF Merged, TypeOK
    <3>2. Ids(d) \X FreshIds(d, e) \subseteq before'[d]
      BY <1>3, <2>4 DEF Merged, TypeOK
    <3>3. Ids(d)' \subseteq Ids(d) \cup Ids(e)
      BY <3>1 DEF Ids
    <3>4. Ids(d)' \ Ids(d) \subseteq FreshIds(d, e)
      BY <3>3 DEF FreshIds
    <3> QED BY <2>1, <2>2, <3>2, <3>4
  <2> QED BY <2>3, <2>4
<1> QED BY <1>1, <1>2, <1>3 DEF LedgerStep

\* The outcome a device lists is final, for every interleaving of polls and
\* every order of restores.
THEOREM BridgeOutcomeFinal == Spec => OutcomeFinal
<1>1. Inv /\ Inv' /\ [Next]_vars
        => [\A d \in Devices : \A s \in Ids(d) \cap Terminal :
              IsListed(d, s) => IsListed(d, s)']_ledgerVars
  <2> SUFFICES ASSUME Inv, Inv', [Next]_vars, NEW d \in Devices, NEW s \in Ids(d) \cap Terminal,
                      IsListed(d, s)
               PROVE IsListed(d, s)'
    OBVIOUS
  <2>1. LedgerStep
    BY NextKeeps, BridgeAssumption
  <2>2. \A t \in (Ids(d) \cap Terminal) \ {s} : <<s, t>> \in before[d]
    BY ListedOutcome DEF Inv, Ledger
  <2>3. /\ before[d] \subseteq before'[d]
        /\ Ids(d) \subseteq Ids(d)'
        /\ \A x \in Ids(d), t \in Ids(d)' \ Ids(d) : <<x, t>> \in before'[d]
    BY <2>1, LedgerGrows DEF Inv
  <2>4. \A t \in (Ids(d)' \cap Terminal) \ {s} : <<s, t>> \in before'[d]
    BY <2>2, <2>3
  <2>5. s \in Ids(d)' \cap Terminal
    BY <2>3
  <2>6. (Tips(d) \cap Terminal)' = Ids(d)' \cap Terminal
    BY DEF Inv, Ledger, OutcomesKept, Tips
  <2>7. IsFirst(d, s, Tips(d) \cap Terminal)'
    BY <2>4, <2>5, <2>6 DEF IsFirst
  <2> QED BY <2>5, <2>6, <2>7 DEF IsListed, IsFirst
<1> QED BY <1>1, BridgeInvariant, PTL DEF Spec, OutcomeFinal

=============================================================================
