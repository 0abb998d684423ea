--------------------------- MODULE BridgeTracker ---------------------------
(***************************************************************************)
(* How the frontend follows one bridge transfer to its outcome: the        *)
(* reconciler (lib/bridge/bridgeStatus.js), the append-only client ledger  *)
(* it writes (data/ledger/ledgerClientStore.js through                     *)
(* bridgeLedgerSource.js), the notification buffer                         *)
(* (bridgeActivityBuffer.js) and the backup that copies the ledger of one  *)
(* device into another.                                                    *)
(*                                                                         *)
(* A poll is one reconcileBridge in progress on a device; the bridge page  *)
(* and the notification engine both poll, nothing keeps their polls apart, *)
(* and a poll acts on the ledger entry it read before its awaits.  What    *)
(* follows the last await of a poll runs without interruption.             *)
(*                                                                         *)
(* A record's id is the transfer's id and the record's state, so its state *)
(* names it.  The order of the records of a device is kept as a relation.  *)
(***************************************************************************)
EXTENDS FiniteSets, Naturals

CONSTANTS
  Devices,    \* browsers of one member
  Home,       \* the one the transfer is sent from
  Polls,      \* polls that may be in progress at once
  DeviceOf    \* the device each of them runs on

ASSUME BridgeAssumption == Home \in Devices /\ DeviceOf \in [Polls -> Devices]

VARIABLES
  facts,      \* what happened to the transfer: see Facts
  expired,    \* the deadline for a fill is over
  late,       \* the clock is past expectedBy
  store,      \* the client records of each device
  before,     \* their order: a pair of states for an earlier and a later one
  told,       \* the state the last notification is about, on whichever device
  poll        \* the polls in progress

ledgerVars == <<store, before>>
worldVars == <<facts, expired, late>>
vars == <<worldVars, ledgerVars, told, poll>>

\* A fill on the destination, a refund on the origin, and an origin
\* transaction that a reorganisation made fail.
Facts == {"filled", "refunded", "reverted"}

Live == {"submitted", "source_confirmed", "in_flight", "needs_attention"}
Terminal == {"delivered", "refunded", "failed"}
States == Live \cup Terminal

\* STATE_RANK; a state without a rank counts as 0.
Rank == [s \in States |-> CASE s = "source_confirmed" -> 1
                            [] s \in {"in_flight", "needs_attention"} -> 2
                            [] OTHER -> 0]

\* BRIDGE_NOTIFIED_STATES
Notified == {"delivered", "refunded", "needs_attention"}

Records == [state : States, supersedes : States \cup {"none"}]

\* A poll that waits for the gateway, for the chains, or for the chains' second
\* opinion on what the gateway said.
Awaits == {"asking", "reading", "checking"}

PollRecords == [pc : Awaits \cup {"idle"}, from : Live, late : BOOLEAN, expired : BOOLEAN]

Idle == [pc |-> "idle", from |-> "submitted", late |-> FALSE, expired |-> FALSE]

Init ==
  /\ facts = {} /\ expired = FALSE /\ late = FALSE
  /\ store = [d \in Devices |-> {}]
  /\ before = [d \in Devices |-> {}]
  /\ told = "none"
  /\ poll = [p \in Polls |-> Idle]

-----------------------------------------------------------------------------
\* The client ledger.

Ids(d) == {r.state : r \in store[d]}

\* listClientRecords: the records no other record supersedes.
Tips(d) == Ids(d) \ {r.supersedes : r \in store[d]}

\* s is in S, and no other member of S is earlier in the ledger.
IsFirst(d, s, S) == s \in S /\ \A t \in S \ {s} : <<s, t>> \in before[d]

\* findBridgeRecord: what a write supersedes.
IsCurrent(d, s) == IsFirst(d, s, Tips(d))

\* listBridgeEntries: a resolved tip comes before a pending one.  The records
\* of a transfer share its timestamp, so the earlier one wins a tie.
IsListed(d, s) ==
  LET tips == Tips(d)
      resolved == tips \cap Terminal
  IN IsFirst(d, s, IF resolved # {} THEN resolved ELSE tips)

\* Mutant: a record with a known id is appended all the same.
AppendRecord_Again(d, s, sup) ==
  \/ /\ store' = [store EXCEPT ![d] = @ \cup {[state |-> s, supersedes |-> sup]}]
     /\ before' = [before EXCEPT ![d] = @ \cup (Ids(d) \X {s})]
  \/ UNCHANGED ledgerVars

\* appendClientRecord: a known id is dropped, and so is a record the browser
\* has no room for.
AppendRecord(d, s, sup) ==
  \/ /\ s \notin Ids(d)
     /\ store' = [store EXCEPT ![d] = @ \cup {[state |-> s, supersedes |-> sup]}]
     /\ before' = [before EXCEPT ![d] = @ \cup (Ids(d) \X {s})]
  \/ UNCHANGED ledgerVars

\* recordSubmission has the receipt: captureBridgeSubmission.
Submit ==
  /\ store[Home] = {} /\ "reverted" \notin facts
  /\ AppendRecord(Home, "submitted", "none")
  /\ UNCHANGED <<worldVars, told, poll>>

\* Mutant: the restored history goes in front.
Merge_InFront(d, e) ==
  LET fresh == {r \in store[e] : r.state \notin Ids(d)}
      ids == {r.state : r \in fresh}
  IN /\ fresh # {}
     /\ store' = [store EXCEPT ![d] = @ \cup fresh]
     /\ before' = [before EXCEPT ![d] = @ \cup (ids \X Ids(d)) \cup (before[e] \cap (ids \X ids))]
     /\ UNCHANGED <<worldVars, told, poll>>

\* mergeClientRecords: device d restores a backup of device e.
Merge(d, e) ==
  LET fresh == {r \in store[e] : r.state \notin Ids(d)}
      ids == {r.state : r \in fresh}
  IN /\ fresh # {}
     /\ store' = [store EXCEPT ![d] = @ \cup fresh]
     /\ before' = [before EXCEPT ![d] = @ \cup (Ids(d) \X ids) \cup (before[e] \cap (ids \X ids))]
     /\ UNCHANGED <<worldVars, told, poll>>

-----------------------------------------------------------------------------
\* The state machine.

\* deriveBridgeState for a live state and the evidence found.
Derive(from, evidence, isLate) ==
  IF "reverted" \in evidence THEN "failed"
  ELSE IF "filled" \in evidence THEN "delivered"
  ELSE IF "refunded" \in evidence THEN "refunded"
  ELSE IF "expired" \in evidence \/ isLate THEN "needs_attention"
  ELSE IF "indexed" \in evidence /\ Rank["in_flight"] > Rank[from] THEN "in_flight"
  ELSE IF "mined" \in evidence /\ Rank["source_confirmed"] > Rank[from] THEN "source_confirmed"
  ELSE from

\* captureBridgeState writes s over the current record.
Writable(s, current) ==
  /\ current \notin Terminal /\ s # current
  /\ s \in Terminal \/ Rank[s] >= Rank[current]

\* bridgeNotification and queueBridgeNotification.  What is queued is published
\* by the notification engine as it is, and nothing reads it back.
Queue(s) == told' = IF s \in Notified THEN s ELSE told

\* The end of reconcileBridge: derive the state from the entry the poll read,
\* capture it over the record that is current by now, and notify when the
\* capture names an id, even one the store already had.
Settle(p, evidence, isLate) ==
  LET d == DeviceOf[p]
      s == Derive(poll[p].from, evidence, isLate)
  IN /\ \/ /\ \/ s = poll[p].from
              \/ \E c \in States : IsCurrent(d, c) /\ ~Writable(s, c)
           /\ UNCHANGED <<ledgerVars, told>>
        \/ /\ s # poll[p].from
           /\ \E c \in States : IsCurrent(d, c) /\ Writable(s, c) /\ AppendRecord(d, s, c)
           /\ Queue(s)
     /\ poll' = [poll EXCEPT ![p] = Idle]
     /\ UNCHANGED worldVars

-----------------------------------------------------------------------------
\* A poll.

\* listLiveBridges: the poll takes the entry along.  A chain without a gateway
\* is read directly.
List(p) ==
  /\ poll[p].pc = "idle"
  /\ \E s \in Live, pc \in {"asking", "reading"} :
       /\ IsListed(DeviceOf[p], s)
       /\ poll' = [poll EXCEPT ![p] = [pc |-> pc, from |-> s, late |-> late, expired |-> FALSE]]
  /\ UNCHANGED <<worldVars, ledgerVars, told>>

\* The poll has waited for the transfers in front of this one too, and reads
\* the clock in between: the engine before them, the page after them.
Clock(p) == {poll[p].late, late}

\* fetchBridgeStatus throws: off, out of quota, timed out.
GatewayFails(p) ==
  /\ poll[p].pc = "asking"
  /\ poll' = [poll EXCEPT ![p] =
                [pc |-> "reading", from |-> poll[p].from, late |-> poll[p].late, expired |-> FALSE]]
  /\ UNCHANGED <<worldVars, ledgerVars, told>>

\* evidenceFromGatewayStatus of an answer with a hash for each outcome it has
\* heard of.
GatewayAnswers(p) ==
  /\ poll[p].pc = "asking"
  /\ \E seen \in SUBSET (facts \ {"reverted"}) :
       seen # {} /\ Settle(p, {"indexed"} \cup seen, FALSE)

\* An answer without a hash: it settles a transfer that is in time, and a late
\* or expired one gets a second opinion.
GatewayPending(p) ==
  /\ poll[p].pc = "asking"
  /\ \E l \in Clock(p), x \in {FALSE, expired} :
       \/ ~l /\ ~x /\ Settle(p, {"indexed"}, FALSE)
       \/ /\ l \/ x
          /\ poll' = [poll EXCEPT ![p] =
                        [pc |-> "checking", from |-> poll[p].from, late |-> l, expired |-> x]]
          /\ UNCHANGED <<worldVars, ledgerVars, told>>

\* Mutant: any event about the deposit counts as its fill, a request for a slow
\* fill too.
ChainAnswers_AnyTopic(p) ==
  /\ poll[p].pc = "reading"
  /\ \E fill \in SUBSET {"filled"}, l \in Clock(p) : Settle(p, {"mined", "indexed"} \cup fill, l)

\* readOriginEvidence and readDestinationFill, either of which may find
\* nothing; without evidence the clock still decides.
ChainAnswers(p) ==
  /\ poll[p].pc = "reading"
  /\ \E source \in {{}, {"mined"}, {"mined", "indexed"}} \cup
                     IF "reverted" \in facts THEN {{"mined", "reverted"}} ELSE {},
        fill \in SUBSET (facts \cap {"filled"}),
        l \in Clock(p) : Settle(p, source \cup fill, l)

\* The second opinion: only a fill overrules the gateway.
SecondOpinion(p) ==
  /\ poll[p].pc = "checking"
  /\ \E fill \in SUBSET (facts \cap {"filled"}) :
       Settle(p, {"indexed"} \cup (IF poll[p].expired THEN {"expired"} ELSE {}) \cup fill, poll[p].late)

\* The page is left or reloaded: its polls are gone, the stores are not.
Reload(d) ==
  /\ \E p \in Polls : DeviceOf[p] = d /\ poll[p] # Idle
  /\ poll' = [p \in Polls |-> IF DeviceOf[p] = d THEN Idle ELSE poll[p]]
  /\ UNCHANGED <<worldVars, ledgerVars, told>>

-----------------------------------------------------------------------------
\* The chains and the clock.

\* A fill stays: it is not withdrawn by a reorganisation of the destination.
Fill ==
  /\ facts \cap {"filled", "refunded"} = {} /\ ~expired
  /\ facts' = facts \cup {"filled"}
  /\ UNCHANGED <<expired, late, ledgerVars, told, poll>>

Refund ==
  /\ facts \cap {"filled", "refunded"} = {} /\ expired
  /\ facts' = facts \cup {"refunded"}
  /\ UNCHANGED <<expired, late, ledgerVars, told, poll>>

Revert ==
  /\ "reverted" \notin facts
  /\ facts' = facts \cup {"reverted"}
  /\ UNCHANGED <<expired, late, ledgerVars, told, poll>>

Expire ==
  /\ ~expired /\ expired' = TRUE
  /\ UNCHANGED <<facts, late, ledgerVars, told, poll>>

BecomeLate ==
  /\ ~late /\ late' = TRUE
  /\ UNCHANGED <<facts, expired, ledgerVars, told, poll>>

-----------------------------------------------------------------------------
PollStep(p) ==
  \/ List(p)
  \/ GatewayFails(p) \/ GatewayAnswers(p) \/ GatewayPending(p)
  \/ ChainAnswers(p) \/ SecondOpinion(p)

DeviceStep(d) ==
  \/ Reload(d)
  \/ \E e \in Devices \ {d} : Merge(d, e)

World == Fill \/ Refund \/ Revert \/ Expire \/ BecomeLate

Next ==
  \/ Submit
  \/ \E p \in Polls : PollStep(p)
  \/ \E d \in Devices : DeviceStep(d)
  \/ World

Spec == Init /\ [][Next]_vars

-----------------------------------------------------------------------------
\* The types; of the states a poll writes only those worth a notification are
\* ever queued (BRIDGE_NOTIFIED_STATES in bridgeNotification).
TypeOK ==
  /\ facts \subseteq Facts
  /\ expired \in BOOLEAN /\ late \in BOOLEAN
  /\ store \in [Devices -> SUBSET Records]
  /\ before \in [Devices -> SUBSET (States \X States)]
  /\ told \in Notified \cup {"none"}
  /\ poll \in [Polls -> PollRecords]

\* The evidence deriveBridgeState wants for an outcome exists.
Happened(s) ==
  /\ s = "delivered" => "filled" \in facts
  /\ s = "refunded" => "refunded" \in facts
  /\ s = "failed" => "reverted" \in facts

\* No record and no notification names an outcome that did not happen, however
\* stale the poll that wrote it and whichever device it came from.
HonestOutcome == \A d \in Devices : \A s \in Ids(d) \cup {told} : Happened(s)

\* A captured transfer never vanishes from a device: its records never all
\* supersede each other.
NeverLost == \A d \in Devices : store[d] # {} => Tips(d) # {}

\* Once a device lists an outcome it lists that outcome for ever, against late
\* polls of its own and restored histories of other devices.
OutcomeFinal ==
  [][\A d \in Devices : \A s \in Ids(d) \cap Terminal :
       IsListed(d, s) => IsListed(d, s)']_ledgerVars

=============================================================================
