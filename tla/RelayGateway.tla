---------------------------- MODULE RelayGateway ----------------------------
(***************************************************************************)
(* The relay gateway of services/relay-gateway: an HTTP service that takes *)
(* signed intents, refuses what its policy forbids, hands the rest to an   *)
(* external submission engine and learns from the engine's webhooks what   *)
(* became of them.                                                         *)
(*                                                                         *)
(* The service is one Node process, so a handler runs undisturbed from one *)
(* await to the next: an action is such a stretch of POST /v1/intents, and *)
(* the value of handler[r] names the await at which request r is           *)
(* suspended.  The engine, the chain, the network between them and a       *)
(* restart of the process move in between.                                 *)
(*                                                                         *)
(* A request creates at most one record, so the request names the record.  *)
(* A uniquenessMarker stands for the pair of chain and marker that keys    *)
(* the de-duplication map.  Retention sweeps (24 and 48 hours) are left    *)
(* out: behaviours are shorter than that.  Which requests policy refuses   *)
(* (kill switch, signature, sanctions, quotas, fee and spend caps) is any  *)
(* choice.                                                                 *)
(***************************************************************************)
EXTENDS Naturals, FiniteSets

CONSTANTS
  Requests,         \* POSTs to /v1/intents
  Markers,          \* uniqueness markers
  MarkerOf,         \* the marker each request carries
  MaxQueueDepth,    \* config.maxQueueDepth
  Retries,          \* engine retries: a submission is posted 1 + Retries times
  MaxRestarts,      \* bound: restarts of the process
  None              \* no owner, no engine transaction

ASSUME RequestsAssumption ==
  /\ IsFiniteSet(Requests)
  /\ MarkerOf \in [Requests -> Markers]
  /\ None \notin Requests \cup Nat

ASSUME ConfigAssumption ==
  /\ MaxQueueDepth \in Nat \ {0}
  /\ Retries \in Nat
  /\ MaxRestarts \in Nat

VARIABLES
  handler,     \* where each request is, or how it was answered
  attempt,     \* which post of its submission a request waits for
  record,      \* intent store: status of the record, "none" if there is none
  engineTxId,  \* intent store: the post whose transaction is attached
  dedup,       \* de-duplication map: state and intent of every marker
  tx,          \* engine and chain: what became of every post
  restarts     \* restarts so far

gatewayVars == <<handler, attempt, record, engineTxId, dedup>>
vars == <<gatewayVars, tx, restarts>>

\* Awaits of the handler from its reservation to the hand-off.
Awaits == {"screening", "estimating", "posting"}

Answers == {"rejected", "duplicate", "original", "accepted", "lost"}

Statuses == {"none", "queued", "submitted", "confirmed", "failed"}

Terminal == {"confirmed", "failed"}

Posts == Requests \X (0 .. Retries)

TxStates == {"unsent", "sent", "refused", "pending", "mined", "failed"}

\* The engine holds a transaction for the post.
Held == {"pending", "mined", "failed"}

NoEntry == [state |-> "none", owner |-> None]

\* The intent store: inFlightCount().
InFlight == {r \in Requests : record[r] \in {"queued", "submitted"}}

-----------------------------------------------------------------------------
Init ==
  /\ handler = [r \in Requests |-> "new"]
  /\ attempt = [r \in Requests |-> 0]
  /\ record = [r \in Requests |-> "none"]
  /\ engineTxId = [r \in Requests |-> None]
  /\ dedup = [m \in Markers |-> NoEntry]
  /\ tx = [p \in Posts |-> "unsent"]
  /\ restarts = 0

Answer(r, a) ==
  /\ handler' = [handler EXCEPT ![r] = a]
  /\ UNCHANGED <<attempt, record, engineTxId, dedup>>

\* The catch block after a reservation: the marker is released and the record
\* removed, whatever was refused and whatever the engine has already got.
Abandon(r) ==
  /\ handler' = [handler EXCEPT ![r] = "rejected"]
  /\ dedup' = [dedup EXCEPT ![MarkerOf[r]] = NoEntry]
  /\ record' = [record EXCEPT ![r] = "none"]
  /\ engineTxId' = [engineTxId EXCEPT ![r] = None]
  /\ UNCHANGED attempt

\* From the top of the handler to verifyIntent: the kill switch, the body, the
\* chain and the payment class.
Arrive(r) ==
  /\ handler[r] = "new"
  /\ \/ Answer(r, "rejected")
     \/ Answer(r, "verifying")
  /\ UNCHANGED <<tx, restarts>>

\* The reservation: dedup.check, store.create and dedup.reserve run without an
\* await between them, so the second refusal of reserve is never taken.
Reserve(r) ==
  /\ dedup[MarkerOf[r]].state \in {"none", "failed"}
  /\ dedup' = [dedup EXCEPT ![MarkerOf[r]] = [state |-> "inflight", owner |-> r]]
  /\ record' = [record EXCEPT ![r] = "queued"]
  /\ handler' = [handler EXCEPT ![r] = "screening"]
  /\ UNCHANGED <<attempt, engineTxId>>

\* Mutant: a duplicate runs through the catch block as if it held the marker.
Verified_DuplicateReleases(r) ==
  /\ handler[r] = "verifying"
  /\ \/ Answer(r, "rejected")
     \/ dedup[MarkerOf[r]].state = "completed" /\ Answer(r, "original")
     \/ dedup[MarkerOf[r]].state = "inflight" /\ Abandon(r)
     \/ Reserve(r)
  /\ UNCHANGED <<tx, restarts>>

\* Mutant: a duplicate is told it was taken.
Verified_DuplicateIsTaken(r) ==
  /\ handler[r] = "verifying"
  /\ \/ Answer(r, "rejected")
     \/ dedup[MarkerOf[r]].state = "completed" /\ Answer(r, "original")
     \/ dedup[MarkerOf[r]].state = "inflight" /\ Answer(r, "accepted")
     \/ Reserve(r)
  /\ UNCHANGED <<tx, restarts>>

\* verifyIntent has answered: a bad signature is refused, a marker that is done
\* gets the original result, one in flight is a duplicate.
Verified(r) ==
  /\ handler[r] = "verifying"
  /\ \/ Answer(r, "rejected")
     \/ dedup[MarkerOf[r]].state = "completed" /\ Answer(r, "original")
     \/ dedup[MarkerOf[r]].state = "inflight" /\ Answer(r, "duplicate")
     \/ Reserve(r)
  /\ UNCHANGED <<tx, restarts>>

\* Mutant: one too many.
QueueHasRoom_OffByOne(r) == Cardinality(InFlight \ {r}) =< MaxQueueDepth

\* backpressure.check: the request's own record does not count.
QueueHasRoom(r) == Cardinality(InFlight \ {r}) < MaxQueueDepth

\* The sanctions screen has answered; quotas and the queue bound follow without
\* an await.
Screened(r) ==
  /\ handler[r] = "screening"
  /\ \/ Abandon(r)
     \/ QueueHasRoom(r) /\ Answer(r, "estimating")
  /\ UNCHANGED <<tx, restarts>>

\* Post number k of r's submission goes out.
Post(r, k) ==
  /\ handler' = [handler EXCEPT ![r] = "posting"]
  /\ attempt' = [attempt EXCEPT ![r] = k]
  /\ tx' = [tx EXCEPT ![<<r, k>>] = "sent"]
  /\ UNCHANGED <<record, engineTxId, dedup>>

\* The cost estimate has arrived: fee cap, spend cap, then the first post.
Estimated(r) ==
  /\ handler[r] = "estimating"
  /\ \/ Abandon(r) /\ UNCHANGED tx
     \/ Post(r, 0)
  /\ UNCHANGED restarts

\* store.attachEngineTx: from here on a webhook for the post finds the record.
\* The engine gives the transaction hash now or later.
AttachEngineTx(r, k) ==
  /\ engineTxId' = [engineTxId EXCEPT ![r] = k]
  /\ \E s \in {"queued", "submitted"} : record' = [record EXCEPT ![r] = s]

\* The engine's answer to the current post arrives in time: 202.
PostAnswered(r) ==
  /\ handler[r] = "posting"
  /\ tx[<<r, attempt[r]>>] \in Held
  /\ AttachEngineTx(r, attempt[r])
  /\ handler' = [handler EXCEPT ![r] = "accepted"]
  /\ UNCHANGED <<attempt, dedup, tx, restarts>>

\* A timeout, a network error, a 5xx or an unreadable answer: post again, and
\* give up after the last retry.  The engine may have the post all the same.
PostFails(r) ==
  /\ handler[r] = "posting"
  /\ \/ attempt[r] < Retries /\ Post(r, attempt[r] + 1)
     \/ attempt[r] = Retries /\ Abandon(r) /\ UNCHANGED tx
  /\ UNCHANGED restarts

\* A 4xx, or an answer without a transaction id, is not retried.
PostRejected(r) ==
  /\ handler[r] = "posting"
  /\ Abandon(r)
  /\ \/ /\ tx[<<r, attempt[r]>>] = "sent"
        /\ tx' = [tx EXCEPT ![<<r, attempt[r]>>] = "refused"]
     \/ tx[<<r, attempt[r]>>] \in Held /\ UNCHANGED tx
  /\ UNCHANGED restarts

HandlerStep(r) ==
  \/ Arrive(r) \/ Verified(r) \/ Screened(r) \/ Estimated(r)
  \/ PostAnswered(r) \/ PostFails(r) \/ PostRejected(r)

-----------------------------------------------------------------------------
\* Mutant: a status of sent is mapped to confirmed.
Reportable_SentIsConfirmed(p) ==
  {s \in Statuses :
     \/ s = "submitted" /\ tx[p] \in Held
     \/ s = "confirmed" /\ tx[p] \in {"pending", "mined"}
     \/ s = "failed" /\ tx[p] = "failed"}

\* The statuses the engine may report of a transaction, mapped to statuses of
\* an intent.  An earlier status may be delivered late.
Reportable(p) ==
  {s \in Statuses :
     \/ s = "submitted" /\ tx[p] \in Held
     \/ s = "confirmed" /\ tx[p] = "mined"
     \/ s = "failed" /\ tx[p] = "failed"}

\* markCompleted and markFailed: the entry, if there is one, keeps its intent.
Mark(m, s) ==
  IF dedup[m].state = "none" THEN UNCHANGED dedup
  ELSE dedup' = [dedup EXCEPT ![m] = [state |-> s, owner |-> dedup[m].owner]]

\* Mutant: a late webhook overwrites a terminal status.
Webhook_Regresses(r, k, s) ==
  /\ s \in Reportable(<<r, k>>)
  /\ record[r] # "none" /\ engineTxId[r] = k
  /\ record' = [record EXCEPT ![r] = s]
  /\ \/ s = "confirmed" /\ Mark(MarkerOf[r], "completed")
     \/ s = "failed" /\ Mark(MarkerOf[r], "failed")
     \/ s \notin Terminal /\ UNCHANGED dedup
  /\ UNCHANGED <<handler, attempt, engineTxId, tx, restarts>>

\* Mutant: only a record that was seen submitted may end.
Webhook_NeedsSubmitted(r, k, s) ==
  /\ s \in Reportable(<<r, k>>)
  /\ record[r] = "submitted" /\ engineTxId[r] = k
  /\ record' = [record EXCEPT ![r] = s]
  /\ \/ s = "confirmed" /\ Mark(MarkerOf[r], "completed")
     \/ s = "failed" /\ Mark(MarkerOf[r], "failed")
     \/ s \notin Terminal /\ UNCHANGED dedup
  /\ UNCHANGED <<handler, attempt, engineTxId, tx, restarts>>

\* applyEngineEvent.  Without an attached record the answer is 404 and nothing
\* changes; a terminal status is never overwritten.
Webhook(r, k, s) ==
  /\ s \in Reportable(<<r, k>>)
  /\ record[r] # "none" /\ engineTxId[r] = k
  /\ record[r] \notin Terminal
  /\ record' = [record EXCEPT ![r] = s]
  /\ \/ s = "confirmed" /\ Mark(MarkerOf[r], "completed")
     \/ s = "failed" /\ Mark(MarkerOf[r], "failed")
     \/ s \notin Terminal /\ UNCHANGED dedup
  /\ UNCHANGED <<handler, attempt, engineTxId, tx, restarts>>

\* The process dies and starts again: requests are cut off and both maps, which
\* live in memory, are empty.
Restart ==
  /\ restarts < MaxRestarts
  /\ restarts' = restarts + 1
  /\ handler' = [r \in Requests |->
       IF handler[r] \in Awaits \cup {"verifying"} THEN "lost" ELSE handler[r]]
  /\ record' = [r \in Requests |-> "none"]
  /\ engineTxId' = [r \in Requests |-> None]
  /\ dedup' = [m \in Markers |-> NoEntry]
  /\ UNCHANGED <<attempt, tx>>

-----------------------------------------------------------------------------
\* The engine takes a post, however late; it takes it as a new transaction,
\* because nothing in the post tells it apart.
EngineAccepts(p) ==
  /\ tx[p] = "sent"
  /\ tx' = [tx EXCEPT ![p] = "pending"]
  /\ UNCHANGED <<gatewayVars, restarts>>

\* A transaction of the gateway's own has executed the marker.
Executed(m) == \E p \in Posts : MarkerOf[p[1]] = m /\ tx[p] = "mined"

\* A pending transaction ends: executed, which consumes the marker on chain and
\* so happens once, or without effect (reverted because the marker is consumed,
\* by this gateway or by anybody else, or for another reason; expired;
\* cancelled).
EngineFinishes(p) ==
  /\ tx[p] = "pending"
  /\ \/ ~Executed(MarkerOf[p[1]]) /\ tx' = [tx EXCEPT ![p] = "mined"]
     \/ tx' = [tx EXCEPT ![p] = "failed"]
  /\ UNCHANGED <<gatewayVars, restarts>>

Next ==
  \/ \E r \in Requests : HandlerStep(r)
  \/ \E r \in Requests, k \in 0 .. Retries, s \in Statuses : Webhook(r, k, s)
  \/ Restart
  \/ \E p \in Posts : EngineAccepts(p) \/ EngineFinishes(p)

Spec == Init /\ [][Next]_vars

\* Every await of a handler ends, in an error if need be (the engine post has a
\* timeout).  The engine brings what it accepted to an end and its terminal
\* webhook gets through at last: the gateway never polls, so this is what it
\* relies on.  Nothing is assumed of posts on the wire, of other webhooks, of
\* operators or of the signer.
FairSpec ==
  /\ Spec
  /\ \A r \in Requests : WF_vars(HandlerStep(r))
  /\ \A p \in Posts : WF_vars(EngineFinishes(p))
  /\ \A r \in Requests, k \in 0 .. Retries :
       WF_vars(\E s \in Terminal : Webhook(r, k, s))
-----------------------------------------------------------------------------
\* Storage, answers and engine states keep their types; no submission is posted
\* more than 1 + Retries times.
TypeOK ==
  /\ handler \in [Requests -> {"new", "verifying"} \cup Awaits \cup Answers]
  /\ attempt \in [Requests -> 0 .. Retries]
  /\ record \in [Requests -> Statuses]
  /\ engineTxId \in [Requests -> (0 .. Retries) \cup {None}]
  /\ dedup \in [Markers -> [state : {"none", "inflight", "completed", "failed"},
                            owner : Requests \cup {None}]]
  /\ tx \in [Posts -> TxStates]
  /\ restarts \in 0 .. MaxRestarts

\* policy/dedup.js: the reservations and the intents in flight are the same
\* thing.  Every intent in flight owns the reservation of its marker, so no two
\* identical ones are relayed at once, whatever their handlers await; and every
\* reservation belongs to an intent in flight, so none is left behind by a
\* refusal, an error or a webhook.
SingleFlight ==
  /\ \A r \in InFlight : dedup[MarkerOf[r]] = [state |-> "inflight", owner |-> r]
  /\ \A m \in Markers : dedup[m].state = "inflight" =>
       dedup[m].owner \in InFlight /\ MarkerOf[dedup[m].owner] = m

\* FR-006: a status of confirmed, and the original result given to a repeated
\* request, mean that the chain has executed the marker by a transaction of
\* this gateway, across late, repeated and reordered webhooks and restarts.
NoFalseSuccess ==
  /\ \A r \in Requests :
       record[r] = "confirmed" \/ handler[r] = "original" => Executed(MarkerOf[r])
  /\ \A m \in Markers : dedup[m].state = "completed" => Executed(m)

\* FR-009: the intents past the queue check and not settled yet never exceed
\* maxQueueDepth, although records are created before the check and any number
\* of handlers may be between the two.
QueueBounded ==
  Cardinality({r \in InFlight : handler[r] # "screening"}) =< MaxQueueDepth

\* An intent answered with 202 keeps its record and its engine transaction, its
\* status only moves forward and a terminal one stays, whatever webhooks
\* arrive: only a restart forgets it.
NeverAcceptAndDrop ==
  [][\A r \in Requests :
       handler[r] = "accepted" /\ record[r] # "none" /\ restarts' = restarts =>
         /\ engineTxId'[r] = engineTxId[r]
         /\ record'[r] # "none"
         /\ record[r] = "submitted" => record'[r] # "queued"
         /\ record[r] \in Terminal => record'[r] = record[r]]_vars

\* No intent stays in flight for ever, so no marker stays reserved and no place
\* in the queue is lost.
InFlightEnds == \A r \in Requests : r \in InFlight ~> r \notin InFlight

-----------------------------------------------------------------------------
\* The promise to a client, with the awaits, the posts and the two maps
\* hidden.  A call has left the gateway once a post of it went out.
Exposed(r) == \E k \in 0 .. Retries : tx[<<r, k>>] # "unsent"

\* A handler that ended in an error after a post went out has given up, one
\* that ended before has refused.
AnswerTo(r) ==
  IF handler[r] = "new" THEN "none"
  ELSE IF handler[r] \in Awaits \cup {"verifying"} THEN "open"
  ELSE IF handler[r] \in {"rejected", "duplicate"}
       THEN IF Exposed(r) THEN "gaveup" ELSE "refused"
  ELSE IF handler[r] = "accepted" THEN "taken"
  ELSE handler[r]

\* A record is reported once the client knows its name.
ReportOf(r) == IF handler[r] = "accepted" THEN record[r] ELSE "none"

Relay ==
  INSTANCE IntentRelay WITH
    answer <- [r \in Requests |-> AnswerTo(r)],
    exposed <- {r \in Requests : Exposed(r)},
    executed <- {m \in Markers : Executed(m)},
    report <- [r \in Requests |-> ReportOf(r)]

\* The handler with its awaits, the retried posts, late and repeated webhooks
\* and the restart keep the promise IntentRelay makes to a client: above all,
\* a request answered with a refusal before its hand-off never runs, and no
\* marker runs twice.
ImplementsIntentRelay == Relay!Spec
=============================================================================
