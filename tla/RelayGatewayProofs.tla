------------------------ MODULE RelayGatewayProofs ------------------------
(***************************************************************************)
(* What RelayGateway promises for any set of requests, any markers, any    *)
(* queue bound, number of retries and of restarts.                         *)
(*                                                                         *)
(* None of the invariants is inductive by itself.  Placed ties the record  *)
(* of a request to the await its handler is suspended at: without it a     *)
(* refusal could release a marker that another request holds.  Unposted    *)
(* says that a post still to be made has left no trace at the engine:      *)
(* without it a retry could overwrite an executed transaction.             *)
(***************************************************************************)
EXTENDS RelayGateway, FiniteSetTheorems, TLAPS

\* A suspended handler owns a queued record; one that was refused, cut off or
\* has not reserved yet owns none.  Only the hand-off attaches a transaction, so
\* no webhook finds the record before it.
Placed ==
  \A r \in Requests :
    /\ handler[r] \in Awaits => record[r] = "queued"
    /\ handler[r] \notin Awaits \cup {"accepted"} => record[r] = "none"
    /\ handler[r] # "accepted" => engineTxId[r] = None

\* Posts after the current one are unsent.
Unposted ==
  \A r \in Requests, k \in 0 .. Retries :
    \/ handler[r] \in {"new", "verifying", "screening", "estimating"}
    \/ handler[r] = "posting" /\ k > attempt[r]
    => tx[<<r, k>>] = "unsent"

Inv ==
  TypeOK /\ Placed /\ Unposted /\ SingleFlight /\ NoFalseSuccess /\ QueueBounded

\* The intents past the queue check.
Admitted == {r \in InFlight : handler[r] # "screening"}

-----------------------------------------------------------------------------
\* Init: nothing is reserved, recorded or posted.
LEMMA InitInv == Init => Inv
<1> SUFFICES ASSUME Init PROVE Inv
    OBVIOUS
<1>1. TypeOK
  BY RequestsAssumption, ConfigAssumption
  DEF Init, TypeOK, Awaits, Answers, Statuses, TxStates, NoEntry, Posts
<1>2. Placed /\ Unposted
  BY DEF Init, Placed, Unposted, Awaits, Posts
<1>3. InFlight = {}
  BY DEF Init, InFlight
<1>4. SingleFlight /\ NoFalseSuccess
  BY <1>3 DEF Init, SingleFlight, NoFalseSuccess, NoEntry
<1>5. QueueBounded
  <2>1. {r \in InFlight : handler[r] # "screening"} = {}
    BY <1>3
  <2> QED BY <2>1, FS_EmptySet, ConfigAssumption DEF QueueBounded
<1> QED BY <1>1, <1>2, <1>4, <1>5 DEF Inv

\* Every handler step, webhook, restart and engine step keeps the types.
LEMMA TypeStep == TypeOK /\ [Next]_vars => TypeOK'
<1> SUFFICES ASSUME TypeOK, [Next]_vars PROVE TypeOK'
    OBVIOUS
<1> USE RequestsAssumption, ConfigAssumption
<1>1. ASSUME NEW r \in Requests, Arrive(r) PROVE TypeOK'
  BY <1>1 DEF TypeOK, Arrive, Answer, Awaits, Answers
<1>2. ASSUME NEW r \in Requests, Verified(r) PROVE TypeOK'
  <2>1. MarkerOf[r] \in Markers
    OBVIOUS
  <2>2. CASE Reserve(r)
    BY <1>2, <2>1, <2>2 DEF TypeOK, Verified, Reserve, Awaits, Statuses
  <2>3. CASE \E a \in Answers : Answer(r, a)
    BY <1>2, <2>3 DEF TypeOK, Verified, Answer
  <2> QED BY <1>2, <2>2, <2>3 DEF Verified, Answers
<1>3. ASSUME NEW r \in Requests, Abandon(r), tx' \in [Posts -> TxStates],
             UNCHANGED restarts
      PROVE TypeOK'
  BY <1>3 DEF TypeOK, Abandon, NoEntry, Answers, Statuses
<1>4. ASSUME NEW r \in Requests, NEW k \in 0 .. Retries, Post(r, k),
             UNCHANGED restarts
      PROVE TypeOK'
  BY <1>4 DEF TypeOK, Post, Awaits, TxStates, Posts
<1>5. ASSUME NEW r \in Requests, Screened(r) PROVE TypeOK'
  <2>1. CASE Abandon(r)
    BY <1>3, <1>5, <2>1 DEF TypeOK, Screened
  <2>2. CASE Answer(r, "estimating")
    BY <1>5, <2>2 DEF TypeOK, Screened, Answer, Awaits
  <2> QED BY <1>5, <2>1, <2>2 DEF Screened
<1>6. ASSUME NEW r \in Requests, Estimated(r) PROVE TypeOK'
  BY <1>3, <1>4, <1>6 DEF TypeOK, Estimated
<1>7. ASSUME NEW r \in Requests, PostAnswered(r) PROVE TypeOK'
  BY <1>7 DEF TypeOK, PostAnswered, AttachEngineTx, Answers, Statuses
<1>8. ASSUME NEW r \in Requests, PostFails(r) PROVE TypeOK'
  <2>1. CASE attempt[r] < Retries /\ Post(r, attempt[r] + 1)
    <3>1. attempt[r] + 1 \in 0 .. Retries
      BY <2>1 DEF TypeOK
    <3> QED BY <1>4, <1>8, <2>1, <3>1 DEF PostFails
  <2>2. CASE Abandon(r) /\ UNCHANGED tx
    BY <1>3, <1>8, <2>2 DEF TypeOK, PostFails
  <2> QED BY <1>8, <2>1, <2>2 DEF PostFails
<1>9. ASSUME NEW r \in Requests, PostRejected(r) PROVE TypeOK'
  <2>1. tx' \in [Posts -> TxStates]
    BY <1>9 DEF TypeOK, PostRejected, TxStates, Posts
  <2> QED BY <1>3, <1>9, <2>1 DEF PostRejected
<1>10. ASSUME NEW r \in Requests, NEW k \in 0 .. Retries, NEW s \in Statuses,
              Webhook(r, k, s)
       PROVE TypeOK'
  <2>1. dedup' \in [Markers -> [state : {"none", "inflight", "completed", "failed"},
                                owner : Requests \cup {None}]]
    BY <1>10 DEF TypeOK, Webhook, Mark
  <2> QED BY <1>10, <2>1 DEF TypeOK, Webhook
<1>11. CASE Restart
  BY <1>11 DEF TypeOK, Restart, NoEntry, Answers, Statuses, Awaits
<1>12. ASSUME NEW p \in Posts, EngineAccepts(p) \/ EngineFinishes(p) PROVE TypeOK'
  BY <1>12 DEF TypeOK, EngineAccepts, EngineFinishes, TxStates, gatewayVars
<1>13. CASE UNCHANGED vars
  BY <1>13 DEF TypeOK, vars, gatewayVars
<1> QED
  BY <1>1, <1>2, <1>5, <1>6, <1>7, <1>8, <1>9, <1>10, <1>11, <1>12, <1>13
  DEF Next, HandlerStep

-----------------------------------------------------------------------------
\* The handler steps by their effect: an answer before the reservation, ...
Early(r) ==
  /\ handler[r] \in {"new", "verifying"}
  /\ \/ Answer(r, "verifying") \/ Answer(r, "rejected") \/ Answer(r, "duplicate")
     \/ /\ handler[r] = "verifying" /\ dedup[MarkerOf[r]].state = "completed"
        /\ Answer(r, "original")
  /\ UNCHANGED <<tx, restarts>>

\* ... the reservation, ...
Reserves(r) == handler[r] = "verifying" /\ Reserve(r) /\ UNCHANGED <<tx, restarts>>

\* ... the end of a reservation by refusal or error, ...
Drops(r) ==
  /\ handler[r] \in Awaits
  /\ Abandon(r)
  /\ \/ UNCHANGED tx
     \/ /\ handler[r] = "posting" /\ tx[<<r, attempt[r]>>] = "sent"
        /\ tx' = [tx EXCEPT ![<<r, attempt[r]>>] = "refused"]
  /\ UNCHANGED restarts

\* ... the admission to the queue, ...
Admits(r) ==
  /\ handler[r] = "screening"
  /\ QueueHasRoom(r)
  /\ Answer(r, "estimating")
  /\ UNCHANGED <<tx, restarts>>

\* ... and the first or a further post.
Posting(r, k) ==
  /\ \/ handler[r] = "estimating"
     \/ handler[r] = "posting" /\ k = attempt[r] + 1
  /\ Post(r, k)
  /\ UNCHANGED restarts

\* Every step of the gateway, the engine and the chain has one of these effects.
LEMMA StepCases ==
  ASSUME TypeOK, [Next]_vars
  PROVE  \/ \E r \in Requests : \/ Early(r) \/ Reserves(r) \/ Drops(r) \/ Admits(r)
                                \/ PostAnswered(r)
         \/ \E r \in Requests, k \in 0 .. Retries : Posting(r, k)
         \/ \E r \in Requests, k \in 0 .. Retries, s \in Statuses : Webhook(r, k, s)
         \/ Restart
         \/ \E p \in Posts : EngineAccepts(p) \/ EngineFinishes(p)
         \/ UNCHANGED vars
<1>1. ASSUME NEW r \in Requests, Arrive(r) PROVE Early(r)
  BY <1>1 DEF Arrive, Early
<1>2. ASSUME NEW r \in Requests, Verified(r) PROVE Early(r) \/ Reserves(r)
  BY <1>2 DEF Verified, Early, Reserves
<1>3. ASSUME NEW r \in Requests, Screened(r) PROVE Drops(r) \/ Admits(r)
  BY <1>3 DEF Screened, Drops, Admits, Awaits
<1>4. ASSUME NEW r \in Requests, Estimated(r) PROVE Drops(r) \/ Posting(r, 0)
  BY <1>4 DEF Estimated, Drops, Posting, Awaits
<1>5. ASSUME NEW r \in Requests, PostFails(r)
      PROVE Drops(r) \/ \E k \in 0 .. Retries : Posting(r, k)
  <2>1. CASE attempt[r] < Retries /\ Post(r, attempt[r] + 1)
    <3>1. attempt[r] + 1 \in 0 .. Retries
      BY <2>1, ConfigAssumption DEF TypeOK
    <3>2. Posting(r, attempt[r] + 1)
      BY <1>5, <2>1 DEF PostFails, Posting
    <3> QED BY <3>1, <3>2
  <2>2. CASE Abandon(r) /\ UNCHANGED tx
    BY <1>5, <2>2 DEF PostFails, Drops, Awaits
  <2> QED BY <1>5, <2>1, <2>2 DEF PostFails
<1>6. ASSUME NEW r \in Requests, PostRejected(r) PROVE Drops(r)
  BY <1>6 DEF PostRejected, Drops, Awaits
<1>7. 0 \in 0 .. Retries
  BY ConfigAssumption
<1> QED
  BY <1>1, <1>2, <1>3, <1>4, <1>5, <1>6, <1>7 DEF Next, HandlerStep

-----------------------------------------------------------------------------
\* Records follow their handlers.
LEMMA PlacedStep == TypeOK /\ Placed /\ [Next]_vars => Placed'
<1> SUFFICES ASSUME TypeOK, Placed, [Next]_vars PROVE Placed'
    OBVIOUS
<1>1. ASSUME NEW r \in Requests, Early(r) PROVE Placed'
  BY <1>1 DEF Placed, TypeOK, Early, Answer, Awaits
<1>2. ASSUME NEW r \in Requests, Reserves(r) PROVE Placed'
  BY <1>2 DEF Placed, TypeOK, Reserves, Reserve, Awaits
<1>3. ASSUME NEW r \in Requests, Drops(r) PROVE Placed'
  BY <1>3 DEF Placed, TypeOK, Drops, Abandon, Awaits
<1>4. ASSUME NEW r \in Requests, Admits(r) PROVE Placed'
  BY <1>4 DEF Placed, TypeOK, Admits, Answer, Awaits
<1>5. ASSUME NEW r \in Requests, PostAnswered(r) PROVE Placed'
  BY <1>5 DEF Placed, TypeOK, PostAnswered, AttachEngineTx, Awaits
<1>6. ASSUME NEW r \in Requests, NEW k \in 0 .. Retries, Posting(r, k) PROVE Placed'
  BY <1>6 DEF Placed, TypeOK, Posting, Post, Awaits
<1>7. ASSUME NEW r \in Requests, NEW k \in 0 .. Retries, NEW s \in Statuses,
             Webhook(r, k, s)
      PROVE Placed'
  <2>1. handler[r] = "accepted"
    BY <1>7, RequestsAssumption DEF Placed, Webhook
  <2> QED BY <1>7, <2>1 DEF Placed, TypeOK, Webhook, Awaits
<1>8. CASE Restart
  BY <1>8 DEF Placed, TypeOK, Restart, Awaits
<1>9. ASSUME NEW p \in Posts, EngineAccepts(p) \/ EngineFinishes(p) PROVE Placed'
  BY <1>9 DEF Placed, EngineAccepts, EngineFinishes, gatewayVars
<1>10. CASE UNCHANGED vars
  BY <1>10 DEF Placed, vars, gatewayVars
<1> QED
  BY <1>1, <1>2, <1>3, <1>4, <1>5, <1>6, <1>7, <1>8, <1>9, <1>10, StepCases

\* The engine never sees a post before it is made.
LEMMA UnpostedStep == TypeOK /\ Unposted /\ [Next]_vars => Unposted'
<1> SUFFICES ASSUME TypeOK, Unposted, [Next]_vars PROVE Unposted'
    OBVIOUS
<1>1. ASSUME NEW r \in Requests, Early(r) PROVE Unposted'
  BY <1>1 DEF Unposted, TypeOK, Early, Answer
<1>2. ASSUME NEW r \in Requests, Reserves(r) PROVE Unposted'
  BY <1>2 DEF Unposted, TypeOK, Reserves, Reserve
<1>3. ASSUME NEW r \in Requests, Drops(r) PROVE Unposted'
  <2>1. CASE UNCHANGED tx
    BY <1>3, <2>1 DEF Unposted, TypeOK, Drops, Abandon
  <2>2. CASE tx' = [tx EXCEPT ![<<r, attempt[r]>>] = "refused"]
    BY <1>3, <2>2 DEF Unposted, TypeOK, Drops, Abandon, Posts
  <2> QED BY <1>3, <2>1, <2>2 DEF Drops
<1>4. ASSUME NEW r \in Requests, Admits(r) PROVE Unposted'
  BY <1>4 DEF Unposted, TypeOK, Admits, Answer
<1>5. ASSUME NEW r \in Requests, PostAnswered(r) PROVE Unposted'
  BY <1>5 DEF Unposted, TypeOK, PostAnswered
<1>6. ASSUME NEW r \in Requests, NEW k \in 0 .. Retries, Posting(r, k) PROVE Unposted'
  <2> SUFFICES ASSUME NEW q \in Requests, NEW j \in 0 .. Retries,
                      \/ handler'[q] \in {"new", "verifying", "screening", "estimating"}
                      \/ handler'[q] = "posting" /\ j > attempt'[q]
               PROVE  tx'[<<q, j>>] = "unsent"
      BY DEF Unposted
  <2>1. <<q, j>> \in Posts
    BY DEF Posts
  <2>2. CASE q = r
    <3>1. j > k
      BY <1>6, <2>2 DEF TypeOK, Posting, Post
    <3>2. tx[<<q, j>>] = "unsent"
      BY <1>6, <2>2, <3>1, ConfigAssumption DEF TypeOK, Unposted, Posting
    <3> QED BY <1>6, <2>1, <3>1, <3>2 DEF TypeOK, Posting, Post
  <2>3. CASE q # r
    BY <1>6, <2>1, <2>3 DEF TypeOK, Unposted, Posting, Post
  <2> QED BY <2>2, <2>3
<1>7. ASSUME NEW r \in Requests, NEW k \in 0 .. Retries, NEW s \in Statuses,
             Webhook(r, k, s)
      PROVE Unposted'
  BY <1>7 DEF Unposted, Webhook
<1>8. CASE Restart
  BY <1>8 DEF Unposted, TypeOK, Restart, Awaits
<1>9. ASSUME NEW p \in Posts, EngineAccepts(p) \/ EngineFinishes(p) PROVE Unposted'
  BY <1>9 DEF Unposted, TypeOK, EngineAccepts, EngineFinishes, gatewayVars, Posts
<1>10. CASE UNCHANGED vars
  BY <1>10 DEF Unposted, vars, gatewayVars
<1> QED
  BY <1>1, <1>2, <1>3, <1>4, <1>5, <1>6, <1>7, <1>8, <1>9, <1>10, StepCases

-----------------------------------------------------------------------------
\* Two intents in flight never share a marker.
LEMMA MarkersDistinct ==
  ASSUME SingleFlight, NEW r \in InFlight, NEW q \in InFlight, q # r
  PROVE  MarkerOf[q] # MarkerOf[r]
<1>1. dedup[MarkerOf[r]] = [state |-> "inflight", owner |-> r]
  BY Zenon DEF SingleFlight
<1>2. dedup[MarkerOf[q]] = [state |-> "inflight", owner |-> q]
  BY Zenon DEF SingleFlight
<1>3. [state |-> "inflight", owner |-> r] # [state |-> "inflight", owner |-> q]
  OBVIOUS
<1> QED BY <1>1, <1>2, <1>3

\* A suspended handler holds the reservation of its marker alone, so the end of
\* one reservation never touches another.
LEMMA FlightStep ==
  TypeOK /\ Placed /\ SingleFlight /\ [Next]_vars => SingleFlight'
<1> SUFFICES ASSUME TypeOK, Placed, SingleFlight, [Next]_vars PROVE SingleFlight'
    OBVIOUS
<1>0. \A r \in Requests : MarkerOf[r] \in Markers
  BY RequestsAssumption
<1>1. ASSUME NEW r \in Requests, Early(r) PROVE SingleFlight'
  BY <1>1 DEF SingleFlight, InFlight, Early, Answer
<1>2. ASSUME NEW r \in Requests, Reserves(r) PROVE SingleFlight'
  BY <1>0, <1>2 DEF SingleFlight, InFlight, TypeOK, Reserves, Reserve
<1>3. ASSUME NEW r \in Requests, Drops(r) PROVE SingleFlight'
  <2>1. r \in InFlight
    BY <1>3 DEF Drops, Placed, InFlight
  <2>2. InFlight' = InFlight \ {r}
    BY <1>3 DEF Drops, Abandon, InFlight, TypeOK
  <2>3. \A q \in InFlight \ {r} : MarkerOf[q] # MarkerOf[r]
    BY <2>1, MarkersDistinct
  <2>4. dedup' = [dedup EXCEPT ![MarkerOf[r]] = NoEntry]
    BY <1>3 DEF Drops, Abandon
  <2> QED BY <1>0, <2>1, <2>2, <2>3, <2>4 DEF SingleFlight, NoEntry, TypeOK, InFlight
<1>4. ASSUME NEW r \in Requests, Admits(r) PROVE SingleFlight'
  BY <1>4 DEF SingleFlight, InFlight, Admits, Answer
<1>5. ASSUME NEW r \in Requests, PostAnswered(r) PROVE SingleFlight'
  <2>1. r \in InFlight
    BY <1>5 DEF PostAnswered, Placed, InFlight, Awaits
  <2>2. InFlight' = InFlight
    BY <1>5, <2>1 DEF PostAnswered, AttachEngineTx, InFlight, TypeOK
  <2> QED BY <1>5, <2>2 DEF PostAnswered, SingleFlight
<1>6. ASSUME NEW r \in Requests, NEW k \in 0 .. Retries, Posting(r, k)
      PROVE SingleFlight'
  BY <1>6 DEF SingleFlight, InFlight, Posting, Post
<1>7. ASSUME NEW r \in Requests, NEW k \in 0 .. Retries, NEW s \in Statuses,
             Webhook(r, k, s)
      PROVE SingleFlight'
  <2>1. r \in InFlight
    BY <1>7 DEF Webhook, TypeOK, Statuses, Terminal, InFlight
  <2>2. dedup[MarkerOf[r]] = [state |-> "inflight", owner |-> r]
    BY <2>1 DEF SingleFlight
  <2>3. \A q \in InFlight \ {r} : MarkerOf[q] # MarkerOf[r]
    BY <2>1, MarkersDistinct
  <2>4. CASE s \in Terminal
    <3>1. InFlight' = InFlight \ {r}
      BY <1>7, <2>4 DEF Webhook, InFlight, TypeOK, Terminal
    <3>2. PICK t \in {"completed", "failed"} :
            dedup' = [dedup EXCEPT ![MarkerOf[r]] = [state |-> t, owner |-> r]]
      BY <1>7, <2>2, <2>4 DEF Webhook, Mark, Terminal
    <3> QED BY <1>0, <2>1, <2>2, <2>3, <3>1, <3>2 DEF SingleFlight, TypeOK, InFlight
  <2>5. CASE s \notin Terminal
    <3>1. s = "submitted" /\ UNCHANGED dedup
      BY <1>7, <2>5 DEF Webhook, Reportable, Terminal
    <3>2. InFlight' = InFlight
      BY <1>7, <2>1, <3>1 DEF Webhook, InFlight, TypeOK
    <3> QED BY <3>1, <3>2 DEF SingleFlight
  <2> QED BY <2>4, <2>5
<1>8. CASE Restart
  BY <1>8 DEF SingleFlight, InFlight, Restart, NoEntry
<1>9. ASSUME NEW p \in Posts, EngineAccepts(p) \/ EngineFinishes(p)
      PROVE SingleFlight'
  BY <1>9 DEF SingleFlight, InFlight, EngineAccepts, EngineFinishes, gatewayVars
<1>10. CASE UNCHANGED vars
  BY <1>10 DEF SingleFlight, InFlight, vars, gatewayVars
<1> QED
  BY <1>1, <1>2, <1>3, <1>4, <1>5, <1>6, <1>7, <1>8, <1>9, <1>10, StepCases

\* What the chain has executed stays executed.
LEMMA ExecutedStays ==
  ASSUME TypeOK, Unposted, [Next]_vars, NEW m \in Markers, Executed(m)
  PROVE  Executed(m)'
<1> PICK p \in Posts : MarkerOf[p[1]] = m /\ tx[p] = "mined"
    BY DEF Executed
<1> SUFFICES tx'[p] = "mined"
    BY DEF Executed
<1>1. ASSUME NEW r \in Requests, Drops(r) PROVE tx'[p] = "mined"
  BY <1>1 DEF Drops, TypeOK
<1>2. ASSUME NEW r \in Requests, NEW k \in 0 .. Retries, Posting(r, k)
      PROVE tx'[p] = "mined"
  <2>1. <<r, k>> \in Posts
    BY DEF Posts
  <2>2. tx[<<r, k>>] = "unsent"
    BY <1>2, ConfigAssumption DEF Unposted, Posting, TypeOK
  <2> QED BY <1>2, <2>1, <2>2 DEF Posting, Post, TypeOK
<1>3. ASSUME NEW q \in Posts, EngineAccepts(q) \/ EngineFinishes(q)
      PROVE tx'[p] = "mined"
  BY <1>3 DEF EngineAccepts, EngineFinishes, TypeOK
<1> QED
  BY <1>1, <1>2, <1>3, StepCases
  DEF Early, Reserves, Admits, PostAnswered, Webhook, Restart, vars

\* A confirmation comes from a mined transaction, at once or through the entry
\* of the marker.
LEMMA SuccessStep ==
  TypeOK /\ Placed /\ Unposted /\ NoFalseSuccess /\ [Next]_vars => NoFalseSuccess'
<1> SUFFICES ASSUME TypeOK, Placed, Unposted, NoFalseSuccess, [Next]_vars
             PROVE  NoFalseSuccess'
    OBVIOUS
<1>0. /\ \A r \in Requests : MarkerOf[r] \in Markers
      /\ \A m \in Markers : Executed(m) => Executed(m)'
  BY RequestsAssumption, ExecutedStays
<1>1. ASSUME NEW r \in Requests, Early(r) PROVE NoFalseSuccess'
  BY <1>0, <1>1 DEF NoFalseSuccess, TypeOK, Early, Answer
<1>2. ASSUME NEW r \in Requests, Reserves(r) PROVE NoFalseSuccess'
  BY <1>0, <1>2 DEF NoFalseSuccess, TypeOK, Reserves, Reserve
<1>3. ASSUME NEW r \in Requests, Drops(r) PROVE NoFalseSuccess'
  BY <1>0, <1>3 DEF NoFalseSuccess, TypeOK, Drops, Abandon, NoEntry
<1>4. ASSUME NEW r \in Requests, Admits(r) PROVE NoFalseSuccess'
  BY <1>0, <1>4 DEF NoFalseSuccess, TypeOK, Admits, Answer
<1>5. ASSUME NEW r \in Requests, PostAnswered(r) PROVE NoFalseSuccess'
  BY <1>0, <1>5 DEF NoFalseSuccess, TypeOK, PostAnswered, AttachEngineTx
<1>6. ASSUME NEW r \in Requests, NEW k \in 0 .. Retries, Posting(r, k)
      PROVE NoFalseSuccess'
  BY <1>0, <1>6 DEF NoFalseSuccess, TypeOK, Posting, Post
<1>7. ASSUME NEW r \in Requests, NEW k \in 0 .. Retries, NEW s \in Statuses,
             Webhook(r, k, s)
      PROVE NoFalseSuccess'
  <2>1. s = "confirmed" => Executed(MarkerOf[r])'
    <3> SUFFICES ASSUME s = "confirmed" PROVE Executed(MarkerOf[r])
        BY <1>0
    <3>1. <<r, k>> \in Posts /\ <<r, k>>[1] = r
      BY DEF Posts
    <3>2. tx[<<r, k>>] = "mined"
      BY <1>7 DEF Webhook, Reportable
    <3> QED BY <3>1, <3>2 DEF Executed
  <2>2. \A m \in Markers : dedup'[m].state = "completed" =>
          dedup[m].state = "completed" \/ (m = MarkerOf[r] /\ s = "confirmed")
    BY <1>0, <1>7 DEF Webhook, Mark, TypeOK
  <2>3. \A q \in Requests : record'[q] = "confirmed" =>
          record[q] = "confirmed" \/ (q = r /\ s = "confirmed")
    BY <1>7 DEF Webhook, TypeOK
  <2> QED BY <1>0, <1>7, <2>1, <2>2, <2>3 DEF NoFalseSuccess, Webhook
<1>8. CASE Restart
  BY <1>0, <1>8 DEF NoFalseSuccess, TypeOK, Restart, NoEntry, Awaits
<1>9. ASSUME NEW p \in Posts, EngineAccepts(p) \/ EngineFinishes(p)
      PROVE NoFalseSuccess'
  BY <1>0, <1>9 DEF NoFalseSuccess, EngineAccepts, EngineFinishes, gatewayVars
<1>10. CASE UNCHANGED vars
  BY <1>0, <1>10 DEF NoFalseSuccess, vars, gatewayVars
<1> QED
  BY <1>1, <1>2, <1>3, <1>4, <1>5, <1>6, <1>7, <1>8, <1>9, <1>10, StepCases

\* The set of admitted intents grows by an admission only, and that counts
\* every other intent in flight first.
LEMMA QueueStep ==
  TypeOK /\ Placed /\ QueueBounded /\ [Next]_vars => QueueBounded'
<1> SUFFICES ASSUME TypeOK, Placed, QueueBounded, [Next]_vars PROVE QueueBounded'
    OBVIOUS
<1>a. QueueBounded <=> Cardinality(Admitted) =< MaxQueueDepth
  BY DEF QueueBounded, Admitted
<1>b. QueueBounded' <=> Cardinality(Admitted') =< MaxQueueDepth
  BY DEF QueueBounded, Admitted
<1>c. IsFiniteSet(InFlight) /\ IsFiniteSet(Admitted)
  <2>1. InFlight \subseteq Requests /\ Admitted \subseteq Requests
    BY DEF InFlight, Admitted
  <2> QED BY <2>1, FS_Subset, RequestsAssumption
<1>d. ASSUME Admitted' \subseteq Admitted PROVE QueueBounded'
  <2>1. IsFiniteSet(Admitted') /\ Cardinality(Admitted') =< Cardinality(Admitted)
    BY <1>c, <1>d, FS_Subset
  <2>2. Cardinality(Admitted') \in Nat /\ Cardinality(Admitted) \in Nat
    BY <1>c, <2>1, FS_CardinalityType
  <2> QED BY <1>a, <1>b, <2>1, <2>2, ConfigAssumption
<1>1. ASSUME NEW r \in Requests, Early(r) PROVE Admitted' \subseteq Admitted
  BY <1>1 DEF Admitted, InFlight, Placed, TypeOK, Early, Answer, Awaits
<1>2. ASSUME NEW r \in Requests, Reserves(r) PROVE Admitted' \subseteq Admitted
  BY <1>2 DEF Admitted, InFlight, TypeOK, Reserves, Reserve
<1>3. ASSUME NEW r \in Requests, Drops(r) PROVE Admitted' \subseteq Admitted
  BY <1>3 DEF Admitted, InFlight, TypeOK, Drops, Abandon
<1>4. ASSUME NEW r \in Requests, Admits(r) PROVE QueueBounded'
  <2>1. Admitted' \subseteq (InFlight \ {r}) \cup {r}
    BY <1>4 DEF Admitted, InFlight, TypeOK, Admits, Answer
  <2>2. IsFiniteSet(InFlight \ {r}) /\ Cardinality(InFlight \ {r}) \in Nat
    BY <1>c, FS_Subset, FS_CardinalityType
  <2>3. /\ IsFiniteSet((InFlight \ {r}) \cup {r})
        /\ Cardinality((InFlight \ {r}) \cup {r}) = Cardinality(InFlight \ {r}) + 1
    BY <2>2, FS_AddElement
  <2>4. /\ IsFiniteSet(Admitted')
        /\ Cardinality(Admitted') =< Cardinality((InFlight \ {r}) \cup {r})
    BY <2>1, <2>3, FS_Subset
  <2>5. Cardinality(Admitted') \in Nat
    BY <2>4, FS_CardinalityType
  <2>6. Cardinality(InFlight \ {r}) < MaxQueueDepth
    BY <1>4 DEF Admits, QueueHasRoom
  <2> QED BY <1>b, <2>2, <2>3, <2>4, <2>5, <2>6, ConfigAssumption
<1>5. ASSUME NEW r \in Requests, PostAnswered(r) PROVE Admitted' \subseteq Admitted
  BY <1>5 DEF Admitted, InFlight, Placed, TypeOK, PostAnswered, AttachEngineTx, Awaits
<1>6. ASSUME NEW r \in Requests, NEW k \in 0 .. Retries, Posting(r, k)
      PROVE Admitted' \subseteq Admitted
  BY <1>6 DEF Admitted, InFlight, TypeOK, Posting, Post
<1>7. ASSUME NEW r \in Requests, NEW k \in 0 .. Retries, NEW s \in Statuses,
             Webhook(r, k, s)
      PROVE Admitted' \subseteq Admitted
  <2>1. r \in InFlight
    BY <1>7 DEF Webhook, TypeOK, Statuses, Terminal, InFlight
  <2> QED BY <1>7, <2>1 DEF Admitted, InFlight, TypeOK, Webhook
<1>8. CASE Restart
  <2>1. InFlight' = {}
    BY <1>8 DEF Restart, InFlight
  <2>2. Admitted' \subseteq Admitted
    BY <2>1 DEF Admitted
  <2> QED BY <1>d, <2>2
<1>9. ASSUME NEW p \in Posts, EngineAccepts(p) \/ EngineFinishes(p)
      PROVE Admitted' \subseteq Admitted
  BY <1>9 DEF Admitted, InFlight, EngineAccepts, EngineFinishes, gatewayVars
<1>10. ASSUME UNCHANGED vars PROVE Admitted' \subseteq Admitted
  BY <1>10 DEF Admitted, InFlight, vars, gatewayVars
<1> QED
  BY <1>d, <1>1, <1>2, <1>3, <1>4, <1>5, <1>6, <1>7, <1>8, <1>9, <1>10, StepCases

-----------------------------------------------------------------------------
\* The inductive invariant of the gateway.
THEOREM GatewayInvariant == Spec => []Inv
<1>1. Inv /\ [Next]_vars => Inv'
  BY TypeStep, PlacedStep, UnpostedStep, FlightStep, SuccessStep, QueueStep DEF Inv
<1> QED BY InitInv, <1>1, PTL DEF Spec

\* The gateway's maps and the engine's states stay well typed, and no
\* submission is posted more than 1 + Retries times.
THEOREM GatewayTypeCorrect == Spec => []TypeOK
<1>1. Inv => TypeOK
  BY DEF Inv
<1> QED BY GatewayInvariant, <1>1, PTL

\* Reservations and intents in flight agree, whatever the handlers await
\* (server.js, policy/dedup.js): no two identical intents are relayed at once
\* and no reservation is left behind.
THEOREM GatewaySingleFlight == Spec => []SingleFlight
<1>1. Inv => SingleFlight
  BY DEF Inv
<1> QED BY GatewayInvariant, <1>1, PTL

\* The gateway never reports a success the chain has not seen
\* (engine/webhook.js, FR-006).
THEOREM GatewayNoFalseSuccess == Spec => []NoFalseSuccess
<1>1. Inv => NoFalseSuccess
  BY DEF Inv
<1> QED BY GatewayInvariant, <1>1, PTL

\* The queue bound holds although it is checked after the record is created
\* (policy/backpressure.js, FR-009).
THEOREM GatewayQueueBounded == Spec => []QueueBounded
<1>1. Inv => QueueBounded
  BY DEF Inv
<1> QED BY GatewayInvariant, <1>1, PTL

\* An accepted intent is never dropped and its status never goes back, but for
\* a restart (intent/store.js, engine/webhook.js).
THEOREM GatewayNeverAcceptAndDrop == Spec => NeverAcceptAndDrop
<1> DEFINE Kept(r) ==
      handler[r] = "accepted" /\ record[r] # "none" /\ restarts' = restarts =>
        /\ engineTxId'[r] = engineTxId[r]
        /\ record'[r] # "none"
        /\ record[r] = "submitted" => record'[r] # "queued"
        /\ record[r] \in Terminal => record'[r] = record[r]
<1>1. ASSUME Inv, [Next]_vars, NEW r \in Requests PROVE Kept(r)
  <2> SUFFICES ASSUME handler[r] = "accepted", record[r] # "none",
                      restarts' = restarts
               PROVE  /\ engineTxId'[r] = engineTxId[r]
                      /\ record'[r] # "none"
                      /\ record[r] = "submitted" => record'[r] # "queued"
                      /\ record[r] \in Terminal => record'[r] = record[r]
      OBVIOUS
  <2> USE <1>1 DEF Inv, TypeOK
  <2>1. ASSUME NEW q \in Requests, Early(q)
        PROVE  engineTxId'[r] = engineTxId[r] /\ record'[r] = record[r]
    BY <2>1 DEF Early, Answer
  <2>2. ASSUME NEW q \in Requests, Reserves(q)
        PROVE  engineTxId'[r] = engineTxId[r] /\ record'[r] = record[r]
    BY <2>2 DEF Reserves, Reserve
  <2>3. ASSUME NEW q \in Requests, Drops(q)
        PROVE  engineTxId'[r] = engineTxId[r] /\ record'[r] = record[r]
    BY <2>3 DEF Drops, Abandon, Awaits
  <2>4. ASSUME NEW q \in Requests, Admits(q)
        PROVE  engineTxId'[r] = engineTxId[r] /\ record'[r] = record[r]
    BY <2>4 DEF Admits, Answer
  <2>5. ASSUME NEW q \in Requests, PostAnswered(q)
        PROVE  engineTxId'[r] = engineTxId[r] /\ record'[r] = record[r]
    BY <2>5 DEF PostAnswered, AttachEngineTx
  <2>6. ASSUME NEW q \in Requests, NEW k \in 0 .. Retries, Posting(q, k)
        PROVE  engineTxId'[r] = engineTxId[r] /\ record'[r] = record[r]
    BY <2>6 DEF Posting, Post
  <2>7. ASSUME NEW q \in Requests, NEW k \in 0 .. Retries, NEW s \in Statuses,
               Webhook(q, k, s)
        PROVE  /\ engineTxId'[r] = engineTxId[r]
               /\ record'[r] # "none"
               /\ record[r] = "submitted" => record'[r] # "queued"
               /\ record[r] \in Terminal => record'[r] = record[r]
    BY <2>7 DEF Webhook, Reportable
  <2>8. ~Restart
    BY ConfigAssumption DEF Restart
  <2>9. ASSUME NEW p \in Posts, EngineAccepts(p) \/ EngineFinishes(p)
        PROVE  engineTxId'[r] = engineTxId[r] /\ record'[r] = record[r]
    BY <2>9 DEF EngineAccepts, EngineFinishes, gatewayVars
  <2>10. ASSUME UNCHANGED vars
         PROVE  engineTxId'[r] = engineTxId[r] /\ record'[r] = record[r]
    BY <2>10 DEF vars, gatewayVars
  <2> QED
    BY <2>1, <2>2, <2>3, <2>4, <2>5, <2>6, <2>7, <2>8, <2>9, <2>10, StepCases
<1>2. Inv /\ [Next]_vars => [\A r \in Requests : Kept(r)]_vars
  BY <1>1
<1> QED BY GatewayInvariant, <1>2, PTL DEF Spec, NeverAcceptAndDrop
-----------------------------------------------------------------------------
\* A step leaves what a client sees of q alone.
SameFor(q) ==
  AnswerTo(q)' = AnswerTo(q) /\ Exposed(q)' = Exposed(q) /\ ReportOf(q)' = ReportOf(q)

\* The ways in which IntentRelay lets a step change what a client sees of r.
Receives(r) ==
  /\ AnswerTo(r) = "none" /\ AnswerTo(r)' = "open"
  /\ Exposed(r)' = Exposed(r) /\ ReportOf(r)' = ReportOf(r)

Refuses(r) ==
  /\ AnswerTo(r) \in {"none", "open"} /\ AnswerTo(r)' = "refused"
  /\ ~Exposed(r) /\ Exposed(r)' = Exposed(r) /\ ReportOf(r)' = ReportOf(r)

Exposes(r) ==
  /\ AnswerTo(r) = "open" /\ AnswerTo(r)' = "open"
  /\ Exposed(r)' /\ ReportOf(r)' = ReportOf(r)

GivesUp(r) ==
  /\ AnswerTo(r) = "open" /\ AnswerTo(r)' = "gaveup"
  /\ Exposed(r) /\ Exposed(r)' /\ ReportOf(r)' = ReportOf(r)

Takes(r) ==
  /\ AnswerTo(r) = "open" /\ AnswerTo(r)' = "taken"
  /\ Exposed(r) /\ Exposed(r)' /\ ReportOf(r)' \in {"queued", "submitted"}

Repeats(r) ==
  /\ AnswerTo(r) = "open" /\ AnswerTo(r)' = "original" /\ Executed(MarkerOf[r])
  /\ Exposed(r)' = Exposed(r) /\ ReportOf(r)' = ReportOf(r)

Reports(r) ==
  /\ AnswerTo(r)' = AnswerTo(r) /\ Exposed(r)' = Exposed(r)
  /\ ReportOf(r) \in {"queued", "submitted"}
  /\ ReportOf(r)' \in {"submitted", "confirmed", "failed"}
  /\ ReportOf(r)' = "confirmed" => Executed(MarkerOf[r])

AllowedFor(r) ==
  \/ Receives(r) \/ Refuses(r) \/ Exposes(r) \/ GivesUp(r) \/ Takes(r)
  \/ Repeats(r) \/ Reports(r)

\* Such a step is a step of IntentRelay.
LEMMA AllowedRefines ==
  ASSUME NEW r \in Requests, AllowedFor(r) \/ SameFor(r),
         \A q \in Requests \ {r} : SameFor(q),
         \A m \in Markers : Executed(m)' = Executed(m)
  PROVE  [Relay!Next]_Relay!vars
<1> DEFINE ans == [q \in Requests |-> AnswerTo(q)]
           exp == {q \in Requests : Exposed(q)}
           exe == {m \in Markers : Executed(m)}
           rep == [q \in Requests |-> ReportOf(q)]
<1>0. MarkerOf[r] \in Markers
  BY RequestsAssumption
<1>1. exe' = exe
  BY Zenon
<1>2. CASE SameFor(r)
  <2>1. \A q \in Requests : SameFor(q)
    BY <1>2
  <2>2. ans' = ans /\ exp' = exp /\ rep' = rep
    BY <2>1 DEF SameFor
  <2> QED BY <1>1, <2>2 DEF Relay!vars
<1>3. ASSUME Exposed(r)' = Exposed(r) PROVE exp' = exp
  BY <1>3 DEF SameFor
<1>4. ASSUME Exposed(r)' PROVE exp' = exp \cup {r}
  BY <1>4 DEF SameFor
<1>5. ASSUME ReportOf(r)' = ReportOf(r) PROVE rep' = rep
  BY <1>5 DEF SameFor
<1>6. rep' = [rep EXCEPT ![r] = ReportOf(r)']
  BY DEF SameFor
<1>7. ans' = [ans EXCEPT ![r] = AnswerTo(r)']
  BY DEF SameFor
<1>8. ASSUME AnswerTo(r)' = AnswerTo(r) PROVE ans' = ans
  BY <1>8 DEF SameFor
<1>9. ASSUME AllowedFor(r) PROVE Relay!Next
  <2> USE <1>1, <1>7
  <2>0. /\ ans[r] = AnswerTo(r) /\ rep[r] = ReportOf(r)
        /\ r \in exp <=> Exposed(r)
        /\ MarkerOf[r] \in exe <=> Executed(MarkerOf[r])
    BY <1>0
  <2>1. CASE Receives(r)
    <3>1. Relay!Receive(r)
      BY <1>3, <1>5, <2>0, <2>1 DEF Receives, Relay!Receive, Relay!Answers
    <3> QED BY <3>1 DEF Relay!Next
  <2>2. CASE Refuses(r)
    <3>1. Relay!Refuse(r)
      BY <1>3, <1>5, <2>0, <2>2 DEF Refuses, Relay!Refuse, Relay!Answers
    <3> QED BY <3>1 DEF Relay!Next
  <2>3. CASE Exposes(r)
    <3>1. Relay!Expose(r)
      BY <1>4, <1>5, <1>8, <2>0, <2>3 DEF Exposes, Relay!Expose
    <3> QED BY <3>1 DEF Relay!Next
  <2>4. CASE GivesUp(r)
    <3>1. Relay!GiveUp(r)
      BY <1>3, <1>5, <2>0, <2>4 DEF GivesUp, Relay!GiveUp, Relay!Answers
    <3> QED BY <3>1 DEF Relay!Next
  <2>5. CASE Takes(r)
    <3>1. Relay!Take(r)
      BY <1>3, <1>6, <2>0, <2>5 DEF Takes, Relay!Take, Relay!Answers, Relay!Unsettled
    <3> QED BY <3>1 DEF Relay!Next
  <2>6. CASE Repeats(r)
    <3>1. Relay!AnswerOriginal(r)
      BY <1>3, <1>5, <2>0, <2>6 DEF Repeats, Relay!AnswerOriginal, Relay!Answers
    <3> QED BY <3>1 DEF Relay!Next
  <2>7. CASE Reports(r)
    <3>1. Relay!Report(r, ReportOf(r)')
      BY <1>3, <1>6, <1>8, <2>0, <2>7 DEF Reports, Relay!Report, Relay!Unsettled
    <3> QED BY <2>7, <3>1 DEF Reports, Relay!Next
  <2> QED
    BY <1>9, <2>1, <2>2, <2>3, <2>4, <2>5, <2>6, <2>7 DEF AllowedFor
<1> QED BY <1>2, <1>9

\* What a client sees depends on the request's handler, record and posts alone.
LEMMA SeenOf ==
  ASSUME NEW q \in Requests, handler'[q] = handler[q], record'[q] = record[q],
         Exposed(q)' = Exposed(q)
  PROVE  SameFor(q)
BY DEF SameFor, AnswerTo, ReportOf

\* A step that leaves the posts alone leaves the chain and the exposure alone.
LEMMA PostsSame ==
  ASSUME UNCHANGED tx
  PROVE  /\ \A q \in Requests : Exposed(q)' = Exposed(q)
         /\ \A m \in Markers : Executed(m)' = Executed(m)
BY DEF Exposed, Executed

\* A post that changes without being mined, before or after, leaves the chain
\* alone, and the exposure of every other request.
LEMMA OnePost ==
  ASSUME TypeOK, NEW p \in Posts, NEW v \in TxStates, tx' = [tx EXCEPT ![p] = v],
         tx[p] # "mined", v # "mined", v # "unsent"
  PROVE  /\ \A q \in Requests \ {p[1]} : Exposed(q)' = Exposed(q)
         /\ Exposed(p[1])'
         /\ tx[p] # "unsent" => Exposed(p[1])
         /\ \A m \in Markers : Executed(m)' = Executed(m)
<1>1. \A q \in Posts : q # p => tx'[q] = tx[q]
  BY DEF TypeOK
<1>2. tx'[p] = v
  BY DEF TypeOK
<1>3. p = <<p[1], p[2]>> /\ p[1] \in Requests /\ p[2] \in 0 .. Retries
  BY DEF Posts
<1>4. \A q \in Requests \ {p[1]} : \A k \in 0 .. Retries :
        tx'[<<q, k>>] = tx[<<q, k>>]
  BY <1>1, <1>3 DEF Posts
<1>5. \A q \in Posts : tx'[q] = "mined" <=> tx[q] = "mined"
  BY <1>1, <1>2
<1> QED BY <1>2, <1>3, <1>4, <1>5 DEF Exposed, Executed

\* Every step of the gateway, of the engine and of the chain is a step of
\* IntentRelay or invisible to a client.
LEMMA RelayStep == Inv /\ [Next]_vars => [Relay!Next]_Relay!vars
<1> SUFFICES ASSUME Inv, [Next]_vars PROVE [Relay!Next]_Relay!vars
    OBVIOUS
<1> USE DEF Inv
<1>1. ASSUME NEW r \in Requests, Early(r) PROVE [Relay!Next]_Relay!vars
  <2>1. ~Exposed(r)
    BY <1>1 DEF Early, Unposted, Exposed
  <2>2. /\ \A q \in Requests : Exposed(q)' = Exposed(q)
        /\ \A m \in Markers : Executed(m)' = Executed(m)
    BY <1>1, PostsSame DEF Early
  <2>3. /\ \A q \in Requests \ {r} : handler'[q] = handler[q]
        /\ \A q \in Requests : record'[q] = record[q]
    BY <1>1 DEF Early, Answer, TypeOK
  <2>4. \A q \in Requests \ {r} : SameFor(q)
    BY <2>2, <2>3, SeenOf
  <2>5. AllowedFor(r) \/ SameFor(r)
    <3>1. /\ AnswerTo(r) \in {"none", "open"}
          /\ ReportOf(r) = "none" /\ ReportOf(r)' = "none"
      BY <1>1 DEF Early, Answer, TypeOK, AnswerTo, ReportOf, Awaits
    <3>2. CASE Answer(r, "verifying")
      <4>1. AnswerTo(r)' = "open"
        BY <3>2 DEF Answer, TypeOK, AnswerTo
      <4>2. CASE handler[r] = "new"
        BY <2>2, <3>1, <4>1, <4>2 DEF AllowedFor, Receives, AnswerTo
      <4>3. CASE handler[r] = "verifying"
        BY <2>2, <3>1, <4>1, <4>3 DEF SameFor, AnswerTo
      <4> QED BY <1>1, <4>2, <4>3 DEF Early
    <3>3. CASE Answer(r, "rejected") \/ Answer(r, "duplicate")
      <4>1. AnswerTo(r)' = "refused"
        BY <2>1, <2>2, <3>3 DEF Answer, TypeOK, AnswerTo, Awaits
      <4> QED BY <2>1, <2>2, <3>1, <4>1 DEF AllowedFor, Refuses
    <3>4. CASE dedup[MarkerOf[r]].state = "completed" /\ Answer(r, "original")
               /\ handler[r] = "verifying"
      <4>1. Executed(MarkerOf[r])
        BY <3>4, RequestsAssumption DEF NoFalseSuccess
      <4>2. AnswerTo(r) = "open" /\ AnswerTo(r)' = "original"
        BY <3>4 DEF Answer, TypeOK, AnswerTo, Awaits
      <4> QED BY <2>2, <3>1, <4>1, <4>2 DEF AllowedFor, Repeats
    <3> QED BY <1>1, <3>2, <3>3, <3>4 DEF Early
  <2> QED BY <2>2, <2>4, <2>5, AllowedRefines
<1>2. ASSUME NEW r \in Requests, Reserves(r) PROVE [Relay!Next]_Relay!vars
  <2>1. /\ \A q \in Requests : Exposed(q)' = Exposed(q)
        /\ \A m \in Markers : Executed(m)' = Executed(m)
    BY <1>2, PostsSame DEF Reserves
  <2>2. \A q \in Requests \ {r} : handler'[q] = handler[q] /\ record'[q] = record[q]
    BY <1>2 DEF Reserves, Reserve, TypeOK
  <2>3. \A q \in Requests \ {r} : SameFor(q)
    BY <2>1, <2>2, SeenOf
  <2>4. SameFor(r)
    BY <1>2, <2>1
    DEF Reserves, Reserve, TypeOK, SameFor, AnswerTo, ReportOf, Awaits
  <2> QED BY <2>1, <2>3, <2>4, AllowedRefines
<1>3. ASSUME NEW r \in Requests, Admits(r) PROVE [Relay!Next]_Relay!vars
  <2>1. /\ \A q \in Requests : Exposed(q)' = Exposed(q)
        /\ \A m \in Markers : Executed(m)' = Executed(m)
    BY <1>3, PostsSame DEF Admits
  <2>2. \A q \in Requests \ {r} : handler'[q] = handler[q] /\ record'[q] = record[q]
    BY <1>3 DEF Admits, Answer, TypeOK
  <2>3. \A q \in Requests \ {r} : SameFor(q)
    BY <2>1, <2>2, SeenOf
  <2>4. SameFor(r)
    BY <1>3, <2>1 DEF Admits, Answer, TypeOK, SameFor, AnswerTo, ReportOf, Awaits
  <2> QED BY <2>1, <2>3, <2>4, AllowedRefines
<1>4. ASSUME NEW r \in Requests, Drops(r) PROVE [Relay!Next]_Relay!vars
  <2>1. \A q \in Requests \ {r} : handler'[q] = handler[q] /\ record'[q] = record[q]
    BY <1>4 DEF Drops, Abandon, TypeOK
  <2>2. /\ AnswerTo(r) = "open"
        /\ ReportOf(r) = "none" /\ ReportOf(r)' = "none"
        /\ handler'[r] = "rejected"
    BY <1>4 DEF Drops, Abandon, TypeOK, AnswerTo, ReportOf, Awaits
  <2>3. AnswerTo(r)' = IF Exposed(r)' THEN "gaveup" ELSE "refused"
    BY <2>2 DEF AnswerTo, Awaits
  <2>4. /\ \A q \in Requests : Exposed(q)' = Exposed(q)
        /\ \A m \in Markers : Executed(m)' = Executed(m)
    <3>1. CASE UNCHANGED tx
      BY <3>1, PostsSame
    <3>2. CASE /\ tx[<<r, attempt[r]>>] = "sent"
               /\ tx' = [tx EXCEPT ![<<r, attempt[r]>>] = "refused"]
      <4> DEFINE p == <<r, attempt[r]>>
      <4>1. p \in Posts /\ p[1] = r /\ "refused" \in TxStates
        BY DEF TypeOK, Posts, TxStates
      <4>2. /\ \A q \in Requests \ {r} : Exposed(q)' = Exposed(q)
            /\ Exposed(r)' /\ Exposed(r)
            /\ \A m \in Markers : Executed(m)' = Executed(m)
        BY <3>2, <4>1, OnePost
      <4>3. Exposed(r)' = Exposed(r)
        BY <4>2 DEF Exposed
      <4> QED BY <4>2, <4>3
    <3> QED BY <1>4, <3>1, <3>2 DEF Drops
  <2>5. AllowedFor(r)
    <3>1. CASE Exposed(r)
      BY <2>2, <2>3, <2>4, <3>1 DEF AllowedFor, GivesUp
    <3>2. CASE ~Exposed(r)
      BY <2>2, <2>3, <2>4, <3>2 DEF AllowedFor, Refuses
    <3> QED BY <3>1, <3>2
  <2>6. \A q \in Requests \ {r} : SameFor(q)
    BY <2>1, <2>4, SeenOf
  <2> QED BY <2>4, <2>5, <2>6, AllowedRefines
<1>5. ASSUME NEW r \in Requests, PostAnswered(r) PROVE [Relay!Next]_Relay!vars
  <2>1. /\ \A q \in Requests : Exposed(q)' = Exposed(q)
        /\ \A m \in Markers : Executed(m)' = Executed(m)
    BY <1>5, PostsSame DEF PostAnswered
  <2>2. \A q \in Requests \ {r} : handler'[q] = handler[q] /\ record'[q] = record[q]
    BY <1>5 DEF PostAnswered, AttachEngineTx, TypeOK
  <2>3. \A q \in Requests \ {r} : SameFor(q)
    BY <2>1, <2>2, SeenOf
  <2>4. AnswerTo(r) = "open" /\ AnswerTo(r)' = "taken"
        /\ ReportOf(r)' \in {"queued", "submitted"}
    BY <1>5 DEF PostAnswered, AttachEngineTx, TypeOK, AnswerTo, ReportOf, Awaits
  <2>5. Exposed(r)
    BY <1>5 DEF PostAnswered, Held, TypeOK, Exposed
  <2>6. AllowedFor(r)
    BY <2>1, <2>4, <2>5 DEF AllowedFor, Takes
  <2> QED BY <2>1, <2>3, <2>6, AllowedRefines
<1>6. ASSUME NEW r \in Requests, NEW k \in 0 .. Retries, Posting(r, k)
      PROVE [Relay!Next]_Relay!vars
  <2> DEFINE p == <<r, k>>
  <2>1. p \in Posts /\ p[1] = r /\ "sent" \in TxStates
    BY DEF Posts, TxStates
  <2>2. tx[p] = "unsent"
    BY <1>6, ConfigAssumption DEF Unposted, Posting, TypeOK
  <2>3. tx' = [tx EXCEPT ![p] = "sent"]
    BY <1>6 DEF Posting, Post
  <2>4. /\ \A q \in Requests \ {r} : Exposed(q)' = Exposed(q)
        /\ Exposed(r)'
        /\ \A m \in Markers : Executed(m)' = Executed(m)
    BY <2>1, <2>2, <2>3, OnePost
  <2>5. \A q \in Requests \ {r} : handler'[q] = handler[q] /\ record'[q] = record[q]
    BY <1>6 DEF Posting, Post, TypeOK
  <2>6. \A q \in Requests \ {r} : SameFor(q)
    BY <2>4, <2>5, SeenOf
  <2>7. AnswerTo(r) = "open" /\ AnswerTo(r)' = "open" /\ ReportOf(r)' = ReportOf(r)
    BY <1>6 DEF Posting, Post, TypeOK, AnswerTo, ReportOf, Awaits
  <2>8. AllowedFor(r)
    BY <2>4, <2>7 DEF AllowedFor, Exposes
  <2> QED BY <2>4, <2>6, <2>8, AllowedRefines
<1>7. ASSUME NEW r \in Requests, NEW k \in 0 .. Retries, NEW s \in Statuses,
             Webhook(r, k, s)
      PROVE [Relay!Next]_Relay!vars
  <2>1. /\ \A q \in Requests : Exposed(q)' = Exposed(q)
        /\ \A m \in Markers : Executed(m)' = Executed(m)
    BY <1>7, PostsSame DEF Webhook
  <2>2. \A q \in Requests \ {r} : handler'[q] = handler[q] /\ record'[q] = record[q]
    BY <1>7 DEF Webhook, TypeOK
  <2>3. \A q \in Requests \ {r} : SameFor(q)
    BY <2>1, <2>2, SeenOf
  <2>4. handler[r] = "accepted" /\ handler'[r] = "accepted"
    BY <1>7, RequestsAssumption DEF Placed, Webhook
  <2>5. /\ AnswerTo(r)' = AnswerTo(r)
        /\ ReportOf(r) \in {"queued", "submitted"}
        /\ ReportOf(r)' = s /\ s \in {"submitted", "confirmed", "failed"}
    BY <1>7, <2>4
    DEF Webhook, TypeOK, Statuses, Terminal, Reportable, AnswerTo, ReportOf, Awaits
  <2>6. s = "confirmed" => Executed(MarkerOf[r])
    <3> SUFFICES ASSUME s = "confirmed" PROVE Executed(MarkerOf[r])
        OBVIOUS
    <3>1. <<r, k>> \in Posts /\ <<r, k>>[1] = r
      BY DEF Posts
    <3>2. tx[<<r, k>>] = "mined"
      BY <1>7 DEF Webhook, Reportable
    <3> QED BY <3>1, <3>2 DEF Executed
  <2>7. AllowedFor(r)
    BY <2>1, <2>5, <2>6 DEF AllowedFor, Reports
  <2> QED BY <2>1, <2>3, <2>7, AllowedRefines
<1>8. CASE Restart
  <2>1. /\ \A q \in Requests : Exposed(q)' = Exposed(q)
        /\ \A m \in Markers : Executed(m)' = Executed(m)
    BY <1>8, PostsSame DEF Restart
  <2>2. \A q \in Requests :
          /\ AnswerTo(q)' = IF AnswerTo(q) = "open" THEN "lost" ELSE AnswerTo(q)
          /\ ReportOf(q)' = "none"
    <3> SUFFICES ASSUME NEW q \in Requests
                 PROVE /\ AnswerTo(q)' = IF AnswerTo(q) = "open" THEN "lost" ELSE AnswerTo(q)
                       /\ ReportOf(q)' = "none"
        OBVIOUS
    <3>1. handler'[q] = IF handler[q] \in Awaits \cup {"verifying"} THEN "lost"
                        ELSE handler[q]
      BY <1>8 DEF Restart
    <3>2. ReportOf(q)' = "none"
      BY <1>8 DEF Restart, ReportOf
    <3> QED BY <2>1, <3>1, <3>2 DEF TypeOK, AnswerTo, Awaits, Answers
  <2>3. {q \in Requests : Exposed(q)}' = {q \in Requests : Exposed(q)}
    BY <2>1
  <2>4. {m \in Markers : Executed(m)}' = {m \in Markers : Executed(m)}
    BY <2>1
  <2>5. Relay!Forget
    BY <2>2, <2>3, <2>4 DEF Relay!Forget
  <2> QED BY <2>5 DEF Relay!Next
<1>9. ASSUME NEW p \in Posts, NEW v \in {"pending", "failed"},
             tx[p] \in {"sent", "pending"}, tx' = [tx EXCEPT ![p] = v],
             UNCHANGED gatewayVars
      PROVE [Relay!Next]_Relay!vars
  <2>1. p[1] \in Requests /\ v \in TxStates
    BY DEF Posts, TxStates
  <2>2. /\ \A q \in Requests \ {p[1]} : Exposed(q)' = Exposed(q)
        /\ Exposed(p[1])' /\ Exposed(p[1])
        /\ \A m \in Markers : Executed(m)' = Executed(m)
    BY <1>9, <2>1, OnePost
  <2>3. \A q \in Requests : Exposed(q)' = Exposed(q)
    BY <2>2 DEF Exposed
  <2>4. \A q \in Requests : SameFor(q)
    BY <1>9, <2>3, SeenOf DEF gatewayVars
  <2> QED BY <2>1, <2>2, <2>4, AllowedRefines
<1>10. ASSUME NEW p \in Posts, tx[p] = "pending", ~Executed(MarkerOf[p[1]]),
              tx' = [tx EXCEPT ![p] = "mined"], UNCHANGED gatewayVars
       PROVE [Relay!Next]_Relay!vars
  <2> DEFINE m == MarkerOf[p[1]]
  <2>1. p = <<p[1], p[2]>> /\ p[1] \in Requests /\ p[2] \in 0 .. Retries /\ m \in Markers
    BY RequestsAssumption DEF Posts
  <2>2. tx'[p] = "mined" /\ \A q \in Posts \ {p} : tx'[q] = tx[q]
    BY <1>10 DEF TypeOK
  <2>3. \A q \in Posts : tx'[q] # "unsent" <=> tx[q] # "unsent"
    BY <1>10, <2>2
  <2>4. \A q \in Requests : Exposed(q)' = Exposed(q)
    BY <2>3 DEF Exposed, Posts
  <2>5. \A q \in Requests : SameFor(q)
    BY <1>10, <2>4, SeenOf DEF gatewayVars
  <2>6. \A n \in Markers : Executed(n)' <=> Executed(n) \/ n = m
    BY <2>1, <2>2, <1>10 DEF Executed
  <2>7. {n \in Markers : Executed(n)}' = {n \in Markers : Executed(n)} \cup {m}
    BY <2>1, <2>6
  <2>8. Exposed(p[1])
    BY <1>10, <2>1 DEF Exposed
  <2>9. /\ [q \in Requests |-> AnswerTo(q)]' = [q \in Requests |-> AnswerTo(q)]
        /\ {q \in Requests : Exposed(q)}' = {q \in Requests : Exposed(q)}
        /\ [q \in Requests |-> ReportOf(q)]' = [q \in Requests |-> ReportOf(q)]
    BY <2>4, <2>5 DEF SameFor
  <2>10. Relay!Execute(m)
    <3>1. m \in Markers \ {n \in Markers : Executed(n)}
      BY <1>10, <2>1
    <3>2. \E q \in {q \in Requests : Exposed(q)} : MarkerOf[q] = m
      BY <2>1, <2>8
    <3> QED BY <2>7, <2>9, <3>1, <3>2 DEF Relay!Execute
  <2> QED BY <2>1, <2>10 DEF Relay!Next
<1>11. CASE UNCHANGED vars
  <2>1. /\ \A q \in Requests : Exposed(q)' = Exposed(q)
        /\ \A m \in Markers : Executed(m)' = Executed(m)
    BY <1>11, PostsSame DEF vars
  <2>2. \A q \in Requests : SameFor(q)
    BY <1>11, <2>1, SeenOf DEF vars, gatewayVars
  <2>3. /\ [q \in Requests |-> AnswerTo(q)]' = [q \in Requests |-> AnswerTo(q)]
        /\ {q \in Requests : Exposed(q)}' = {q \in Requests : Exposed(q)}
        /\ {m \in Markers : Executed(m)}' = {m \in Markers : Executed(m)}
        /\ [q \in Requests |-> ReportOf(q)]' = [q \in Requests |-> ReportOf(q)]
    BY <2>1, <2>2 DEF SameFor
  <2> QED BY <2>3 DEF Relay!vars
<1>12. ASSUME NEW p \in Posts, EngineAccepts(p) \/ EngineFinishes(p)
       PROVE [Relay!Next]_Relay!vars
  BY <1>9, <1>10, <1>12 DEF EngineAccepts, EngineFinishes
<1> QED
  BY <1>1, <1>2, <1>3, <1>4, <1>5, <1>6, <1>7, <1>8, <1>11, <1>12, StepCases

\* The gateway implements IntentRelay: an answer of refusal given before the
\* hand-off, a confirmation and a marker's single execution mean what a client
\* takes them to mean, for any number of requests, retries and restarts.
THEOREM GatewayImplementsIntentRelay == Spec => ImplementsIntentRelay
<1>1. Init => Relay!Init
  <2> SUFFICES ASSUME Init PROVE Relay!Init
      OBVIOUS
  <2>1. \A p \in Posts : tx[p] = "unsent"
    BY DEF Init
  <2>2. \A r \in Requests : AnswerTo(r) = "none" /\ ~Exposed(r) /\ ReportOf(r) = "none"
    BY <2>1 DEF Init, AnswerTo, Exposed, ReportOf, Posts
  <2>3. \A m \in Markers : ~Executed(m)
    BY <2>1 DEF Executed
  <2> QED BY <2>2, <2>3 DEF Relay!Init
<1> QED
  BY <1>1, RelayStep, GatewayInvariant, PTL DEF Spec, ImplementsIntentRelay, Relay!Spec
=============================================================================
