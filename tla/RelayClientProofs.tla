------------------------- MODULE RelayClientProofs -------------------------
(***************************************************************************)
(* What RelayClient promises for any number of calls of the hook, against  *)
(* any gateway that keeps the promise of IntentRelay.                      *)
(*                                                                         *)
(* The invariants of the client rest on what it may conclude from an       *)
(* answer, RelaySound, and on Traced: which calls can have left an entry   *)
(* of the feed or a wallet transaction behind.                             *)
(***************************************************************************)
EXTENDS RelayClient, TLAPS

\* What the gateway's answers and reports mean.
RelaySound ==
  /\ executed \subseteq exposed
  /\ \A r \in Runs : /\ answer[r] = "refused" => r \notin exposed
                     /\ answer[r] = "original" => r \in executed
                     /\ report[r] = "confirmed" => r \in executed

\* Where a call that polled may be.
Accepted == {"polling", "confirmed body", "failed body", "status body",
             "relayed", "failed", "expired", "pending"}

\* A body that says confirmed is about an intent that was executed; only a call
\* that went to the wallet has a transaction; only a call that was accepted has
\* polled; an expired intent is overdue, and past its validity on the chain too
\* unless the device's clock is ahead.
Traced ==
  /\ \A q \in Runs : pc[q] = "confirmed body" => q \in executed
  /\ \A q \in selfMined : pc[q] \in {"paying", "paid", "unverified", "unpaid"}
  /\ \A q \in Runs : <<q, "submitted">> \in feed => pc[q] \in Accepted
  /\ \A q \in Runs : <<q, "expired">> \in feed => q \in overdue
  /\ deviceClock = "ahead" \/ overdue \subseteq lapsed

Inv == TypeOK /\ RelaySound /\ Traced /\ ConfirmedIsOnChain

-----------------------------------------------------------------------------
\* The steps of a call that touch neither the relay nor the chain.
CallStep(r) ==
  \/ Run(r) \/ SelfSubmitNow(r) \/ TimerStep(r) \/ NetworkStep(r) \/ SignFails(r)
  \/ SelfSubmitMined(r) \/ SelfSubmitUnverified(r) \/ SelfSubmitFails(r)

LEMMA InitInv == Init => Inv
BY RunsAssumption
DEF Init, Inv, TypeOK, Places, RelaySound, Traced, Accepted, ConfirmedIsOnChain, Relay!Init, Relay!TypeOK

\* A step of the gateway keeps the relay's types and the meaning of its answers,
\* and what the chain has executed.  It executes valid intents only.
LEMMA GatewayStep ==
  ASSUME TypeOK, RelaySound, Gateway
  PROVE  /\ Relay!TypeOK' /\ RelaySound'
         /\ executed \subseteq executed'
         /\ executed' \cap lapsed \subseteq executed
<1> USE DEF TypeOK, RelaySound, Relay!TypeOK, Relay!Answered, Relay!Unsettled, Relay!Answers
<1>1. ASSUME NEW r \in posted,
             Relay!Receive(r) \/ Relay!Refuse(r) \/ Relay!GiveUp(r)
             \/ Relay!AnswerOriginal(r)
      PROVE  /\ Relay!TypeOK' /\ RelaySound' /\ executed' = executed
  BY <1>1 DEF Relay!Receive, Relay!Refuse, Relay!GiveUp, Relay!AnswerOriginal
<1>2. ASSUME NEW r \in posted, Relay!Expose(r)
      PROVE  /\ Relay!TypeOK' /\ RelaySound' /\ executed' = executed
  BY <1>2 DEF Relay!Expose
<1>3. ASSUME NEW r \in posted, Relay!Take(r)
      PROVE  /\ Relay!TypeOK' /\ RelaySound' /\ executed' = executed
  BY <1>3 DEF Relay!Take
<1>4. ASSUME NEW r \in posted, NEW s \in {"submitted", "confirmed", "failed"},
             Relay!Report(r, s)
      PROVE  /\ Relay!TypeOK' /\ RelaySound' /\ executed' = executed
  BY <1>4 DEF Relay!Report
<1>5. ASSUME NEW r \in posted \ (lapsed \cup burned), Relay!Execute(r)
      PROVE  /\ Relay!TypeOK' /\ RelaySound' /\ executed' = executed \cup {r}
  BY <1>5 DEF Relay!Execute
<1>6. CASE Relay!Forget
  BY <1>6 DEF Relay!Forget
<1> QED BY <1>1, <1>2, <1>3, <1>4, <1>5, <1>6 DEF Gateway

\* A step of a call leaves the chain and the relay alone.
LEMMA CallLeaves ==
  ASSUME NEW r \in Runs, CallStep(r)
  PROVE  UNCHANGED <<posted, chainVars, relayVars>>
BY DEF CallStep, TimerStep, NetworkStep, CallUnchanged, Run, SelfSubmitNow, SignFails,
       ProbeFails, ProbeAnswered, ProbeRead, PostUnreachable, PostAnswered, PostTaken,
       PostOriginal, PostRejected, PostUnavailable, PollAnswered, PollConfirmed,
       PollFailed, PollAgain, PollExpired, PollsOver, SelfSubmitMined, SelfSubmitUnverified,
       SelfSubmitFails

\* It moves the call to another place ...
LEMMA CallMoves ==
  ASSUME NEW r \in Runs, CallStep(r)
  PROVE  \E l \in Places : Goto(r, l)
BY DEF CallStep, TimerStep, NetworkStep, Run, SelfSubmitNow, SelfSubmit, SignFails,
       ProbeFails, ProbeAnswered, ProbeRead, PostUnreachable, PostAnswered, PostTaken,
       PostOriginal, PostRejected, PostUnavailable, PollAnswered, PollConfirmed,
       PollFailed, PollAgain, PollExpired, PollsOver, SelfSubmitMined,
       SelfSubmitUnverified, SelfSubmitFails, Confirm,
       Places, Bounded, Reading, Wallet, Returned

\* ... and leaves entries of the known kinds.
LEMMA CallTells ==
  ASSUME TypeOK, NEW r \in Runs, CallStep(r)
  PROVE  feed' \subseteq Runs \X Kinds
<1>1. ASSUME NEW k \in Kinds, Emit(r, k) PROVE feed' \subseteq Runs \X Kinds
  BY <1>1 DEF TypeOK, Emit
<1>2. CASE feed' = feed
  BY <1>2 DEF TypeOK
<1>3. CASE PostOriginal(r) \/ PollConfirmed(r)
  <2>1. feed' \subseteq feed \cup {<<r, "submitted">>, <<r, "confirmed">>}
    BY <1>3 DEF PostOriginal, PollConfirmed, Confirm
  <2>2. <<r, "submitted">> \in Runs \X Kinds /\ <<r, "confirmed">> \in Runs \X Kinds
    BY DEF Kinds
  <2> QED BY <2>1, <2>2 DEF TypeOK
<1>4. CASE Run(r) \/ SelfSubmitNow(r) \/ SignFails(r) \/ ProbeFails(r) \/ ProbeAnswered(r)
           \/ ProbeRead(r) \/ PostUnreachable(r) \/ PostAnswered(r) \/ PostUnavailable(r)
           \/ PollAnswered(r) \/ PollAgain(r) \/ PollsOver(r) \/ SelfSubmitUnverified(r)
  <2>1. feed' = feed
    BY <1>4 DEF Run, SelfSubmitNow, SignFails, ProbeFails, ProbeAnswered, ProbeRead,
       PostUnreachable, PostAnswered, PostUnavailable, PollAnswered, PollAgain, PollsOver,
       SelfSubmitUnverified, hookVars
  <2> QED BY <2>1, <1>2
<1>5. CASE PostTaken(r) \/ PostRejected(r) \/ PollFailed(r) \/ PollExpired(r)
           \/ SelfSubmitMined(r) \/ SelfSubmitFails(r)
  <2>1. \E k \in Kinds : Emit(r, k)
    BY <1>5 DEF PostTaken, PostRejected, PollFailed, PollExpired, SelfSubmitMined,
       SelfSubmitFails, Kinds
  <2> QED BY <2>1, <1>1
<1> QED BY <1>3, <1>4, <1>5 DEF CallStep, TimerStep, NetworkStep

\* Every step keeps the types.
LEMMA TypeStep == TypeOK /\ RelaySound /\ [Next]_vars => TypeOK'
<1> SUFFICES ASSUME TypeOK, RelaySound, [Next]_vars PROVE TypeOK'
    OBVIOUS
<1> USE DEF TypeOK, hookVars, clockVars, chainVars, relayVars
<1>1. ASSUME NEW r \in Runs, CallStep(r) PROVE TypeOK'
  <2>1. pc' \in [Runs -> Places]
    BY <1>1, CallMoves DEF Goto
  <2>2. feed' \subseteq Runs \X Kinds
    BY <1>1, CallTells
  <2>3. /\ status' \in {"idle", "signing", "submitting", "pending", "confirmed", "failed",
                        "expired", "invalidated", "self-submitting", "self-submitted"}
        /\ intent' \in Runs \cup {None}
        /\ unsubmitted' \in posted \cup {None}
        /\ invalidation' = invalidation
    BY <1>1 DEF CallStep, TimerStep, NetworkStep, CallUnchanged, Run, SelfSubmitNow,
       SelfSubmit, SignFails, ProbeFails, ProbeAnswered, ProbeRead, PostUnreachable,
       PostAnswered, PostTaken, PostOriginal, PostRejected, PostUnavailable, Confirm,
       PollAnswered, PollConfirmed, PollFailed, PollAgain, PollExpired, PollsOver,
       SelfSubmitMined, SelfSubmitUnverified, SelfSubmitFails
  <2>4. UNCHANGED <<posted, chainVars, relayVars>>
    BY <1>1, CallLeaves
  <2> QED BY <2>1, <2>2, <2>3, <2>4 DEF Relay!TypeOK
<1>2. ASSUME NEW r \in Runs, Sign(r) PROVE TypeOK'
  BY <1>2 DEF Sign, Goto, Places, Bounded, Relay!TypeOK
<1>3. ASSUME NEW r \in Runs, Invalidate(r) \/ Invalidated(r) \/ InvalidateFails(r)
      PROVE TypeOK'
  BY <1>3 DEF Invalidate, Invalidated, InvalidateFails, Emit, Kinds, Relay!TypeOK
<1>4. ASSUME NEW r \in Runs, Lapse(r) \/ Overdue(r) \/ Burn(r) \/ SelfMine(r) PROVE TypeOK'
  BY <1>4 DEF Lapse, Overdue, Burn, SelfMine, Relay!TypeOK
<1>5. CASE Reset
  BY <1>5 DEF Reset, Relay!TypeOK
<1>6. CASE Gateway
  <2>1. Relay!TypeOK'
    BY <1>6, GatewayStep
  <2> QED BY <1>6, <2>1 DEF Gateway
<1>7. CASE UNCHANGED vars
  BY <1>7 DEF vars, Relay!TypeOK
<1> QED
  BY <1>1, <1>2, <1>3, <1>4, <1>5, <1>6, <1>7 DEF Next, WalletStep, CallStep

-----------------------------------------------------------------------------
\* The answers keep their meaning, since only the gateway touches them.
LEMMA SoundStep == TypeOK /\ RelaySound /\ [Next]_vars => RelaySound'
<1> SUFFICES ASSUME TypeOK, RelaySound, [Next]_vars PROVE RelaySound'
    OBVIOUS
<1>1. CASE Gateway
  BY <1>1, GatewayStep
<1>2. CASE UNCHANGED relayVars
  BY <1>2 DEF RelaySound, relayVars
<1>3. ASSUME NEW r \in Runs, CallStep(r) PROVE UNCHANGED relayVars
  BY <1>3, CallLeaves
<1> QED
  BY <1>1, <1>2, <1>3
  DEF Next, CallStep, WalletStep, Sign, Invalidate, Invalidated, InvalidateFails,
      Lapse, Overdue, Burn, SelfMine, Reset, vars

\* A call moves on from idle, an await or nowhere; what it leaves behind fits.
LEMMA TracedStep == TypeOK /\ RelaySound /\ Traced /\ [Next]_vars => Traced'
<1> SUFFICES ASSUME TypeOK, RelaySound, Traced, [Next]_vars PROVE Traced'
    OBVIOUS
<1> USE DEF Traced, Accepted
<1>1. ASSUME NEW r \in Runs, CallStep(r) PROVE Traced'
  <2>0. UNCHANGED <<posted, chainVars, relayVars>>
    BY <1>1, CallLeaves
  <2> USE <2>0 DEF Goto, Emit, SelfSubmit, TypeOK,
             hookVars, clockVars, chainVars, relayVars
  <2>1. CASE Run(r) \/ SelfSubmitNow(r) \/ ProbeFails(r) \/ ProbeRead(r) \/ SignFails(r)
    BY <2>1 DEF Run, SelfSubmitNow, ProbeFails, ProbeRead, SignFails
  <2>2. CASE PostTaken(r) \/ PostRejected(r) \/ PostUnavailable(r) \/ PostUnreachable(r)
    BY <2>2 DEF PostTaken, PostRejected, PostUnavailable, PostUnreachable
  <2>3. CASE PostOriginal(r) \/ PollConfirmed(r)
    BY <2>3 DEF PostOriginal, PollConfirmed, Confirm
  <2>4. CASE PollFailed(r) \/ PollExpired(r) \/ PollsOver(r)
    BY <2>4 DEF PollFailed, PollExpired, PollsOver
  <2>5. CASE SelfSubmitMined(r) \/ SelfSubmitUnverified(r) \/ SelfSubmitFails(r)
    BY <2>5 DEF SelfSubmitMined, SelfSubmitUnverified, SelfSubmitFails
  <2>6. CASE ProbeAnswered(r) \/ PostAnswered(r) \/ PollAnswered(r) \/ PollAgain(r)
    BY <2>6 DEF ProbeAnswered, PostAnswered, PollAnswered, PollAgain, RelaySound
  <2> QED BY <1>1, <2>1, <2>2, <2>3, <2>4, <2>5, <2>6 DEF CallStep, TimerStep, NetworkStep
<1> USE DEF hookVars, clockVars, chainVars, relayVars
<1>2. ASSUME NEW r \in Runs, Sign(r) PROVE Traced'
  BY <1>2 DEF Sign, Goto, TypeOK
<1>3. ASSUME NEW r \in Runs, Invalidate(r) \/ Invalidated(r) \/ InvalidateFails(r)
      PROVE Traced'
  BY <1>3 DEF Invalidate, Invalidated, InvalidateFails, Emit, TypeOK
<1>4. ASSUME NEW r \in Runs, Lapse(r) \/ Overdue(r) \/ Burn(r) \/ SelfMine(r) PROVE Traced'
  BY <1>4 DEF Lapse, Overdue, Burn, SelfMine
<1>5. CASE Reset
  BY <1>5 DEF Reset
<1>6. CASE Gateway
  <2>1. executed \subseteq executed'
    BY <1>6, GatewayStep
  <2> QED BY <1>6, <2>1 DEF Gateway
<1>7. CASE UNCHANGED vars
  BY <1>7 DEF vars
<1> QED
  BY <1>1, <1>2, <1>3, <1>4, <1>5, <1>6, <1>7 DEF Next, WalletStep, CallStep

\* A confirmation is shown when the chain has executed something, and the chain
\* forgets nothing.
LEMMA ConfirmedStep ==
  TypeOK /\ RelaySound /\ Traced /\ ConfirmedIsOnChain /\ [Next]_vars
    => ConfirmedIsOnChain'
<1> SUFFICES ASSUME TypeOK, RelaySound, Traced, ConfirmedIsOnChain, [Next]_vars
             PROVE  ConfirmedIsOnChain'
    OBVIOUS
<1> USE DEF ConfirmedIsOnChain
<1>1. ASSUME NEW r \in Runs, CallStep(r) PROVE ConfirmedIsOnChain'
  <2>0. UNCHANGED <<posted, chainVars, relayVars>>
    BY <1>1, CallLeaves
  <2> USE <2>0 DEF Emit, SelfSubmit, TypeOK,
             hookVars, clockVars, chainVars, relayVars
  <2>1. CASE Run(r) \/ SelfSubmitNow(r) \/ ProbeFails(r) \/ ProbeRead(r) \/ SignFails(r)
    BY <2>1 DEF Run, SelfSubmitNow, ProbeFails, ProbeRead, SignFails
  <2>2. CASE PostTaken(r) \/ PostRejected(r) \/ PostUnavailable(r) \/ PostUnreachable(r)
    BY <2>2 DEF PostTaken, PostRejected, PostUnavailable, PostUnreachable
  <2>3. CASE PostOriginal(r) \/ PollConfirmed(r)
    BY <2>3 DEF PostOriginal, PollConfirmed, Confirm, RelaySound, Traced
  <2>4. CASE PollFailed(r) \/ PollExpired(r) \/ PollsOver(r)
    BY <2>4 DEF PollFailed, PollExpired, PollsOver
  <2>5. CASE SelfSubmitMined(r) \/ SelfSubmitUnverified(r) \/ SelfSubmitFails(r)
    BY <2>5 DEF SelfSubmitMined, SelfSubmitUnverified, SelfSubmitFails
  <2>6. CASE ProbeAnswered(r) \/ PostAnswered(r) \/ PollAnswered(r) \/ PollAgain(r)
    BY <2>6 DEF ProbeAnswered, PostAnswered, PollAnswered, PollAgain
  <2> QED BY <1>1, <2>1, <2>2, <2>3, <2>4, <2>5, <2>6 DEF CallStep, TimerStep, NetworkStep
<1> USE DEF hookVars, clockVars, chainVars, relayVars
<1>2. ASSUME NEW r \in Runs, Sign(r) PROVE ConfirmedIsOnChain'
  BY <1>2 DEF Sign
<1>3. ASSUME NEW r \in Runs, Invalidate(r) \/ Invalidated(r) \/ InvalidateFails(r)
      PROVE ConfirmedIsOnChain'
  BY <1>3 DEF Invalidate, Invalidated, InvalidateFails, Emit
<1>4. ASSUME NEW r \in Runs, Lapse(r) \/ Overdue(r) \/ Burn(r) \/ SelfMine(r)
      PROVE ConfirmedIsOnChain'
  BY <1>4 DEF Lapse, Overdue, Burn, SelfMine
<1>5. CASE Reset
  BY <1>5 DEF Reset
<1>6. CASE Gateway
  <2>1. executed \subseteq executed'
    BY <1>6, GatewayStep
  <2> QED BY <1>6, <2>1 DEF Gateway
<1>7. CASE UNCHANGED vars
  BY <1>7 DEF vars
<1> QED
  BY <1>1, <1>2, <1>3, <1>4, <1>5, <1>6, <1>7 DEF Next, WalletStep, CallStep

-----------------------------------------------------------------------------
\* The inductive invariant of the hook and the relay it talks to.
THEOREM ClientInvariant == Spec => []Inv
<1>1. Inv /\ [Next]_vars => Inv'
  BY TypeStep, SoundStep, TracedStep, ConfirmedStep DEF Inv
<1> QED BY InitInv, <1>1, PTL DEF Spec

\* The state of the hook, the feed and the chain keep their types.
THEOREM ClientTypeCorrect == Spec => []TypeOK
<1>1. Inv => TypeOK
  BY DEF Inv
<1> QED BY ClientInvariant, <1>1, PTL

\* FR-018: nothing is shown as confirmed that the chain has not executed.
THEOREM ClientConfirmedIsOnChain == Spec => []ConfirmedIsOnChain
<1>1. Inv => ConfirmedIsOnChain
  BY DEF Inv
<1> QED BY ClientInvariant, <1>1, PTL

\* A run takes effect by relayer and wallet both only if its acceptance never
\* reached the client and the gateway had not refused it.
THEOREM ClientTwiceOnlyUnanswered == Spec => []TwiceOnlyUnanswered
<1>1. Inv => TwiceOnlyUnanswered
  BY DEF Inv, Traced, Accepted, RelaySound, TwiceOnlyUnanswered, TypeOK
<1> QED BY ClientInvariant, <1>1, PTL

\* On a device whose clock is not ahead of the chain's, an intent reported
\* expired and not executed never runs.
THEOREM ClientExpiredIsOver == Spec => ExpiredIsOver
<1>1. ASSUME Inv, [Next]_vars, deviceClock = "behind", NEW r \in Runs,
             <<r, "expired">> \in feed, r \notin executed
      PROVE  r \notin executed'
  <2>1. r \in lapsed
    BY <1>1 DEF Inv, Traced
  <2>2. CASE Gateway
    BY <1>1, <2>1, <2>2, GatewayStep DEF Inv
  <2>3. ASSUME NEW q \in Runs, CallStep(q) PROVE executed' = executed
    BY <2>3, CallLeaves DEF relayVars
  <2> QED
    BY <1>1, <2>2, <2>3
    DEF Next, CallStep, WalletStep, Sign, Invalidate, Invalidated, InvalidateFails,
        Lapse, Overdue, Burn, SelfMine, Reset, vars, relayVars
<1>2. Inv /\ [Next]_vars =>
        [deviceClock = "behind" =>
           \A r \in Runs : <<r, "expired">> \in feed /\ r \notin executed =>
             r \notin executed']_vars
  BY <1>1
<1> QED BY ClientInvariant, <1>2, PTL DEF Spec, ExpiredIsOver
=============================================================================
