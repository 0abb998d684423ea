---------------------------- MODULE RelayClient ----------------------------
(***************************************************************************)
(* The gasless path of the frontend (lib/relay/useIntentAction.js over     *)
(* intentClient.js): probe the relayer, sign, relay, poll, and send from   *)
(* the user's own wallet whenever the relayer cannot be reached.  It runs  *)
(* against IntentRelay, what the gateway promises a client.                *)
(*                                                                         *)
(* A run is one call of run() or selfSubmitNow() of one mounted hook; the  *)
(* hook does not stop a second call while the first one is still going on. *)
(* JavaScript runs from one await to the next, so pc[r] names the await    *)
(* the call is suspended at or, once it returned, what it returned.  A     *)
(* fetch is two awaits: its timer runs until the headers are there, and    *)
(* the body that follows is read without one.  The nonce of an intent is   *)
(* drawn when it is signed, so the run names the marker as well.           *)
(***************************************************************************)
EXTENDS Naturals

CONSTANTS
  Runs,      \* calls of the hook
  Direct,    \* those that call selfSubmitNow(), the others call run()
  None       \* no intent

ASSUME RunsAssumption == Direct \subseteq Runs /\ None \notin Runs

VARIABLES
  pc,            \* where each call is, or what it returned
  status,        \* the hook's status
  intent,        \* the hook's intent: the run that signed it
  unsubmitted,   \* unsubmittedRef: the intent invalidate() would burn
  feed,          \* activity entries, as pairs of run and kind
  posted,        \* signed intents, which are POSTed at once
  invalidation,  \* invalidate()'s write of each intent: "none", "sent", "over"
  lapsed,        \* intents past their validBefore by block.timestamp
  overdue,       \* intents past their validBefore by the device's clock
  deviceClock,   \* "ahead": the device's clock may run ahead of the chain's
  burned,        \* nonces consumed by an invalidation
  selfMined,     \* runs whose wallet transaction the chain executed
  answer, exposed, executed, report     \* the relay: see IntentRelay

hookVars == <<status, intent, unsubmitted, feed>>
clockVars == <<lapsed, overdue, deviceClock>>
chainVars == <<clockVars, burned, selfMined>>
relayVars == <<answer, exposed, executed, report>>
vars == <<pc, hookVars, posted, invalidation, chainVars, relayVars>>

Relay == INSTANCE IntentRelay WITH
           Requests <- Runs, Markers <- Runs, MarkerOf <- [r \in Runs |-> r]

\* Awaits with a timer: boundedFetch until the headers, and the polling loop.
Bounded == {"probing", "posting", "polling"}

\* Awaits of a body, named after what the headers (and for a status, the
\* gateway's record) said: nothing limits how long they take.
Reading == {"health body", "accepted body", "refused body", "busy body",
            "confirmed body", "failed body", "status body"}

\* Awaits that wait for the user's wallet.
Wallet == {"signing", "paying"}

\* What a call returned: a relayed or a self-submitted transaction, a
\* self-submission without a hash, an error while signing, a rejection by the
\* relayer, a failure reported by it, an intent that expired or is still
\* pending, an error of the self-submission.
Returned == {"relayed", "paid", "unverified", "unsigned", "rejected", "failed",
             "expired", "pending", "unpaid"}

Places == {"idle"} \cup Bounded \cup Reading \cup Wallet \cup Returned

\* Activity entries of a relayed intent, and of a wallet transaction.
Kinds == {"submitted", "confirmed", "failed", "expired", "invalidated", "paid", "unpaid"}

Init ==
  /\ pc = [r \in Runs |-> "idle"]
  /\ status = "idle"
  /\ intent = None /\ unsubmitted = None
  /\ feed = {}
  /\ posted = {}
  /\ invalidation = [r \in Runs |-> "none"]
  /\ lapsed = {} /\ overdue = {} /\ deviceClock \in {"ahead", "behind"}
  /\ burned = {} /\ selfMined = {}
  /\ Relay!Init

Goto(r, l) == pc' = [pc EXCEPT ![r] = l]

Emit(r, kind) == feed' = feed \cup {<<r, kind>>}

\* What the steps of a call leave alone.
CallUnchanged == UNCHANGED <<posted, invalidation, chainVars, relayVars>>

-----------------------------------------------------------------------------
\* runSelfSubmit up to the await of the caller's selfSubmit.
SelfSubmit(r) ==
  /\ Goto(r, "paying")
  /\ status' = "self-submitting"

\* run(): without a relayer URL the call goes to the wallet at once, otherwise
\* to the health probe.  The status of an earlier run stays on show meanwhile.
Run(r) ==
  /\ r \notin Direct /\ pc[r] = "idle"
  /\ intent' = None
  /\ \/ SelfSubmit(r)
     \/ Goto(r, "probing") /\ UNCHANGED status
  /\ UNCHANGED <<unsubmitted, feed>> /\ CallUnchanged

\* selfSubmitNow(): "Pay my own gas".
SelfSubmitNow(r) ==
  /\ r \in Direct /\ pc[r] = "idle"
  /\ SelfSubmit(r)
  /\ UNCHANGED <<intent, unsubmitted, feed>> /\ CallUnchanged

\* probeHealth is false for a timeout, a broken connection and an error; ...
ProbeFails(r) ==
  /\ pc[r] = "probing"
  /\ SelfSubmit(r)
  /\ UNCHANGED <<intent, unsubmitted, feed>> /\ CallUnchanged

\* ... once an answer begins, the timer is cleared ...
ProbeAnswered(r) ==
  /\ pc[r] = "probing"
  /\ Goto(r, "health body")
  /\ UNCHANGED hookVars /\ CallUnchanged

\* ... and the body says whether the chain is served.
ProbeRead(r) ==
  /\ pc[r] = "health body"
  /\ \/ SelfSubmit(r)
     \/ Goto(r, "signing") /\ status' = "signing"
  /\ UNCHANGED <<intent, unsubmitted, feed>> /\ CallUnchanged

\* buildIntent has signed, and the intent is posted without another await.
Sign(r) ==
  /\ pc[r] = "signing"
  /\ Goto(r, "posting")
  /\ status' = "submitting"
  /\ intent' = r /\ unsubmitted' = r
  /\ posted' = posted \cup {r}
  /\ UNCHANGED <<feed, invalidation, chainVars, relayVars>>

\* buildIntent throws: payments are impossible on this chain, or the user says
\* no.
SignFails(r) ==
  /\ pc[r] = "signing"
  /\ \/ SelfSubmit(r)
     \/ Goto(r, "unsigned") /\ status' = "failed"
  /\ UNCHANGED <<intent, unsubmitted, feed>> /\ CallUnchanged

\* A confirmation of the relay that carries a transaction hash.
Confirm(r, emitted) ==
  /\ Goto(r, "relayed")
  /\ status' = "confirmed"
  /\ unsubmitted' = None
  /\ feed' = feed \cup emitted \cup {<<r, "confirmed">>}
  /\ UNCHANGED intent

\* Mutant: the POST has no timer.
PostUnreachable_NoTimeout(r) ==
  /\ pc[r] = "posting" /\ answer[r] \in Relay!Answered
  /\ SelfSubmit(r)
  /\ UNCHANGED <<intent, unsubmitted, feed>> /\ CallUnchanged

\* No headers for RELAY_TIMEOUT_MS or a broken connection, whatever the gateway
\* is doing with the intent meanwhile.
PostUnreachable(r) ==
  /\ pc[r] = "posting"
  /\ SelfSubmit(r)
  /\ UNCHANGED <<intent, unsubmitted, feed>> /\ CallUnchanged

\* The headers of the answer, and the end of the timer.  An error may come from
\* whatever stands in front of the gateway, so both kinds are possible at any
\* moment; a success is the gateway's.
PostAnswered(r) ==
  /\ pc[r] = "posting"
  /\ \/ answer[r] \in {"taken", "original"} /\ Goto(r, "accepted body")
     \/ Goto(r, "refused body")
     \/ Goto(r, "busy body")
  /\ UNCHANGED hookVars /\ CallUnchanged

\* Accepted, or the original result without a hash: polling starts.
PostTaken(r) ==
  /\ pc[r] = "accepted body"
  /\ Goto(r, "polling")
  /\ status' = "pending"
  /\ Emit(r, "submitted")
  /\ UNCHANGED <<intent, unsubmitted>> /\ CallUnchanged

\* The original result, confirmed and with its hash.
PostOriginal(r) ==
  /\ pc[r] = "accepted body" /\ answer[r] = "original"
  /\ Confirm(r, {<<r, "submitted">>})
  /\ CallUnchanged

\* 429 and 503, or an acceptance whose body breaks off or has no intentId.
PostUnavailable(r) ==
  /\ pc[r] \in {"busy body", "accepted body"}
  /\ SelfSubmit(r)
  /\ UNCHANGED <<intent, unsubmitted, feed>> /\ CallUnchanged

\* Any other error is taken for a verdict (RelayRejected).
PostRejected(r) ==
  /\ pc[r] = "refused body"
  /\ Goto(r, "rejected")
  /\ status' = "failed"
  /\ Emit(r, "failed")
  /\ UNCHANGED <<intent, unsubmitted>> /\ CallUnchanged

\* A poll is answered: confirmed, failed, or anything else (in flight,
\* forgotten, an error).
PollAnswered(r) ==
  /\ pc[r] = "polling"
  /\ \/ report[r] = "confirmed" /\ Goto(r, "confirmed body")
     \/ report[r] = "failed" /\ Goto(r, "failed body")
     \/ Goto(r, "status body")
  /\ UNCHANGED hookVars /\ CallUnchanged

PollConfirmed(r) ==
  /\ pc[r] = "confirmed body"
  /\ Confirm(r, {})
  /\ CallUnchanged

\* Mutant: a reported failure falls back to the wallet.
PollFailed_FallsBack(r) ==
  /\ pc[r] = "failed body"
  /\ SelfSubmit(r)
  /\ UNCHANGED <<intent, unsubmitted, feed>> /\ CallUnchanged

PollFailed(r) ==
  /\ pc[r] = "failed body"
  /\ Goto(r, "failed")
  /\ status' = "failed"
  /\ Emit(r, "failed")
  /\ UNCHANGED <<intent, unsubmitted>> /\ CallUnchanged

\* Nothing final, or a body that breaks off: another round.
PollAgain(r) ==
  /\ pc[r] \in {"confirmed body", "failed body", "status body"}
  /\ Goto(r, "polling")
  /\ UNCHANGED hookVars /\ CallUnchanged

\* Mutant: the end of the polling budget counts as the end of the intent.
PollExpired_AtBudget(r) ==
  /\ pc[r] = "polling"
  /\ Goto(r, "expired")
  /\ status' = "expired"
  /\ Emit(r, "expired")
  /\ UNCHANGED <<intent, unsubmitted>> /\ CallUnchanged

\* A round finds the validity window over, by the device's clock ...
PollExpired(r) ==
  /\ pc[r] = "polling" /\ r \in overdue
  /\ Goto(r, "expired")
  /\ status' = "expired"
  /\ Emit(r, "expired")
  /\ UNCHANGED <<intent, unsubmitted>> /\ CallUnchanged

\* ... or the polling budget.
PollsOver(r) ==
  /\ pc[r] = "polling" /\ r \notin overdue
  /\ Goto(r, "pending")
  /\ UNCHANGED hookVars /\ CallUnchanged

\* Mutant: a hash is taken for a receipt.
SelfSubmitMined_OnHash(r) ==
  /\ pc[r] = "paying"
  /\ Goto(r, "paid")
  /\ status' = "confirmed"
  /\ unsubmitted' = None
  /\ Emit(r, "paid")
  /\ UNCHANGED intent /\ CallUnchanged

\* selfSubmit resolves with a hash, for which the caller has waited until the
\* transaction was mined, ...
SelfSubmitMined(r) ==
  /\ pc[r] = "paying" /\ r \in selfMined
  /\ Goto(r, "paid")
  /\ status' = "confirmed"
  /\ unsubmitted' = None
  /\ Emit(r, "paid")
  /\ UNCHANGED intent /\ CallUnchanged

\* ... or without one, or throws.
SelfSubmitUnverified(r) ==
  /\ pc[r] = "paying"
  /\ Goto(r, "unverified")
  /\ status' = "self-submitted"
  /\ unsubmitted' = None
  /\ UNCHANGED <<intent, feed>> /\ CallUnchanged

SelfSubmitFails(r) ==
  /\ pc[r] = "paying"
  /\ Goto(r, "unpaid")
  /\ status' = "failed"
  /\ Emit(r, "unpaid")
  /\ UNCHANGED <<intent, unsubmitted>> /\ CallUnchanged

\* What a timer of the call does, ...
TimerStep(r) ==
  \/ ProbeFails(r) \/ PostUnreachable(r)
  \/ PollExpired(r) \/ PollsOver(r)

\* ... and what waits for the network.
NetworkStep(r) ==
  \/ ProbeAnswered(r) \/ ProbeRead(r)
  \/ PostAnswered(r) \/ PostTaken(r) \/ PostOriginal(r)
  \/ PostUnavailable(r) \/ PostRejected(r)
  \/ PollAnswered(r) \/ PollConfirmed(r) \/ PollFailed(r) \/ PollAgain(r)

WalletStep(r) ==
  \/ Sign(r) \/ SignFails(r)
  \/ SelfSubmitMined(r) \/ SelfSubmitUnverified(r) \/ SelfSubmitFails(r)

-----------------------------------------------------------------------------
\* invalidate() up to the await of the contract write.
Invalidate(r) ==
  /\ unsubmitted = r /\ invalidation[r] # "sent"
  /\ invalidation' = [invalidation EXCEPT ![r] = "sent"]
  /\ UNCHANGED <<pc, hookVars, posted, chainVars, relayVars>>

\* The write resolves: the reference is dropped, whatever it refers to by now.
\* A write such as registry.invalidateNonce resolves when it is sent.
Invalidated(r) ==
  /\ invalidation[r] = "sent"
  /\ invalidation' = [invalidation EXCEPT ![r] = "over"]
  /\ unsubmitted' = None
  /\ status' = "invalidated"
  /\ Emit(r, "invalidated")
  /\ UNCHANGED <<pc, intent, posted, chainVars, relayVars>>

\* The write throws, and invalidate() with it.
InvalidateFails(r) ==
  /\ invalidation[r] = "sent"
  /\ invalidation' = [invalidation EXCEPT ![r] = "over"]
  /\ UNCHANGED <<pc, hookVars, posted, chainVars, relayVars>>

\* reset(): calls that are under way go on and write the state when they wake.
Reset ==
  /\ unsubmitted' = None /\ status' = "idle" /\ intent' = None
  /\ UNCHANGED <<pc, feed, posted, invalidation, chainVars, relayVars>>

-----------------------------------------------------------------------------
\* The two clocks.  A device whose clock is not ahead finds an intent overdue
\* only when no block to come can execute it.
Lapse(r) ==
  /\ r \in posted \ lapsed
  /\ lapsed' = lapsed \cup {r}
  /\ UNCHANGED <<pc, hookVars, posted, invalidation, overdue, deviceClock, burned,
                 selfMined, relayVars>>

Overdue(r) ==
  /\ r \in posted \ overdue
  /\ deviceClock = "ahead" \/ r \in lapsed
  /\ overdue' = overdue \cup {r}
  /\ UNCHANGED <<pc, hookVars, posted, invalidation, lapsed, deviceClock, burned,
                 selfMined, relayVars>>

\* The chain: an invalidation consumes its nonce unless the intent did; a wallet
\* transaction is executed, even if the call has given up on it.
Burn(r) ==
  /\ invalidation[r] # "none" /\ r \notin burned \cup executed
  /\ burned' = burned \cup {r}
  /\ UNCHANGED <<pc, hookVars, posted, invalidation, clockVars, selfMined, relayVars>>

SelfMine(r) ==
  /\ pc[r] \in {"paying", "unverified", "unpaid"} /\ r \notin selfMined
  /\ selfMined' = selfMined \cup {r}
  /\ UNCHANGED <<pc, hookVars, posted, invalidation, clockVars, burned, relayVars>>

\* The gateway, once the POST is out; a call that executes the intent needs a
\* fresh nonce and a valid intent.
Gateway ==
  /\ \/ \E r \in posted :
          \/ Relay!Receive(r) \/ Relay!Refuse(r) \/ Relay!Expose(r)
          \/ Relay!GiveUp(r) \/ Relay!Take(r) \/ Relay!AnswerOriginal(r)
          \/ \E s \in {"submitted", "confirmed", "failed"} : Relay!Report(r, s)
     \/ \E r \in posted \ (lapsed \cup burned) : Relay!Execute(r)
     \/ Relay!Forget
  /\ UNCHANGED <<pc, hookVars, posted, invalidation, chainVars>>

Next ==
  \/ \E r \in Runs :
       \/ Run(r) \/ SelfSubmitNow(r)
       \/ TimerStep(r) \/ NetworkStep(r) \/ WalletStep(r)
       \/ Invalidate(r) \/ Invalidated(r) \/ InvalidateFails(r)
       \/ Lapse(r) \/ Overdue(r) \/ Burn(r) \/ SelfMine(r)
  \/ Reset
  \/ Gateway

Spec == Init /\ [][Next]_vars

\* Timers fire, and the polling loop tests its deadline in every round it comes
\* to.  Nothing is assumed of the network, so a body may never come; nor of the
\* gateway, of the chain or of the user's wallet.
FairSpec ==
  /\ Spec
  /\ \A r \in Runs : /\ WF_vars(ProbeFails(r))
                     /\ WF_vars(PostUnreachable(r))
                     /\ SF_vars(PollExpired(r) \/ PollsOver(r))

-----------------------------------------------------------------------------
TypeOK ==
  /\ pc \in [Runs -> Places]
  /\ status \in {"idle", "signing", "submitting", "pending", "confirmed", "failed",
                 "expired", "invalidated", "self-submitting", "self-submitted"}
  /\ intent \in Runs \cup {None}
  /\ unsubmitted \in posted \cup {None}
  /\ feed \subseteq Runs \X Kinds
  /\ posted \subseteq Runs
  /\ invalidation \in [Runs -> {"none", "sent", "over"}]
  /\ lapsed \subseteq posted /\ overdue \subseteq posted /\ deviceClock \in {"ahead", "behind"}
  /\ burned \subseteq Runs
  /\ selfMined \subseteq Runs
  /\ Relay!TypeOK

\* FR-018, SC-007: "confirmed" is never shown before the fact.  An entry of the
\* feed that says so, and the status while it says so, stand for an intent or
\* a wallet transaction that the chain has executed, although the report comes
\* from the gateway, which forgets and restarts, and several calls write the
\* same status.
ConfirmedIsOnChain ==
  /\ \A r \in Runs : /\ <<r, "confirmed">> \in feed => r \in executed
                     /\ <<r, "paid">> \in feed => r \in selfMined
  /\ status = "confirmed" => executed \cup selfMined # {}

\* The only run that can take effect twice, by the relayer and by the wallet,
\* is one whose acceptance never reached the client (no answer in time, a busy
\* answer, a body that broke off); and the gateway had not refused it.
TwiceOnlyUnanswered ==
  \A r \in executed \cap selfMined :
    /\ <<r, "submitted">> \notin feed
    /\ answer[r] # "refused"

\* useIntentAction.js:264: on a device whose clock is not ahead of the chain's,
\* an intent reported expired is over.  If it has not run by then it never
\* does, so paying for the same action is safe.
ExpiredIsOver ==
  [][deviceClock = "behind" =>
       \A r \in Runs :
         <<r, "expired">> \in feed /\ r \notin executed => r \notin executed']_vars

\* The never-stranded rule (FR-014) as far as the code keeps it: a call ends or
\* asks the user's wallet, whatever the gateway does or does not do, unless it
\* waits for ever for the rest of an answer that has begun.
NeverStrandedIfRead ==
  \A r \in Runs :
    []<>(pc[r] \notin Reading) =>
      (pc[r] \in Bounded \cup Reading ~> pc[r] \in Wallet \cup Returned)

=============================================================================
