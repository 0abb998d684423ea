---------------------------- MODULE IntentRelay ----------------------------
(***************************************************************************)
(* What a client of the relay gateway may rely on, without the gateway's   *)
(* queue, retries, webhooks and maps: a request that was refused before it *)
(* left the gateway never runs; one that was given up after it had left    *)
(* may still run; a marker runs at most once; and what the gateway reports *)
(* as confirmed has run.  A report of failed promises nothing.             *)
(*                                                                         *)
(* RelayGateway implements this specification; RelayClient is composed     *)
(* with it.                                                                *)
(***************************************************************************)
EXTENDS Naturals

CONSTANTS
  Requests,     \* POSTs to /v1/intents
  Markers,      \* uniqueness markers
  MarkerOf      \* the marker each request carries

VARIABLES
  answer,       \* the gateway's answer to each request
  exposed,      \* requests whose call has left the gateway
  executed,     \* markers the chain has executed
  report        \* the status GET /v1/intents gives of each request

vars == <<answer, exposed, executed, report>>

Unsettled == {"queued", "submitted"}

\* The answers: refused before the call left, given up after it left, taken
\* (202), the original result of the same marker, or none because the process
\* died.
Answered == {"refused", "gaveup", "taken", "original", "lost"}

TypeOK ==
  /\ answer \in [Requests -> {"none", "open"} \cup Answered]
  /\ exposed \subseteq Requests
  /\ executed \subseteq Markers
  /\ report \in [Requests -> {"none", "confirmed", "failed"} \cup Unsettled]

Init ==
  /\ answer = [r \in Requests |-> "none"]
  /\ exposed = {}
  /\ executed = {}
  /\ report = [r \in Requests |-> "none"]

Answers(r, a) == answer' = [answer EXCEPT ![r] = a]

Receive(r) ==
  /\ answer[r] = "none" /\ Answers(r, "open")
  /\ UNCHANGED <<exposed, executed, report>>

Refuse(r) ==
  /\ answer[r] \in {"none", "open"} /\ r \notin exposed
  /\ Answers(r, "refused")
  /\ UNCHANGED <<exposed, executed, report>>

\* The call leaves for the chain.
Expose(r) ==
  /\ answer[r] = "open"
  /\ exposed' = exposed \cup {r}
  /\ UNCHANGED <<answer, executed, report>>

GiveUp(r) ==
  /\ answer[r] = "open" /\ r \in exposed
  /\ Answers(r, "gaveup")
  /\ UNCHANGED <<exposed, executed, report>>

Take(r) ==
  /\ answer[r] = "open" /\ r \in exposed
  /\ Answers(r, "taken")
  /\ \E s \in Unsettled : report' = [report EXCEPT ![r] = s]
  /\ UNCHANGED <<exposed, executed>>

AnswerOriginal(r) ==
  /\ answer[r] = "open" /\ MarkerOf[r] \in executed
  /\ Answers(r, "original")
  /\ UNCHANGED <<exposed, executed, report>>

Execute(m) ==
  /\ m \in Markers \ executed
  /\ \E r \in exposed : MarkerOf[r] = m
  /\ executed' = executed \cup {m}
  /\ UNCHANGED <<answer, exposed, report>>

Report(r, s) ==
  /\ report[r] \in Unsettled
  /\ s = "confirmed" => MarkerOf[r] \in executed
  /\ report' = [report EXCEPT ![r] = s]
  /\ UNCHANGED <<answer, exposed, executed>>

\* The process dies: requests get no answer and records are gone.
Forget ==
  /\ answer' = [r \in Requests |-> IF answer[r] = "open" THEN "lost" ELSE answer[r]]
  /\ report' = [r \in Requests |-> "none"]
  /\ UNCHANGED <<exposed, executed>>

Next ==
  \/ \E r \in Requests :
       \/ Receive(r) \/ Refuse(r) \/ Expose(r) \/ GiveUp(r) \/ Take(r)
       \/ AnswerOriginal(r)
       \/ \E s \in {"submitted", "confirmed", "failed"} : Report(r, s)
  \/ \E m \in Markers : Execute(m)
  \/ Forget

Spec == Init /\ [][Next]_vars
=============================================================================
