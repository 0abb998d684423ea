---------------------------- MODULE SignerIntent ----------------------------
(***************************************************************************)
(* The intent machinery of contracts/upgradeable/SignerIntentBase.sol:     *)
(* a wallet signs an intent off chain and anybody may submit it.  An       *)
(* intent binds the acting wallet, a replay nonce, a validity window and   *)
(* the arguments of one call; the contract executes it as if the signer    *)
(* had called.                                                             *)
(*                                                                         *)
(* The EIP-712 digest and the ECDSA / ERC-1271 check are abstracted to     *)
(* membership: a signature verifies exactly when the signer did sign that  *)
(* very record, so a digest never matches an intent with other arguments.  *)
(***************************************************************************)
EXTENDS Naturals

\* An intent signed by "signer" for the call "kind" with argument "arg".
Intent(kind, signer, nonce, arg, validAfter, validBefore) ==
  [kind |-> kind, signer |-> signer, nonce |-> nonce, arg |-> arg,
   validAfter |-> validAfter, validBefore |-> validBefore]

\* _useNonce: the (signer, nonce) pair must be fresh and is burned for ever.
NonceFresh(i, used) == <<i.signer, i.nonce>> \notin used

UseNonce(i, used) == used \cup {<<i.signer, i.nonce>>}

\* Mutant: the nonce is burned but never checked.
VerifyIntent_Replayable(i, signed, used, now) ==
  /\ now >= i.validAfter
  /\ now <= i.validBefore
  /\ i \in signed

\* _verifyIntent: inside the (closed) validity window, signed by the signer,
\* and with a nonce that was neither executed nor invalidated before.
VerifyIntent(i, signed, used, now) ==
  /\ now >= i.validAfter
  /\ now <= i.validBefore
  /\ i \in signed
  /\ NonceFresh(i, used)

\* The token's own EIP-3009 check of receiveWithAuthorization: an open window
\* and a nonce of the token's, distinct from the intent nonces above.
VerifyPayment(a, signed, tokenUsed, now) ==
  /\ now > a.validAfter
  /\ now < a.validBefore
  /\ a \in signed
  /\ NonceFresh(a, tokenUsed)
=============================================================================
