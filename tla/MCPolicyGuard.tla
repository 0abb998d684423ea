---------------------------- MODULE MCPolicyGuard ----------------------------
(* A vault of two owners, whose rules split native transfers by amount and *)
(* by approver, or put one limit on everything.                            *)
EXTENDS PolicyGuard, TLC

CONSTANTS a, b, relayer

Tx(to, value, isToken, amount, delegate, refund) ==
  [to |-> to, value |-> value, isToken |-> isToken, amount |-> amount, recipient |-> "shop",
   delegate |-> delegate, refund |-> refund]

Small == Tx("shop", 1, FALSE, 0, FALSE, FALSE)
Large == Tx("shop", 2, FALSE, 0, FALSE, FALSE)
Both == Tx("token", 1, TRUE, 1, FALSE, FALSE)
Token == Tx("token", 0, TRUE, 1, FALSE, FALSE)
Call == Tx("shop", 0, FALSE, 0, FALSE, FALSE)
Odd == {Tx("shop", 1, FALSE, 0, TRUE, FALSE), Tx("shop", 1, FALSE, 0, FALSE, TRUE),
        Tx("guard", 1, FALSE, 0, FALSE, FALSE)}

MCTxs == {Small, Large, Token, Both, Call} \cup Odd
MCHashes == {a, b} \X {Large} \X {2}
MCOwnerSets == {{a}, {a, b}}

Rule(asset, perTx, window, required, banded, approvers, targets) ==
  [asset |-> asset, perTx |-> perTx, window |-> window, required |-> required, banded |-> banded,
   approvers |-> approvers, targets |-> targets]

\* One scope: with an approver little, without one more, and the rest.
Alternatives == <<Rule("native", 1, 2, 1, FALSE, {a, b}, <<"shop">>),
                  Rule("native", 2, 2, 0, FALSE, {}, <<"shop">>),
                  Rule("any", 0, 3, 0, FALSE, {}, <<>>)>>
\* Bands: little for anybody, more with both owners, other assets freely.
Bands == <<Rule("native", 1, 1, 0, TRUE, {}, <<>>),
           Rule("native", 0, 2, 0, FALSE, {a, b}, <<"shop">>),
           Rule("any", 0, 0, 0, FALSE, {}, <<>>)>>

MCPolicies == {<<>>, Alternatives, Bands}

=============================================================================
