---------------------------- MODULE MCWagerPool ----------------------------
(* Small instances of WagerPool: two or three wallets, buy-in 2.            *)
EXTENDS WagerPool

CONSTANTS alice, bob, carol

Row(w, a) == [winner |-> w, amount |-> a]

\* Valid matrices for one, two and three members (one winner twice, a winner
\* that never joined), and malformed ones the contract must refuse.
MCMatrices ==
  {<<Row(alice, 2)>>,
   <<Row(alice, 4)>>, <<Row(bob, 1), Row(bob, 3)>>, <<Row(carol, 4)>>,
   <<Row(alice, 2), Row(bob, 4)>>,
   <<>>, <<Row(ZeroAddress, 4)>>, <<Row(alice, 3)>>}

\* The relayed run: two outcomes for two members.
MCRelayMatrices == {<<Row(alice, 4)>>, <<Row(bob, 1), Row(alice, 3)>>}

MCWindows == {<<0, 2>>}

\* No intent is signed.
MCNoWindows == {}
=============================================================================
