-------------------------- MODULE MCWagerRegistry --------------------------
(* Small instances of WagerRegistry.  The accept deadline of every wager is  *)
(* 1 and the resolve deadline 2, so that with Horizon 3 every window opens,  *)
(* ends and is over.                                                         *)
EXTENDS WagerRegistry

CONSTANTS alice, bob, carol, usdc, dai, market

Terms1(opponent, rt, arbitrator, stakes, conditionId, isYes) ==
  [opponent |-> opponent, arbitrator |-> arbitrator, token |-> usdc,
   creatorStake |-> stakes[1], opponentStake |-> stakes[2],
   acceptDeadline |-> 1, resolveDeadline |-> 2, resolutionType |-> rt,
   conditionId |-> conditionId, creatorIsYes |-> isYes]

Peer(opponent, rt, stakes) == Terms1(opponent, rt, NoAddress, stakes, NoCondition, FALSE)
Oracle(opponent, rt, isYes) == Terms1(opponent, rt, NoAddress, <<1, 2>>, market, isYes)
Friend(opponent, arbitrator) ==
  Terms1(opponent, "ThirdParty", arbitrator, <<1, 2>>, NoCondition, FALSE)

\* Wagers the parties settle themselves, in both directions and in two tokens,
\* and one with an arbitrator.
MCPeerArgs ==
  {Peer(bob, "Either", <<2, 2>>), Peer(alice, "Creator", <<1, 2>>),
   [Peer(bob, "Opponent", <<1, 2>>) EXCEPT !.token = dai], Friend(bob, carol)}

\* Open challenges; the opponent and its stake are not arguments there.
MCOpenArgs == {Peer(NoAddress, "Either", <<1, 1>>), Friend(NoAddress, carol)}

\* Both kinds of oracle wagers and an even one.
MCMixedArgs ==
  {Oracle(bob, "Polymarket", TRUE), Oracle(bob, "UMA", FALSE), Peer(bob, "Either", <<1, 1>>)}

MCUmaArgs == {Oracle(bob, "UMA", TRUE)}
MCNoArgs == {}
=============================================================================
