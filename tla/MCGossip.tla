----------------------------- MODULE MCGossip -----------------------------
(***************************************************************************)
(* Four nodes, each a peer of all others, with every graph of links over   *)
(* them; and five in a ring.  (The peers are written out: TLC would sort   *)
(* them anew in every state.)                                              *)
(***************************************************************************)
EXTENDS Gossip

Four == 1..4
FullMesh == <<<<2, 3, 4>>, <<1, 3, 4>>, <<1, 2, 4>>, <<1, 2, 3>>>>
Pairs == {p \in Four \X Four : p[1] < p[2]}
AnyGraph == SUBSET Pairs
OneOfFour == {{n} : n \in Four}

Five == 1..5
Ring == {<<1, 2>>, <<2, 3>>, <<3, 4>>, <<4, 5>>, <<1, 5>>}
RingPeers == <<<<2, 5>>, <<1, 3>>, <<2, 4>>, <<3, 5>>, <<1, 4>>>>
RingOnly == {Ring}
\* Between them, these three know of every link of the ring.
ThreeOfRing == {{1, 3, 4}}
=============================================================================
