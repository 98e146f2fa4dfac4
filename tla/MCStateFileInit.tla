-------------------------- MODULE MCStateFileInit --------------------------
(***************************************************************************)
(* Small instance of StateFileInit: two leaf peers that share an address,  *)
(* so that the edits collide, and no root: init then writes one state.     *)
(***************************************************************************)
EXTENDS StateFileInit, TLC

leafA == [name |-> "a", pubkey |-> "k1", ip |-> "ip1", endpoint |-> ""]
leafB == [name |-> "b", pubkey |-> "k2", ip |-> "ip1", endpoint |-> ""]

MCRootPeer == {}
MCLeafPeer == {leafA, leafB}
MCValidKey == {"k1", "k2"}

Symmetry == Permutations(Proc) \cup Permutations(Inode)
=============================================================================
