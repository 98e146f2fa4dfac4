---------------------------- MODULE MCNodeKernel ----------------------------
(***************************************************************************)
(* Small instance of NodeKernel: a root, whose endpoint may or may not     *)
(* resolve, and a leaf with the address of the root, so that a failed      *)
(* remove lets the kernel move the address from one to the other.          *)
(***************************************************************************)
EXTENDS NodeKernel, TLC

rootA == [name |-> "a", pubkey |-> "k1", ip |-> "ip1", endpoint |-> "ep"]
leafB == [name |-> "b", pubkey |-> "k2", ip |-> "ip1", endpoint |-> ""]

MCRootPeer == {rootA}
MCLeafPeer == {leafB}
MCValidKey == {"k1", "k2", "k3"}

\* For the next sync: no endpoint to resolve, one address that is not IPv4.
leafC == [name |-> "c", pubkey |-> "k3", ip |-> "ip2", endpoint |-> ""]
leafV6 == [name |-> "d", pubkey |-> "k2", ip |-> "v6", endpoint |-> ""]

MCNoRoot == {}
MCMixedLeaf == {leafC, leafV6}
MCMixedGood == {leafC}

Symmetry == Permutations(Proc)
=============================================================================
