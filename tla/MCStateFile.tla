---------------------------- MODULE MCStateFile ----------------------------
(***************************************************************************)
(* Small instance of StateFile: peers chosen so that every check of CanAdd *)
(* decides something.  leafB has the address of rootA, leafC its key, and  *)
(* leafD a key that does not parse; rootA and leafA share a name across    *)
(* the roles, which the code allows, leafA and leafC within theirs.        *)
(***************************************************************************)
EXTENDS StateFile

rootA == [name |-> "a", pubkey |-> "k1", ip |-> "ip1", endpoint |-> "ep"]
leafA == [name |-> "a", pubkey |-> "k2", ip |-> "ip2", endpoint |-> ""]
leafB == [name |-> "b", pubkey |-> "k3", ip |-> "ip1", endpoint |-> ""]
leafC == [name |-> "a", pubkey |-> "k1", ip |-> "ip3", endpoint |-> ""]
leafD == [name |-> "d", pubkey |-> "bad", ip |-> "ip4", endpoint |-> ""]

MCRootPeer == {rootA}
MCLeafPeer == {leafA, leafB, leafC, leafD}
MCValidKey == {"k1", "k2", "k3"}
=============================================================================
