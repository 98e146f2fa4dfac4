---------------------------- MODULE MCDataPlane ----------------------------
(***************************************************************************)
(* Two addresses of one subnet and one of another; two local ports.  The   *)
(* configurations renumber the bridge within its subnet, drop a pair of    *)
(* addresses, and differ in role, VXLAN attributes and local ports.        *)
(***************************************************************************)
EXTENDS DataPlaneKernel

CONSTANTS a1, a2, b1, netA, netB, eth, tap, vni1, vni2

MCAddr == {a1, a2, b1}
MCSubnet == [a \in MCAddr |-> IF a = b1 THEN netB ELSE netA]
MCConfigs ==
  {[addrs |-> <<a1, a2>>, ports |-> <<eth, tap>>, root |-> TRUE,  vxlan |-> vni1],
   [addrs |-> <<a2, b1>>, ports |-> <<>>,         root |-> FALSE, vxlan |-> vni1],
   [addrs |-> <<b1>>,     ports |-> <<eth>>,      root |-> FALSE, vxlan |-> vni2]}
=============================================================================
