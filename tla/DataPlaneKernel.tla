-------------------------- MODULE DataPlaneKernel --------------------------
(***************************************************************************)
(* DataPlane, call by call, implements what NodeKernel has of l2.Up and    *)
(* l2.Down in a few steps, for one command at a time and a state.json      *)
(* without peers.                                                          *)
(*                                                                         *)
(* NodeKernel keeps account of things DataPlane has no use for: which      *)
(* command calls l2.Up, what a failure left out of step, and that a reboot *)
(* starts a sync, which has WireGuard to set up before l2.Up.  Two         *)
(* variables are added for that.  They restrict no behaviour of DataPlane: *)
(* where op has to be "none" and a sync is under way, SyncFails comes      *)
(* first, which changes nothing else.                                      *)
(***************************************************************************)
EXTENDS DataPlane

VARIABLES
  op,    \* the command, "none" between two of them
  drift  \* NodeKernel's drift

kvars == <<config, promote, bridge, vxlan, port, pc, want, current, rest, fresh, left, op, drift>>

\* The sync of a reboot has not come to l2.Up yet.
Booting == pc = "idle" /\ op = "sync"

InitToKernel == Init /\ op = "none" /\ drift = {}

\* `l2mesh up`; or the sync that boot started is done with WireGuard.
StartUpToKernel ==
  /\ StartUp
  /\ op' = IF Booting THEN op ELSE "up"
  /\ drift' = IF Booting THEN drift \ {"wg"} ELSE drift

\* Its Client.Sync fails, or it is killed.
SyncFails ==
  /\ Booting
  /\ op' = "none"
  /\ UNCHANGED <<config, promote, bridge, vxlan, port, pc, want, current, rest, fresh, left, drift>>

OpEnds == op' = IF pc' = "idle" THEN "none" ELSE op

\* l2.Up goes on, or returns: without an error from UpBridge only.
UpToKernel ==
  /\ \/ UpBridge /\ drift' = drift \ {"l2"}
     \/ /\ ensureBridge \/ ListAddrs \/ AddAddr \/ DelAddr \/ ensureVxlan \/ Attach
           \/ SetHairpin \/ AttachPort \/ RaisePort \/ UpVxlan
        /\ drift' = IF pc' = "idle" THEN drift \cup {"l2"} ELSE drift
  /\ OpEnds

DownToKernel ==
  \/ StartDown /\ op = "none" /\ op' = "down" /\ drift' = drift
  \/ Down /\ OpEnds /\ drift' = drift

AbortToKernel ==
  /\ Abort
  /\ op' = "none"
  /\ drift' = IF op = "down" THEN drift ELSE drift \cup {"l2"}

OthersToKernel ==
  \/ Replace /\ op = "none" /\ op' = op /\ drift' = {"wg", "l2"}
  \/ Reboot /\ op' = "sync" /\ drift' = {"wg"}
  \/ (\E q \in Port : Unplug(q) \/ Plug(q)) /\ UNCHANGED <<op, drift>>

NextToKernel ==
  \/ StartUpToKernel \/ SyncFails \/ UpToKernel
  \/ DownToKernel \/ AbortToKernel \/ OthersToKernel

SpecToKernel == InitToKernel /\ [][NextToKernel]_kvars

FairSpecToKernel == SpecToKernel /\ Fairness

-----------------------------------------------------------------------------
(***************************************************************************)
(* The state NodeKernel would have.  One process runs every command.       *)
(***************************************************************************)
Cmd == "l2mesh"
Nobody == "nobody"

\* The address of a NodeKernel state stands for all attributes of a VXLAN port.
StateOf(c, endpoint) ==
  [role |-> IF c.root THEN "root" ELSE "leaf", ip |-> c.vxlan, endpoint |-> endpoint,
   roots |-> {}, leafs |-> {}]

Attributes == {c.vxlan : c \in Configs}
SomeAttribute == CHOOSE a \in Attributes : TRUE

KernelBridge == IF NoBridge THEN "none" ELSE IF bridge.up THEN "up" ELSE "down"

KernelVxlan ==
  IF vxlan = Missing
  THEN [up |-> FALSE, master |-> FALSE, hairpin |-> FALSE, ip |-> Missing, exists |-> FALSE]
  ELSE [up |-> vxlan.up, master |-> vxlan.attached, hairpin |-> vxlan.hairpin, ip |-> vxlan.made, exists |-> TRUE]

\* syncBridgeAddrs belongs to the way to the VXLAN port there, and the local ports are one step.
KernelStep ==
  IF Booting THEN "wg"
  ELSE IF pc \in {"list", "add", "del"} THEN "vxlan"
  ELSE IF pc \in {"port", "raise", "upvxlan"} THEN "ports"
  ELSE pc

\* Idle commands and down have the default state, l2.Up has the identity of the node.
KernelMem ==
  IF op \in {"up", "sync"}
  THEN IF Booting THEN StateOf(config, "endpoint") ELSE StateOf(want, "none")
  ELSE [role |-> "root", ip |-> SomeAttribute, endpoint |-> "none", roots |-> {}, leafs |-> {}]

Kernel == INSTANCE NodeKernel WITH
  RootPeer <- {}, LeafPeer <- {}, ValidKey <- {}, Configurable <- {},
  OverlayIP <- Attributes, DefaultIP <- SomeAttribute,
  Endpoint <- {"endpoint"}, NoEndpoint <- "none", NoIP <- Missing,
  Proc <- {Cmd}, None <- Nobody,
  disk <- StateOf(config, "endpoint"), lock <- Nobody,
  pc <- [p \in {Cmd} |-> KernelStep], cmd <- [p \in {Cmd} |-> [op |-> op]],
  mem <- [p \in {Cmd} |-> KernelMem], removed <- [p \in {Cmd} |-> {}],
  wg <- {}, bridge <- KernelBridge, vxlan <- KernelVxlan,
  alone <- IF op = "none" THEN Nobody ELSE Cmd, overlap <- FALSE, drift <- drift

(***************************************************************************)
(* l2.go: however many netlink calls l2.Up and l2.Down make, and wherever  *)
(* one of them fails, the bridge and the VXLAN port go through the steps   *)
(* NodeKernel has for them, and what it calls drift is all that is wrong.  *)
(***************************************************************************)
ImplementsKernel == Kernel!Spec

(***************************************************************************)
(* l2.go, Up: between two commands, if the last Up did not end half-way    *)
(* and state.json has not been edited since, a VXLAN port that is there    *)
(* is up and on a bridge that is up, and hairpins just on a Root.          *)
(***************************************************************************)
PlaneInStep ==
  op = "none" /\ "l2" \notin drift /\ vxlan # Missing =>
    /\ ~NoBridge /\ bridge.up
    /\ vxlan.attached /\ vxlan.up /\ vxlan.hairpin = config.root
=============================================================================
