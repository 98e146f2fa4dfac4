----------------------------- MODULE NodeKernel -----------------------------
(***************************************************************************)
(* A node's state.json and the kernel state its commands derive from it:   *)
(* the WireGuard peers (internal/wg/wg.go) and the bridge with its VXLAN   *)
(* port (internal/l2/l2.go), under the commands of cmd/.                   *)
(*                                                                         *)
(* add, remove, promote and demote change the kernel inside WithLock,      *)
(* before the state is saved; sync, up and down take no lock and work from *)
(* the copy of state.json they loaded when they started.  Any netlink call *)
(* may fail, a process may be killed anywhere, the host may reboot.        *)
(*                                                                         *)
(* StateFile shows that WithLock updates state.json atomically, so here    *)
(* the file is one variable, read when the lock is granted and replaced by *)
(* Save.  FRR is left to FrrConfig: every command ignores its errors.      *)
(***************************************************************************)
EXTENDS PeerTable

CONSTANTS
  Proc,          \* command processes
  None,          \* no process
  Configurable,  \* peers whose address is IPv4 and whose endpoint can be resolved
  NoIP           \* a kernel peer that lost its allowed IP to another peer

ASSUME ConfigurableAssumption == Configurable \subseteq Peer
ASSUME NoneAssumption == None \notin Proc

VARIABLES
  disk,    \* the state in state.json
  lock,    \* holder of the flock
  pc,      \* what each process does next
  cmd,     \* the command it runs
  mem,     \* its *State
  removed, \* the keys of the peers its remove took out of that
  wg,      \* peers of the WireGuard interface: key and allowed IP
  bridge,  \* the bridge: "none", "down" or "up"
  vxlan,   \* the VXLAN port, or NoVxlan
  \* History, read by no action:
  alone,   \* the process that runs, if no other one has run since it started
  overlap, \* a command ran at the same time as one that takes no lock
  drift    \* "wg", "l2": a failure left the kernel out of step with disk

file    == <<disk, lock>>
kernel  == <<wg, bridge, vxlan>>
history == <<overlap, drift>>
vars    == <<disk, lock, pc, cmd, mem, removed, wg, bridge, vxlan, alone, overlap, drift>>

NoCmd   == [op |-> "none"]
NoVxlan == [up |-> FALSE, master |-> FALSE, hairpin |-> FALSE, ip |-> NoIP, exists |-> FALSE]

Unlocked == [op : {"sync", "up", "down"}]

Locks(c) == c \in Command

\* What ConfigureDevice makes of a whole peer list.
Entries(s) == {[pubkey |-> p.pubkey, ip |-> p.ip] : p \in FlatPeers(s)}

-----------------------------------------------------------------------------
(***************************************************************************)
(* Starting and ending a process.                                          *)
(***************************************************************************)
Idle(p) == pc[p] = "idle"

FirstStep(c) ==
  CASE c.op \in {"add", "remove"}             -> "peer"
    [] c.op \in {"promote", "demote", "sync"} -> "wg"
    [] c.op = "up"                            -> "bridge"
    [] c.op = "down"                          -> "delvxlan"

Keys(s) == {q.pubkey : q \in FlatPeers(s)}

\* All that l2.Up reads of a state.
NodeOnly(s) == [DefaultState EXCEPT !.role = s.role, !.ip = s.ip]

Start(p, c, s) ==
  /\ Idle(p)
  /\ pc' = [pc EXCEPT ![p] = FirstStep(c)]
  /\ cmd' = [cmd EXCEPT ![p] = c]
  /\ mem' = [mem EXCEPT ![p] = s]
  /\ removed' = [removed EXCEPT ![p] = IF c.op = "remove" THEN Keys(disk) \ Keys(s) ELSE {}]
  /\ alone' = IF \A q \in Proc : Idle(q) THEN p ELSE None
  /\ overlap' = (overlap \/ \E q \in Proc : ~Idle(q) /\ ~(Locks(c) /\ Locks(cmd[q])))
  /\ UNCHANGED <<disk, kernel, drift>>

\* Mutated form of StartLocked: the lock is not waited for.
StartAnyway(p, c) ==
  /\ lock' = p
  /\ \E s \in Outcomes(c, disk) : Start(p, c, s)

\* WithLock grants the lock, loads, and fn accepts; a refusal changes nothing.
StartLocked(p, c) ==
  /\ lock = None
  /\ lock' = p
  /\ \E s \in Outcomes(c, disk) : Start(p, c, s)

\* No lock: the copy loaded now is all the command will know of state.json.
StartUnlocked(p, c) ==
  /\ Start(p, c, CASE c.op = "sync" -> disk
                   [] c.op = "up"   -> NodeOnly(disk)
                   [] c.op = "down" -> DefaultState)
  /\ UNCHANGED lock

End(p) ==
  /\ pc' = [pc EXCEPT ![p] = "idle"]
  /\ cmd' = [cmd EXCEPT ![p] = NoCmd]
  /\ mem' = [mem EXCEPT ![p] = DefaultState]
  /\ removed' = [removed EXCEPT ![p] = {}]
  /\ lock' = IF lock = p THEN None ELSE lock
  /\ alone' = IF alone = p THEN None ELSE alone

At(p, step) == pc[p] = step

Goto(p, step) ==
  /\ pc' = [pc EXCEPT ![p] = step]
  /\ UNCHANGED <<cmd, mem, removed, lock, alone>>

-----------------------------------------------------------------------------
(***************************************************************************)
(* applyToKernel and removeFromKernel: one peer, and errors are warnings.  *)
(***************************************************************************)
\* An allowed IP belongs to one peer: setting it takes it from the former owner.
SetPeer(w, p) ==
  {[pubkey |-> p.pubkey, ip |-> p.ip]} \cup
    {IF e.ip = p.ip THEN [e EXCEPT !.ip = NoIP] ELSE e :
       e \in {f \in w : f.pubkey # p.pubkey}}

AddOrUpdatePeer(p) ==
  /\ At(p, "peer") /\ cmd[p].op = "add"
  /\ cmd[p].peer \in Configurable
  /\ wg' = SetPeer(wg, cmd[p].peer)
  /\ Goto(p, "save")
  /\ UNCHANGED <<disk, bridge, vxlan, history>>

RemoveWgPeer(p) ==
  /\ At(p, "peer") /\ cmd[p].op = "remove"
  /\ wg' = {e \in wg : e.pubkey \notin removed[p]}
  /\ Goto(p, "save")
  /\ UNCHANGED <<disk, bridge, vxlan, history>>

\* The interface is missing, or the peer cannot be configured.
Warn(p) ==
  /\ At(p, "peer")
  /\ Goto(p, "save")
  /\ drift' = drift \cup {"wg"}
  /\ UNCHANGED <<disk, kernel, overlap>>

Save(p) ==
  /\ At(p, "save")
  /\ disk' = mem[p]
  /\ End(p)
  /\ UNCHANGED <<kernel, history>>

-----------------------------------------------------------------------------
(***************************************************************************)
(* reconcileKernel: Client.Sync, then l2.Up, each ending at the first      *)
(* error.  l2.Up is also `l2mesh up`.                                      *)
(***************************************************************************)
SyncPeers(p) ==
  /\ At(p, "wg")
  /\ FlatPeers(mem[p]) \subseteq Configurable
  /\ wg' = Entries(mem[p])
  /\ drift' = IF alone = p THEN drift \ {"wg"} ELSE drift
  /\ pc' = [pc EXCEPT ![p] = "bridge"]
  /\ mem' = IF Locks(cmd[p]) THEN mem ELSE [mem EXCEPT ![p] = NodeOnly(mem[p])]
  /\ UNCHANGED <<cmd, removed, lock>>
  /\ UNCHANGED <<disk, bridge, vxlan, alone, overlap>>

\* One peer that cannot be configured, if only for now, and Sync configures none.
RejectPeers(p) ==
  /\ At(p, "wg")
  /\ \E q \in FlatPeers(mem[p]) : q \notin Configurable \/ q.endpoint # NoEndpoint
  /\ End(p)
  /\ UNCHANGED <<disk, kernel, history>>

\* ensureBridge and syncBridgeAddrs.
EnsureBridge(p) ==
  /\ At(p, "bridge")
  /\ bridge' = IF bridge = "none" THEN "down" ELSE bridge
  /\ Goto(p, "vxlan")
  /\ UNCHANGED <<disk, wg, vxlan, history>>

\* Mutated form of EnsureVxlan: a new port is given the underlay endpoint as its address.
EnsureVxlanUnderlay(p) ==
  /\ At(p, "vxlan")
  /\ vxlan' = IF vxlan.exists THEN vxlan
              ELSE [NoVxlan EXCEPT !.exists = TRUE, !.ip = mem[p].endpoint]
  /\ Goto(p, "attach")
  /\ UNCHANGED <<disk, wg, bridge, history>>

\* An existing port is kept as it is: its learning flag is always the wanted one.
EnsureVxlan(p) ==
  /\ At(p, "vxlan")
  /\ vxlan' = IF vxlan.exists THEN vxlan
              ELSE [NoVxlan EXCEPT !.exists = TRUE, !.ip = mem[p].ip]
  /\ Goto(p, "attach")
  /\ UNCHANGED <<disk, wg, bridge, history>>

Attach(p) ==
  /\ At(p, "attach")
  /\ vxlan.exists /\ bridge # "none"
  /\ vxlan' = [vxlan EXCEPT !.master = TRUE]
  /\ Goto(p, "hairpin")
  /\ UNCHANGED <<disk, wg, bridge, history>>

\* Mutated form of SetHairpin: it is switched on for a Root and never off again.
SetHairpinOn(p) ==
  /\ At(p, "hairpin")
  /\ vxlan.master
  /\ vxlan' = [vxlan EXCEPT !.hairpin = @ \/ mem[p].role = "root"]
  /\ Goto(p, "ports")
  /\ UNCHANGED <<disk, wg, bridge, history>>

SetHairpin(p) ==
  /\ At(p, "hairpin")
  /\ vxlan.master
  /\ vxlan' = [vxlan EXCEPT !.hairpin = (mem[p].role = "root")]
  /\ Goto(p, "ports")
  /\ UNCHANGED <<disk, wg, bridge, history>>

\* The local ports are attached and brought up, and then the VXLAN.
UpVxlan(p) ==
  /\ At(p, "ports")
  /\ vxlan.exists /\ bridge # "none"
  /\ vxlan' = [vxlan EXCEPT !.up = TRUE]
  /\ Goto(p, "upbridge")
  /\ UNCHANGED <<disk, wg, bridge, history>>

\* The bridge is brought up; Up returns.
UpBridge(p) ==
  /\ At(p, "upbridge")
  /\ bridge # "none"
  /\ bridge' = "up"
  /\ IF Locks(cmd[p]) THEN Goto(p, "save") ELSE End(p)
  /\ drift' = IF alone = p THEN drift \ {"l2"} ELSE drift
  /\ overlap' = (overlap /\ ~(alone = p /\ cmd[p].op # "up"))
  /\ UNCHANGED <<disk, wg, vxlan>>

\* `l2mesh down`: the VXLAN port, then the bridge (which releases its ports).
DelVxlan(p) ==
  /\ At(p, "delvxlan")
  /\ vxlan' = NoVxlan
  /\ Goto(p, "delbridge")
  /\ UNCHANGED <<disk, wg, bridge, history>>

DelBridge(p) ==
  /\ At(p, "delbridge")
  /\ bridge' = "none"
  /\ vxlan' = [vxlan EXCEPT !.master = FALSE, !.hairpin = FALSE]
  /\ End(p)
  /\ UNCHANGED <<disk, wg, history>>

-----------------------------------------------------------------------------
(***************************************************************************)
(* The process dies, or a netlink call outside "peer" returns an error:    *)
(* the kernel keeps what was done to it and nothing is saved.  That leaves *)
(* them out of step if a peer was already configured, if l2.Up is not      *)
(* through, or if it set up a role that is not saved.                      *)
(***************************************************************************)
Abort(p) ==
  /\ ~Idle(p)
  /\ drift' = drift
       \cup (IF At(p, "save") /\ cmd[p].op \in {"add", "remove"} THEN {"wg"} ELSE {})
       \cup (IF \/ pc[p] \in {"bridge", "vxlan", "attach", "hairpin", "ports", "upbridge"}
                \/ At(p, "save") /\ cmd[p].op \in {"promote", "demote"}
             THEN {"l2"} ELSE {})
  /\ End(p)
  /\ UNCHANGED <<disk, kernel, overlap>>

\* `l2mesh init --force` replaces the file, under no lock, and leaves the kernel.
InitForce ==
  /\ disk' \in FreshState
  /\ alone' = None
  /\ overlap' = (overlap \/ \E p \in Proc : ~Idle(p))
  /\ drift' = {"wg", "l2"}
  /\ UNCHANGED <<lock, pc, cmd, mem, removed, kernel>>

\* The host restarts with empty kernel tables; l2mesh-sync.service runs once.
Reboot(p) ==
  /\ wg' = {} /\ bridge' = "none" /\ vxlan' = NoVxlan
  /\ lock' = None
  /\ pc' = [q \in Proc |-> IF q = p THEN "wg" ELSE "idle"]
  /\ cmd' = [q \in Proc |-> IF q = p THEN [op |-> "sync"] ELSE NoCmd]
  /\ mem' = [q \in Proc |-> IF q = p THEN disk ELSE DefaultState]
  /\ removed' = [q \in Proc |-> {}]
  /\ alone' = p
  /\ overlap' = FALSE
  /\ drift' = {"wg"}
  /\ UNCHANGED disk

Init ==
  /\ disk \in {DefaultState} \cup FreshState
  /\ lock = None
  /\ pc = [p \in Proc |-> "idle"]
  /\ cmd = [p \in Proc |-> NoCmd]
  /\ mem = [p \in Proc |-> DefaultState]
  /\ removed = [p \in Proc |-> {}]
  /\ wg = {} /\ bridge = "none" /\ vxlan = NoVxlan
  /\ alone = None /\ overlap = FALSE /\ drift = {}

Step(p) ==
  \/ AddOrUpdatePeer(p) \/ RemoveWgPeer(p) \/ Warn(p) \/ Save(p)
  \/ SyncPeers(p) \/ RejectPeers(p)
  \/ EnsureBridge(p) \/ EnsureVxlan(p) \/ Attach(p) \/ SetHairpin(p)
  \/ UpVxlan(p) \/ UpBridge(p)
  \/ DelVxlan(p) \/ DelBridge(p)

Next ==
  \/ InitForce
  \/ \E p \in Proc :
       \/ \E c \in Command : StartLocked(p, c)
       \/ \E c \in Unlocked : StartUnlocked(p, c)
       \/ Step(p)
       \/ Abort(p)
       \/ Reboot(p)

Spec == Init /\ [][Next]_vars

-----------------------------------------------------------------------------
Ops == Command \cup Unlocked \cup {NoCmd}

TypeOK ==
  /\ disk \in State
  /\ lock \in Proc \cup {None}
  /\ pc \in [Proc -> {"idle", "peer", "wg", "bridge", "vxlan", "attach", "hairpin",
                      "ports", "upbridge", "save", "delvxlan", "delbridge"}]
  /\ cmd \in [Proc -> Ops]
  /\ mem \in [Proc -> State]
  /\ removed \in [Proc -> SUBSET ValidKey]
  /\ wg \subseteq [pubkey : ValidKey, ip : {p.ip : p \in Peer} \cup {NoIP}]
  /\ bridge \in {"none", "down", "up"}
  /\ vxlan \in [exists : BOOLEAN, master : BOOLEAN, hairpin : BOOLEAN, up : BOOLEAN,
                ip : OverlayIP \cup {NoIP}]
  /\ alone \in Proc \cup {None}
  /\ overlap \in BOOLEAN
  /\ drift \subseteq {"wg", "l2"}

Quiet == \A p \in Proc : Idle(p)

(***************************************************************************)
(* When no command is running, the peers WireGuard has are those of        *)
(* state.json, and a VXLAN port is attached, up, and hairpins just on a    *)
(* Root: the incremental changes of add, remove, promote and demote add up *)
(* to what a whole sync would configure.  The exceptions are the failures  *)
(* drift names, until the next complete sync, and commands that ran at the *)
(* same time as one that takes no lock.                                    *)
(***************************************************************************)
KernelInStep ==
  Quiet /\ ~overlap =>
    /\ "wg" \notin drift => wg = Entries(disk)
    /\ "l2" \notin drift /\ vxlan.exists =>
         /\ bridge = "up" /\ vxlan.master /\ vxlan.up
         /\ vxlan.hairpin = (disk.role = "root")

(***************************************************************************)
(* Whatever the kernel looked like before (partly built, drifted, left by  *)
(* a killed command), a sync that runs undisturbed to its end makes it     *)
(* authoritative against state.json (README.md, wg.go): the peers, the     *)
(* bridge, and whether the VXLAN port is there, attached, up and hairpins. *)
(* The VNI and the address of a port that was there already stay as they   *)
(* were: RebuiltMatches of DataPlane is about those.                       *)
(***************************************************************************)
SyncReconciles ==
  [][\A p \in Proc :
       UpBridge(p) /\ alone = p /\ cmd[p].op = "sync" =>
         /\ wg' = Entries(disk)
         /\ bridge' = "up"
         /\ vxlan'.exists /\ vxlan'.master /\ vxlan'.up
         /\ vxlan'.hairpin = (disk.role = "root")]_vars

(***************************************************************************)
(* wg.go, Sync: makes the kernel authoritative against state.json.  With   *)
(* nothing failing, the peers agree when no command is running, whatever   *)
(* ran at the same time.  (sync loads state.json outside the lock.)        *)
(***************************************************************************)
PeersInStep == Quiet /\ drift = {} => wg = Entries(disk)

(***************************************************************************)
(* common.go, applyToKernel: when a kernel update fails the change of      *)
(* state.json still persists, and the next sync will reconcile the kernel: *)
(* an undisturbed sync leaves no peer out that could be configured.  (One  *)
(* that cannot be makes Client.Sync return before it configures any.)      *)
(***************************************************************************)
NextSyncReconciles ==
  [][\A p \in Proc :
       (SyncPeers(p) \/ RejectPeers(p)) /\ alone = p /\ cmd[p].op = "sync" =>
         \A q \in FlatPeers(disk) \cap Configurable :
           [pubkey |-> q.pubkey, ip |-> q.ip] \in wg']_vars
=============================================================================
