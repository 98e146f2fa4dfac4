---------------------------- MODULE KernelProofs ----------------------------
(***************************************************************************)
(* NodeKernel keeps its types; where nothing has failed and no command has *)
(* overlapped one that takes no lock, the kernel is in step with           *)
(* state.json; and an undisturbed sync makes it so from any kernel state:  *)
(* for any number of commands, peers, keys and addresses.                  *)
(***************************************************************************)
EXTENDS NodeKernel, PeerTableProofs

Reconciling == {"bridge", "vxlan", "attach", "hairpin", "ports", "upbridge"}

\* The steps at which an operation may stand.
StepsOf(op) ==
  CASE op \in {"add", "remove"}     -> {"peer", "save"}
    [] op \in {"promote", "demote"} -> {"wg", "save"} \cup Reconciling
    [] op = "sync"                  -> {"wg"} \cup Reconciling
    [] op = "up"                    -> Reconciling
    [] op = "down"                  -> {"delvxlan", "delbridge"}
    [] op = "none"                  -> {"idle"}

\* A process stands where its command goes, and holds the lock just if that takes it.
Positions ==
  \A p \in Proc :
    /\ pc[p] \in StepsOf(cmd[p].op)
    /\ lock = p <=> Locks(cmd[p])

\* The peers of every state in use are distinct, and their keys parse; whoever
\* configures a new peer will save it.
Tables ==
  /\ UniqueIn(disk) /\ KeysValid(disk)
  /\ \A p \in Proc :
       /\ UniqueIn(mem[p]) /\ KeysValid(mem[p])
       /\ cmd[p].op = "add" => cmd[p].peer \in FlatPeers(mem[p])

\* Whoever is alone is the only one that runs; without overlaps whoever runs is alone.
Solo ==
  \A p \in Proc :
    /\ alone = p => ~Idle(p) /\ \A q \in Proc \ {p} : Idle(q)
    /\ ~overlap /\ ~Idle(p) => alone = p

\* What a process that is alone works from follows from state.json as it is.
Sources ==
  \A p \in Proc : alone = p =>
    /\ Locks(cmd[p]) => mem[p] \in Outcomes(cmd[p], disk)
    /\ cmd[p].op = "remove" => removed[p] = Keys(disk) \ Keys(mem[p])
    /\ cmd[p].op = "sync" => mem[p] = IF At(p, "wg") THEN disk ELSE NodeOnly(disk)
    /\ cmd[p].op = "up" => mem[p] = NodeOnly(disk)

-----------------------------------------------------------------------------
\* A command that configured the peer it is about to save.
Configured(p) == At(p, "save") /\ cmd[p].op \in {"add", "remove"}

\* The peers of WireGuard are those of state.json, or will be when it is saved.
PeersFollow ==
  /\ ~overlap /\ "wg" \notin drift =>
       /\ \A p \in Proc : Configured(p) => wg = Entries(mem[p])
       /\ (\A p \in Proc : ~Configured(p)) => wg = Entries(disk)
  /\ \A p \in Proc :
       alone = p /\ cmd[p].op \in {"promote", "demote", "sync"} /\ ~At(p, "wg") =>
         wg = Entries(disk)

\* A command that has changed the data plane, or is about to.
Building(p) ==
  pc[p] \in Reconciling \/ (At(p, "save") /\ cmd[p].op \in {"promote", "demote"})

InPlace(role) ==
  vxlan.exists =>
    /\ bridge = "up" /\ vxlan.master /\ vxlan.up
    /\ vxlan.hairpin = (role = "root")

\* How far a process that is alone has come with the data plane.
Built(p) ==
  /\ pc[p] \in {"vxlan", "attach", "hairpin", "ports", "upbridge"} => bridge # "none"
  /\ pc[p] \in {"attach", "hairpin", "ports", "upbridge"} => vxlan.exists
  /\ pc[p] \in {"hairpin", "ports", "upbridge"} => vxlan.master
  /\ pc[p] \in {"ports", "upbridge"} => vxlan.hairpin = (mem[p].role = "root")
  /\ At(p, "upbridge") => vxlan.up
  /\ At(p, "save") /\ Building(p) => vxlan.exists /\ InPlace(mem[p].role)
  /\ At(p, "delbridge") => ~vxlan.exists

\* The data plane is as state.json has it, unless somebody is at it.
PlaneFollows ==
  /\ ~overlap /\ "l2" \notin drift /\ (\A p \in Proc : ~Building(p)) => InPlace(disk.role)
  /\ \A p \in Proc : alone = p => Built(p)

IInv == TypeOK /\ Positions /\ Tables /\ Solo /\ Sources /\ PeersFollow /\ PlaneFollows

-----------------------------------------------------------------------------
(***************************************************************************)
(* Types.                                                                  *)
(***************************************************************************)
LEMMA NodeOnlyType ==
  ASSUME NEW s \in State
  PROVE  NodeOnly(s) \in State /\ NodeOnly(s).role = s.role /\ FlatPeers(NodeOnly(s)) = {}
BY DefaultStateType DEF NodeOnly, DefaultState, State, FlatPeers

\* What a peer list makes of the kernel's entries.
LEMMA EntriesType ==
  ASSUME NEW s \in State, KeysValid(s)
  PROVE  Entries(s) \subseteq [pubkey : ValidKey, ip : {p.ip : p \in Peer} \cup {NoIP}]
BY DEF Entries, KeysValid, FlatPeers, State

LEMMA CommandOps ==
  /\ \A c \in Command : c.op \in {"add", "remove", "promote", "demote"}
  /\ \A c \in Unlocked : c.op \in {"sync", "up", "down"} /\ ~Locks(c)
  /\ NoCmd.op = "none" /\ ~Locks(NoCmd)
<1>1. \A c \in Command : c.op \in {"add", "remove", "promote", "demote"}
  BY DEF Command
<1>2. \A c \in Unlocked : c.op \in {"sync", "up", "down"}
  BY DEF Unlocked
<1> QED
  BY <1>1, <1>2 DEF NoCmd, Locks

\* The operation tells which kind of command a process runs.
LEMMA KindOf ==
  ASSUME NEW c \in Ops
  PROVE  /\ c.op \in {"add", "remove", "promote", "demote"} <=> Locks(c)
         /\ c.op \in {"sync", "up", "down"} <=> c \in Unlocked
         /\ c.op = "none" <=> c = NoCmd
         /\ c.op \in {"add", "remove", "promote", "demote", "sync", "up", "down", "none"}
BY CommandOps DEF Ops, Locks

LEMMA InitIInv == Init => IInv
<1> SUFFICES ASSUME Init PROVE IInv
  OBVIOUS
<1>1. disk \in State /\ UniqueIn(disk) /\ KeysValid(disk)
  BY DefaultStateType, FreshStateType, NoPeersDistinct DEF Init, DefaultState, FreshState
<1>2. TypeOK
  BY <1>1, DefaultStateType DEF Init, TypeOK, Ops, NoVxlan
<1>3. Positions
  BY CommandOps, NoneAssumption DEF Init, Positions, StepsOf
<1>4. Tables
  BY <1>1, NoPeersDistinct, CommandOps DEF Init, Tables, DefaultState
<1>5. Solo /\ Sources
  BY NoneAssumption DEF Init, Solo, Sources, Idle
<1>6. PeersFollow /\ PlaneFollows
  <2>1. Entries(disk) = {}
    BY DEF Init, Entries, FlatPeers, DefaultState, FreshState
  <2>2. \A p \in Proc : ~Configured(p) /\ alone # p
    BY NoneAssumption DEF Init, Configured, At
  <2> QED
    BY <2>1, <2>2 DEF Init, PeersFollow, PlaneFollows, InPlace, NoVxlan
<1> QED
  BY <1>2, <1>3, <1>4, <1>5, <1>6 DEF IInv

-----------------------------------------------------------------------------
(***************************************************************************)
(* Every step keeps the types.                                             *)
(***************************************************************************)
LEMMA StartType ==
  ASSUME IInv, NEW p \in Proc, NEW c \in Ops \ {NoCmd}, NEW s \in State, Start(p, c, s),
         lock' \in Proc \cup {None}
  PROVE  TypeOK'
<1>1. FirstStep(c) \in {"peer", "wg", "bridge", "delvxlan"}
  BY KindOf DEF FirstStep
<1>2. Keys(disk) \subseteq ValidKey
  BY DEF IInv, Tables, KeysValid, Keys
<1>3. removed' \in [Proc -> SUBSET ValidKey]
  BY <1>2 DEF Start, IInv, TypeOK
<1> QED
  BY <1>1, <1>3 DEF Start, IInv, TypeOK, kernel

\* Ending a process disturbs no type.
LEMMA EndType ==
  ASSUME IInv, NEW p \in Proc, End(p), disk' \in State, UNCHANGED wg,
         bridge' \in {"none", "down", "up"}, overlap' \in BOOLEAN, drift' \subseteq {"wg", "l2"},
         vxlan' \in [exists : BOOLEAN, master : BOOLEAN, hairpin : BOOLEAN, up : BOOLEAN,
                    ip : OverlayIP \cup {NoIP}]
  PROVE  TypeOK'
BY DefaultStateType DEF End, IInv, TypeOK, Ops

\* A step of a process that goes on.
LEMMA GoType ==
  ASSUME IInv, NEW p \in Proc,
         NEW step \in {"vxlan", "attach", "hairpin", "ports", "upbridge", "save", "delbridge"},
         Goto(p, step), UNCHANGED <<disk, overlap>>, drift' \subseteq {"wg", "l2"},
         wg' \subseteq [pubkey : ValidKey, ip : {q.ip : q \in Peer} \cup {NoIP}],
         bridge' \in {"none", "down", "up"},
         vxlan' \in [exists : BOOLEAN, master : BOOLEAN, hairpin : BOOLEAN, up : BOOLEAN,
                    ip : OverlayIP \cup {NoIP}]
  PROVE  TypeOK'
BY DEF Goto, IInv, TypeOK

\* The steps of a process one by one.
LEMMA StepType ==
  ASSUME IInv, NEW p \in Proc, Step(p)
  PROVE  TypeOK'
<1>0. /\ TypeOK /\ cmd[p] \in Ops /\ mem[p] \in State /\ disk \in State
      /\ KeysValid(mem[p]) /\ overlap \in BOOLEAN /\ drift \subseteq {"wg", "l2"}
  BY DEF IInv, TypeOK, Tables
<1>1. CASE AddOrUpdatePeer(p)
  <2>1. cmd[p].peer \in Peer /\ cmd[p].peer.pubkey \in ValidKey
    BY <1>0, <1>1 DEF AddOrUpdatePeer, IInv, Tables, KeysValid, FlatPeers, State
  <2>2. wg' \subseteq [pubkey : ValidKey, ip : {q.ip : q \in Peer} \cup {NoIP}]
    BY <1>0, <1>1, <2>1 DEF AddOrUpdatePeer, TypeOK, SetPeer
  <2> QED
    BY <1>0, <1>1, <2>2, GoType DEF AddOrUpdatePeer, history, TypeOK
<1>2. CASE RemoveWgPeer(p) \/ EnsureBridge(p)
  BY <1>0, <1>2, GoType DEF RemoveWgPeer, EnsureBridge, TypeOK, history
<1>8. CASE Warn(p)
  BY <1>0, <1>8, GoType DEF Warn, TypeOK, kernel
<1>9. CASE DelVxlan(p)
  BY <1>0, <1>9, GoType DEF DelVxlan, TypeOK, history, NoVxlan
<1>3. CASE EnsureVxlan(p)
  <2>1. mem[p].ip \in OverlayIP
    BY <1>0 DEF State
  <2> QED
    BY <1>0, <1>3, <2>1, GoType DEF EnsureVxlan, TypeOK, history, NoVxlan
<1>4. CASE Attach(p) \/ SetHairpin(p) \/ UpVxlan(p)
  BY <1>0, <1>4, GoType DEF Attach, SetHairpin, UpVxlan, TypeOK, history
<1>5. CASE SyncPeers(p)
  <2>1. wg' \subseteq [pubkey : ValidKey, ip : {q.ip : q \in Peer} \cup {NoIP}]
    BY <1>0, <1>5, EntriesType DEF SyncPeers
  <2>2. mem' \in [Proc -> State]
    BY <1>0, <1>5, NodeOnlyType DEF SyncPeers, TypeOK
  <2> QED
    BY <1>0, <1>5, <2>1, <2>2 DEF SyncPeers, TypeOK
<1>6. CASE UpBridge(p)
  <2>1. /\ UNCHANGED <<disk, wg, vxlan>> /\ bridge' = "up"
        /\ overlap' \in BOOLEAN /\ drift' \subseteq {"wg", "l2"}
    BY <1>0, <1>6 DEF UpBridge
  <2>2. CASE Goto(p, "save")
    BY <1>0, <2>1, <2>2 DEF Goto, TypeOK
  <2>3. CASE End(p)
    BY <1>0, <2>1, <2>3, EndType DEF TypeOK
  <2> QED
    BY <1>6, <2>2, <2>3 DEF UpBridge
<1>7. CASE Save(p) \/ RejectPeers(p) \/ DelBridge(p)
  BY <1>0, <1>7, EndType DEF Save, RejectPeers, DelBridge, kernel, history, TypeOK
<1> QED
  BY <1>1, <1>2, <1>3, <1>4, <1>5, <1>6, <1>7, <1>8, <1>9 DEF Step

LEMMA NextType == IInv /\ [Next]_vars => TypeOK'
<1> SUFFICES ASSUME IInv, [Next]_vars PROVE TypeOK'
  OBVIOUS
<1>0. TypeOK /\ disk \in State
  BY DEF IInv, TypeOK
<1>1. ASSUME NEW p \in Proc, NEW c \in Command, StartLocked(p, c) PROVE TypeOK'
  <2>1. PICK s \in Outcomes(c, disk) : Start(p, c, s)
    BY <1>1 DEF StartLocked
  <2>2. s \in State /\ c \in Ops \ {NoCmd}
    BY <1>0, <2>1, OutcomesType, CommandOps DEF Ops
  <2> QED
    BY <1>1, <2>1, <2>2, StartType DEF StartLocked
<1>2. ASSUME NEW p \in Proc, NEW c \in Unlocked, StartUnlocked(p, c) PROVE TypeOK'
  <2>1. PICK s \in State : Start(p, c, s)
    BY <1>0, <1>2, NodeOnlyType, DefaultStateType, CommandOps DEF StartUnlocked
  <2>2. c \in Ops \ {NoCmd}
    BY CommandOps DEF Ops
  <2> QED
    BY <1>0, <1>2, <2>1, <2>2, StartType DEF StartUnlocked, TypeOK
<1>3. ASSUME NEW p \in Proc, Abort(p) PROVE TypeOK'
  BY <1>0, <1>3, EndType DEF Abort, kernel, TypeOK
<1>4. ASSUME NEW p \in Proc, Reboot(p) PROVE TypeOK'
  <2>1. [op |-> "sync"] \in Ops /\ NoCmd \in Ops
    BY DEF Ops, Unlocked
  <2> QED
    BY <1>0, <1>4, <2>1, DefaultStateType DEF Reboot, TypeOK, NoVxlan
<1>5. CASE InitForce
  BY <1>0, <1>5, FreshStateType DEF InitForce, TypeOK, kernel
<1>6. CASE UNCHANGED vars
  BY <1>0, <1>6 DEF vars, TypeOK
<1> QED
  BY <1>1, <1>2, <1>3, <1>4, <1>5, <1>6, StepType DEF Next

-----------------------------------------------------------------------------
(***************************************************************************)
(* Who runs, where, and from what: Positions, Tables, Solo and Sources.    *)
(***************************************************************************)
Control == Positions /\ Tables /\ Solo /\ Sources

\* An idle process has no command, and every other one has.
LEMMA IdleNoCmd ==
  ASSUME IInv, NEW p \in Proc
  PROVE  Idle(p) <=> cmd[p] = NoCmd
<1>1. cmd[p] \in Ops /\ pc[p] \in StepsOf(cmd[p].op)
  BY DEF IInv, TypeOK, Positions
<1> QED
  BY <1>1, KindOf DEF StepsOf, Idle, Reconciling

\* The others, seen by a process that is running.
LEMMA Others ==
  ASSUME IInv, NEW p \in Proc, ~Idle(p)
  PROVE  /\ \A q \in Proc \ {p} : alone # q
         /\ alone = p => \A q \in Proc \ {p} : Idle(q) /\ cmd[q] = NoCmd /\ lock # q
         /\ alone # p => overlap /\ alone = None
<1>1. TypeOK /\ Solo /\ Positions
  BY DEF IInv
<1>2. \A q \in Proc : Idle(q) => cmd[q] = NoCmd /\ lock # q
  BY <1>1, IdleNoCmd, CommandOps DEF Positions
<1> QED
  BY <1>1, <1>2 DEF Solo, TypeOK

\* A process starts from the state on disk.
LEMMA StartControl ==
  ASSUME IInv, NEW p \in Proc, NEW c \in Ops \ {NoCmd}, NEW s \in State, Start(p, c, s),
         \/ lock = None /\ lock' = p /\ Locks(c) /\ s \in Outcomes(c, disk)
         \/ /\ lock' = lock
            /\ \/ c.op = "sync" /\ s = disk
               \/ c.op = "up" /\ s = NodeOnly(disk)
               \/ c.op = "down" /\ s = DefaultState
  PROVE  Control'
<1>1. TypeOK /\ Positions /\ Tables /\ Solo /\ Sources /\ cmd[p] = NoCmd /\ Idle(p)
  BY IdleNoCmd DEF IInv, Start
<1>2. /\ pc' = [pc EXCEPT ![p] = FirstStep(c)] /\ cmd' = [cmd EXCEPT ![p] = c]
      /\ mem' = [mem EXCEPT ![p] = s] /\ disk' = disk
      /\ removed' = [removed EXCEPT ![p] = IF c.op = "remove" THEN Keys(disk) \ Keys(s) ELSE {}]
  BY DEF Start
<1>3. FirstStep(c) \in StepsOf(c.op) \ {"idle"}
  BY KindOf DEF FirstStep, StepsOf, Reconciling
<1>4. Locks(c) <=> lock' = p
  <2>1. c.op \in {"sync", "up", "down"} => ~Locks(c)
    BY KindOf
  <2>2. lock # p
    BY <1>1, CommandOps DEF Positions
  <2> QED
    BY <2>1, <2>2
<1>5. Positions'
  BY <1>1, <1>2, <1>3, <1>4, NoneAssumption DEF TypeOK, Positions
<1>6. Tables'
  <2>1. UniqueIn(s) /\ KeysValid(s)
    BY <1>1, OutcomesUnique, OutcomesKeysValid, NoPeersDistinct
    DEF Tables, NodeOnly, DefaultState, TypeOK, Locks
  <2>2. c.op = "add" => c.peer \in FlatPeers(s)
    BY <1>1, AddedPeers, KindOf DEF TypeOK, Locks
  <2> QED
    BY <1>1, <1>2, <2>1, <2>2 DEF Tables, TypeOK
<1>7. Solo'
  <2>1. Locks(c) => \A q \in Proc : ~Locks(cmd[q])
    BY <1>1, KindOf, NoneAssumption DEF Positions
  <2>2. /\ alone' = IF \A q \in Proc : Idle(q) THEN p ELSE None
        /\ overlap' = (overlap \/ \E q \in Proc : ~Idle(q) /\ ~(Locks(c) /\ Locks(cmd[q])))
    BY DEF Start
  <2>3. /\ pc'[p] # "idle" /\ \A q \in Proc \ {p} : pc'[q] = pc[q]
        /\ pc[p] = "idle"
    BY <1>1, <1>2, <1>3 DEF TypeOK, Idle
  <2> QED
    BY <2>1, <2>2, <2>3, NoneAssumption DEF Solo, Idle
<1>8. Sources'
  <2>1. c.op = "sync" => FirstStep(c) = "wg"
    BY DEF FirstStep
  <2>2. \A q \in Proc : alone' = q => q = p
    BY NoneAssumption DEF Start
  <2>3. /\ pc'[p] = FirstStep(c) /\ cmd'[p] = c /\ mem'[p] = s
        /\ c.op = "remove" => removed'[p] = Keys(disk) \ Keys(s)
    BY <1>1, <1>2 DEF TypeOK
  <2>4. /\ Locks(c) => s \in Outcomes(c, disk)
        /\ c.op = "sync" => s = disk
        /\ c.op = "up" => s = NodeOnly(disk)
    BY KindOf DEF Locks
  <2> QED
    BY <1>2, <2>1, <2>2, <2>3, <2>4 DEF Sources, At, Keys, FlatPeers
<1> QED
  BY <1>5, <1>6, <1>7, <1>8 DEF Control

\* A process goes on; a sync forgets the peers once it has configured them.
LEMMA GoControl ==
  ASSUME IInv, NEW p \in Proc, ~Idle(p), NEW step \in StepsOf(cmd[p].op) \ {"idle", "wg"},
         pc' = [pc EXCEPT ![p] = step],
         mem' = IF At(p, "wg") /\ ~Locks(cmd[p]) THEN [mem EXCEPT ![p] = NodeOnly(mem[p])] ELSE mem,
         UNCHANGED <<disk, cmd, removed, lock, alone>>,
         overlap' = overlap \/ (~overlap' /\ alone = p)
  PROVE  Control'
<1>1. TypeOK /\ Positions /\ Tables /\ Solo /\ Sources
  BY DEF IInv
<1>2. Positions'
  BY <1>1 DEF TypeOK, Positions
<1>3. Tables'
  <2>1. At(p, "wg") /\ ~Locks(cmd[p]) => cmd[p].op = "sync"
    BY <1>1, KindOf DEF TypeOK, Positions, At, StepsOf, Reconciling
  <2>2. \A s \in State : UniqueIn(NodeOnly(s)) /\ KeysValid(NodeOnly(s))
    BY NoPeersDistinct DEF NodeOnly, DefaultState
  <2> QED
    BY <1>1, <2>1, <2>2 DEF Tables, TypeOK
<1>4. Solo'
  BY <1>1, Others DEF Solo, Idle, TypeOK
<1>5. Sources'
  <2>1. At(p, "wg") => cmd[p].op = "sync" \/ Locks(cmd[p])
    BY <1>1, KindOf DEF TypeOK, Positions, At, StepsOf, Reconciling
  <2>2. /\ ~(Locks(cmd[p]) /\ cmd[p].op \in {"sync", "up"})
        /\ cmd[p].op = "remove" => Locks(cmd[p])
    BY <1>1, KindOf DEF TypeOK
  <2>3. cmd[p].op = "remove" => mem' = mem
    BY <2>2
  <2> QED
    BY <1>1, <2>1, <2>2, <2>3, Others DEF Sources, At, TypeOK, Keys, FlatPeers
<1> QED
  BY <1>2, <1>3, <1>4, <1>5 DEF Control

\* A process ends, after saving or without.
LEMMA EndControl ==
  ASSUME IInv, NEW p \in Proc, ~Idle(p), End(p), disk' \in {disk, mem[p]},
         overlap' = overlap \/ (~overlap' /\ alone = p)
  PROVE  Control' /\ \A q \in Proc : alone' # q
<1>1. TypeOK /\ Positions /\ Tables /\ Solo /\ Sources
  BY DEF IInv
<1>2. alone' = None
  BY <1>1, Others DEF End, TypeOK
<1>3. Positions'
  <2>1. pc'[p] \in StepsOf(cmd'[p].op) /\ ~Locks(cmd'[p]) /\ lock' # p
    BY <1>1, CommandOps, NoneAssumption DEF TypeOK, End, StepsOf
  <2>2. \A q \in Proc \ {p} : pc'[q] = pc[q] /\ cmd'[q] = cmd[q] /\ (lock' = q <=> lock = q)
    BY <1>1, NoneAssumption DEF TypeOK, End
  <2> QED
    BY <1>1, <2>1, <2>2 DEF Positions
<1>4. Tables'
  <2>1. UniqueIn(disk') /\ KeysValid(disk')
    BY <1>1 DEF Tables
  <2>2. UniqueIn(DefaultState) /\ KeysValid(DefaultState)
    BY NoPeersDistinct DEF DefaultState
  <2> QED
    BY <1>1, <2>1, <2>2, CommandOps DEF Tables, End, TypeOK
<1>5. Solo'
  BY <1>1, <1>2, Others, NoneAssumption DEF Solo, Idle, End, TypeOK
<1> QED
  BY <1>2, <1>3, <1>4, <1>5, NoneAssumption DEF Control, Sources

-----------------------------------------------------------------------------
(***************************************************************************)
(* The kernel: PeersFollow and PlaneFollows.                               *)
(***************************************************************************)
Follows == PeersFollow /\ PlaneFollows

\* What the invariant says to a process that is alone.
LEMMA AloneView ==
  ASSUME IInv, NEW p \in Proc, alone = p
  PROVE  /\ ~overlap /\ "wg" \notin drift /\ Configured(p) => wg = Entries(mem[p])
         /\ ~overlap /\ "wg" \notin drift /\ ~Configured(p) => wg = Entries(disk)
         /\ cmd[p].op \in {"promote", "demote", "sync"} /\ ~At(p, "wg") => wg = Entries(disk)
         /\ ~overlap /\ "l2" \notin drift /\ ~Building(p) => InPlace(disk.role)
         /\ Built(p)
         /\ ~Idle(p) /\ \A q \in Proc \ {p} : Idle(q)
<1>1. PeersFollow /\ PlaneFollows /\ Solo
  BY DEF IInv
<1>2. \A q \in Proc : Idle(q) => ~Configured(q) /\ ~Building(q)
  BY DEF Idle, Configured, Building, At, Reconciling
<1> QED
  BY <1>1, <1>2 DEF PeersFollow, PlaneFollows, Solo

\* When a process ends, nobody is alone; if it was, nobody runs.
LEMMA EndFollows ==
  ASSUME IInv, NEW p \in Proc, ~Idle(p), End(p),
         \A q \in Proc : alone' # q,
         overlap' = overlap \/ (~overlap' /\ alone = p),
         alone = p => /\ overlap' \/ "wg" \in drift' \/ wg' = Entries(disk)'
                      /\ overlap' \/ "l2" \in drift' \/ InPlace(disk.role)'
  PROVE  Follows'
<1>1. TypeOK /\ pc' = [pc EXCEPT ![p] = "idle"]
  BY DEF IInv, End
<1>2. CASE overlap'
  BY <1>2 DEF Follows, PeersFollow, PlaneFollows
<1>3. CASE ~overlap'
  <2>1. alone = p /\ \A q \in Proc : pc'[q] = "idle"
    BY <1>1, <1>3, Others DEF Idle, TypeOK
  <2>2. \A q \in Proc : ~Configured(q)' /\ ~Building(q)'
    BY <2>1 DEF Configured, Building, At, Reconciling
  <2> QED
    BY <1>3, <2>1, <2>2 DEF Follows, PeersFollow, PlaneFollows
<1> QED
  BY <1>2, <1>3

\* When it goes on, it is the one the invariant speaks of, or nobody is.
LEMMA GoFollows ==
  ASSUME IInv, NEW p \in Proc, ~Idle(p), NEW step \in StepsOf(cmd[p].op) \ {"wg", "idle"},
         pc' = [pc EXCEPT ![p] = step], UNCHANGED <<disk, cmd, alone>>,
         overlap' = overlap \/ (~overlap' /\ alone = p),
         alone = p =>
           /\ ~overlap' /\ "wg" \notin drift' /\ Configured(p)' => wg' = Entries(mem[p])'
           /\ ~overlap' /\ "wg" \notin drift' /\ ~Configured(p)' => wg' = Entries(disk)'
           /\ cmd[p].op \in {"promote", "demote", "sync"} => wg' = Entries(disk)'
           /\ ~overlap' /\ "l2" \notin drift' /\ ~Building(p)' => InPlace(disk.role)'
           /\ Built(p)'
  PROVE  Follows'
<1>1. TypeOK
  BY DEF IInv
<1>2. CASE alone # p
  <2>1. overlap' /\ \A q \in Proc : alone' # q
    BY <1>2, Others
  <2> QED
    BY <2>1 DEF Follows, PeersFollow, PlaneFollows
<1>3. CASE alone = p
  <2>1. \A q \in Proc \ {p} : pc'[q] = "idle" /\ alone' # q
    BY <1>1, <1>3, Others DEF Idle, TypeOK
  <2>2. \A q \in Proc \ {p} : ~Configured(q)' /\ ~Building(q)'
    BY <2>1 DEF Configured, Building, At, Reconciling
  <2>3. (\A q \in Proc : ~Configured(q)') <=> ~Configured(p)'
    BY <2>2
  <2>4. (\A q \in Proc : ~Building(q)') <=> ~Building(p)'
    BY <2>2
  <2>5. PeersFollow'
    BY <1>3, <2>1, <2>2, <2>3 DEF PeersFollow
  <2>6. PlaneFollows'
    BY <1>3, <2>1, <2>2, <2>4 DEF PlaneFollows
  <2> QED
    BY <2>5, <2>6 DEF Follows
<1> QED
  BY <1>2, <1>3

-----------------------------------------------------------------------------
(***************************************************************************)
(* Configuring one peer is what configuring all would do with it.          *)
(***************************************************************************)
LEMMA AddedEntries ==
  ASSUME NEW s \in State, NEW c \in Command, c.op = "add", NEW t \in Outcomes(c, s)
  PROVE  SetPeer(Entries(s), c.peer) = Entries(t)
<1>1. /\ FlatPeers(t) = FlatPeers(s) \cup {c.peer}
      /\ \A q \in FlatPeers(s) : q.pubkey # c.peer.pubkey /\ q.ip # c.peer.ip
  BY AddedPeers
<1>2. \A e \in Entries(s) : e.pubkey # c.peer.pubkey /\ e.ip # c.peer.ip
  BY <1>1 DEF Entries
<1>3. SetPeer(Entries(s), c.peer) = {[pubkey |-> c.peer.pubkey, ip |-> c.peer.ip]} \cup Entries(s)
  BY <1>2 DEF SetPeer
<1> QED
  BY <1>1, <1>3 DEF Entries

LEMMA RemovedEntries ==
  ASSUME NEW s \in State, UniqueIn(s), NEW c \in Command, c.op = "remove",
         NEW t \in Outcomes(c, s)
  PROVE  {e \in Entries(s) :
            e.pubkey \notin {q.pubkey : q \in FlatPeers(s)} \ {q.pubkey : q \in FlatPeers(t)}}
           = Entries(t)
<1>1. PICK p \in FlatPeers(s) : FlatPeers(t) = FlatPeers(s) \ {p}
  BY RemovedPeers
<1>2. \A q \in FlatPeers(s) : q.pubkey = p.pubkey => q = p
  BY DEF UniqueIn
<1>3. {q.pubkey : q \in FlatPeers(s)} \ {q.pubkey : q \in FlatPeers(t)} = {p.pubkey}
  BY <1>1, <1>2
<1> HIDE <1>3
<1>4. {e \in Entries(s) : e.pubkey \notin {p.pubkey}} = Entries(t)
  BY <1>1, <1>2 DEF Entries
<1> QED
  BY <1>3, <1>4

\* A role change and the state of a sync or an up have the role and peers they need.
LEMMA SourceRoles ==
  ASSUME IInv, NEW p \in Proc, alone = p
  PROVE  /\ cmd[p].op = "add" =>
              /\ SetPeer(Entries(disk), cmd[p].peer) = Entries(mem[p])
              /\ mem[p].role = disk.role
         /\ cmd[p].op = "remove" =>
              /\ {e \in Entries(disk) : e.pubkey \notin removed[p]} = Entries(mem[p])
              /\ mem[p].role = disk.role
         /\ cmd[p].op \in {"promote", "demote"} => Entries(mem[p]) = Entries(disk)
         /\ cmd[p].op = "sync" =>
              /\ At(p, "wg") => Entries(mem[p]) = Entries(disk)
              /\ mem[p].role = disk.role
         /\ cmd[p].op = "up" => mem[p].role = disk.role
<1>1. TypeOK /\ Sources /\ UniqueIn(disk) /\ cmd[p] \in Ops /\ disk \in State
  BY DEF IInv, TypeOK, Tables
<1>2. cmd[p].op \in {"add", "remove", "promote", "demote"} =>
        cmd[p] \in Command /\ mem[p] \in Outcomes(cmd[p], disk)
  BY <1>1, KindOf DEF Sources, Locks
<1>8. cmd[p].op = "remove" => removed[p] = Keys(disk) \ Keys(mem[p])
  BY <1>1 DEF Sources
<1>3. CASE cmd[p].op = "add"
  BY <1>1, <1>2, <1>3, AddedEntries, AddedPeers
<1>4. CASE cmd[p].op = "remove"
  BY <1>1, <1>2, <1>4, <1>8, RemovedEntries, RemovedPeers DEF Keys
<1>5. CASE cmd[p].op \in {"promote", "demote"}
  BY <1>1, <1>2, <1>5, RoleChangeKeepsPeers DEF Entries
<1>6. CASE cmd[p].op = "sync"
  BY <1>1, <1>6, NodeOnlyType DEF Sources
<1>7. CASE cmd[p].op = "up"
  BY <1>1, <1>7, NodeOnlyType DEF Sources
<1> QED
  BY <1>3, <1>4, <1>5, <1>6, <1>7

(***************************************************************************)
(* applyToKernel and removeFromKernel.                                     *)
(***************************************************************************)
LEMMA PeerSteps ==
  ASSUME IInv, NEW p \in Proc, AddOrUpdatePeer(p) \/ RemoveWgPeer(p) \/ Warn(p)
  PROVE  Control' /\ Follows'
<1>1. /\ ~Idle(p) /\ At(p, "peer")
      /\ cmd[p].op \in {"add", "remove"} /\ StepsOf(cmd[p].op) = {"peer", "save"}
  <2>1. At(p, "peer") /\ pc[p] \in StepsOf(cmd[p].op) /\ cmd[p] \in Ops
    BY DEF AddOrUpdatePeer, RemoveWgPeer, Warn, IInv, TypeOK, Positions
  <2> QED
    BY <2>1, KindOf DEF At, Idle, StepsOf, Reconciling
<1>2. /\ pc' = [pc EXCEPT ![p] = "save"]
      /\ UNCHANGED <<disk, cmd, mem, removed, lock, alone, overlap, bridge, vxlan>>
      /\ drift \subseteq drift'
  BY DEF AddOrUpdatePeer, RemoveWgPeer, Warn, Goto, history, kernel
<1>3. Control'
  BY <1>1, <1>2, GoControl DEF At
<1>4. ASSUME alone = p
      PROVE  /\ Configured(p)' /\ ~Building(p)' /\ Built(p)' /\ InPlace(disk.role)' = InPlace(disk.role)
             /\ ~overlap' /\ "wg" \notin drift' => wg' = Entries(mem[p])'
             /\ ~overlap' /\ "l2" \notin drift' => InPlace(disk.role)
  <2>1. pc'[p] = "save"
    BY <1>2 DEF IInv, TypeOK
  <2>2. Configured(p)' /\ ~Building(p)' /\ Built(p)'
    BY <1>1, <1>2, <2>1 DEF Configured, Building, Built, At, Reconciling
  <2>3. InPlace(disk.role)' = InPlace(disk.role)
    BY <1>2 DEF InPlace
  <2>4. ~Configured(p) /\ ~Building(p)
    BY <1>1 DEF Configured, Building, At, Reconciling
  <2>5. ASSUME ~overlap', "wg" \notin drift' PROVE wg' = Entries(mem[p])'
    <3>1. wg = Entries(disk)
      BY <1>2, <1>4, <2>4, <2>5, AloneView
    <3>2. wg' = Entries(mem[p])
      BY <1>1, <1>4, <2>5, <3>1, SourceRoles DEF AddOrUpdatePeer, RemoveWgPeer, Warn
    <3> QED
      BY <1>2, <3>2 DEF Entries, FlatPeers
  <2>6. ~overlap' /\ "l2" \notin drift' => InPlace(disk.role)
    BY <1>2, <1>4, <2>4, AloneView
  <2> QED
    BY <2>2, <2>3, <2>5, <2>6
<1>5. Follows'
  BY <1>1, <1>2, <1>4, GoFollows
<1> QED
  BY <1>3, <1>5

(***************************************************************************)
(* Client.Sync.                                                            *)
(***************************************************************************)
LEMMA SyncSteps ==
  ASSUME IInv, NEW p \in Proc, SyncPeers(p) \/ RejectPeers(p)
  PROVE  Control' /\ Follows'
<1>1. /\ ~Idle(p) /\ At(p, "wg") /\ cmd[p].op \in {"promote", "demote", "sync"}
      /\ StepsOf(cmd[p].op) \subseteq {"wg", "save"} \cup Reconciling
      /\ "bridge" \in StepsOf(cmd[p].op)
      /\ ~Configured(p) /\ ~Building(p)
  <2>1. At(p, "wg") /\ pc[p] \in StepsOf(cmd[p].op) /\ cmd[p] \in Ops
    BY DEF SyncPeers, RejectPeers, IInv, TypeOK, Positions
  <2> QED
    BY <2>1, KindOf DEF At, Idle, StepsOf, Reconciling, Configured, Building
<1>2. CASE SyncPeers(p)
  <2>1. /\ pc' = [pc EXCEPT ![p] = "bridge"]
        /\ mem' = IF At(p, "wg") /\ ~Locks(cmd[p]) THEN [mem EXCEPT ![p] = NodeOnly(mem[p])] ELSE mem
        /\ UNCHANGED <<disk, cmd, removed, lock, alone, overlap, bridge, vxlan>>
        /\ wg' = Entries(mem[p])
    BY <1>1, <1>2 DEF SyncPeers
  <2>2. Control'
    BY <1>1, <2>1, GoControl
  <2>3. ASSUME alone = p
        PROVE  ~Configured(p)' /\ Building(p)' /\ Built(p)' /\ wg' = Entries(disk)'
    <3>1. pc'[p] = "bridge"
      BY <2>1 DEF IInv, TypeOK
    <3>2. ~Configured(p)' /\ Building(p)' /\ Built(p)'
      BY <1>1, <2>1, <3>1 DEF Configured, Building, Built, At, Reconciling
    <3>3. wg' = Entries(disk)
      BY <1>1, <2>1, <2>3, SourceRoles
    <3> QED
      BY <2>1, <3>2, <3>3 DEF Entries, FlatPeers
  <2>4. Follows'
    BY <1>1, <2>1, <2>3, GoFollows
  <2> QED
    BY <2>2, <2>4
<1>3. CASE RejectPeers(p)
  <2>1. End(p) /\ UNCHANGED <<disk, wg, bridge, vxlan, overlap, drift>>
    BY <1>3 DEF RejectPeers, kernel, history
  <2>2. Control' /\ \A q \in Proc : alone' # q
    BY <1>1, <2>1, EndControl
  <2>3. /\ wg = Entries(disk) => wg' = Entries(disk)'
        /\ InPlace(disk.role) => InPlace(disk.role)'
    BY <2>1 DEF Entries, FlatPeers, InPlace
  <2> QED
    BY <1>1, <2>1, <2>2, <2>3, AloneView, EndFollows
<1> QED
  BY <1>2, <1>3

(***************************************************************************)
(* l2.Up, each call building on those before it.                           *)
(***************************************************************************)
UpStep(p) ==
  EnsureBridge(p) \/ EnsureVxlan(p) \/ Attach(p) \/ SetHairpin(p) \/ UpVxlan(p) \/ UpBridge(p)

\* It takes a process with a command that reconciles to the next call.
LEMMA UpStepGoes ==
  ASSUME IInv, NEW p \in Proc, UpStep(p)
  PROVE  /\ ~Idle(p) /\ pc[p] \in Reconciling /\ ~Configured(p) /\ Building(p) /\ ~At(p, "wg")
         /\ cmd[p].op \in {"promote", "demote", "sync", "up"}
         /\ cmd[p].op \in {"promote", "demote"} <=> Locks(cmd[p])
         /\ Reconciling \subseteq StepsOf(cmd[p].op)
         /\ Locks(cmd[p]) => "save" \in StepsOf(cmd[p].op)
         /\ UNCHANGED <<disk, wg>>
<1>1. pc[p] \in Reconciling /\ pc[p] \in StepsOf(cmd[p].op) /\ cmd[p] \in Ops /\ UNCHANGED <<disk, wg>>
  BY DEF UpStep, EnsureBridge, EnsureVxlan, Attach, SetHairpin, UpVxlan, UpBridge, At, Reconciling,
         IInv, TypeOK, Positions
<1> QED
  BY <1>1, KindOf DEF At, Idle, StepsOf, Reconciling, Configured, Building

\* All calls but the last go on to the next.
LEMMA UpSteps ==
  ASSUME IInv, NEW p \in Proc,
         EnsureBridge(p) \/ EnsureVxlan(p) \/ Attach(p) \/ SetHairpin(p) \/ UpVxlan(p)
  PROVE  Control' /\ Follows'
<1>1. /\ ~Idle(p) /\ ~Configured(p) /\ Building(p) /\ ~At(p, "wg") /\ Reconciling \subseteq StepsOf(cmd[p].op)
      /\ UNCHANGED <<disk, wg>>
  BY UpStepGoes DEF UpStep
<1>2. PICK step \in {"vxlan", "attach", "hairpin", "ports", "upbridge"} :
         pc' = [pc EXCEPT ![p] = step] /\ pc'[p] = step
  BY DEF EnsureBridge, EnsureVxlan, Attach, SetHairpin, UpVxlan, Goto, IInv, TypeOK
<1>3. UNCHANGED <<cmd, mem, removed, lock, alone, overlap, drift>>
  BY DEF EnsureBridge, EnsureVxlan, Attach, SetHairpin, UpVxlan, Goto, history
<1>4. Control'
  BY <1>1, <1>2, <1>3, GoControl DEF Reconciling
<1>5. ASSUME alone = p PROVE Built(p)'
  <2>1. Built(p) /\ bridge \in {"none", "down", "up"}
        /\ vxlan \in [exists : BOOLEAN, master : BOOLEAN, hairpin : BOOLEAN, up : BOOLEAN,
                      ip : OverlayIP \cup {NoIP}]
    BY <1>5, AloneView DEF IInv, TypeOK
  <2>2. pc \in [Proc -> {"idle", "peer", "wg", "bridge", "vxlan", "attach", "hairpin",
                        "ports", "upbridge", "save", "delvxlan", "delbridge"}]
    BY DEF IInv, TypeOK
  <2>3. CASE EnsureBridge(p)
    BY <1>3, <2>1, <2>2, <2>3 DEF EnsureBridge, Goto, Built, At
  <2>4. CASE EnsureVxlan(p)
    BY <1>3, <2>1, <2>2, <2>4 DEF EnsureVxlan, Goto, Built, At, NoVxlan
  <2>5. CASE Attach(p)
    BY <1>3, <2>1, <2>2, <2>5 DEF Attach, Goto, Built, At
  <2>6. CASE SetHairpin(p)
    BY <1>3, <2>1, <2>2, <2>6 DEF SetHairpin, Goto, Built, At
  <2>7. CASE UpVxlan(p)
    BY <1>3, <2>1, <2>2, <2>7 DEF UpVxlan, Goto, Built, At
  <2> QED
    BY <2>3, <2>4, <2>5, <2>6, <2>7
<1>6. Follows'
  <2>1. ~Configured(p)' /\ Building(p)'
    BY <1>2 DEF Configured, Building, At, Reconciling
  <2>2. wg = Entries(disk) => wg' = Entries(disk)'
    BY <1>1 DEF Entries, FlatPeers
  <2>3. step \in StepsOf(cmd[p].op) \ {"wg", "idle"}
    BY <1>1, <1>2 DEF Reconciling
  <2> QED
    BY <1>1, <1>2, <1>3, <1>5, <2>1, <2>2, <2>3, AloneView, GoFollows
<1> QED
  BY <1>4, <1>6

\* The last one finishes the data plane.
LEMMA UpDone ==
  ASSUME IInv, NEW p \in Proc, UpBridge(p), alone = p
  PROVE  /\ vxlan'.exists /\ vxlan'.master /\ vxlan'.up /\ bridge' = "up"
         /\ vxlan'.hairpin = (mem[p].role = "root")
         /\ cmd[p].op # "up" => wg' = Entries(disk)
<1>1. Built(p) /\ At(p, "upbridge") /\ UNCHANGED <<vxlan, wg>> /\ bridge' = "up"
  BY AloneView DEF UpBridge
<1>2. /\ vxlan.exists /\ vxlan.master /\ vxlan.up
      /\ vxlan.hairpin = (mem[p].role = "root")
  BY <1>1 DEF Built, At
<1>3. cmd[p].op # "up" => wg = Entries(disk)
  BY UpStepGoes, AloneView DEF UpStep
<1> QED
  BY <1>1, <1>2, <1>3

LEMMA UpBridgeStep ==
  ASSUME IInv, NEW p \in Proc, UpBridge(p)
  PROVE  Control' /\ Follows'
<1>1. /\ ~Idle(p) /\ ~At(p, "wg") /\ cmd[p].op \in {"promote", "demote", "sync", "up"}
      /\ cmd[p].op \in {"promote", "demote"} <=> Locks(cmd[p])
      /\ Locks(cmd[p]) => "save" \in StepsOf(cmd[p].op)
      /\ UNCHANGED <<disk, wg>>
  BY UpStepGoes DEF UpStep
<1>2. overlap' = overlap \/ (~overlap' /\ alone = p)
  <2>1. overlap \in BOOLEAN
    BY DEF IInv, TypeOK
  <2> QED
    BY <2>1 DEF UpBridge
<1>3. CASE Locks(cmd[p])
  <2>1. /\ pc' = [pc EXCEPT ![p] = "save"] /\ pc'[p] = "save"
        /\ UNCHANGED <<cmd, mem, removed, lock, alone>>
    BY <1>3 DEF UpBridge, Goto, IInv, TypeOK
  <2>2. Control'
    BY <1>1, <1>2, <1>3, <2>1, GoControl
  <2>3. ~Configured(p)' /\ Building(p)'
    BY <1>1, <1>3, <2>1 DEF Configured, Building, At
  <2>4. ASSUME alone = p PROVE Built(p)' /\ wg' = Entries(disk)'
    <3>1. InPlace(mem[p].role)' /\ vxlan'.exists
      BY <2>1, <2>4, UpDone DEF InPlace
    <3>2. wg' = Entries(disk)'
      BY <1>1, <1>3, <2>4, UpDone DEF Entries, FlatPeers
    <3> QED
      BY <2>1, <3>1, <3>2 DEF Built, At
  <2>5. Follows'
    BY <1>1, <1>2, <1>3, <2>1, <2>3, <2>4, GoFollows
  <2> QED
    BY <2>2, <2>5
<1>4. CASE ~Locks(cmd[p])
  <2>1. End(p)
    BY <1>4 DEF UpBridge
  <2>2. Control' /\ \A q \in Proc : alone' # q
    BY <1>1, <1>2, <2>1, EndControl
  <2>3. ASSUME alone = p
        PROVE  /\ overlap' \/ "wg" \in drift' \/ wg' = Entries(disk)'
               /\ InPlace(disk.role)'
    <3>1. mem[p].role = disk.role
      BY <1>1, <1>4, <2>3, SourceRoles
    <3>2. InPlace(disk.role)'
      BY <1>1, <2>3, <3>1, UpDone DEF InPlace
    <3>3. ASSUME ~overlap', "wg" \notin drift' PROVE wg' = Entries(disk)
      <4>1. cmd[p].op # "up" => wg' = Entries(disk)
        BY <2>3, UpDone
      <4>2. cmd[p].op = "up" => ~overlap /\ "wg" \notin drift /\ ~Configured(p)
        BY <1>1, <2>3, <3>3 DEF UpBridge, Configured
      <4> QED
        BY <1>1, <2>3, <4>1, <4>2, AloneView
    <3> QED
      BY <1>1, <3>2, <3>3 DEF Entries, FlatPeers
  <2> QED
    BY <1>1, <1>2, <2>1, <2>2, <2>3, EndFollows
<1> QED
  BY <1>3, <1>4

(***************************************************************************)
(* l2.Down, Save and what ends a process half-way.                         *)
(***************************************************************************)
LEMMA DownSteps ==
  ASSUME IInv, NEW p \in Proc, DelVxlan(p) \/ DelBridge(p)
  PROVE  Control' /\ Follows'
<1>1. /\ ~Idle(p) /\ ~At(p, "wg") /\ cmd[p].op = "down" /\ ~Configured(p) /\ ~Building(p)
      /\ "delbridge" \in StepsOf(cmd[p].op)
      /\ UNCHANGED <<disk, wg, overlap, drift>>
  <2>1. /\ pc[p] \in {"delvxlan", "delbridge"} /\ pc[p] \in StepsOf(cmd[p].op) /\ cmd[p] \in Ops
        /\ UNCHANGED <<disk, wg, overlap, drift>>
    BY DEF DelVxlan, DelBridge, At, IInv, TypeOK, Positions, history
  <2> QED
    BY <2>1, KindOf DEF StepsOf, Reconciling, Idle, At, Configured, Building
<1>2. Entries(disk)' = Entries(disk)
  BY <1>1 DEF Entries, FlatPeers
<1>3. CASE DelVxlan(p)
  <2>1. /\ pc' = [pc EXCEPT ![p] = "delbridge"] /\ pc'[p] = "delbridge"
        /\ UNCHANGED <<cmd, mem, removed, lock, alone>> /\ ~vxlan'.exists
    BY <1>3 DEF DelVxlan, Goto, NoVxlan, IInv, TypeOK
  <2>2. Control'
    BY <1>1, <2>1, GoControl
  <2>3. ~Configured(p)' /\ Built(p)' /\ InPlace(disk.role)'
    BY <2>1 DEF Configured, Building, Built, InPlace, At
  <2> QED
    BY <1>1, <1>2, <2>1, <2>2, <2>3, AloneView, GoFollows
<1>4. CASE DelBridge(p)
  <2>1. End(p) /\ vxlan' = [vxlan EXCEPT !.master = FALSE, !.hairpin = FALSE] /\ At(p, "delbridge")
    BY <1>4 DEF DelBridge
  <2>2. Control' /\ \A q \in Proc : alone' # q
    BY <1>1, <2>1, EndControl
  <2>3. alone = p => InPlace(disk.role)'
    <3>1. vxlan'.exists = vxlan.exists
      BY <2>1 DEF IInv, TypeOK
    <3> QED
      BY <2>1, <3>1, AloneView DEF Built, InPlace
  <2> QED
    BY <1>1, <1>2, <2>1, <2>2, <2>3, AloneView, EndFollows
<1> QED
  BY <1>3, <1>4

LEMMA SaveStep ==
  ASSUME IInv, NEW p \in Proc, Save(p)
  PROVE  Control' /\ Follows'
<1>1. /\ ~Idle(p) /\ At(p, "save") /\ cmd[p].op \in {"add", "remove", "promote", "demote"}
      /\ disk' = mem[p] /\ End(p) /\ UNCHANGED <<wg, bridge, vxlan, overlap, drift>>
  <2>1. At(p, "save") /\ pc[p] \in StepsOf(cmd[p].op) /\ cmd[p] \in Ops
    BY DEF Save, IInv, TypeOK, Positions
  <2> QED
    BY <2>1, KindOf DEF Save, At, Idle, StepsOf, Reconciling, kernel, history
<1>2. Control' /\ \A q \in Proc : alone' # q
  BY <1>1, EndControl
<1>3. Entries(disk)' = Entries(mem[p])
  BY <1>1 DEF Entries, FlatPeers
<1>4. InPlace(disk.role)' <=> InPlace(mem[p].role)
  BY <1>1 DEF InPlace
<1>5. ASSUME alone = p
      PROVE  /\ overlap' \/ "wg" \in drift' \/ wg' = Entries(disk)'
             /\ overlap' \/ "l2" \in drift' \/ InPlace(disk.role)'
  <2>1. CASE cmd[p].op \in {"add", "remove"}
    <3>1. Configured(p) /\ ~Building(p) /\ mem[p].role = disk.role
      BY <1>1, <1>5, <2>1, SourceRoles DEF Configured, Building, At, Reconciling
    <3> QED
      BY <1>1, <1>3, <1>4, <1>5, <3>1, AloneView
  <2>2. CASE cmd[p].op \in {"promote", "demote"}
    <3>1. Building(p) /\ ~At(p, "wg") /\ Entries(mem[p]) = Entries(disk)
      BY <1>1, <1>5, <2>2, SourceRoles DEF Building, At
    <3>2. wg = Entries(disk) /\ InPlace(mem[p].role)
      BY <1>1, <1>5, <2>2, <3>1, AloneView DEF Built
    <3> QED
      BY <1>1, <1>3, <1>4, <3>1, <3>2
  <2> QED
    BY <1>1, <2>1, <2>2
<1> QED
  BY <1>1, <1>2, <1>5, EndFollows

LEMMA AbortStep ==
  ASSUME IInv, NEW p \in Proc, Abort(p)
  PROVE  Control' /\ Follows'
<1>1. /\ ~Idle(p) /\ End(p) /\ UNCHANGED <<disk, wg, bridge, vxlan, overlap>> /\ drift \subseteq drift'
      /\ Configured(p) => "wg" \in drift'
      /\ Building(p) => "l2" \in drift'
  BY DEF Abort, kernel, Configured, Building, Reconciling
<1>2. Control' /\ \A q \in Proc : alone' # q
  BY <1>1, EndControl
<1>3. Entries(disk)' = Entries(disk) /\ (InPlace(disk.role) => InPlace(disk.role)')
  BY <1>1 DEF Entries, FlatPeers, InPlace
<1> QED
  BY <1>1, <1>2, <1>3, AloneView, EndFollows

(***************************************************************************)
(* A process starts; init --force; a reboot.                               *)
(***************************************************************************)
LEMMA StartFollows ==
  ASSUME IInv, NEW p \in Proc, NEW c \in Ops \ {NoCmd}, NEW s, Start(p, c, s), Control'
  PROVE  Follows'
<1>1. /\ cmd' = [cmd EXCEPT ![p] = c] /\ pc' = [pc EXCEPT ![p] = FirstStep(c)]
      /\ UNCHANGED <<disk, wg, bridge, vxlan, drift>>
      /\ alone' = IF \A q \in Proc : Idle(q) THEN p ELSE None
      /\ ~overlap' => ~overlap
  BY DEF Start, kernel
<1>2. /\ FirstStep(c) \in {"peer", "wg", "bridge", "delvxlan"}
      /\ c.op \in {"promote", "demote", "sync"} => FirstStep(c) = "wg"
  BY KindOf DEF FirstStep
<1>3. pc'[p] = FirstStep(c) /\ cmd'[p] = c /\ \A q \in Proc \ {p} : pc'[q] = pc[q]
  BY <1>1 DEF IInv, TypeOK
<1>4. Entries(disk)' = Entries(disk) /\ InPlace(disk.role)' = InPlace(disk.role)
  BY <1>1 DEF Entries, FlatPeers, InPlace
<1>5. /\ ~Configured(p)' /\ Built(p)'
      /\ c.op \in {"promote", "demote", "sync"} => At(p, "wg")'
  BY <1>2, <1>3 DEF Configured, Built, At
<1>6. \A q \in Proc : alone' = q => q = p
  BY <1>1, NoneAssumption
<1>7. ASSUME ~overlap' PROVE ~overlap /\ \A q \in Proc : Idle(q)
  <2>1. alone' = p
    BY <1>2, <1>3, <1>7 DEF Control, Solo, Idle
  <2> QED
    BY <1>1, <1>7, <2>1, NoneAssumption
<1>8. PeersFollow'
  <2>1. ASSUME ~overlap', "wg" \notin drift'
        PROVE  (\A q \in Proc : ~Configured(q)') /\ wg' = Entries(disk)'
    <3>1. \A q \in Proc : ~Configured(q)
      BY <1>7, <2>1 DEF Idle, Configured, At
    <3>2. wg = Entries(disk)
      BY <1>1, <1>7, <2>1, <3>1 DEF IInv, PeersFollow
    <3>3. \A q \in Proc \ {p} : ~Configured(q)'
      BY <1>3, <1>7, <2>1 DEF Idle, Configured, At
    <3> QED
      BY <1>1, <1>4, <1>5, <3>2, <3>3
  <2> QED
    BY <1>3, <1>5, <1>6, <2>1 DEF PeersFollow
<1>9. PlaneFollows'
  <2>1. ASSUME ~overlap', "l2" \notin drift' PROVE InPlace(disk.role)'
    <3>1. \A q \in Proc : ~Building(q)
      BY <1>7, <2>1 DEF Idle, Building, At, Reconciling
    <3> QED
      BY <1>1, <1>4, <1>7, <2>1, <3>1 DEF IInv, PlaneFollows
  <2> QED
    BY <1>5, <1>6, <2>1 DEF PlaneFollows
<1> QED
  BY <1>8, <1>9 DEF Follows

LEMMA StartSteps ==
  ASSUME IInv, NEW p \in Proc,
         \/ \E c \in Command : StartLocked(p, c)
         \/ \E c \in Unlocked : StartUnlocked(p, c)
  PROVE  Control' /\ Follows'
<1>0. disk \in State
  BY DEF IInv, TypeOK
<1>1. ASSUME NEW c \in Command, StartLocked(p, c) PROVE Control' /\ Follows'
  <2>1. PICK s \in Outcomes(c, disk) : Start(p, c, s)
    BY <1>1 DEF StartLocked
  <2>2. s \in State /\ c \in Ops \ {NoCmd} /\ Locks(c)
    BY <1>0, OutcomesType, CommandOps DEF Ops, Locks
  <2>3. Control'
    BY <1>1, <2>1, <2>2, StartControl DEF StartLocked
  <2> QED
    BY <2>1, <2>2, <2>3, StartFollows
<1>2. ASSUME NEW c \in Unlocked, StartUnlocked(p, c) PROVE Control' /\ Follows'
  <2>1. c \in Ops \ {NoCmd}
    BY CommandOps DEF Ops
  <2>2. PICK s \in State :
          /\ Start(p, c, s)
          /\ \/ c.op = "sync" /\ s = disk
             \/ c.op = "up" /\ s = NodeOnly(disk)
             \/ c.op = "down" /\ s = DefaultState
    BY <1>0, <1>2, CommandOps, NodeOnlyType, DefaultStateType DEF StartUnlocked
  <2>3. Control'
    BY <1>2, <2>1, <2>2, StartControl DEF StartUnlocked
  <2> QED
    BY <2>1, <2>2, <2>3, StartFollows
<1> QED
  BY <1>1, <1>2

LEMMA InitForceStep ==
  ASSUME IInv, InitForce
  PROVE  Control' /\ Follows'
<1>1. TypeOK /\ Positions /\ Tables /\ Solo
  BY DEF IInv
<1>2. /\ UNCHANGED <<lock, pc, cmd, mem, removed>> /\ disk' \in FreshState
      /\ \A p \in Proc : alone' # p
      /\ overlap' = (overlap \/ \E p \in Proc : ~Idle(p)) /\ drift' = {"wg", "l2"}
  BY NoneAssumption DEF InitForce
<1>3. Positions' /\ Sources'
  BY <1>1, <1>2 DEF Positions, Sources
<1>4. Tables'
  <2>1. UniqueIn(disk') /\ KeysValid(disk')
    BY <1>2, NoPeersDistinct DEF FreshState
  <2> QED
    BY <1>1, <1>2, <2>1 DEF Tables, UniqueIn, KeysValid, FlatPeers
<1>5. Solo'
  BY <1>1, <1>2 DEF Solo, Idle
<1>6. Follows'
  BY <1>2 DEF Follows, PeersFollow, PlaneFollows
<1> QED
  BY <1>3, <1>4, <1>5, <1>6 DEF Control

LEMMA RebootStep ==
  ASSUME IInv, NEW p \in Proc, Reboot(p)
  PROVE  Control' /\ Follows'
<1>1. TypeOK /\ Tables
  BY DEF IInv
<1>2. /\ pc'[p] = "wg" /\ cmd'[p] = [op |-> "sync"] /\ mem'[p] = disk
      /\ \A q \in Proc \ {p} : pc'[q] = "idle" /\ cmd'[q] = NoCmd /\ mem'[q] = DefaultState
  BY DEF Reboot
<1>3. /\ lock' = None /\ alone' = p /\ ~overlap' /\ drift' = {"wg"} /\ disk' = disk
      /\ vxlan' = NoVxlan
  BY DEF Reboot
<1>4. cmd'[p].op = "sync" /\ ~Locks(cmd'[p])
  <2>1. [op |-> "sync"] \in Unlocked
    BY DEF Unlocked
  <2> QED
    BY <1>2, <2>1, CommandOps
<1>5. Positions'
  <2>1. "wg" \in StepsOf("sync") /\ "idle" \in StepsOf("none")
    BY DEF StepsOf
  <2> QED
    BY <1>2, <1>3, <1>4, <2>1, CommandOps, NoneAssumption DEF Positions
<1>6. Tables' /\ Solo' /\ Sources'
  <2>1. UniqueIn(DefaultState) /\ KeysValid(DefaultState)
    BY NoPeersDistinct DEF DefaultState
  <2>2. UniqueIn(disk') /\ KeysValid(disk')
    BY <1>1, <1>3 DEF Tables
  <2>3. Tables'
    BY <1>2, <1>3, <1>4, <2>1, <2>2, CommandOps DEF Tables
  <2>4. Solo' /\ Sources'
    BY <1>2, <1>3, <1>4 DEF Solo, Sources, Idle, At
  <2> QED
    BY <2>3, <2>4
<1>7. PeersFollow' /\ PlaneFollows'
  BY <1>2, <1>3 DEF PeersFollow, PlaneFollows, InPlace, NoVxlan, Built, At
<1> QED
  BY <1>5, <1>6, <1>7 DEF Control, Follows

\* IInv is inductive.
LEMMA NextIInv == IInv /\ [Next]_vars => IInv'
<1> SUFFICES ASSUME IInv, [Next]_vars PROVE IInv'
  OBVIOUS
<1>1. Control' /\ Follows'
  <2>1. ASSUME NEW p \in Proc, Step(p) PROVE Control' /\ Follows'
    BY <2>1, PeerSteps, SyncSteps, UpSteps, UpBridgeStep, DownSteps, SaveStep DEF Step
  <2>2. CASE UNCHANGED vars
    BY <2>2 DEF vars, IInv, Control, Follows, Positions, Tables, Solo, Sources, PeersFollow, PlaneFollows,
       Built, InPlace, Building, Configured, Entries, FlatPeers, UniqueIn, KeysValid, At, Idle, Keys
  <2> QED
    BY <2>1, <2>2, StartSteps, AbortStep, RebootStep, InitForceStep DEF Next
<1> QED
  BY <1>1, NextType DEF IInv, Control, Follows

LEMMA Invariance == Spec => []IInv
  BY InitIInv, NextIInv, PTL DEF Spec

-----------------------------------------------------------------------------
(***************************************************************************)
(* The model of the commands and the kernel is well typed: in particular   *)
(* WireGuard never has a peer whose key did not parse.                     *)
(***************************************************************************)
THEOREM TypeCorrect == Spec => []TypeOK
<1>1. IInv => TypeOK
  BY DEF IInv
<1> QED
  BY <1>1, Invariance, PTL

(***************************************************************************)
(* add, remove, promote and demote keep the kernel in step with state.json *)
(* by incremental changes, for any number of commands and any peers, where *)
(* nothing fails or overlaps a command that takes no lock.                 *)
(***************************************************************************)
THEOREM KernelAlwaysInStep == Spec => []KernelInStep
<1>1. ASSUME IInv PROVE KernelInStep
  <2>1. Quiet => \A p \in Proc : ~Configured(p) /\ ~Building(p)
    BY DEF Quiet, Idle, Configured, Building, At, Reconciling
  <2> QED
    BY <1>1, <2>1 DEF IInv, KernelInStep, PeersFollow, PlaneFollows, InPlace
<1> QED
  BY <1>1, Invariance, PTL

(***************************************************************************)
(* An undisturbed sync that comes to its end leaves the peers and the data *)
(* plane as state.json says, from whatever kernel state.                   *)
(***************************************************************************)
THEOREM SyncAlwaysReconciles == Spec => SyncReconciles
<1>1. ASSUME IInv, NEW p \in Proc, UpBridge(p), alone = p, cmd[p].op = "sync"
      PROVE  /\ wg' = Entries(disk)
             /\ bridge' = "up"
             /\ vxlan'.exists /\ vxlan'.master /\ vxlan'.up
             /\ vxlan'.hairpin = (disk.role = "root")
  BY <1>1, UpDone, SourceRoles
<1>2. IInv /\ [Next]_vars =>
        [\A p \in Proc :
           UpBridge(p) /\ alone = p /\ cmd[p].op = "sync" =>
             /\ wg' = Entries(disk)
             /\ bridge' = "up"
             /\ vxlan'.exists /\ vxlan'.master /\ vxlan'.up
             /\ vxlan'.hairpin = (disk.role = "root")]_vars
  BY <1>1
<1> QED
  BY <1>2, Invariance, PTL DEF Spec, SyncReconciles
=============================================================================
