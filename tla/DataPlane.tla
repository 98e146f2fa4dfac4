----------------------------- MODULE DataPlane -----------------------------
(***************************************************************************)
(* internal/l2: l2.Up and l2.Down of one node, netlink call by netlink     *)
(* call, with what NodeKernel leaves out: the addresses of the bridge, the *)
(* attributes a VXLAN port is created with, and the local ports.           *)
(*                                                                         *)
(* One command at a time (NodeKernel lets them overlap).  Between two      *)
(* commands state.json may be edited by hand; a netlink call may fail or   *)
(* the command be killed; local ports come and go.                         *)
(*                                                                         *)
(* The kernel is external.  Of the addresses of one subnet the first is    *)
(* the primary one.  When that goes, the secondary ones go with it, unless *)
(* the sysctl promote_secondaries is set.                                  *)
(***************************************************************************)
EXTENDS Integers, Sequences, SequencesExt

CONSTANTS
  Addr,         \* addresses with a prefix length, of global scope
  Subnet,       \* of each address: its subnet
  LinkLocal,    \* the address the kernel gives an interface that is up
  Port,         \* local ports
  Configs,      \* contents state.json may have
  Missing,      \* instead of an interface
  Disturbances  \* bound on the events that need Disturbed

ASSUME BoundAssumption == Disturbances \in Nat

ASSUME AddrAssumption == LinkLocal \notin Addr

\* What l2 reads of state.json; vxlan stands for VNI, UDP port and local address.
Config == [addrs : Seq(Addr), ports : Seq(Port), root : BOOLEAN, vxlan : {c.vxlan : c \in Configs}]

\* No address is listed twice: the second AddrAdd would fail.
ASSUME ConfigAssumption ==
  \A c \in Configs : c \in Config /\ IsInjective(c.addrs)

\* What the kernel may have; a bridge lists its addresses, oldest first.
Bridges == [addrs : Seq(Addr \cup {LinkLocal}), up : BOOLEAN]
Vxlans == [made : {c.vxlan : c \in Configs}, attached : BOOLEAN, hairpin : BOOLEAN, up : BOOLEAN]

ASSUME MissingAssumption == Missing \notin Bridges \cup Vxlans

VARIABLES
  config,   \* what state.json says
  promote,  \* is promote_secondaries set?  never changes
  \* The kernel:
  bridge,   \* Missing, or its addresses and whether it is up
  vxlan,    \* Missing, or the port's attributes
  port,     \* of each local port: "absent", "free", "attached" or "up"
  \* The command:
  pc,       \* its next netlink call
  want,     \* the configuration it works from
  current,  \* syncBridgeAddrs: the addresses listed
  rest,     \* what is left of the loop it is in
  \* History and bound:
  fresh,    \* no configuration but this one since there was no interface
  left      \* disturbances still to come

kernel == <<bridge, vxlan, port>>
vars == <<config, promote, kernel, pc, want, current, rest, fresh, left>>

NoBridge == bridge = Missing
Global(addrs) == {a \in Range(addrs) : a # LinkLocal}

\* The end of a command: it has nothing left in memory.
Exit ==
  /\ pc' = "idle" /\ current' = <<>> /\ rest' = <<>>
  /\ UNCHANGED <<config, promote, want, fresh, left>>

\* The next call, and the list a loop goes through.  current is used by two loops only.
Goto(label, list) ==
  /\ pc' = label /\ rest' = list
  /\ current' = IF label \in {"add", "del"} THEN current ELSE <<>>
  /\ UNCHANGED <<config, promote, want, fresh, left>>

-----------------------------------------------------------------------------
(***************************************************************************)
(* l2.Up.                                                                  *)
(***************************************************************************)
StartUp ==
  /\ pc = "idle"
  /\ pc' = "bridge" /\ want' = config
  /\ UNCHANGED <<config, promote, kernel, current, rest, fresh, left>>

ensureBridge ==
  /\ pc = "bridge"
  /\ bridge' = IF NoBridge THEN [addrs |-> <<>>, up |-> FALSE] ELSE bridge
  /\ Goto("list", <<>>)
  /\ UNCHANGED <<vxlan, port>>

\* syncBridgeAddrs: AddrList, once.
ListAddrs ==
  /\ pc = "list"
  /\ pc' = "add" /\ current' = bridge.addrs /\ rest' = want.addrs
  /\ UNCHANGED <<config, promote, kernel, want, fresh, left>>

\* Mutated form of AddAddr: whether the bridge has the address already is not looked at.
AddAddrAgain ==
  /\ pc = "add"
  /\ \/ /\ rest # <<>>
        /\ bridge' = [bridge EXCEPT !.addrs = Append(@, Head(rest))]
        /\ Goto("add", Tail(rest))
     \/ /\ rest = <<>> /\ bridge' = bridge
        /\ Goto("del", current)
  /\ UNCHANGED <<vxlan, port>>

\* First the addresses that are missing ...
AddAddr ==
  /\ pc = "add"
  /\ \/ /\ rest # <<>>
        /\ bridge' = IF Head(rest) \in Range(current) THEN bridge
                     ELSE [bridge EXCEPT !.addrs = Append(@, Head(rest))]
        /\ Goto("add", Tail(rest))
     \/ /\ rest = <<>> /\ bridge' = bridge
        /\ Goto("del", current)
  /\ UNCHANGED <<vxlan, port>>

\* The kernel's part of AddrDel.
IsPrimary(addrs, a) ==
  \A k \in DOMAIN addrs :
    addrs[k] # LinkLocal /\ addrs[k] # a /\ Subnet[addrs[k]] = Subnet[a] =>
      \E i \in 1..k : addrs[i] = a

Kept(addrs, a) ==
  {x \in Range(addrs) \ {a} :
     LinkLocal \notin {x, a} /\ ~promote /\ IsPrimary(addrs, a) => Subnet[x] # Subnet[a]}

Precedes(addrs, x, y) == \E i, j \in DOMAIN addrs : i < j /\ addrs[i] = x /\ addrs[j] = y

\* The one list of what is kept, in the order it was.
Without(addrs, a) ==
  {s \in SeqOf(Kept(addrs, a), Len(addrs)) :
     /\ Range(s) = Kept(addrs, a)
     /\ \A i, j \in DOMAIN s : i < j => Precedes(addrs, s[i], s[j])}

\* Mutated form of Wanted: the scope is not looked at.
WantedOnly(a) == a \in Range(want.addrs)

Wanted(a) == a = LinkLocal \/ a \in Range(want.addrs)

\* ... then those listed that are not wanted; one that has gone already is an error.
DelAddr ==
  /\ pc = "del"
  /\ \/ /\ rest # <<>> /\ Wanted(Head(rest))
        /\ bridge' = bridge /\ Goto("del", Tail(rest))
     \/ /\ rest # <<>> /\ ~Wanted(Head(rest)) /\ Head(rest) \in Range(bridge.addrs)
        /\ \E addrs \in Without(bridge.addrs, Head(rest)) : bridge' = [bridge EXCEPT !.addrs = addrs]
        /\ Goto("del", Tail(rest))
     \/ /\ rest # <<>> /\ ~Wanted(Head(rest)) /\ Head(rest) \notin Range(bridge.addrs)
        /\ bridge' = bridge /\ Exit
     \/ /\ rest = <<>>
        /\ bridge' = bridge /\ Goto("vxlan", <<>>)
  /\ UNCHANGED <<vxlan, port>>

\* Mutated form of ensureVxlan: a port that exists needs no further setting up.
ensureVxlanOnce ==
  /\ pc = "vxlan"
  /\ \/ vxlan # Missing /\ vxlan' = vxlan /\ Goto("port", want.ports)
     \/ /\ vxlan = Missing
        /\ vxlan' = [made |-> want.vxlan, attached |-> FALSE, hairpin |-> FALSE, up |-> FALSE]
        /\ Goto("attach", <<>>)
  /\ UNCHANGED <<bridge, port>>

\* An existing port is kept as it is: Up only ever asks for learning off.
ensureVxlan ==
  /\ pc = "vxlan"
  /\ vxlan' = IF vxlan # Missing THEN vxlan
              ELSE [made |-> want.vxlan, attached |-> FALSE, hairpin |-> FALSE, up |-> FALSE]
  /\ Goto("attach", <<>>)
  /\ UNCHANGED <<bridge, port>>

Attach ==
  /\ pc = "attach"
  /\ vxlan' = [vxlan EXCEPT !.attached = TRUE]
  /\ Goto("hairpin", <<>>)
  /\ UNCHANGED <<bridge, port>>

SetHairpin ==
  /\ pc = "hairpin"
  /\ vxlan' = [vxlan EXCEPT !.hairpin = want.root]
  /\ Goto("port", want.ports)
  /\ UNCHANGED <<bridge, port>>

\* A port that is not there ends the command.
AttachPort ==
  /\ pc = "port"
  /\ \/ /\ rest # <<>> /\ port[Head(rest)] # "absent"
        /\ port' = [port EXCEPT ![Head(rest)] = IF @ = "up" THEN @ ELSE "attached"]
        /\ Goto("raise", rest)
     \/ /\ rest # <<>> /\ port[Head(rest)] = "absent"
        /\ port' = port /\ Exit
     \/ /\ rest = <<>>
        /\ port' = port /\ Goto("upvxlan", <<>>)
  /\ UNCHANGED <<bridge, vxlan>>

RaisePort ==
  /\ pc = "raise"
  /\ \/ /\ port[Head(rest)] # "absent"
        /\ port' = [port EXCEPT ![Head(rest)] = "up"]
        /\ Goto("port", Tail(rest))
     \/ /\ port[Head(rest)] = "absent"
        /\ port' = port /\ Exit
  /\ UNCHANGED <<bridge, vxlan>>

UpVxlan ==
  /\ pc = "upvxlan"
  /\ vxlan' = [vxlan EXCEPT !.up = TRUE]
  /\ Goto("upbridge", <<>>)
  /\ UNCHANGED <<bridge, port>>

\* The last call; an interface that comes up gets its link-local address.
UpBridge ==
  /\ pc = "upbridge"
  /\ bridge' = [addrs |-> IF bridge.up THEN bridge.addrs ELSE Append(bridge.addrs, LinkLocal),
                up    |-> TRUE]
  /\ Exit
  /\ UNCHANGED <<vxlan, port>>

-----------------------------------------------------------------------------
\* What may happen at most Disturbances times: the actions below that call it.
Disturbed == left > 0 /\ left' = left - 1 /\ UNCHANGED promote

(***************************************************************************)
(* l2.Down.  It needs no more of state.json than the names of the two      *)
(* interfaces, which are the defaults here.                                *)
(***************************************************************************)
StartDown ==
  /\ Disturbed /\ pc = "idle"
  /\ pc' = "delvxlan"
  /\ UNCHANGED <<config, kernel, want, current, rest, fresh>>

\* Mutated form of DelVxlan: it goes with the bridge, so why delete it.
DelVxlanLater ==
  /\ pc = "delvxlan"
  /\ vxlan' = IF vxlan = Missing THEN vxlan ELSE [vxlan EXCEPT !.attached = FALSE]
  /\ Goto("delbridge", <<>>)
  /\ UNCHANGED <<bridge, port>>

DelVxlan ==
  /\ pc = "delvxlan"
  /\ vxlan' = Missing
  /\ Goto("delbridge", <<>>)
  /\ UNCHANGED <<bridge, port>>

\* Deleting a bridge releases what is attached to it.
Released == [q \in Port |-> IF port[q] \in {"attached", "up"} THEN "free" ELSE port[q]]

DelBridge ==
  /\ pc = "delbridge"
  /\ bridge' = Missing /\ port' = Released
  /\ pc' = "idle" /\ fresh' = TRUE
  /\ UNCHANGED <<config, promote, vxlan, want, current, rest, left>>

-----------------------------------------------------------------------------
\* The operator edits state.json between two commands: the only way the bridge's
\* addresses and the local ports get into it (README.md).  init --force takes them out.
Replace ==
  /\ Disturbed /\ pc = "idle"
  /\ config' \in Configs \ {config}
  /\ fresh' = (NoBridge /\ vxlan = Missing)
  /\ UNCHANGED <<kernel, pc, want, current, rest>>

\* A netlink call fails, or the command is killed.
Abort ==
  /\ Disturbed /\ pc # "idle"
  /\ pc' = "idle" /\ current' = <<>> /\ rest' = <<>>
  /\ UNCHANGED <<config, kernel, want, fresh>>

\* A local port disappears, or comes back.
Unplug(q) ==
  /\ Disturbed /\ port[q] # "absent"
  /\ port' = [port EXCEPT ![q] = "absent"]
  /\ UNCHANGED <<config, bridge, vxlan, pc, want, current, rest, fresh>>

Plug(q) ==
  /\ port[q] = "absent"
  /\ port' = [port EXCEPT ![q] = "free"]
  /\ UNCHANGED <<config, promote, bridge, vxlan, pc, want, current, rest, fresh, left>>

Reboot ==
  /\ Disturbed
  /\ bridge' = Missing /\ vxlan' = Missing /\ port' = Released
  /\ pc' = "idle" /\ current' = <<>> /\ rest' = <<>> /\ fresh' = TRUE
  /\ UNCHANGED <<config, want>>

Init ==
  /\ config \in Configs /\ promote \in BOOLEAN
  /\ bridge = Missing /\ vxlan = Missing
  /\ port \in [Port -> {"absent", "free"}]
  /\ pc = "idle" /\ want = config /\ current = <<>> /\ rest = <<>>
  /\ fresh = TRUE /\ left = Disturbances

Up ==
  \/ ensureBridge \/ ListAddrs \/ AddAddr \/ DelAddr \/ ensureVxlan \/ Attach
  \/ SetHairpin \/ AttachPort \/ RaisePort \/ UpVxlan \/ UpBridge

Down == DelVxlan \/ DelBridge

Next ==
  \/ StartUp \/ Up
  \/ StartDown \/ Down
  \/ Replace \/ Abort \/ Reboot
  \/ \E q \in Port : Unplug(q) \/ Plug(q)

Spec == Init /\ [][Next]_vars

(***************************************************************************)
(* A command goes on, and sync is run again and again.  The second is for  *)
(* whoever runs it: nothing in the code repeats a sync that failed.        *)
(***************************************************************************)
Fairness == WF_vars(Up \/ Down) /\ WF_vars(StartUp)
-----------------------------------------------------------------------------
TypeOK ==
  /\ {config, want} \subseteq Configs /\ promote \in BOOLEAN
  /\ \/ NoBridge
     \/ /\ bridge \in Bridges
        /\ IsInjective(bridge.addrs)
  /\ vxlan \in Vxlans \cup {Missing}
  /\ port \in [Port -> {"absent", "free", "attached", "up"}]
  /\ NoBridge => \A q \in Port : port[q] \in {"absent", "free"}
  /\ pc \notin {"add", "del"} => current = <<>>
  /\ pc \notin {"add", "del", "port", "raise"} => rest = <<>>
  /\ fresh \in BOOLEAN /\ left \in 0..Disturbances

\* The end of l2.Up without an error.
UpDone == UpBridge

(***************************************************************************)
(* l2.go, syncBridgeAddrs: makes the bridge's global addresses match those *)
(* of state.json and leaves the link-local one alone.  An Up that returns  *)
(* no error leaves no address that is not wanted, whatever earlier ones    *)
(* left behind, and all that are wanted - if promote_secondaries is set:   *)
(* without it, deleting a primary address also takes the one just added to *)
(* its subnet.                                                             *)
(***************************************************************************)
AddrsMatch ==
  [][UpDone =>
       /\ Global(bridge'.addrs) \subseteq Range(want.addrs)
       /\ bridge.up => LinkLocal \in Range(bridge'.addrs)
       /\ promote => Global(bridge'.addrs) = Range(want.addrs)]_vars

(***************************************************************************)
(* l2.go, Up and Down: whatever failed before, the first Up that succeeds  *)
(* after a Down or a reboot leaves exactly what state.json says.  (Without *)
(* them an Up keeps a VXLAN port of another VNI or local address, and      *)
(* local ports that are no longer listed.)                                 *)
(***************************************************************************)
RebuiltMatches ==
  [][UpDone /\ fresh =>
       /\ Global(bridge'.addrs) = Range(want.addrs)
       /\ vxlan' = [made |-> want.vxlan, attached |-> TRUE, hairpin |-> want.root, up |-> TRUE]
       /\ \A q \in Port : port'[q] \in {"attached", "up"} => q \in Range(want.ports)]_vars

(***************************************************************************)
(* l2.go, Up: "Idempotent".  However a command was left half-way, and      *)
(* whichever addresses the kernel has taken along, repeating sync brings   *)
(* the data plane into the state of state.json and keeps it there, if the  *)
(* local ports are present - up to what RebuiltMatches needs a Down for.   *)
(***************************************************************************)
Listed == Range(config.ports)

InPlace ==
  /\ ~NoBridge /\ bridge.up /\ Global(bridge.addrs) = Range(config.addrs)
  /\ vxlan # Missing /\ vxlan.attached /\ vxlan.up /\ vxlan.hairpin = config.root
  /\ \A q \in Listed : port[q] = "up"

Settles == <>[]((\A q \in Listed : port[q] # "absent") => InPlace)
=============================================================================
