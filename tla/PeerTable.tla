----------------------------- MODULE PeerTable -----------------------------
(***************************************************************************)
(* The contents of state.json and the edits the mutating commands make to  *)
(* it (internal/state/state.go, cmd/common.go, cmd/role.go, cmd/init.go).  *)
(* A state is the node's own identity plus its two peer lists.  The lists  *)
(* are sets here: within a role names are unique (UniqueIdentities), so    *)
(* the order of the JSON arrays never decides which peer a command finds.  *)
(***************************************************************************)
CONSTANTS
  RootPeer,    \* peers an operator may name in `l2mesh root add`
  LeafPeer,    \* peers an operator may name in `l2mesh peer add`
  ValidKey,    \* the public keys wgtypes.ParseKey accepts
  OverlayIP,   \* overlay addresses a node may be initialised with
  DefaultIP,   \* the overlay address of defaultState()
  Endpoint,    \* host:port strings
  NoEndpoint   \* the empty endpoint string

(***************************************************************************)
(* `root add` insists on --endpoint, `peer add` has no such flag.          *)
(***************************************************************************)
ASSUME EndpointAssumption ==
  /\ NoEndpoint \notin Endpoint
  /\ \A p \in RootPeer : p.endpoint \in Endpoint
  /\ \A p \in LeafPeer : p.endpoint = NoEndpoint

ASSUME DefaultAssumption == DefaultIP \in OverlayIP

Role == {"root", "leaf"}

Peer == RootPeer \cup LeafPeer

State == [role     : Role,
          ip       : OverlayIP,
          endpoint : Endpoint \cup {NoEndpoint},
          roots    : SUBSET Peer,
          leafs    : SUBSET Peer]

\* What Load hands out when there is no state.json yet.
DefaultState ==
  [role |-> "root", ip |-> DefaultIP, endpoint |-> NoEndpoint,
   roots |-> {}, leafs |-> {}]

\* What `l2mesh init` writes: an identity and no peers; a root must name an endpoint.
FreshState ==
  {s \in [role : Role, ip : OverlayIP, endpoint : Endpoint \cup {NoEndpoint},
          roots : {{}}, leafs : {{}}] :
     s.role = "root" => s.endpoint # NoEndpoint}

FlatPeers(s) == s.roots \cup s.leafs

PeersOf(s, role) == IF role = "root" THEN s.roots ELSE s.leafs

PutPeers(s, role, peers) ==
  IF role = "root" THEN [s EXCEPT !.roots = peers] ELSE [s EXCEPT !.leafs = peers]

-----------------------------------------------------------------------------
(***************************************************************************)
(* Each edit is the set of states it may leave behind; the empty set means *)
(* that the command is refused with an error.                              *)
(***************************************************************************)

\* Mutated form of CanAdd: the overlay address is compared with the roots only.
CanAddRootIP(s, role, p) ==
  /\ p.pubkey \in ValidKey
  /\ \A q \in FlatPeers(s) : q.pubkey # p.pubkey
  /\ \A q \in s.roots : q.ip # p.ip
  /\ \A q \in PeersOf(s, role) : q.name # p.name

\* A key and an address identify one peer across both lists, a name one peer of its role.
CanAdd(s, role, p) ==
  /\ p.pubkey \in ValidKey
  /\ \A q \in FlatPeers(s) : q.pubkey # p.pubkey /\ q.ip # p.ip
  /\ \A q \in PeersOf(s, role) : q.name # p.name

AddPeer(s, role, p) ==
  IF CanAdd(s, role, p)
  THEN {PutPeers(s, role, PeersOf(s, role) \cup {p})}
  ELSE {}

RemovePeer(s, role, name) ==
  {PutPeers(s, role, PeersOf(s, role) \ {p}) :
     p \in {q \in PeersOf(s, role) : q.name = name}}

\* An explicit --endpoint overrides the stored one; the result must not be empty.
Promote(s, endpoint) ==
  LET ep == IF endpoint # NoEndpoint THEN endpoint ELSE s.endpoint
  IN  IF s.role = "root" \/ ep = NoEndpoint
      THEN {}
      ELSE {[s EXCEPT !.role = "root", !.endpoint = ep]}

Demote(s) ==
  IF s.role = "leaf" \/ s.leafs # {} THEN {} ELSE {[s EXCEPT !.role = "leaf"]}

(***************************************************************************)
(* The command lines that edit state.json under the lock, and what one of  *)
(* them makes of the state it loaded.                                      *)
(***************************************************************************)
Command ==
  [op : {"add"}, role : {"root"}, peer : RootPeer]
    \cup [op : {"add"}, role : {"leaf"}, peer : LeafPeer]
    \cup [op : {"remove"}, role : {"root"}, name : {p.name : p \in RootPeer}]
    \cup [op : {"remove"}, role : {"leaf"}, name : {p.name : p \in LeafPeer}]
    \cup [op : {"promote"}, endpoint : Endpoint \cup {NoEndpoint}]
    \cup [op : {"demote"}]

Outcomes(c, s) ==
  CASE c.op = "add"     -> AddPeer(s, c.role, c.peer)
    [] c.op = "remove"  -> RemovePeer(s, c.role, c.name)
    [] c.op = "promote" -> Promote(s, c.endpoint)
    [] c.op = "demote"  -> Demote(s)

-----------------------------------------------------------------------------
(***************************************************************************)
(* No two peers share a WireGuard key or an overlay address, whichever     *)
(* lists they are in; no two peers of a role share a name; no peer is both *)
(* a root and a leaf.  The kernel, BGP and every by-name command rely on   *)
(* it, and only the checks of AddPeer establish it.                        *)
(***************************************************************************)
UniqueIn(s) ==
  /\ \A p, q \in FlatPeers(s) : p.pubkey = q.pubkey \/ p.ip = q.ip => p = q
  /\ \A p, q \in s.roots : p.name = q.name => p = q
  /\ \A p, q \in s.leafs : p.name = q.name => p = q
  /\ s.roots \cap s.leafs = {}
=============================================================================
