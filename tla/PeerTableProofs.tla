-------------------------- MODULE PeerTableProofs --------------------------
(***************************************************************************)
(* Lemmas about the contents of state.json and the commands' edits of      *)
(* them: every edit of a state gives states, keeps the peers distinct,     *)
(* lets no key in that does not parse, and changes at most the list and    *)
(* the peer it names.                                                      *)
(***************************************************************************)
EXTENDS PeerTable, TLAPS

(***************************************************************************)
(* The edits of PeerTable: each turns a state into states.                 *)
(***************************************************************************)
LEMMA DefaultStateType == DefaultState \in State
  BY DefaultAssumption DEF DefaultState, State, Role

LEMMA FreshStateType == FreshState \subseteq State
  BY DEF FreshState, State, Role

LEMMA PutPeersType ==
  ASSUME NEW s \in State, NEW role \in Role, NEW ps \in SUBSET Peer
  PROVE  PutPeers(s, role, ps) \in State
  BY DEF PutPeers, State, Role

LEMMA PeersOfType ==
  ASSUME NEW s \in State, NEW role \in Role
  PROVE  PeersOf(s, role) \in SUBSET Peer
  BY DEF PeersOf, State, Role

LEMMA OutcomesType ==
  ASSUME NEW s \in State, NEW c \in Command
  PROVE  Outcomes(c, s) \subseteq State
<1>1. CASE c.op = "add"
  <2>1. c.role \in Role /\ c.peer \in Peer
    BY <1>1 DEF Command, Role, Peer
  <2>2. PeersOf(s, c.role) \cup {c.peer} \in SUBSET Peer
    BY <2>1, PeersOfType
  <2>3. PutPeers(s, c.role, PeersOf(s, c.role) \cup {c.peer}) \in State
    BY <2>1, <2>2, PutPeersType
  <2> QED
    BY <1>1, <2>3 DEF Outcomes, AddPeer
<1>2. CASE c.op = "remove"
  <2>1. c.role \in Role
    BY <1>2 DEF Command, Role
  <2>2. \A p : PeersOf(s, c.role) \ {p} \in SUBSET Peer
    BY <2>1, PeersOfType
  <2>3. \A p : PutPeers(s, c.role, PeersOf(s, c.role) \ {p}) \in State
    BY <2>1, <2>2, PutPeersType
  <2> QED
    BY <1>2, <2>3 DEF Outcomes, RemovePeer
<1>3. CASE c.op = "promote"
  <2>1. c.endpoint \in Endpoint \cup {NoEndpoint}
    BY <1>3 DEF Command
  <2> QED
    BY <1>3, <2>1 DEF Outcomes, Promote, State, Role
<1>4. CASE c.op = "demote"
  BY <1>4 DEF Outcomes, Demote, State, Role
<1> QED
  BY <1>1, <1>2, <1>3, <1>4 DEF Command

(***************************************************************************)
(* The checks of AddPeer are enough to keep keys, addresses and names      *)
(* unique, and the other edits cannot make two peers collide.              *)
(***************************************************************************)
LEMMA OutcomesUnique ==
  ASSUME NEW s \in State, UniqueIn(s), NEW c \in Command,
         NEW t \in Outcomes(c, s)
  PROVE  UniqueIn(t)
<1>1. CASE c.op = "add"
  <2>1. c.role \in Role
    BY <1>1 DEF Command, Role
  <2>2. CanAdd(s, c.role, c.peer)
    BY <1>1 DEF Outcomes, AddPeer
  <2>3. t = PutPeers(s, c.role, PeersOf(s, c.role) \cup {c.peer})
    BY <1>1, <2>2 DEF Outcomes, AddPeer
  <2>4. CASE c.role = "root"
    <3>1. t.roots = s.roots \cup {c.peer} /\ t.leafs = s.leafs
      BY <2>3, <2>4 DEF PutPeers, PeersOf, State
    <3> QED
      BY <2>2, <2>4, <3>1 DEF CanAdd, PeersOf, FlatPeers, UniqueIn
  <2>5. CASE c.role = "leaf"
    <3>1. t.leafs = s.leafs \cup {c.peer} /\ t.roots = s.roots
      BY <2>3, <2>5 DEF PutPeers, PeersOf, State
    <3> QED
      BY <2>2, <2>5, <3>1 DEF CanAdd, PeersOf, FlatPeers, UniqueIn
  <2> QED
    BY <2>1, <2>4, <2>5 DEF Role
<1>2. CASE c.op = "remove"
  <2>1. PICK p : t = PutPeers(s, c.role, PeersOf(s, c.role) \ {p})
    BY <1>2 DEF Outcomes, RemovePeer
  <2>2. t.roots \subseteq s.roots /\ t.leafs \subseteq s.leafs
    BY <2>1 DEF PutPeers, PeersOf, State
  <2> QED
    BY <2>2 DEF UniqueIn, FlatPeers
<1>3. CASE c.op = "promote"
  <2>1. t.roots = s.roots /\ t.leafs = s.leafs
    BY <1>3 DEF Outcomes, Promote, State
  <2> QED
    BY <2>1 DEF UniqueIn, FlatPeers
<1>4. CASE c.op = "demote"
  <2>1. t.roots = s.roots /\ t.leafs = s.leafs
    BY <1>4 DEF Outcomes, Demote, State
  <2> QED
    BY <2>1 DEF UniqueIn, FlatPeers
<1> QED
  BY <1>1, <1>2, <1>3, <1>4 DEF Command

LEMMA InitialUnique ==
  /\ UniqueIn(DefaultState)
  /\ \A s \in FreshState : UniqueIn(s)
  BY DEF DefaultState, FreshState, UniqueIn, FlatPeers

(***************************************************************************)
(* Only keys that parse get into a state, by `root add` and `peer add`.    *)
(***************************************************************************)
KeysValid(s) == \A p \in FlatPeers(s) : p.pubkey \in ValidKey

LEMMA OutcomesKeysValid ==
  ASSUME NEW s \in State, KeysValid(s), NEW c \in Command,
         NEW t \in Outcomes(c, s)
  PROVE  KeysValid(t)
<1>1. CASE c.op = "add"
  <2>1. c.role \in Role
    BY <1>1 DEF Command, Role
  <2>2. CanAdd(s, c.role, c.peer) /\ t = PutPeers(s, c.role, PeersOf(s, c.role) \cup {c.peer})
    BY <1>1 DEF Outcomes, AddPeer
  <2>3. FlatPeers(t) \subseteq FlatPeers(s) \cup {c.peer}
    BY <2>1, <2>2 DEF PutPeers, PeersOf, FlatPeers, State, Role
  <2> QED
    BY <2>2, <2>3 DEF CanAdd, KeysValid
<1>2. CASE c.op = "remove"
  <2>1. PICK p : t = PutPeers(s, c.role, PeersOf(s, c.role) \ {p})
    BY <1>2 DEF Outcomes, RemovePeer
  <2>2. FlatPeers(t) \subseteq FlatPeers(s)
    BY <2>1 DEF PutPeers, PeersOf, FlatPeers, State
  <2> QED
    BY <2>2 DEF KeysValid
<1>3. CASE c.op \in {"promote", "demote"}
  <2>1. FlatPeers(t) = FlatPeers(s)
    BY <1>3 DEF Outcomes, Promote, Demote, FlatPeers, State
  <2> QED
    BY <2>1 DEF KeysValid
<1> QED
  BY <1>1, <1>2, <1>3 DEF Command

LEMMA NoPeersDistinct ==
  ASSUME NEW s, s.roots = {}, s.leafs = {}
  PROVE  KeysValid(s) /\ UniqueIn(s)
  BY DEF KeysValid, UniqueIn, FlatPeers

-----------------------------------------------------------------------------
(***************************************************************************)
(* What one edit does to the two lists together.                           *)
(***************************************************************************)
LEMMA AddedPeers ==
  ASSUME NEW s \in State, NEW c \in Command, c.op = "add", NEW t \in Outcomes(c, s)
  PROVE  /\ FlatPeers(t) = FlatPeers(s) \cup {c.peer}
         /\ c.peer \in Peer /\ c.peer.pubkey \in ValidKey
         /\ \A q \in FlatPeers(s) : q.pubkey # c.peer.pubkey /\ q.ip # c.peer.ip
         /\ t.role = s.role
<1>1. c.role \in Role /\ c.peer \in Peer
  BY DEF Command, Role, Peer
<1>2. CanAdd(s, c.role, c.peer) /\ t = PutPeers(s, c.role, PeersOf(s, c.role) \cup {c.peer})
  BY DEF Outcomes, AddPeer
<1>3. FlatPeers(t) = FlatPeers(s) \cup {c.peer} /\ t.role = s.role
  BY <1>1, <1>2 DEF PutPeers, PeersOf, FlatPeers, State, Role
<1> QED
  BY <1>1, <1>2, <1>3 DEF CanAdd

\* Where no two peers share a key, a remove takes out one peer and one key.
LEMMA RemovedPeers ==
  ASSUME NEW s \in State, UniqueIn(s), NEW c \in Command, c.op = "remove",
         NEW t \in Outcomes(c, s)
  PROVE  /\ t.role = s.role
         /\ \E p \in FlatPeers(s) : FlatPeers(t) = FlatPeers(s) \ {p}
<1>1. c.role \in Role
  BY DEF Command, Role
<1>2. PICK p \in PeersOf(s, c.role) : t = PutPeers(s, c.role, PeersOf(s, c.role) \ {p})
  BY DEF Outcomes, RemovePeer
<1>3. s.roots \cap s.leafs = {}
  BY DEF UniqueIn
<1>4. p \in FlatPeers(s) /\ FlatPeers(t) = FlatPeers(s) \ {p} /\ t.role = s.role
  BY <1>1, <1>2, <1>3 DEF PutPeers, PeersOf, FlatPeers, State, Role
<1> QED
  BY <1>4

LEMMA RoleChangeKeepsPeers ==
  ASSUME NEW s \in State, NEW c \in Command, c.op \in {"promote", "demote"},
         NEW t \in Outcomes(c, s)
  PROVE  FlatPeers(t) = FlatPeers(s)
  BY DEF Outcomes, Promote, Demote, FlatPeers, State
=============================================================================
