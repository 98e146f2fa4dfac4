------------------------------ MODULE Gossip ------------------------------
(***************************************************************************)
(* `l2mesh agent` (internal/agent): every node serves its own NodeInfo;    *)
(* every tick an agent asks its configured peers for theirs, one after the *)
(* other, forgets what is too old, computes the spanning tree of the edges *)
(* it now knows of, and if its neighbours in it have changed has FRR       *)
(* filter the other peers.                                                 *)
(*                                                                         *)
(* An answer says which peers the node has a recent WireGuard handshake    *)
(* with.  It does not depend on the topology the node itself has gathered: *)
(* nobody passes on what others told it.  So the ticks of a node matter to *)
(* no other one, and only those of the nodes in watch are modelled; the    *)
(* agents of the others serve.                                             *)
(*                                                                         *)
(* Underlay and WireGuard are external: a link between two nodes carries   *)
(* packets or not; each end notices a handshake by itself, and forgets it  *)
(* three minutes after the last one.                                       *)
(***************************************************************************)
EXTENDS SpanningTree, FiniteSets

CONSTANTS
  Node,        \* overlay addresses
  AllPeers,    \* of each node: its configured peers in the order of state.json
  Links,       \* the sets of links there may be at the beginning
  Watches,     \* the sets of nodes of which one is watched
  Interval,    \* time from the end of a tick to the next one
  Timeout,     \* time a poll waits for a silent peer
  StaleAfter,  \* age at which an answer is forgotten
  Slow,        \* nodes far off, whose answers may take time
  FaultKinds,  \* what may go wrong, each once ...
  MaxFaults    \* ... and so many of them in all

NoIP == 0  \* the address in an empty NodeInfo: "", the least string

ASSUME NodeAssumption == Node \subseteq Nat \ {NoIP} /\ IsFiniteSet(Node)
ASSUME PeersAssumption ==
  \A n \in Node : AllPeers[n] \in Seq(Node \ {n})
ASSUME MeshAssumption ==
  (\A l \in Links : l \subseteq {newEdge(n, m) : n, m \in Node}) /\ Watches \subseteq SUBSET Node
\* Polling nothing but silent peers takes no longer than an answer is kept: up to 45 peers.
ASSUME TimeAssumption ==
  /\ Interval \in Nat /\ Timeout \in Nat /\ StaleAfter \in Nat
  /\ \A n \in Node : Len(AllPeers[n]) * Timeout <= StaleAfter
ASSUME FaultsAssumption ==
  FaultKinds \subseteq {"cut", "join", "crash", "lost", "unreadable", "device"} /\ MaxFaults \in Nat

Peers(n) == Range(AllPeers[n])

VARIABLES
  \* External:
  link,      \* the pairs of nodes between which packets pass
  live,      \* of each node: the peers with a recent handshake
  \* Every node:
  up,        \* the nodes whose agent runs
  readable,  \* the nodes whose state.json can be loaded
  \* The watched agents:
  watch,     \* the watched nodes; never changes
  phase,     \* "idle" between ticks, "self" after Load, "poll"
  todo,      \* the peers still to be polled
  nodes,     \* the topology: address to the live peers it named, and the age of that
  tree,      \* lastTreeIPs
  blocked,   \* the peers FRR filters
  \* History, read by the properties and the bounds:
  heard,     \* who has answered in this tick
  faults     \* what has gone wrong

env == <<link, live, up, readable>>
agent == <<phase, todo, nodes, tree, blocked, heard>>
vars == <<env, watch, agent, faults>>

-----------------------------------------------------------------------------
(***************************************************************************)
(* Topology.                                                               *)
(***************************************************************************)
\* Mutated form of Set: UpdatedAt is kept if the entry exists.
SetKeepingTime(t, info) ==
  [k \in DOMAIN t \cup {info.ip} |->
     IF k = info.ip
     THEN [live |-> info.live, age |-> IF k \in DOMAIN t THEN t[k].age ELSE 0]
     ELSE t[k]]

Set(t, info) ==
  [k \in DOMAIN t \cup {info.ip} |->
     IF k = info.ip THEN [live |-> info.live, age |-> 0] ELSE t[k]]

\* Time passes.  Beyond StaleAfter ages make no difference.
Aged(t, d) ==
  [k \in DOMAIN t |->
     [t[k] EXCEPT !.age = IF @ + d > StaleAfter THEN StaleAfter + 1 ELSE @ + d]]

\* Mutated form of PurgeStale: what the last tick's poll gave is too old already.
PurgeUnrefreshed(t, exclude) ==
  Restrict(t, {k \in DOMAIN t : k = exclude \/ t[k].age < Interval})

PurgeStale(t, exclude) ==
  Restrict(t, {k \in DOMAIN t : k = exclude \/ t[k].age <= StaleAfter})

\* Mutated form of Edges: an edge needs the word of both its ends.
EdgesOfBoth(t) ==
  UNION {{newEdge(k, p) : p \in {q \in DOMAIN t : q \in t[k].live /\ k \in t[q].live}} : k \in DOMAIN t}

\* An edge if either end reports the other, which need not have answered itself.
Edges(t) == UNION {{newEdge(k, p) : p \in t[k].live} : k \in DOMAIN t}

\* What n's server answers now: an empty NodeInfo if it cannot load state.json,
\* and no live peers if it cannot read the WireGuard device (livePeers).
computeSelfInfo(n, device) ==
  IF n \in readable THEN [ip |-> n, live |-> IF device THEN live[n] ELSE {}]
  ELSE [ip |-> NoIP, live |-> {}]

\* What is read or sent arrives, or this goes wrong.
Succeeds(ok, kind) ==
  \/ ok /\ UNCHANGED faults
  \/ /\ ~ok /\ kind \in FaultKinds \ faults /\ Cardinality(faults) < MaxFaults
     /\ faults' = faults \cup {kind}

-----------------------------------------------------------------------------
(***************************************************************************)
(* A tick of a watched agent.                                              *)
(***************************************************************************)
\* Load; without state.json the tick is over.
TickLoad(n) ==
  /\ n \in watch \cap up /\ phase[n] = "idle"
  /\ nodes' = [nodes EXCEPT ![n] = Aged(@, Interval)]
  /\ phase' = [phase EXCEPT ![n] = IF n \in readable THEN "self" ELSE "idle"]
  /\ UNCHANGED <<env, watch, todo, tree, blocked, heard, faults>>

\* computeSelfInfo loads state.json once more.
SetSelf(n) ==
  /\ phase[n] = "self"
  /\ \E device \in BOOLEAN :
       /\ Succeeds(device, "device")
       /\ nodes' = [nodes EXCEPT ![n] = Set(@, computeSelfInfo(n, device))]
  /\ phase' = [phase EXCEPT ![n] = "poll"]
  /\ todo' = [todo EXCEPT ![n] = AllPeers[n]]
  /\ UNCHANGED <<env, watch, tree, blocked, heard>>

Polling(n) == phase[n] = "poll" /\ todo[n] # <<>>

\* How long an answer may take: most are there at once.
Delays(m) == IF m \in Slow THEN 0..Timeout ELSE {0}

Polled(n) ==
  /\ todo' = [todo EXCEPT ![n] = Tail(@)]
  /\ UNCHANGED <<env, watch, phase, tree, blocked>>

\* FetchInfo succeeds, in time: the answer is stored under the address it names.
FetchInfo(n) ==
  LET m == Head(todo[n]) IN
  /\ Polling(n)
  /\ newEdge(n, m) \in link /\ m \in up
  /\ \E device \in BOOLEAN, delay \in Delays(m) :
       /\ Succeeds(device, "device")
       /\ nodes' = [nodes EXCEPT ![n] = Set(Aged(@, delay), computeSelfInfo(m, device))]
       /\ heard' = [heard EXCEPT ![n] = @ \cup {computeSelfInfo(m, device).ip}]
  /\ Polled(n)

\* Connection refused, at once: the peer is there and its agent is not.
FetchRefused(n) ==
  LET m == Head(todo[n]) IN
  /\ Polling(n)
  /\ newEdge(n, m) \in link /\ m \notin up
  /\ Polled(n)
  /\ UNCHANGED <<nodes, heard, faults>>

\* No answer in time: no link, or the answer is lost or late.
FetchTimeout(n) ==
  /\ Polling(n)
  /\ \/ newEdge(n, Head(todo[n])) \notin link /\ UNCHANGED faults
     \/ Succeeds(FALSE, "lost")
  /\ nodes' = [nodes EXCEPT ![n] = Aged(@, Timeout)]
  /\ Polled(n)
  /\ UNCHANGED heard

\* Mutated form of Blocked: filter whoever is known and no neighbour.
BlockedKnown(n, ips) == DOMAIN nodes[n] \ ips

\* frr.Apply with the neighbours: FRR filters the other peers.
Blocked(n, ips) == Peers(n) \ ips

\* Mutated form of Compute: only the number of neighbours is compared.
ComputeCounting(n) ==
  LET known == PurgeStale(nodes[n], n)
      ips   == LocalNeighbors(n, ComputeMST(DOMAIN known, Edges(known)))
  IN
  /\ phase[n] = "poll" /\ todo[n] = <<>>
  /\ nodes' = [nodes EXCEPT ![n] = known]
  /\ tree' = [tree EXCEPT ![n] = ips]
  /\ blocked' = [blocked EXCEPT ![n] = IF Cardinality(ips) = Cardinality(tree[n]) THEN @ ELSE Blocked(n, ips)]
  /\ phase' = [phase EXCEPT ![n] = "idle"]
  /\ heard' = [heard EXCEPT ![n] = {}]
  /\ UNCHANGED <<env, watch, todo, faults>>

\* Purge, compute, compare, and Apply if the neighbours have changed.
Compute(n) ==
  LET known == PurgeStale(nodes[n], n)
      ips   == LocalNeighbors(n, ComputeMST(DOMAIN known, Edges(known)))
  IN
  /\ phase[n] = "poll" /\ todo[n] = <<>>
  /\ nodes' = [nodes EXCEPT ![n] = known]
  /\ tree' = [tree EXCEPT ![n] = ips]
  /\ blocked' = [blocked EXCEPT ![n] = IF ips = tree[n] THEN @ ELSE Blocked(n, ips)]
  /\ phase' = [phase EXCEPT ![n] = "idle"]
  /\ heard' = [heard EXCEPT ![n] = {}]
  /\ UNCHANGED <<env, watch, todo, faults>>

Tick(n) ==
  TickLoad(n) \/ SetSelf(n) \/ FetchInfo(n) \/ FetchRefused(n) \/ FetchTimeout(n) \/ Compute(n)

-----------------------------------------------------------------------------
(***************************************************************************)
(* WireGuard.                                                              *)
(***************************************************************************)
Handshake(n, m) ==
  /\ newEdge(n, m) \in link /\ n \in Peers(m)
  /\ live' = [live EXCEPT ![n] = @ \cup {m}]
  /\ UNCHANGED <<link, up, readable, watch, agent, faults>>

\* Longer ago than livenessTO.
Expire(n, m) ==
  /\ newEdge(n, m) \notin link
  /\ live' = [live EXCEPT ![n] = @ \ {m}]
  /\ UNCHANGED <<link, up, readable, watch, agent, faults>>

(***************************************************************************)
(* What goes wrong.                                                        *)
(***************************************************************************)
Fault(kind) ==
  /\ kind \in FaultKinds \ faults /\ Cardinality(faults) < MaxFaults
  /\ faults' = faults \cup {kind}
  /\ UNCHANGED watch

Cut(e) ==
  /\ Fault("cut") /\ e \in link
  /\ link' = link \ {e}
  /\ UNCHANGED <<live, up, readable, agent>>

Join(n, m) ==
  /\ Fault("join") /\ m \in Peers(n) /\ newEdge(n, m) \notin link
  /\ link' = link \cup {newEdge(n, m)}
  /\ UNCHANGED <<live, up, readable, agent>>

\* An agent ends; FRR keeps the filter.  A new one starts with nothing.
Crash(n) ==
  /\ Fault("crash") /\ n \in up
  /\ up' = up \ {n}
  /\ phase' = [phase EXCEPT ![n] = "idle"]
  /\ todo' = [todo EXCEPT ![n] = <<>>]
  /\ nodes' = [nodes EXCEPT ![n] = <<>>]
  /\ tree' = [tree EXCEPT ![n] = {}]
  /\ heard' = [heard EXCEPT ![n] = {}]
  /\ UNCHANGED <<link, live, readable, blocked>>

\* systemd: Restart=on-failure.  Run ends again if it cannot load state.json.
Restart(n) ==
  /\ n \in readable
  /\ up' = up \cup {n}
  /\ UNCHANGED <<link, live, readable, watch, agent, faults>>

Unreadable(n) ==
  /\ Fault("unreadable") /\ n \in readable
  /\ readable' = readable \ {n}
  /\ UNCHANGED <<link, live, up, agent>>

Repaired(n) ==
  /\ readable' = readable \cup {n}
  /\ UNCHANGED <<link, live, up, watch, agent, faults>>

-----------------------------------------------------------------------------
\* The mesh is there before the agents, which start with an empty topology and no filter.
Init ==
  /\ link \in Links
  /\ live = [n \in Node |-> {m \in Peers(n) : newEdge(n, m) \in link /\ n \in Peers(m)}]
  /\ up = Node /\ readable = Node
  /\ watch \in Watches
  /\ phase = [n \in Node |-> "idle"]
  /\ todo = [n \in Node |-> <<>>]
  /\ nodes = [n \in Node |-> <<>>]
  /\ tree = [n \in Node |-> {}]
  /\ blocked = [n \in Node |-> {}]
  /\ heard = [n \in Node |-> {}]
  /\ faults = {}

WireGuard ==
  \E n \in Node :
    \/ \E m \in Peers(n) \ live[n] : Handshake(n, m)
    \/ \E m \in live[n] : Expire(n, m)

Recovery == \/ \E n \in Node \ up : Restart(n)
            \/ \E n \in Node \ readable : Repaired(n)

Next ==
  \/ \E n \in Node : Tick(n) \/ Crash(n) \/ Unreadable(n)
  \/ \E n, m \in Node : Join(n, m)
  \/ \E e \in link : Cut(e)
  \/ WireGuard
  \/ Recovery

Spec == Init /\ [][Next]_vars

(***************************************************************************)
(* The ticker takes agents that go on running through one tick after the   *)
(* other: polls end by themselves.  WireGuard renews its handshakes        *)
(* (persistent keepalive) and lets them expire, systemd restarts an agent, *)
(* and state.json becomes readable again.  (Ticking is written without WF: *)
(* TLC would compute the spanning tree to tell whether a tick is enabled.) *)
(***************************************************************************)
Ticking ==
  <>[](watch \subseteq up \cap readable) =>
    \A n \in Node : []<><<n \in watch => Compute(n)>>_vars

Fairness == WF_vars(WireGuard) /\ WF_vars(Recovery) /\ Ticking

FairSpec == Spec /\ Fairness
-----------------------------------------------------------------------------
Entry == [live : SUBSET Node, age : 0..(StaleAfter + 1)]

TypeOK ==
  /\ link \subseteq {newEdge(n, m) : n, m \in Node}
  /\ live \in [Node -> SUBSET Node]
  /\ up \subseteq Node /\ readable \subseteq Node /\ watch \subseteq Node
  /\ phase \in [Node -> {"idle", "self", "poll"}]
  /\ \A n \in Node : todo[n] = <<>> \/ \E k \in 1..Len(AllPeers[n]) : todo[n] = SubSeq(AllPeers[n], k, Len(AllPeers[n]))
  /\ \A n \in Node :
       /\ DOMAIN nodes[n] \subseteq Node \cup {NoIP}
       /\ \A k \in DOMAIN nodes[n] : nodes[n][k] \in Entry
  /\ tree \in [Node -> SUBSET Node]
  /\ \A n \in Node : blocked[n] \subseteq Peers(n) /\ heard[n] \subseteq Node \cup {NoIP}
  /\ faults \subseteq FaultKinds

(***************************************************************************)
(* mst.go, ComputeMST: for the edges an agent works with, in whatever      *)
(* order nodes became known and whether or not an end of an edge is a      *)
(* known node, the union-find tells connected from unconnected and the     *)
(* result is the one spanning forest that the order of the edges singles   *)
(* out.                                                                    *)
(***************************************************************************)
ForestOfEdges ==
  \A n \in watch :
    phase[n] = "poll" /\ todo[n] = <<>> =>
      LET edges == Edges(nodes[n])
          k     == Kruskal(DOMAIN nodes[n], edges)
      IN  k.mst = LeastForest(edges) /\ Sound(k.uf, edges)

(***************************************************************************)
(* tick: whoever has answered in a tick is part of the graph of that tick, *)
(* however long the peers polled after it kept the agent waiting.          *)
(***************************************************************************)
AnswersCount ==
  [][\A n \in Node : Compute(n) => heard[n] \subseteq DOMAIN nodes'[n]]_vars

\* The neighbours n should have: those of the forest of the real mesh.
Right(n) == LocalNeighbors(n, LeastForest(link))

(***************************************************************************)
(* README: Kruskal, whose tie-break makes all nodes converge to one tree.  *)
(* Once nothing goes wrong any more, each agent arrives for good at its    *)
(* part of the forest of the real mesh, and FRR blocks exactly the other   *)
(* peers (an agent that has no neighbours does not touch the filter).      *)
(***************************************************************************)
Converges ==
  <>[]\A n \in watch :
        LET right == Right(n) IN
        tree[n] = right /\ (right # {} => blocked[n] = Peers(n) \ right)

(***************************************************************************)
(* topology.go, the 90 seconds of PurgeStale: in a stable mesh a lost      *)
(* answer does not disturb the tree of an agent that has it right, if two  *)
(* ticks that wait for every peer still fit into them (21 peers).          *)
(***************************************************************************)
LossHarmless ==
  [][faults' \subseteq {"lost"} =>
       \A n \in {m \in watch : Interval + 2 * Len(AllPeers[m]) * Timeout <= StaleAfter} : tree'[n] # tree[n] => tree[n] # Right(n)]_vars

(***************************************************************************)
(* README.md, the agent: all nodes converge to the same tree.  Then the    *)
(* edges that some agent keeps contain no cycle in the end.                *)
(***************************************************************************)
Kept(agents) == UNION {{newEdge(n, m) : m \in tree[n]} : n \in agents}

OneTree == <>[](LeastForest(Kept(watch)) = Kept(watch))

\* Between ticks, n knows of every link of its part of the mesh and of none that is gone.
Informed(n) ==
  /\ phase[n] = "idle"
  /\ Edges(nodes[n]) \subseteq link
  /\ \A e \in link : Connected(link, n, e[1]) => e \in Edges(nodes[n])

(***************************************************************************)
(* tick, whatever goes wrong: an agent that has heard of the links of its  *)
(* part of the mesh, even if of no others, has its neighbours in the       *)
(* forest of the whole mesh, and FRR blocks exactly the other peers.       *)
(***************************************************************************)
InformedIsRight ==
  \A n \in watch :
    Informed(n) => /\ tree[n] = Right(n)
                   /\ Right(n) # {} => blocked[n] = Peers(n) \ Right(n)

(***************************************************************************)
(* mst.go, ComputeMST: every node, given the same edges, computes the same *)
(* tree.  So the edges that informed agents keep contain no loop, also     *)
(* while others are not informed.                                          *)
(***************************************************************************)
LoopFree ==
  LET kept == Kept({n \in watch : Informed(n)}) IN LeastForest(kept) = kept
=============================================================================
