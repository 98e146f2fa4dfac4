---------------------------- MODULE GossipProofs ----------------------------
(***************************************************************************)
(* In every mesh: an answer is younger than StaleAfter when the tick that  *)
(* received it computes the tree, whichever peers are silent; the tables   *)
(* hold what answers say; the tree is the forest of the known edges; a     *)
(* lost answer does not disturb an agent that has its neighbours right;    *)
(* and agents that know of all links have right ones, without a loop.      *)
(***************************************************************************)
EXTENDS Gossip, SpanningTreeProofs

Table(t) == \A k \in DOMAIN t : t[k] \in Entry

AgentTypes ==
  /\ live \in [Node -> SUBSET Node]
  /\ phase \in [Node -> {"idle", "self", "poll"}]
  /\ todo \in [Node -> Seq(Node)]
  /\ heard \in [Node -> SUBSET (Node \cup {NoIP})]
  /\ DOMAIN nodes = Node
  /\ \A n \in Node : Table(nodes[n])

\* Even if all the peers still to be polled are silent, no answer of this tick gets too old.
InTime(n) ==
  /\ phase[n] # "poll" => heard[n] = {}
  /\ phase[n] = "poll" => Len(todo[n]) * Timeout <= StaleAfter
  /\ \A k \in heard[n] :
       k \in DOMAIN nodes[n] /\ nodes[n][k].age + Len(todo[n]) * Timeout <= StaleAfter

IInv == AgentTypes /\ \A n \in Node : InTime(n)

-----------------------------------------------------------------------------
\* Set adds or replaces one entry, of age 0.
LEMMA SetEntry ==
  ASSUME NEW t, Table(t), NEW info, info.live \in SUBSET Node
  PROVE  /\ Table(Set(t, info))
         /\ DOMAIN Set(t, info) = DOMAIN t \cup {info.ip}
         /\ Set(t, info)[info.ip].age = 0
         /\ \A k \in DOMAIN t : k # info.ip => Set(t, info)[k] = t[k]
<1> USE TimeAssumption DEF Table, Entry
<1>1. /\ DOMAIN Set(t, info) = DOMAIN t \cup {info.ip}
      /\ Set(t, info)[info.ip] = [live |-> info.live, age |-> 0]
      /\ \A k \in DOMAIN t : k # info.ip => Set(t, info)[k] = t[k]
  BY DEF Set
<1> QED
  BY <1>1

\* Time makes entries older and neither adds nor removes any.
LEMMA AgedEntry ==
  ASSUME NEW t, Table(t), NEW d \in Nat
  PROVE  /\ Table(Aged(t, d))
         /\ DOMAIN Aged(t, d) = DOMAIN t
         /\ \A k \in DOMAIN t :
              t[k].age + d <= StaleAfter => Aged(t, d)[k].age = t[k].age + d
BY TimeAssumption DEF Table, Entry, Aged

\* PurgeStale keeps what is not too old, and as it is.
LEMMA PurgeKeeps ==
  ASSUME NEW t, Table(t), NEW exclude
  PROVE  /\ Table(PurgeStale(t, exclude))
         /\ \A k \in DOMAIN t : t[k].age <= StaleAfter => k \in DOMAIN PurgeStale(t, exclude)
         /\ \A k \in DOMAIN PurgeStale(t, exclude) :
              k \in DOMAIN t /\ PurgeStale(t, exclude)[k] = t[k]
BY DEF Table, PurgeStale, Restrict

\* What a server answers names live peers.
LEMMA SelfInfoLive ==
  ASSUME AgentTypes, NEW n \in Node, NEW device \in BOOLEAN
  PROVE  computeSelfInfo(n, device).live \in SUBSET Node /\ computeSelfInfo(n, device).ip \in Node \cup {NoIP}
BY DEF AgentTypes, computeSelfInfo

\* An answer comes within the timeout.
LEMMA DelayAtMost == \A m : \A delay \in Delays(m) : delay \in Nat /\ delay <= Timeout
BY TimeAssumption DEF Delays

\* Peers are nodes.
LEMMA PeersIn == \A n \in Node : Peers(n) \subseteq Node
<1> SUFFICES ASSUME NEW n \in Node PROVE Range(AllPeers[n]) \subseteq Node
  BY DEF Peers
<1>1. AllPeers[n] \in [1..Len(AllPeers[n]) -> Node \ {n}]
  BY PeersAssumption, LenProperties
<1> QED
  BY <1>1 DEF Range

\* Polling the next peer leaves a timeout less to wait for.
LEMMA TailShorter ==
  ASSUME NEW s \in Seq(Node), s # <<>>
  PROVE  /\ Tail(s) \in Seq(Node) /\ Len(Tail(s)) \in Nat /\ Len(s) \in Nat
         /\ Len(Tail(s)) * Timeout + Timeout = Len(s) * Timeout
         /\ Len(Tail(s)) * Timeout \in Nat
<1>1. Tail(s) \in Seq(Node) /\ Len(s) = Len(Tail(s)) + 1 /\ Len(Tail(s)) \in Nat
  OBVIOUS
<1>2. \A x \in Nat : (x + 1) * Timeout = x * Timeout + Timeout /\ x * Timeout \in Nat
  BY TimeAssumption
<1>3. (Len(Tail(s)) + 1) * Timeout = Len(Tail(s)) * Timeout + Timeout /\ Len(Tail(s)) * Timeout \in Nat
  BY <1>1, <1>2
<1> QED
  BY <1>1, <1>3

-----------------------------------------------------------------------------
\* No agent has heard of anything yet.
LEMMA InitIInv == Init => IInv
<1> SUFFICES ASSUME Init PROVE IInv
  OBVIOUS
<1>1. \A n \in Node : nodes[n] = <<>> /\ heard[n] = {} /\ phase[n] = "idle"
  BY DEF Init
<1>2. \A n \in Node : Table(nodes[n])
  BY <1>1 DEF Table
<1>3. live \in [Node -> SUBSET Node]
  <2>1. \A n \in Node : Peers(n) \subseteq Node
    BY PeersIn
  <2> QED
    BY <2>1 DEF Init
<1> QED
  BY <1>1, <1>2, <1>3 DEF Init, IInv, AgentTypes, InTime

\* A step of n's tick leaves the other agents alone.
LEMMA OneAgent ==
  ASSUME IInv, NEW n \in Node,
         live' \in [Node -> SUBSET Node],
         phase' \in [Node -> {"idle", "self", "poll"}], todo' \in [Node -> Seq(Node)],
         heard' \in [Node -> SUBSET (Node \cup {NoIP})], DOMAIN nodes' = Node,
         \A m \in Node \ {n} : /\ phase'[m] = phase[m] /\ todo'[m] = todo[m]
                                /\ heard'[m] = heard[m] /\ nodes'[m] = nodes[m],
         Table(nodes'[n]), InTime(n)'
  PROVE  IInv'
<1>1. AgentTypes'
  BY DEF IInv, AgentTypes
<1>2. \A m \in Node \ {n} : InTime(m)'
  BY DEF IInv, AgentTypes, InTime
<1> QED
  BY <1>1, <1>2 DEF IInv

\* The steps of a tick up to the first poll.
LEMMA StartIInv ==
  ASSUME IInv, NEW n \in Node, TickLoad(n) \/ SetSelf(n)
  PROVE  IInv'
<1>1. CASE TickLoad(n)
  <2>1. Table(Aged(nodes[n], Interval))
    BY AgedEntry, TimeAssumption DEF IInv, AgentTypes
  <2>2. InTime(n)'
    BY <1>1 DEF TickLoad, InTime, IInv, AgentTypes
  <2>3. heard' = heard /\ live' = live /\ todo' = todo
    BY <1>1 DEF TickLoad, IInv, AgentTypes, env
  <2>4. phase' \in [Node -> {"idle", "self", "poll"}] /\ \A m \in Node \ {n} : phase'[m] = phase[m]
    BY <1>1 DEF TickLoad, IInv, AgentTypes
  <2> QED
    <3>1. /\ DOMAIN nodes' = Node /\ nodes'[n] = Aged(nodes[n], Interval)
          /\ \A m \in Node \ {n} : nodes'[m] = nodes[m]
      BY <1>1 DEF TickLoad, IInv, AgentTypes
    <3> QED
      BY <2>1, <2>2, <2>3, <2>4, <3>1, OneAgent DEF IInv, AgentTypes
<1>2. CASE SetSelf(n)
  <2>1. PICK device \in BOOLEAN : nodes' = [nodes EXCEPT ![n] = Set(@, computeSelfInfo(n, device))]
    BY <1>2 DEF SetSelf
  <2>2. Table(Set(nodes[n], computeSelfInfo(n, device)))
    BY SetEntry, SelfInfoLive DEF IInv, AgentTypes
  <2>3. AllPeers[n] \in Seq(Node)
    BY PeersAssumption, SeqMonotonic
  <2>4. heard[n] = {}
    BY <1>2 DEF SetSelf, IInv, InTime
  <2>5. heard' = heard /\ live' = live
    BY <1>2 DEF SetSelf, env
  <2>6. /\ phase' \in [Node -> {"idle", "self", "poll"}]
        /\ todo' \in [Node -> Seq(Node)] /\ todo'[n] = AllPeers[n]
        /\ \A m \in Node \ {n} : phase'[m] = phase[m] /\ todo'[m] = todo[m]
    BY <1>2, <2>3 DEF SetSelf, IInv, AgentTypes
  <2>7. InTime(n)'
    BY <2>4, <2>5, <2>6, TimeAssumption DEF InTime, IInv, AgentTypes
  <2> QED
    <3>1. /\ DOMAIN nodes' = Node /\ nodes'[n] = Set(nodes[n], computeSelfInfo(n, device))
          /\ \A m \in Node \ {n} : nodes'[m] = nodes[m]
      BY <2>1 DEF IInv, AgentTypes
    <3> QED
      BY <2>2, <2>5, <2>6, <2>7, <3>1, OneAgent DEF IInv, AgentTypes
<1> QED
  BY <1>1, <1>2

\* A poll, whatever comes of it, uses up no more than its share of the time.
LEMMA PollIInv ==
  ASSUME IInv, NEW n \in Node, FetchInfo(n) \/ FetchRefused(n) \/ FetchTimeout(n)
  PROVE  IInv'
<1> DEFINE m == Head(todo[n])
           rest == Tail(todo[n])
<1>1. /\ phase[n] = "poll" /\ todo[n] \in Seq(Node) /\ todo[n] # <<>> /\ m \in Node
      /\ phase' = phase /\ live' = live /\ todo' = [todo EXCEPT ![n] = rest]
  <2>1. Polling(n) /\ Polled(n)
    BY DEF FetchInfo, FetchRefused, FetchTimeout
  <2>2. todo[n] \in Seq(Node) /\ todo[n] # <<>>
    BY <2>1 DEF Polling, IInv, AgentTypes
  <2> QED
    BY <2>1, <2>2 DEF Polling, Polled, env
<1>2. /\ rest \in Seq(Node) /\ Len(rest) * Timeout \in Nat /\ Len(todo[n]) * Timeout \in Nat
      /\ Len(rest) * Timeout + Timeout = Len(todo[n]) * Timeout
  BY <1>1, TailShorter, TimeAssumption
<1>3. /\ phase' \in [Node -> {"idle", "self", "poll"}] /\ phase'[n] = "poll"
      /\ todo' \in [Node -> Seq(Node)] /\ todo'[n] = rest
      /\ \A k \in Node \ {n} : phase'[k] = phase[k] /\ todo'[k] = todo[k]
  BY <1>1, <1>2 DEF IInv, AgentTypes
<1>4. Table(nodes[n]) /\ heard[n] \in SUBSET (Node \cup {NoIP}) /\ live' \in [Node -> SUBSET Node]
  BY <1>1 DEF IInv, AgentTypes
<1>5. /\ Len(rest) * Timeout + Timeout <= StaleAfter
      /\ \A k \in heard[n] : k \in DOMAIN nodes[n] /\ nodes[n][k].age + Len(rest) * Timeout + Timeout <= StaleAfter
  <2>1. \A k \in heard[n] : nodes[n][k].age \in Nat
    BY <1>4, TimeAssumption DEF IInv, InTime, Table, Entry
  <2> QED
    BY <1>1, <1>2, <2>1, TimeAssumption DEF IInv, InTime
<1> HIDE DEF m, rest
<1>6. CASE FetchInfo(n)
  <2>1. PICK device \in BOOLEAN, delay \in Delays(m) :
          /\ nodes' = [nodes EXCEPT ![n] = Set(Aged(@, delay), computeSelfInfo(m, device))]
          /\ heard' = [heard EXCEPT ![n] = @ \cup {computeSelfInfo(m, device).ip}]
    BY <1>6 DEF FetchInfo, m
  <2> DEFINE info == computeSelfInfo(m, device)
             old == Aged(nodes[n], delay)
             t == Set(old, info)
             h == heard[n] \cup {info.ip}
  <2>2. info.live \in SUBSET Node /\ info.ip \in Node \cup {NoIP} /\ delay \in Nat /\ delay <= Timeout
    BY <1>1, SelfInfoLive, DelayAtMost DEF IInv
  <2>3. /\ Table(old) /\ DOMAIN old = DOMAIN nodes[n]
        /\ \A k \in DOMAIN nodes[n] :
             nodes[n][k].age + delay <= StaleAfter => old[k].age = nodes[n][k].age + delay
    BY <1>4, <2>2, AgedEntry
  <2>4. /\ nodes'[n] = t /\ heard'[n] = h
        /\ DOMAIN nodes' = Node /\ heard' \in [Node -> SUBSET (Node \cup {NoIP})]
        /\ \A k \in Node \ {n} : heard'[k] = heard[k] /\ nodes'[k] = nodes[k]
    BY <1>4, <2>1, <2>2 DEF IInv, AgentTypes
  <2> HIDE DEF old, info
  <2>5. /\ Table(t) /\ DOMAIN t = DOMAIN nodes[n] \cup {info.ip} /\ t[info.ip].age = 0
        /\ \A k \in DOMAIN nodes[n] : k # info.ip => t[k] = old[k]
    <3>1. /\ Table(t) /\ DOMAIN t = DOMAIN old \cup {info.ip} /\ t[info.ip].age = 0
          /\ \A k \in DOMAIN old : k # info.ip => t[k] = old[k]
      BY <2>2, <2>3, SetEntry
    <3> QED
      BY <2>3, <3>1
  <2> HIDE DEF t
  <2>6. ASSUME NEW k \in h PROVE k \in DOMAIN t /\ t[k].age + Len(rest) * Timeout <= StaleAfter
    <3>1. CASE k = info.ip
      BY <1>2, <1>5, <2>5, <3>1, TimeAssumption
    <3>2. CASE k # info.ip
      <4>1. /\ k \in DOMAIN nodes[n] /\ t[k] = old[k] /\ nodes[n][k].age \in Nat
            /\ nodes[n][k].age + Len(rest) * Timeout + Timeout <= StaleAfter
        BY <1>4, <1>5, <2>5, <2>6, <3>2, TimeAssumption DEF Table, Entry
      <4>2. nodes[n][k].age + delay <= StaleAfter
        BY <1>2, <2>2, <4>1, TimeAssumption
      <4>3. t[k].age = nodes[n][k].age + delay
        BY <2>3, <4>1, <4>2
      <4> QED
        BY <1>2, <2>2, <2>5, <4>1, <4>3, TimeAssumption
    <3> QED
      BY <3>1, <3>2
  <2> HIDE DEF h
  <2>7. InTime(n)'
    BY <1>2, <1>3, <1>5, <2>4, <2>6, TimeAssumption DEF InTime
  <2> QED
    BY <1>3, <1>4, <2>4, <2>5, <2>7, OneAgent
<1>7. CASE FetchRefused(n)
  <2>1. nodes' = nodes /\ heard' = heard
    BY <1>7 DEF FetchRefused
  <2>2. InTime(n)'
    BY <1>2, <1>3, <1>4, <1>5, <1>7, TimeAssumption DEF InTime, FetchRefused, Table, Entry
  <2> QED
    BY <1>3, <1>4, <2>1, <2>2, OneAgent DEF IInv, AgentTypes
<1>8. CASE FetchTimeout(n)
  <2> DEFINE t == Aged(nodes[n], Timeout)
  <2>1. nodes' = [nodes EXCEPT ![n] = t] /\ heard' = heard
    BY <1>8 DEF FetchTimeout, IInv, AgentTypes
  <2>2. /\ Table(t) /\ DOMAIN t = DOMAIN nodes[n]
        /\ \A k \in DOMAIN t :
             nodes[n][k].age + Timeout <= StaleAfter => t[k].age = nodes[n][k].age + Timeout
    BY <1>4, AgedEntry, TimeAssumption
  <2>3. nodes'[n] = t /\ DOMAIN nodes' = Node /\ \A k \in Node \ {n} : nodes'[k] = nodes[k]
    BY <2>1 DEF IInv, AgentTypes
  <2>4. InTime(n)'
    <3>1. ASSUME NEW k \in heard[n]
          PROVE  k \in DOMAIN t /\ t[k].age + Len(rest) * Timeout <= StaleAfter
      <4>1. /\ k \in DOMAIN t /\ nodes[n][k].age \in Nat
            /\ nodes[n][k].age + Len(rest) * Timeout + Timeout <= StaleAfter
        BY <1>4, <1>5, <2>2, TimeAssumption DEF Table, Entry
      <4>2. nodes[n][k].age + Timeout <= StaleAfter
        BY <1>2, <4>1, TimeAssumption
      <4>3. t[k].age = nodes[n][k].age + Timeout
        BY <2>2, <4>1, <4>2
      <4> QED
        BY <1>2, <4>1, <4>3, TimeAssumption
    <3> QED
      BY <1>2, <1>3, <1>5, <2>1, <2>3, <3>1, TimeAssumption DEF InTime
  <2> HIDE DEF t
  <2> QED
    BY <1>3, <1>4, <2>1, <2>2, <2>3, <2>4, OneAgent DEF IInv, AgentTypes
<1> QED
  BY <1>6, <1>7, <1>8

\* The end of a tick; the end of an agent.
LEMMA EndIInv ==
  ASSUME IInv, NEW n \in Node, Compute(n) \/ Crash(n)
  PROVE  IInv'
<1>1. /\ live' = live /\ todo' \in [Node -> Seq(Node)]
      /\ phase' = [phase EXCEPT ![n] = "idle"] /\ heard' = [heard EXCEPT ![n] = {}]
      /\ \A m \in Node \ {n} : todo'[m] = todo[m]
  <2>1. live' = live /\ (todo' = todo \/ todo' = [todo EXCEPT ![n] = <<>>])
    BY DEF Compute, Crash, env
  <2>2. phase' = [phase EXCEPT ![n] = "idle"] /\ heard' = [heard EXCEPT ![n] = {}]
    BY DEF Compute, Crash
  <2>3. <<>> \in Seq(Node) /\ todo \in [Node -> Seq(Node)]
    BY DEF IInv, AgentTypes
  <2> QED
    BY <2>1, <2>2, <2>3
<1>2. /\ DOMAIN nodes' = Node /\ \A m \in Node \ {n} : nodes'[m] = nodes[m]
      /\ nodes'[n] = PurgeStale(nodes[n], n) \/ nodes'[n] = <<>>
  BY DEF Compute, Crash, IInv, AgentTypes
<1>3. Table(nodes'[n])
  <2>1. Table(PurgeStale(nodes[n], n))
    BY PurgeKeeps DEF IInv, AgentTypes
  <2>2. Table(<<>>)
    BY DEF Table
  <2> QED
    BY <1>2, <2>1, <2>2
<1>4. /\ phase' \in [Node -> {"idle", "self", "poll"}] /\ phase'[n] = "idle"
      /\ heard' \in [Node -> SUBSET (Node \cup {NoIP})] /\ heard'[n] = {}
      /\ \A m \in Node \ {n} : phase'[m] = phase[m] /\ heard'[m] = heard[m]
  BY <1>1 DEF IInv, AgentTypes
<1>5. InTime(n)'
  BY <1>4 DEF InTime
<1> QED
  BY <1>1, <1>2, <1>3, <1>4, <1>5, OneAgent DEF IInv, AgentTypes

\* What happens outside the agents that go on running.
LEMMA OutsideIInv ==
  ASSUME IInv, live' \in [Node -> SUBSET Node], UNCHANGED agent
  PROVE  IInv'
BY DEF IInv, AgentTypes, InTime, agent

\* IInv is inductive.
LEMMA NextIInv == IInv /\ [Next]_vars => IInv'
<1> SUFFICES ASSUME IInv, [Next]_vars PROVE IInv'
  OBVIOUS
<1>1. live \in [Node -> SUBSET Node]
  BY DEF IInv, AgentTypes
<1>2. ASSUME NEW n \in Node, NEW m \in Node, Handshake(n, m) PROVE IInv'
  BY <1>1, <1>2, OutsideIInv DEF Handshake
<1>3. ASSUME NEW n \in Node, NEW m \in Node, Expire(n, m) PROVE IInv'
  BY <1>1, <1>3, OutsideIInv DEF Expire
<1>4. ASSUME NEW n \in Node, NEW m \in Node, Join(n, m) PROVE IInv'
  BY <1>1, <1>4, OutsideIInv DEF Join
<1>5. ASSUME NEW e \in link, Cut(e) PROVE IInv'
  BY <1>1, <1>5, OutsideIInv DEF Cut
<1>6. ASSUME NEW n \in Node, Restart(n) \/ Unreadable(n) \/ Repaired(n) PROVE IInv'
  BY <1>1, <1>6, OutsideIInv DEF Restart, Unreadable, Repaired
<1>7. ASSUME UNCHANGED vars PROVE IInv'
  BY <1>1, <1>7, OutsideIInv DEF vars, env, agent
<1>8. ASSUME NEW n \in Node, Tick(n) \/ Crash(n) PROVE IInv'
  BY <1>8, StartIInv, PollIInv, EndIInv DEF Tick
<1>9. \A n \in Node : Peers(n) \subseteq Node /\ live[n] \subseteq Node
  BY <1>1, PeersIn
<1> QED
  BY <1>2, <1>3, <1>4, <1>5, <1>6, <1>7, <1>8, <1>9 DEF Next, WireGuard, Recovery

(***************************************************************************)
(* tick: in any mesh in which polling nothing but silent peers takes no    *)
(* longer than StaleAfter, whoever has answered in a tick is part of the   *)
(* graph of that tick.                                                     *)
(***************************************************************************)
THEOREM AnswersAlwaysCount == Spec => AnswersCount
<1>1. ASSUME IInv, NEW n \in Node, Compute(n) PROVE heard[n] \subseteq DOMAIN nodes'[n]
  <2>1. phase[n] = "poll" /\ todo[n] = <<>> /\ nodes'[n] = PurgeStale(nodes[n], n)
    BY <1>1 DEF Compute, IInv, AgentTypes
  <2>2. Table(nodes[n])
    BY <1>1 DEF IInv, AgentTypes
  <2>3. \A k \in heard[n] : k \in DOMAIN nodes[n] /\ nodes[n][k].age <= StaleAfter
    BY <1>1, <2>1, <2>2, TimeAssumption DEF IInv, InTime, Table, Entry
  <2> QED
    BY <2>1, <2>2, <2>3, PurgeKeeps
<1>2. IInv /\ [Next]_vars => [\A n \in Node : Compute(n) => heard[n] \subseteq DOMAIN nodes'[n]]_vars
  BY <1>1
<1> QED
  BY <1>2, InitIInv, NextIInv, PTL DEF Spec, AnswersCount

-----------------------------------------------------------------------------
(***************************************************************************)
(* What an agent computes from: entries of nodes, one of which may be the  *)
(* empty NodeInfo, which names no live peers.                              *)
(***************************************************************************)
Named(t) ==
  /\ Table(t) /\ DOMAIN t \subseteq Node \cup {NoIP}
  /\ NoIP \in DOMAIN t => t[NoIP].live = {}

Rest(s, all) == s = <<>> \/ \E k \in 1..Len(all) : s = SubSeq(all, k, Len(all))

AgentOK(n) ==
  Named(nodes[n]) /\ Rest(todo[n], AllPeers[n]) /\ blocked[n] \subseteq Peers(n)

MeshOK ==
  /\ link \subseteq {newEdge(n, m) : n, m \in Node}
  /\ up \subseteq Node /\ readable \subseteq Node /\ watch \subseteq Node
  /\ tree \in [Node -> SUBSET Node] /\ DOMAIN blocked = Node
  /\ faults \subseteq FaultKinds

TInv == IInv /\ MeshOK /\ \A n \in Node : AgentOK(n)

\* TypeOK is part of it.
LEMMA TInvTypeOK == TInv => TypeOK
<1> SUFFICES ASSUME TInv PROVE TypeOK
  OBVIOUS
<1>1. AgentTypes /\ MeshOK /\ \A n \in Node : AgentOK(n)
  BY DEF TInv, IInv
<1>2. \A n \in Node : /\ DOMAIN nodes[n] \subseteq Node \cup {NoIP}
                      /\ \A k \in DOMAIN nodes[n] : nodes[n][k] \in Entry
  BY <1>1 DEF AgentOK, Named, Table
<1>3. \A n \in Node : heard[n] \subseteq Node \cup {NoIP} /\ blocked[n] \subseteq Peers(n)
  BY <1>1 DEF AgentTypes, AgentOK
<1>4. \A n \in Node : \/ todo[n] = <<>>
                      \/ \E k \in 1..Len(AllPeers[n]) : todo[n] = SubSeq(AllPeers[n], k, Len(AllPeers[n]))
  BY <1>1 DEF AgentOK, Rest
<1> QED
  BY <1>1, <1>2, <1>3, <1>4 DEF TypeOK, AgentTypes, MeshOK

\* The edges an agent computes from are finitely many, between nodes.
LEMMA NamedEdges ==
  ASSUME NEW t, Named(t)
  PROVE  /\ Edges(t) \subseteq Node \X Node /\ IsFiniteSet(Edges(t))
         /\ Edges(t) \in SUBSET (Nat \X Nat) /\ DOMAIN t \in SUBSET Nat
<1>1. Node \subseteq Nat /\ NoIP \in Nat /\ IsFiniteSet(Node)
  BY NodeAssumption DEF NoIP
<1>2. ASSUME NEW k \in DOMAIN t, NEW p \in t[k].live PROVE newEdge(k, p) \in Node \X Node
  <2>1. k \in Node /\ p \in Node
    BY <1>2 DEF Named, Table, Entry
  <2> QED
    BY <2>1 DEF newEdge
<1>3. Edges(t) \subseteq Node \X Node
  BY <1>2 DEF Edges
<1>4. IsFiniteSet(Node \X Node)
  BY <1>1, FS_Product
<1>5. IsFiniteSet(Edges(t))
  BY <1>3, <1>4, FS_Subset
<1> QED
  BY <1>1, <1>3, <1>5 DEF Named

\* What a server answers is a node's entry or the empty one.
LEMMA NamedSet ==
  ASSUME AgentTypes, NEW t, Named(t), NEW n \in Node, NEW device \in BOOLEAN
  PROVE  Named(Set(t, computeSelfInfo(n, device)))
<1> DEFINE info == computeSelfInfo(n, device)
           new == Set(t, info)
<1>1. info.live \in SUBSET Node /\ info.ip \in Node \cup {NoIP}
  BY SelfInfoLive
<1>2. info.ip = NoIP => info.live = {}
  BY NodeAssumption DEF computeSelfInfo
<1>3. new = [k \in DOMAIN t \cup {info.ip} |-> IF k = info.ip THEN [live |-> info.live, age |-> 0] ELSE t[k]]
  BY DEF Set
<1>4. Table(new)
  BY <1>1, SetEntry DEF Named
<1> HIDE DEF info, new
<1>5. DOMAIN new \subseteq Node \cup {NoIP}
  BY <1>1, <1>3 DEF Named
<1>6. NoIP \in DOMAIN new => new[NoIP].live = {}
  BY <1>2, <1>3 DEF Named
<1> QED
  BY <1>4, <1>5, <1>6 DEF Named, new, info

\* Time does not change what an entry says.
LEMMA NamedAged ==
  ASSUME NEW t, Named(t), NEW d \in Nat
  PROVE  Named(Aged(t, d))
<1>1. Table(Aged(t, d)) /\ DOMAIN Aged(t, d) = DOMAIN t
  BY AgedEntry DEF Named
<1>2. \A k \in DOMAIN t : Aged(t, d)[k].live = t[k].live
  BY DEF Aged, Named, Table, Entry
<1> QED
  BY <1>1, <1>2 DEF Named

\* Nor does forgetting others.
LEMMA NamedPurged ==
  ASSUME NEW t, Named(t), NEW exclude
  PROVE  Named(PurgeStale(t, exclude))
BY PurgeKeeps DEF Named

\* Polling goes on with the rest of the peers.
LEMMA RestTail ==
  ASSUME NEW all \in Seq(Node), NEW s \in Seq(Node), s # <<>>, Rest(s, all)
  PROVE  Rest(Tail(s), all)
<1>1. PICK k \in 1..Len(all) : s = SubSeq(all, k, Len(all))
  BY DEF Rest
<1>2. Len(all) \in Nat
  BY LenProperties
<1>3. Tail(s) = SubSeq(all, k + 1, Len(all))
  BY <1>1, <1>2, HeadTailOfSubSeq
<1>4. k + 1 \in 1..Len(all) \/ Len(all) < k + 1
  BY <1>2
<1>5. Len(all) < k + 1 => SubSeq(all, k + 1, Len(all)) = <<>>
  BY <1>2, SubSeqEmpty
<1> QED
  BY <1>3, <1>4, <1>5 DEF Rest

\* It begins with all of them.
LEMMA RestAll == \A n \in Node : AllPeers[n] \in Seq(Node) /\ Rest(AllPeers[n], AllPeers[n])
<1> SUFFICES ASSUME NEW n \in Node PROVE AllPeers[n] \in Seq(Node) /\ Rest(AllPeers[n], AllPeers[n])
  OBVIOUS
<1>1. AllPeers[n] \in Seq(Node)
  BY PeersAssumption, SeqMonotonic
<1>2. AllPeers[n] = SubSeq(AllPeers[n], 1, Len(AllPeers[n]))
  BY <1>1, SubSeqFull
<1>3. AllPeers[n] = <<>> \/ 1 \in 1..Len(AllPeers[n])
  BY <1>1, LenProperties, EmptySeq
<1> QED
  BY <1>1, <1>2, <1>3 DEF Rest

\* The neighbours in the tree are nodes.
LEMMA NeighborsIn ==
  ASSUME NEW t, Named(t), NEW n
  PROVE  LocalNeighbors(n, ComputeMST(DOMAIN t, Edges(t))) \subseteq Node
<1> DEFINE mst == ComputeMST(DOMAIN t, Edges(t))
<1>1. mst = LeastForest(Edges(t))
  BY NamedEdges, KruskalCorrect
<1>2. mst \subseteq Node \X Node
  BY <1>1, NamedEdges DEF LeastForest
<1> HIDE DEF mst
<1>3. LocalNeighbors(n, mst) \subseteq Node
  BY <1>2 DEF LocalNeighbors
<1> QED
  BY <1>3 DEF mst

-----------------------------------------------------------------------------
\* At the beginning there is nothing in the tables, the trees and the filters.
LEMMA InitTInv == Init => TInv
<1> SUFFICES ASSUME Init PROVE TInv
  OBVIOUS
<1>1. /\ nodes = [n \in Node |-> <<>>] /\ todo = [n \in Node |-> <<>>]
      /\ tree = [n \in Node |-> {}] /\ blocked = [n \in Node |-> {}]
  BY DEF Init
<1>2. MeshOK
  BY <1>1, MeshAssumption DEF Init, MeshOK
<1>3. Named(<<>>)
  BY DEF Named, Table
<1>4. \A n \in Node : AgentOK(n)
  BY <1>1, <1>3 DEF AgentOK, Rest
<1> QED
  BY <1>2, <1>4, InitIInv DEF TInv

\* A step of n's agent.
LEMMA OneAgentOK ==
  ASSUME TInv, [Next]_vars, NEW n \in Node, MeshOK', AgentOK(n)',
         \A m \in Node \ {n} : todo'[m] = todo[m] /\ nodes'[m] = nodes[m] /\ blocked'[m] = blocked[m]
  PROVE  TInv'
<1>1. IInv'
  BY NextIInv DEF TInv
<1>2. \A m \in Node \ {n} : AgentOK(m)'
  BY DEF TInv, AgentOK, Peers
<1> QED
  BY <1>1, <1>2 DEF TInv

\* The tick up to the first poll.
LEMMA StartTInv ==
  ASSUME TInv, [Next]_vars, NEW n \in Node, TickLoad(n) \/ SetSelf(n)
  PROVE  TInv'
<1>1. /\ AgentTypes /\ MeshOK /\ AgentOK(n) /\ Named(nodes[n])
  BY DEF TInv, IInv, AgentOK
<1>2. MeshOK' /\ blocked' = blocked
  BY <1>1 DEF TickLoad, SetSelf, Succeeds, env, MeshOK
<1>3. CASE TickLoad(n)
  <2>1. nodes'[n] = Aged(nodes[n], Interval) /\ todo' = todo /\ \A m \in Node \ {n} : nodes'[m] = nodes[m]
    BY <1>1, <1>3 DEF TickLoad, AgentTypes
  <2>2. Named(nodes'[n])
    BY <1>1, <2>1, NamedAged, TimeAssumption
  <2>3. AgentOK(n)'
    BY <1>1, <1>2, <2>1, <2>2 DEF AgentOK, Peers
  <2> QED
    BY <1>2, <2>1, <2>3, OneAgentOK
<1>4. CASE SetSelf(n)
  <2>1. PICK device \in BOOLEAN : nodes' = [nodes EXCEPT ![n] = Set(@, computeSelfInfo(n, device))]
    BY <1>4 DEF SetSelf
  <2>2. /\ nodes'[n] = Set(nodes[n], computeSelfInfo(n, device)) /\ todo'[n] = AllPeers[n]
        /\ \A m \in Node \ {n} : todo'[m] = todo[m] /\ nodes'[m] = nodes[m]
    BY <1>1, <1>4, <2>1 DEF SetSelf, AgentTypes
  <2>3. Named(nodes'[n]) /\ Rest(todo'[n], AllPeers[n])
    BY <1>1, <2>2, NamedSet, RestAll
  <2>4. AgentOK(n)'
    BY <1>1, <1>2, <2>3 DEF AgentOK, Peers
  <2> QED
    BY <1>2, <2>2, <2>4, OneAgentOK
<1> QED
  BY <1>3, <1>4

\* A poll.
LEMMA PollTInv ==
  ASSUME TInv, [Next]_vars, NEW n \in Node, FetchInfo(n) \/ FetchRefused(n) \/ FetchTimeout(n)
  PROVE  TInv'
<1> DEFINE m == Head(todo[n])
<1>1. /\ AgentTypes /\ MeshOK /\ AgentOK(n) /\ Named(nodes[n]) /\ Rest(todo[n], AllPeers[n])
  BY DEF TInv, IInv, AgentOK
<1>2. /\ todo[n] \in Seq(Node) /\ todo[n] # <<>> /\ m \in Node
      /\ todo' = [todo EXCEPT ![n] = Tail(@)] /\ tree' = tree /\ blocked' = blocked
      /\ UNCHANGED <<env, watch>>
  <2>1. Polling(n) /\ Polled(n)
    BY DEF FetchInfo, FetchRefused, FetchTimeout
  <2>2. todo[n] \in Seq(Node) /\ todo[n] # <<>>
    BY <1>1, <2>1 DEF Polling, AgentTypes
  <2> QED
    BY <2>1, <2>2 DEF Polled
<1>3. Rest(todo'[n], AllPeers[n]) /\ \A k \in Node \ {n} : todo'[k] = todo[k]
  BY <1>1, <1>2, RestTail, RestAll DEF AgentTypes
<1>4. faults' \subseteq FaultKinds
  BY <1>1 DEF FetchInfo, FetchRefused, FetchTimeout, Succeeds, MeshOK
<1>5. MeshOK'
  BY <1>1, <1>2, <1>4 DEF env, MeshOK
<1>6. Named(nodes'[n]) /\ \A k \in Node \ {n} : nodes'[k] = nodes[k]
  <2>1. CASE FetchInfo(n)
    <3>1. PICK device \in BOOLEAN, delay \in Delays(m) :
            nodes' = [nodes EXCEPT ![n] = Set(Aged(@, delay), computeSelfInfo(m, device))]
      BY <2>1 DEF FetchInfo
    <3>2. /\ nodes'[n] = Set(Aged(nodes[n], delay), computeSelfInfo(m, device))
          /\ \A k \in Node \ {n} : nodes'[k] = nodes[k]
      BY <1>1, <3>1 DEF AgentTypes
    <3>3. Named(Aged(nodes[n], delay))
      BY <1>1, DelayAtMost, NamedAged
    <3> QED
      BY <1>1, <1>2, <3>2, <3>3, NamedSet
  <2>2. CASE FetchRefused(n)
    BY <1>1, <2>2 DEF FetchRefused
  <2>3. CASE FetchTimeout(n)
    <3>1. nodes'[n] = Aged(nodes[n], Timeout) /\ \A k \in Node \ {n} : nodes'[k] = nodes[k]
      BY <1>1, <2>3 DEF FetchTimeout, AgentTypes
    <3> QED
      BY <1>1, <3>1, NamedAged, TimeAssumption
  <2> QED
    BY <2>1, <2>2, <2>3
<1>7. AgentOK(n)'
  BY <1>1, <1>2, <1>3, <1>6 DEF AgentOK, Peers
<1> QED
  BY <1>2, <1>3, <1>5, <1>6, <1>7, OneAgentOK

\* The end of a tick, where the tree is computed; the end of an agent.
LEMMA EndTInv ==
  ASSUME TInv, [Next]_vars, NEW n \in Node, Compute(n) \/ Crash(n)
  PROVE  TInv'
<1> DEFINE known == PurgeStale(nodes[n], n)
           ips == LocalNeighbors(n, ComputeMST(DOMAIN known, Edges(known)))
<1>1. /\ AgentTypes /\ MeshOK /\ AgentOK(n) /\ Named(nodes[n]) /\ blocked[n] \subseteq Peers(n)
  BY DEF TInv, IInv, AgentOK
<1>2. Named(known) /\ ips \subseteq Node
  BY <1>1, NamedPurged, NeighborsIn
<1>3. CASE Compute(n)
  <2>1. /\ nodes' = [nodes EXCEPT ![n] = known] /\ tree' = [tree EXCEPT ![n] = ips]
        /\ blocked' = [blocked EXCEPT ![n] = IF ips = tree[n] THEN @ ELSE Blocked(n, ips)]
        /\ todo' = todo /\ UNCHANGED <<env, watch, faults>>
    BY <1>3 DEF Compute
  <2> HIDE DEF known, ips
  <2>2. MeshOK'
    BY <1>1, <1>2, <2>1 DEF MeshOK, env
  <2>3. blocked'[n] \subseteq Peers(n) /\ \A m \in Node \ {n} : blocked'[m] = blocked[m] /\ nodes'[m] = nodes[m]
    BY <1>1, <2>1 DEF Blocked, MeshOK, AgentTypes
  <2>4. AgentOK(n)'
    BY <1>1, <1>2, <2>1, <2>3 DEF AgentOK, Peers, AgentTypes
  <2> QED
    BY <2>1, <2>2, <2>3, <2>4, OneAgentOK
<1>4. CASE Crash(n)
  <2>1. /\ nodes'[n] = <<>> /\ todo'[n] = <<>> /\ blocked' = blocked
        /\ \A m \in Node \ {n} : todo'[m] = todo[m] /\ nodes'[m] = nodes[m]
    BY <1>1, <1>4 DEF Crash, AgentTypes
  <2>2. /\ link' = link /\ up' \subseteq up /\ readable' = readable /\ watch' = watch
        /\ tree' = [tree EXCEPT ![n] = {}] /\ faults' \subseteq FaultKinds
    BY <1>1, <1>4 DEF Crash, Fault, MeshOK
  <2>3. MeshOK'
    BY <1>1, <2>1, <2>2 DEF MeshOK
  <2>4. Named(<<>>)
    BY DEF Named, Table
  <2>5. AgentOK(n)'
    BY <1>1, <2>1, <2>4 DEF AgentOK, Rest, Peers
  <2> QED
    BY <2>1, <2>3, <2>5, OneAgentOK
<1> QED
  BY <1>3, <1>4

\* What happens outside the agents.
LEMMA OutsideTInv ==
  ASSUME TInv, [Next]_vars, MeshOK', UNCHANGED <<todo, nodes, blocked>>
  PROVE  TInv'
<1>1. IInv'
  BY NextIInv DEF TInv
<1> QED
  BY <1>1 DEF TInv, AgentOK, Peers

\* TInv is inductive.
LEMMA NextTInv == TInv /\ [Next]_vars => TInv'
<1> SUFFICES ASSUME TInv, [Next]_vars PROVE TInv'
  OBVIOUS
<1>1. MeshOK /\ \A n \in Node : Peers(n) \subseteq Node /\ live[n] \subseteq Node
  BY PeersIn DEF TInv, IInv, AgentTypes
<1>2. ASSUME NEW n \in Node, NEW m \in Node, Handshake(n, m) \/ Expire(n, m) PROVE TInv'
  <2>1. MeshOK' /\ UNCHANGED agent
    BY <1>1, <1>2 DEF Handshake, Expire, agent, MeshOK
  <2> QED
    BY <2>1, OutsideTInv DEF agent
<1>3. ASSUME NEW n \in Node, NEW m \in Node, Join(n, m) PROVE TInv'
  <2>1. MeshOK' /\ UNCHANGED agent
    BY <1>1, <1>3 DEF Join, Fault, agent, MeshOK
  <2> QED
    BY <2>1, OutsideTInv DEF agent
<1>4. ASSUME NEW e \in link, Cut(e) PROVE TInv'
  <2>1. MeshOK' /\ UNCHANGED agent
    BY <1>1, <1>4 DEF Cut, Fault, agent, MeshOK
  <2> QED
    BY <2>1, OutsideTInv DEF agent
<1>5. ASSUME NEW n \in Node, Restart(n) \/ Unreadable(n) \/ Repaired(n) PROVE TInv'
  <2>1. MeshOK' /\ UNCHANGED agent
    BY <1>1, <1>5 DEF Restart, Unreadable, Repaired, Fault, agent, MeshOK
  <2> QED
    BY <2>1, OutsideTInv DEF agent
<1>6. ASSUME UNCHANGED vars PROVE TInv'
  <2>1. MeshOK' /\ UNCHANGED agent
    BY <1>1, <1>6 DEF vars, env, agent, MeshOK
  <2> QED
    BY <2>1, OutsideTInv DEF agent
<1>7. ASSUME NEW n \in Node, Tick(n) \/ Crash(n) PROVE TInv'
  BY <1>7, StartTInv, PollTInv, EndTInv DEF Tick
<1> QED
  BY <1>1, <1>2, <1>3, <1>4, <1>5, <1>6, <1>7 DEF Next, WireGuard, Recovery

(***************************************************************************)
(* agent.go, topology.go: in every mesh, an agent's table holds answers of *)
(* nodes and perhaps an empty one, what it still has to poll is the rest   *)
(* of its peers, its neighbours in the tree are nodes, never the address   *)
(* of the empty answer, and FRR filters peers of the node only.            *)
(***************************************************************************)
THEOREM TypeCorrectGossip == Spec => []TypeOK
BY InitTInv, NextTInv, TInvTypeOK, PTL DEF Spec

(***************************************************************************)
(* mst.go, ComputeMST: in every mesh, whatever an agent has gathered when  *)
(* it computes the tree, the result is the one spanning forest the order   *)
(* of the edges singles out, and the union-find it leaves is sound.        *)
(***************************************************************************)
THEOREM AlwaysForestOfEdges == Spec => []ForestOfEdges
<1>1. TInv => ForestOfEdges
  <2> SUFFICES ASSUME TInv, NEW n \in watch
               PROVE  LET edges == Edges(nodes[n])
                          k     == Kruskal(DOMAIN nodes[n], edges)
                      IN  k.mst = LeastForest(edges) /\ Sound(k.uf, edges)
    BY DEF ForestOfEdges
  <2>1. Named(nodes[n])
    BY DEF TInv, MeshOK, AgentOK
  <2> QED
    BY <2>1, NamedEdges, KruskalCorrect DEF ComputeMST
<1> QED
  BY <1>1, InitTInv, NextTInv, PTL DEF Spec

-----------------------------------------------------------------------------
(***************************************************************************)
(* While nothing but an answer is lost, links and handshakes stay as they  *)
(* were at the beginning.                                                  *)
(***************************************************************************)
Calm == faults \subseteq {"lost"}

Steady ==
  /\ up = Node /\ readable = Node
  /\ live = [n \in Node |-> {m \in Peers(n) : newEdge(n, m) \in link /\ n \in Peers(m)}]

\* A table then tells how things are: an entry never changes but in age.
Truthful(t) == \A k \in DOMAIN t : k \in Node /\ t[k].live = live[k]

Remembers(n) ==
  /\ Truthful(nodes[n])
  /\ \A k \in DOMAIN nodes[n] \ {n} : k \in Peers(n) /\ newEdge(n, k) \in link
  /\ phase[n] = "poll" => n \in DOMAIN nodes[n]

(***************************************************************************)
(* An entry whose peer has had its turn in this tick is from this tick or  *)
(* the last one; with no answer lost so far it is from this tick, and one  *)
(* whose turn is still to come is from the last.                           *)
(***************************************************************************)
Span(n) == Len(AllPeers[n]) * Timeout
Left(n) == Len(todo[n]) * Timeout

Age(n, k) ==
  LET age == nodes[n][k].age IN
  /\ phase[n] = "poll" /\ k \notin Range(todo[n]) => age + Left(n) <= Interval + 2 * Span(n)
  /\ "lost" \notin faults =>
       /\ phase[n] = "idle" => age <= Span(n)
       /\ phase[n] = "self" => age <= Interval + Span(n)
       /\ phase[n] = "poll" /\ k \in Range(todo[n]) => age + Left(n) <= Interval + 2 * Span(n)
       /\ phase[n] = "poll" /\ k \notin Range(todo[n]) => age + Left(n) <= Span(n)

Ages(n) ==
  /\ phase[n] = "poll" => Left(n) <= Span(n)
  /\ \A k \in DOMAIN nodes[n] \ {n} : Age(n, k)

(***************************************************************************)
(* Knowing more never adds a neighbour: what n would compute is part of    *)
(* what it has computed.                                                   *)
(***************************************************************************)
Neighbors(n, t) == LocalNeighbors(n, LeastForest(Edges(t)))

Settled(n) ==
  /\ tree[n] \subseteq live[n]
  /\ tree[n] # {} => n \in DOMAIN nodes[n] /\ Neighbors(n, nodes[n]) \subseteq tree[n]

CInv == TInv /\ (Calm => Steady /\ \A n \in Node : Remembers(n) /\ Ages(n) /\ Settled(n))

-----------------------------------------------------------------------------
\* Of two nodes both or neither know of the other.
LEMMA SteadyLive ==
  ASSUME Steady
  PROVE  \A n \in Node : \A m \in Node :
           m \in live[n] <=> m \in Peers(n) /\ newEdge(n, m) \in link /\ n \in Peers(m)
BY DEF Steady

\* The edges of a truthful table are links, and those at n are n's live peers.
LEMMA TruthfulEdges ==
  ASSUME Steady, NEW t, Named(t), Truthful(t), NEW n \in Node, NEW p \in Node
  PROVE  /\ Edges(t) \in SUBSET (Nat \X Nat) /\ \A e \in Edges(t) : e[1] <= e[2]
         /\ Edges(t) \subseteq link
         /\ newEdge(n, p) \in Edges(t) => p \in live[n]
         /\ n \in DOMAIN t /\ p \in live[n] => newEdge(n, p) \in Edges(t)
<1>1. Edges(t) \in SUBSET (Nat \X Nat)
  BY NamedEdges
<1>2. Node \subseteq Nat
  BY NodeAssumption
<1>3. \A k \in DOMAIN t : k \in Node /\ t[k].live = live[k] /\ live[k] \subseteq Node
  BY PeersIn DEF Truthful, Steady
<1>4. \A k, q \in Node : q \in live[k] => newEdge(k, q) \in link /\ k \in live[q]
  BY <1>2, SteadyLive, NewEdgeSame
<1>5. \A e \in Edges(t) : \E k \in DOMAIN t : \E q \in live[k] : k \in Node /\ q \in Node /\ e = newEdge(k, q)
  BY <1>3 DEF Edges
<1>6. Edges(t) \subseteq link /\ \A e \in Edges(t) : e[1] <= e[2]
  <2> SUFFICES ASSUME NEW e \in Edges(t) PROVE e \in link /\ e[1] <= e[2]
    OBVIOUS
  <2>1. PICK k \in Node, q \in Node : q \in live[k] /\ e = newEdge(k, q)
    BY <1>5
  <2>2. k \in Nat /\ q \in Nat
    BY <1>2
  <2>3. newEdge(k, q)[1] <= newEdge(k, q)[2]
    BY <2>2, NewEdgeSame
  <2> QED
    BY <1>4, <2>1, <2>3
<1>7. newEdge(n, p) \in Edges(t) => p \in live[n]
  <2> SUFFICES ASSUME newEdge(n, p) \in Edges(t) PROVE p \in live[n]
    OBVIOUS
  <2>1. PICK k \in Node, q \in Node : q \in live[k] /\ newEdge(n, p) = newEdge(k, q)
    BY <1>5
  <2>2. n \in Nat /\ p \in Nat /\ k \in Nat /\ q \in Nat
    BY <1>2
  <2>3. (n = k /\ p = q) \/ (n = q /\ p = k)
    BY <2>1, <2>2 DEF newEdge
  <2> QED
    BY <1>4, <2>1, <2>3
<1>8. n \in DOMAIN t /\ p \in live[n] => newEdge(n, p) \in Edges(t)
  BY <1>3 DEF Edges
<1> QED
  BY <1>1, <1>6, <1>7, <1>8

\* Neighbours from a truthful table are live peers.
LEMMA NeighborsLive ==
  ASSUME Steady, NEW t, Named(t), Truthful(t), NEW n \in Node
  PROVE  Neighbors(n, t) \subseteq live[n]
<1>1. Neighbors(n, t) \subseteq Node
  BY NamedEdges, NeighborsIn, KruskalCorrect DEF Neighbors
<1>2. ASSUME NEW p \in Neighbors(n, t) PROVE p \in live[n]
  <2>1. p \in Node /\ n \in Nat /\ p \in Nat
    BY <1>1, NodeAssumption
  <2>2. Edges(t) \in SUBSET (Nat \X Nat) /\ \A e \in Edges(t) : e[1] <= e[2]
    BY TruthfulEdges
  <2>3. newEdge(n, p) \in LeastForest(Edges(t))
    BY <2>1, <2>2, ForestNeighbors DEF Neighbors
  <2> QED
    BY <2>1, <2>3, TruthfulEdges DEF LeastForest
<1> QED
  BY <1>2

\* If n has its own entry, a table with more entries gives it no more neighbours.
LEMMA NeighborsFewer ==
  ASSUME Steady, NEW t, Named(t), Truthful(t), NEW u, Named(u), Truthful(u),
         DOMAIN t \subseteq DOMAIN u, NEW n \in Node, n \in DOMAIN t
  PROVE  Neighbors(n, u) \subseteq Neighbors(n, t)
<1>1. Node \subseteq Nat
  BY NodeAssumption
<1>2. /\ Edges(t) \in SUBSET (Nat \X Nat) /\ \A e \in Edges(t) : e[1] <= e[2]
      /\ Edges(u) \in SUBSET (Nat \X Nat) /\ \A e \in Edges(u) : e[1] <= e[2]
  BY TruthfulEdges
<1>3. Edges(t) \subseteq Edges(u)
  BY DEF Edges, Truthful
<1>4. Neighbors(n, u) \subseteq live[n] /\ live[n] \subseteq Node
  BY NeighborsLive, PeersIn DEF Steady
<1>5. ASSUME NEW p \in Neighbors(n, u) PROVE p \in Neighbors(n, t)
  <2>1. p \in live[n] /\ p \in Node /\ p \in Nat /\ n \in Nat
    BY <1>1, <1>4
  <2>2. newEdge(n, p) \in LeastForest(Edges(u))
    BY <1>2, <2>1, ForestNeighbors DEF Neighbors
  <2>3. newEdge(n, p) \in Edges(t)
    BY <2>1, TruthfulEdges
  <2>4. newEdge(n, p) \in LeastForest(Edges(t))
    BY <1>2, <1>3, <2>2, <2>3, ForestLess
  <2> QED
    BY <1>2, <2>1, <2>4, ForestNeighbors DEF Neighbors
<1> QED
  BY <1>5

\* Links are edges between nodes, finitely many.
LEMMA LinkEdges ==
  ASSUME MeshOK
  PROVE  link \in SUBSET (Nat \X Nat) /\ IsFiniteSet(link) /\ \A e \in link : e[1] <= e[2]
<1>1. Node \subseteq Nat /\ IsFiniteSet(Node)
  BY NodeAssumption
<1>2. \A n, m \in Node : newEdge(n, m) \in Node \X Node
  BY DEF newEdge
<1>3. link \subseteq Node \X Node /\ \A e \in link : e[1] <= e[2]
  <2> SUFFICES ASSUME NEW e \in link PROVE e \in Node \X Node /\ e[1] <= e[2]
    OBVIOUS
  <2>1. PICK n \in Node, m \in Node : e = newEdge(n, m)
    BY DEF MeshOK
  <2>2. n \in Nat /\ m \in Nat
    BY <1>1
  <2>3. newEdge(n, m)[1] <= newEdge(n, m)[2]
    BY <2>2, NewEdgeSame
  <2> QED
    BY <1>2, <2>1, <2>3
<1>4. IsFiniteSet(Node \X Node)
  BY <1>1, FS_Product
<1> QED
  BY <1>1, <1>3, <1>4, FS_Subset

\* From what it knows of the mesh, n never has fewer neighbours than it should ...
LEMMA NeighborsEnough ==
  ASSUME Steady, MeshOK, NEW t, Named(t), Truthful(t), NEW n \in Node, n \in DOMAIN t,
         Right(n) \subseteq live[n]
  PROVE  Right(n) \subseteq Neighbors(n, t)
<1> SUFFICES ASSUME NEW p \in Right(n) PROVE p \in Neighbors(n, t)
  OBVIOUS
<1>1. p \in live[n] /\ p \in Node /\ p \in Nat /\ n \in Nat
  BY PeersIn, NodeAssumption DEF Steady
<1>2. link \in SUBSET (Nat \X Nat) /\ \A e \in link : e[1] <= e[2]
  BY LinkEdges
<1>3. newEdge(n, p) \in LeastForest(link)
  BY <1>1, <1>2, ForestNeighbors DEF Right
<1>4. /\ Edges(t) \in SUBSET (Nat \X Nat) /\ \A e \in Edges(t) : e[1] <= e[2]
      /\ Edges(t) \subseteq link /\ newEdge(n, p) \in Edges(t)
  BY <1>1, TruthfulEdges
<1>5. newEdge(n, p) \in LeastForest(Edges(t))
  BY <1>2, <1>3, <1>4, ForestLess
<1> QED
  BY <1>1, <1>4, <1>5, ForestNeighbors DEF Neighbors

\* ... and none if it should have none.
LEMMA NeighborsNone ==
  ASSUME Steady, MeshOK, NEW t, Named(t), Truthful(t), NEW n \in Node, Right(n) = {}
  PROVE  Neighbors(n, t) = {}
<1> SUFFICES ASSUME NEW p \in Neighbors(n, t) PROVE FALSE
  OBVIOUS
<1>1. p \in live[n]
  BY NeighborsLive
<1>2. p \in Node /\ p \in Peers(n) /\ newEdge(n, p) \in link
  BY <1>1, SteadyLive, PeersIn DEF Steady
<1>3. p # n
  <2>1. AllPeers[n] \in [1..Len(AllPeers[n]) -> Node \ {n}]
    BY PeersAssumption, LenProperties
  <2> QED
    BY <1>2, <2>1 DEF Peers, Range
<1>4. link \in SUBSET (Nat \X Nat) /\ IsFiniteSet(link) /\ \A e \in link : e[1] <= e[2]
  BY LinkEdges
<1>5. n \in Nat /\ p \in Nat
  BY <1>2, NodeAssumption
<1>6. newEdge(n, p)[1] # newEdge(n, p)[2] /\ n \in {newEdge(n, p)[1], newEdge(n, p)[2]}
  BY <1>3, <1>5 DEF newEdge
<1> QED
  BY <1>2, <1>4, <1>5, <1>6, ForestTouches DEF Right

-----------------------------------------------------------------------------
\* Everything at the beginning is steady, and nothing known.
LEMMA InitCInv == Init => CInv
<1> SUFFICES ASSUME Init PROVE CInv
  OBVIOUS
<1>1. /\ nodes = [n \in Node |-> <<>>] /\ phase = [n \in Node |-> "idle"]
      /\ tree = [n \in Node |-> {}]
  BY DEF Init
<1>2. Steady
  BY DEF Init, Steady
<1>3. \A n \in Node : Remembers(n) /\ Ages(n) /\ Settled(n)
  BY <1>1 DEF Remembers, Truthful, Ages, Settled
<1> QED
  BY <1>2, <1>3, InitTInv DEF CInv

\* What holds of an agent holds until it takes a step.
LEMMA AgentStays ==
  ASSUME NEW m, Remembers(m), Ages(m), Settled(m),
         phase'[m] = phase[m], todo'[m] = todo[m], nodes'[m] = nodes[m], tree'[m] = tree[m],
         live' = live, link' = link, faults \subseteq faults'
  PROVE  Remembers(m)' /\ Ages(m)' /\ Settled(m)'
<1>1. Remembers(m)'
  BY DEF Remembers, Truthful, Peers
<1>2. Ages(m)'
  BY DEF Ages, Age, Left, Span
<1>3. Settled(m)'
  BY DEF Settled, Neighbors
<1> QED
  BY <1>1, <1>2, <1>3

\* A step of n's agent in a calm mesh.
LEMMA CalmStep ==
  ASSUME CInv, Calm, [Next]_vars, NEW n \in Node, faults \subseteq faults',
         link' = link, live' = live, up' = up, readable' = readable,
         \A m \in Node \ {n} : /\ phase'[m] = phase[m] /\ todo'[m] = todo[m]
                                /\ nodes'[m] = nodes[m] /\ tree'[m] = tree[m],
         Remembers(n)', Ages(n)', Settled(n)'
  PROVE  CInv'
<1>1. TInv'
  BY NextTInv DEF CInv
<1>2. Steady'
  BY DEF CInv, Steady, Peers
<1>3. \A m \in Node \ {n} : Remembers(m)' /\ Ages(m)' /\ Settled(m)'
  BY AgentStays DEF CInv
<1> QED
  BY <1>1, <1>2, <1>3 DEF CInv

\* The types the steps below need.
LEMMA Numbers ==
  ASSUME TInv, NEW n \in Node
  PROVE  /\ Span(n) \in Nat /\ Left(n) \in Nat /\ Interval \in Nat /\ Timeout \in Nat
         /\ \A k \in DOMAIN nodes[n] : nodes[n][k].age \in Nat
<1>1. AgentTypes
  BY DEF TInv, IInv
<1>2. Len(todo[n]) \in Nat /\ Len(AllPeers[n]) \in Nat
  BY <1>1, RestAll, LenProperties DEF AgentTypes
<1>3. \A x \in Nat : x * Timeout \in Nat
  BY TimeAssumption
<1>4. \A k \in DOMAIN nodes[n] : nodes[n][k].age \in Nat
  BY <1>1, TimeAssumption DEF AgentTypes, Table, Entry
<1> QED
  BY <1>2, <1>3, <1>4, TimeAssumption DEF Span, Left

\* Time makes no entry older than by as much as passes.
LEMMA AgedAtMost ==
  ASSUME NEW t, Table(t), NEW d \in Nat
  PROVE  /\ DOMAIN Aged(t, d) = DOMAIN t
         /\ \A k \in DOMAIN t : /\ Aged(t, d)[k].live = t[k].live
                                /\ Aged(t, d)[k].age \in Nat /\ Aged(t, d)[k].age <= t[k].age + d
BY TimeAssumption DEF Table, Entry, Aged

\* What n has to do with it stays the same as long as what its table says does.
LEMMA SettledSame ==
  ASSUME NEW n, Settled(n), live' = live, tree'[n] = tree[n],
         DOMAIN nodes'[n] = DOMAIN nodes[n],
         \A k \in DOMAIN nodes[n] : nodes'[n][k].live = nodes[n][k].live
  PROVE  Settled(n)'
<1>1. Edges(nodes'[n]) = Edges(nodes[n])
  BY DEF Edges
<1> QED
  BY <1>1 DEF Settled, Neighbors

\* A table that has grown leaves n settled.
LEMMA SettledMore ==
  ASSUME Steady, NEW n \in Node, Settled(n), live' = live, tree'[n] = tree[n],
         Named(nodes[n]), Truthful(nodes[n]), Named(nodes'[n]), Truthful(nodes'[n]),
         DOMAIN nodes[n] \subseteq DOMAIN nodes'[n]
  PROVE  Settled(n)'
<1>1. tree'[n] \subseteq live'[n]
  BY DEF Settled
<1>2. ASSUME tree'[n] # {}
      PROVE  n \in DOMAIN nodes'[n] /\ Neighbors(n, nodes'[n]) \subseteq tree'[n]
  <2>1. n \in DOMAIN nodes[n] /\ Neighbors(n, nodes[n]) \subseteq tree[n]
    BY <1>2 DEF Settled
  <2>2. Neighbors(n, nodes'[n]) \subseteq Neighbors(n, nodes[n])
    BY <2>1, NeighborsFewer
  <2> QED
    BY <2>1, <2>2
<1>3. Neighbors(n, nodes[n])' = Neighbors(n, nodes'[n])
  BY DEF Neighbors
<1> QED
  BY <1>1, <1>2, <1>3 DEF Settled

\* A device that cannot be read is more than a lost answer.
LEMMA CalmDevice ==
  ASSUME Calm', NEW device \in BOOLEAN, Succeeds(device, "device")
  PROVE  device /\ faults' = faults
BY DEF Calm, Succeeds

\* The tick up to the first poll.
LEMMA StartCInv ==
  ASSUME CInv, Calm, Calm', [Next]_vars, NEW n \in Node, TickLoad(n) \/ SetSelf(n)
  PROVE  CInv'
<1>1. /\ TInv /\ Steady /\ Remembers(n) /\ Ages(n) /\ Settled(n)
      /\ AgentTypes /\ Table(nodes[n]) /\ Named(nodes[n])
  BY DEF CInv, TInv, IInv, AgentTypes, AgentOK
<1>2. /\ faults' = faults /\ link' = link /\ live' = live /\ up' = up /\ readable' = readable
      /\ tree' = tree
      /\ \A m \in Node \ {n} : phase'[m] = phase[m] /\ todo'[m] = todo[m] /\ nodes'[m] = nodes[m]
  <2>1. faults' = faults
    BY CalmDevice DEF TickLoad, SetSelf
  <2> QED
    BY <1>1, <2>1 DEF TickLoad, SetSelf, env, AgentTypes
<1>3. /\ Span(n) \in Nat /\ Left(n) \in Nat /\ Interval \in Nat
      /\ \A k \in DOMAIN nodes[n] : nodes[n][k].age \in Nat
  BY <1>1, Numbers
<1>4. CASE TickLoad(n)
  <2> DEFINE t == Aged(nodes[n], Interval)
  <2>1. phase[n] = "idle" /\ phase'[n] = "self" /\ todo' = todo /\ nodes'[n] = t
    BY <1>1, <1>4 DEF TickLoad, AgentTypes, Steady
  <2>2. /\ DOMAIN t = DOMAIN nodes[n]
        /\ \A k \in DOMAIN nodes[n] : /\ t[k].live = nodes[n][k].live
                                      /\ t[k].age \in Nat /\ t[k].age <= nodes[n][k].age + Interval
    BY <1>1, <1>3, AgedAtMost
  <2> HIDE DEF t
  <2>3. Remembers(n)'
    BY <1>1, <1>2, <2>1, <2>2 DEF Remembers, Truthful, Peers
  <2>4. \A k \in DOMAIN nodes[n] \ {n} : "lost" \notin faults => t[k].age <= Interval + Span(n)
    BY <1>1, <1>3, <2>1, <2>2 DEF Ages, Age
  <2>5. Ages(n)'
    BY <1>2, <2>1, <2>2, <2>4 DEF Ages, Age, Span
  <2>6. Settled(n)'
    BY <1>1, <1>2, <2>1, <2>2, SettledSame
  <2> QED
    BY <1>2, <2>3, <2>5, <2>6, CalmStep
<1>5. CASE SetSelf(n)
  <2> DEFINE info == computeSelfInfo(n, TRUE)
             t == Set(nodes[n], info)
  <2>1. /\ phase[n] = "self" /\ phase'[n] = "poll" /\ todo'[n] = AllPeers[n] /\ nodes'[n] = t
    <3>1. PICK device \in BOOLEAN : /\ Succeeds(device, "device")
                                    /\ nodes' = [nodes EXCEPT ![n] = Set(@, computeSelfInfo(n, device))]
      BY <1>5 DEF SetSelf
    <3>2. device = TRUE
      BY <3>1, CalmDevice
    <3> QED
      BY <1>1, <1>5, <3>1, <3>2 DEF SetSelf, AgentTypes
  <2>2. info = [ip |-> n, live |-> live[n]] /\ live[n] \in SUBSET Node
    BY <1>1 DEF computeSelfInfo, Steady, AgentTypes
  <2>3. Named(t)
    BY <1>1, NamedSet
  <2> HIDE DEF info
  <2>4. /\ DOMAIN t = DOMAIN nodes[n] \cup {n} /\ t[n].live = live[n]
        /\ \A k \in DOMAIN nodes[n] : k # n => t[k] = nodes[n][k]
    BY <2>2 DEF Set
  <2> HIDE DEF t
  <2>5. Truthful(t)
    BY <1>1, <2>4 DEF Remembers, Truthful
  <2>6. Remembers(n)'
    BY <1>1, <1>2, <2>1, <2>4, <2>5 DEF Remembers, Truthful, Peers
  <2>7. Left(n)' = Span(n) /\ Span(n)' = Span(n)
    BY <2>1 DEF Left, Span
  <2>8. \A k \in DOMAIN nodes[n] \ {n} :
          /\ k \in Range(AllPeers[n])
          /\ "lost" \notin faults => nodes[n][k].age + Span(n) <= Interval + 2 * Span(n)
    BY <1>1, <1>3, <2>1 DEF Remembers, Peers, Ages, Age
  <2>9. Ages(n)'
    BY <1>2, <1>3, <2>1, <2>4, <2>7, <2>8 DEF Ages, Age
  <2>10. Settled(n)'
    <3>1. Named(nodes'[n]) /\ Truthful(nodes'[n]) /\ DOMAIN nodes[n] \subseteq DOMAIN nodes'[n]
      BY <2>1, <2>3, <2>4, <2>5
    <3>2. Truthful(nodes[n]) /\ tree'[n] = tree[n]
      BY <1>1, <1>2 DEF Remembers
    <3> QED
      BY <1>1, <1>2, <3>1, <3>2, SettledMore
  <2> QED
    BY <1>2, <2>6, <2>9, <2>10, CalmStep
<1> QED
  BY <1>4, <1>5

\* Polling the next peer: what is true of the rest of them.
LEMMA PolledPeers ==
  ASSUME NEW s \in Seq(Node), s # <<>>
  PROVE  \A k : /\ k \in Range(Tail(s)) => k \in Range(s)
                /\ k \in Range(s) => k = Head(s) \/ k \in Range(Tail(s))
<1>1. /\ Head(s) = s[1] /\ Tail(s) \in Seq(Node) /\ Len(Tail(s)) = Len(s) - 1
      /\ \A i \in 1..Len(Tail(s)) : Tail(s)[i] = s[i + 1]
  BY HeadTailProperties
<1>2. Len(s) \in Nat /\ Len(Tail(s)) \in Nat /\ DOMAIN s = 1..Len(s) /\ DOMAIN Tail(s) = 1..Len(Tail(s))
  BY <1>1, LenProperties
<1>3. \A k \in Range(Tail(s)) : k \in Range(s)
  <2> SUFFICES ASSUME NEW i \in 1..Len(Tail(s)) PROVE Tail(s)[i] \in Range(s)
    BY <1>2 DEF Range
  <2>1. i + 1 \in 1..Len(s)
    BY <1>1, <1>2
  <2> QED
    BY <1>1, <1>2, <2>1 DEF Range
<1>4. \A k \in Range(s) : k = Head(s) \/ k \in Range(Tail(s))
  <2> SUFFICES ASSUME NEW i \in 1..Len(s), i # 1 PROVE s[i] \in Range(Tail(s))
    BY <1>1, <1>2 DEF Range
  <2>1. i - 1 \in 1..Len(Tail(s)) /\ Tail(s)[i - 1] = s[i]
    BY <1>1, <1>2
  <2> QED
    BY <1>2, <2>1 DEF Range
<1> QED
  BY <1>3, <1>4

\* A poll that is answered, has no chance, or is the one that is lost.
LEMMA PollCInv ==
  ASSUME CInv, Calm, Calm', [Next]_vars, NEW n \in Node, FetchInfo(n) \/ FetchRefused(n) \/ FetchTimeout(n)
  PROVE  CInv'
<1> DEFINE m == Head(todo[n])
           rest == Tail(todo[n])
<1>1. /\ TInv /\ Steady /\ Remembers(n) /\ Ages(n) /\ Settled(n)
      /\ AgentTypes /\ Table(nodes[n]) /\ Named(nodes[n]) /\ Rest(todo[n], AllPeers[n])
  BY DEF CInv, TInv, IInv, AgentTypes, AgentOK
<1>2. /\ todo[n] \in Seq(Node) /\ todo[n] # <<>> /\ m \in Node /\ m \in Range(todo[n])
      /\ phase[n] = "poll" /\ phase' = phase
      /\ todo' = [todo EXCEPT ![n] = Tail(@)] /\ tree' = tree
      /\ link' = link /\ live' = live /\ up' = up /\ readable' = readable
  <2>1. /\ todo[n] \in Seq(Node) /\ todo[n] # <<>>
        /\ phase[n] = "poll" /\ phase' = phase
        /\ todo' = [todo EXCEPT ![n] = Tail(@)] /\ tree' = tree
        /\ link' = link /\ live' = live /\ up' = up /\ readable' = readable
    BY <1>1 DEF FetchInfo, FetchRefused, FetchTimeout, Polling, Polled, env, AgentTypes
  <2>2. m \in Node /\ m \in Range(todo[n])
    BY <2>1, HeadTailProperties, LenProperties, EmptySeq DEF Range
  <2> QED
    BY <2>1, <2>2
<1>3. todo'[n] = rest /\ \A k \in Node \ {n} : todo'[k] = todo[k]
  BY <1>1, <1>2 DEF AgentTypes
<1>4. \A k : /\ k \in Range(rest) => k \in Range(todo[n])
             /\ k \in Range(todo[n]) => k = m \/ k \in Range(rest)
  BY <1>2, PolledPeers
<1>5. /\ Span(n) \in Nat /\ Left(n) \in Nat /\ Interval \in Nat /\ Timeout \in Nat
      /\ \A k \in DOMAIN nodes[n] : nodes[n][k].age \in Nat
  BY <1>1, Numbers
<1>6. Left(n)' \in Nat /\ Left(n)' + Timeout = Left(n) /\ Span(n)' = Span(n)
  <2>1. Len(rest) * Timeout + Timeout = Len(todo[n]) * Timeout /\ Len(rest) * Timeout \in Nat
    BY <1>2, TailShorter
  <2> QED
    BY <1>3, <2>1 DEF Left, Span
<1>7. m \in Peers(n) /\ m # n
  <2>1. AllPeers[n] \in [1..Len(AllPeers[n]) -> Node \ {n}] /\ Len(AllPeers[n]) \in Nat
    BY PeersAssumption, LenProperties
  <2>2. PICK k \in 1..Len(AllPeers[n]) : todo[n] = SubSeq(AllPeers[n], k, Len(AllPeers[n]))
    BY <1>1, <1>2 DEF Rest
  <2>3. m = AllPeers[n][k]
    BY <2>1, <2>2, RestAll, HeadTailOfSubSeq
  <2> QED
    BY <2>1, <2>3 DEF Peers, Range
<1> HIDE DEF m, rest
<1>8. CASE FetchInfo(n)
  <2>1. PICK device \in BOOLEAN, delay \in Delays(m) :
          /\ Succeeds(device, "device")
          /\ nodes' = [nodes EXCEPT ![n] = Set(Aged(@, delay), computeSelfInfo(m, device))]
    BY <1>8 DEF FetchInfo, m
  <2> DEFINE info == computeSelfInfo(m, TRUE)
             old == Aged(nodes[n], delay)
             t == Set(old, info)
  <2>2. nodes'[n] = t /\ (\A k \in Node \ {n} : nodes'[k] = nodes[k]) /\ faults' = faults /\ newEdge(n, m) \in link
    <3>1. device = TRUE /\ faults' = faults
      BY <2>1, CalmDevice
    <3> QED
      BY <1>1, <1>8, <2>1, <3>1 DEF FetchInfo, AgentTypes, m
  <2>3. info = [ip |-> m, live |-> live[m]] /\ live[m] \in SUBSET Node
    BY <1>1, <1>2 DEF computeSelfInfo, Steady, AgentTypes
  <2>4. /\ DOMAIN old = DOMAIN nodes[n] /\ Named(old) /\ delay <= Timeout /\ delay \in Nat
        /\ \A k \in DOMAIN nodes[n] : /\ old[k].live = nodes[n][k].live
                                      /\ old[k].age \in Nat /\ old[k].age <= nodes[n][k].age + delay
    BY <1>1, <1>5, DelayAtMost, AgedAtMost, NamedAged
  <2>5. Named(t)
    BY <1>1, <1>2, <2>4, NamedSet
  <2> HIDE DEF old, info
  <2>6. /\ DOMAIN t = DOMAIN nodes[n] \cup {m} /\ t[m].live = live[m] /\ t[m].age = 0
         /\ \A k \in DOMAIN nodes[n] : k # m => t[k] = old[k]
    BY <2>3, <2>4 DEF Set
  <2> HIDE DEF t
  <2>7. Truthful(t)
    BY <1>1, <1>2, <2>4, <2>6 DEF Remembers, Truthful
  <2>8. Remembers(n)'
    BY <1>1, <1>2, <1>7, <2>2, <2>6, <2>7 DEF Remembers, Truthful, Peers
  <2>9. ASSUME NEW k \in DOMAIN t \ {n} PROVE Age(n, k)'
    <3>1. CASE k = m
      <4>1. t[k].age + Left(n)' <= Span(n)
        BY <1>1, <1>2, <1>5, <1>6, <2>6, <3>1 DEF Ages
      <4>2. t[k].age + Left(n)' <= Interval + 2 * Span(n)
        BY <1>5, <1>6, <2>6, <3>1, <4>1
      <4> QED
        BY <1>2, <1>6, <2>2, <4>1, <4>2 DEF Age
    <3>2. CASE k # m
      <4>1. /\ k \in DOMAIN nodes[n] \ {n} /\ nodes[n][k].age \in Nat
            /\ t[k].age \in Nat /\ t[k].age <= nodes[n][k].age + Timeout
            /\ k \in Range(rest) <=> k \in Range(todo[n])
        BY <1>4, <1>5, <2>4, <2>6, <2>9, <3>2
      <4>2. Age(n, k)
        BY <1>1, <4>1 DEF Ages
      <4>3. /\ nodes[n][k].age + Left(n) <= Interval + 2 * Span(n) => t[k].age + Left(n)' <= Interval + 2 * Span(n)
            /\ nodes[n][k].age + Left(n) <= Span(n) => t[k].age + Left(n)' <= Span(n)
        BY <1>5, <1>6, <4>1
      <4> QED
        BY <1>2, <1>3, <1>6, <2>2, <4>1, <4>2, <4>3 DEF Age
    <3> QED
      BY <3>1, <3>2
  <2>10. Left(n)' <= Span(n)'
    BY <1>1, <1>2, <1>5, <1>6 DEF Ages
  <2>11. Ages(n)'
    BY <2>2, <2>9, <2>10 DEF Ages
  <2>12. Settled(n)'
    <3>1. Named(nodes'[n]) /\ Truthful(nodes'[n]) /\ DOMAIN nodes[n] \subseteq DOMAIN nodes'[n]
      BY <2>2, <2>5, <2>6, <2>7
    <3>2. Truthful(nodes[n]) /\ tree'[n] = tree[n]
      BY <1>1, <1>2 DEF Remembers
    <3> QED
      BY <1>1, <1>2, <3>1, <3>2, SettledMore
  <2> QED
    BY <1>2, <1>3, <2>2, <2>8, <2>11, <2>12, CalmStep
<1>9. CASE FetchRefused(n)
  BY <1>1, <1>2, <1>9 DEF FetchRefused, Steady, m
<1>10. CASE FetchTimeout(n)
  <2> DEFINE t == Aged(nodes[n], Timeout)
  <2>1. nodes'[n] = t /\ (\A k \in Node \ {n} : nodes'[k] = nodes[k]) /\ faults \subseteq faults'
    BY <1>1, <1>10 DEF FetchTimeout, Succeeds, AgentTypes
  <2>2. /\ DOMAIN t = DOMAIN nodes[n]
        /\ \A k \in DOMAIN nodes[n] : /\ t[k].live = nodes[n][k].live
                                      /\ t[k].age \in Nat /\ t[k].age <= nodes[n][k].age + Timeout
    BY <1>1, <1>5, AgedAtMost
  <2> HIDE DEF t
  <2>3. Remembers(n)'
    BY <1>1, <1>2, <2>1, <2>2 DEF Remembers, Truthful, Peers
  <2>4. ASSUME NEW k \in DOMAIN t \ {n} PROVE Age(n, k)'
    <3>1. k \in DOMAIN nodes[n] \ {n} /\ Age(n, k) /\ newEdge(n, k) \in link
      BY <1>1, <2>2, <2>4 DEF Ages, Remembers
    <3>2. /\ nodes[n][k].age + Left(n) <= Interval + 2 * Span(n) => t[k].age + Left(n)' <= Interval + 2 * Span(n)
          /\ nodes[n][k].age + Left(n) <= Span(n) => t[k].age + Left(n)' <= Span(n)
      BY <1>5, <1>6, <2>2, <3>1
    <3>3. CASE k = m
      <4>1. "lost" \notin faults /\ "lost" \in faults'
        BY <1>10, <3>1, <3>3 DEF FetchTimeout, Succeeds, m
      <4>2. nodes[n][k].age + Left(n) <= Interval + 2 * Span(n)
        BY <1>2, <3>1, <3>3, <4>1 DEF Age
      <4> QED
        BY <1>6, <2>1, <3>2, <4>1, <4>2 DEF Age
    <3>4. CASE k # m
      <4>1. k \in Range(rest) <=> k \in Range(todo[n])
        BY <1>4, <3>4
      <4> QED
        BY <1>2, <1>3, <1>6, <2>1, <3>1, <3>2, <4>1 DEF Age
    <3> QED
      BY <3>3, <3>4
  <2>5. Left(n)' <= Span(n)'
    BY <1>1, <1>2, <1>5, <1>6 DEF Ages
  <2>6. Ages(n)'
    BY <2>1, <2>4, <2>5 DEF Ages
  <2>7. Settled(n)'
    BY <1>1, <1>2, <2>1, <2>2, SettledSame
  <2> QED
    BY <1>2, <1>3, <2>1, <2>3, <2>6, <2>7, CalmStep
<1> QED
  BY <1>8, <1>9, <1>10

\* What goes wrong stays gone wrong, and only n's own tick changes its tree in a calm mesh.
LEMMA CalmTree ==
  ASSUME [Next]_vars
  PROVE  /\ faults \subseteq faults'
         /\ CInv /\ Calm' => \A n \in Node : tree'[n] # tree[n] => Compute(n)
<1>1. ASSUME NEW n \in Node, Compute(n)
      PROVE  faults' = faults /\ tree' = [tree EXCEPT ![n] = LocalNeighbors(n, ComputeMST(DOMAIN PurgeStale(nodes[n], n), Edges(PurgeStale(nodes[n], n))))]
  BY <1>1 DEF Compute
<1>2. ASSUME NEW n \in Node, TickLoad(n) \/ SetSelf(n) \/ FetchInfo(n) \/ FetchRefused(n) \/ FetchTimeout(n)
      PROVE  faults \subseteq faults' /\ tree' = tree
  BY <1>2 DEF TickLoad, SetSelf, FetchInfo, FetchRefused, FetchTimeout, Succeeds, Polled
<1>3. ASSUME NEW n \in Node, Crash(n) PROVE faults \subseteq faults' /\ ~Calm'
  BY <1>3 DEF Crash, Fault, Calm
<1>4. ASSUME NEW n \in Node, Unreadable(n) \/ Restart(n) \/ Repaired(n) PROVE faults \subseteq faults' /\ tree' = tree
  BY <1>4 DEF Unreadable, Restart, Repaired, Fault, agent
<1>5. ASSUME NEW n \in Node, NEW m \in Node, Join(n, m) PROVE faults \subseteq faults' /\ tree' = tree
  BY <1>5 DEF Join, Fault, agent
<1>6. ASSUME NEW e \in link, Cut(e) PROVE faults \subseteq faults' /\ tree' = tree
  BY <1>6 DEF Cut, Fault, agent
<1>7. ASSUME NEW n, NEW m, Handshake(n, m) \/ Expire(n, m) PROVE faults \subseteq faults' /\ tree' = tree
  BY <1>7 DEF Handshake, Expire, agent
<1>8. ASSUME UNCHANGED vars PROVE faults \subseteq faults' /\ tree' = tree
  BY <1>8 DEF vars, agent
<1>9. faults \subseteq faults'
  BY <1>1, <1>2, <1>3, <1>4, <1>5, <1>6, <1>7, <1>8 DEF Next, Tick, WireGuard, Recovery
<1>10. ASSUME Calm', NEW n \in Node, tree'[n] # tree[n], CInv PROVE Compute(n)
  <2>1. PICK m \in Node : Compute(m)
    BY <1>2, <1>3, <1>4, <1>5, <1>6, <1>7, <1>8, <1>10 DEF Next, Tick, WireGuard, Recovery
  <2>2. DOMAIN tree = Node
    BY <1>10 DEF CInv, TInv, MeshOK
  <2>3. m = n
    BY <1>1, <1>10, <2>1, <2>2
  <2> QED
    BY <2>1, <2>3
<1> QED
  BY <1>9, <1>10

\* The end of a tick: the tree is what the table gives.
LEMMA EndCInv ==
  ASSUME CInv, Calm, [Next]_vars, NEW n \in Node, Compute(n)
  PROVE  CInv'
<1> DEFINE known == PurgeStale(nodes[n], n)
<1>1. /\ TInv /\ Steady /\ Remembers(n) /\ Ages(n) /\ MeshOK
      /\ AgentTypes /\ Table(nodes[n]) /\ Named(nodes[n])
  BY DEF CInv, TInv, IInv, AgentTypes, AgentOK
<1>2. /\ phase[n] = "poll" /\ todo[n] = <<>> /\ todo' = todo /\ phase'[n] = "idle"
      /\ faults' = faults /\ link' = link /\ live' = live /\ up' = up /\ readable' = readable
      /\ nodes'[n] = known
      /\ \A m \in Node \ {n} : phase'[m] = phase[m] /\ nodes'[m] = nodes[m]
  BY <1>1 DEF Compute, AgentTypes, env
<1>3. \A k \in DOMAIN known : k \in DOMAIN nodes[n] /\ known[k] = nodes[n][k]
  BY <1>1, PurgeKeeps
<1>4. n \in DOMAIN known
  BY <1>1, <1>2 DEF Remembers, PurgeStale, Restrict
<1>5. tree'[n] = Neighbors(n, known) /\ \A m \in Node \ {n} : tree'[m] = tree[m]
  <2>1. ComputeMST(DOMAIN known, Edges(known)) = LeastForest(Edges(known))
    BY <1>1, NamedPurged, NamedEdges, KruskalCorrect
  <2>2. tree' = [tree EXCEPT ![n] = LocalNeighbors(n, ComputeMST(DOMAIN known, Edges(known)))]
    BY DEF Compute
  <2> HIDE DEF known
  <2> QED
    BY <1>1, <2>1, <2>2 DEF MeshOK, Neighbors
<1>6. Named(known)
  BY <1>1, NamedPurged
<1> HIDE DEF known
<1>7. Truthful(known)
  BY <1>1, <1>3 DEF Remembers, Truthful
<1>8. Remembers(n)'
  BY <1>1, <1>2, <1>3, <1>7 DEF Remembers, Truthful, Peers
<1>9. ASSUME NEW k \in DOMAIN known \ {n} PROVE "lost" \notin faults => known[k].age <= Span(n)
  <2>1. Age(n, k) /\ Range(<<>>) = {} /\ known[k] = nodes[n][k]
    BY <1>1, <1>3, <1>9 DEF Ages, Range
  <2>2. Span(n) \in Nat /\ nodes[n][k].age \in Nat
    BY <1>1, <1>3, <1>9, Numbers
  <2>3. Left(n) = 0
    BY <1>2, TimeAssumption DEF Left
  <2> QED
    BY <1>2, <2>1, <2>2, <2>3 DEF Age
<1>10. Ages(n)'
  BY <1>2, <1>9 DEF Ages, Age, Span
<1>11. Settled(n)'
  <2>1. Neighbors(n, known) \subseteq live[n]
    BY <1>1, <1>6, <1>7, NeighborsLive
  <2> QED
    BY <1>2, <1>4, <1>5, <2>1 DEF Settled, Neighbors
<1> QED
  BY <1>2, <1>5, <1>8, <1>10, <1>11, CalmStep

\* CInv is inductive.
LEMMA NextCInv == CInv /\ [Next]_vars => CInv'
<1> SUFFICES ASSUME CInv, [Next]_vars PROVE CInv'
  OBVIOUS
<1>1. TInv'
  BY NextTInv DEF CInv
<1> SUFFICES ASSUME Calm' PROVE CInv'
  BY <1>1 DEF CInv
<1>2. Calm /\ Steady /\ \A n \in Node : Remembers(n) /\ Ages(n) /\ Settled(n)
  BY CalmTree DEF Calm, CInv
<1>3. ASSUME UNCHANGED vars PROVE CInv'
  <2>1. Steady'
    BY <1>2, <1>3 DEF Steady, vars, env, Peers
  <2>2. \A n \in Node : Remembers(n)' /\ Ages(n)' /\ Settled(n)'
    BY <1>2, <1>3, AgentStays DEF vars, env, agent
  <2> QED
    BY <1>1, <2>1, <2>2 DEF CInv
<1>4. ASSUME NEW n \in Node, NEW m \in Peers(n) \ live[n], Handshake(n, m) PROVE CInv'
  BY <1>2, <1>4 DEF Handshake, Steady
<1>5. ASSUME NEW n \in Node, NEW m \in live[n], Expire(n, m) PROVE CInv'
  BY <1>2, <1>5 DEF Expire, Steady
<1>6. ASSUME NEW n \in Node, Crash(n) \/ Unreadable(n) PROVE CInv'
  BY <1>6 DEF Crash, Unreadable, Fault, Calm
<1>7. ASSUME NEW n \in Node, NEW m \in Node, Join(n, m) PROVE CInv'
  BY <1>7 DEF Join, Fault, Calm
<1>8. ASSUME NEW e \in link, Cut(e) PROVE CInv'
  BY <1>8 DEF Cut, Fault, Calm
<1>9. ASSUME Recovery PROVE CInv'
  BY <1>2, <1>9 DEF Recovery, Steady
<1>10. ASSUME NEW n \in Node, Tick(n) PROVE CInv'
  BY <1>2, <1>10, StartCInv, PollCInv, EndCInv DEF Tick
<1> QED
  BY <1>3, <1>4, <1>5, <1>6, <1>7, <1>8, <1>9, <1>10 DEF Next, WireGuard

(***************************************************************************)
(* topology.go, PurgeStale: in every mesh in which nothing but one answer  *)
(* gets lost, an agent that has its neighbours right keeps them, if two    *)
(* ticks that wait for every peer fit into StaleAfter: the entry of the    *)
(* peer whose answer is lost lasts until it is renewed.                    *)
(***************************************************************************)
THEOREM LossAlwaysHarmless == Spec => LossHarmless
<1>1. ASSUME CInv, [Next]_vars, Calm', NEW n \in watch,
             Interval + 2 * Len(AllPeers[n]) * Timeout <= StaleAfter,
             tree'[n] # tree[n], tree[n] = Right(n)
      PROVE  FALSE
  <2> DEFINE known == PurgeStale(nodes[n], n)
  <2>1. n \in Node
    BY <1>1 DEF CInv, TInv, MeshOK
  <2>2. Compute(n)
    BY <1>1, <2>1, CalmTree
  <2>3. /\ TInv /\ Steady /\ Remembers(n) /\ Ages(n) /\ Settled(n) /\ MeshOK
        /\ Table(nodes[n]) /\ Named(nodes[n]) /\ Truthful(nodes[n])
    BY <1>1, <2>1, CalmTree DEF CInv, Calm, TInv, IInv, AgentTypes, AgentOK, Remembers
  <2>4. \A k \in DOMAIN nodes[n] : k \in DOMAIN known
    <3> SUFFICES ASSUME NEW k \in DOMAIN nodes[n], k # n PROVE k \in DOMAIN known
      BY DEF PurgeStale, Restrict
    <3>1. phase[n] = "poll" /\ todo[n] = <<>> /\ Range(<<>>) = {}
      BY <2>2 DEF Compute, Range
    <3>2. /\ Span(n) \in Nat /\ nodes[n][k].age \in Nat /\ Interval \in Nat /\ Left(n) = 0
      BY <2>1, <2>3, <3>1, Numbers, TimeAssumption DEF Left
    <3>3. nodes[n][k].age + Left(n) <= Interval + 2 * Span(n)
      BY <2>3, <3>1 DEF Ages, Age
    <3>4. 2 * Len(AllPeers[n]) * Timeout = 2 * Span(n)
      <4>1. Len(AllPeers[n]) \in Nat
        BY <2>1, RestAll, LenProperties
      <4>2. \A x \in Nat : 2 * x * Timeout = 2 * (x * Timeout)
        BY TimeAssumption
      <4> QED
        BY <4>1, <4>2 DEF Span
    <3>5. nodes[n][k].age <= StaleAfter
      BY <1>1, <3>2, <3>3, <3>4, TimeAssumption
    <3> QED
      BY <2>3, <3>5, PurgeKeeps
  <2>5. \A k \in DOMAIN known : k \in DOMAIN nodes[n] /\ known[k] = nodes[n][k]
    BY <2>3, PurgeKeeps
  <2>6. Edges(known) = Edges(nodes[n])
    BY <2>4, <2>5 DEF Edges
  <2>7. tree'[n] = Neighbors(n, nodes[n])
    <3>1. ComputeMST(DOMAIN known, Edges(known)) = LeastForest(Edges(known))
      BY <2>3, NamedPurged, NamedEdges, KruskalCorrect
    <3>2. tree' = [tree EXCEPT ![n] = LocalNeighbors(n, ComputeMST(DOMAIN known, Edges(known)))]
      BY <2>2 DEF Compute
    <3> HIDE DEF known
    <3> QED
      BY <2>1, <2>3, <2>6, <3>1, <3>2 DEF MeshOK, Neighbors
  <2>8. CASE tree[n] = {}
    BY <1>1, <2>1, <2>3, <2>7, <2>8, NeighborsNone
  <2>9. CASE tree[n] # {}
    <3>1. /\ n \in DOMAIN nodes[n] /\ Neighbors(n, nodes[n]) \subseteq tree[n]
          /\ tree[n] \subseteq live[n]
      BY <2>3, <2>9 DEF Settled
    <3>2. Right(n) \subseteq Neighbors(n, nodes[n])
      BY <1>1, <2>1, <2>3, <3>1, NeighborsEnough
    <3>3. \A p : p \in Neighbors(n, nodes[n]) <=> p \in tree[n]
      BY <1>1, <3>1, <3>2
    <3>4. Neighbors(n, nodes[n]) = tree[n]
      <4> DEFINE A == Neighbors(n, nodes[n])
                 B == tree[n]
      <4>1. \A p : p \in A <=> p \in B
        BY <3>3
      <4> HIDE DEF A, B
      <4>2. A = B
        BY <4>1
      <4> QED
        BY <4>2 DEF A, B
    <3> QED
      BY <1>1, <2>7, <3>4
  <2> QED
    BY <2>8, <2>9
<1>2. CInv /\ [Next]_vars =>
        [faults' \subseteq {"lost"} =>
           \A n \in {m \in watch : Interval + 2 * Len(AllPeers[m]) * Timeout <= StaleAfter} :
             tree'[n] # tree[n] => tree[n] # Right(n)]_vars
  BY <1>1 DEF Calm
<1> QED
  BY <1>2, InitCInv, NextCInv, PTL DEF Spec, LossHarmless

-----------------------------------------------------------------------------
(***************************************************************************)
(* Between ticks the tree is that of the table, which only grows older;    *)
(* and the filter is that of the tree, at all times, though it is applied  *)
(* only when the tree changes: but for an empty tree, that of an agent     *)
(* that has just been started, whatever filter FRR has.                    *)
(***************************************************************************)
Acted(n) ==
  /\ phase[n] = "idle" => tree[n] = Neighbors(n, nodes[n])
  /\ tree[n] # {} => blocked[n] = Peers(n) \ tree[n]

AInv == TInv /\ \A n \in Node : Acted(n)

\* Without entries there are no neighbours.
LEMMA NoNeighbors == \A n : Neighbors(n, <<>>) = {}
<1>1. Edges(<<>>) = {}
  BY DEF Edges
<1>2. LeastForest({}) = {}
  BY DEF LeastForest
<1> QED
  BY <1>1, <1>2 DEF Neighbors, LocalNeighbors

\* At the beginning there is neither.
LEMMA InitAInv == Init => AInv
<1> SUFFICES ASSUME Init, NEW n \in Node PROVE Acted(n)
  BY InitTInv DEF AInv
<1>1. nodes[n] = <<>> /\ tree[n] = {}
  BY DEF Init
<1> QED
  BY <1>1, NoNeighbors DEF Acted

\* Age does not matter to the edges.
LEMMA AgedEdges ==
  ASSUME NEW t, Table(t), NEW d
  PROVE  Edges(Aged(t, d)) = Edges(t)
<1>1. DOMAIN Aged(t, d) = DOMAIN t /\ \A k \in DOMAIN t : Aged(t, d)[k].live = t[k].live
  BY DEF Aged, Table, Entry
<1> QED
  BY <1>1 DEF Edges

\* A step of n's agent leaves the others alone.
LEMMA OneActed ==
  ASSUME AInv, [Next]_vars, NEW n \in Node, Acted(n)',
         \A m \in Node \ {n} : /\ phase'[m] = phase[m] /\ nodes'[m] = nodes[m]
                               /\ tree'[m] = tree[m] /\ blocked'[m] = blocked[m]
  PROVE  AInv'
<1>1. TInv'
  BY NextTInv DEF AInv
<1>2. \A m \in Node \ {n} : Acted(m)'
  BY DEF AInv, Acted, Neighbors, Peers
<1> QED
  BY <1>1, <1>2 DEF AInv

\* A tick up to its last poll: the table changes, but only while the agent is not idle.
LEMMA TickAInv ==
  ASSUME AInv, [Next]_vars, NEW n \in Node,
         TickLoad(n) \/ SetSelf(n) \/ FetchInfo(n) \/ FetchRefused(n) \/ FetchTimeout(n)
  PROVE  AInv'
<1>1. AgentTypes /\ Table(nodes[n]) /\ Acted(n)
  BY DEF AInv, TInv, IInv, AgentTypes
<1>2. tree' = tree /\ blocked' = blocked
  BY DEF TickLoad, SetSelf, FetchInfo, FetchRefused, FetchTimeout, Polled
<1>3. CASE TickLoad(n)
  <2>1. /\ phase[n] = "idle" /\ nodes'[n] = Aged(nodes[n], Interval)
        /\ \A m \in Node \ {n} : phase'[m] = phase[m] /\ nodes'[m] = nodes[m]
    BY <1>1, <1>3 DEF TickLoad, AgentTypes
  <2>2. Edges(nodes'[n]) = Edges(nodes[n])
    BY <1>1, <2>1, AgedEdges
  <2>3. Acted(n)'
    BY <1>1, <1>2, <2>1, <2>2 DEF Acted, Neighbors, Peers
  <2> QED
    BY <1>2, <2>1, <2>3, OneActed
<1>4. CASE SetSelf(n)
  <2>1. phase'[n] = "poll" /\ \A m \in Node \ {n} : phase'[m] = phase[m] /\ nodes'[m] = nodes[m]
    BY <1>1, <1>4 DEF SetSelf, AgentTypes
  <2>2. Acted(n)'
    BY <1>1, <1>2, <2>1 DEF Acted, Peers
  <2> QED
    BY <1>2, <2>1, <2>2, OneActed
<1>5. CASE FetchInfo(n) \/ FetchRefused(n) \/ FetchTimeout(n)
  <2>1. phase[n] = "poll" /\ phase' = phase
    BY <1>5 DEF FetchInfo, FetchRefused, FetchTimeout, Polling, Polled
  <2>2. \A m \in Node \ {n} : nodes'[m] = nodes[m]
    BY <1>1, <1>5 DEF FetchInfo, FetchRefused, FetchTimeout, AgentTypes
  <2>3. Acted(n)'
    BY <1>1, <1>2, <2>1 DEF Acted, Peers
  <2> QED
    BY <1>2, <2>1, <2>2, <2>3, OneActed
<1> QED
  BY <1>3, <1>4, <1>5

\* The end of a tick: if the neighbours are those of before, the filter is already theirs.
LEMMA ComputeAInv ==
  ASSUME AInv, [Next]_vars, NEW n \in Node, Compute(n)
  PROVE  AInv'
<1> DEFINE known == PurgeStale(nodes[n], n)
           ips == Neighbors(n, known)
<1>1. /\ AgentTypes /\ MeshOK /\ Named(nodes[n]) /\ Acted(n)
  BY DEF AInv, TInv, IInv, AgentOK
<1>2. LocalNeighbors(n, ComputeMST(DOMAIN known, Edges(known))) = ips
  <2>1. ComputeMST(DOMAIN known, Edges(known)) = LeastForest(Edges(known))
    BY <1>1, NamedPurged, NamedEdges, KruskalCorrect
  <2> QED
    BY <2>1 DEF Neighbors
<1>3. /\ nodes' = [nodes EXCEPT ![n] = known] /\ phase' = [phase EXCEPT ![n] = "idle"]
      /\ tree' = [tree EXCEPT ![n] = ips]
      /\ blocked' = [blocked EXCEPT ![n] = IF ips = tree[n] THEN @ ELSE Blocked(n, ips)]
  BY <1>2 DEF Compute
<1> HIDE DEF known
<1>4. /\ nodes'[n] = known /\ tree'[n] = Neighbors(n, known)
      /\ \A m \in Node \ {n} : /\ phase'[m] = phase[m] /\ nodes'[m] = nodes[m]
                               /\ tree'[m] = tree[m] /\ blocked'[m] = blocked[m]
  BY <1>1, <1>3 DEF AgentTypes, MeshOK
<1>5. blocked'[n] = IF tree'[n] = tree[n] THEN blocked[n] ELSE Peers(n) \ tree'[n]
  BY <1>1, <1>3, <1>4 DEF MeshOK, Blocked
<1>6. Acted(n)'
  BY <1>1, <1>4, <1>5 DEF Acted, Neighbors, Peers
<1> QED
  BY <1>4, <1>6, OneActed

\* An agent that ends forgets its tree with its table.
LEMMA CrashAInv ==
  ASSUME AInv, [Next]_vars, NEW n \in Node, Crash(n)
  PROVE  AInv'
<1>1. AgentTypes /\ MeshOK
  BY DEF AInv, TInv, IInv
<1>2. /\ nodes'[n] = <<>> /\ tree'[n] = {} /\ blocked' = blocked
      /\ \A m \in Node \ {n} : phase'[m] = phase[m] /\ nodes'[m] = nodes[m] /\ tree'[m] = tree[m]
  BY <1>1 DEF Crash, AgentTypes, MeshOK
<1>3. Acted(n)'
  BY <1>2, NoNeighbors DEF Acted, Neighbors
<1> QED
  BY <1>2, <1>3, OneActed

\* AInv is inductive.
LEMMA NextAInv == AInv /\ [Next]_vars => AInv'
<1> SUFFICES ASSUME AInv, [Next]_vars PROVE AInv'
  OBVIOUS
<1>1. TInv'
  BY NextTInv DEF AInv
<1>2. ASSUME UNCHANGED agent PROVE AInv'
  BY <1>1, <1>2 DEF AInv, Acted, Neighbors, Peers, agent
<1>3. ASSUME NEW n \in Node, Tick(n) \/ Crash(n) PROVE AInv'
  BY <1>3, TickAInv, ComputeAInv, CrashAInv DEF Tick
<1>4. ASSUME NEW n \in Node, Unreadable(n) \/ Restart(n) \/ Repaired(n) PROVE UNCHANGED agent
  BY <1>4 DEF Unreadable, Restart, Repaired
<1>5. ASSUME NEW n, NEW m, Join(n, m) \/ Handshake(n, m) \/ Expire(n, m) PROVE UNCHANGED agent
  BY <1>5 DEF Join, Handshake, Expire
<1>6. ASSUME NEW e \in link, Cut(e) PROVE UNCHANGED agent
  BY <1>6 DEF Cut
<1>7. UNCHANGED vars => UNCHANGED agent
  BY DEF vars
<1> QED
  BY <1>2, <1>3, <1>4, <1>5, <1>6, <1>7 DEF Next, WireGuard, Recovery

\* What the table of an informed agent gives is what the mesh gives.
LEMMA InformedNeighbors ==
  ASSUME AInv, NEW n \in watch, Informed(n)
  PROVE  tree[n] = Right(n)
<1>1. n \in Node /\ n \in Nat /\ MeshOK /\ Acted(n) /\ phase[n] = "idle"
  BY NodeAssumption DEF AInv, TInv, MeshOK, Informed
<1>2. link \in SUBSET (Nat \X Nat) /\ \A e \in link : e[1] <= e[2]
  BY <1>1, LinkEdges
<1>3. Edges(nodes[n]) \subseteq link /\ \A e \in link : Connected(link, n, e[1]) => e \in Edges(nodes[n])
  BY DEF Informed
<1>4. LocalNeighbors(n, LeastForest(Edges(nodes[n]))) = LocalNeighbors(n, LeastForest(link))
  BY <1>1, <1>2, <1>3, NeighborsOfPart
<1> QED
  BY <1>1, <1>4 DEF Acted, Neighbors, Right

(***************************************************************************)
(* agent.go, tick: in every mesh and whatever goes wrong, an agent that    *)
(* has heard of all links of its part of the mesh has its neighbours in    *)
(* the forest of the whole mesh, and FRR blocks exactly its other peers.   *)
(***************************************************************************)
THEOREM InformedIsAlwaysRight == Spec => []InformedIsRight
<1>1. AInv => InformedIsRight
  <2> SUFFICES ASSUME AInv, NEW n \in watch, Informed(n)
               PROVE  tree[n] = Right(n) /\ (Right(n) # {} => blocked[n] = Peers(n) \ Right(n))
    BY DEF InformedIsRight
  <2>1. tree[n] = Right(n)
    BY InformedNeighbors
  <2>2. Acted(n)
    BY DEF AInv, TInv, MeshOK
  <2> QED
    BY <2>1, <2>2 DEF Acted
<1> QED
  BY <1>1, InitAInv, NextAInv, PTL DEF Spec

(***************************************************************************)
(* mst.go, ComputeMST: in every mesh the edges kept by agents that are     *)
(* informed contain no loop, as they are edges of one forest.              *)
(***************************************************************************)
THEOREM AlwaysLoopFree == Spec => []LoopFree
<1>1. AInv => LoopFree
  <2> SUFFICES ASSUME AInv
               PROVE  LET kept == Kept({n \in watch : Informed(n)}) IN LeastForest(kept) = kept
    BY DEF LoopFree
  <2> DEFINE kept == Kept({n \in watch : Informed(n)})
  <2>1. MeshOK /\ watch \subseteq Node /\ Node \subseteq Nat
    BY NodeAssumption DEF AInv, TInv, MeshOK
  <2>2. link \in SUBSET (Nat \X Nat) /\ \A e \in link : e[1] <= e[2]
    BY <2>1, LinkEdges
  <2>3. ASSUME NEW n \in watch, Informed(n), NEW m \in tree[n]
        PROVE  newEdge(n, m) \in LeastForest(link)
    <3>1. n \in Node /\ n \in Nat /\ m \in Nat
      BY <2>1, <2>3 DEF MeshOK
    <3>2. m \in LocalNeighbors(n, LeastForest(link))
      BY <2>3, InformedNeighbors DEF Right
    <3> QED
      BY <2>2, <3>1, <3>2, ForestNeighbors
  <2>4. kept \subseteq LeastForest(link)
    BY <2>3 DEF Kept
  <2> HIDE DEF kept
  <2>5. LeastForest(kept) = kept
    BY <2>2, <2>4, ForestPart
  <2> QED
    BY <2>5 DEF kept
<1> QED
  BY <1>1, InitAInv, NextAInv, PTL DEF Spec
=============================================================================
