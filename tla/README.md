# l2mesh in TLA+

Specifications of [l2mesh](../src/README.md), a CLI and a daemon that build a
layer-2 VPN from WireGuard, VXLAN and FRR/EVPN. The modules model what is hard
to test in it: commands that run at the same time, commands that fail or are
killed half-way, the agent that works from state it read some seconds ago, and
agents that must agree on one spanning tree from what each of them has heard.

Checked with TLC on small instances. Every invariant and every safety property the runs find to
hold, but for one that speaks of ENABLED, is also proved with TLAPS: for any number of processes, nodes, peers
and addresses, and any mesh. Liveness is only model-checked.

## 1. The system

One host runs any number of short-lived `l2mesh` commands and one `l2mesh agent`.
They share four things, none of which has an owner that serialises everybody:

| shared state | written by | protected by |
|---|---|---|
| `state.json` (and `state.json.tmp`) | `root/peer add/remove`, `promote`, `demote`; `init` | flock on `state.json.lock`, except for `init` |
| kernel: WireGuard peers, bridge, VXLAN port | the same commands inside the flock; `sync`, `up`, `down` outside it | nothing |
| `frr.conf`, and FRR's running configuration | the same commands, `sync`, the agent | nothing |
| the agent's topology | its tick, from other nodes' `/info` | a mutex |

### Components

| component | source | state | operations | what makes it correct |
|---|---|---|---|---|
| State store | `internal/state/state.go` | file, temporary file, flock | `Load`, `Save`, `WithLock`, `AddPeer`, `RemovePeer` | commands are serialised; no update is lost; the file is always readable; keys, addresses and names stay unique; the lock is given back |
| `init` | `cmd/init.go` | the same file | existence check, prompts, `Save` without lock | does not disturb a locked command; replaces no file without `--force` (README promises it, the code does not keep it: section 5) |
| Peer commands | `cmd/common.go`, `peer.go`, `rootpeer.go` | – | edit, kernel update (errors are warnings), FRR update (likewise), save | kernel and FRR end up with what `state.json` says |
| Role changes | `cmd/role.go` | – | `promote`, `demote`: edit, `reconcileKernel` (errors abort), save | role in the file = role set up in the kernel |
| `sync`, `up`, `down` | `cmd/sync.go`, `up.go` | – | load without lock, `reconcileKernel` / `l2.Up` / `l2.Down` | the kernel becomes what `state.json` says, whatever it was |
| WireGuard control | `internal/wg/wg.go` | kernel peers and their allowed IPs | `AddOrUpdatePeer`, `RemovePeer`, `Sync` | incremental updates add up to the full one |
| L2 data plane | `internal/l2/l2.go` | bridge and its addresses, VXLAN port, hairpin, local ports | `Up`, `Down`: sequences of netlink calls, each may fail | `Up` repairs a half-built state; hairpin on a Root only; the addresses are those of `state.json` |
| FRR configuration | `internal/frr/frr.go` | `frr.conf`, running configuration | `GenerateConfig`, `Apply`, `reload` | FRR has one BGP neighbour per peer; BLOCK_T3 exactly on those outside the tree |
| Agent loop | `internal/agent/agent.go` | `lastTreeIPs` | `tick` every 5 s: load, poll, compute, compare, apply | a new tree becomes the filter; what a command resets is set again |
| Gossip, topology | `internal/agent/gossip.go`, `topology.go` | a map from address to `NodeInfo` | `Set`, `PurgeStale`, `Edges`, `/info` | the agent settles on the mesh's tree once the mesh is stable; a lost answer does not disturb it |
| MST | `internal/agent/mst.go` | – | `ComputeMST`, `LocalNeighbors` | a spanning forest, the same for the same graph, no cycle |
| Status output | `cmd/status.go`, `mac.go`, `frr.go`, `internal/frr/status.go`, `macs.go` | – | read and print | – |

### Hard behaviours

* Two or more processes between any two of their system calls; only some take the flock.
* A process killed, or a disk, netlink or FRR error, at each of those points.
* A leftover `state.json.tmp`; a rename that finds its file gone.
* A netlink sequence abandoned in the middle and started again later.
* An agent whose copy of `state.json` is older than the one a command has applied,
  and whose record of the filter is not what FRR has.
* A reboot that empties the kernel, and a boot-time `sync` that may fail.
* Links that go or come, answers that are lost, agents that restart with nothing or serve
  an empty answer, while entries age and each node knows only what its own peers say.
* Addresses the kernel deletes along with another one; a local port that is missing.

`PROJECT.json` lists the hazards one by one, at their lines, with the properties
that cover them or the reason why none does yet.

## 2. The modules

    PeerTable ---- StateStore                 contents and edits; the abstract store
        |              ^
        |              | implements
        +---- StateFile                       WithLock and Save
        |         |
        |     StateFileInit                   + init, which takes no lock
        |
        +---- NodeKernel                      + the kernel, sync, up, down
                  ^
                  | implements (DataPlaneKernel)
    DataPlane ----+                           l2.Up and l2.Down in full
    FrrConfig                                 frr.conf, FRR and the agent's tick
    SpanningTree ---- Gossip                  mst.go; the agents and the network

Theorems and their proofs are in modules of their own, each extending the one it is about: `PeerTableProofs` (lemmas
that the next three share), `StateFileProofs`, `InitProofs` (StateFileInit), `KernelProofs` (NodeKernel), `DataPlaneProofs`,
`FrrProofs` (FrrConfig), `SpanningTreeProofs`, and `GossipProofs`, which uses the last.

**PeerTable** has no variables. `State` is the node's role, address and endpoint
and its two peer lists; a peer has the four fields of the code. The lists are
sets, since names are unique within a role and nothing depends on the order of the
JSON arrays. Each edit (`AddPeer`, `RemovePeer`, `Promote`, `Demote`) is the set of
states it may produce, empty when the code returns an error; `Outcomes` maps a
command line to them. `UniqueIn` is what `AddPeer`'s checks are there for.

**StateStore** is the abstract promise: one variable, replaced atomically by one
command's edit of its current value.

**StateFile** is `WithLock` and `Save`, one action per system call: open the lock
file (`Begin`), `Flock`, `Load`, the command's function (`Edit` or `Refuse`), the
truncating open of `path.tmp` (`OpenTmp`), `WriteTmp`, `Rename`. `path` and `tmp`
are names bound to inodes, and a writer writes to the inode it opened, which is
what makes rename atomic for readers. `Quit` is any error or signal anywhere; the
kernel then drops the flock. What the file holds for a reader is `OnDisk`.

**StateFileInit** adds `init`: it enters at the same `Save`, without the lock. Now two
processes may have `path.tmp` open (`WriteMixed`: text over text), a rename
may find no file, and `Load` may find one that does not parse.

**NodeKernel** replaces the file by one variable `disk`, changed by `Save` only -
`ImplementsStore` is why it may - and adds the kernel: `wg` (key and allowed
IP of every kernel peer, where giving an IP to one peer takes it from another),
`bridge` and `vxlan`, with one action per netlink call of `l2.Up` and `l2.Down`.
`Warn` is a failure `applyToKernel`
turns into a warning, `Abort` one that ends the command; a `Sync` that meets a peer
it cannot configure changes nothing (`RejectPeers`). `Reboot` empties
the kernel and starts the one `sync` of the systemd unit. `up` and `down` keep of
the state they load what they read of it.
`removed` is what `RemovePeer` returned, kept until the kernel is told: `init --force`
may replace the file in between.
Three variables record the past and are read by no action: `alone` (the process
that has run with no other beside it), `overlap` (a command without the lock ran
beside another) and `drift` (which part of the kernel a failure left out of step).

**FrrConfig** is the third shared resource: every writer truncates `frr.conf`, writes
it and has `frr-reload.py` load whatever the file then holds. Commands pass a nil
tree, which means that every peer counts as a tree neighbour and none is filtered; the
agent's tick loads `state.json`
first (`TickLoad`), polls, and then compares its tree with `lastTreeIPs`
(`TickUnchanged`, `TickChanged`). The tree itself is an input that may change at any
time. `alone` and `skew` are history, as in NodeKernel. The constant `Faults` says whether
`Apply` may fail, a writer die or FRR restart: it is FALSE in the two runs that look for a
disagreement, so that what they find needs no failure.

**DataPlane** is `internal/l2` alone, one action per netlink call, with what NodeKernel
leaves out. The bridge carries a list of addresses, oldest first, because the kernel does: the first of a
subnet is primary, and takes the others with it when it is deleted, unless
`promote_secondaries` is set (`Kept` is what stays, `Without` the list of it in its old order). `syncBridgeAddrs` lists once (`current`), adds what is missing (`AddAddr`) and
deletes what is too much (`DelAddr`); an address that has gone meanwhile is an error, which
ends the command. The VXLAN port keeps the attributes it was made with; a local port that is missing ends
`Up` before anything is brought up. Configurations change between commands
(`Replace`): this is an edit of `state.json` by hand, the way README line 78 gives for `bridge_addrs` and the
local ports, which no command writes; `init --force` takes them out again. One command runs at a time: overlaps are NodeKernel's.

**DataPlaneKernel** says that DataPlane, call by call, implements what NodeKernel has of `l2.Up` and `l2.Down` in fewer
steps: `ImplementsKernel` is `NodeKernel!Spec` under a refinement mapping. In the mapped behaviour one process runs every
command, there are no peers, an address stands for the attributes a VXLAN port is made with, `syncBridgeAddrs` belongs to the way to the VXLAN port, and the
local ports are one step. Two variables are added for what NodeKernel keeps account of and DataPlane does not: `op`, the command, and
`drift`. `SyncFails` is the failure of the boot-time `sync` before it comes to `l2.Up`. So NodeKernel left out
nothing of the bridge and the VXLAN port that decides what becomes of them; `PlaneInStep` states what a reader of `l2.go` would ask for.

**SpanningTree** has no variables: `mst.go` with `newEdge`. Parent and rank are two functions, `Path` is the recursion of
`find`, `Find` its path compression, `Union` and `Joins` what `union` does and what it
returns, `Take` the body of the loop and `Loop` what it has after each number of edges. `Place` is the position the two
`sort.Slice` calls give an edge, as the number of edges that are not after it. Loop and sorting are functions rather than a fold and a sort of the
library, so that they can be proved about. Addresses are numbers, whose order is that of the strings. `LeastForest`
is the reference: an edge belongs to the forest if the edges before it do not connect its
ends, where `Connected` is defined by cuts.

**Gossip** is the agents of a mesh and the network between them. A tick is `TickLoad`, `SetSelf`, one of `FetchInfo`,
`FetchRefused` and `FetchTimeout` per peer in the order of `AllPeers`, and `Compute`, which
purges, computes, compares and has FRR filter the peers that are no neighbours. Time passes between ticks, in
polls that nobody answers, and in those of the nodes in `Slow`, whose answers may come at any time up to the timeout; it shows
as the age of the entries. Of the network it has the links that carry packets (`link`)
and, for each end separately, the handshakes it remembers (`live`), which `Handshake` and
`Expire` change in their own time. An answer names the live peers of whoever gives it and nothing
it was told by others, so ticks of one node have no influence on another: only those of the nodes in `watch` are
modelled, and the runs choose `watch`. `Cut`, `Join`, `Crash`, `Unreadable`, a lost answer and a WireGuard device that cannot be
read (`livePeers` then returns nothing, and the node answers that it has no live peers) are the six kinds of fault.

An operator whose comment begins "Mutated form of" is no part of a specification: it is
a plausible bug that the property next to it in `PROJECT.json` must detect.

## 3. The runs

| run | specification | question | result |
|---|---|---|---|
| `statefile` | StateFile | do locked commands that may be refused, fail or be killed anywhere implement the atomic store, keep the file readable and the peers unique, and release the lock? | holds |
| `init` | StateFileInit | with an `init` at any point: are peers still unique, and can a command that holds the lock always go on? | holds |
| `init_torn` | StateFileInit | ... and is the file still readable? | **violated** |
| `kernel` | NodeKernel | does the kernel follow `state.json` where nothing failed and nothing overlapped, and does an undisturbed `sync` repair what is left of peers, bridge and port otherwise? | holds |
| `sync_overlap` | NodeKernel | ... also when a `sync` overlaps another command? | **violated** |
| `next_sync` | NodeKernel | does the next `sync` configure every peer that can be configured? | **violated** |
| `frr` | FrrConfig | what do the agent and two commands leave in FRR, also when they overlap, and does a new tree become the filter? | holds |
| `frr_filter` | FrrConfig | is the filter of the tree in place when a tick finds nothing to do? | **violated** |
| `frr_neighbors` | FrrConfig | does FRR keep the neighbour a command has added, when nothing fails? | **violated** |
| `gossip` | Gossip | in any graph and after any fault, does an agent settle on its part of the mesh's forest and on the filter for it, is an agent that is informed right, and is a lost answer harmless? | holds |
| `gossip_ring` | Gossip | ... and do all agents agree on one tree when not everyone is everyone's peer? | **violated** |
| `l2` | DataPlaneKernel | what does an `Up` that succeeds leave, does repeating it repair a half-built plane, and does DataPlane implement NodeKernel's `l2.Up` and `l2.Down`? | holds |

### Properties

* `Serialised` - the protocol of `WithLock`: past the flock means holding it, the file
  is what the holder loaded, only `path.tmp` is ever torn, and at the rename it holds
  exactly the command's result.
* `AtomicUpdates` - `StateStore!Spec` under `store <- OnDisk`: no lost update.
* `Readable`, `UniqueIdentities`, `LockReleased`, `HolderCanMove` - see their comments.
* `KernelInStep` - the sum of incremental kernel updates equals a full `sync`.
  It exempts the two things the code does not handle: overlap with a command that takes
  no lock, and a failure whose trace `drift` records; either ends
  with the next undisturbed `sync`.
* `SyncReconciles` - an action property: the last step of an undisturbed `sync` leaves
  WireGuard's peers as `state.json` says, and a bridge and a VXLAN port that are there, joined, up and in the hairpin mode of the
  role, from any kernel state. It does not say that the port has the VNI and the local address of `state.json`: an existing port keeps
  those it was made with, and only a `Down` or a reboot helps (`RebuiltMatches`).
* `FrrInStep` - after an undisturbed `Apply`, FRR has the neighbours of
  `state.json` and a filter that is fail-open or that of the tree the agent acted on last.
* `OneText` - when all who applied are done, overlapping or not, and neither did anything fail nor two writes garble the
  file, FRR has what the file holds, which is the whole text of one of them: its filter is open or that of the agent's last
  tree, never that of an earlier one. What it does not say is whose text: the neighbours may be those of another state (`frr_neighbors`).
* `FilterFollowsTree` - a tree the agent has not acted on becomes the filter, or it changes
  again, or an overlap or a failure intervenes.
* `ForestOfEdges` - for every set of edges an agent meets, the union-find tells connected nodes from
  unconnected ones, its ranks grow towards the roots, and Kruskal returns the one forest of the order.
* `AnswersCount` - no answer of a tick is too old at the end of that tick, however many peers are silent.
* `Converges` - liveness: the agent's tree becomes and stays its part of the forest of the real mesh, and FRR blocks
  exactly the other peers. It covers which peers are filtered out of several. What it cannot promise the code does not
  give: an agent that restarts with no neighbours leaves the filter of its predecessor.
* `InformedIsRight` - between its ticks, an agent that knows of every link of its part of the mesh and of none that is gone has the neighbours
  the whole mesh's forest gives it, and FRR blocks exactly its other peers, whatever has gone wrong and whatever the others
  believe. It is the safety half of `Converges`: that the agent gets informed is the other.
* `LossHarmless` - while nothing else goes wrong, losing an answer never takes an agent away from the right tree.
* `AddrsMatch` - after an `Up` without an error the bridge has no global address too many, and, if `promote_secondaries` is
  set, none too few; the link-local one is spared. Without `promote_secondaries` `AddrsMatch` says nothing of
  missing ones, because some may be: deleting a primary address takes the secondaries of its subnet with it, those `Up` has just added or
  found included, and the `Up` that lost them may report success. This contradicts the comment "makes the bridge's addresses match
  desired exactly" (`l2.go` line 141); no run is spent on it, and `Settles` shows that another `Up` brings them back.
* `RebuiltMatches` - the first successful `Up` after a `Down` or a reboot, through any failures, leaves exactly what
  `state.json` says, also of what an `Up` alone does not change.
* `ImplementsKernel` - `NodeKernel!Spec` under the mapping of DataPlaneKernel.
* `PlaneInStep` - between two commands, unless the last `Up` ended half-way or `state.json` has been edited since, a VXLAN port that is
  there is up, on a bridge that is up, and hairpins just on a Root.
* `Settles` - liveness: repeating `sync` repairs a half-built data plane and lost addresses, for good.

### Findings

The violated properties quote the repository; the traces are short.

1. `init_torn`: README line 213 says that writes are serialised and atomic. `init` saves
   without the lock and through the same `state.json.tmp`; one writer renames it
   while another is writing to it.
2. `sync_overlap`: `sync` reads `state.json` outside the lock and then replaces all kernel
   peers; a peer added in between disappears from the kernel. `wg.go` says that Sync
   makes the kernel authoritative against `state.json`.
3. `next_sync`: `common.go` says that a failed kernel update is saved and that the next `sync`
   reconciles the kernel. If the saved peer is one that cannot be configured, every `Sync` returns
   at it, and the other peers are not configured either.
4. `frr_filter`: `common.go` and `up.go` say that the agent's next tick installs the correct entries
   after a command. The tick compares trees, not FRR's state, and does nothing.
5. `frr_neighbors`: a tick applies the peers it loaded before polling. The neighbour a
   `root add` has configured meanwhile is removed until the next Apply.
6. `gossip_ring`: README line 174 says that all nodes converge to the same tree. In a ring of five where everyone has its two
   neighbours as peers, each node learns four of the five links, sees no cycle and keeps both neighbours; together they keep
   the ring, with every link up and every answer received. (README lines 192-212 say for another
   reason, reflected Type-3 routes, that three or more Roots are not free of loops.)

### Bounds

* *Processes*: two commands (and the agent in FrrConfig), each of which may run any
  number of commands one after the other. The races are between pairs: a
  reader and a writer, or two writers of one file. For StateFile the proofs
  cover any number. DataPlane has one command.
* *Inodes*: two in `statefile` (the file and `.tmp`; the lock keeps it at that, and inodes no
  longer named or open are reused), three in `init` (each of two writers may hold one besides
  the file).
* *Peers*: `statefile` has five candidates, so that each check of `AddPeer` decides something:
  a shared key, a shared address, a shared name within a role and across roles, a key that
  does not parse. `kernel` has a root and a leaf with one address, so that a failed remove
  followed by an add moves the allowed IP. `next_sync` has a leaf that can be configured and one
  that cannot. `frr` has one peer and two commands: the races need
  two commands, and which of several peers are filtered is a question of `gossip`.
* *Node*: one overlay address and at most one endpoint; the address never decides
  anything in the modelled code.
* *Mesh*: four nodes that are all peers, and each of the 64 graphs of links over them: the smallest meshes
  with a cycle that is not a triangle, and with a node that is two hops away. In a full mesh every agent hears of every
  link; that partial views differ takes the ring of five. In four-node graphs the order of the edges never
  decides between two edges that only the second end tells apart; that comparison is not exercised.
* *Watched agents*: one of the four, each in its turn, since ticks do not influence one another; three in the ring, which
  between them know of all its links.
* *Time*: an interval and a timeout of 1 and `StaleAfter` 7, the least that lets two ticks pass in which every poll times out
  (1 + 2 * 3). In the code they are 5, 2 and 90 seconds; the same inequality holds there up to 21
  peers, and `TimeAssumption`, without which the answers of a tick may be purged in it, up to 45.
  One node of the four is slow: its answers take nothing or the whole timeout. More slow nodes multiply the states, and an
  answer that takes its time ages the other entries just as a poll that times out, which every poll may be without a link.
* *Faults*: one per behaviour, of six kinds, at any point; each recovers (but for a link).
* *Data plane*: two addresses of one subnet and one of another, two local ports, three configurations, in which
  a primary address goes and its secondary stays, or both go; with and without `promote_secondaries`; five
  events among `Down`, a new configuration, an abort, a reboot and an unplugged port. A repair needs
  one or two runs of `Up` after any of them, so five let failures fall into repairs.
* No other counter is unbounded, and no constraint cuts the state space off.

Symmetry (processes, inodes) is used in `init`, `kernel` and its two variants only, which check no
liveness.

### Deadlock

Checked everywhere. No process ever has to stop: one that ends may be started again.

### Fairness

* StateFile: weak fairness of the steps of a process that holds the lock. Between flock and
  close, nothing in the code waits for another l2mesh command. It does run `frr-reload.py` there, and without a timeout: that
  this ends is assumed, and if it does not, no other command gets the lock. `Flock` itself is not assumed
  fair (the kernel promises no order), nor are starting and failing.
* FrrConfig: weak fairness of the agent's tick (a ticker drives it for ever) and of a command
  that has begun its `Apply`. `Change`, `Sync`, `Kill`, failures and the tree are free.
* NodeKernel and StateFileInit: none, only safety is checked. `HolderCanMove` says with
  ENABLED what liveness would need.
* Gossip: `Ticking` (an agent that goes on running with a readable `state.json` completes tick after tick: the ticker drives it and
  every poll ends by itself after two seconds), and weak fairness of `WireGuard` (persistent keepalive renews
  handshakes, time lets them expire) and of `Recovery` (systemd restarts an agent). `Ticking` is a formula of its own rather than
  a WF because TLC would evaluate the whole spanning tree for ENABLED.
* DataPlane and DataPlaneKernel: a command that has begun goes on, and `sync` is run again and again. The second is an assumption about
  the operator or a timer: the code runs `sync` once, at boot, and repeats nothing. `Settles` says what repeating is worth.

## 4. The proofs

For all values of the constants that meet the assumptions named in the modules.

| module | theorem | statement |
|---|---|---|
| StateFileProofs | `TypeCorrect` | `Spec => []TypeOK` |
| | `LockProtocol` | `Spec => []Serialised` |
| | `AlwaysReadable` | `Spec => []Readable` |
| | `AlwaysUnique` | `Spec => []UniqueIdentities` |
| | `ImplementsStore` | `Spec => AtomicUpdates`, i.e. StateFile implements StateStore |
| InitProofs | `TypeCorrectInit` | `SpecInit => []TypeOKInit` |
| | `UniqueWithInit` | `SpecInit => []UniqueIdentities` |
| KernelProofs | `TypeCorrect` | `Spec => []TypeOK` |
| | `KernelAlwaysInStep` | `Spec => []KernelInStep` |
| | `SyncAlwaysReconciles` | `Spec => SyncReconciles` |
| DataPlaneProofs | `TypeCorrect` | `Spec => []TypeOK` |
| | `AddrsAlwaysMatch` | `Spec => AddrsMatch` |
| | `AlwaysRebuilt` | `Spec => RebuiltMatches` |
| | `KernelImplemented` | `SpecToKernel => ImplementsKernel`, i.e. DataPlane implements NodeKernel's data plane |
| | `PlaneAlwaysInStep` | `SpecToKernel => []PlaneInStep` |
| FrrProofs | `TypeCorrect` | `Spec => []TypeOK` |
| | `AlwaysInStep` | `Spec => []FrrInStep` |
| | `AlwaysOneText` | `Spec => []OneText` |
| SpanningTreeProofs | `KruskalCorrect` | for finite edges `ComputeMST` is `LeastForest`, and the union-find it leaves is `Sound` |
| | `ForestSpans` | that forest connects what the edges connect, and needs each of its edges for it |
| GossipProofs | `AnswersAlwaysCount` | `Spec => AnswersCount` |
| | `TypeCorrectGossip` | `Spec => []TypeOK` |
| | `AlwaysForestOfEdges` | `Spec => []ForestOfEdges` |
| | `InformedIsAlwaysRight` | `Spec => []InformedIsRight` |
| | `AlwaysLoopFree` | `Spec => []LoopFree`: the edges that informed agents keep contain no loop, also while other agents are not informed |
| | `LossAlwaysHarmless` | `Spec => LossHarmless` |

Each inductive invariant of a specification below also holds on the run of its component, as TLC found.

### PeerTableProofs

What an edit of the peer lists preserves (types, distinctness, keys that parse) and what it does to the set of all
peers (`AddedPeers`, `RemovedPeers`, `RoleChangeKeepsPeers`), from `EndpointAssumption` and `DefaultAssumption`.

### StateFileProofs

From `EndpointAssumption`, `NoneAssumption` and `TornAssumption`; `DefaultAssumption` for the types.
The inductive invariant is `IInv == TypeOK /\ Serialised`. `Readable` is not inductive: that the
rename does not put a torn file in place needs `.tmp` to hold the command's result by then,
which needs the writer's descriptor to be that of `.tmp`, which needs that nobody else has truncated it,
which needs the lock. `Serialised` is this chain. `InitIInv` and `NextIInv` establish it; the step lemma is split
into `ExitIInv` (everything that ends a process) and `WorkIInv`.
`StepUpdatesStore` shows from it that a step either leaves `OnDisk` alone or
replaces it by a member of `Outcomes(c, OnDisk)` for some command `c`: that is the refinement.
`AlwaysUnique` follows by a second induction, over the abstract store: `OutcomesUnique` shows that no edit of a
state whose peers are distinct loses that (`SameTable` identifies the definitions seen through the instance).

### InitProofs

From the same assumptions. With `init` beside the commands `Serialised` is false, and the file may be torn. What is left
is weaker and enough for distinct peers: every state in memory or in any inode, if it is not torn, has them (`AllDistinct`),
since a write puts down either a state that was in memory or torn text; and who is about to edit runs a command that
edits (`Editing`).

### KernelProofs

From `NoneAssumption`, `ConfigurableAssumption` and those of PeerTable. `KernelInStep` speaks of the kernel while
nobody is at it. While somebody is, it has to be known what the kernel will be when they end. `IInv` says so in six parts:

* `Positions` - where each operation may stand, and that the lock is held just by those that take it;
* `Tables` - the peers of every state in use are distinct and their keys parse. Without distinct addresses an add
  could take the allowed IP of another peer, and incremental updates would not add up to a full one;
* `Solo` - what `alone` and `overlap` record;
* `Sources` - what a process that is alone works from is, or was edited from, what is on disk now;
* `PeersFollow` - WireGuard's peers are those of the file, or, of a command that has configured its peer and not saved yet, those of the
  file to come;
* `PlaneFollows` - likewise for the data plane, where `Built` says what each call of `l2.Up` finds done.

Lemmas for how a step moves a process (`StartControl`, `GoControl`, `EndControl`) give the first four parts for every
action at once; the last two are one lemma per kind of step. `SyncAlwaysReconciles` needs no assumption on where the kernel was: the last
conjunct of `PeersFollow` and `Built` are established by the sync's own steps.

### DataPlaneProofs

From `AddrAssumption`, `ConfigAssumption` (no address is listed twice), `MissingAssumption` and
`BoundAssumption`. `IInv` is the types and four parts: `Done` (what each netlink call finds done), `Loops` (what is left
of the list each loop works through), `Addresses` and `Fresh`. `Addresses` is the argument about `syncBridgeAddrs`: while it adds, what it
listed is on the bridge and what is there is listed or added; while it deletes, nothing is on the bridge but what is wanted, the link-local
address and what it has still to look at. That nothing wanted is missing afterwards holds with `promote_secondaries` only: a delete
may take addresses with it. `Fresh` is the stronger fact after a `Down` or a reboot: there is nothing to delete, so that nothing is lost either.

For `KernelImplemented`, `KInv == IInv /\ Ops` adds which command may be at which call. What the provers find hard in a
refinement is the records: the lemmas named `View...` say once what each update of the VXLAN port is to NodeKernel's record of it, and `KernelStarts`,
`KernelGoes`, `KernelEnds` and `KernelAborts` what makes a step of a command. After that every call has a lemma of its own, which
says which step of NodeKernel it is, or that NodeKernel does not see it. `PlaneInStep` is not inductive: a `Down` that is killed before it has deleted the port leaves the
port as it was, so the invariant (`InStep`) speaks of that state too, and rests on `Done`.

### FrrProofs

From `NoneAssumption` and `TextAssumption` (an empty or garbled file is no configuration). `FrrInStep` speaks of states in which nobody is applying,
so it says nothing of the steps that lead there. `IInv` adds what is needed while someone is: only the holder of the lock saves
(`Locked`); a text is for the peers its writer works from, and only the agent's has a filter, that of `lastTreeIPs` (`Jobs`);
a writer that is `alone` works from the peers on disk, or holds the lock, and the file is its own (`AloneOK`); and as long as `skew` is empty, whoever applies is alone, and whoever is
about to save has FRR in step with what it will save (`Undisturbed`). For `OneText` a second invariant, `FileOK`, follows the file
instead of the writers: what FRR has is the file or will be, as the last to write it has still to reload. One lemma per kind of step: `BeginIInv` for every
way an Apply begins, then writing, reloading, failing, saving.

### SpanningTreeProofs

No assumption but that nodes are numbers and the edges finite. Three arguments:

* `Path` is a recursion over data. It is well defined because ranks grow along it and there are finitely many of
  them (`PathUnrolls`); the induction is over the set of ranks up to which it unrolls (`NatSet`), since the induction theorems of the library take an
  operator as a parameter, which the provers cannot instantiate. With `PathFacts`, `FindFacts` shows that path compression
  changes no root, and `UnionFacts` that a union joins exactly two of them and keeps ranks growing.
* `Connected` is defined by cuts, which suits proofs: x and y are not connected if a set closed under the edges
  holds one and not the other (`ConnectedClosed`). `ConnectedAdd` says what one edge more connects.
* `LoopFacts` is the invariant of the loop: after i edges the union-find tells what those connect, and what was taken is
  their least forest. `SortedFacts` shows that `Place` is one-to-one onto the positions, so that the edges come
  all of them, each once, and in order.

### GossipProofs

From `NodeAssumption`, `PeersAssumption`, `MeshAssumption` and `TimeAssumption`. Four invariants: `IInv` is part of `TInv`, and that of the other two.

* `IInv`, for `AnswersCount`. That an answer is young enough at the end of a tick is not inductive; `InTime` is: the age of each answer
  of this tick, plus the time the remaining peers can take if all of them are silent, is at most `StaleAfter`. A poll moves at most
  `Timeout` from the second to the first, be it answered late or not at all.
* `TInv`, for the types: tables hold entries of nodes, and the one empty NodeInfo that a peer with an unreadable state serves names no
  live peers, so that no edge and no neighbour comes of it (`Named`). With `KruskalCorrect` this also gives `ForestOfEdges`.
* `CInv`, for `LossHarmless`: while nothing but one answer is lost (`Calm`), handshakes stay as they were (`Steady`), so entries differ
  from the truth in nothing but their age (`Remembers`); an entry that one tick does not renew is renewed by the next, before it is
  older than an interval and two ticks of waiting (`Ages`), so that nothing learnt is purged; and what an agent would compute is part of what it has
  computed (`Settled`), because knowing more never adds a neighbour (`NeighborsFewer`: an edge is left out of a forest
  because of lesser edges, and stays out with more of them). An agent whose neighbours are right then keeps them:
  what it computes is no more, and is no less (`NeighborsEnough`).
* `AInv`, for `InformedIsRight` and `LoopFree`: between ticks the tree is the one the agent's table gives (entries age, but no
  edge goes before the next purge), and a tree that is not empty is what the filter was made from, though a filter is applied only when
  the tree changes (`Acted`). An agent that knows all edges of its part, and no others that are not there, has its neighbours
  in the whole forest (`NeighborsOfPart`): edges elsewhere connect nothing in its part. So the
  edges informed agents keep are edges of one forest, and any part of a forest is one (`ForestPart`).

### Only model-checked

`LockReleased`, `FilterFollowsTree`, `Converges` and `Settles` (liveness, out of the prover's reach), and `HolderCanMove` (ENABLED,
likewise). `LoopFree` is the other way round: it is proved, and no run
asks for it, since a loop takes several watched agents at once. The violated properties are refuted by runs.

## 5. What is not modelled

* The page cache: the code has no fsync, and a power cut may lose what was written. Kills are
  modelled, power cuts are not.
* JSON, prompts, flags, printing; the fixed parts of the FRR template; the search for FRR's binaries.
  A host without FRR is NodeKernel alone.
* `status`, `mac list`, `peer list`, `frr show`: they change nothing.
* The checks of `l2.Up` before its first call, addresses that do not parse, and MTUs, which are set when an
  interface is made and like the VXLAN attributes never changed.
* Addresses of `bridge_addrs` that are listed twice (the second `AddrAdd` fails, every time).
* Addresses of peers that change while agents run: a former address remains a node of the graph for 90 seconds.
  In Gossip `state.json` is constant, and an Apply succeeds at once; that commands and failures come between is
  FrrConfig's subject, whose `tree` is an arbitrary input and not that of Gossip.
* In `livePeers`, a peer whose key does not parse (it is left out; `AddPeer` lets none in). In Gossip, the two clocks of a poll (context and client, both two seconds), answers that are no JSON, and a link that works in one direction.
* Edits of `state.json` by hand, but for those of the L2 part between two commands (DataPlane). An edit under a running
  command, or one that gives two peers one key, is nothing the code knows of.
* Two promises that plainly fail, and no run is spent on: StateFileInit lets an `init` without `--force` replace a file that came into being
  while it asked its questions (README line 84 says that this is an error), and StateFile lets `peer add` give a Leaf leafs of its own
  (a comment in `frr.go` says that it has none).
* What BUM frames do under the filters: FRR and the kernel decide that.

## 6. Plan

Done, in the order of what matters most to the system: the state store (PeerTable, StateStore,
StateFile, StateFileInit), the kernel (NodeKernel), FRR and the tick (FrrConfig), the spanning tree and the mesh
(SpanningTree, Gossip), the data plane in full (DataPlane); then the proofs of section 4,
and the refinement between the two models of the data plane (DataPlaneKernel). What is left:

1. `Converges` is model-checked for four nodes; its safety half, `InformedIsRight`, is proved for every mesh. Between them lies that an agent of
   a mesh without faults gets informed: a bounded form of that (within so many ticks) could be proved as safety.
2. DataPlaneKernel maps a node without peers and one command at a time. WireGuard's part of `sync` and `up` could be put beside it.
3. FrrConfig takes the agent's tree as an input. Gossip could be shown to produce such inputs.
4. The hazards of `PROJECT.json` that no property covers, each with its reason.
