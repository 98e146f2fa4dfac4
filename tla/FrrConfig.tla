----------------------------- MODULE FrrConfig -----------------------------
(***************************************************************************)
(* Who writes a node's FRR configuration (internal/frr/frr.go): `l2mesh    *)
(* agent` with the tree neighbours it computed (internal/agent/agent.go,   *)
(* tick), and the commands of cmd/ with none, which means fail-open.  All  *)
(* of them call Apply: truncate and write one file, then have              *)
(* frr-reload.py turn FRR's running configuration into that file.          *)
(*                                                                         *)
(* add, remove, promote and demote hold the flock on state.json; sync and  *)
(* the agent do not.  The agent's view of the mesh is an input here, the   *)
(* set tree; WireGuard and the interfaces are NodeKernel's.                *)
(***************************************************************************)
CONSTANTS
  Peer,     \* overlay addresses of the peers this node may be given
  Proc,     \* command processes
  Agent,    \* the agent process
  None,     \* no process
  Empty,    \* a configuration without content
  Garbled,  \* what two writers leave who wrote over each other
  Faults    \* may Apply fail, a writer die, FRR restart?

ASSUME FaultsAssumption == Faults \in BOOLEAN
ASSUME AgentAssumption == Agent \notin Proc
ASSUME NoneAssumption == None \notin Proc \cup {Agent}

Writer == Proc \cup {Agent}

VARIABLES
  disk,   \* peers in state.json
  lock,   \* holder of the flock
  pc,     \* what each writer does next
  mem,    \* the peers in the state it works from
  job,    \* the text it has generated
  conf,   \* the file ConfigPath
  frr,    \* FRR's running configuration
  tree,   \* this node's neighbours in the tree over what it knows of the mesh
  last,   \* the agent's lastTreeIPs
  \* History, read by no action:
  alone,  \* the writer whose Apply no other one has overlapped so far
  skew    \* "overlap", "failure" since the last undisturbed Apply

vars == <<disk, lock, pc, mem, job, conf, frr, tree, last, alone, skew>>

\* The part of the text that is not fixed: the BGP neighbours, and those given BLOCK_T3.
Config == {c \in [neighbors : SUBSET Peer, blocked : SUBSET Peer] : c.blocked \subseteq c.neighbors}

ASSUME TextAssumption == Empty \notin Config /\ Garbled \notin Config

\* Nil is the argument of the commands: every configured peer counts as a tree neighbour.
Nil == None

\* Mutated form of GenerateConfig: the difference is taken the wrong way round.
GenerateConfigSwapped(peers, mst) ==
  LET inMST == IF mst = Nil THEN peers ELSE mst
  IN  [neighbors |-> peers, blocked |-> inMST \ peers]

GenerateConfig(peers, mst) ==
  LET inMST == IF mst = Nil THEN peers ELSE mst
  IN  [neighbors |-> peers, blocked |-> peers \ inMST]

Applying(w) == pc[w] \in {"open", "write", "reload", "save"}

Others(w) == {v \in Writer \ {w} : Applying(v)}

-----------------------------------------------------------------------------
(***************************************************************************)
(* Apply, the steps every writer goes through.  fresh: the peers it works  *)
(* from are those on disk, or about to be.                                 *)
(***************************************************************************)
BeginApply(w, peers, mst, fresh) ==
  /\ pc' = [pc EXCEPT ![w] = "open"]
  /\ mem' = [mem EXCEPT ![w] = peers]
  /\ job' = [job EXCEPT ![w] = GenerateConfig(peers, mst)]
  /\ alone' = IF Others(w) = {} /\ fresh THEN w ELSE None
  /\ skew' = IF Others(w) = {} /\ fresh THEN skew ELSE skew \cup {"overlap"}

\* os.WriteFile, the open: the file is truncated.
OpenConf(w) ==
  /\ pc[w] = "open"
  /\ conf' = Empty
  /\ pc' = [pc EXCEPT ![w] = "write"]
  /\ UNCHANGED <<disk, lock, mem, job, frr, tree, last, alone, skew>>

\* os.WriteFile, the write: over another writer's text the longer one shows through.
WriteConf(w) ==
  /\ pc[w] = "write"
  /\ \/ conf' = job[w]
     \/ conf # Empty /\ conf' = Garbled
  /\ pc' = [pc EXCEPT ![w] = "reload"]
  /\ UNCHANGED <<disk, lock, mem, job, frr, tree, last, alone, skew>>

End(w) ==
  /\ pc' = [pc EXCEPT ![w] = "idle"]
  /\ mem' = [mem EXCEPT ![w] = {}]
  /\ job' = [job EXCEPT ![w] = Empty]

\* After Apply a command that holds the lock saves its state; the others are done.
AfterApply(w) ==
  /\ alone' = IF alone = w THEN None ELSE alone
  /\ \/ lock # w /\ End(w)
     \/ /\ lock = w
        /\ pc' = [pc EXCEPT ![w] = "save"]
        /\ job' = [job EXCEPT ![w] = Empty]
        /\ mem' = mem

\* Mutated form of Reload: FRR is given the generated text, not the file.
ReloadOwn(w) ==
  /\ pc[w] = "reload"
  /\ frr' = job[w]
  /\ skew' = IF alone = w THEN {} ELSE skew
  /\ AfterApply(w)
  /\ UNCHANGED <<disk, lock, conf, tree, last>>

(***************************************************************************)
(* reload: frr-reload.py takes the file as it is now, whoever wrote it.    *)
(* Of a garbled one it may take what still parses, or nothing.             *)
(***************************************************************************)
Reload(w) ==
  /\ pc[w] = "reload"
  /\ \/ frr' = conf
     \/ conf = Garbled /\ frr' = frr
  /\ skew' = IF alone = w THEN {} ELSE skew
  /\ AfterApply(w)
  /\ UNCHANGED <<disk, lock, conf, tree, last>>

\* Apply returns an error: a warning, or a line in the agent's log.
ApplyFails(w) ==
  /\ Faults
  /\ pc[w] \in {"open", "write", "reload"}
  /\ skew' = skew \cup {"failure"}
  /\ AfterApply(w)
  /\ UNCHANGED <<disk, lock, conf, frr, tree, last>>

-----------------------------------------------------------------------------
(***************************************************************************)
(* The commands.                                                           *)
(***************************************************************************)
\* add, remove, promote and demote: the peers after the edit, none of them a tree neighbour.
Change(p) ==
  /\ pc[p] = "idle"
  /\ lock = None
  /\ lock' = p
  /\ \E peers \in {disk} \cup {disk \cup {q} : q \in Peer} \cup {disk \ {q} : q \in Peer} :
       BeginApply(p, peers, Nil, TRUE)
  /\ UNCHANGED <<disk, conf, frr, tree, last>>

\* Mutated form of Save: the state is written back as it was loaded.
SaveOld(p) ==
  /\ pc[p] = "save"
  /\ disk' = disk
  /\ lock' = None
  /\ End(p)
  /\ UNCHANGED <<conf, frr, tree, last, alone, skew>>

Save(p) ==
  /\ pc[p] = "save"
  /\ disk' = mem[p]
  /\ lock' = None
  /\ End(p)
  /\ UNCHANGED <<conf, frr, tree, last, alone, skew>>

\* sync, without the lock.
Sync(p) ==
  /\ pc[p] = "idle"
  /\ BeginApply(p, disk, Nil, TRUE)
  /\ UNCHANGED <<disk, lock, conf, frr, tree, last>>

-----------------------------------------------------------------------------
(***************************************************************************)
(* The agent.  A tick loads state.json, then asks every peer for its info  *)
(* (up to two seconds each), and only then computes and compares.          *)
(***************************************************************************)
TickLoad ==
  /\ pc[Agent] = "idle"
  /\ pc' = [pc EXCEPT ![Agent] = "fetch"]
  /\ mem' = [mem EXCEPT ![Agent] = disk]
  /\ UNCHANGED <<disk, lock, job, conf, frr, tree, last, alone, skew>>

TickUnchanged ==
  /\ pc[Agent] = "fetch"
  /\ tree = last
  /\ End(Agent)
  /\ UNCHANGED <<disk, lock, conf, frr, tree, last, alone, skew>>

\* Mutated form of TickChanged: only neighbours that appear count as a change.
TickGrown ==
  /\ pc[Agent] = "fetch"
  /\ ~(tree \subseteq last)
  /\ last' = tree
  /\ BeginApply(Agent, mem[Agent], tree, mem[Agent] = disk)
  /\ UNCHANGED <<disk, lock, conf, frr, tree>>

\* lastTreeIPs is updated before Apply, which is not tried again if it fails.
TickChanged ==
  /\ pc[Agent] = "fetch"
  /\ tree # last
  /\ last' = tree
  /\ BeginApply(Agent, mem[Agent], tree, mem[Agent] = disk)
  /\ UNCHANGED <<disk, lock, conf, frr, tree>>

-----------------------------------------------------------------------------
\* A writer dies; a new agent starts with no lastTreeIPs.
Kill(w) ==
  /\ Faults
  /\ w = Agent \/ pc[w] # "idle"
  /\ End(w)
  /\ lock' = IF lock = w THEN None ELSE lock
  /\ last' = IF w = Agent THEN {} ELSE last
  /\ alone' = IF alone = w THEN None ELSE alone
  /\ skew' = skew \cup {"failure"}
  /\ UNCHANGED <<disk, conf, frr, tree>>

\* FRR restarts without the configuration that was loaded into it.
FrrRestart ==
  /\ Faults
  /\ frr' = Empty
  /\ skew' = skew \cup {"failure"}
  /\ UNCHANGED <<disk, lock, pc, mem, job, conf, tree, last, alone>>

\* What the agent knows of the mesh changes, and the tree with it.
TreeMoves ==
  /\ tree' \in SUBSET Peer \ {tree}
  /\ UNCHANGED <<disk, lock, pc, mem, job, conf, frr, last, alone, skew>>

Init ==
  /\ disk \in SUBSET Peer
  /\ lock = None
  /\ pc = [w \in Writer |-> "idle"]
  /\ mem = [w \in Writer |-> {}]
  /\ job = [w \in Writer |-> Empty]
  /\ conf = GenerateConfig(disk, Nil)
  /\ frr = conf
  /\ tree = {} /\ last = {}
  /\ alone = None /\ skew = {}

ApplyStep(w) == OpenConf(w) \/ WriteConf(w) \/ Reload(w) \/ ApplyFails(w)

Tick == TickLoad \/ TickUnchanged \/ TickChanged \/ ApplyStep(Agent)

Next ==
  \/ TickLoad \/ TickUnchanged \/ TickChanged
  \/ \E p \in Proc : Change(p) \/ Sync(p) \/ Save(p)
  \/ \E w \in Writer : ApplyStep(w) \/ Kill(w)
  \/ FrrRestart
  \/ TreeMoves

Spec == Init /\ [][Next]_vars

(***************************************************************************)
(* The ticker never stops, and a command that has begun goes on.           *)
(***************************************************************************)
Fairness == WF_vars(Tick) /\ \A p \in Proc : WF_vars(ApplyStep(p) \/ Save(p))

FairSpec == Spec /\ Fairness
-----------------------------------------------------------------------------
TypeOK ==
  /\ disk \subseteq Peer
  /\ lock \in Proc \cup {None}
  /\ pc \in [Writer -> {"idle", "fetch", "open", "write", "reload", "save"}]
  /\ mem \in [Writer -> SUBSET Peer]
  /\ job \in [Writer -> Config \cup {Empty}]
  /\ conf \in Config \cup {Empty, Garbled}
  /\ frr \in Config \cup {Empty, Garbled}
  /\ tree \subseteq Peer /\ last \subseteq Peer
  /\ alone \in Writer \cup {None}
  /\ skew \subseteq {"overlap", "failure"}

Quiet == \A w \in Writer : ~Applying(w)

Filters(t) == frr \in Config /\ frr.blocked = frr.neighbors \ t

(***************************************************************************)
(* Commands and ticks that neither fail nor overlap leave FRR with the     *)
(* neighbours of state.json, and a filter that is fail-open or the one of  *)
(* the last tree the agent acted on: never a filter for peers it has not,  *)
(* nor a mixture.                                                          *)
(***************************************************************************)
FrrInStep ==
  Quiet /\ skew = {} =>
    /\ frr \in Config
    /\ frr.neighbors = disk
    /\ frr.blocked = {} \/ Filters(last)

(***************************************************************************)
(* frr.go, Apply: nothing keeps agent and commands from truncating,        *)
(* writing and reloading the one file in between one another.  Unless that *)
(* garbles the file, or something fails, they leave FRR with what the file *)
(* holds once all of them are done, and that is the whole text of one of   *)
(* them: with a filter that is fail-open or the one of the agent's last    *)
(* tree, never of an earlier one.                                          *)
(***************************************************************************)
OneText ==
  Quiet /\ "failure" \notin skew /\ conf # Garbled =>
    /\ frr = conf /\ conf \in Config
    /\ frr.blocked = {} \/ Filters(last)

(***************************************************************************)
(* A tree the agent has not acted on yet becomes the filter (README: the   *)
(* agent detects a change of the MST and updates BLOCK_T3), unless it      *)
(* changes again or something fails or overlaps.                           *)
(***************************************************************************)
FilterFollowsTree ==
  \A t \in SUBSET Peer :
    (tree = t /\ last # t) ~> (Filters(t) \/ tree # t \/ skew # {})

(***************************************************************************)
(* common.go, reconcileKernel: the agent reconciles every tick from the    *)
(* MST; up.go: after a command its next tick installs the correct entries. *)
(* So a tick with nothing to do finds the filter of the tree in place if   *)
(* no writer is at work and no Apply has overlapped another.  (It compares *)
(* the tree with the last one it computed, not with what FRR has.)         *)
(***************************************************************************)
TickReconciles ==
  [][TickUnchanged /\ Quiet /\ mem[Agent] = disk /\ tree # {} /\ skew = {}
       => Filters(tree)]_vars

(***************************************************************************)
(* README.md, root add and root remove: they add and remove the FRR BGP    *)
(* neighbour.  Where nothing fails, FRR has the neighbours of state.json   *)
(* when no writer is at work and the text is not garbled.  (A tick applies *)
(* the peers it loaded before it polled them.)                             *)
(***************************************************************************)
NeighborsInStep ==
  Quiet /\ frr \in Config => frr.neighbors = disk
=============================================================================
