-------------------------- MODULE StateFileProofs --------------------------
(***************************************************************************)
(* Proofs about StateFile, for any set of processes, inodes, peers, keys   *)
(* and addresses: TypeOK, the lock protocol Serialised, and from them      *)
(* Readable, UniqueIdentities and the refinement of StateStore.            *)
(***************************************************************************)
EXTENDS StateFile, PeerTableProofs

(***************************************************************************)
(* TypeOK and Serialised together are inductive.                           *)
(***************************************************************************)
IInv == TypeOK /\ Serialised

LEMMA OnDiskType ==
  ASSUME IInv
  PROVE  OnDisk \in State
  BY DefaultStateType DEF IInv, TypeOK, Serialised, OnDisk

LEMMA InitIInv == Init => IInv
<1> SUFFICES ASSUME Init PROVE IInv
  OBVIOUS
<1>1. TypeOK
  BY DefaultStateType, FreshStateType, NoneAssumption
  DEF Init, TypeOK, Step
<1>2. Serialised
  BY FreshStateType, NoneAssumption DEF Init, Serialised
<1> QED
  BY <1>1, <1>2 DEF IInv

(***************************************************************************)
(* Ending a process keeps the invariant as long as the files do; others    *)
(* are not past flock when the process that ends holds the lock.           *)
(***************************************************************************)
LEMMA ExitIInv ==
  ASSUME IInv, NEW p \in Proc, Exit(p), UNCHANGED data,
         \/ UNCHANGED <<path, tmp>>
         \/ lock = p /\ tmp # None /\ data[tmp] \in State /\ path' = tmp /\ tmp' = None
  PROVE  IInv'
<1> USE DEF IInv
<1>1. TypeOK'
  BY DefaultStateType, NoneAssumption DEF TypeOK, Exit, Step
<1>2. (path # None => data[path] \in State)' /\ (tmp # None => tmp # path)'
  BY DEF Serialised
<1>3. ASSUME NEW q \in Proc
      PROVE  /\ pc'[q] \in {"idle", "waiting"} <=> lock' # q
             /\ pc'[q] # "idle" => cmd'[q] \in Command
             /\ pc'[q] # "opened" <=> fd'[q] = None
             /\ pc'[q] = "loaded" => mem'[q] = OnDisk'
             /\ pc'[q] \in {"edited", "opened", "written"} => mem'[q] \in Outcomes(cmd'[q], OnDisk')
             /\ pc'[q] = "opened" => fd'[q] = tmp'
             /\ pc'[q] = "written" => tmp' # None /\ data'[tmp'] = mem'[q]
  <2>1. CASE q = p
    BY <2>1, NoneAssumption DEF TypeOK, Serialised, Exit
  <2>2. CASE q # p /\ lock = p
    <3>1. pc'[q] = pc[q] /\ pc[q] \in {"idle", "waiting"} /\ cmd'[q] = cmd[q] /\ fd'[q] = fd[q]
      BY <2>2 DEF TypeOK, Serialised, Exit
    <3> QED
      BY <2>2, <3>1, NoneAssumption DEF TypeOK, Serialised, Exit
  <2>3. CASE q # p /\ lock # p
    <3>1. OnDisk' = OnDisk
      BY <2>3 DEF OnDisk
    <3>2. pc'[q] = pc[q] /\ cmd'[q] = cmd[q] /\ fd'[q] = fd[q] /\ mem'[q] = mem[q]
      BY <2>3 DEF TypeOK, Exit
    <3> QED
      BY <2>3, <3>1, <3>2 DEF Serialised, Exit
  <2> QED
    BY <2>1, <2>2, <2>3
<1> QED
  BY <1>1, <1>2, <1>3 DEF Serialised

(***************************************************************************)
(* Past flock the other processes hold no descriptor and wait, so only the *)
(* acting process has anything to keep.                                    *)
(***************************************************************************)
LEMMA WorkIInv ==
  ASSUME IInv, NEW p \in Proc, Work(p)
  PROVE  IInv'
<1> USE DEF IInv
<1>1. OnDisk \in State
  BY OnDiskType
<1>2. lock = p /\ \A q \in Proc \ {p} : pc[q] \in {"idle", "waiting"} /\ fd[q] = None
  BY DEF Work, Load, Edit, Refuse, OpenTmp, WriteTmp, Rename, Serialised
<1>3. CASE Load(p)
  <2>1. TypeOK'
    BY <1>1, <1>3 DEF TypeOK, Load, files, Step
  <2>2. OnDisk' = OnDisk
    BY <1>3 DEF Load, files, OnDisk
  <2> QED
    BY <1>2, <1>3, <2>1, <2>2 DEF TypeOK, Serialised, Load, files
<1>4. CASE Edit(p)
  <2>1. PICK s \in Outcomes(cmd[p], mem[p]) : mem' = [mem EXCEPT ![p] = s]
    BY <1>4 DEF Edit
  <2>2. mem[p] = OnDisk /\ cmd[p] \in Command
    BY <1>4 DEF Edit, Serialised
  <2>3. s \in State
    BY <1>1, <2>1, <2>2, OutcomesType
  <2>4. TypeOK'
    BY <1>4, <2>1, <2>3 DEF TypeOK, Edit, files, Step
  <2>5. OnDisk' = OnDisk
    BY <1>4 DEF Edit, files, OnDisk
  <2> QED
    BY <1>2, <1>4, <2>1, <2>2, <2>4, <2>5 DEF TypeOK, Serialised, Edit, files
<1>5. CASE Refuse(p)
  BY <1>5, ExitIInv DEF Refuse, files
<1>6. CASE OpenTmp(p)
  <2>1. PICK i \in Inode : /\ IF tmp = None THEN ~InUse(i) ELSE i = tmp
                           /\ tmp' = i
                           /\ data' = [data EXCEPT ![i] = Torn]
                           /\ fd' = [fd EXCEPT ![p] = i]
    BY <1>6 DEF OpenTmp
  <2>2. i # path
    BY <2>1 DEF InUse, Serialised
  <2>3. TypeOK'
    BY <1>6, <2>1 DEF TypeOK, OpenTmp, Step
  <2>4. OnDisk' = OnDisk /\ (path # None => data[path] \in State)'
    BY <1>6, <2>1, <2>2 DEF OpenTmp, OnDisk, TypeOK, Serialised
  <2> QED
    BY <1>2, <1>6, <2>1, <2>2, <2>3, <2>4, NoneAssumption DEF TypeOK, Serialised, OpenTmp
<1>7. CASE WriteTmp(p)
  <2>1. fd[p] = tmp /\ tmp \in Inode /\ tmp # path
    BY <1>7 DEF WriteTmp, TypeOK, Serialised
  <2>2. TypeOK'
    BY <1>7, <2>1 DEF TypeOK, WriteTmp, Step
  <2>3. OnDisk' = OnDisk /\ (path # None => data[path] \in State)'
    BY <1>7, <2>1 DEF WriteTmp, OnDisk, TypeOK, Serialised
  <2> QED
    BY <1>2, <1>7, <2>1, <2>2, <2>3, NoneAssumption DEF TypeOK, Serialised, WriteTmp
<1>8. CASE Rename(p)
  <2>1. tmp # None /\ data[tmp] \in State
    BY <1>8 DEF Rename, TypeOK, Serialised
  <2> QED
    BY <1>2, <1>8, <2>1, ExitIInv DEF Rename
<1> QED
  BY <1>3, <1>4, <1>5, <1>6, <1>7, <1>8 DEF Work

LEMMA NextIInv == IInv /\ [Next]_vars => IInv'
<1> SUFFICES ASSUME IInv, [Next]_vars PROVE IInv'
  OBVIOUS
<1>1. CASE UNCHANGED vars
  BY <1>1 DEF vars, IInv, TypeOK, Serialised, OnDisk
<1>2. ASSUME NEW p \in Proc, NEW c \in Command, Begin(p, c)
      PROVE  IInv'
  <2>1. OnDisk' = OnDisk
    BY <1>2 DEF Begin, files, OnDisk
  <2>2. TypeOK'
    BY <1>2 DEF IInv, TypeOK, Begin, files, Step
  <2> QED
    BY <1>2, <2>1, <2>2 DEF IInv, TypeOK, Serialised, Begin, files
<1>3. ASSUME NEW p \in Proc, Flock(p)
      PROVE  IInv'
  <2>1. OnDisk' = OnDisk
    BY <1>3 DEF Flock, files, OnDisk
  <2>2. TypeOK'
    BY <1>3 DEF IInv, TypeOK, Flock, files, Step
  <2> QED
    BY <1>3, <2>1, <2>2, NoneAssumption DEF IInv, TypeOK, Serialised, Flock, files
<1>4. ASSUME NEW p \in Proc, Work(p)
      PROVE  IInv'
  BY <1>4, WorkIInv
<1>5. ASSUME NEW p \in Proc, Quit(p)
      PROVE  IInv'
  BY <1>5, ExitIInv DEF Quit, files
<1> QED
  BY <1>1, <1>2, <1>3, <1>4, <1>5 DEF Next

(***************************************************************************)
(* Only a rename changes what state.json holds, and it puts there the edit *)
(* the renaming command made of what it replaces.                          *)
(***************************************************************************)
LEMMA StepUpdatesStore ==
  ASSUME IInv, [Next]_vars
  PROVE  OnDisk' = OnDisk \/ \E c \in Command : OnDisk' \in Outcomes(c, OnDisk)
<1> USE DEF IInv
<1>1. ASSUME NEW p \in Proc, OpenTmp(p)
      PROVE  OnDisk' = OnDisk
  <2>1. PICK i \in Inode : /\ IF tmp = None THEN ~InUse(i) ELSE i = tmp
                           /\ data' = [data EXCEPT ![i] = Torn]
    BY <1>1 DEF OpenTmp
  <2>2. i # path
    BY <2>1 DEF InUse, Serialised
  <2> QED
    BY <1>1, <2>1, <2>2 DEF OpenTmp, OnDisk, TypeOK
<1>2. ASSUME NEW p \in Proc, WriteTmp(p)
      PROVE  OnDisk' = OnDisk
  <2>1. fd[p] = tmp /\ tmp \in Inode /\ tmp # path
    BY <1>2 DEF WriteTmp, TypeOK, Serialised
  <2> QED
    BY <1>2, <2>1 DEF WriteTmp, OnDisk, TypeOK
<1>3. ASSUME NEW p \in Proc, Rename(p)
      PROVE  \E c \in Command : OnDisk' \in Outcomes(c, OnDisk)
  <2>1. /\ cmd[p] \in Command
        /\ mem[p] \in Outcomes(cmd[p], OnDisk)
        /\ tmp # None /\ data[tmp] = mem[p]
    BY <1>3 DEF Rename, Serialised
  <2>2. OnDisk' = mem[p]
    BY <1>3, <2>1 DEF Rename, OnDisk
  <2> QED
    BY <2>1, <2>2
<1>4. ASSUME NEW p \in Proc,
             \/ \E c \in Command : Begin(p, c)
             \/ Flock(p) \/ Load(p) \/ Edit(p) \/ Refuse(p) \/ Quit(p)
      PROVE  OnDisk' = OnDisk
  BY <1>4 DEF Begin, Flock, Load, Edit, Refuse, Quit, files, OnDisk
<1>5. CASE UNCHANGED vars
  BY <1>5 DEF vars, OnDisk
<1> QED
  BY <1>1, <1>2, <1>3, <1>4, <1>5 DEF Next, Work

-----------------------------------------------------------------------------
LEMMA Invariance == Spec => []IInv
  BY InitIInv, NextIInv, PTL DEF Spec

(***************************************************************************)
(* Every reachable state of the file protocol is well typed: in particular *)
(* a file that can be read always holds a state a command could have made. *)
(***************************************************************************)
THEOREM TypeCorrect == Spec => []TypeOK
<1>1. IInv => TypeOK
  BY DEF IInv
<1> QED
  BY <1>1, Invariance, PTL

(***************************************************************************)
(* The lock protocol of WithLock and Save holds for any number of          *)
(* concurrent commands, failing or killed anywhere.                        *)
(***************************************************************************)
THEOREM LockProtocol == Spec => []Serialised
<1>1. IInv => Serialised
  BY DEF IInv
<1> QED
  BY <1>1, Invariance, PTL

(***************************************************************************)
(* state.json always parses, wherever commands are interrupted.            *)
(***************************************************************************)
THEOREM AlwaysReadable == Spec => []Readable
<1>1. IInv => Readable
  BY OnDiskType, TornAssumption DEF Readable
<1> QED
  BY <1>1, Invariance, PTL

(***************************************************************************)
(* The peer table on disk never holds two peers with one key, address or   *)
(* name of a role.                                                         *)
(***************************************************************************)
THEOREM AlwaysUnique == Spec => []UniqueIdentities
<1>1. Init => UniqueIn(OnDisk)
  BY InitialUnique, NoneAssumption DEF Init, OnDisk
<1>2. IInv /\ UniqueIn(OnDisk) /\ [Next]_vars => UniqueIn(OnDisk)'
  <2> SUFFICES ASSUME IInv, UniqueIn(OnDisk), [Next]_vars PROVE UniqueIn(OnDisk')
    BY DEF UniqueIn, FlatPeers
  <2>1. CASE OnDisk' = OnDisk
    BY <2>1
  <2>2. CASE \E c \in Command : OnDisk' \in Outcomes(c, OnDisk)
    BY <2>2, OnDiskType, OutcomesUnique
  <2> QED
    BY <2>1, <2>2, StepUpdatesStore
<1>3. UniqueIn(OnDisk) => UniqueIdentities
  BY DEF UniqueIdentities
<1> QED
  BY <1>1, <1>2, <1>3, Invariance, PTL DEF Spec

(***************************************************************************)
(* StateStore reads PeerTable with the same constants.                     *)
(***************************************************************************)
LEMMA SameTable ==
  /\ Store!DefaultState = DefaultState
  /\ Store!FreshState = FreshState
  /\ Store!Command = Command
  /\ \A c, s : Store!Outcomes(c, s) = Outcomes(c, s)
<1>1. Store!DefaultState = DefaultState
  BY DEF Store!DefaultState, DefaultState
<1>2. Store!FreshState = FreshState
  BY DEF Store!FreshState, FreshState, Store!Role, Role
<1>3. Store!Command = Command
  BY DEF Store!Command, Command
<1>4. ASSUME NEW c, NEW s
      PROVE  Store!Outcomes(c, s) = Outcomes(c, s)
  <2>1. Store!AddPeer(s, c.role, c.peer) = AddPeer(s, c.role, c.peer)
    BY DEF Store!AddPeer, AddPeer, Store!CanAdd, CanAdd, Store!PutPeers, PutPeers,
           Store!PeersOf, PeersOf, Store!FlatPeers, FlatPeers
  <2>2. Store!RemovePeer(s, c.role, c.name) = RemovePeer(s, c.role, c.name)
    BY DEF Store!RemovePeer, RemovePeer, Store!PutPeers, PutPeers, Store!PeersOf, PeersOf
  <2>3. Store!Promote(s, c.endpoint) = Promote(s, c.endpoint)
    BY DEF Store!Promote, Promote
  <2>4. Store!Demote(s) = Demote(s)
    BY DEF Store!Demote, Demote
  <2> QED
    BY <2>1, <2>2, <2>3, <2>4 DEF Store!Outcomes, Outcomes
<1> QED
  BY <1>1, <1>2, <1>3, <1>4

(***************************************************************************)
(* The file protocol implements the atomic register StateStore: commands   *)
(* running at the same time never lose an update nor act on an older state *)
(* than the one they replace.                                              *)
(***************************************************************************)
THEOREM ImplementsStore == Spec => AtomicUpdates
<1>1. Init => Store!Init
  BY NoneAssumption, SameTable DEF Init, OnDisk, Store!Init
<1>2. IInv /\ [Next]_vars => [Store!Next]_OnDisk
  BY StepUpdatesStore, SameTable DEF Store!Next, Store!Update
<1> QED
  BY <1>1, <1>2, Invariance, PTL DEF Spec, AtomicUpdates, Store!Spec
=============================================================================
