----------------------------- MODULE InitProofs -----------------------------
(***************************************************************************)
(* StateFileInit, where `l2mesh init` writes state.json without the lock:  *)
(* its types, and that whatever still parses has distinct peers, for any   *)
(* number of processes, inodes and peers.  The lock protocol of            *)
(* StateFileProofs does not hold here; what does is weaker and enough:     *)
(* nothing but edits of what a command has loaded, and what init makes, is *)
(* ever in memory, and nothing but that or torn text on disk.              *)
(***************************************************************************)
EXTENDS StateFileInit, PeerTableProofs

\* Who has an in-memory state to edit runs a command that edits one.
Editing == \A p \in Proc : pc[p] \in {"waiting", "locked", "loaded"} => cmd[p] \in Command

\* All states there are, in memory or in any inode, have distinct peers.
AllDistinct ==
  /\ \A i \in Inode : data[i] # Torn => UniqueIn(data[i])
  /\ \A p \in Proc : UniqueIn(mem[p])

IInv == TypeOKInit /\ Editing /\ AllDistinct

-----------------------------------------------------------------------------
LEMMA InitIInv == Init => IInv
<1> SUFFICES ASSUME Init PROVE IInv
  OBVIOUS
<1>1. data \in [Inode -> State \cup {Torn}] /\ path \in Inode \cup {None}
  BY FreshStateType DEF Init
<1>2. TypeOKInit
  BY <1>1, DefaultStateType DEF Init, TypeOKInit, Step
<1>3. Editing
  BY DEF Init, Editing
<1>4. AllDistinct
  BY InitialUnique DEF Init, AllDistinct
<1> QED
  BY <1>2, <1>3, <1>4 DEF IInv

\* What a command loads is a state, and its peers are distinct.
LEMMA LoadedState ==
  ASSUME IInv, OnDisk # Torn
  PROVE  OnDisk \in State /\ UniqueIn(OnDisk)
BY DefaultStateType, InitialUnique DEF IInv, TypeOKInit, AllDistinct, OnDisk

LEMMA ExitIInv ==
  ASSUME IInv, NEW p \in Proc, Exit(p), UNCHANGED data,
         path' \in Inode \cup {None}, tmp' \in Inode \cup {None}
  PROVE  IInv'
<1>1. TypeOKInit'
  BY DefaultStateType DEF IInv, TypeOKInit, Exit, Step
<1>2. Editing' /\ AllDistinct'
  BY InitialUnique DEF IInv, TypeOKInit, Editing, AllDistinct, Exit
<1> QED
  BY <1>1, <1>2 DEF IInv

\* Steps of one process: at most its own memory and one inode change.
LEMMA StepIInv ==
  ASSUME IInv, NEW p \in Proc, NEW step \in Step,
         pc' = [pc EXCEPT ![p] = step],
         step \in {"waiting", "locked", "loaded"} => cmd'[p] \in Command,
         \A q \in Proc \ {p} : cmd'[q] = cmd[q],
         cmd' \in [Proc -> Command \cup InitCommand \cup {NoCmd}],
         mem' = mem \/ \E s \in State : UniqueIn(s) /\ mem' = [mem EXCEPT ![p] = s],
         data' = data \/ \E i \in Inode, text \in State \cup {Torn} :
                          /\ text # Torn => UniqueIn(text)
                          /\ data' = [data EXCEPT ![i] = text],
         path' \in Inode \cup {None}, tmp' \in Inode \cup {None}, lock' \in Proc \cup {None},
         fd' \in [Proc -> Inode \cup {None}]
  PROVE  IInv'
<1>1. mem' \in [Proc -> State] /\ \A q \in Proc : UniqueIn(mem'[q])
  BY DEF IInv, TypeOKInit, AllDistinct
<1>2. data' \in [Inode -> State \cup {Torn}] /\ \A i \in Inode : data'[i] # Torn => UniqueIn(data'[i])
  BY DEF IInv, TypeOKInit, AllDistinct
<1>3. TypeOKInit'
  BY <1>1, <1>2 DEF IInv, TypeOKInit
<1>4. Editing'
  BY DEF IInv, TypeOKInit, Editing
<1> QED
  BY <1>1, <1>2, <1>3, <1>4 DEF IInv, AllDistinct, UniqueIn, FlatPeers

\* The steps of WithLock and Save.
LEMMA WorkIInv ==
  ASSUME IInv, NEW p \in Proc, WorkInit(p)
  PROVE  IInv'
<1>0. TypeOKInit /\ Editing /\ AllDistinct /\ mem[p] \in State /\ UniqueIn(mem[p])
  BY DEF IInv, TypeOKInit, AllDistinct
<1>1. CASE Load(p)
  BY <1>0, <1>1, LoadedState, StepIInv DEF Load, files, Step, TypeOKInit, Editing
<1>2. CASE Edit(p)
  <2>1. cmd[p] \in Command
    BY <1>0, <1>2 DEF Edit, Editing
  <2>2. PICK s \in Outcomes(cmd[p], mem[p]) : mem' = [mem EXCEPT ![p] = s]
    BY <1>2 DEF Edit
  <2>3. s \in State /\ UniqueIn(s)
    BY <1>0, <2>1, OutcomesType, OutcomesUnique
  <2> QED
    BY <1>0, <1>2, <2>2, <2>3, StepIInv DEF Edit, files, Step, TypeOKInit
<1>3. CASE OpenTmp(p)
  <2>1. PICK i \in Inode : /\ tmp' = i
                           /\ data' = [data EXCEPT ![i] = Torn]
                           /\ fd' = [fd EXCEPT ![p] = i]
    BY <1>3 DEF OpenTmp
  <2> QED
    BY <1>0, <1>3, <2>1, StepIInv DEF OpenTmp, Step, TypeOKInit
<1>4. CASE WriteTmp(p)
  <2>1. data' = data \/ (fd[p] \in Inode /\ data' = [data EXCEPT ![fd[p]] = mem[p]])
    BY <1>0, <1>4 DEF WriteTmp, TypeOKInit
  <2> QED
    BY <1>0, <1>4, <2>1, StepIInv DEF WriteTmp, Step, TypeOKInit
<1>5. CASE WriteMixed(p)
  <2>1. data' = data \/ (fd[p] \in Inode /\ data' = [data EXCEPT ![fd[p]] = Torn])
    BY <1>0, <1>5 DEF WriteMixed, TypeOKInit
  <2> QED
    BY <1>0, <1>5, <2>1, StepIInv DEF WriteMixed, Step, TypeOKInit
<1>6. CASE Rename(p)
  BY <1>0, <1>6, ExitIInv DEF Rename, TypeOKInit
<1>7. CASE Refuse(p) \/ LoadFails(p) \/ RenameFails(p)
  BY <1>0, <1>7, ExitIInv DEF Refuse, LoadFails, RenameFails, files, TypeOKInit
<1> QED
  BY <1>1, <1>2, <1>3, <1>4, <1>5, <1>6, <1>7 DEF WorkInit, Work

\* IInv is inductive.
LEMMA NextIInv == IInv /\ [NextInit]_vars => IInv'
<1> SUFFICES ASSUME IInv, [NextInit]_vars PROVE IInv'
  OBVIOUS
<1>0. TypeOKInit /\ Editing /\ AllDistinct
  BY DEF IInv
<1>1. ASSUME NEW p \in Proc, NEW c \in Command, Begin(p, c) PROVE IInv'
  BY <1>0, <1>1, StepIInv DEF Begin, files, Step, TypeOKInit
<1>2. ASSUME NEW p \in Proc, NEW c \in InitCommand, BeginInit(p, c) PROVE IInv'
  <2>1. PICK s \in FreshState : mem' = [mem EXCEPT ![p] = s]
    BY <1>2 DEF BeginInit
  <2>2. s \in State /\ UniqueIn(s)
    BY FreshStateType, InitialUnique
  <2> QED
    BY <1>0, <1>2, <2>1, <2>2, StepIInv DEF BeginInit, files, Step, TypeOKInit
<1>3. ASSUME NEW p \in Proc, Flock(p) PROVE IInv'
  BY <1>0, <1>3, StepIInv DEF Flock, files, Step, TypeOKInit, Editing
<1>4. ASSUME NEW p \in Proc, Quit(p) PROVE IInv'
  BY <1>0, <1>4, ExitIInv DEF Quit, files, TypeOKInit
<1>5. CASE UNCHANGED vars
  BY <1>0, <1>5 DEF vars, IInv, TypeOKInit, Editing, AllDistinct
<1> QED
  BY <1>1, <1>2, <1>3, <1>4, <1>5, WorkIInv DEF NextInit

LEMMA Invariance == SpecInit => []IInv
  BY InitIInv, NextIInv, PTL DEF SpecInit

-----------------------------------------------------------------------------
(***************************************************************************)
(* With init writing over everything, each file still holds a state some   *)
(* command or init made, or text that does not parse.                      *)
(***************************************************************************)
THEOREM TypeCorrectInit == SpecInit => []TypeOKInit
<1>1. IInv => TypeOKInit
  BY DEF IInv
<1> QED
  BY <1>1, Invariance, PTL

(***************************************************************************)
(* Even with init at any point, and whatever is lost by it: no state.json  *)
(* that can be read has two peers with one key, address or name of a role. *)
(***************************************************************************)
THEOREM UniqueWithInit == SpecInit => []UniqueIdentities
<1>1. IInv => UniqueIdentities
  BY LoadedState DEF UniqueIdentities
<1> QED
  BY <1>1, Invariance, PTL
=============================================================================
