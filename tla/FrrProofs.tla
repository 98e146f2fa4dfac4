----------------------------- MODULE FrrProofs -----------------------------
(***************************************************************************)
(* FrrConfig keeps its types, and an Apply that nothing has disturbed      *)
(* leaves FRR in step with state.json; Applies that overlap leave it with  *)
(* the text in the file: for any number of commands and peers.             *)
(***************************************************************************)
EXTENDS FrrConfig, TLAPS

Writing(w) == pc[w] \in {"open", "write", "reload"}

Solo(w) == \A v \in Writer : v # w => ~Applying(v)

InStep(peers) ==
  /\ frr \in Config
  /\ frr.neighbors = peers
  /\ frr.blocked = {} \/ frr.blocked = frr.neighbors \ last

\* The lock is held until the save, and only its holder saves.
Locked ==
  \A w \in Writer : (lock = w => Applying(w)) /\ (pc[w] = "save" => lock = w)

\* The text of a writer is for the peers it works from; only the agent's has a filter.
Jobs ==
  \A w \in Writer : Writing(w) =>
    /\ job[w] \in Config
    /\ job[w].neighbors = mem[w]
    /\ job[w].blocked = {} \/ (w = Agent /\ job[w].blocked = mem[w] \ last)

\* A writer that is alone works from the right peers, and the file is its own.
AloneOK ==
  \A w \in Writer : alone = w =>
    /\ Writing(w) /\ Solo(w)
    /\ lock = w \/ mem[w] = disk
    /\ pc[w] = "write" => conf = Empty
    /\ pc[w] = "reload" => conf = job[w]

\* As long as nothing has overlapped or failed, writers have come one after the other.
Undisturbed ==
  skew = {} =>
    /\ \A w \in Writer : Writing(w) => alone = w
    /\ \A w \in Writer : pc[w] = "save" => Solo(w) /\ InStep(mem[w])
    /\ Quiet => InStep(disk)

IInv == TypeOK /\ Locked /\ Jobs /\ AloneOK /\ Undisturbed

-----------------------------------------------------------------------------
\* A generated text is one of a configuration, for any set of peers and any tree.
LEMMA GeneratedConfig ==
  ASSUME NEW peers \in SUBSET Peer, NEW mst
  PROVE  /\ GenerateConfig(peers, mst) \in Config
         /\ GenerateConfig(peers, mst).neighbors = peers
         /\ GenerateConfig(peers, Nil).blocked = {}
         /\ GenerateConfig(peers, mst).blocked \in {{}, peers \ mst}
BY DEF GenerateConfig, Config

\* The initial states have the types.
LEMMA InitTypes == Init => TypeOK
<1> SUFFICES ASSUME Init PROVE TypeOK
  OBVIOUS
<1>1. conf \in Config
  BY GeneratedConfig DEF Init
<1> QED
  BY <1>1 DEF Init, TypeOK

\* Every step keeps the types.
LEMMA NextTypes == TypeOK /\ [Next]_vars => TypeOK'
<1> SUFFICES ASSUME TypeOK, [Next]_vars PROVE TypeOK'
  OBVIOUS
<1> USE DEF TypeOK, Writer
<1>1. ASSUME NEW w \in Writer, NEW peers \in SUBSET Peer, NEW mst, NEW fresh \in BOOLEAN,
             BeginApply(w, peers, mst, fresh)
      PROVE  /\ pc' \in [Writer -> {"idle", "fetch", "open", "write", "reload", "save"}]
             /\ mem' \in [Writer -> SUBSET Peer]
             /\ job' \in [Writer -> Config \cup {Empty}]
             /\ alone' \in Writer \cup {None} /\ skew' \subseteq {"overlap", "failure"}
  BY <1>1, GeneratedConfig DEF BeginApply
<1>2. ASSUME NEW w \in Writer, OpenConf(w) PROVE TypeOK'
  BY <1>2 DEF OpenConf
<1>3. ASSUME NEW w \in Writer, WriteConf(w) PROVE TypeOK'
  BY <1>3 DEF WriteConf
<1>4. ASSUME NEW w \in Writer, Reload(w) PROVE TypeOK'
  BY <1>4 DEF Reload, AfterApply, End
<1>5. ASSUME NEW w \in Writer, ApplyFails(w) PROVE TypeOK'
  BY <1>5 DEF ApplyFails, AfterApply, End
<1>6. ASSUME NEW p \in Proc, Change(p) PROVE TypeOK'
  <2>1. PICK peers \in SUBSET Peer : BeginApply(p, peers, Nil, TRUE)
    BY <1>6 DEF Change
  <2> QED
    BY <1>1, <1>6, <2>1 DEF Change
<1>7. ASSUME NEW p \in Proc, Sync(p) PROVE TypeOK'
  BY <1>1, <1>7 DEF Sync
<1>8. ASSUME NEW p \in Proc, Save(p) PROVE TypeOK'
  BY <1>8 DEF Save, End
<1>9. ASSUME TickLoad PROVE TypeOK'
  BY <1>9 DEF TickLoad
<1>10. ASSUME TickUnchanged PROVE TypeOK'
  BY <1>10 DEF TickUnchanged, End
<1>11. ASSUME TickChanged PROVE TypeOK'
  BY <1>1, <1>11 DEF TickChanged
<1>12. ASSUME NEW w \in Writer, Kill(w) PROVE TypeOK'
  BY <1>12 DEF Kill, End
<1>13. ASSUME FrrRestart PROVE TypeOK'
  BY <1>13 DEF FrrRestart
<1>14. ASSUME TreeMoves PROVE TypeOK'
  BY <1>14 DEF TreeMoves
<1>15. ASSUME UNCHANGED vars PROVE TypeOK'
  BY <1>15 DEF vars
<1> QED
  BY <1>2, <1>3, <1>4, <1>5, <1>6, <1>7, <1>8, <1>9, <1>10, <1>11, <1>12, <1>13, <1>14, <1>15
  DEF Next, ApplyStep

(***************************************************************************)
(* Every variable of FrrConfig keeps its type.                             *)
(***************************************************************************)
THEOREM TypeCorrect == Spec => []TypeOK
BY InitTypes, NextTypes, PTL DEF Spec

-----------------------------------------------------------------------------
\* The invariant holds before any writer has begun.
LEMMA InitIInv == Init => IInv
<1> SUFFICES ASSUME Init PROVE IInv
  OBVIOUS
<1>1. TypeOK
  BY InitTypes
<1>2. frr \in Config /\ frr.neighbors = disk /\ frr.blocked = {}
  BY GeneratedConfig DEF Init
<1>3. \A w \in Writer : pc[w] = "idle" /\ alone # w /\ lock # w
  BY NoneAssumption DEF Init, Writer
<1> QED
  BY <1>1, <1>2, <1>3 DEF IInv, Locked, Jobs, AloneOK, Undisturbed, Writing, Applying, InStep

\* Beginning an Apply: alone it keeps the invariant, beside another one it counts as an overlap.
LEMMA BeginIInv ==
  ASSUME IInv, TypeOK',
         NEW w \in Writer, NEW peers \in SUBSET Peer, NEW mst, NEW fresh \in BOOLEAN,
         ~Applying(w), BeginApply(w, peers, mst, fresh),
         mst = Nil \/ (w = Agent /\ last' = mst),
         w = Agent \/ last' = last,
         lock' = lock \/ (lock = None /\ lock' = w),
         fresh => lock' = w \/ peers = disk,
         UNCHANGED <<disk, conf, frr, tree>>
  PROVE  IInv'
<1> USE DEF Writing, Applying, Writer
<1>1. pc' = [pc EXCEPT ![w] = "open"] /\ mem' = [mem EXCEPT ![w] = peers]
  BY DEF BeginApply
<1>2. /\ job' = [job EXCEPT ![w] = GenerateConfig(peers, mst)]
      /\ GenerateConfig(peers, mst) \in Config
      /\ GenerateConfig(peers, mst).neighbors = peers
      /\ \/ GenerateConfig(peers, mst).blocked = {}
         \/ w = Agent /\ GenerateConfig(peers, mst).blocked = peers \ last'
  <2>1. CASE mst = Nil
    BY <2>1, GeneratedConfig DEF BeginApply
  <2>2. CASE w = Agent /\ last' = mst
    <3>1. GenerateConfig(peers, mst).blocked \in {{}, peers \ mst}
      BY GeneratedConfig
    <3> QED
      BY <2>2, <3>1, GeneratedConfig DEF BeginApply
  <2> QED
    BY <2>1, <2>2
<1>3. CASE Solo(w) /\ fresh
  <2>1. alone' = w /\ skew' = skew
    BY <1>3 DEF Solo, Others, BeginApply
  <2>2. Locked'
    BY <1>1, NoneAssumption DEF IInv, TypeOK, Locked
  <2>3. Jobs'
    BY <1>1, <1>2, <1>3 DEF IInv, TypeOK, Jobs, Solo
  <2>4. AloneOK'
    BY <1>1, <1>3, <2>1 DEF IInv, TypeOK, AloneOK, Solo
  <2>5. Undisturbed'
    BY <1>1, <1>3, <2>1 DEF IInv, TypeOK, Undisturbed, Solo, Quiet
  <2> QED
    BY <2>2, <2>3, <2>4, <2>5 DEF IInv
<1>4. CASE ~(Solo(w) /\ fresh)
  <2>1. alone' = None /\ skew' # {}
    BY <1>4 DEF Solo, Others, BeginApply
  <2>2. Locked'
    BY <1>1, NoneAssumption DEF IInv, TypeOK, Locked
  <2>3. Jobs'
    BY <1>1, <1>2 DEF IInv, TypeOK, Jobs
  <2> QED
    BY <2>1, <2>2, <2>3, NoneAssumption DEF IInv, AloneOK, Undisturbed
<1> QED
  BY <1>3, <1>4

\* The two steps of writing the file.
LEMMA WriteIInv ==
  ASSUME IInv, TypeOK', NEW w \in Writer, OpenConf(w) \/ WriteConf(w)
  PROVE  IInv'
<1> USE DEF Writing, Applying, OpenConf, WriteConf
<1>1. \E s \in {"write", "reload"} : pc' = [pc EXCEPT ![w] = s]
  OBVIOUS
<1>2. UNCHANGED <<disk, lock, mem, job, frr, tree, last, alone, skew>> /\ Writing(w)
  OBVIOUS
<1>3. Locked'
  BY <1>1, <1>2 DEF IInv, TypeOK, Locked
<1>4. Jobs'
  BY <1>1, <1>2 DEF IInv, TypeOK, Jobs
<1>5. AloneOK'
  BY <1>2 DEF IInv, TypeOK, AloneOK, Solo
<1>6. Undisturbed'
  BY <1>1, <1>2 DEF IInv, TypeOK, Undisturbed, Solo, InStep, Quiet
<1> QED
  BY <1>3, <1>4, <1>5, <1>6 DEF IInv

\* A reload of a writer that is alone brings FRR in step again.
LEMMA ReloadIInv ==
  ASSUME IInv, TypeOK', NEW w \in Writer, Reload(w)
  PROVE  IInv'
<1> USE DEF Writing, Applying
<1>1. \/ lock # w /\ pc' = [pc EXCEPT ![w] = "idle"] /\ mem' = [mem EXCEPT ![w] = {}]
      \/ lock = w /\ pc' = [pc EXCEPT ![w] = "save"] /\ mem' = mem
  BY DEF Reload, AfterApply, End
<1>2. UNCHANGED <<disk, lock, conf, tree, last>> /\ Writing(w)
  BY DEF Reload
<1>3. job' = [job EXCEPT ![w] = Empty] /\ alone' = IF alone = w THEN None ELSE alone
  BY DEF Reload, AfterApply, End
<1>4. Locked'
  BY <1>1, <1>2 DEF IInv, TypeOK, Locked
<1>5. Jobs'
  BY <1>1, <1>2, <1>3 DEF IInv, TypeOK, Jobs
<1>6. CASE alone = w
  <2>1. frr' = job[w] /\ job[w] \in Config
    BY <1>2, <1>6, TextAssumption DEF IInv, Jobs, AloneOK, Reload
  <2>2. AloneOK'
    BY <1>3, <1>6, NoneAssumption DEF AloneOK, Writer
  <2>3. Solo(w) /\ (lock = w \/ mem[w] = disk)
    BY <1>6 DEF IInv, AloneOK
  <2>4. frr'.neighbors = mem[w] /\ (frr'.blocked = {} \/ frr'.blocked = mem[w] \ last)
    BY <1>2, <2>1 DEF IInv, Jobs
  <2>5. Undisturbed'
    <3>1. ASSUME lock # w PROVE Undisturbed'
      BY <1>1, <1>2, <2>1, <2>3, <2>4, <3>1 DEF IInv, TypeOK, Undisturbed, Solo, InStep, Quiet
    <3>2. ASSUME lock = w PROVE Undisturbed'
      BY <1>1, <1>2, <2>1, <2>3, <2>4, <3>2 DEF IInv, TypeOK, Undisturbed, Solo, InStep, Quiet
    <3> QED
      BY <3>1, <3>2
  <2> QED
    BY <1>4, <1>5, <2>2, <2>5 DEF IInv
<1>7. CASE alone # w
  <2>1. skew' = skew /\ alone' = alone /\ skew # {}
    BY <1>2, <1>3, <1>7 DEF IInv, Undisturbed, Reload
  <2>2. AloneOK'
    BY <1>1, <1>2, <1>3, <1>7, <2>1 DEF IInv, TypeOK, AloneOK, Solo
  <2> QED
    BY <1>4, <1>5, <2>1, <2>2 DEF IInv, Undisturbed
<1> QED
  BY <1>6, <1>7

\* A step after which a failure is on record: a writer gives up, or dies, or FRR restarts.
LEMMA FailureIInv ==
  ASSUME IInv, TypeOK', NEW w \in Writer, ApplyFails(w) \/ Kill(w) \/ FrrRestart
  PROVE  IInv'
<1> USE DEF Writing, Applying
<1>1. skew' # {} /\ disk' = disk /\ conf' = conf
  BY DEF ApplyFails, Kill, FrrRestart
<1>2. Undisturbed'
  BY <1>1 DEF Undisturbed
<1>3. CASE ApplyFails(w)
  <2> USE DEF ApplyFails, AfterApply, End
  <2>1. Locked'
    BY <1>3 DEF IInv, TypeOK, Locked
  <2>2. Jobs'
    BY <1>3 DEF IInv, TypeOK, Jobs
  <2>3. AloneOK'
    BY <1>3, NoneAssumption DEF IInv, TypeOK, AloneOK, Solo, Writer
  <2> QED
    BY <1>2, <2>1, <2>2, <2>3 DEF IInv
<1>4. CASE Kill(w)
  <2> USE DEF Kill, End
  <2>1. Locked'
    BY <1>4, NoneAssumption DEF IInv, TypeOK, Locked, Writer
  <2>2. Jobs'
    BY <1>4 DEF IInv, TypeOK, Jobs
  <2>3. AloneOK'
    BY <1>4, NoneAssumption DEF IInv, TypeOK, AloneOK, Solo, Writer
  <2> QED
    BY <1>2, <2>1, <2>2, <2>3 DEF IInv
<1>5. CASE FrrRestart
  BY <1>2, <1>5 DEF FrrRestart, IInv, Locked, Jobs, AloneOK, Solo
<1> QED
  BY <1>3, <1>4, <1>5

\* The save of a command puts on disk the peers FRR was configured for.
LEMMA SaveIInv ==
  ASSUME IInv, TypeOK', NEW p \in Proc, Save(p)
  PROVE  IInv'
<1> USE DEF Writing, Applying, Save, End
<1>1. lock = p /\ p \in Writer
  BY DEF IInv, Locked, Writer
<1>2. Locked'
  BY <1>1, NoneAssumption DEF IInv, TypeOK, Locked, Writer
<1>3. Jobs'
  BY DEF IInv, TypeOK, Jobs
<1>4. \A w \in Writer : alone # w
  BY <1>1 DEF IInv, AloneOK, Solo
<1>5. AloneOK'
  BY <1>4 DEF AloneOK
<1>6. Undisturbed'
  BY <1>1 DEF IInv, TypeOK, Undisturbed, Solo, InStep, Quiet
<1> QED
  BY <1>2, <1>3, <1>5, <1>6 DEF IInv

\* The steps of the agent that touch neither the file nor FRR, and the mesh's.
LEMMA QuietIInv ==
  ASSUME IInv, TypeOK', TickLoad \/ TickUnchanged \/ TreeMoves \/ UNCHANGED vars
  PROVE  IInv'
<1> USE DEF Writing, Applying
<1>1. UNCHANGED <<disk, lock, conf, frr, last, alone, skew>>
  BY DEF TickLoad, TickUnchanged, TreeMoves, vars
<1>2. \A w \in Writer :
        /\ (Writing(w)' <=> Writing(w)) /\ (Applying(w)' <=> Applying(w))
        /\ Applying(w) => pc'[w] = pc[w] /\ mem'[w] = mem[w] /\ job'[w] = job[w]
  BY DEF TickLoad, TickUnchanged, TreeMoves, vars, End, IInv, TypeOK
<1>3. Locked' /\ Jobs'
  BY <1>1, <1>2 DEF IInv, Locked, Jobs
<1>4. AloneOK'
  BY <1>1, <1>2 DEF IInv, AloneOK, Solo
<1>5. Undisturbed'
  BY <1>1, <1>2 DEF IInv, Undisturbed, Solo, InStep, Quiet
<1> QED
  BY <1>3, <1>4, <1>5 DEF IInv

\* IInv is inductive.
LEMMA NextIInv == IInv /\ [Next]_vars => IInv'
<1> SUFFICES ASSUME IInv, [Next]_vars PROVE IInv'
  OBVIOUS
<1>1. TypeOK'
  BY NextTypes DEF IInv
<1>2. ASSUME NEW p \in Proc, Change(p) PROVE IInv'
  <2>1. PICK peers \in SUBSET Peer : BeginApply(p, peers, Nil, TRUE)
    BY <1>2 DEF Change, IInv, TypeOK
  <2> QED
    BY <1>1, <1>2, <2>1, BeginIInv DEF Change, Applying, Writer
<1>3. ASSUME NEW p \in Proc, Sync(p) PROVE IInv'
  <2>1. BeginApply(p, disk, Nil, TRUE) /\ disk \in SUBSET Peer
    BY <1>3 DEF Sync, IInv, TypeOK
  <2> QED
    BY <1>1, <1>3, <2>1, BeginIInv DEF Sync, Applying, Writer
<1>4. ASSUME TickChanged PROVE IInv'
  <2>1. BeginApply(Agent, mem[Agent], tree, mem[Agent] = disk) /\ mem[Agent] \in SUBSET Peer
    BY <1>4 DEF TickChanged, IInv, TypeOK, Writer
  <2> QED
    BY <1>1, <1>4, <2>1, BeginIInv DEF TickChanged, Applying, Writer
<1> QED
  BY <1>1, <1>2, <1>3, <1>4, WriteIInv, ReloadIInv, FailureIInv, SaveIInv, QuietIInv
  DEF Next, ApplyStep, Writer

(***************************************************************************)
(* frr.Apply by agent and commands: writers that neither fail nor overlap  *)
(* leave FRR with the neighbours of state.json, and a filter that is       *)
(* fail-open or the one of the last tree the agent acted on.               *)
(***************************************************************************)
THEOREM AlwaysInStep == Spec => []FrrInStep
<1>1. IInv => FrrInStep
  BY DEF IInv, Undisturbed, FrrInStep, InStep, Filters
<1> QED
  BY <1>1, InitIInv, NextIInv, PTL DEF Spec

-----------------------------------------------------------------------------
(***************************************************************************)
(* Writers in between one another.  A whole text in the file is one of     *)
(* theirs, and FRR has it or somebody is yet to load it; only until the    *)
(* agent opens the file for its new tree can it hold the former filter.    *)
(***************************************************************************)
Filter(c) == c.blocked = {} \/ c.blocked = c.neighbors \ last

FileOK ==
  "failure" \notin skew /\ conf # Garbled =>
    /\ conf = Empty => \E w \in Writer : pc[w] = "write"
    /\ conf # Empty => conf \in Config /\ (Filter(conf) \/ pc[Agent] = "open")
    /\ frr = conf \/ \E w \in Writer : pc[w] \in {"write", "reload"}

\* Initially the file and FRR have what `sync` generates.
LEMMA InitFile == Init => FileOK
<1> SUFFICES ASSUME Init PROVE FileOK
  OBVIOUS
<1>1. conf \in Config /\ conf.blocked = {} /\ frr = conf
  BY GeneratedConfig DEF Init
<1> QED
  BY <1>1, TextAssumption DEF FileOK, Filter

\* A writer truncates the file, or writes its text into it.
LEMMA WriteFile ==
  ASSUME IInv, FileOK, NEW w \in Writer, OpenConf(w) \/ WriteConf(w)
  PROVE  FileOK'
<1>1. TypeOK /\ Jobs
  BY DEF IInv
<1>2. CASE OpenConf(w)
  <2>1. conf' = Empty /\ pc'[w] = "write"
    BY <1>1, <1>2 DEF OpenConf, TypeOK
  <2> QED
    BY <2>1 DEF FileOK
<1>3. CASE WriteConf(w)
  <2>1. /\ pc'[w] = "reload" /\ last' = last
        /\ conf' = job[w] \/ conf' = Garbled
    BY <1>1, <1>3 DEF WriteConf, TypeOK
  <2>2. job[w] \in Config /\ Filter(job[w])
    BY <1>1, <1>3 DEF WriteConf, Jobs, Writing, Filter, Config
  <2> QED
    BY <2>1, <2>2, TextAssumption DEF FileOK, Filter
<1> QED
  BY <1>2, <1>3

\* Whoever reloads brings the file into FRR, and clears a failure only if the file is its own.
LEMMA ReloadFile ==
  ASSUME IInv, FileOK, NEW w \in Writer, Reload(w)
  PROVE  FileOK'
<1>1. TypeOK /\ Jobs /\ AloneOK
  BY DEF IInv
<1>2. /\ UNCHANGED <<conf, last>> /\ pc[w] = "reload"
      /\ frr' = conf \/ conf = Garbled
      /\ \A v \in Writer \ {w} : pc'[v] = pc[v]
  BY <1>1 DEF Reload, AfterApply, End, TypeOK
<1>3. CASE alone = w
  <2>1. conf = job[w] /\ job[w] \in Config /\ Filter(job[w])
    BY <1>1, <1>2, <1>3 DEF AloneOK, Jobs, Writing, Filter, Config
  <2> QED
    BY <1>2, <2>1, TextAssumption DEF FileOK, Filter
<1>4. CASE alone # w
  <2>1. skew' = skew
    BY <1>4 DEF Reload
  <2>2. pc'[Agent] = pc[Agent] \/ (w = Agent /\ pc[Agent] # "open")
    BY <1>2 DEF Writer
  <2> QED
    BY <1>2, <2>1, <2>2 DEF FileOK, Filter
<1> QED
  BY <1>3, <1>4

\* Where an Apply begins the file and FRR stay; the agent that has a new tree is about to open it.
LEMMA BeginFile ==
  ASSUME IInv, FileOK, NEW w \in Writer, NEW peers, NEW mst, NEW fresh \in BOOLEAN,
         ~Applying(w), BeginApply(w, peers, mst, fresh),
         w = Agent \/ last' = last, UNCHANGED <<conf, frr>>
  PROVE  FileOK'
<1>1. /\ pc' = [pc EXCEPT ![w] = "open"] /\ skew \subseteq skew'
      /\ pc[w] \notin {"open", "write", "reload"}
  BY DEF BeginApply, Applying
<1>2. \A v \in Writer \ {w} : pc'[v] = pc[v]
  BY <1>1 DEF IInv, TypeOK
<1>3. w = Agent => pc'[Agent] = "open"
  BY <1>1 DEF IInv, TypeOK
<1>4. pc[Agent] = "open" => pc'[Agent] = "open"
  BY <1>1, <1>2, <1>3 DEF Writer
<1> QED
  BY <1>1, <1>2, <1>3, <1>4 DEF FileOK, Filter

\* The other steps change neither the file nor FRR, or are failures.
LEMMA OtherFile ==
  ASSUME IInv, FileOK,
         \/ \E w \in Writer : ApplyFails(w) \/ Kill(w)
         \/ \E p \in Proc : Save(p)
         \/ FrrRestart \/ TickLoad \/ TickUnchanged \/ TreeMoves \/ UNCHANGED vars
  PROVE  FileOK'
<1>1. CASE (\E w \in Writer : ApplyFails(w) \/ Kill(w)) \/ FrrRestart
  BY <1>1 DEF ApplyFails, Kill, FrrRestart, FileOK
<1>2. CASE (\E p \in Proc : Save(p)) \/ TickLoad \/ TickUnchanged \/ TreeMoves \/ UNCHANGED vars
  <2>1. /\ UNCHANGED <<conf, frr, last, skew>>
        /\ \A w \in Writer : pc[w] \in {"open", "write", "reload"} => pc'[w] = pc[w]
    BY <1>2 DEF Save, TickLoad, TickUnchanged, TreeMoves, End, vars, IInv, TypeOK
  <2> QED
    BY <2>1 DEF FileOK, Filter, Writer
<1> QED
  BY <1>1, <1>2

LEMMA NextFile == IInv /\ FileOK /\ [Next]_vars => FileOK'
<1> SUFFICES ASSUME IInv, FileOK, [Next]_vars PROVE FileOK'
  OBVIOUS
<1>1. ASSUME NEW p \in Proc, Change(p) \/ Sync(p) PROVE FileOK'
  <2>1. PICK peers : BeginApply(p, peers, Nil, TRUE)
    BY <1>1 DEF Change, Sync
  <2>2. p \in Writer /\ ~Applying(p) /\ UNCHANGED <<conf, frr, last>>
    BY <1>1 DEF Change, Sync, Applying, Writer
  <2> QED
    BY <2>1, <2>2, BeginFile
<1>2. ASSUME TickChanged PROVE FileOK'
  <2>1. /\ BeginApply(Agent, mem[Agent], tree, mem[Agent] = disk) /\ UNCHANGED <<conf, frr>>
        /\ Agent \in Writer /\ ~Applying(Agent)
    BY <1>2 DEF TickChanged, Applying, Writer
  <2> QED
    BY <2>1, BeginFile
<1>3. ASSUME NEW w \in Writer, ApplyStep(w) PROVE FileOK'
  BY <1>3, WriteFile, ReloadFile, OtherFile DEF ApplyStep
<1> QED
  BY <1>1, <1>2, <1>3, OtherFile DEF Next

(***************************************************************************)
(* frr.Apply by writers in between one another: when all are done and      *)
(* nothing failed or was garbled, FRR runs the text in the file, with the  *)
(* filter of no tree but the agent's last.                                 *)
(***************************************************************************)
THEOREM AlwaysOneText == Spec => []OneText
<1>1. IInv /\ FileOK => OneText
  <2> SUFFICES ASSUME FileOK, Quiet, "failure" \notin skew, conf # Garbled
               PROVE  frr = conf /\ conf \in Config /\ (frr.blocked = {} \/ Filters(last))
    BY DEF OneText
  <2>1. \A w \in Writer : pc[w] \notin {"open", "write", "reload"}
    BY DEF Quiet, Applying
  <2> QED
    BY <2>1 DEF FileOK, Filter, Filters, Writer
<1> QED
  BY <1>1, InitIInv, NextIInv, InitFile, NextFile, PTL DEF Spec
=============================================================================
