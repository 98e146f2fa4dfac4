----------------------------- MODULE StateFile -----------------------------
(***************************************************************************)
(* How state.json is updated by commands running at the same time:         *)
(* state.WithLock (flock on a sibling file, Load, the command's edit, Save)*)
(* and state.Save (write path.tmp, rename it over path).                   *)
(*                                                                         *)
(* The directory has two names, path and path.tmp, each bound to an inode  *)
(* or to none; writers write to the inode they opened, whatever its name   *)
(* has become since.  os.WriteFile is two system calls, an open that       *)
(* truncates and a write.  A process may fail or be killed between any two *)
(* of its steps; the kernel then closes its descriptors, which drops the   *)
(* flock and leaves the files as they are.  Leaving the page cache behind  *)
(* (a power cut) is outside this model: there is no fsync in the code.     *)
(***************************************************************************)
EXTENDS PeerTable

CONSTANTS
  Proc,    \* command processes; one that has ended may be started again
  Inode,   \* inodes of the state directory
  None,    \* no process, no inode
  Torn     \* contents that do not parse: truncated, or not written in full

ASSUME NoneAssumption == None \notin Proc \cup Inode
ASSUME TornAssumption == Torn \notin State

VARIABLES
  path,   \* inode named state.json, or None
  tmp,    \* inode named state.json.tmp, or None
  data,   \* contents of every inode
  lock,   \* process holding the flock, or None
  pc,     \* where each process is in WithLock and Save
  cmd,    \* the command a process runs
  mem,    \* the in-memory *State of a process
  fd      \* the inode a process writes to, or None

files == <<path, tmp, data>>
vars  == <<path, tmp, data, lock, pc, cmd, mem, fd>>

NoCmd == [op |-> "none"]

\* The steps of a command, named for what it has done.
Step == {"idle", "waiting", "locked", "loaded", "edited", "opened", "written"}

\* What Load returns now; a missing file reads as the default state.
OnDisk == IF path = None THEN DefaultState ELSE data[path]

Init ==
  /\ \/ path = None /\ data = [i \in Inode |-> Torn]
     \/ \E i \in Inode, s \in FreshState :
          path = i /\ data = [j \in Inode |-> IF j = i THEN s ELSE Torn]
  /\ tmp = None
  /\ lock = None
  /\ pc = [p \in Proc |-> "idle"]
  /\ cmd = [p \in Proc |-> NoCmd]
  /\ mem = [p \in Proc |-> DefaultState]
  /\ fd = [p \in Proc |-> None]

-----------------------------------------------------------------------------
\* Mutated form of Exit: an early return of the error path forgets the lock.
ExitKeepingLock(p) ==
  /\ pc' = [pc EXCEPT ![p] = "idle"]
  /\ cmd' = [cmd EXCEPT ![p] = NoCmd]
  /\ mem' = [mem EXCEPT ![p] = DefaultState]
  /\ fd' = [fd EXCEPT ![p] = None]
  /\ lock' = IF pc[p] = "locked" THEN lock ELSE IF lock = p THEN None ELSE lock

\* The process ends, with or without an error: its descriptors, the lock file's
\* among them, are closed.
Exit(p) ==
  /\ pc' = [pc EXCEPT ![p] = "idle"]
  /\ cmd' = [cmd EXCEPT ![p] = NoCmd]
  /\ mem' = [mem EXCEPT ![p] = DefaultState]
  /\ fd' = [fd EXCEPT ![p] = None]
  /\ lock' = IF lock = p THEN None ELSE lock

\* A command starts and opens the lock file.
Begin(p, c) ==
  /\ pc[p] = "idle"
  /\ pc' = [pc EXCEPT ![p] = "waiting"]
  /\ cmd' = [cmd EXCEPT ![p] = c]
  /\ UNCHANGED <<files, lock, mem, fd>>

\* Mutated form of Flock: a shared lock, granted whoever else holds one.
FlockShared(p) ==
  /\ pc[p] = "waiting"
  /\ lock' = p
  /\ pc' = [pc EXCEPT ![p] = "locked"]
  /\ UNCHANGED <<files, cmd, mem, fd>>

\* flock(LOCK_EX) is granted.
Flock(p) ==
  /\ pc[p] = "waiting"
  /\ lock = None
  /\ lock' = p
  /\ pc' = [pc EXCEPT ![p] = "locked"]
  /\ UNCHANGED <<files, cmd, mem, fd>>

\* Mutated form of Load: the state is read before the lock is granted.
LoadUnlocked(p) ==
  /\ pc[p] \in {"waiting", "locked"}
  /\ OnDisk # Torn
  /\ mem' = [mem EXCEPT ![p] = OnDisk]
  /\ pc' = [pc EXCEPT ![p] = "loaded"]
  /\ UNCHANGED <<files, lock, cmd, fd>>

Load(p) ==
  /\ pc[p] = "locked"
  /\ OnDisk # Torn
  /\ mem' = [mem EXCEPT ![p] = OnDisk]
  /\ pc' = [pc EXCEPT ![p] = "loaded"]
  /\ UNCHANGED <<files, lock, cmd, fd>>

\* The command's fn accepts the state and changes it in memory.
Edit(p) ==
  /\ pc[p] = "loaded"
  /\ \E s \in Outcomes(cmd[p], mem[p]) : mem' = [mem EXCEPT ![p] = s]
  /\ pc' = [pc EXCEPT ![p] = "edited"]
  /\ UNCHANGED <<files, lock, cmd, fd>>

\* The command's fn refuses: WithLock returns its error and nothing is saved.
Refuse(p) ==
  /\ pc[p] = "loaded"
  /\ Outcomes(cmd[p], mem[p]) = {}
  /\ Exit(p)
  /\ UNCHANGED files

InUse(i) == i \in {path, tmp} \cup {fd[p] : p \in Proc}

\* Mutated form of OpenTmp: Save writes the file in place.
OpenInPlace(p) ==
  /\ pc[p] = "edited"
  /\ \E i \in Inode :
       /\ IF path = None THEN ~InUse(i) ELSE i = path
       /\ path' = i
       /\ tmp' = i
       /\ data' = [data EXCEPT ![i] = Torn]
       /\ fd' = [fd EXCEPT ![p] = i]
  /\ pc' = [pc EXCEPT ![p] = "opened"]
  /\ UNCHANGED <<lock, cmd, mem>>

\* os.WriteFile(tmp): open with O_CREATE|O_TRUNC, reusing a leftover path.tmp.
OpenTmp(p) ==
  /\ pc[p] = "edited"
  /\ \E i \in Inode :
       /\ IF tmp = None THEN ~InUse(i) ELSE i = tmp
       /\ tmp' = i
       /\ data' = [data EXCEPT ![i] = Torn]
       /\ fd' = [fd EXCEPT ![p] = i]
  /\ pc' = [pc EXCEPT ![p] = "opened"]
  /\ UNCHANGED <<path, lock, cmd, mem>>

\* os.WriteFile(tmp): the write, all of it.
WriteTmp(p) ==
  /\ pc[p] = "opened"
  /\ data' = [data EXCEPT ![fd[p]] = mem[p]]
  /\ fd' = [fd EXCEPT ![p] = None]
  /\ pc' = [pc EXCEPT ![p] = "written"]
  /\ UNCHANGED <<path, tmp, lock, cmd, mem>>

\* Mutated form of Rename: the rename does not wait for the write.
RenameEarly(p) ==
  /\ pc[p] \in {"opened", "written"}
  /\ tmp # None
  /\ path' = tmp
  /\ tmp' = None
  /\ Exit(p)
  /\ UNCHANGED data

\* Mutated form of Rename: the lock is dropped and the process stays behind.
RenameAndLinger(p) ==
  /\ pc[p] = "written"
  /\ tmp # None
  /\ path' = tmp
  /\ tmp' = None
  /\ pc' = [pc EXCEPT ![p] = "renamed"]
  /\ lock' = None
  /\ UNCHANGED <<data, cmd, mem, fd>>

\* os.Rename(tmp, path); WithLock returns and the process ends.
Rename(p) ==
  /\ pc[p] = "written"
  /\ tmp # None
  /\ path' = tmp
  /\ tmp' = None
  /\ Exit(p)
  /\ UNCHANGED data

(***************************************************************************)
(* An error of the file system, of the command's own side effects, or a    *)
(* signal ends the process where it stands.                                *)
(***************************************************************************)
Quit(p) ==
  /\ pc[p] # "idle"
  /\ Exit(p)
  /\ UNCHANGED files

Work(p) ==
  \/ Load(p) \/ Edit(p) \/ Refuse(p)
  \/ OpenTmp(p) \/ WriteTmp(p) \/ Rename(p)

Next ==
  \E p \in Proc :
    \/ \E c \in Command : Begin(p, c)
    \/ Flock(p)
    \/ Work(p)
    \/ Quit(p)

(***************************************************************************)
(* A process that holds the lock is scheduled: nothing between flock and   *)
(* the end of WithLock waits for another command.  Starting commands and   *)
(* failing are never forced, and flock promises no order among waiters.    *)
(***************************************************************************)
Fairness == \A p \in Proc : WF_vars(Work(p))

Spec == Init /\ [][Next]_vars

FairSpec == Spec /\ Fairness
-----------------------------------------------------------------------------
TypeOK ==
  /\ path \in Inode \cup {None}
  /\ tmp \in Inode \cup {None}
  /\ data \in [Inode -> State \cup {Torn}]
  /\ lock \in Proc \cup {None}
  /\ pc \in [Proc -> Step]
  /\ cmd \in [Proc -> Command \cup {NoCmd}]
  /\ mem \in [Proc -> State]
  /\ fd \in [Proc -> Inode \cup {None}]

(***************************************************************************)
(* Whatever is killed or fails, and whenever, the next command, `status`,  *)
(* `sync` or the agent finds a state.json it can parse, or none at all     *)
(* (README: the rewrite is atomic, by temp + rename).                      *)
(***************************************************************************)
Readable == OnDisk # Torn

(***************************************************************************)
(* The lock protocol of WithLock, from flock to rename: whoever is past    *)
(* flock holds the lock, whoever writes writes to path.tmp and never to    *)
(* path, what it edited is what path still names, and by the time of the   *)
(* rename path.tmp holds exactly the result of its command.                *)
(***************************************************************************)
Serialised ==
  /\ path # None => data[path] \in State
  /\ tmp # None => tmp # path
  /\ \A p \in Proc :
       /\ pc[p] \in {"idle", "waiting"} <=> lock # p
       /\ pc[p] # "idle" => cmd[p] \in Command
       /\ pc[p] # "opened" <=> fd[p] = None
       /\ pc[p] = "loaded" => mem[p] = OnDisk
       /\ pc[p] \in {"edited", "opened", "written"} => mem[p] \in Outcomes(cmd[p], OnDisk)
       /\ pc[p] = "opened" => fd[p] = tmp
       /\ pc[p] = "written" => tmp # None /\ data[tmp] = mem[p]

(***************************************************************************)
(* Concurrent commands are serialised: what path names changes only by one *)
(* command's edit of what it named just before (README: safe even with two *)
(* `l2mesh add` in parallel; WithLock: two commands can't lose writes).    *)
(***************************************************************************)
Store == INSTANCE StateStore WITH store <- OnDisk

AtomicUpdates == Store!Spec

(***************************************************************************)
(* No history of commands, refused, failed or killed at any point, leaves  *)
(* two peers sharing a key or an overlay address, or a name within a role. *)
(***************************************************************************)
UniqueIdentities == OnDisk # Torn => UniqueIn(OnDisk)

(***************************************************************************)
(* The flock is never left behind: every holder gives it up, through the   *)
(* save, through a refusal, or by failing at any step in between.          *)
(***************************************************************************)
LockReleased == \A p \in Proc : (lock = p) ~> (lock # p)
=============================================================================
