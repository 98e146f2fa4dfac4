--------------------------- MODULE StateFileInit ---------------------------
(***************************************************************************)
(* StateFile together with `l2mesh init` (cmd/init.go), the one command    *)
(* that writes state.json without WithLock: it looks whether the file is   *)
(* there, asks the operator for what the flags left open, and calls Save.  *)
(* Its Save shares the name path.tmp with the Save of a command that holds *)
(* the lock, so here two processes may write to the same inode, and rename *)
(* may find no path.tmp left.                                              *)
(***************************************************************************)
EXTENDS StateFile

InitCommand == [op : {"init"}, force : BOOLEAN]

(***************************************************************************)
(* init accepts: state.json is missing, or --force is given.  The process  *)
(* then stands where a command that has edited its state stands, but holds *)
(* no lock.                                                                *)
(***************************************************************************)
BeginInit(p, c) ==
  /\ pc[p] = "idle"
  /\ path = None \/ c.force
  /\ \E s \in FreshState : mem' = [mem EXCEPT ![p] = s]
  /\ cmd' = [cmd EXCEPT ![p] = c]
  /\ pc' = [pc EXCEPT ![p] = "edited"]
  /\ UNCHANGED <<files, lock, fd>>

(***************************************************************************)
(* A write over an inode to which another process wrote, or is writing,    *)
(* since this one truncated it: a longer text shows behind the shorter.    *)
(***************************************************************************)
WriteMixed(p) ==
  /\ pc[p] = "opened"
  /\ data[fd[p]] # Torn \/ \E q \in Proc \ {p} : fd[q] = fd[p]
  /\ data' = [data EXCEPT ![fd[p]] = Torn]
  /\ fd' = [fd EXCEPT ![p] = None]
  /\ pc' = [pc EXCEPT ![p] = "written"]
  /\ UNCHANGED <<path, tmp, lock, cmd, mem>>

\* Mutated form of LoadFails: the command tries again until the file parses.
LoadRetries(p) ==
  /\ pc[p] = "locked"
  /\ OnDisk = Torn
  /\ UNCHANGED vars

\* Load does not parse what it reads: WithLock returns the error.
LoadFails(p) ==
  /\ pc[p] = "locked"
  /\ OnDisk = Torn
  /\ Exit(p)
  /\ UNCHANGED files

\* Somebody else has renamed path.tmp away: Save returns the error of os.Rename.
RenameFails(p) ==
  /\ pc[p] = "written"
  /\ tmp = None
  /\ Exit(p)
  /\ UNCHANGED files

WorkInit(p) == Work(p) \/ WriteMixed(p) \/ LoadFails(p) \/ RenameFails(p)

NextInit ==
  \E p \in Proc :
    \/ \E c \in Command : Begin(p, c)
    \/ \E c \in InitCommand : BeginInit(p, c)
    \/ Flock(p)
    \/ WorkInit(p)
    \/ Quit(p)

SpecInit == Init /\ [][NextInit]_vars

-----------------------------------------------------------------------------
TypeOKInit ==
  /\ path \in Inode \cup {None}
  /\ tmp \in Inode \cup {None}
  /\ data \in [Inode -> State \cup {Torn}]
  /\ lock \in Proc \cup {None}
  /\ pc \in [Proc -> Step]
  /\ cmd \in [Proc -> Command \cup InitCommand \cup {NoCmd}]
  /\ mem \in [Proc -> State]
  /\ fd \in [Proc -> Inode \cup {None}]

(***************************************************************************)
(* init takes no lock, but none of its interleavings with a command makes  *)
(* that command keep the lock: if its path.tmp is renamed away, or the     *)
(* file it loads is torn, it fails, and every step of a holder leads on to *)
(* the release.                                                            *)
(***************************************************************************)
HolderCanMove == \A p \in Proc : lock = p => ENABLED <<WorkInit(p)>>_vars
=============================================================================
