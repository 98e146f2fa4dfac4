----------------------------- MODULE StateStore -----------------------------
(***************************************************************************)
(* What internal/state promises the commands: one register holding a whole *)
(* state, to which each mutating command is applied in a single atomic     *)
(* step.  No command acts on an older state than the one it replaces, and  *)
(* nobody sees a state that no command produced.                           *)
(***************************************************************************)
EXTENDS PeerTable

VARIABLE store

Init == store \in {DefaultState} \cup FreshState

Update(c) == store' \in Outcomes(c, store)

Next == \E c \in Command : Update(c)

Spec == Init /\ [][Next]_store
=============================================================================
