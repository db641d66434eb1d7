----------------------------- MODULE StateStore -----------------------------
(***************************************************************************)
(* What the storage-state file promises its readers: a store that appears   *)
(* and grows by merging in what a browser holds, newer values replacing     *)
(* older ones, and that changes in one piece, the previous content being    *)
(* kept as a backup.  A fault may make one change of another kind: the      *)
(* store is lost, or replaced by the state of a browser alone.              *)
(***************************************************************************)
EXTENDS Naturals

CONSTANTS
  Keys, Values,   \* a value of 0 is no value
  Absent          \* no store

VARIABLES store, backup, faults

vars == <<store, backup, faults>>

merged(old, new) ==
  [k \in Keys |-> IF new[k] = 0 /\ old # Absent THEN old[k] ELSE new[k]]

keep_backup == backup' = IF store = Absent THEN backup ELSE store

Init == store = Absent /\ backup = Absent /\ faults = 0

Merge(new) ==
  /\ store' = merged(store, new) /\ keep_backup
  /\ UNCHANGED faults

Fault == faults' = faults + 1

Survive == Fault /\ UNCHANGED <<store, backup>>

Lose == Fault /\ store' = Absent /\ keep_backup

Replace(new) == Fault /\ store # Absent /\ store' = new /\ keep_backup

Next == \/ Survive \/ Lose
        \/ \E new \in [Keys -> Values] : Merge(new) \/ Replace(new)

Spec == Init /\ [][Next]_vars
=============================================================================
