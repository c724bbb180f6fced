------------------------------- MODULE Transfer -------------------------------
(* What a file transfer promises, without channels, windows or timers: the     *)
(* receiving page collects the file block by block, saves it once and whole,   *)
(* and the sending page may say "complete" only after that.  Either page may   *)
(* give up at any time.                                                        *)
EXTENDS Naturals, Sequences

VARIABLES
    size,       \* blocks of the file
    held,       \* blocks the receiving page holds
    disk,       \* the files saved, each the set of its block indices
    confirmed   \* the sending page shows "complete"

vars == <<size, held, disk, confirmed>>

Init ==
    /\ size \in Nat
    /\ held = 0 /\ disk = <<>> /\ confirmed = FALSE

Collect ==
    /\ disk = <<>> /\ held + 1 < size
    /\ held' = held + 1
    /\ UNCHANGED <<size, disk, confirmed>>

\* The last block: the file is saved and its blocks are let go.
Save ==
    /\ disk = <<>> /\ held + 1 = size
    /\ disk' = <<0..(size - 1)>>
    /\ held' = 0
    /\ UNCHANGED <<size, confirmed>>

Abandon ==
    /\ held # 0 /\ held' = 0
    /\ UNCHANGED <<size, disk, confirmed>>

Confirm ==
    /\ disk # <<>> /\ ~confirmed
    /\ confirmed' = TRUE
    /\ UNCHANGED <<size, held, disk>>

Next == Collect \/ Save \/ Abandon \/ Confirm

Spec == Init /\ [][Next]_vars

===============================================================================
