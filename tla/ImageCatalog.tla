---------------------------- MODULE ImageCatalog ----------------------------
(***************************************************************************)
(* What the index of a folder promises to whoever searches it, without     *)
(* rows, FAISS files, batches or threads: a set of images that can be      *)
(* found.  Images are added at any time and never taken away, except those *)
(* whose deletion was reported by the file system.  A report may be lost   *)
(* (the process ends with events in its buffer); the image then stays.     *)
(* Damage to the file that holds the index takes all of them away at once, *)
(* and nothing can be found until it is repaired.                          *)
(***************************************************************************)
CONSTANT Paths

VARIABLES
    found,    \* the images a search can find
    deleted,  \* the images with an unhandled report of their deletion
    damaged   \* TRUE when the index is unreadable

Init == found = {} /\ deleted = {} /\ ~damaged

Publish(S) == ~damaged /\ found' = found \cup S /\ UNCHANGED <<deleted, damaged>>

ReportDeletion(p) == deleted' = deleted \cup {p} /\ UNCHANGED <<found, damaged>>

Withdraw(p) ==
    /\ p \in deleted
    /\ found' = found \ {p}
    /\ deleted' = deleted \ {p}
    /\ UNCHANGED damaged

LoseReports == deleted' = {} /\ UNCHANGED <<found, damaged>>

Damage == ~damaged /\ damaged' = TRUE /\ found' = {} /\ UNCHANGED deleted

Repair(S) == damaged /\ damaged' = FALSE /\ found' = S /\ UNCHANGED deleted

Next ==
    \/ \E S \in SUBSET Paths : Publish(S) \/ Repair(S)
    \/ \E p \in Paths : ReportDeletion(p) \/ Withdraw(p)
    \/ LoseReports
    \/ Damage

Spec == Init /\ [][Next]_<<found, deleted, damaged>>
=============================================================================
