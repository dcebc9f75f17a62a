----------------------------- MODULE PhotoBackup -----------------------------
(***************************************************************************)
(* What the backup of a phone promises: a photo that has reached the PC    *)
(* stays there until the user deletes it there, and the phone gives up its *)
(* own copy only of what the PC holds, or held until the user deleted it.  *)
(***************************************************************************)
CONSTANT Contents  \* the bytes of photos

VARIABLES
    phone,   \* what the phone holds
    pc,      \* what the folder on the PC holds
    deleted  \* what the user has deleted from that folder

Init == phone \subseteq Contents /\ pc = {} /\ deleted = {}

Edit ==
    \E c \in phone, d \in Contents :
        phone' \in {phone \cup {d}, (phone \ {c}) \cup {d}} /\ UNCHANGED <<pc, deleted>>

Arrive == \E c \in Contents : pc' = pc \cup {c} /\ UNCHANGED <<phone, deleted>>

Delete ==
    \E c \in pc : pc' \in {pc, pc \ {c}} /\ deleted' = deleted \cup {c} /\ UNCHANGED phone

Free ==
    \E freed \in SUBSET (phone \cap (pc \cup deleted)) :
        phone' = phone \ freed /\ UNCHANGED <<pc, deleted>>

Spec == Init /\ [][Edit \/ Arrive \/ Delete \/ Free]_<<phone, pc, deleted>>
=============================================================================
