--------------------------- MODULE MCFolderIndex ---------------------------
(* Model values and thread sets for checking FolderIndex with TLC. *)
EXTENDS FolderIndex

CONSTANTS a, b

TwoFiles == {a, b}
BulkOnly == {"bulk"}
Both == {"bulk", "append"}
NoFault == {}
=============================================================================
