----------------------------- MODULE MCFsEvents -----------------------------
(* Model values for checking FsEvents with TLC. *)
EXTENDS FsEvents

CONSTANTS a, b, c, u, v

TwoPaths == {a, b}
ThreePaths == {a, b, c}
TwoWorkers == {u, v}

\* Files of all kinds come and go, batches fail, until the folder's indexing is
\* shut down.
Deletions == [images |-> TwoPaths, ops |-> {"create", "delete", "deinit", "keep", "fault"}]
\* Image files that are indexed are deleted and renamed, over each other too.
Renames == [images |-> ThreePaths, ops |-> {"delete", "move", "recreate", "keep"}]
Both == {Deletions, Renames}
=============================================================================
