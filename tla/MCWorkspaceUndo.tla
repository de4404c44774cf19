--------------------------- MODULE MCWorkspaceUndo ---------------------------
(***************************************************************************)
(* Small instances of WorkspaceUndo for TLC.                               *)
(***************************************************************************)
EXTENDS WorkspaceUndo, TLC

\* Identities, paths and invocations are only compared.
Symmetry == Permutations(Ids) \cup Permutations(Checkpoints) \cup Permutations(Paths)

AllOperations == {"create_file", "update_file", "delete_file", "rename_file",
                  "create_directory", "rename_directory", "delete_directory"}

\* Bound: two changes that meet, by two calls or by a call and another program.
TwoChanges == Cardinality({c \in Checkpoints : rows[c] # Blank}) + edits <= 2
=============================================================================
