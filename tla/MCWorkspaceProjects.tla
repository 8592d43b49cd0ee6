------------------------- MODULE MCWorkspaceProjects -------------------------
(***************************************************************************)
(* Instances of WorkspaceProjects: two projects of the devfile, the second *)
(* behind a login or misplaced by its import.                              *)
(***************************************************************************)
EXTENDS WorkspaceProjects

DeclaredProjects == <<"a", "b">>

Imports == [a |-> [kind |-> "git", secure |-> TRUE, target |-> "a"],
            b |-> [kind |-> "zip", secure |-> FALSE, target |-> "c"]]

=============================================================================
