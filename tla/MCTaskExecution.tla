--------------------------- MODULE MCTaskExecution ---------------------------
(***************************************************************************)
(* An instance of TaskExecution: tabs, tasks and sockets are               *)
(* interchangeable (the tab that runs the tasks is the first that          *)
(* connects).                                                              *)
(***************************************************************************)
EXTENDS TaskExecution

Interchangeable == Permutations(Tabs) \cup Permutations(Calls) \cup Permutations(Sockets)

Asked == {c \in Calls : run[c] # Idle}
Used == {k \in Sockets : socket[k] # NoSocket}

\* Bound: one task over several sockets, or several tasks over one.
Explored == Cardinality(Asked) <= 1 \/ Cardinality(Used) <= 1

=============================================================================
