-------------------------- MODULE MCActivityTracker --------------------------
(***************************************************************************)
(* Three page loads: tabs that call while the call of another is being     *)
(* throttled, that close with calls under way, and a reload.               *)
(***************************************************************************)
EXTENDS ActivityTracker, TLC

CONSTANTS c1, c2, c3

Tabs == Permutations({c1, c2, c3})
=============================================================================
