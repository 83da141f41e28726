---------------------------- MODULE MCNavigation ----------------------------
(* Pages and workspaces on a small instance, without the toolbar and the search box. *)
EXTENDS Navigation

\* Nothing is searched for.
MCFound == [x \in Workspaces \X Texts |-> <<>>]

MoveSpec == Init /\ [][Move]_vars
=============================================================================
