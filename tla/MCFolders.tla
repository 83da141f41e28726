----------------------------- MODULE MCFolders ------------------------------
(* Folders on a small instance. *)
EXTENDS Folders, TLC

\* Folders and documents are interchangeable.
Symmetry == Permutations(Folders) \cup Permutations(Docs)
=============================================================================
