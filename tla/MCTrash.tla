------------------------------ MODULE MCTrash -------------------------------
(* The trash on a small instance: files of one and two bytes. *)
EXTENDS Trash, TLC

CONSTANTS scan

\* One file is twice as big as the others.
MCSize == [a \in Assets |-> IF a = scan THEN 2 ELSE 1]

\* Documents and requests are interchangeable.
Symmetry == Permutations(Docs) \cup Permutations(Procs)
=============================================================================
