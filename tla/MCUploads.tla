----------------------------- MODULE MCUploads ------------------------------
(* Uploads on a small instance: a plain and a multipart file that do not fit the plan together. *)
EXTENDS Uploads, TLC

CONSTANTS video

\* The multipart file is twice as big as the others.
MCSize == [f \in Files |-> IF f = video THEN 2 ELSE 1]

\* Requests, workers and upload ids are interchangeable.
Symmetry == Permutations(Ids) \cup Permutations(Procs) \cup Permutations(Workers)
=============================================================================
