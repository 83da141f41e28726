------------------------------ MODULE ByteSets ------------------------------
(***************************************************************************)
(* Bytes as a set.  A storage account's usage is a sum over files; TLAPS   *)
(* has no sums, but it has cardinalities, so a file of n bytes is written  *)
(* as n distinct elements and a total is the size of a union.              *)
(***************************************************************************)
EXTENDS Naturals, FiniteSets

\* One element per byte of every file x, where h[x] is the file's size (0 when it holds nothing).
Bytes(h) == UNION {{x} \X (1 .. h[x]) : x \in DOMAIN h}

\* The total of the sizes h.
TotalBytes(h) == Cardinality(Bytes(h))
=============================================================================
