------------------------------- MODULE Ledger -------------------------------
(***************************************************************************)
(* What a storage account promises (packages/db quota.ts): `used` is what  *)
(* the files it holds add up to, a file is only taken in while the total   *)
(* stays within the plan's limit, and a file's bytes are given back once.  *)
(* The upload protocol implements this module; see Uploads!LedgerSpec.     *)
(***************************************************************************)
EXTENDS ByteSets

CONSTANTS Assets,   \* identifiers of files
          Limit     \* the plan's storage limit, in bytes

VARIABLES used,     \* bytes charged to the account
          held      \* held[a]: bytes charged for file a, 0 when the account does not hold it

vars == <<used, held>>

Init == used = 0 /\ held = [a \in Assets |-> 0]

\* A file of n bytes is taken in, if it fits.
Charge(a, n) ==
  /\ held[a] = 0
  /\ used + n <= Limit
  /\ used' = used + n
  /\ held' = [held EXCEPT ![a] = n]

\* The files in S are given up, all at once.
Refund(S) ==
  /\ S # {}
  /\ \A a \in S : held[a] > 0
  /\ used' = used - TotalBytes([a \in S |-> held[a]])
  /\ held' = [a \in Assets |-> IF a \in S THEN 0 ELSE held[a]]

Next == \/ \E a \in Assets, n \in 1 .. Limit : Charge(a, n)
        \/ \E S \in SUBSET Assets : Refund(S)

Spec == Init /\ [][Next]_vars
=============================================================================
