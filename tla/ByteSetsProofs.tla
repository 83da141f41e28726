--------------------------- MODULE ByteSetsProofs ---------------------------
(***************************************************************************)
(* Totals of file sizes, as cardinalities: what taking in one file, or     *)
(* giving some up, does to the total.                                      *)
(***************************************************************************)
EXTENDS ByteSets, FiniteSetTheorems, TLAPS

\* A file of n bytes has n bytes.
LEMMA FileBytes ==
  ASSUME NEW a, NEW n \in Nat
  PROVE  IsFiniteSet({a} \X (1 .. n)) /\ Cardinality({a} \X (1 .. n)) = n
<1>1. IsFiniteSet({a}) /\ Cardinality({a}) = 1
  BY FS_Singleton
<1>2. IsFiniteSet(1 .. n) /\ Cardinality(1 .. n) = n
  BY FS_Interval
<1>3. /\ IsFiniteSet({a} \X (1 .. n))
      /\ Cardinality({a} \X (1 .. n)) = Cardinality({a}) * Cardinality(1 .. n)
  BY <1>1, <1>2, FS_Product, Zenon
<1>4. QED
  BY <1>1, <1>2, <1>3

\* Splitting the files into those in T and the others splits the total.
LEMMA SplitBytes ==
  ASSUME NEW S, NEW h \in [S -> Nat], NEW T \in SUBSET S, IsFiniteSet(Bytes(h))
  PROVE  LET part == [x \in T |-> h[x]]
             rest == [x \in S |-> IF x \in T THEN 0 ELSE h[x]]
         IN  /\ IsFiniteSet(Bytes(part)) /\ IsFiniteSet(Bytes(rest))
             /\ TotalBytes(h) = TotalBytes(part) + TotalBytes(rest)
             /\ TotalBytes(part) \in Nat /\ TotalBytes(rest) \in Nat
<1> DEFINE part == [x \in T |-> h[x]]
           rest == [x \in S |-> IF x \in T THEN 0 ELSE h[x]]
<1>1. Bytes(h) = Bytes(part) \cup Bytes(rest)
  <2>1. ASSUME NEW e \in Bytes(h)  PROVE e \in Bytes(part) \cup Bytes(rest)
    <3>1. PICK x \in S : e \in {x} \X (1 .. h[x])
      BY <2>1 DEF Bytes
    <3>2. CASE x \in T
      BY <3>1, <3>2 DEF Bytes
    <3>3. CASE x \notin T
      BY <3>1, <3>3 DEF Bytes
    <3>4. QED BY <3>2, <3>3
  <2>2. Bytes(part) \subseteq Bytes(h)
    BY DEF Bytes
  <2>3. ASSUME NEW e \in Bytes(rest)  PROVE e \in Bytes(h)
    <3>1. PICK x \in S : e \in {x} \X (1 .. rest[x])
      BY <2>3 DEF Bytes
    <3>2. x \notin T
      BY <3>1
    <3>3. QED BY <3>1, <3>2 DEF Bytes
  <2>4. QED BY <2>1, <2>2, <2>3
<1>2. Bytes(part) \cap Bytes(rest) = {}
  <2>1. SUFFICES ASSUME NEW e \in Bytes(part), e \in Bytes(rest)  PROVE FALSE
    OBVIOUS
  <2>2. PICK x \in T : e \in {x} \X (1 .. h[x])
    BY DEF Bytes
  <2>3. PICK y \in S : e \in {y} \X (1 .. rest[y])
    BY <2>1 DEF Bytes
  <2>4. x = y
    BY <2>2, <2>3
  <2>5. QED BY <2>2, <2>3, <2>4
<1>3. IsFiniteSet(Bytes(part)) /\ IsFiniteSet(Bytes(rest))
  BY <1>1, FS_Subset
<1>4. Cardinality(Bytes(part)) \in Nat /\ Cardinality(Bytes(rest)) \in Nat
  BY <1>3, FS_CardinalityType
<1>5. Cardinality(Bytes(h)) = Cardinality(Bytes(part)) + Cardinality(Bytes(rest))
  <2>1. Cardinality(Bytes(part) \cap Bytes(rest)) = 0
    BY <1>2, FS_EmptySet
  <2>2. Cardinality(Bytes(part) \cup Bytes(rest))
          = Cardinality(Bytes(part)) + Cardinality(Bytes(rest))
            - Cardinality(Bytes(part) \cap Bytes(rest))
    BY <1>3, FS_Union, Zenon
  <2>3. QED BY <1>1, <1>4, <2>1, <2>2
<1>6. QED BY <1>3, <1>4, <1>5 DEF TotalBytes

\* The total of one file.
LEMMA OneFileTotal ==
  ASSUME NEW a, NEW n \in Nat
  PROVE  LET one == [x \in {a} |-> n]
         IN  IsFiniteSet(Bytes(one)) /\ TotalBytes(one) = n
<1> DEFINE one == [x \in {a} |-> n]
<1>1. Bytes(one) = {a} \X (1 .. n)
  BY DEF Bytes
<1>2. IsFiniteSet({a} \X (1 .. n)) /\ Cardinality({a} \X (1 .. n)) = n
  BY FileBytes, Zenon
<1>3. QED BY <1>1, <1>2 DEF TotalBytes

\* Giving up file a takes its bytes off the total.
LEMMA RefundTotal ==
  ASSUME NEW S, NEW h \in [S -> Nat], NEW a \in S, IsFiniteSet(Bytes(h))
  PROVE  LET g == [h EXCEPT ![a] = 0]
         IN  /\ IsFiniteSet(Bytes(g))
             /\ TotalBytes(g) \in Nat /\ TotalBytes(h) = TotalBytes(g) + h[a]
<1> DEFINE g == [h EXCEPT ![a] = 0]
           rest == [x \in S |-> IF x \in {a} THEN 0 ELSE h[x]]
           part == [x \in {a} |-> h[x]]
           one == [x \in {a} |-> h[a]]
<1>1. g = rest
  OBVIOUS
<1>2. part = one
  OBVIOUS
<1>3. TotalBytes(part) = h[a]
  BY <1>2, OneFileTotal
<1>4. /\ IsFiniteSet(Bytes(rest)) /\ TotalBytes(rest) \in Nat
      /\ TotalBytes(h) = TotalBytes(part) + TotalBytes(rest)
  BY SplitBytes
<1>5. QED BY <1>1, <1>3, <1>4

\* Taking in file a, which held nothing, adds its n bytes to the total.
LEMMA ChargeTotal ==
  ASSUME NEW S, NEW h \in [S -> Nat], NEW a \in S, h[a] = 0, NEW n \in Nat, IsFiniteSet(Bytes(h))
  PROVE  LET g == [h EXCEPT ![a] = n]
         IN  /\ IsFiniteSet(Bytes(g))
             /\ TotalBytes(g) = TotalBytes(h) + n
<1> DEFINE g == [h EXCEPT ![a] = n]
<1>1. Bytes(g) = Bytes(h) \cup ({a} \X (1 .. n))
  <2>1. ASSUME NEW e \in Bytes(g)  PROVE e \in Bytes(h) \cup ({a} \X (1 .. n))
    <3>1. PICK x \in S : e \in {x} \X (1 .. g[x])
      BY <2>1 DEF Bytes
    <3>2. QED BY <3>1 DEF Bytes
  <2>2. ASSUME NEW e \in Bytes(h)  PROVE e \in Bytes(g)
    <3>1. PICK x \in S : e \in {x} \X (1 .. h[x])
      BY <2>2 DEF Bytes
    <3>2. x # a
      BY <3>1
    <3>3. QED BY <3>1, <3>2 DEF Bytes
  <2>3. ASSUME NEW e \in {a} \X (1 .. n)  PROVE e \in Bytes(g)
    BY <2>3 DEF Bytes
  <2>4. QED BY <2>1, <2>2, <2>3
<1>2. IsFiniteSet(Bytes(g))
  <2>1. IsFiniteSet({a} \X (1 .. n))
    BY FileBytes
  <2>2. IsFiniteSet(Bytes(h) \cup ({a} \X (1 .. n)))
    BY <2>1, FS_Union, Zenon
  <2>3. QED BY <1>1, <2>2
<1>3. g \in [S -> Nat]
  OBVIOUS
<1>4. h = [g EXCEPT ![a] = 0]
  OBVIOUS
<1>5. TotalBytes(g) = TotalBytes([g EXCEPT ![a] = 0]) + g[a]
  <2> HIDE DEF g
  <2>1. QED BY <1>2, <1>3, RefundTotal
<1>6. TotalBytes(g) = TotalBytes(h) + n
  BY <1>4, <1>5
<1>7. QED BY <1>2, <1>6
=============================================================================
