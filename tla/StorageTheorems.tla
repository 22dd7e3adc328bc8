-------------------------- MODULE StorageTheorems --------------------------
(***************************************************************************)
(* What the supply proofs need to know about u64 arithmetic and about the  *)
(* sum of a storage map.                                                   *)
(***************************************************************************)
EXTENDS Storage, FiniteSetTheorems, TLAPS

(* Wrapping arithmetic stays within u64. *)
LEMMA WrapType ==
  ASSUME NEW a \in U64, NEW b \in U64
  PROVE  WrapAdd(a, b) \in U64 /\ WrapSub(a, b) \in U64
BY MaxU64Assumption DEF WrapAdd, WrapSub, U64

(* A finite map of u64 values has finitely many units. *)
LEMMA UnitsFinite ==
  ASSUME NEW f, IsFiniteSet(DOMAIN f), \A k \in DOMAIN f : f[k] \in U64
  PROVE  IsFiniteSet(Units(f))
<1> DEFINE D == DOMAIN f
<1>1. IsFiniteSet(1 .. MaxU64) /\ IsFiniteSet(D)
  BY FS_Interval, MaxU64Assumption
<1>2. Units(f) \subseteq D \X (1 .. MaxU64)
  <2> SUFFICES ASSUME NEW k \in D, NEW i \in 1 .. f[k]
               PROVE  <<k, i>> \in D \X (1 .. MaxU64)
    BY DEF Units
  <2>1. i \in 1 .. MaxU64
    BY MaxU64Assumption DEF U64
  <2>2. QED
    BY <2>1
<1> HIDE DEF D
<1>3. IsFiniteSet(D \X (1 .. MaxU64))
  BY <1>1, FS_Product, Zenon
<1>4. QED
  BY <1>2, <1>3, FS_Subset

(* The sum of a finite map of u64 values is a natural number. *)
LEMMA TotalType ==
  ASSUME NEW f, IsFiniteSet(DOMAIN f), \A k \in DOMAIN f : f[k] \in U64
  PROVE  Total(f) \in Nat
BY UnitsFinite, FS_CardinalityType DEF Total

(* Two maps with the same keys and values have the same sum. *)
LEMMA TotalSame ==
  ASSUME NEW f, NEW g, DOMAIN g = DOMAIN f, \A k \in DOMAIN f : g[k] = f[k]
  PROVE  Total(g) = Total(f)
<1>1. Units(g) = Units(f)
  BY DEF Units
<1>2. QED
  BY <1>1 DEF Total

(* A map without keys, or with zeros only, sums to zero. *)
LEMMA TotalZero ==
  ASSUME NEW f, \A k \in DOMAIN f : f[k] = 0
  PROVE  Total(f) = 0
<1>1. Units(f) = {}
  BY DEF Units
<1>2. QED
  BY <1>1, FS_EmptySet DEF Total

(* The slice of units that one key contributes. *)
LEMMA SliceSize ==
  ASSUME NEW x, NEW n \in U64
  PROVE  IsFiniteSet({x} \X (1 .. n)) /\ Cardinality({x} \X (1 .. n)) = n
<1>1. IsFiniteSet({x}) /\ Cardinality({x}) = 1
  BY FS_Singleton
<1>2. n \in Nat
  BY MaxU64Assumption DEF U64
<1>3. IsFiniteSet(1 .. n) /\ Cardinality(1 .. n) = n
  BY <1>2, FS_Interval
<1>4. IsFiniteSet({x} \X (1 .. n))
      /\ Cardinality({x} \X (1 .. n)) = Cardinality({x}) * Cardinality(1 .. n)
  BY <1>1, <1>3, FS_Product, Zenon
<1>5. QED
  BY <1>1, <1>2, <1>3, <1>4

(* A key that is new to a map adds its value to the sum. *)
LEMMA TotalAdd ==
  ASSUME NEW f, NEW g, NEW x,
         IsFiniteSet(DOMAIN f), \A k \in DOMAIN f : f[k] \in U64,
         x \notin DOMAIN f, DOMAIN g = DOMAIN f \cup {x}, g[x] \in U64,
         \A k \in DOMAIN f : g[k] = f[k]
  PROVE  Total(g) = Total(f) + g[x]
<1> DEFINE slice == {x} \X (1 .. g[x])
<1>1. IsFiniteSet(slice) /\ Cardinality(slice) = g[x]
  BY SliceSize
<1>2. IsFiniteSet(Units(f)) /\ Cardinality(Units(f)) \in Nat
  BY UnitsFinite, FS_CardinalityType
<1>3. Units(g) = Units(f) \cup slice
  BY DEF Units
<1>4. Units(f) \cap slice = {}
  BY DEF Units
<1>5. Cardinality(Units(f) \cap slice) = 0
  BY <1>4, FS_EmptySet
<1>6. g[x] \in Nat
  BY MaxU64Assumption DEF U64
<1> HIDE DEF slice
<1>7. Cardinality(Units(f) \cup slice)
        = Cardinality(Units(f)) + Cardinality(slice) - Cardinality(Units(f) \cap slice)
  BY <1>1, <1>2, FS_Union
<1>8. QED
  BY <1>1, <1>2, <1>3, <1>5, <1>6, <1>7 DEF Total

(* Without one of its keys a map sums to that much less. *)
LEMMA TotalRemove ==
  ASSUME NEW f, NEW x \in DOMAIN f,
         IsFiniteSet(DOMAIN f), \A k \in DOMAIN f : f[k] \in U64
  PROVE  /\ Total(Remove(f, x)) \in Nat
         /\ Total(f) = Total(Remove(f, x)) + f[x]
<1> DEFINE g == Remove(f, x)
<1>1. DOMAIN g = DOMAIN f \ {x} /\ \A k \in DOMAIN g : g[k] = f[k]
  BY DEF Remove
<1>2. IsFiniteSet(DOMAIN g)
  BY <1>1, FS_RemoveElement
<1>3. \A k \in DOMAIN g : g[k] \in U64
  BY <1>1
<1>4. DOMAIN f = DOMAIN g \cup {x} /\ x \notin DOMAIN g
  BY <1>1
<1>5. \A k \in DOMAIN g : f[k] = g[k]
  BY <1>1
<1> HIDE DEF g
<1>6. Total(f) = Total(g) + f[x]
  BY <1>2, <1>3, <1>4, <1>5, TotalAdd
<1>7. Total(g) \in Nat
  BY <1>2, <1>3, TotalType
<1>8. QED
  BY <1>6, <1>7 DEF g

(* A map that differs at one key differs by as much in its sum. *)
LEMMA TotalChange ==
  ASSUME NEW f, NEW g, NEW x \in DOMAIN f,
         IsFiniteSet(DOMAIN f), \A k \in DOMAIN f : f[k] \in U64,
         DOMAIN g = DOMAIN f, g[x] \in U64,
         \A k \in DOMAIN f \ {x} : g[k] = f[k]
  PROVE  /\ Total(f) \in Nat /\ Total(g) \in Nat
         /\ Total(g) + f[x] = Total(f) + g[x]
<1>1. \A k \in DOMAIN g : g[k] \in U64
  OBVIOUS
<1>2. /\ Total(Remove(f, x)) \in Nat
      /\ Total(f) = Total(Remove(f, x)) + f[x]
  BY TotalRemove
<1>3. Total(g) = Total(Remove(g, x)) + g[x]
  BY <1>1, TotalRemove
<1>4. Total(Remove(g, x)) = Total(Remove(f, x))
  BY TotalSame DEF Remove
<1>5. f[x] \in Nat /\ g[x] \in Nat
  BY MaxU64Assumption DEF U64
<1>6. QED
  BY <1>2, <1>3, <1>4, <1>5

(* No single value exceeds the sum. *)
LEMMA TotalBound ==
  ASSUME NEW f, NEW x \in DOMAIN f,
         IsFiniteSet(DOMAIN f), \A k \in DOMAIN f : f[k] \in U64
  PROVE  f[x] <= Total(f)
<1>1. f[x] \in Nat
  BY MaxU64Assumption DEF U64
<1>2. QED
  BY <1>1, TotalRemove

(* What a map has at a key, nothing if the key is absent. *)
ValueAt(f, x) == IF x \in DOMAIN f THEN f[x] ELSE 0

(* Two maps that agree but for one key, which may be absent from either,    *)
(* differ in their sums by what they have there.                            *)
LEMMA TotalUpdate ==
  ASSUME NEW f, NEW g, NEW x,
         IsFiniteSet(DOMAIN f), \A k \in DOMAIN f : f[k] \in U64,
         \A k \in DOMAIN g : g[k] \in U64,
         DOMAIN g \ {x} = DOMAIN f \ {x},
         \A k \in DOMAIN f \ {x} : g[k] = f[k]
  PROVE  /\ Total(f) \in Nat /\ Total(g) \in Nat
         /\ ValueAt(f, x) \in Nat /\ ValueAt(g, x) \in Nat
         /\ ValueAt(f, x) <= Total(f)
         /\ Total(g) + ValueAt(f, x) = Total(f) + ValueAt(g, x)
<1> DEFINE h == Remove(f, x)
<1>1. /\ DOMAIN h = DOMAIN f \ {x} /\ DOMAIN h = DOMAIN g \ {x}
      /\ \A k \in DOMAIN h : h[k] = f[k] /\ h[k] = g[k] /\ h[k] \in U64
  BY DEF Remove
<1>2. IsFiniteSet(DOMAIN h)
  BY <1>1, FS_Subset
<1> HIDE DEF h
<1>3. Total(h) \in Nat
  BY <1>1, <1>2, TotalType
<1>4. ASSUME NEW e, DOMAIN e \ {x} = DOMAIN h, \A k \in DOMAIN h : e[k] = h[k],
             \A k \in DOMAIN e : e[k] \in U64
      PROVE  ValueAt(e, x) \in Nat /\ Total(e) = Total(h) + ValueAt(e, x)
  <2>1. CASE x \in DOMAIN e
    <3>1. DOMAIN e = DOMAIN h \cup {x} /\ x \notin DOMAIN h
      BY <1>4, <2>1
    <3>2. Total(e) = Total(h) + e[x]
      BY <1>1, <1>2, <1>4, <2>1, <3>1, TotalAdd
    <3> QED
      BY <1>4, <2>1, <3>2, MaxU64Assumption DEF ValueAt, U64
  <2>2. CASE x \notin DOMAIN e
    <3>1. DOMAIN e = DOMAIN h
      BY <1>4, <2>2
    <3>2. Total(e) = Total(h)
      BY <1>4, <3>1, TotalSame
    <3> QED
      BY <1>3, <2>2, <3>2 DEF ValueAt
  <2> QED
    BY <2>1, <2>2
<1>5. ValueAt(f, x) \in Nat /\ Total(f) = Total(h) + ValueAt(f, x)
  BY <1>1, <1>4
<1>6. ValueAt(g, x) \in Nat /\ Total(g) = Total(h) + ValueAt(g, x)
  BY <1>1, <1>4
<1> QED
  BY <1>3, <1>5, <1>6
-----------------------------------------------------------------------------
(* The sum of one field over the records of a map that are in a set, and    *)
(* what one key contributes to it.                                          *)
SumOver(M, K, field) == Total([k \in {k \in DOMAIN M : M[k] \in K} |-> M[k][field]])
PartOf(M, x, K, field) == IF x \in DOMAIN M /\ M[x] \in K THEN M[x][field] ELSE 0

(* A finite map of records whose field is a u64. *)
AmountMap(M, field) == IsFiniteSet(DOMAIN M) /\ \A k \in DOMAIN M : M[k][field] \in U64

(* The maps agree on every other key than x. *)
SameBut(M, P, x) == /\ DOMAIN P \ {x} = DOMAIN M \ {x}
                    /\ \A k \in DOMAIN M \ {x} : P[k] = M[k]

(* A record that comes, goes or changes changes every sum by what it        *)
(* contributes.                                                             *)
LEMMA SumUpdate ==
  ASSUME NEW M, NEW P, NEW x, NEW K, NEW field,
         AmountMap(M, field), AmountMap(P, field), SameBut(M, P, x)
  PROVE  /\ SumOver(M, K, field) \in Nat /\ SumOver(P, K, field) \in Nat
         /\ PartOf(M, x, K, field) \in Nat /\ PartOf(P, x, K, field) \in Nat
         /\ PartOf(M, x, K, field) <= SumOver(M, K, field)
         /\ SumOver(P, K, field) + PartOf(M, x, K, field)
              = SumOver(M, K, field) + PartOf(P, x, K, field)
<1> DEFINE f == [k \in {k \in DOMAIN M : M[k] \in K} |-> M[k][field]]
           g == [k \in {k \in DOMAIN P : P[k] \in K} |-> P[k][field]]
<1>1. DOMAIN f = {k \in DOMAIN M : M[k] \in K} /\ DOMAIN g = {k \in DOMAIN P : P[k] \in K}
  OBVIOUS
<1>2. IsFiniteSet(DOMAIN f)
  BY <1>1, FS_Subset DEF AmountMap
<1>3. (\A k \in DOMAIN f : f[k] \in U64) /\ (\A k \in DOMAIN g : g[k] \in U64)
  BY DEF AmountMap
<1>4. DOMAIN g \ {x} = DOMAIN f \ {x} /\ \A k \in DOMAIN f \ {x} : g[k] = f[k]
  BY DEF SameBut
<1>5. SumOver(M, K, field) = Total(f) /\ SumOver(P, K, field) = Total(g)
  BY DEF SumOver
<1>6. PartOf(M, x, K, field) = ValueAt(f, x) /\ PartOf(P, x, K, field) = ValueAt(g, x)
  BY DEF PartOf, ValueAt
<1> HIDE DEF f, g
<1>7. /\ Total(f) \in Nat /\ Total(g) \in Nat
      /\ ValueAt(f, x) \in Nat /\ ValueAt(g, x) \in Nat
      /\ ValueAt(f, x) <= Total(f)
      /\ Total(g) + ValueAt(f, x) = Total(f) + ValueAt(g, x)
  BY <1>2, <1>3, <1>4, TotalUpdate
<1> QED
  BY <1>5, <1>6, <1>7

(* A sum covers each of its parts, and is nothing if no record is in the    *)
(* set.                                                                     *)
LEMMA SumBound ==
  ASSUME NEW M, NEW K, NEW field, AmountMap(M, field)
  PROVE  /\ SumOver(M, K, field) \in Nat
         /\ \A x \in DOMAIN M : M[x] \in K => M[x][field] <= SumOver(M, K, field)
         /\ (\A x \in DOMAIN M : M[x] \notin K) => SumOver(M, K, field) = 0
<1>1. \A x : SameBut(M, M, x)
  BY DEF SameBut
<1>2. ASSUME NEW x \in DOMAIN M, M[x] \in K
      PROVE  M[x][field] <= SumOver(M, K, field)
  <2>1. PartOf(M, x, K, field) <= SumOver(M, K, field)
    BY <1>1, SumUpdate
  <2> QED
    BY <1>2, <2>1 DEF PartOf
<1>3. (\A x \in DOMAIN M : M[x] \notin K) => SumOver(M, K, field) = 0
  BY TotalZero DEF SumOver
<1> QED
  BY <1>1, <1>2, <1>3, SumUpdate

-----------------------------------------------------------------------------
(* Facts about products and remainders that the proofs cite. *)
LEMMA Distribution ==
  ASSUME NEW a \in Int, NEW b \in Int, NEW m \in Int
  PROVE  (a - b) * m = a * m - b * m
OBVIOUS

LEMMA Multiples ==
  ASSUME NEW a \in Int, NEW b \in Int
  PROVE  (a - b) * (MaxU64 + 1) = a * (MaxU64 + 1) - b * (MaxU64 + 1)
<1>1. MaxU64 + 1 \in Int
  BY MaxU64Assumption
<1> QED
  BY <1>1, Distribution, Zenon

LEMMA Division ==
  ASSUME NEW m \in Nat, m > 0, NEW x \in Int
  PROVE  \E q \in Int : x = q * m + (x % m)
BY SMTT(20)

(* What a remainder is. *)
LEMMA Remainder ==
  ASSUME NEW m \in Nat, m > 0, NEW k \in Int, NEW r \in 0 .. (m - 1),
         NEW x \in Int, x = k * m + r
  PROVE  x % m = r
<1>1. PICK q \in Int, s \in 0 .. (m - 1) : s = x % m /\ x = q * m + s
  <2>1. x % m \in 0 .. (m - 1)
    OBVIOUS
  <2> QED
    BY <2>1, Division
<1>2. /\ r \in Int /\ s \in Int /\ m \in Int
      /\ 0 <= r /\ r <= m - 1 /\ 0 <= s /\ s <= m - 1
  OBVIOUS
<1>3. (k - q) * m = s - r
  <2>0. m \in Int
    OBVIOUS
  <2>1. (k - q) * m = k * m - q * m
    BY <2>0, Distribution, Zenon
  <2>2. k * m \in Int /\ q * m \in Int
    BY <1>2
  <2>3. k * m + r = q * m + s
    BY <1>1, Zenon
  <2> QED
    BY <1>2, <2>1, <2>2, <2>3
<1>4. CASE k - q >= 1
  <2>1. (k - q) * m >= m
    BY <1>4
  <2> QED
    BY <1>2, <1>3, <2>1
<1>5. CASE k - q <= -1
  <2>1. (k - q) * m <= -m
    BY <1>5
  <2> QED
    BY <1>2, <1>3, <2>1
<1>6. CASE k - q = 0
  <2>1. (k - q) * m = 0
    BY <1>6
  <2> QED
    BY <1>1, <1>2, <1>3, <2>1
<1> QED
  BY <1>4, <1>5, <1>6

(* Two numbers are the same modulo 2^64 if they differ by a multiple of it. *)
LEMMA SameModuloMultiple ==
  ASSUME NEW a \in Int, NEW b \in Int
  PROVE  SameModulo(a, b) <=> \E k \in Int : a - b = k * (MaxU64 + 1)
<1> DEFINE m == MaxU64 + 1
           x == a - b
<1>1. m \in Nat /\ m > 0 /\ x \in Int
  BY MaxU64Assumption
<1>2. SameModulo(a, b) <=> x % m = 0
  BY DEF SameModulo
<1> SUFFICES x % m = 0 <=> \E k \in Int : x = k * m
  BY <1>2
<1> HIDE DEF m, x
<1>3. PICK q \in Int, r \in 0 .. (m - 1) : r = x % m /\ x = q * m + r
  <2>1. x % m \in 0 .. (m - 1)
    BY <1>1
  <2> QED
    BY <1>1, <2>1, Division
<1>4. r \in Int /\ r <= m - 1 /\ 0 <= r
  BY <1>1
<1>5. ASSUME NEW k \in Int, x = k * m
      PROVE  r = 0
  <2>1. (k - q) * m = r
    <3>0. m \in Int
      BY <1>1
    <3>1. (k - q) * m = k * m - q * m
      BY <3>0, Distribution, Zenon
    <3>2. k * m \in Int /\ q * m \in Int
      BY <3>0
    <3>3. k * m = q * m + r
      BY <1>3, <1>5, Zenon
    <3> QED
      BY <1>4, <3>1, <3>2, <3>3
  <2>2. CASE k - q >= 1
    <3>1. (k - q) * m >= m
      BY <1>1, <2>2
    <3> QED
      BY <1>1, <1>4, <2>1, <3>1
  <2>3. CASE k - q <= -1
    <3>1. (k - q) * m <= -m
      BY <1>1, <2>3
    <3> QED
      BY <1>1, <1>4, <2>1, <3>1
  <2>4. CASE k - q = 0
    BY <1>1, <2>1, <2>4
  <2> QED
    BY <2>2, <2>3, <2>4
<1>6. r = 0 => x = q * m
  BY <1>1, <1>3
<1> QED
  BY <1>3, <1>5, <1>6

(* Equality modulo 2^64 is kept when the difference changes by a multiple   *)
(* of it: this is all that wrapping does.                                   *)
LEMMA SameModuloShift ==
  ASSUME NEW a \in Int, NEW b \in Int, NEW c \in Int, NEW d \in Int, NEW j \in Int,
         SameModulo(a, b), c - d = a - b + j * (MaxU64 + 1)
  PROVE  SameModulo(c, d)
<1>1. PICK k \in Int : a - b = k * (MaxU64 + 1)
  BY SameModuloMultiple
<1>2. c - d = (k + j) * (MaxU64 + 1)
  BY <1>1, MaxU64Assumption
<1>3. k + j \in Int
  OBVIOUS
<1> QED
  BY <1>2, <1>3, SameModuloMultiple

(* A sum or a difference of u64 that wraps is off by one multiple of 2^64.  *)
LEMMA WrapMultiple ==
  ASSUME NEW a \in U64, NEW b \in U64
  PROVE  /\ \E j \in Int : WrapAdd(a, b) = a + b + j * (MaxU64 + 1)
         /\ \E j \in Int : WrapSub(a, b) = a - b + j * (MaxU64 + 1)
<1>1. a \in Int /\ b \in Int /\ MaxU64 \in Int
  BY MaxU64Assumption DEF U64
<1>2. \/ WrapAdd(a, b) = a + b + 0 * (MaxU64 + 1)
      \/ WrapAdd(a, b) = a + b + (-1) * (MaxU64 + 1)
  BY <1>1 DEF WrapAdd
<1>3. \/ WrapSub(a, b) = a - b + 0 * (MaxU64 + 1)
      \/ WrapSub(a, b) = a - b + 1 * (MaxU64 + 1)
  BY <1>1 DEF WrapSub
<1> QED
  BY <1>2, <1>3
-----------------------------------------------------------------------------
(* Products of an amount and a price. *)
LEMMA Products ==
  ASSUME NEW a \in Nat, NEW b \in Nat, NEW p \in Nat, a <= b
  PROVE  /\ a * p \in Nat /\ b * p \in Nat
         /\ a * p <= b * p
         /\ (b - a) * p = b * p - a * p
<1>1. (b - a) * p = b * p - a * p
  OBVIOUS
<1>2. b - a \in Nat
  OBVIOUS
<1>3. (b - a) * p \in Nat
  BY <1>2
<1> QED
  BY <1>1, <1>3
=============================================================================
