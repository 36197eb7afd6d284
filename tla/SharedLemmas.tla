---------------------------- MODULE SharedLemmas ----------------------------
(***************************************************************************)
(* Lemmas that the proofs of several components need: how a sum of         *)
(* UnitSums changes with the set it ranges over, what stays of a list when *)
(* entries are taken from it, and what becomes of a projection when its    *)
(* projector has read the events it still has before it, as more are       *)
(* published, as they are read and as one is read again.                   *)
(***************************************************************************)
EXTENDS UnitSums, Lists, FiniteSetTheorems, TLAPS

------------------------------------------------------------------------------
(* Sums.                                                                   *)

(* The units of one element, counted. *)
LEMMA OneElement ==
  ASSUME NEW x, NEW n \in Nat
  PROVE  IsFiniteSet({x} \X (1..n)) /\ Cardinality({x} \X (1..n)) = n
<1> DEFINE f == [i \in 1..n |-> <<x, i>>]
<1>1. f \in Bijection(1..n, {x} \X (1..n))
  BY DEF Bijection, Injection, Surjection, IsInjective
<1>2. IsFiniteSet(1..n) /\ Cardinality(1..n) = n
  BY FS_Interval
<1>3. ExistsBijection(1..n, {x} \X (1..n))
  BY <1>1 DEF ExistsBijection
<1> QED  BY <1>2, <1>3, FS_Bijection

(* The units of S with one more element are those of S and those of the    *)
(* element.                                                                *)
LEMMA UnitsOfAdd ==
  ASSUME NEW S, NEW x, NEW f, x \notin S
  PROVE  /\ UnitsOf(S \cup {x}, f) = UnitsOf(S, f) \cup ({x} \X (1..f[x]))
         /\ UnitsOf(S, f) \cap ({x} \X (1..f[x])) = {}
<1>1. UnitsOf(S \cup {x}, f) \subseteq UnitsOf(S, f) \cup ({x} \X (1..f[x]))
  BY DEF UnitsOf
<1>2. UnitsOf(S, f) \cup ({x} \X (1..f[x])) \subseteq UnitsOf(S \cup {x}, f)
  BY DEF UnitsOf
<1>3. UnitsOf(S, f) \cap ({x} \X (1..f[x])) = {}
  BY DEF UnitsOf
<1> QED  BY <1>1, <1>2, <1>3

(* A sum depends only on the amounts of the elements it ranges over. *)
LEMMA TotalSame ==
  ASSUME NEW S, NEW f, NEW g, \A y \in S : g[y] = f[y]
  PROVE  UnitsOf(S, g) = UnitsOf(S, f) /\ Total(S, g) = Total(S, f)
<1>1. UnitsOf(S, g) = UnitsOf(S, f)
  BY DEF UnitsOf
<1> QED  BY <1>1 DEF Total

(* Nothing sums to zero. *)
LEMMA TotalEmpty ==
  ASSUME NEW f
  PROVE  IsFiniteSet(UnitsOf({}, f)) /\ Total({}, f) = 0
<1>1. UnitsOf({}, f) = {}
  BY DEF UnitsOf
<1> QED  BY <1>1, FS_EmptySet DEF Total

(* One more element adds its amount. *)
LEMMA TotalAdd ==
  ASSUME NEW S, NEW x, NEW f, x \notin S, f[x] \in Nat, IsFiniteSet(UnitsOf(S, f))
  PROVE  /\ IsFiniteSet(UnitsOf(S \cup {x}, f))
         /\ Total(S, f) \in Nat
         /\ Total(S \cup {x}, f) = Total(S, f) + f[x]
<1> DEFINE U == UnitsOf(S, f)
           X == {x} \X (1..f[x])
<1>1. UnitsOf(S \cup {x}, f) = U \cup X /\ U \cap X = {}
  BY UnitsOfAdd
<1>2. IsFiniteSet(X) /\ Cardinality(X) = f[x]
  BY OneElement
<1>3. Cardinality(U \cap X) = 0
  BY <1>1, FS_EmptySet
<1>4. IsFiniteSet(U \cup X)
      /\ Cardinality(U \cup X) = Cardinality(U) + Cardinality(X) - Cardinality(U \cap X)
  BY <1>2, FS_Union
<1>5. Cardinality(U) \in Nat
  BY FS_CardinalityType
<1> HIDE DEF U, X
<1>6. Cardinality(U \cup X) = Cardinality(U) + f[x]
  BY <1>2, <1>3, <1>4, <1>5
<1> QED  BY <1>1, <1>4, <1>5, <1>6 DEF Total, U

(* One element less takes its amount away. *)
LEMMA TotalRemove ==
  ASSUME NEW S, NEW x \in S, NEW f, f[x] \in Nat, IsFiniteSet(UnitsOf(S, f))
  PROVE  /\ IsFiniteSet(UnitsOf(S \ {x}, f))
         /\ Total(S \ {x}, f) \in Nat
         /\ Total(S \ {x}, f) = Total(S, f) - f[x]
<1> DEFINE T == S \ {x}
<1>1. UnitsOf(T, f) \subseteq UnitsOf(S, f)
  BY DEF UnitsOf
<1>2. IsFiniteSet(UnitsOf(T, f))
  BY <1>1, FS_Subset
<1>3. T \cup {x} = S /\ x \notin T
  OBVIOUS
<1>4. Total(T, f) \in Nat /\ Total(T \cup {x}, f) = Total(T, f) + f[x]
  BY <1>2, <1>3, TotalAdd
<1> HIDE DEF T
<1>5. Total(S, f) = Total(T, f) + f[x]
  BY <1>3, <1>4
<1>6. Total(T, f) \in Nat /\ Total(T, f) = Total(S, f) - f[x]
  BY <1>4, <1>5
<1> QED  BY <1>2, <1>6 DEF T

(* The sum of amount over S is n.                                          *)
Sums(S, amount, n) == IsFiniteSet(UnitsOf(S, amount)) /\ Total(S, amount) = n

LEMMA SumsZero ==
  ASSUME NEW S, NEW f, \A y \in S : f[y] = 0
  PROVE  Sums(S, f, 0)
<1>1. \A y \in S : 1..f[y] = {}
  OBVIOUS
<1>2. UnitsOf(S, f) = {}
  BY <1>1 DEF UnitsOf
<1> QED  BY <1>2, FS_EmptySet DEF Sums, Total

LEMMA SumsSame ==
  ASSUME NEW S, NEW f, NEW g, NEW n, \A y \in S : g[y] = f[y], Sums(S, f, n)
  PROVE  Sums(S, g, n)
  BY TotalSame DEF Sums

(* One amount grows by one.                                                *)
LEMMA SumsMore ==
  ASSUME NEW S, NEW x, x \in S, NEW f, NEW g, NEW n, Sums(S, f, n), f[x] \in Nat, g[x] = f[x] + 1,
         \A y \in S : y # x => g[y] = f[y]
  PROVE  n \in Nat /\ Sums(S, g, n + 1)
<1> DEFINE T == S \ {x}
<1>1. IsFiniteSet(UnitsOf(S, f)) /\ Total(S, f) = n
  BY DEF Sums
<1>2. IsFiniteSet(UnitsOf(T, f)) /\ Total(T, f) \in Nat /\ Total(T, f) = n - f[x]
  BY <1>1, TotalRemove
<1>3. T \cup {x} = S /\ x \notin T
  OBVIOUS
<1>4. n = Total(T, f) + f[x]
  <2>1. Total(T \cup {x}, f) = Total(T, f) + f[x]
    BY <1>2, <1>3, TotalAdd
  <2> QED  BY <1>1, <1>3, <2>1
<1>5. UnitsOf(T, g) = UnitsOf(T, f) /\ Total(T, g) = Total(T, f)
  BY TotalSame
<1> HIDE DEF T
<1>6. IsFiniteSet(UnitsOf(T \cup {x}, g)) /\ Total(T \cup {x}, g) = Total(T, g) + g[x]
  <2>1. g[x] \in Nat /\ IsFiniteSet(UnitsOf(T, g))
    BY <1>2, <1>5
  <2> QED  BY <1>3, <2>1, TotalAdd
<1>7. IsFiniteSet(UnitsOf(S, g)) /\ Total(S, g) = Total(T, f) + (f[x] + 1)
  BY <1>3, <1>5, <1>6
<1> QED  BY <1>2, <1>4, <1>7 DEF Sums

------------------------------------------------------------------------------
(* Lists from which entries are taken.                                     *)

(* Every number from 1 on counts one element of a finite set of numbers.   *)
LEMMA NthCounts ==
  ASSUME NEW S \in SUBSET Nat, IsFiniteSet(S), NEW n \in 1..Cardinality(S)
  PROVE  Nth(S, n) \in S /\ Cardinality({j \in S : j <= Nth(S, n)}) = n
<1> DEFINE Rank(k) == Cardinality({j \in S : j <= k})
           rank == [k \in S |-> Rank(k)]
<1>1. ASSUME NEW k \in S, NEW m \in S, k < m PROVE Rank(k) < Rank(m)
  <2> DEFINE A == {j \in S : j <= k}
             B == {j \in S : j <= m}
  <2>1. A \in SUBSET B /\ m \in B /\ m \notin A /\ IsFiniteSet(B)
    <3>1. B \in SUBSET S
      OBVIOUS
    <3>2. IsFiniteSet(B)
      BY <3>1, FS_Subset
    <3>3. k \in Nat /\ m \in Nat /\ \A j \in S : j \in Nat
      OBVIOUS
    <3>4. m \in B /\ m \notin A
      BY <1>1, <3>3
    <3>5. \A j \in S : j <= k => j <= m
      BY <1>1, <3>3
    <3>6. A \in SUBSET B
      BY <3>5
    <3> QED  BY <3>2, <3>4, <3>6
  <2>2. Cardinality(A) <= Cardinality(B) /\ (Cardinality(B) = Cardinality(A) => B = A)
        /\ IsFiniteSet(A)
    BY <2>1, FS_Subset
  <2>3. Cardinality(A) \in Nat /\ Cardinality(B) \in Nat
    BY <2>1, <2>2, FS_CardinalityType
  <2>4. Cardinality(A) # Cardinality(B)
    BY <2>1, <2>2
  <2> HIDE DEF A, B
  <2>5. Cardinality(A) < Cardinality(B)
    BY <2>2, <2>3, <2>4
  <2> QED  BY <2>5 DEF A, B
<1>2. ASSUME NEW k \in S PROVE Rank(k) \in 1..Cardinality(S)
  <2> DEFINE A == {j \in S : j <= k}
  <2>1. A \in SUBSET S /\ k \in A
    OBVIOUS
  <2>2. IsFiniteSet(A) /\ Cardinality(A) <= Cardinality(S)
    BY <2>1, FS_Subset
  <2>3. Cardinality(A) \in Nat /\ Cardinality(S) \in Nat /\ Cardinality(A) # 0
    BY <2>1, <2>2, FS_CardinalityType, FS_EmptySet
  <2> HIDE DEF A
  <2>4. Cardinality(A) \in 1..Cardinality(S)
    BY <2>2, <2>3
  <2> QED  BY <2>4 DEF A
<1> HIDE DEF Rank
<1>3. rank \in [S -> 1..Cardinality(S)]
  BY <1>2
<1>4. \A k, m \in S : rank[k] = rank[m] => k = m
  <2>1. ASSUME NEW k \in S, NEW m \in S, k # m PROVE rank[k] # rank[m]
    <3>1. k < m \/ m < k
      BY <2>1
    <3>2. Rank(k) \in Int /\ Rank(m) \in Int
      BY <1>2
    <3> QED  BY <1>1, <3>1, <3>2
  <2> QED  BY <2>1
<1>5. rank \in Injection(S, 1..Cardinality(S))
  BY <1>3, <1>4 DEF Injection, IsInjective
<1>6. Cardinality(S) \in Nat /\ IsFiniteSet(1..Cardinality(S))
      /\ Cardinality(1..Cardinality(S)) = Cardinality(S)
  <2>1. Cardinality(S) \in Nat
    BY FS_CardinalityType
  <2>2. IsFiniteSet(1..Cardinality(S))
        /\ Cardinality(1..Cardinality(S)) = IF 1 > Cardinality(S) THEN 0 ELSE Cardinality(S)-1+1
    BY <2>1, FS_Interval
  <2> QED  BY <2>1, <2>2
<1>7. rank \in Surjection(S, 1..Cardinality(S))
  BY <1>5, <1>6, FS_Injection
<1>8. \E k \in S : Rank(k) = n
  BY <1>7 DEF Surjection
<1> QED  BY <1>8 DEF Nth, Rank

(* They are counted in order, and none is missed.                          *)
LEMMA NthInOrder ==
  ASSUME NEW S \in SUBSET Nat, IsFiniteSet(S)
  PROVE  /\ \A n, m \in 1..Cardinality(S) : n < m => Nth(S, n) < Nth(S, m)
         /\ \A k \in S : \E n \in 1..Cardinality(S) : Nth(S, n) = k
<1> DEFINE Rank(k) == {j \in S : j <= k}
<1>1. ASSUME NEW k \in Nat, NEW m \in Nat, k <= m
      PROVE  /\ Cardinality(Rank(k)) \in Nat /\ Cardinality(Rank(m)) \in Nat
             /\ Cardinality(Rank(k)) <= Cardinality(Rank(m))
  <2>1. Rank(k) \in SUBSET Rank(m) /\ Rank(m) \in SUBSET S
    <3>1. \A j \in S : j \in Nat
      OBVIOUS
    <3>2. \A j \in S : j <= k => j <= m
      BY <1>1, <3>1
    <3> QED  BY <3>2
  <2>2. IsFiniteSet(Rank(m))
    BY <2>1, FS_Subset
  <2>3. IsFiniteSet(Rank(k)) /\ Cardinality(Rank(k)) <= Cardinality(Rank(m))
    BY <2>1, <2>2, FS_Subset
  <2> QED  BY <2>2, <2>3, FS_CardinalityType
<1>2. \A n \in 1..Cardinality(S) : Nth(S, n) \in S /\ Cardinality(Rank(Nth(S, n))) = n
  BY NthCounts
<1> HIDE DEF Rank
<1>3. ASSUME NEW n \in 1..Cardinality(S), NEW m \in 1..Cardinality(S), n < m
      PROVE  Nth(S, n) < Nth(S, m)
  <2>1. Nth(S, n) \in Nat /\ Nth(S, m) \in Nat
    BY <1>2
  <2>2. CASE Nth(S, m) <= Nth(S, n)
    <3>1. Cardinality(Rank(Nth(S, m))) <= Cardinality(Rank(Nth(S, n)))
      BY <1>1, <2>1, <2>2
    <3>2. m <= n
      BY <1>2, <3>1
    <3>3. n \in Int /\ m \in Int
      BY FS_CardinalityType
    <3> QED  BY <1>3, <3>2, <3>3
  <2> QED  BY <2>1, <2>2
<1>4. ASSUME NEW k \in S PROVE \E n \in 1..Cardinality(S) : Nth(S, n) = k
  <2> DEFINE r == Cardinality(Rank(k))
  <2>1. r \in 1..Cardinality(S)
    <3>1. Rank(k) \in SUBSET S /\ k \in Rank(k)
      BY DEF Rank
    <3>2. IsFiniteSet(Rank(k)) /\ r <= Cardinality(S)
      BY <3>1, FS_Subset
    <3>3. r \in Nat /\ Cardinality(S) \in Nat /\ r # 0
      BY <3>1, <3>2, FS_CardinalityType, FS_EmptySet
    <3> QED  BY <3>2, <3>3
  <2>2. Nth(S, r) \in S /\ Rank(Nth(S, r)) \in SUBSET S /\ Rank(k) \in SUBSET S
        /\ Cardinality(Rank(Nth(S, r))) = Cardinality(Rank(k))
    BY <1>2, <2>1 DEF Rank
  <2>3. IsFiniteSet(Rank(k)) /\ IsFiniteSet(Rank(Nth(S, r)))
    BY <2>2, FS_Subset
  <2>4. Rank(k) \in SUBSET Rank(Nth(S, r)) \/ Rank(Nth(S, r)) \in SUBSET Rank(k)
    <3>1. ASSUME NEW i \in S, NEW j \in S, NEW l \in S, i <= j, j <= l PROVE i <= l
      <4>1. i \in Nat /\ j \in Nat /\ l \in Nat
        OBVIOUS
      <4> QED  BY <3>1, <4>1
    <3>2. k <= Nth(S, r) \/ Nth(S, r) <= k
      <4>1. k \in Nat /\ Nth(S, r) \in Nat
        BY <2>2
      <4> HIDE DEF r
      <4> QED  BY <4>1
    <3> QED  BY <2>2, <3>1, <3>2 DEF Rank
  <2>5. Rank(k) = Rank(Nth(S, r))
    <3>1. CASE Rank(k) \in SUBSET Rank(Nth(S, r))
      BY <2>2, <2>3, <3>1, FS_Subset
    <3>2. CASE Rank(Nth(S, r)) \in SUBSET Rank(k)
      BY <2>2, <2>3, <3>2, FS_Subset
    <3> QED  BY <2>4, <3>1, <3>2
  <2>6. k \in Rank(k) /\ Nth(S, r) \in Rank(Nth(S, r))
    <3>1. \A j \in S : j <= j
      OBVIOUS
    <3> QED  BY <2>2, <3>1 DEF Rank
  <2>7. k <= Nth(S, r) /\ Nth(S, r) <= k
    <3>1. k \in Rank(Nth(S, r)) /\ Nth(S, r) \in Rank(k)
      BY <2>5, <2>6
    <3> QED  BY <3>1 DEF Rank
  <2>8. Nth(S, r) = k
    <3>1. k \in Nat /\ Nth(S, r) \in Nat
      BY <2>2
    <3> HIDE DEF r
    <3> QED  BY <2>7, <3>1
  <2> HIDE DEF r
  <2> QED  BY <2>1, <2>8
<1> QED  BY <1>3, <1>4

(* What is kept of a list is some of its entries, in their order.          *)
LEMMA KeepingKeeps ==
  ASSUME NEW E, NEW list \in Seq(E), NEW kept, kept \in SUBSET (1..Len(list))
  PROVE  LET n == Cardinality(kept) IN
         /\ n \in Nat /\ Keeping(list, kept) \in Seq(E) /\ Len(Keeping(list, kept)) = n
         /\ \A k \in 1..n : /\ Nth(kept, k) \in kept
                            /\ Keeping(list, kept)[k] = list[Nth(kept, k)]
         /\ \A k, m \in 1..n : k < m => Nth(kept, k) < Nth(kept, m)
         /\ \A k \in kept : \E m \in 1..n : Nth(kept, m) = k
<1> DEFINE n == Cardinality(kept)
<1>1. IsFiniteSet(1..Len(list)) /\ kept \in SUBSET Nat
  BY FS_Interval
<1>2. IsFiniteSet(kept)
  BY <1>1, FS_Subset
<1>3. n \in Nat
  BY <1>2, FS_CardinalityType
<1>4. \A k \in 1..n : Nth(kept, k) \in kept
  BY <1>1, <1>2, NthCounts
<1>5. /\ \A k, m \in 1..n : k < m => Nth(kept, k) < Nth(kept, m)
      /\ \A k \in kept : \E m \in 1..n : Nth(kept, m) = k
  BY <1>1, <1>2, NthInOrder
<1>6. Keeping(list, kept) = [k \in 1..n |-> list[Nth(kept, k)]]
  BY DEF Keeping
<1>7. \A k \in 1..n : list[Nth(kept, k)] \in E
  <2>1. \A k \in kept : list[k] \in E
    OBVIOUS
  <2> QED  BY <1>4, <2>1
<1> HIDE DEF n
<1>8. Keeping(list, kept) \in Seq(E) /\ Len(Keeping(list, kept)) = n
  BY <1>3, <1>6, <1>7
<1>9. \A k \in 1..n : Keeping(list, kept)[k] = list[Nth(kept, k)]
  BY <1>6
<1> QED  BY <1>3, <1>4, <1>5, <1>8, <1>9 DEF n
------------------------------------------------------------------------------
(* Events ahead of a projector.  Steps has a triple <<before, event,       *)
(* after>> for everything the projector may do; x becomes y when events    *)
(* are read.                                                               *)
Leads(Steps, x, events, y) ==
  \E rows : /\ rows[0] = x
            /\ rows[Len(events)] = y
            /\ \A k \in 1..Len(events) : <<rows[k - 1], events[k], rows[k]>> \in Steps

(* With nothing to read nothing changes. *)
LEMMA LeadsNone ==
  ASSUME NEW Steps, NEW x
  PROVE  /\ Leads(Steps, x, << >>, x)
         /\ \A y : Leads(Steps, x, << >>, y) => y = x
<1>1. Leads(Steps, x, << >>, x)
  <2> DEFINE rows == [k \in {0} |-> x]
  <2>1. rows[0] = x /\ Len(<< >>) = 0 /\ 1..0 = {}
    OBVIOUS
  <2> HIDE DEF rows
  <2> QED  BY <2>1 DEF Leads
<1>2. ASSUME NEW y, Leads(Steps, x, << >>, y) PROVE y = x
  BY <1>2 DEF Leads
<1> QED  BY <1>1, <1>2

(* More may be read of more events.                                        *)
LEMMA LeadsWider ==
  ASSUME NEW Steps, NEW Wider, NEW x, NEW events, NEW y, Leads(Steps, x, events, y),
         \A k \in 1..Len(events) :
           \A b, a : <<b, events[k], a>> \in Steps => <<b, events[k], a>> \in Wider
  PROVE  Leads(Wider, x, events, y)
<1>1. PICK rows : /\ rows[0] = x
                  /\ rows[Len(events)] = y
                  /\ \A k \in 1..Len(events) : <<rows[k - 1], events[k], rows[k]>> \in Steps
  BY Zenon DEF Leads
<1>2. \A k \in 1..Len(events) : <<rows[k - 1], events[k], rows[k]>> \in Wider
  BY <1>1
<1> QED  BY <1>1, <1>2, Zenon DEF Leads

(* One more event is published. *)
LEMMA LeadsMore ==
  ASSUME NEW Steps, NEW E, NEW events \in Seq(E), NEW e \in E, NEW x, NEW y, NEW z,
         Leads(Steps, x, events, y), <<y, e, z>> \in Steps
  PROVE  Leads(Steps, x, events \o <<e>>, z)
<1>1. PICK rows : /\ rows[0] = x
                  /\ rows[Len(events)] = y
                  /\ \A k \in 1..Len(events) : <<rows[k - 1], events[k], rows[k]>> \in Steps
  BY Zenon DEF Leads
<1> DEFINE n == Len(events)
           longer == [k \in 0..(n + 1) |-> IF k = n + 1 THEN z ELSE rows[k]]
           more == events \o <<e>>
<1>2. /\ n \in Nat /\ Len(more) = n + 1
      /\ more[n + 1] = e /\ \A k \in 1..n : more[k] = events[k]
  OBVIOUS
<1>3. longer[0] = x /\ longer[n + 1] = z /\ longer[n] = y
  BY <1>1, <1>2
<1>4. ASSUME NEW k \in 1..(n + 1) PROVE <<longer[k - 1], more[k], longer[k]>> \in Steps
  <2>1. CASE k = n + 1
    <3>1. longer[k - 1] = y /\ more[k] = e /\ longer[k] = z
      BY <1>2, <1>3, <2>1
    <3> QED  BY <3>1
  <2>2. CASE k # n + 1
    <3>1. k \in 1..n /\ k - 1 \in 0..n /\ k # n + 1 /\ k - 1 # n + 1
      BY <1>2, <2>2
    <3>2. longer[k - 1] = rows[k - 1] /\ longer[k] = rows[k] /\ more[k] = events[k]
      BY <1>2, <3>1
    <3> QED  BY <1>1, <3>1, <3>2
  <2> QED  BY <2>1, <2>2
<1> HIDE DEF longer, more, n
<1>5. Leads(Steps, x, more, z)
  BY <1>2, <1>3, <1>4 DEF Leads
<1> QED  BY <1>5 DEF more

(* The oldest event is read, and acknowledged. *)
LEMMA LeadsRead ==
  ASSUME NEW Steps, NEW E, NEW events \in Seq(E), NEW x, NEW y,
         Leads(Steps, x, events, y), events # << >>
  PROVE  \E w : <<x, Head(events), w>> \in Steps /\ Leads(Steps, w, Tail(events), y)
<1>1. PICK rows : /\ rows[0] = x
                  /\ rows[Len(events)] = y
                  /\ \A k \in 1..Len(events) : <<rows[k - 1], events[k], rows[k]>> \in Steps
  BY Zenon DEF Leads
<1> DEFINE n == Len(events)
           rest == Tail(events)
           shorter == [k \in 0..(n - 1) |-> rows[k + 1]]
<1>2. /\ n \in Nat \ {0} /\ Len(rest) = n - 1
      /\ Head(events) = events[1] /\ \A k \in 1..(n - 1) : rest[k] = events[k + 1]
  OBVIOUS
<1>3. shorter[0] = rows[1] /\ shorter[n - 1] = y
  BY <1>1, <1>2
<1>4. ASSUME NEW k \in 1..(n - 1) PROVE <<shorter[k - 1], rest[k], shorter[k]>> \in Steps
  <2>1. k + 1 \in 1..n /\ k - 1 \in 0..(n - 1) /\ k \in 0..(n - 1) /\ k - 1 + 1 = k
        /\ (k + 1) - 1 = k
    BY <1>2
  <2>2. shorter[k - 1] = rows[k] /\ shorter[k] = rows[k + 1] /\ rest[k] = events[k + 1]
    BY <1>2, <2>1
  <2>3. <<rows[(k + 1) - 1], events[k + 1], rows[k + 1]>> \in Steps
    BY <1>1, <2>1
  <2> QED  BY <2>1, <2>2, <2>3
<1>5. <<x, events[1], rows[1]>> \in Steps
  <2>1. 1 \in 1..n /\ 1 - 1 = 0
    BY <1>2
  <2> QED  BY <1>1, <2>1
<1> HIDE DEF shorter, n, rest
<1>6. Leads(Steps, rows[1], rest, y)
  BY <1>2, <1>3, <1>4 DEF Leads
<1> QED  BY <1>2, <1>5, <1>6 DEF rest

(* The oldest event is read but not acknowledged, by a projector that does *)
(* nothing when it reads it again. *)
LEMMA LeadsAgain ==
  ASSUME NEW Steps, NEW E, NEW events \in Seq(E), NEW w, NEW y, events # << >>,
         Leads(Steps, w, Tail(events), y), <<w, Head(events), w>> \in Steps
  PROVE  Leads(Steps, w, events, y)
<1>1. PICK rows : /\ rows[0] = w
                  /\ rows[Len(Tail(events))] = y
                  /\ \A k \in 1..Len(Tail(events)) :
                       <<rows[k - 1], Tail(events)[k], rows[k]>> \in Steps
  BY Zenon DEF Leads
<1> DEFINE n == Len(events)
           rest == Tail(events)
           again == [k \in 0..n |-> IF k = 0 THEN w ELSE rows[k - 1]]
<1>2. /\ n \in Nat \ {0} /\ Len(rest) = n - 1
      /\ Head(events) = events[1] /\ \A k \in 1..(n - 1) : rest[k] = events[k + 1]
  OBVIOUS
<1>3. again[0] = w /\ again[1] = w /\ again[n] = y
  BY <1>1, <1>2
<1>4. ASSUME NEW k \in 1..n PROVE <<again[k - 1], events[k], again[k]>> \in Steps
  <2>1. CASE k = 1
    <3>1. again[k - 1] = w /\ events[k] = Head(events) /\ again[k] = w
      BY <1>2, <1>3, <2>1
    <3> QED  BY <3>1
  <2>2. CASE k # 1
    <3>1. /\ k - 1 \in 1..(n - 1) /\ k - 1 \in 0..n /\ k - 1 # 0 /\ k \in 0..n /\ k # 0
          /\ (k - 1) + 1 = k
      BY <1>2, <2>2
    <3>2. again[k - 1] = rows[(k - 1) - 1] /\ again[k] = rows[k - 1] /\ rest[k - 1] = events[k]
      BY <1>2, <3>1
    <3>3. <<rows[(k - 1) - 1], rest[k - 1], rows[k - 1]>> \in Steps
      BY <1>1, <1>2, <3>1
    <3> QED  BY <3>2, <3>3
  <2> QED  BY <2>1, <2>2
<1> HIDE DEF again, n, rest
<1>5. Leads(Steps, w, events, y)
  BY <1>3, <1>4 DEF Leads, n
<1> QED  BY <1>5

(* The projector writes what the oldest event makes of the projection, and *)
(* acknowledges the event or not. *)
LEMMA LeadsProject ==
  ASSUME NEW Steps, NEW E, NEW events \in Seq(E), NEW x, NEW y, NEW after, events # << >>,
         Leads(Steps, x, events, y),
         \A w : <<x, Head(events), w>> \in Steps => w = after
  PROVE  /\ <<x, Head(events), after>> \in Steps
         /\ Leads(Steps, after, Tail(events), y)
         /\ <<after, Head(events), after>> \in Steps => Leads(Steps, after, events, y)
<1>1. PICK w : <<x, Head(events), w>> \in Steps /\ Leads(Steps, w, Tail(events), y)
  BY LeadsRead
<1>2. w = after
  BY <1>1
<1>3. <<x, Head(events), after>> \in Steps /\ Leads(Steps, after, Tail(events), y)
  BY <1>1, <1>2
<1> QED  BY <1>3, LeadsAgain

(* Events are published after those that wait.                             *)
LEMMA LeadsJoin ==
  ASSUME NEW Steps, NEW E, NEW events \in Seq(E), NEW more \in Seq(E), NEW x, NEW y, NEW z,
         Leads(Steps, x, events, y), Leads(Steps, y, more, z)
  PROVE  Leads(Steps, x, events \o more, z)
<1>1. PICK rows : /\ rows[0] = x
                  /\ rows[Len(events)] = y
                  /\ \A k \in 1..Len(events) : <<rows[k - 1], events[k], rows[k]>> \in Steps
  BY Zenon DEF Leads
<1>2. PICK next : /\ next[0] = y
                  /\ next[Len(more)] = z
                  /\ \A k \in 1..Len(more) : <<next[k - 1], more[k], next[k]>> \in Steps
  BY Zenon DEF Leads
<1> DEFINE n == Len(events)
           m == Len(more)
           all == [k \in 0..(n + m) |-> IF k <= n THEN rows[k] ELSE next[k - n]]
           long == events \o more
<1>3. /\ n \in Nat /\ m \in Nat /\ Len(long) = n + m
      /\ \A k \in 1..n : long[k] = events[k]
      /\ \A k \in (n + 1)..(n + m) : long[k] = more[k - n]
  OBVIOUS
<1> HIDE DEF long
<1>4. /\ \A k \in 0..n : all[k] = rows[k]
      /\ \A k \in n..(n + m) : all[k] = next[k - n]
  <2>1. \A k \in 0..n : k \in 0..(n + m) /\ k <= n
    BY <1>3
  <2>2. ASSUME NEW k \in n..(n + m) PROVE all[k] = next[k - n]
    <3>1. CASE k = n
      BY <1>1, <1>2, <1>3, <3>1
    <3>2. CASE k # n
      <4>1. k \in 0..(n + m) /\ ~(k <= n)
        BY <1>3, <3>2
      <4> QED  BY <4>1
    <3> QED  BY <3>1, <3>2
  <2> QED  BY <2>1, <2>2
<1> HIDE DEF all
<1>5. all[0] = x /\ all[n + m] = z
  <2>1. 0 \in 0..n /\ n + m \in n..(n + m) /\ n + m - n = m
    BY <1>3
  <2> QED  BY <1>1, <1>2, <1>4, <2>1
<1>6. ASSUME NEW k \in 1..(n + m) PROVE <<all[k - 1], long[k], all[k]>> \in Steps
  <2>1. CASE k \in 1..n
    <3>1. k - 1 \in 0..n /\ k \in 0..n
      BY <1>3, <2>1
    <3> QED  BY <1>1, <1>3, <1>4, <2>1, <3>1
  <2>2. CASE k \notin 1..n
    <3>1. /\ k \in (n + 1)..(n + m) /\ k \in n..(n + m) /\ k - 1 \in n..(n + m)
          /\ k - n \in 1..m /\ (k - 1) - n = (k - n) - 1
      BY <1>3, <2>2
    <3> QED  BY <1>2, <1>3, <1>4, <3>1
  <2> QED  BY <2>1, <2>2
<1> HIDE DEF n, m
<1>7. all[Len(long)] = z /\ \A k \in 1..Len(long) : <<all[k - 1], long[k], all[k]>> \in Steps
  BY <1>3, <1>5, <1>6
<1>8. Leads(Steps, x, long, z)
  BY <1>5, <1>7, Zenon DEF Leads
<1> QED  BY <1>8 DEF long
==============================================================================
