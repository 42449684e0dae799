--------------------------- MODULE OwnerList_proofs ----------------------------
(***************************************************************************)
(* What adding and removing references does to the number of times an      *)
(* owner is in the list.                                                   *)
(***************************************************************************)
EXTENDS OwnerList, WellFoundedInduction, FiniteSetTheorems, TLAPS

\* Every number has a property that 0 has and that passes from each number to
\* the next: a least one without it would have a smaller one.
LEMMA Induction ==
    ASSUME NEW T, 0 \in T, \A n \in Nat : n \in T => n + 1 \in T
    PROVE  Nat \subseteq T
<1> SUFFICES ASSUME NEW m \in Nat, m \notin T PROVE FALSE
    OBVIOUS
<1> DEFINE U == Nat \ T
           R == OpToRel(<, Nat)
<1>1. IsWellFoundedOn(R, Nat) /\ U # {} /\ U \subseteq Nat
    BY NatLessThanWellFounded
<1>2. \E x \in U : \A y \in U : ~(<<y, x>> \in R)
    <2> HIDE DEF U, R
    <2>. QED BY <1>1, WFMin
<1>3. PICK x \in U : \A y \in U : ~(<<y, x>> \in R)
    BY <1>2
<1>4. x \in Nat /\ x # 0 /\ x - 1 \in Nat /\ x - 1 \in U
    OBVIOUS
<1>5. <<x - 1, x>> \in R
    BY <1>4 DEF OpToRel
<1>. QED BY <1>3, <1>4, <1>5

\* A set of numbers has a least one.
LEMMA Least ==
    ASSUME NEW T, T \subseteq Nat, T # {}
    PROVE  \E x \in T : \A y \in T : x <= y
<1> DEFINE V == {n \in Nat : \A m \in T : m > n}
<1>1. CASE 0 \notin V
    BY <1>1
<1>2. CASE 0 \in V
    <2>1. ~(Nat \subseteq V)
        <3>1. PICK m \in T : TRUE
            OBVIOUS
        <3>. QED BY <3>1
    <2>2. PICK n \in Nat : n \in V /\ n + 1 \notin V
        <3> HIDE DEF V
        <3>. QED BY <1>2, <2>1, Induction
    <2>3. PICK m \in T : ~(m > n + 1)
        BY <2>2
    <2>4. m = n + 1 /\ \A y \in T : y > n
        BY <2>2, <2>3
    <2>. QED BY <2>4
<1>. QED BY <1>1, <1>2

Places(list, o) == {i \in DOMAIN list : list[i] = o}

\* Times counts the places of an owner.
LEMMA TimesPlaces == \A list, o : Times(list, o) = Cardinality(Places(list, o))
BY DEF Times, Places

\* The places of an owner can be counted.
LEMMA PlacesFinite ==
    ASSUME NEW S, NEW list \in Seq(S), NEW o
    PROVE  /\ IsFiniteSet(Places(list, o)) /\ Places(list, o) \subseteq 1 .. Len(list)
<1>1. IsFiniteSet(1 .. Len(list))
    BY FS_Interval
<1>2. Places(list, o) \subseteq 1 .. Len(list)
    BY DEF Places
<1>. QED BY <1>1, <1>2, FS_Subset

\* An owner is in the list as often as it is listed.
LEMMA TimesType ==
    ASSUME NEW S, NEW list \in Seq(S), NEW o
    PROVE  Times(list, o) \in Nat /\ (Times(list, o) > 0 <=> o \in ToSet(list))
<1>1. Times(list, o) \in Nat /\ (Times(list, o) = 0 <=> Places(list, o) = {})
    BY PlacesFinite, TimesPlaces, FS_CardinalityType, FS_EmptySet
<1>2. Places(list, o) # {} <=> o \in ToSet(list)
    BY DEF Places, ToSet
<1>. QED BY <1>1, <1>2

\* Nobody owns by an empty list.
LEMMA TimesEmpty == \A o : Times(<<>>, o) = 0 /\ ToSet(<<>>) = {}
<1>1. ASSUME NEW o PROVE Places(<<>>, o) = {} /\ ToSet(<<>>) = {}
    BY DEF Places, ToSet
<1>. QED BY <1>1, FS_EmptySet DEF Times, Places

\* addreference: the owner that is appended is in the list once more.
LEMMA TimesAppend ==
    ASSUME NEW S, NEW list \in Seq(S), NEW x \in S, NEW o
    PROVE  /\ Times(Append(list, x), o) = Times(list, o) + (IF x = o THEN 1 ELSE 0)
           /\ ToSet(Append(list, x)) = ToSet(list) \cup {x}
<1> DEFINE n == Len(list) + 1
<1>1. /\ Append(list, x) \in Seq(S) /\ n \in Nat /\ n > 0
      /\ DOMAIN Append(list, x) = 1 .. n /\ DOMAIN list = 1 .. (n - 1)
      /\ Append(list, x)[n] = x /\ \A i \in 1 .. (n - 1) : Append(list, x)[i] = list[i]
    OBVIOUS
<1>2. Places(Append(list, x), o) = Places(list, o) \cup (IF x = o THEN {n} ELSE {})
    BY <1>1 DEF Places
<1>3. n \notin Places(list, o)
    BY <1>1 DEF Places
<1>4. ToSet(Append(list, x)) = ToSet(list) \cup {x}
    BY <1>1 DEF ToSet
<1>5. CASE x = o
    <2>1. Places(Append(list, x), o) = Places(list, o) \cup {n}
        BY <1>2, <1>5
    <2>2. Cardinality(Places(list, o) \cup {n}) = Cardinality(Places(list, o)) + 1
        BY <1>3, PlacesFinite, FS_AddElement
    <2>. QED BY <2>1, <2>2, <1>4, <1>5, TimesPlaces
<1>6. CASE x # o
    <2>1. Places(Append(list, x), o) = Places(list, o)
        BY <1>2, <1>6
    <2>2. Times(list, o) \in Nat
        BY TimesType
    <2>. QED BY <2>1, <2>2, <1>4, <1>6, TimesPlaces
<1>. QED BY <1>5, <1>6

\* The elements of a list with one more.
LEMMA ToSetAppend ==
    ASSUME NEW S, NEW list \in Seq(S), NEW x \in S
    PROVE  ToSet(Append(list, x)) = ToSet(list) \cup {x}
BY TimesAppend

\* A list after another.
LEMMA Concatenation ==
    ASSUME NEW S, NEW a \in Seq(S), NEW b \in Seq(S)
    PROVE  /\ a \o b \in Seq(S) /\ Len(a \o b) = Len(a) + Len(b)
           /\ \A i \in 1 .. (Len(a) + Len(b)) :
                 (a \o b)[i] = IF i <= Len(a) THEN a[i] ELSE b[i - Len(a)]
OBVIOUS

\* remove takes one place away, and leaves the others in their order.
LEMMA RemoveFirstShape ==
    ASSUME NEW S, NEW list \in Seq(S), NEW o \in ToSet(list)
    PROVE  \E k \in 1 .. Len(list) :
              /\ list[k] = o
              /\ RemoveFirst(list, o) \in Seq(S)
              /\ Len(RemoveFirst(list, o)) = Len(list) - 1
              /\ \A i \in 1 .. (Len(list) - 1) :
                    RemoveFirst(list, o)[i] = IF i < k THEN list[i] ELSE list[i + 1]
<1> DEFINE I == {i \in 1 .. Len(list) : list[i] = o}
           k == Min(I)
<1>1. I # {} /\ I \subseteq Nat
    BY DEF ToSet
<1>2. k \in I
    <2>1. \E x \in I : \A y \in I : x <= y
        <3> HIDE DEF I
        <3>. QED BY <1>1, Least
    <2>. QED BY <2>1 DEF Min
<1>3. RemoveFirst(list, o) = RemoveAt(list, k)
    BY <1>1 DEF RemoveFirst, SelectInSeq
<1> HIDE DEF k
<1>4. RemoveAt(list, k) = SubSeq(list, 1, k - 1) \o SubSeq(list, k + 1, Len(list))
    BY DEF RemoveAt
<1>5. k \in 1 .. Len(list) /\ list[k] = o
    BY <1>2
<1> DEFINE a == SubSeq(list, 1, k - 1)
           b == SubSeq(list, k + 1, Len(list))
<1>6. /\ a \in Seq(S) /\ Len(a) = k - 1 /\ \A i \in 1 .. (k - 1) : a[i] = list[i]
      /\ b \in Seq(S) /\ Len(b) = Len(list) - k
      /\ \A i \in 1 .. (Len(list) - k) : b[i] = list[i + k]
    BY <1>5
<1>7. /\ a \o b \in Seq(S) /\ Len(a \o b) = Len(list) - 1
      /\ \A i \in 1 .. (Len(list) - 1) :
            (a \o b)[i] = IF i < k THEN list[i] ELSE list[i + 1]
    <2> HIDE DEF a, b
    <2>1. /\ a \o b \in Seq(S) /\ Len(a \o b) = Len(a) + Len(b)
          /\ \A i \in 1 .. (Len(a) + Len(b)) :
                (a \o b)[i] = IF i <= Len(a) THEN a[i] ELSE b[i - Len(a)]
        BY <1>6, Concatenation
    <2>2. Len(a \o b) = Len(list) - 1
        BY <2>1, <1>5, <1>6
    <2>3. ASSUME NEW i \in 1 .. (Len(list) - 1)
          PROVE  (a \o b)[i] = IF i < k THEN list[i] ELSE list[i + 1]
        <3>1. CASE i < k
            BY <2>1, <1>5, <1>6, <3>1
        <3>2. CASE ~(i < k)
            <4>1. i - (k - 1) \in 1 .. (Len(list) - k) /\ (i - (k - 1)) + k = i + 1
                BY <1>5, <3>2
            <4>2. (a \o b)[i] = b[i - (k - 1)]
                BY <2>1, <1>5, <1>6, <3>2
            <4>. QED BY <4>1, <4>2, <1>6, <3>2
        <3>. QED BY <3>1, <3>2
    <2>. QED BY <2>1, <2>2, <2>3
<1>. QED BY <1>3, <1>4, <1>5, <1>7

\* removereference: the owner is in the list once less, the others as before.
LEMMA TimesRemoveFirst ==
    ASSUME NEW S, NEW list \in Seq(S), NEW x \in ToSet(list), NEW o
    PROVE  /\ RemoveFirst(list, x) \in Seq(S)
           /\ Times(RemoveFirst(list, x), o) = Times(list, o) - (IF x = o THEN 1 ELSE 0)
<1> DEFINE less == RemoveFirst(list, x)
           n == Len(list) - 1
<1>1. PICK k \in 1 .. Len(list) :
           /\ list[k] = x /\ less \in Seq(S) /\ Len(less) = n
           /\ \A i \in 1 .. n : less[i] = IF i < k THEN list[i] ELSE list[i + 1]
    BY RemoveFirstShape
<1> HIDE DEF less
<1> DEFINE P == Places(less, o)
           Q == Places(list, o) \ {k}
           f == [i \in P |-> IF i < k THEN i ELSE i + 1]
<1>2. DOMAIN less = 1 .. n /\ DOMAIN list = 1 .. (n + 1) /\ n \in Nat
    BY <1>1
<1>3. f \in Bijection(P, Q)
    <2>1. f \in [P -> Q]
        BY <1>1, <1>2 DEF Places
    <2>2. \A i, j \in P : f[i] = f[j] => i = j
        BY <1>2 DEF Places
    <2>3. ASSUME NEW q \in Q PROVE \E i \in P : f[i] = q
        <3>1. q \in 1 .. (n + 1) /\ list[q] = o /\ q # k
            BY <1>2 DEF Places
        <3>2. CASE q < k
            <4>1. q \in 1 .. n /\ less[q] = o
                BY <1>1, <1>2, <3>1, <3>2
            <4>2. q \in P /\ f[q] = q
                BY <4>1, <1>2, <3>2 DEF Places
            <4>. QED BY <4>2
        <3>3. CASE q > k
            <4>1. q - 1 \in 1 .. n /\ ~(q - 1 < k) /\ less[q - 1] = o
                BY <1>1, <1>2, <3>1, <3>3
            <4>2. q - 1 \in P /\ f[q - 1] = q
                BY <4>1, <1>2 DEF Places
            <4>. QED BY <4>2
        <3>. QED BY <3>1, <3>2, <3>3
    <2>. QED BY <2>1, <2>2, <2>3 DEF Bijection, Injection, Surjection, IsInjective
<1>4. Cardinality(P) = Cardinality(Q)
    <2>1. IsFiniteSet(P)
        BY <1>1, PlacesFinite
    <2>2. ExistsBijection(P, Q)
        <3> HIDE DEF P, Q, f
        <3>. QED BY <1>3 DEF ExistsBijection
    <2>. QED BY <2>1, <2>2, FS_SameCardinalityBij, FS_Bijection
<1>5. k \in Places(list, o) <=> x = o
    BY <1>1, <1>2 DEF Places
<1>6. IsFiniteSet(Places(list, o)) /\ Cardinality(Places(list, o)) \in Nat
    BY PlacesFinite, FS_CardinalityType
<1>7. Cardinality(Q) = Cardinality(Places(list, o)) - (IF x = o THEN 1 ELSE 0)
    <2>1. CASE x = o
        BY <1>5, <1>6, <2>1, FS_RemoveElement
    <2>2. CASE x # o
        <3>1. Q = Places(list, o)
            BY <1>5, <2>2
        <3>2. Cardinality(Q) = Cardinality(Places(list, o))
            BY <3>1
        <3> HIDE DEF P, Q, f
        <3>. QED BY <3>2, <2>2, <1>6
    <2>. QED BY <2>1, <2>2
<1>. QED BY <1>1, <1>4, <1>7, TimesPlaces DEF less

\* The function that Without computes exists, from one place to the next.
Rest(list, o, N, g) ==
    g = [n \in 0 .. N |-> IF n = 0 THEN <<>>
                          ELSE IF list[n] = o THEN g[n - 1]
                          ELSE Append(g[n - 1], list[n])]

\* There is such a function for every list, so that the recursive one is it.
LEMMA RestExists == \A list, o : \A N \in Nat : \E g : Rest(list, o, N, g)
<1> SUFFICES ASSUME NEW list, NEW o
             PROVE  \A N \in Nat : \E g : Rest(list, o, N, g)
    OBVIOUS
<1> DEFINE T == {N \in Nat : \E g : Rest(list, o, N, g)}
<1>1. 0 \in T
    <2>1. Rest(list, o, 0, [n \in 0 .. 0 |-> <<>>])
        BY DEF Rest
    <2>. QED BY <2>1
<1>2. ASSUME NEW N \in Nat, N \in T PROVE N + 1 \in T
    <2>1. PICK g : Rest(list, o, N, g)
        BY <1>2
    <2> DEFINE last == IF list[N + 1] = o THEN g[N] ELSE Append(g[N], list[N + 1])
               h == [n \in 0 .. (N + 1) |-> IF n = N + 1 THEN last ELSE g[n]]
    <2>2. \A n \in 0 .. N : g[n] = IF n = 0 THEN <<>>
                                   ELSE IF list[n] = o THEN g[n - 1]
                                   ELSE Append(g[n - 1], list[n])
        BY <2>1 DEF Rest
    <2>3. ASSUME NEW n \in 0 .. (N + 1)
          PROVE  h[n] = IF n = 0 THEN <<>>
                        ELSE IF list[n] = o THEN h[n - 1]
                        ELSE Append(h[n - 1], list[n])
        <3>1. CASE n = N + 1
            <4>1. n # 0 /\ n - 1 = N /\ h[n - 1] = g[N] /\ h[n] = last
                BY <3>1
            <4>. QED BY <4>1, <3>1
        <3>2. CASE n \in 0 .. N
            <4>1. h[n] = g[n] /\ (n # 0 => h[n - 1] = g[n - 1])
                BY <3>2
            <4>. QED BY <4>1, <3>2, <2>2
        <3>. QED BY <3>1, <3>2
    <2>4. Rest(list, o, N + 1, h)
        BY <2>3 DEF Rest
    <2>. QED BY <2>4
<1>3. Nat \subseteq T
    <2> HIDE DEF T
    <2>. QED BY <1>1, <1>2, Induction
<1>. QED BY <1>3

\* Without takes every place of the owner away and none of another.
LEMMA TimesWithout ==
    ASSUME NEW S, NEW list \in Seq(S), NEW x, NEW o
    PROVE  /\ Without(list, x) \in Seq(S)
           /\ Times(Without(list, x), o) = IF x = o THEN 0 ELSE Times(list, o)
<1> DEFINE rest[n \in 0 .. Len(list)] ==
               IF n = 0 THEN <<>>
               ELSE IF list[n] = x THEN rest[n - 1]
               ELSE Append(rest[n - 1], list[n])
           upto(n) == {i \in 1 .. n : list[i] = o}
           Good(n) == /\ rest[n] \in Seq(S)
                      /\ Times(rest[n], o) = IF x = o THEN 0 ELSE Cardinality(upto(n))
<1>1. \A n \in 0 .. Len(list) :
          rest[n] = IF n = 0 THEN <<>>
                    ELSE IF list[n] = x THEN rest[n - 1]
                    ELSE Append(rest[n - 1], list[n])
    <2>1. \E g : Rest(list, x, Len(list), g)
        <3>1. Len(list) \in Nat
            OBVIOUS
        <3> HIDE DEF rest
        <3>. QED BY <3>1, RestExists
    <2>2. Rest(list, x, Len(list), rest)
        BY <2>1 DEF Rest
    <2> HIDE DEF rest
    <2>. QED BY <2>2 DEF Rest
<1>2. Without(list, x) = rest[Len(list)]
    BY DEF Without
<1> HIDE DEF rest
<1>3. \A n \in Nat : IsFiniteSet(upto(n)) /\ Cardinality(upto(n)) \in Nat
    <2>1. \A n \in Nat : IsFiniteSet(1 .. n) /\ upto(n) \subseteq 1 .. n
        BY FS_Interval
    <2>2. \A n \in Nat : IsFiniteSet(upto(n))
        BY <2>1, FS_Subset
    <2>. QED BY <2>2, FS_CardinalityType
<1> DEFINE T == {n \in Nat : n <= Len(list) => Good(n)}
<1>4. 0 \in T
    <2>1. rest[0] = <<>> /\ upto(0) = {}
        BY <1>1
    <2>2. Times(rest[0], o) = 0 /\ Cardinality(upto(0)) = 0
        BY <2>1, TimesEmpty, FS_EmptySet
    <2>3. rest[0] \in Seq(S)
        BY <2>1
    <2> HIDE DEF upto
    <2>. QED BY <2>2, <2>3
<1>5. ASSUME NEW n \in Nat, n \in T PROVE n + 1 \in T
    <2> SUFFICES ASSUME n + 1 <= Len(list) PROVE Good(n + 1)
        OBVIOUS
    <2>1. Good(n)
        BY <1>5
    <2>2. /\ rest[n + 1] = IF list[n + 1] = x THEN rest[n] ELSE Append(rest[n], list[n + 1])
          /\ list[n + 1] \in S
        BY <1>1
    <2>3. upto(n + 1) = IF list[n + 1] = o THEN upto(n) \cup {n + 1} ELSE upto(n)
        OBVIOUS
    <2>4. n + 1 \notin upto(n)
        OBVIOUS
    <2>5. Cardinality(upto(n + 1)) = Cardinality(upto(n)) + (IF list[n + 1] = o THEN 1 ELSE 0)
        <3> HIDE DEF upto
        <3>1. CASE list[n + 1] = o
            BY <3>1, <2>3, <2>4, <1>3, FS_AddElement
        <3>2. CASE list[n + 1] # o
            BY <3>2, <2>3, <1>3
        <3>. QED BY <3>1, <3>2
    <2> HIDE DEF upto
    <2>6. CASE list[n + 1] = x
        <3>1. rest[n + 1] = rest[n]
            BY <2>2, <2>6
        <3>2. x # o => Cardinality(upto(n + 1)) = Cardinality(upto(n))
            BY <2>5, <2>6, <1>3
        <3>. QED BY <2>1, <3>1, <3>2
    <2>7. CASE list[n + 1] # x
        <3>1. rest[n + 1] = Append(rest[n], list[n + 1]) /\ rest[n + 1] \in Seq(S)
            BY <2>1, <2>2, <2>7
        <3>2. Times(rest[n + 1], o) = Times(rest[n], o) + (IF list[n + 1] = o THEN 1 ELSE 0)
            BY <2>1, <2>2, <3>1, TimesAppend
        <3>3. CASE x = o
            BY <3>3, <3>1, <3>2, <2>1, <2>7
        <3>4. CASE x # o
            BY <3>4, <3>1, <3>2, <2>1, <2>5
        <3>. QED BY <3>3, <3>4
    <2>. QED BY <2>6, <2>7
<1>6. Good(Len(list))
    <2>1. Nat \subseteq T
        <3> HIDE DEF T
        <3>. QED BY <1>4, <1>5, Induction
    <2>2. Len(list) \in Nat /\ Len(list) \in T
        <3> HIDE DEF T
        <3>. QED BY <2>1
    <2> HIDE DEF Good
    <2>. QED BY <2>2
<1>7. upto(Len(list)) = Places(list, o)
    BY DEF Places
<1>. QED BY <1>2, <1>6, <1>7, TimesPlaces

\* The owners that are in the list before and after.
LEMMA ToSetRemoveFirst ==
    ASSUME NEW S, NEW list \in Seq(S), NEW x \in ToSet(list)
    PROVE  /\ ToSet(RemoveFirst(list, x)) \subseteq ToSet(list)
           /\ ToSet(list) \subseteq ToSet(RemoveFirst(list, x)) \cup {x}
<1>1. RemoveFirst(list, x) \in Seq(S)
    BY TimesRemoveFirst
<1>2. ASSUME NEW o
      PROVE  /\ o \in ToSet(RemoveFirst(list, x)) => o \in ToSet(list)
             /\ o \in ToSet(list) => o \in ToSet(RemoveFirst(list, x)) \cup {x}
    <2>1. /\ Times(RemoveFirst(list, x), o) \in Nat /\ Times(list, o) \in Nat
          /\ Times(RemoveFirst(list, x), o) > 0 <=> o \in ToSet(RemoveFirst(list, x))
          /\ Times(list, o) > 0 <=> o \in ToSet(list)
        BY <1>1, TimesType
    <2>2. Times(RemoveFirst(list, x), o) = Times(list, o) - (IF x = o THEN 1 ELSE 0)
        BY TimesRemoveFirst
    <2>. QED BY <2>1, <2>2
<1>. QED BY <1>2

\* After removeanyreferences the others are owners still.
LEMMA ToSetWithout ==
    ASSUME NEW S, NEW list \in Seq(S), NEW x
    PROVE  ToSet(Without(list, x)) = ToSet(list) \ {x}
<1>1. Without(list, x) \in Seq(S)
    BY TimesWithout
<1>2. ASSUME NEW o
      PROVE  o \in ToSet(Without(list, x)) <=> o \in ToSet(list) /\ o # x
    <2>1. /\ Times(Without(list, x), o) \in Nat /\ Times(list, o) \in Nat
          /\ Times(Without(list, x), o) > 0 <=> o \in ToSet(Without(list, x))
          /\ Times(list, o) > 0 <=> o \in ToSet(list)
        BY <1>1, TimesType
    <2>2. Times(Without(list, x), o) = IF x = o THEN 0 ELSE Times(list, o)
        BY TimesWithout
    <2>. QED BY <2>1, <2>2
<1>. QED BY <1>2

================================================================================
