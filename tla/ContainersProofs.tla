-------------------------- MODULE ContainersProofs --------------------------
(***************************************************************************)
(* The containers of lib/kernel, for any elements and keys.  The hash      *)
(* table of hash.c is exact and implements a dictionary, whatever the hash *)
(* values, with any minimum that is a power of two and any load it aims    *)
(* at, whichever allocations fail.  The links of list.c implement          *)
(* sequences.                                                              *)
(***************************************************************************)
EXTENDS Hash, Links, DataLemmas, FunctionTheorems, FiniteSetTheorems

-----------------------------------------------------------------------------
(* x & y, by halves. *)
Bits(y, a, f) ==
  [b \in 0 .. y |-> IF a = 0 \/ b = 0 THEN 0
                    ELSE 2 * f[a \div 2][b \div 2] + (a % 2) * (b % 2)]
IsAnd(x, y, f) == f = [a \in 0 .. x |-> Bits(y, a, f)]

LEMMA Half ==
  ASSUME NEW a \in Nat
  PROVE  /\ a \div 2 \in Nat /\ a % 2 \in {0, 1} /\ a = 2 * (a \div 2) + (a % 2)
         /\ a # 0 => a \div 2 < a
OBVIOUS

LEMMA AndExists ==
  ASSUME NEW x \in Nat, NEW y \in Nat
  PROVE  \E f : IsAnd(x, y, f)
<1> DEFINE Bad == {n \in Nat : ~ \E f : IsAnd(n, y, f)}
<1> SUFFICES ASSUME Bad # {} PROVE FALSE
  OBVIOUS
<1>1. PICK m : m \in Bad /\ \A n \in Bad : m <= n
  <2>1. Bad \in SUBSET Nat
    OBVIOUS
  <2> HIDE DEF Bad
  <2> QED BY <2>1, LeastNatural
<1>2. m \in Nat
  BY <1>1
<1>3. CASE m = 0
  <2> DEFINE f == [a \in 0 .. 0 |-> [b \in 0 .. y |-> 0]]
  <2>1. \A a \in 0 .. 0 : Bits(y, a, f) = [b \in 0 .. y |-> 0]
    BY DEF Bits
  <2>2. IsAnd(0, y, f)
    BY <2>1 DEF IsAnd
  <2> QED BY <1>1, <1>3, <2>2
<1>4. CASE m # 0
  <2>1. m - 1 \in Nat /\ m - 1 \notin Bad
    BY <1>1, <1>2, <1>4
  <2>2. PICK g : IsAnd(m - 1, y, g)
    BY <2>1
  <2> DEFINE f == [a \in 0 .. m |-> IF a = m THEN Bits(y, m, g) ELSE g[a]]
  <2>3. /\ \A a \in 0 .. m - 1 : f[a] = g[a] /\ g[a] = Bits(y, a, g)
        /\ f[m] = Bits(y, m, g)
        /\ f = [a \in 0 .. m |-> f[a]]
    <3>1. \A a \in 0 .. m - 1 : a \in 0 .. m /\ a # m
      BY <1>2
    <3>2. \A a \in 0 .. m - 1 : g[a] = Bits(y, a, g)
      BY <2>2 DEF IsAnd
    <3>3. m \in 0 .. m
      BY <1>2
    <3> QED BY ONLY <3>1, <3>2, <3>3
  <2> HIDE DEF f
  <2>4. ASSUME NEW a \in 0 .. m PROVE f[a] = Bits(y, a, f)
    <3>1. f[a] = Bits(y, a, g)
      <4>1. CASE a = m
        BY <2>3, <4>1
      <4>2. CASE a # m
        <5>1. a \in 0 .. m - 1
          BY <1>2, <4>2
        <5> QED BY <2>3, <5>1
      <4> QED BY <4>1, <4>2
    <3>2. a # 0 => f[a \div 2] = g[a \div 2]
      <4>1. a # 0 => a \div 2 \in 0 .. m - 1
        BY <1>2, Half
      <4> QED BY <2>3, <4>1
    <3> QED BY <3>1, <3>2 DEF Bits
  <2>5. IsAnd(m, y, f)
    BY <2>3, <2>4 DEF IsAnd
  <2> QED BY <1>1, <2>5
<1> QED BY <1>3, <1>4

LEMMA AndUnique ==
  ASSUME NEW x \in Nat, NEW y \in Nat, NEW u \in 0 .. x, NEW v \in 0 .. y,
         NEW f, IsAnd(x, y, f), NEW g, IsAnd(u, v, g)
  PROVE  f[u][v] = g[u][v]
<1> DEFINE Same(a) == \A b \in 0 .. v : f[a][b] = g[a][b]
           Bad == {a \in 0 .. u : ~Same(a)}
<1>1. Bad = {}
  <2> SUFFICES ASSUME Bad # {} PROVE FALSE
    OBVIOUS
  <2>1. PICK a : a \in Bad /\ \A c \in Bad : a <= c
    <3>1. Bad \in SUBSET Nat
      OBVIOUS
    <3> HIDE DEF Bad
    <3> QED BY <3>1, LeastNatural
  <2>2. a \in 0 .. u /\ a \in 0 .. x /\ a \in Nat /\ ~Same(a)
    BY <2>1
  <2>3. f[a] = Bits(y, a, f) /\ g[a] = Bits(v, a, g)
    BY <2>2 DEF IsAnd
  <2>4. a # 0 => Same(a \div 2)
    <3>1. a # 0 => a \div 2 \in 0 .. u /\ a \div 2 < a
      BY <2>2, Half
    <3> QED BY <2>1, <2>2, <3>1
  <2>5. ASSUME NEW b \in 0 .. v PROVE f[a][b] = g[a][b]
    <3>1. b \in 0 .. y /\ b \in Nat /\ b \div 2 \in 0 .. v
      BY Half
    <3>2. a # 0 => f[a \div 2][b \div 2] = g[a \div 2][b \div 2]
      BY <2>4, <3>1
    <3> HIDE DEF Same
    <3> QED BY <2>3, <3>1, <3>2 DEF Bits
  <2> QED BY <2>2, <2>5
<1> QED BY <1>1

LEMMA AndChosen ==
  ASSUME NEW x \in Nat, NEW y \in Nat
  PROVE  \E f : IsAnd(x, y, f) /\ And(x, y) = f[x][y]
<1>1. IsAnd(x, y, CHOOSE f : IsAnd(x, y, f))
  BY AndExists
<1>2. And(x, y) = (CHOOSE f : IsAnd(x, y, f))[x][y]
  BY Zenon DEF And, IsAnd, Bits
<1> QED BY <1>1, <1>2

LEMMA AndStep ==
  ASSUME NEW x \in Nat, NEW y \in Nat
  PROVE  And(x, y) = IF x = 0 \/ y = 0 THEN 0
                     ELSE 2 * And(x \div 2, y \div 2) + (x % 2) * (y % 2)
<1>1. PICK f : IsAnd(x, y, f) /\ And(x, y) = f[x][y]
  BY AndChosen
<1>2. PICK u \in Nat, v \in Nat : u = x \div 2 /\ v = y \div 2
  BY Half
<1>3. PICK g : IsAnd(u, v, g) /\ And(u, v) = g[u][v]
  BY AndChosen
<1>4. f[x] = Bits(y, x, f) /\ y \in 0 .. y
  BY <1>1 DEF IsAnd
<1>5. f[x][y] = IF x = 0 \/ y = 0 THEN 0 ELSE 2 * f[u][v] + (x % 2) * (y % 2)
  BY <1>2, <1>4 DEF Bits
<1>6. u \in 0 .. x /\ v \in 0 .. y
  BY <1>2, Half
<1>7. f[u][v] = g[u][v]
  BY <1>1, <1>3, <1>6, AndUnique
<1> QED BY <1>1, <1>2, <1>3, <1>5, <1>7

(* Masking never yields more than the mask. *)
LEMMA AndBound ==
  ASSUME NEW x \in Nat, NEW y \in Nat
  PROVE  And(x, y) \in 0 .. y
<1> DEFINE OK(a) == \A b \in Nat : And(a, b) \in 0 .. b
           Bad == {a \in Nat : ~OK(a)}
<1>1. Bad = {}
  <2> SUFFICES ASSUME Bad # {} PROVE FALSE
    OBVIOUS
  <2>1. PICK a : a \in Bad /\ \A c \in Bad : a <= c
    <3>1. Bad \in SUBSET Nat
      OBVIOUS
    <3> HIDE DEF Bad
    <3> QED BY <3>1, LeastNatural
  <2>2. a \in Nat /\ ~OK(a)
    BY <2>1
  <2>3. a # 0 => OK(a \div 2)
    <3>1. a # 0 => a \div 2 \in Nat /\ a \div 2 < a
      BY <2>2, Half
    <3> QED BY <2>1, <2>2, <3>1
  <2>4. ASSUME NEW b \in Nat PROVE And(a, b) \in 0 .. b
    <3>1. CASE a = 0 \/ b = 0
      BY <2>2, <3>1, AndStep
    <3>2. CASE a # 0 /\ b # 0
      <4>1. PICK h \in Nat, r \in {0, 1} : h = b \div 2 /\ r = b % 2 /\ b = 2 * h + r
        BY Half
      <4>2. PICK m \in 0 .. h : m = And(a \div 2, h)
        BY <2>3, <3>2
      <4>3. PICK q \in {0, 1} : q = a % 2
        BY <2>2, Half
      <4>4. And(a, b) = 2 * m + q * r
        BY <2>2, <3>2, <4>1, <4>2, <4>3, AndStep
      <4>5. q * r \in 0 .. r
        BY <4>1, <4>3
      <4> QED BY <4>1, <4>2, <4>4, <4>5
    <3> QED BY <3>1, <3>2
  <2> QED BY <2>2, <2>4
<1> QED BY <1>1

LEMMA AndSelf ==
  ASSUME NEW x \in Nat
  PROVE  And(x, x) = x
<1> DEFINE Bad == {a \in Nat : And(a, a) # a}
<1>1. Bad = {}
  <2> SUFFICES ASSUME Bad # {} PROVE FALSE
    OBVIOUS
  <2>1. PICK a : a \in Bad /\ \A c \in Bad : a <= c
    <3>1. Bad \in SUBSET Nat
      OBVIOUS
    <3> HIDE DEF Bad
    <3> QED BY <3>1, LeastNatural
  <2>2. a \in Nat /\ And(a, a) # a
    BY <2>1
  <2>3. a # 0
    BY <2>2, AndStep
  <2>4. PICK h \in Nat, r \in {0, 1} : h = a \div 2 /\ r = a % 2 /\ a = 2 * h + r /\ h < a
    BY <2>2, <2>3, Half
  <2>5. And(h, h) = h
    BY <2>1, <2>2, <2>4
  <2>6. And(a, a) = 2 * And(h, h) + r * r
    BY <2>2, <2>3, <2>4, AndStep
  <2>7. r * r = r
    BY <2>4
  <2> QED BY <2>2, <2>4, <2>5, <2>6, <2>7
<1> QED BY <1>1

-----------------------------------------------------------------------------
(* Two sets that share no element. *)
LEMMA DisjointUnion ==
  ASSUME NEW A, NEW B, IsFiniteSet(A), IsFiniteSet(B), A \cap B = {}
  PROVE  /\ Cardinality(A) \in Nat /\ Cardinality(B) \in Nat
         /\ IsFiniteSet(A \cup B)
         /\ Cardinality(A \cup B) = Cardinality(A) + Cardinality(B)
<1>1. Cardinality(A) \in Nat /\ Cardinality(B) \in Nat
  BY FS_CardinalityType
<1>2. /\ IsFiniteSet(A \cup B)
      /\ Cardinality(A \cup B) = Cardinality(A) + Cardinality(B) - Cardinality(A \cap B)
  BY FS_Union
<1>3. Cardinality(A \cap B) = 0
  BY FS_EmptySet
<1> QED BY <1>1, <1>2, <1>3

(* Powers of two: 2^n counts the subsets of a set of n elements. *)
LEMMA PowerStep ==
  ASSUME NEW n \in Nat
  PROVE  2^n \in Nat /\ 2^(n + 1) = 2 * 2^n
<1> DEFINE S == 1 .. n
           T == 1 .. n + 1
           A == SUBSET S
           B == {U \cup {n + 1} : U \in A}
<1>1. /\ IsFiniteSet(S) /\ Cardinality(S) = n
      /\ IsFiniteSet(T) /\ Cardinality(T) = n + 1
  <2>1. 1 \in Int /\ n \in Int /\ n + 1 \in Int
    OBVIOUS
  <2>2. /\ IsFiniteSet(1 .. n) /\ Cardinality(1 .. n) = IF 1 > n THEN 0 ELSE n - 1 + 1
        /\ IsFiniteSet(1 .. n + 1)
        /\ Cardinality(1 .. n + 1) = IF 1 > n + 1 THEN 0 ELSE (n + 1) - 1 + 1
    BY <2>1, FS_Interval
  <2> QED BY <2>2
<1>2. /\ IsFiniteSet(A) /\ Cardinality(A) = 2^n
      /\ Cardinality(SUBSET T) = 2^(n + 1)
  <2> HIDE DEF S, T
  <2> QED BY <1>1, FS_SUBSET
<1>3. n + 1 \notin S /\ T = S \cup {n + 1}
  OBVIOUS
<1>4. IsFiniteSet(B) /\ Cardinality(B) = Cardinality(A)
  <2> DEFINE f == [U \in A |-> U \cup {n + 1}]
  <2>1. f \in [A -> B] /\ \A V \in B : \E U \in A : f[U] = V
    OBVIOUS
  <2>2. \A U, V \in A : f[U] = f[V] => U = V
    BY <1>3
  <2>3. f \in Bijection(A, B)
    BY <2>1, <2>2, Fun_IsBij
  <2>4. ExistsBijection(A, B)
    BY <2>3 DEF ExistsBijection
  <2> HIDE DEF A, B
  <2> QED BY <1>2, <2>4, FS_Bijection
<1>5. A \cap B = {}
  BY <1>3
<1>6. SUBSET T = A \cup B
  <2>1. ASSUME NEW U \in SUBSET T PROVE U \in A \cup B
    <3>1. CASE n + 1 \notin U
      BY <1>3, <3>1
    <3>2. CASE n + 1 \in U
      <4>1. U \ {n + 1} \in A /\ U = (U \ {n + 1}) \cup {n + 1}
        BY <1>3, <3>2
      <4> QED BY <4>1
    <3> QED BY <3>1, <3>2
  <2>2. ASSUME NEW U \in A \cup B PROVE U \in SUBSET T
    BY <1>3
  <2> QED BY <2>1, <2>2
<1>7. /\ Cardinality(A) \in Nat
      /\ Cardinality(SUBSET T) = Cardinality(A) + Cardinality(B)
  <2> HIDE DEF A, B, T
  <2>1. Cardinality(A) \in Nat /\ Cardinality(A \cup B) = Cardinality(A) + Cardinality(B)
    BY ONLY <1>2, <1>4, <1>5, DisjointUnion
  <2> QED BY <1>6, <2>1
<1>8. PICK c \in Nat : c = 2^n /\ 2^(n + 1) = c + c
  <2> HIDE DEF A, B, T
  <2> QED BY ONLY <1>2, <1>4, <1>7
<1> QED BY <1>8

LEMMA PowerZero == 2^0 = 1
OBVIOUS

LEMMA PowerBound ==
  ASSUME NEW n \in Nat
  PROVE  2^n \in Nat /\ n < 2^n
<1> DEFINE Bad == {k \in Nat : ~ (k < 2^k)}
<1>1. Bad = {}
  <2> SUFFICES ASSUME Bad # {} PROVE FALSE
    OBVIOUS
  <2>1. PICK k : k \in Bad /\ \A j \in Bad : k <= j
    <3>1. Bad \in SUBSET Nat
      OBVIOUS
    <3> HIDE DEF Bad
    <3> QED BY <3>1, LeastNatural
  <2>2. k \in Nat /\ ~ (k < 2^k)
    BY <2>1
  <2>0. k # 0
    <3> SUFFICES ASSUME k = 0 PROVE FALSE
      OBVIOUS
    <3>1. ~ (0 < 2^0)
      BY <2>2
    <3>2. 2^0 = 1
      BY PowerZero
    <3> QED BY ONLY <3>1, <3>2
  <2>3. PICK j \in Nat : k = j + 1
    <3>1. k - 1 \in Nat /\ k = (k - 1) + 1
      BY <2>0, <2>2
    <3> QED BY <3>1
  <2>4. PICK c \in Nat : c = 2^j /\ j < c
    <3>1. j < 2^j
      BY <2>1, <2>2, <2>3
    <3> QED BY <3>1, PowerStep
  <2>5. 2^k = 2 * c
    BY <2>3, <2>4, PowerStep
  <2> QED BY <2>2, <2>3, <2>4, <2>5
<1> QED BY <1>1, PowerStep

LEMMA PowerSum ==
  ASSUME NEW m \in Nat, NEW n \in Nat
  PROVE  2^(m + n) = 2^m * 2^n
<1> DEFINE Bad == {k \in Nat : 2^(m + k) # 2^m * 2^k}
<1>1. Bad = {}
  <2> SUFFICES ASSUME Bad # {} PROVE FALSE
    OBVIOUS
  <2>1. PICK k : k \in Bad /\ \A j \in Bad : k <= j
    <3>1. Bad \in SUBSET Nat
      OBVIOUS
    <3> HIDE DEF Bad
    <3> QED BY <3>1, LeastNatural
  <2>2. PICK a \in Nat : a = 2^m
    BY PowerStep
  <2>3. k \in Nat /\ 2^(m + k) # a * 2^k /\ k # 0
    <3>1. m + 0 = m /\ a * 1 = a
      BY <2>2
    <3> QED BY <2>1, <2>2, <3>1, PowerZero
  <2>4. PICK j \in Nat : k = j + 1
    <3>1. k - 1 \in Nat /\ k = (k - 1) + 1
      BY <2>3
    <3> QED BY <3>1
  <2>5. PICK c \in Nat : c = 2^j
    BY PowerStep
  <2>6. 2^(m + j) = a * c
    BY <2>1, <2>2, <2>3, <2>4, <2>5
  <2>7. PICK s \in Nat : s = m + j /\ m + k = s + 1
    BY <2>4
  <2>8. 2^(s + 1) = 2 * 2^s /\ 2^(j + 1) = 2 * 2^j
    BY PowerStep
  <2>9. 2^(m + k) = 2 * (a * c) /\ 2^k = 2 * c
    BY <2>4, <2>5, <2>6, <2>7, <2>8
  <2>10. 2 * (a * c) = a * (2 * c)
    OBVIOUS
  <2> QED BY <2>3, <2>9, <2>10
<1> QED BY <1>1

LEMMA PowerOrder ==
  ASSUME NEW m \in Nat, NEW n \in Nat, 2^m <= 2^n
  PROVE  m <= n
<1> SUFFICES ASSUME n < m PROVE FALSE
  OBVIOUS
<1>1. PICK d \in Nat \ {0} : m = n + d
  <2>1. m - n \in Nat \ {0} /\ m = n + (m - n)
    OBVIOUS
  <2> QED BY <2>1
<1>2. PICK a \in Nat, b \in Nat : a = 2^n /\ b = 2^d /\ 0 < a /\ 1 < b
  BY PowerBound
<1>3. 2^m = a * b
  BY <1>1, <1>2, PowerSum
<1>4. PICK c \in Nat : b = 2 + c
  <2>1. b - 2 \in Nat /\ b = 2 + (b - 2)
    BY <1>2
  <2> QED BY <2>1
<1>5. a * b = a + a + a * c /\ a * c \in Nat
  BY <1>4
<1> QED BY <1>2, <1>3, <1>5

-----------------------------------------------------------------------------
(* Turning off the lowest bit of a number leaves none of a power of two, and *)
(* never brings another number below a power of two it was not below.        *)
Lowered(x, t) ==
  /\ t \in 0 .. x - 1
  /\ t = 0 => \E i \in Nat : x = 2^i
  /\ t # 0 => \A i \in Nat : 2^i <= x => 2^i <= t

LEMMA LoweredOdd ==
  ASSUME NEW h \in Nat \ {0}, NEW m \in Nat, m = 2 * h + 1
  PROVE  Lowered(m, 2 * h)
<1>1. ASSUME NEW i \in Nat, 2^i <= m PROVE 2^i <= 2 * h
  <2>1. CASE i = 0
    <3>1. 2^i = 1
      BY <2>1, PowerZero
    <3> QED BY <3>1
  <2>2. CASE i # 0
    <3>1. PICK j \in Nat : i = j + 1
      <4>1. i - 1 \in Nat /\ i = (i - 1) + 1
        BY <2>2
      <4> QED BY <4>1
    <3>2. PICK c \in Nat : c = 2^j /\ 2^i = 2 * c
      BY <3>1, PowerStep
    <3> QED BY <1>1, <3>2
  <2> QED BY <2>1, <2>2
<1> QED BY <1>1 DEF Lowered

LEMMA LoweredEven ==
  ASSUME NEW h \in Nat \ {0}, NEW t, Lowered(h, t)
  PROVE  Lowered(2 * h, 2 * t)
<1>1. t \in 0 .. h - 1
  BY DEF Lowered
<1>2. 2 * t \in 0 .. (2 * h) - 1 /\ (2 * t = 0 <=> t = 0)
  BY <1>1
<1>3. ASSUME t = 0 PROVE \E i \in Nat : 2 * h = 2^i
  <2>1. PICK i \in Nat : h = 2^i
    BY <1>3 DEF Lowered
  <2>2. 2 * h = 2^(i + 1) /\ i + 1 \in Nat
    BY <2>1, PowerStep
  <2> QED BY <2>2
<1>4. ASSUME t # 0, NEW i \in Nat, 2^i <= 2 * h PROVE 2^i <= 2 * t
  <2>1. CASE i = 0
    <3>1. 2^i = 1
      BY <2>1, PowerZero
    <3> QED BY <1>1, <1>4, <3>1
  <2>2. CASE i # 0
    <3>1. PICK j \in Nat : i = j + 1
      <4>1. i - 1 \in Nat /\ i = (i - 1) + 1
        BY <2>2
      <4> QED BY <4>1
    <3>2. PICK c \in Nat : c = 2^j /\ 2^i = 2 * c
      BY <3>1, PowerStep
    <3>3. c <= h
      BY <1>4, <3>2
    <3>4. c <= t
      BY <1>4, <3>2, <3>3 DEF Lowered
    <3> QED BY <1>1, <3>2, <3>4
  <2> QED BY <2>1, <2>2
<1> QED BY <1>2, <1>3, <1>4 DEF Lowered

LEMMA TurnOff ==
  ASSUME NEW x \in Nat \ {0}
  PROVE  Lowered(x, TurnOffLeast1Bit(x))
<1> DEFINE Bad == {a \in Nat \ {0} : ~Lowered(a, TurnOffLeast1Bit(a))}
<1>1. Bad = {}
  <2> SUFFICES ASSUME Bad # {} PROVE FALSE
    OBVIOUS
  <2>1. PICK m : m \in Bad /\ \A c \in Bad : m <= c
    <3>1. Bad \in SUBSET Nat
      OBVIOUS
    <3> HIDE DEF Bad
    <3> QED BY <3>1, LeastNatural
  <2>2. m \in Nat /\ m # 0 /\ ~Lowered(m, TurnOffLeast1Bit(m))
    BY <2>1
  <2>3. PICK h \in Nat, r \in {0, 1} : h = m \div 2 /\ r = m % 2 /\ m = 2 * h + r /\ h < m
    BY <2>2, Half
  <2>4. PICK l \in Nat : l = m - 1
    BY <2>2
  <2>5. TurnOffLeast1Bit(m) = And(m, l)
    BY <2>4 DEF TurnOffLeast1Bit
  <2>6. CASE h = 0
    <3>1. m = 1 /\ l = 0
      BY <2>2, <2>3, <2>4, <2>6
    <3>2. And(m, l) = 0
      BY <2>2, <3>1, AndStep
    <3>3. 1 = 2^0 /\ 0 \in Nat
      BY PowerZero
    <3>4. Lowered(1, 0)
      <4>1. \E i \in Nat : 1 = 2^i
        BY <3>3
      <4> QED BY ONLY <4>1 DEF Lowered
    <3> QED BY <2>2, <2>5, <3>1, <3>2, <3>4
  <2>7. CASE h # 0 /\ r = 1
    <3>1. l = 2 * h /\ l # 0 /\ l \div 2 = h /\ l % 2 = 0
      BY <2>3, <2>4, <2>7
    <3>2. And(m, l) = 2 * And(h, h) + r * 0
      BY <2>2, <2>3, <3>1, AndStep
    <3>3. And(m, l) = 2 * h
      BY <2>7, <3>2, AndSelf
    <3>4. m = 2 * h + 1
      BY <2>3, <2>7
    <3> QED BY <2>2, <2>5, <2>7, <3>3, <3>4, LoweredOdd
  <2>8. CASE h # 0 /\ r = 0
    <3>1. PICK k \in Nat : k = h - 1
      BY <2>8
    <3>2. l = 2 * k + 1 /\ l # 0 /\ l \div 2 = k /\ l % 2 = 1
      BY <2>3, <2>4, <2>8, <3>1
    <3>3. TurnOffLeast1Bit(h) = And(h, k)
      BY <3>1 DEF TurnOffLeast1Bit
    <3>4. And(h, k) \in 0 .. k
      BY AndBound
    <3>5. PICK t \in Nat : t = And(h, k)
      BY <3>4
    <3>6. And(m, l) = 2 * t + r * 1
      <4>1. And(m, l) = 2 * And(m \div 2, l \div 2) + (m % 2) * (l % 2)
        BY <2>2, <2>4, <3>2, AndStep
      <4> QED BY ONLY <2>3, <3>2, <3>5, <4>1
    <3>7. And(m, l) = 2 * t /\ m = 2 * h
      BY <2>3, <2>8, <3>5, <3>6
    <3>8. Lowered(h, t)
      BY <2>1, <2>2, <2>3, <2>8, <3>3, <3>5
    <3> QED BY <2>2, <2>5, <2>8, <3>7, <3>8, LoweredEven
  <2> QED BY <2>3, <2>6, <2>7, <2>8
<1> QED BY <1>1

-----------------------------------------------------------------------------
(* The while loop of rehash() stops, at a power of two no smaller than any    *)
(* power of two that the wanted count is not smaller than.                    *)
Rounds(f, x) == IF IsPowerOf2(x) THEN x ELSE f[TurnOffLeast1Bit(x)]
IsRounded(first, f) == f = [x \in 1 .. first |-> Rounds(f, x)]

LEMMA TurnedOff ==
  ASSUME NEW x \in Nat \ {0}
  PROVE  /\ IsPowerOf2(x) => \E i \in Nat : x = 2^i
         /\ ~IsPowerOf2(x) => /\ TurnOffLeast1Bit(x) \in 1 .. x - 1
                              /\ \A i \in Nat : 2^i <= x => 2^i <= TurnOffLeast1Bit(x)
<1>1. Lowered(x, TurnOffLeast1Bit(x))
  BY TurnOff
<1>2. IsPowerOf2(x) <=> TurnOffLeast1Bit(x) = 0
  BY DEF IsPowerOf2
<1> HIDE DEF IsPowerOf2, TurnOffLeast1Bit
<1>3. TurnOffLeast1Bit(x) \in 0 .. x - 1
  BY <1>1 DEF Lowered
<1>4. TurnOffLeast1Bit(x) # 0 => TurnOffLeast1Bit(x) \in 1 .. x - 1
  BY <1>3
<1> QED BY <1>1, <1>2, <1>4 DEF Lowered

LEMMA RoundedExists ==
  ASSUME NEW first \in Nat
  PROVE  \E f : IsRounded(first, f)
<1> DEFINE Bad == {n \in Nat : ~ \E f : IsRounded(n, f)}
<1> SUFFICES ASSUME Bad # {} PROVE FALSE
  OBVIOUS
<1>1. PICK m : m \in Bad /\ \A n \in Bad : m <= n
  <2>1. Bad \in SUBSET Nat
    OBVIOUS
  <2> HIDE DEF Bad
  <2> QED BY <2>1, LeastNatural
<1>2. m \in Nat
  BY <1>1
<1>3. CASE m = 0
  <2> DEFINE f == [x \in 1 .. 0 |-> 0]
  <2>1. 1 .. 0 = {}
    OBVIOUS
  <2>2. f = [x \in 1 .. 0 |-> Rounds(f, x)]
    BY <2>1
  <2>3. IsRounded(0, f)
    BY <2>2 DEF IsRounded
  <2> QED BY <1>1, <1>3, <2>3
<1>4. CASE m # 0
  <2>1. m - 1 \in Nat /\ m - 1 \notin Bad
    BY <1>1, <1>2, <1>4
  <2>2. PICK g : IsRounded(m - 1, g)
    BY <2>1
  <2> DEFINE f == [x \in 1 .. m |-> IF x = m THEN Rounds(g, m) ELSE g[x]]
  <2>3. /\ \A x \in 1 .. m - 1 : f[x] = g[x] /\ g[x] = Rounds(g, x)
        /\ f[m] = Rounds(g, m)
        /\ f = [x \in 1 .. m |-> f[x]]
    <3>1. \A x \in 1 .. m - 1 : x \in 1 .. m /\ x # m
      BY <1>2
    <3>2. \A x \in 1 .. m - 1 : g[x] = Rounds(g, x)
      BY <2>2 DEF IsRounded
    <3>3. m \in 1 .. m
      BY <1>2, <1>4
    <3> QED BY ONLY <3>1, <3>2, <3>3
  <2> HIDE DEF f
  <2>4. ASSUME NEW x \in 1 .. m PROVE f[x] = Rounds(f, x)
    <3>1. f[x] = Rounds(g, x)
      <4>1. CASE x = m
        BY <2>3, <4>1
      <4>2. CASE x # m
        <5>1. x \in 1 .. m - 1
          BY <1>2, <4>2
        <5> QED BY <2>3, <5>1
      <4> QED BY <4>1, <4>2
    <3>2. ~IsPowerOf2(x) => f[TurnOffLeast1Bit(x)] = g[TurnOffLeast1Bit(x)]
      <4>1. x \in Nat \ {0}
        BY <1>2
      <4>2. ~IsPowerOf2(x) => TurnOffLeast1Bit(x) \in 1 .. x - 1
        BY <4>1, TurnedOff
      <4>3. 1 .. x - 1 \subseteq 1 .. m - 1
        BY <1>2, <4>1
      <4> QED BY <2>3, <4>2, <4>3
    <3> QED BY <3>1, <3>2 DEF Rounds
  <2>5. IsRounded(m, f)
    BY <2>3, <2>4 DEF IsRounded
  <2> QED BY <1>1, <2>5
<1> QED BY <1>3, <1>4

LEMMA RoundedValue ==
  ASSUME NEW first \in Nat \ {0}, NEW k \in Nat, 2^k <= first, NEW f, IsRounded(first, f)
  PROVE  \E j \in Nat : f[first] = 2^j /\ 2^k <= 2^j
<1> DEFINE Good(x) == 2^k <= x => \E j \in Nat : f[x] = 2^j /\ 2^k <= 2^j
           Bad == {x \in 1 .. first : ~Good(x)}
<1>1. Bad = {}
  <2> SUFFICES ASSUME Bad # {} PROVE FALSE
    OBVIOUS
  <2>1. PICK x : x \in Bad /\ \A c \in Bad : x <= c
    <3>1. Bad \in SUBSET Nat
      OBVIOUS
    <3> HIDE DEF Bad
    <3> QED BY <3>1, LeastNatural
  <2>2. x \in 1 .. first /\ x \in Nat \ {0} /\ ~Good(x)
    BY <2>1
  <2>3. f[x] = Rounds(f, x)
    BY <2>2 DEF IsRounded
  <2>4. CASE IsPowerOf2(x)
    <3>1. \E j \in Nat : x = 2^j
      BY <2>2, <2>4, TurnedOff
    <3>2. f[x] = x
      BY <2>3, <2>4 DEF Rounds
    <3> QED BY <2>2, <3>1, <3>2
  <2>5. CASE ~IsPowerOf2(x)
    <3>1. PICK t \in 1 .. x - 1 : t = TurnOffLeast1Bit(x)
      BY <2>2, <2>5, TurnedOff
    <3>2. 2^k <= x => 2^k <= t
      BY <2>2, <2>5, <3>1, TurnedOff
    <3>3. f[x] = f[t]
      BY <2>3, <2>5, <3>1 DEF Rounds
    <3>4. Good(t)
      BY <2>1, <2>2, <3>1
    <3> QED BY <2>2, <3>2, <3>3, <3>4
  <2> QED BY <2>4, <2>5
<1>2. first \in 1 .. first
  OBVIOUS
<1> QED BY <1>1, <1>2

PowerCount(c) == c \in Nat \ {0} /\ \E i \in 0 .. c : c = MIN_BUCKETS * 2^i

LEMMA PowerOfMin ==
  ASSUME NEW j \in Nat, NEW k \in Nat, MIN_BUCKETS = 2^k, 2^k <= 2^j
  PROVE  PowerCount(2^j)
<1>1. k <= j
  BY PowerOrder
<1>2. PICK i \in Nat : j = k + i
  <2>1. j - k \in Nat /\ j = k + (j - k)
    BY <1>1
  <2> QED BY <2>1
<1>3. PICK c \in Nat : c = 2^j /\ j < c
  BY PowerBound
<1>4. c = MIN_BUCKETS * 2^i
  BY <1>2, <1>3, PowerSum
<1>5. i \in 0 .. c /\ c # 0
  BY <1>2, <1>3
<1> QED BY <1>3, <1>4, <1>5 DEF PowerCount

LEMMA MinPower ==
  /\ MIN_BUCKETS \in Nat \ {0} /\ PowerCount(MIN_BUCKETS)
  /\ \E k \in Nat : MIN_BUCKETS = 2^k
<1>1. PICK k \in Nat : MIN_BUCKETS = 2^k
  BY DataAssumption
<1>2. PICK c \in Nat : c = 2^k /\ k < c
  BY PowerBound
<1>3. PowerCount(2^k)
  BY <1>1, <1>2, PowerOfMin
<1> QED BY <1>1, <1>2, <1>3

LEMMA NewCount ==
  ASSUME NEW n \in Nat
  PROVE  PowerCount(NewBucketCnt(n))
<1>1. PICK k \in Nat : MIN_BUCKETS = 2^k
  BY MinPower
<1>2. PICK wanted \in Nat : wanted = n \div BEST_ELEMS_PER_BUCKET
  BY Division, DataAssumption
<1>3. PICK first \in Nat \ {0} : /\ first = IF wanted < MIN_BUCKETS THEN MIN_BUCKETS ELSE wanted
                                 /\ MIN_BUCKETS <= first
  BY <1>2, MinPower
<1>4. IsRounded(first, CHOOSE f : IsRounded(first, f))
  BY RoundedExists
<1>5. NewBucketCnt(n) = (CHOOSE f : IsRounded(first, f))[first]
  <2>1. first = IF n \div BEST_ELEMS_PER_BUCKET < MIN_BUCKETS THEN MIN_BUCKETS
                ELSE n \div BEST_ELEMS_PER_BUCKET
    BY <1>2, <1>3
  <2> QED BY ONLY <2>1, Zenon DEF NewBucketCnt, IsRounded, Rounds
<1>6. PICK j \in Nat : NewBucketCnt(n) = 2^j /\ 2^k <= 2^j
  <2>1. PICK f : IsRounded(first, f) /\ NewBucketCnt(n) = f[first]
    BY <1>4, <1>5
  <2>2. 2^k <= first
    BY <1>1, <1>3
  <2>3. \E j \in Nat : f[first] = 2^j /\ 2^k <= 2^j
    BY ONLY <2>1, <2>2, k \in Nat, first \in Nat \ {0}, RoundedValue
  <2> QED BY <2>1, <2>3
<1> QED BY <1>1, <1>6, PowerOfMin

-----------------------------------------------------------------------------
(* Bucket lists: how many elements, two of them in a row, one taken out. *)
LEMMA CountDistinct ==
  ASSUME NEW S, NEW s \in Seq(S), IsInjective(s)
  PROVE  IsFiniteSet(Range(s)) /\ Cardinality(Range(s)) = Len(s)
<1>1. PICK n \in Nat : n = Len(s) /\ DOMAIN s = 1 .. n /\ s \in [1 .. n -> S]
  BY LenProperties
<1>2. s \in [1 .. n -> Range(s)] /\ \A t \in Range(s) : \E i \in 1 .. n : s[i] = t
  BY <1>1 DEF Range
<1>3. \A i, j \in 1 .. n : s[i] = s[j] => i = j
  BY <1>1 DEF IsInjective
<1>4. s \in Bijection(1 .. n, Range(s))
  BY ONLY <1>2, <1>3, Fun_IsBij
<1>5. ExistsBijection(1 .. n, Range(s))
  BY <1>4 DEF ExistsBijection
<1>6. Cardinality(Range(s)) = n
  BY <1>5, FS_CountingElements
<1>7. IsFiniteSet(1 .. n)
  BY FS_Interval
<1>8. IsFiniteSet(Range(s))
  BY <1>5, <1>7, FS_Bijection
<1> QED BY <1>1, <1>6, <1>8

LEMMA ConcatRange ==
  ASSUME NEW S, NEW p \in Seq(S), NEW q \in Seq(S)
  PROVE  /\ p \o q \in Seq(S)
         /\ Range(p \o q) = Range(p) \cup Range(q)
         /\ (IsInjective(p) /\ IsInjective(q) /\ Range(p) \cap Range(q) = {})
              => IsInjective(p \o q)
<1>1. PICK m \in Nat : m = Len(p) /\ DOMAIN p = 1 .. m
  BY LenProperties
<1>2. PICK n \in Nat : n = Len(q) /\ DOMAIN q = 1 .. n
  BY LenProperties
<1>3. PICK r \in Seq(S) : r = p \o q
  BY ConcatProperties
<1>4. /\ Len(r) = m + n
      /\ \A i \in 1 .. m + n : r[i] = IF i <= m THEN p[i] ELSE q[i - m]
  BY <1>1, <1>2, <1>3, ConcatProperties
<1>5. DOMAIN r = 1 .. m + n
  BY <1>4, LenProperties
<1>6. \A i \in 1 .. m : i \in 1 .. m + n /\ r[i] = p[i]
  BY <1>4
<1>7. \A i \in 1 .. n : i + m \in 1 .. m + n /\ r[i + m] = q[i]
  BY <1>4
<1>8. \A i \in 1 .. m + n : \/ i \in 1 .. m /\ r[i] = p[i]
                            \/ i > m /\ i - m \in 1 .. n /\ r[i] = q[i - m]
  BY <1>4
<1>9. Range(r) = Range(p) \cup Range(q)
  <2>1. Range(r) \subseteq Range(p) \cup Range(q)
    BY <1>1, <1>2, <1>5, <1>8 DEF Range
  <2>2. Range(p) \subseteq Range(r)
    BY <1>1, <1>5, <1>6 DEF Range
  <2>3. Range(q) \subseteq Range(r)
    BY <1>2, <1>5, <1>7 DEF Range
  <2> QED BY <2>1, <2>2, <2>3
<1>10. ASSUME IsInjective(p), IsInjective(q), Range(p) \cap Range(q) = {}
       PROVE  IsInjective(r)
  <2>1. \A i, j \in 1 .. m : p[i] = p[j] => i = j
    BY <1>1, <1>10 DEF IsInjective
  <2>2. \A i, j \in 1 .. n : q[i] = q[j] => i = j
    BY <1>2, <1>10 DEF IsInjective
  <2>3. \A i \in 1 .. m, j \in 1 .. n : p[i] # q[j]
    BY <1>1, <1>2, <1>10 DEF Range
  <2>4. ASSUME NEW i \in 1 .. m + n, NEW j \in 1 .. m + n, r[i] = r[j] PROVE i = j
    <3>1. CASE i \in 1 .. m /\ r[i] = p[i]
      BY <1>8, <2>1, <2>3, <2>4, <3>1
    <3>2. CASE i > m /\ i - m \in 1 .. n /\ r[i] = q[i - m]
      <4>1. j > m /\ j - m \in 1 .. n /\ r[j] = q[j - m]
        BY <1>8, <2>3, <2>4, <3>2
      <4>2. i - m = j - m
        BY <2>2, <2>4, <3>2, <4>1
      <4> QED BY <4>2
    <3> QED BY <1>8, <3>1, <3>2
  <2> QED BY <1>5, <2>4 DEF IsInjective
<1> QED BY <1>3, <1>9, <1>10

LEMMA RemoveRange ==
  ASSUME NEW S, NEW s \in Seq(S), IsInjective(s), NEW i \in DOMAIN s
  PROVE  /\ SE!RemoveAt(s, i) \in Seq(S)
         /\ Range(SE!RemoveAt(s, i)) = Range(s) \ {s[i]}
         /\ IsInjective(SE!RemoveAt(s, i))
<1>1. PICK n \in Nat : n = Len(s) /\ DOMAIN s = 1 .. n /\ \A j \in 1 .. n : s[j] \in S
  BY LenProperties
<1>2. i \in 1 .. n /\ i \in Nat
  BY <1>1
<1>3. \A j, k \in 1 .. n : s[j] = s[k] => j = k
  BY <1>1 DEF IsInjective
<1>4. PICK a \in Seq(S) : /\ a = SubSeq(s, 1, i - 1) /\ Len(a) = i - 1
                          /\ \A j \in 1 .. i - 1 : a[j] = s[j]
  <2>1. 1 \in Int /\ i - 1 \in Int /\ \A j \in 1 .. i - 1 : s[j] \in S
    BY <1>1, <1>2
  <2>2. /\ SubSeq(s, 1, i - 1) \in Seq(S)
        /\ Len(SubSeq(s, 1, i - 1)) = IF 1 <= i - 1 THEN (i - 1) - 1 + 1 ELSE 0
        /\ \A j \in 1 .. (i - 1) - 1 + 1 : SubSeq(s, 1, i - 1)[j] = s[1 + j - 1]
    BY <2>1, SubSeqProperties
  <2>3. (i - 1) - 1 + 1 = i - 1 /\ \A j \in Int : 1 + j - 1 = j
    BY <1>2
  <2>4. Len(SubSeq(s, 1, i - 1)) = i - 1
    BY ONLY <1>2, <2>2
  <2>5. \A j \in 1 .. i - 1 : SubSeq(s, 1, i - 1)[j] = s[j]
    BY ONLY <1>2, <2>2, <2>3
  <2> QED BY ONLY <2>2, <2>4, <2>5
<1>5. PICK b \in Seq(S) : /\ b = SubSeq(s, i + 1, n) /\ Len(b) = n - i
                          /\ \A j \in 1 .. n - i : b[j] = s[i + j]
  <2>1. i + 1 \in Int /\ n \in Int /\ \A j \in i + 1 .. n : s[j] \in S
    BY <1>1, <1>2
  <2>2. /\ SubSeq(s, i + 1, n) \in Seq(S)
        /\ Len(SubSeq(s, i + 1, n)) = IF i + 1 <= n THEN n - (i + 1) + 1 ELSE 0
        /\ \A j \in 1 .. n - (i + 1) + 1 : SubSeq(s, i + 1, n)[j] = s[(i + 1) + j - 1]
    BY <2>1, SubSeqProperties
  <2>3. n - (i + 1) + 1 = n - i /\ \A j \in Int : (i + 1) + j - 1 = i + j
    BY <1>2
  <2>4. Len(SubSeq(s, i + 1, n)) = n - i
    BY ONLY <1>2, <2>2, n \in Nat
  <2>5. \A j \in 1 .. n - i : SubSeq(s, i + 1, n)[j] = s[i + j]
    <3>1. ASSUME NEW j \in 1 .. n - i PROVE SubSeq(s, i + 1, n)[j] = s[i + j]
      <4>1. j \in 1 .. n - (i + 1) + 1 /\ j \in Int
        BY ONLY <1>2, <2>3, j \in 1 .. n - i, n \in Nat
      <4>2. (i + 1) + j - 1 = i + j
        BY ONLY <2>3, <4>1
      <4>3. SubSeq(s, i + 1, n)[j] = s[(i + 1) + j - 1]
        BY ONLY <2>2, <4>1
      <4> QED BY ONLY <4>2, <4>3
    <3> QED BY <3>1
  <2> QED BY ONLY <2>2, <2>4, <2>5
<1>6. DOMAIN a = 1 .. i - 1 /\ DOMAIN b = 1 .. n - i
  BY <1>4, <1>5, LenProperties
<1>7. Range(a) = {s[j] : j \in 1 .. i - 1}
  BY <1>4, <1>6 DEF Range
<1>8. Range(b) = {s[j] : j \in i + 1 .. n}
  <2>1. \A j \in 1 .. n - i : i + j \in i + 1 .. n /\ b[j] = s[i + j]
    BY <1>2, <1>5
  <2>2. \A j \in i + 1 .. n : j - i \in 1 .. n - i /\ b[j - i] = s[j]
    <3>1. \A j \in i + 1 .. n : j - i \in 1 .. n - i /\ i + (j - i) = j
      BY <1>2
    <3> QED BY <1>5, <3>1
  <2>3. Range(b) = {b[j] : j \in 1 .. n - i}
    BY <1>6 DEF Range
  <2>4. ASSUME NEW j \in 1 .. n - i PROVE b[j] \in {s[k] : k \in i + 1 .. n}
    BY <2>1
  <2>5. ASSUME NEW j \in i + 1 .. n PROVE s[j] \in {b[k] : k \in 1 .. n - i}
    <3>1. j - i \in 1 .. n - i /\ b[j - i] = s[j]
      BY <2>2
    <3> QED BY ONLY <3>1
  <2> QED BY ONLY <2>3, <2>4, <2>5
<1>9. Range(a) \cup Range(b) = Range(s) \ {s[i]}
  <2>1. 1 .. n = (1 .. i - 1) \cup {i} \cup (i + 1 .. n)
    BY <1>2
  <2>2. i \notin 1 .. i - 1 /\ i \notin i + 1 .. n
    BY <1>2
  <2>3. \A j \in 1 .. n : s[j] = s[i] <=> j = i
    BY <1>2, <1>3
  <2>4. ASSUME NEW x \in Range(a) \cup Range(b) PROVE x \in Range(s) \ {s[i]}
    <3>1. PICK j \in 1 .. n : x = s[j] /\ j # i
      BY <1>7, <1>8, <2>1, <2>2
    <3> QED BY <1>1, <2>3, <3>1 DEF Range
  <2>5. ASSUME NEW x \in Range(s) \ {s[i]} PROVE x \in Range(a) \cup Range(b)
    <3>1. PICK j \in 1 .. n : x = s[j]
      BY <1>1 DEF Range
    <3>2. j \in 1 .. i - 1 \/ j \in i + 1 .. n
      BY <2>1, <2>3, <3>1
    <3> QED BY <1>7, <1>8, <3>1, <3>2
  <2> QED BY <2>4, <2>5
<1>10. Range(a) \cap Range(b) = {}
  <2>1. \A j \in 1 .. i - 1, k \in i + 1 .. n : j \in 1 .. n /\ k \in 1 .. n /\ j # k
    BY <1>2
  <2> QED BY <1>3, <1>7, <1>8, <2>1
<1>11. IsInjective(a) /\ IsInjective(b)
  <2>1. \A j, k \in 1 .. i - 1 : a[j] = a[k] => j = k
    <3>1. \A j \in 1 .. i - 1 : j \in 1 .. n /\ a[j] = s[j]
      BY <1>2, <1>4
    <3> QED BY <1>3, <3>1
  <2>2. \A j, k \in 1 .. n - i : b[j] = b[k] => j = k
    <3>1. \A j \in 1 .. n - i : i + j \in 1 .. n /\ b[j] = s[i + j]
      BY <1>2, <1>5
    <3>2. \A j, k \in 1 .. n - i : i + j = i + k => j = k
      BY <1>2
    <3> QED BY ONLY <1>3, <3>1, <3>2
  <2> QED BY <1>6, <2>1, <2>2 DEF IsInjective
<1>12. SE!RemoveAt(s, i) = a \o b
  BY <1>1, <1>4, <1>5 DEF SE!RemoveAt
<1> QED BY <1>9, <1>10, <1>11, <1>12, ConcatRange

-----------------------------------------------------------------------------
(* Bucket lists B, CNT of them, in which every element is where its hash     *)
(* value says and nowhere twice, and the elements on them.                   *)
Home(d, e, cnt) == And(d[e].hash, cnt - 1)
Sound(b, cnt, d) ==
  /\ cnt \in Nat \ {0}
  /\ b \in [0 .. cnt - 1 -> Seq(HashElem)]
  /\ \A k \in 0 .. cnt - 1 : /\ IsInjective(b[k])
                             /\ \A e \in Range(b[k]) : Home(d, e, cnt) = k
Elems(b) == UNION {Range(b[k]) : k \in DOMAIN b}
KeysApart(S, d) == \A e, f \in S : d[e].key = d[f].key => e = f

LEMMA HomeInside ==
  ASSUME NEW d \in Data, NEW e \in HashElem, NEW cnt \in Nat \ {0}
  PROVE  Home(d, e, cnt) \in 0 .. cnt - 1
<1>1. d[e].hash \in Nat
  BY DataAssumption
<1>2. cnt - 1 \in Nat
  OBVIOUS
<1> QED BY <1>1, <1>2, AndBound DEF Home

LEMMA SeqRange ==
  ASSUME NEW S, NEW s \in Seq(S)
  PROVE  Range(s) \subseteq S
BY LenProperties DEF Range

LEMMA Located ==
  ASSUME NEW d \in Data, NEW cnt, NEW b, Sound(b, cnt, d)
  PROVE  /\ Elems(b) \subseteq HashElem
         /\ \A e \in HashElem : /\ Home(d, e, cnt) \in 0 .. cnt - 1
                                /\ e \in Elems(b) <=> e \in Range(b[Home(d, e, cnt)])
<1>1. cnt \in Nat \ {0} /\ DOMAIN b = 0 .. cnt - 1
  BY DEF Sound
<1>2. \A k \in 0 .. cnt - 1 : Range(b[k]) \subseteq HashElem
  BY SeqRange DEF Sound
<1>3. \A k \in 0 .. cnt - 1 : \A e \in Range(b[k]) : Home(d, e, cnt) = k
  BY DEF Sound
<1>4. \A e \in HashElem : Home(d, e, cnt) \in 0 .. cnt - 1
  BY <1>1, HomeInside
<1>5. \A e : e \in Elems(b) <=> \E k \in 0 .. cnt - 1 : e \in Range(b[k])
  BY <1>1 DEF Elems
<1> QED BY ONLY <1>2, <1>3, <1>4, <1>5

Changed(b, k, q, c) == c = [b EXCEPT ![k] = q]

LEMMA Replaced ==
  ASSUME NEW d \in Data, NEW cnt, NEW b, Sound(b, cnt, d),
         NEW k \in 0 .. cnt - 1, NEW q \in Seq(HashElem), IsInjective(q),
         \A e \in Range(q) : Home(d, e, cnt) = k,
         NEW c, Changed(b, k, q, c)
  PROVE  /\ Sound(c, cnt, d)
         /\ \A e \in HashElem :
              e \in Elems(c)
                <=> IF Home(d, e, cnt) = k THEN e \in Range(q) ELSE e \in Elems(b)
<1>2. cnt \in Nat \ {0} /\ b \in [0 .. cnt - 1 -> Seq(HashElem)]
  BY DEF Sound
<1>3. /\ c \in [0 .. cnt - 1 -> Seq(HashElem)] /\ c[k] = q
      /\ \A j \in 0 .. cnt - 1 : j # k => c[j] = b[j]
  BY ONLY <1>2, Changed(b, k, q, c), k \in 0 .. cnt - 1, q \in Seq(HashElem) DEF Changed
<1>4. Sound(c, cnt, d)
  <2>1. ASSUME NEW j \in 0 .. cnt - 1
        PROVE  IsInjective(c[j]) /\ \A e \in Range(c[j]) : Home(d, e, cnt) = j
    <3>1. CASE j = k
      BY <1>3, <3>1
    <3>2. CASE j # k
      BY <1>3, <3>2 DEF Sound
    <3> QED BY <3>1, <3>2
  <2> QED BY <1>2, <1>3, <2>1 DEF Sound
<1>5. ASSUME NEW e \in HashElem
      PROVE  e \in Elems(c) <=> IF Home(d, e, cnt) = k THEN e \in Range(q) ELSE e \in Elems(b)
  <2>1. PICK h \in 0 .. cnt - 1 : /\ h = Home(d, e, cnt)
                                  /\ e \in Elems(b) <=> e \in Range(b[h])
    BY Located
  <2>2. e \in Elems(c) <=> e \in Range(c[h])
    BY <1>4, <2>1, Located
  <2> QED BY <1>3, <2>1, <2>2
<1> QED BY ONLY <1>4, <1>5

LEMMA PushedSound ==
  ASSUME datum \in Data, NEW cnt, NEW b, Sound(b, cnt, datum),
         NEW e \in HashElem, e \notin Elems(b)
  PROVE  Sound(Pushed(b, e, cnt), cnt, datum) /\ Elems(Pushed(b, e, cnt)) = Elems(b) \cup {e}
<1>1. PICK k \in 0 .. cnt - 1 : /\ k = Home(datum, e, cnt) /\ k = BucketIdx(e, cnt)
                                /\ e \notin Range(b[k])
  BY Located DEF BucketIdx, Home
<1>2. /\ b[k] \in Seq(HashElem) /\ IsInjective(b[k])
      /\ \A f \in Range(b[k]) : Home(datum, f, cnt) = k
  BY DEF Sound
<1>3. PICK q \in Seq(HashElem) : /\ q = <<e>> \o b[k] /\ IsInjective(q)
                                 /\ Range(q) = Range(b[k]) \cup {e}
  BY <1>1, <1>2, RangePush
<1>4. Pushed(b, e, cnt) = [b EXCEPT ![k] = q]
  BY <1>1, <1>3 DEF Pushed
<1>5. \A f \in Range(q) : Home(datum, f, cnt) = k
  BY <1>1, <1>2, <1>3
<1>6. PICK c : Changed(b, k, q, c)
  BY DEF Changed
<1>7. /\ Sound(c, cnt, datum)
      /\ \A f \in HashElem :
           f \in Elems(c) <=> IF Home(datum, f, cnt) = k THEN f \in Range(q) ELSE f \in Elems(b)
  <2>1. IsInjective(q)
    BY <1>3
  <2> QED BY ONLY <2>1, <1>5, <1>6, datum \in Data, Sound(b, cnt, datum),
                  k \in 0 .. cnt - 1, q \in Seq(HashElem), Replaced
<1>8. \A f \in HashElem : Home(datum, f, cnt) = k => (f \in Elems(b) <=> f \in Range(b[k]))
  BY Located
<1>9. Elems(b) \subseteq HashElem /\ Elems(c) \subseteq HashElem
  BY <1>7, Located
<1>10. Elems(c) = Elems(b) \cup {e}
  BY ONLY <1>1, <1>3, <1>7, <1>8, <1>9, e \in HashElem
<1> QED BY ONLY <1>4, <1>6, <1>7, <1>10 DEF Changed

LEMMA RemovedSound ==
  ASSUME datum \in Data, NEW b, Sound(b, bucket_cnt, datum), NEW e \in Elems(b)
  PROVE  /\ Sound(RemoveElem(b, e), bucket_cnt, datum)
         /\ Elems(RemoveElem(b, e)) = Elems(b) \ {e}
<1>0. e \in HashElem
  BY Located
<1>1. PICK k \in 0 .. bucket_cnt - 1 : /\ k = Home(datum, e, bucket_cnt)
                                       /\ k = BucketIdx(e, bucket_cnt)
                                       /\ e \in Range(b[k])
  BY <1>0, Located DEF BucketIdx, Home
<1>2. /\ b[k] \in Seq(HashElem) /\ IsInjective(b[k])
      /\ \A f \in Range(b[k]) : Home(datum, f, bucket_cnt) = k
  BY DEF Sound
<1>3. PICK i \in DOMAIN b[k] : i = CHOOSE j \in DOMAIN b[k] : b[k][j] = e
  BY <1>1 DEF Range
<1>4. b[k][i] = e
  BY <1>1, <1>3 DEF Range
<1>5. PICK q \in Seq(HashElem) : /\ q = SE!RemoveAt(b[k], i) /\ IsInjective(q)
                                 /\ Range(q) = Range(b[k]) \ {e}
  BY <1>2, <1>4, RemoveRange
<1>6. RemoveElem(b, e) = [b EXCEPT ![k] = q]
  BY <1>1, <1>3, <1>5 DEF RemoveElem
<1>7. \A f \in Range(q) : Home(datum, f, bucket_cnt) = k
  BY <1>2, <1>5
<1>8. PICK c : Changed(b, k, q, c)
  BY DEF Changed
<1>9. /\ Sound(c, bucket_cnt, datum)
      /\ \A f \in HashElem :
           f \in Elems(c)
             <=> IF Home(datum, f, bucket_cnt) = k THEN f \in Range(q) ELSE f \in Elems(b)
  BY ONLY <1>5, <1>7, <1>8, datum \in Data, Sound(b, bucket_cnt, datum),
          k \in 0 .. bucket_cnt - 1, q \in Seq(HashElem), Replaced
<1>10. \A f \in HashElem :
         Home(datum, f, bucket_cnt) = k => (f \in Elems(b) <=> f \in Range(b[k]))
  BY Located
<1>11. Elems(b) \subseteq HashElem /\ Elems(c) \subseteq HashElem
  BY <1>9, Located
<1>12. Elems(c) = Elems(b) \ {e}
  BY ONLY <1>0, <1>1, <1>5, <1>9, <1>10, <1>11
<1> QED BY ONLY <1>6, <1>8, <1>9, <1>12 DEF Changed

LEMMA EmptySound ==
  ASSUME NEW d \in Data, NEW cnt \in Nat \ {0}
  PROVE  Sound(EmptyBuckets(cnt), cnt, d) /\ Elems(EmptyBuckets(cnt)) = {}
<1>1. PICK b : b = EmptyBuckets(cnt)
  OBVIOUS
<1>2. <<>> \in Seq(HashElem)
  BY EmptySeq
<1>3. /\ b \in [0 .. cnt - 1 -> Seq(HashElem)]
      /\ \A k \in 0 .. cnt - 1 : b[k] = <<>>
  BY <1>1, <1>2 DEF EmptyBuckets
<1>4. \A k \in 0 .. cnt - 1 : IsInjective(b[k]) /\ Range(b[k]) = {}
  BY <1>3, RangeEmpty
<1>5. DOMAIN b = 0 .. cnt - 1
  BY <1>3
<1>6. Elems(b) = {}
  BY <1>4, <1>5 DEF Elems
<1> QED BY <1>1, <1>3, <1>4, <1>6 DEF Sound

-----------------------------------------------------------------------------
(* A traversal meets every element once. *)
Trail(b, k, f) == IF k = 0 THEN <<>> ELSE f[k - 1] \o b[k - 1]
IsTrail(b, n, f) == f = [k \in 0 .. n |-> Trail(b, k, f)]

LEMMA TrailExists ==
  ASSUME NEW b, NEW n \in Nat
  PROVE  \E f : IsTrail(b, n, f)
<1> DEFINE Bad == {i \in Nat : ~ \E f : IsTrail(b, i, f)}
<1> SUFFICES ASSUME Bad # {} PROVE FALSE
  OBVIOUS
<1>1. PICK m : m \in Bad /\ \A i \in Bad : m <= i
  <2>1. Bad \in SUBSET Nat
    OBVIOUS
  <2> HIDE DEF Bad
  <2> QED BY <2>1, LeastNatural
<1>2. m \in Nat
  BY <1>1
<1>3. CASE m = 0
  <2> DEFINE f == [k \in 0 .. 0 |-> <<>>]
  <2>1. \A k \in 0 .. 0 : Trail(b, k, f) = <<>>
    BY DEF Trail
  <2>2. IsTrail(b, 0, f)
    BY <2>1 DEF IsTrail
  <2> QED BY <1>1, <1>3, <2>2
<1>4. CASE m # 0
  <2>1. m - 1 \in Nat /\ m - 1 \notin Bad
    BY <1>1, <1>2, <1>4
  <2>2. PICK g : IsTrail(b, m - 1, g)
    BY <2>1
  <2> DEFINE f == [k \in 0 .. m |-> IF k = m THEN Trail(b, m, g) ELSE g[k]]
  <2>3. /\ \A k \in 0 .. m - 1 : f[k] = g[k] /\ g[k] = Trail(b, k, g)
        /\ f[m] = Trail(b, m, g)
        /\ f = [k \in 0 .. m |-> f[k]]
    <3>1. \A k \in 0 .. m - 1 : k \in 0 .. m /\ k # m
      BY <1>2
    <3>2. \A k \in 0 .. m - 1 : g[k] = Trail(b, k, g)
      BY <2>2 DEF IsTrail
    <3>3. m \in 0 .. m
      BY <1>2
    <3> QED BY ONLY <3>1, <3>2, <3>3
  <2> HIDE DEF f
  <2>4. ASSUME NEW k \in 0 .. m PROVE f[k] = Trail(b, k, f)
    <3>1. f[k] = Trail(b, k, g)
      <4>1. CASE k = m
        BY <2>3, <4>1
      <4>2. CASE k # m
        <5>1. k \in 0 .. m - 1
          BY <1>2, <4>2
        <5> QED BY <2>3, <5>1
      <4> QED BY <4>1, <4>2
    <3>2. k # 0 => f[k - 1] = g[k - 1]
      <4>1. k # 0 => k - 1 \in 0 .. m - 1
        BY <1>2
      <4> QED BY <2>3, <4>1
    <3> QED BY <3>1, <3>2 DEF Trail
  <2>5. IsTrail(b, m, f)
    BY <2>3, <2>4 DEF IsTrail
  <2> QED BY <1>1, <2>5
<1> QED BY <1>3, <1>4

LEMMA TrailValue ==
  ASSUME NEW d \in Data, NEW cnt, NEW b, Sound(b, cnt, d), NEW f, IsTrail(b, cnt, f)
  PROVE  f[cnt] \in Seq(HashElem) /\ IsInjective(f[cnt]) /\ Range(f[cnt]) = Elems(b)
<1>1. cnt \in Nat \ {0} /\ DOMAIN b = 0 .. cnt - 1
  BY DEF Sound
<1>2. \A k \in 0 .. cnt - 1 : /\ b[k] \in Seq(HashElem) /\ IsInjective(b[k])
                              /\ \A e \in Range(b[k]) : Home(d, e, cnt) = k
  BY DEF Sound
<1>3. \A k \in 0 .. cnt : f[k] = Trail(b, k, f)
  BY DEF IsTrail
<1> DEFINE Good(k) == /\ f[k] \in Seq(HashElem) /\ IsInjective(f[k])
                      /\ \A e : e \in Range(f[k])
                                 <=> \E j \in 0 .. cnt - 1 : j < k /\ e \in Range(b[j])
           Bad == {k \in 0 .. cnt : ~Good(k)}
<1>4. Bad = {}
  <2> SUFFICES ASSUME Bad # {} PROVE FALSE
    OBVIOUS
  <2>1. PICK k : k \in Bad /\ \A j \in Bad : k <= j
    <3>1. Bad \in SUBSET Nat
      BY <1>1
    <3> HIDE DEF Bad
    <3> QED BY <3>1, LeastNatural
  <2>2. k \in 0 .. cnt /\ k \in Nat /\ ~Good(k)
    BY <1>1, <2>1
  <2>3. CASE k = 0
    <3>1. f[k] = <<>>
      BY <1>3, <2>2, <2>3 DEF Trail
    <3>2. \A j \in 0 .. cnt - 1 : ~ (j < k)
      BY <1>1, <2>3
    <3> QED BY <2>2, <3>1, <3>2, RangeEmpty, EmptySeq
  <2>4. CASE k # 0
    <3>1. PICK l \in 0 .. cnt - 1 : k = l + 1 /\ l = k - 1 /\ l \in 0 .. cnt /\ l < k
      <4>1. k - 1 \in 0 .. cnt - 1 /\ k = (k - 1) + 1 /\ k - 1 \in 0 .. cnt /\ k - 1 < k
        BY <1>1, <2>2, <2>4
      <4> QED BY <4>1
    <3>2. Good(l)
      <4> HIDE DEF Good
      <4> QED BY <2>1, <2>2, <3>1
    <3>3. f[k] = f[l] \o b[l]
      BY <1>3, <2>2, <2>4, <3>1 DEF Trail
    <3>4. Range(f[l]) \cap Range(b[l]) = {}
      <4> SUFFICES ASSUME NEW e, e \in Range(f[l]), e \in Range(b[l]) PROVE FALSE
        OBVIOUS
      <4>1. PICK j \in 0 .. cnt - 1 : j < l /\ e \in Range(b[j])
        BY <3>2
      <4>2. Home(d, e, cnt) = l /\ Home(d, e, cnt) = j
        BY <1>2, <4>1
      <4> QED BY <1>1, <4>1, <4>2
    <3>5. \A j \in 0 .. cnt - 1 : j < k <=> j < l \/ j = l
      BY <1>1, <3>1
    <3>6. /\ f[k] \in Seq(HashElem) /\ IsInjective(f[k])
          /\ Range(f[k]) = Range(f[l]) \cup Range(b[l])
      BY <1>2, <3>2, <3>3, <3>4, ConcatRange
    <3> QED BY <2>2, <3>2, <3>5, <3>6
  <2> QED BY <2>3, <2>4
<1>5. Good(cnt)
  BY <1>1, <1>4
<1>6. \A j \in 0 .. cnt - 1 : j < cnt
  BY <1>1
<1>7. Range(f[cnt]) = Elems(b)
  BY <1>1, <1>5, <1>6 DEF Elems
<1> QED BY <1>5, <1>7

LEMMA Traversed ==
  ASSUME datum \in Data, NEW b, Sound(b, bucket_cnt, datum)
  PROVE  /\ Traversal(b) \in Seq(HashElem) /\ IsInjective(Traversal(b))
         /\ Range(Traversal(b)) = Elems(b)
<1>1. bucket_cnt \in Nat
  BY DEF Sound
<1>2. IsTrail(b, bucket_cnt, CHOOSE f : IsTrail(b, bucket_cnt, f))
  BY <1>1, TrailExists
<1>3. Traversal(b) = (CHOOSE f : IsTrail(b, bucket_cnt, f))[bucket_cnt]
  BY Zenon DEF Traversal, IsTrail, Trail
<1>4. PICK f : IsTrail(b, bucket_cnt, f) /\ Traversal(b) = f[bucket_cnt]
  BY <1>2, <1>3
<1>5. /\ f[bucket_cnt] \in Seq(HashElem) /\ IsInjective(f[bucket_cnt])
      /\ Range(f[bucket_cnt]) = Elems(b)
  BY <1>4, TrailValue
<1> QED BY <1>4, <1>5

-----------------------------------------------------------------------------
(* rehash() puts every element on exactly one list of the new array. *)
Move(old, cnt, k, f) == IF k = 0 THEN EmptyBuckets(cnt) ELSE Pushed(f[k - 1], old[k], cnt)
IsMove(old, cnt, n, f) == f = [k \in 0 .. n |-> Move(old, cnt, k, f)]

LEMMA MoveExists ==
  ASSUME NEW old, NEW cnt, NEW n \in Nat
  PROVE  \E f : IsMove(old, cnt, n, f)
<1> DEFINE Bad == {i \in Nat : ~ \E f : IsMove(old, cnt, i, f)}
<1> SUFFICES ASSUME Bad # {} PROVE FALSE
  OBVIOUS
<1>1. PICK m : m \in Bad /\ \A i \in Bad : m <= i
  <2>1. Bad \in SUBSET Nat
    OBVIOUS
  <2> HIDE DEF Bad
  <2> QED BY <2>1, LeastNatural
<1>2. m \in Nat
  BY <1>1
<1>3. CASE m = 0
  <2> DEFINE f == [k \in 0 .. 0 |-> EmptyBuckets(cnt)]
  <2>1. \A k \in 0 .. 0 : Move(old, cnt, k, f) = EmptyBuckets(cnt)
    BY DEF Move
  <2>2. IsMove(old, cnt, 0, f)
    BY <2>1 DEF IsMove
  <2> QED BY <1>1, <1>3, <2>2
<1>4. CASE m # 0
  <2>1. m - 1 \in Nat /\ m - 1 \notin Bad
    BY <1>1, <1>2, <1>4
  <2>2. PICK g : IsMove(old, cnt, m - 1, g)
    BY <2>1
  <2> DEFINE f == [k \in 0 .. m |-> IF k = m THEN Move(old, cnt, m, g) ELSE g[k]]
  <2>3. /\ \A k \in 0 .. m - 1 : f[k] = g[k] /\ g[k] = Move(old, cnt, k, g)
        /\ f[m] = Move(old, cnt, m, g)
        /\ f = [k \in 0 .. m |-> f[k]]
    <3>1. \A k \in 0 .. m - 1 : k \in 0 .. m /\ k # m
      BY <1>2
    <3>2. \A k \in 0 .. m - 1 : g[k] = Move(old, cnt, k, g)
      BY <2>2 DEF IsMove
    <3>3. m \in 0 .. m
      BY <1>2
    <3> QED BY ONLY <3>1, <3>2, <3>3
  <2> HIDE DEF f
  <2>4. ASSUME NEW k \in 0 .. m PROVE f[k] = Move(old, cnt, k, f)
    <3>1. f[k] = Move(old, cnt, k, g)
      <4>1. CASE k = m
        BY <2>3, <4>1
      <4>2. CASE k # m
        <5>1. k \in 0 .. m - 1
          BY <1>2, <4>2
        <5> QED BY <2>3, <5>1
      <4> QED BY <4>1, <4>2
    <3>2. k # 0 => f[k - 1] = g[k - 1]
      <4>1. k # 0 => k - 1 \in 0 .. m - 1
        BY <1>2
      <4> QED BY <2>3, <4>1
    <3> QED BY <3>1, <3>2 DEF Move
  <2>5. IsMove(old, cnt, m, f)
    BY <2>3, <2>4 DEF IsMove
  <2> QED BY <1>1, <2>5
<1> QED BY <1>3, <1>4

LEMMA MoveValue ==
  ASSUME datum \in Data, NEW cnt \in Nat \ {0},
         NEW old \in Seq(HashElem), IsInjective(old),
         NEW n \in Nat, n = Len(old), NEW f, IsMove(old, cnt, n, f)
  PROVE  Sound(f[n], cnt, datum) /\ Elems(f[n]) = Range(old)
<1>1. DOMAIN old = 1 .. n /\ \A i \in 1 .. n : old[i] \in HashElem
  BY LenProperties
<1>2. \A i, j \in 1 .. n : old[i] = old[j] => i = j
  BY <1>1 DEF IsInjective
<1>3. \A k \in 0 .. n : f[k] = Move(old, cnt, k, f)
  BY DEF IsMove
<1> DEFINE Good(k) == /\ Sound(f[k], cnt, datum)
                      /\ Elems(f[k]) = {old[i] : i \in 1 .. k}
           Bad == {k \in 0 .. n : ~Good(k)}
<1>4. Bad = {}
  <2> SUFFICES ASSUME Bad # {} PROVE FALSE
    OBVIOUS
  <2>1. PICK k : k \in Bad /\ \A j \in Bad : k <= j
    <3>1. Bad \in SUBSET Nat
      OBVIOUS
    <3> HIDE DEF Bad
    <3> QED BY <3>1, LeastNatural
  <2>2. k \in 0 .. n /\ k \in Nat /\ ~Good(k)
    BY <2>1
  <2>3. CASE k = 0
    <3>1. f[k] = EmptyBuckets(cnt)
      BY <1>3, <2>2, <2>3 DEF Move
    <3>2. {old[i] : i \in 1 .. k} = {}
      BY <2>3
    <3> QED BY <2>2, <3>1, <3>2, EmptySound
  <2>4. CASE k # 0
    <3>1. PICK l \in 0 .. n : k = l + 1 /\ l = k - 1 /\ l < k
      <4>1. k - 1 \in 0 .. n /\ k = (k - 1) + 1 /\ k - 1 < k
        BY <2>2, <2>4
      <4> QED BY <4>1
    <3>2. Good(l)
      <4> HIDE DEF Good
      <4> QED BY <2>1, <2>2, <3>1
    <3>3. f[k] = Pushed(f[l], old[k], cnt)
      BY <1>3, <2>2, <2>4, <3>1 DEF Move
    <3>4. k \in 1 .. n /\ 1 .. k = (1 .. l) \cup {k} /\ 1 .. l \subseteq 1 .. n /\ k \notin 1 .. l
      BY <2>2, <2>4, <3>1
    <3>5. old[k] \in HashElem /\ old[k] \notin Elems(f[l])
      BY <1>1, <1>2, <3>2, <3>4
    <3>6. Sound(f[k], cnt, datum) /\ Elems(f[k]) = Elems(f[l]) \cup {old[k]}
      BY <3>2, <3>3, <3>5, PushedSound
    <3>7. {old[i] : i \in 1 .. k} = {old[i] : i \in 1 .. l} \cup {old[k]}
      BY <3>4
    <3> QED BY <2>2, <3>2, <3>6, <3>7
  <2> QED BY <2>3, <2>4
<1>5. Good(n)
  <2>1. n \in 0 .. n
    OBVIOUS
  <2> HIDE DEF Good
  <2> QED BY <1>4, <2>1
<1>6. Range(old) = {old[i] : i \in 1 .. n}
  BY <1>1 DEF Range
<1> QED BY <1>5, <1>6

LEMMA MovedSound ==
  ASSUME datum \in Data, NEW b, Sound(b, bucket_cnt, datum), NEW cnt \in Nat \ {0}
  PROVE  Sound(Moved(b, cnt), cnt, datum) /\ Elems(Moved(b, cnt)) = Elems(b)
<1>1. PICK old \in Seq(HashElem) : /\ old = Traversal(b) /\ IsInjective(old)
                                   /\ Range(old) = Elems(b)
  BY Traversed
<1>2. PICK n \in Nat : n = Len(old)
  BY LenProperties
<1>3. IsMove(old, cnt, n, CHOOSE f : IsMove(old, cnt, n, f))
  BY MoveExists
<1>4. Moved(b, cnt) = (CHOOSE f : IsMove(old, cnt, n, f))[n]
  <2>1. old = Traversal(b) /\ n = Len(Traversal(b))
    BY <1>1, <1>2
  <2> QED BY ONLY <2>1, Zenon DEF Moved, IsMove, Move
<1>5. PICK f : IsMove(old, cnt, n, f) /\ Moved(b, cnt) = f[n]
  BY <1>3, <1>4
<1>6. Sound(f[n], cnt, datum) /\ Elems(f[n]) = Range(old)
  BY <1>1, <1>2, <1>5, MoveValue
<1> QED BY <1>1, <1>5, <1>6

-----------------------------------------------------------------------------
(* find_elem() finds the element of that key wherever it is in the table: an  *)
(* element of the same key has the same hash value, so the same bucket.       *)
LEMMA FoundElem ==
  ASSUME datum \in Data, Sound(buckets, bucket_cnt, datum), NEW e \in HashElem
  PROVE  /\ Found(e) = None <=> \A f \in Elems(buckets) : datum[f].key # datum[e].key
         /\ Found(e) # None => /\ Found(e) \in Elems(buckets)
                               /\ datum[Found(e)].key = datum[e].key
<1>1. PICK h \in 0 .. bucket_cnt - 1 : h = Home(datum, e, bucket_cnt) /\ h = BucketIdx(e, bucket_cnt)
  BY Located DEF BucketIdx, Home
<1>2. PICK s \in Seq(HashElem) : s = buckets[h]
  BY DEF Sound
<1>3. PICK n \in Nat : DOMAIN s = 1 .. n /\ \A i \in 1 .. n : s[i] \in HashElem
  BY LenProperties
<1> DEFINE equal == {i \in DOMAIN s : datum[s[i]].key = datum[e].key}
<1>4. Found(e) = IF equal = {} THEN None ELSE s[Min(equal)]
  BY <1>1, <1>2 DEF Found, FindElem
<1>5. equal # {} => Min(equal) \in equal
  <2>1. equal \in SUBSET Nat
    BY <1>3
  <2> HIDE DEF equal
  <2> QED BY <2>1, LeastNatural
<1>6. \A i \in DOMAIN s : s[i] \in HashElem /\ s[i] \in Elems(buckets)
  <2>1. h \in DOMAIN buckets
    BY <1>1 DEF Sound
  <2> QED BY <1>2, <1>3, <2>1 DEF Elems, Range
<1>7. ASSUME NEW f \in Elems(buckets), datum[f].key = datum[e].key PROVE equal # {}
  <2>1. f \in HashElem
    BY Located
  <2>2. datum[f].hash = datum[e].hash
    BY <1>7, <2>1, DataAssumption
  <2>3. Home(datum, f, bucket_cnt) = h
    BY <1>1, <2>2 DEF Home
  <2>4. f \in Range(s)
    BY <1>2, <2>1, <2>3, Located
  <2>5. PICK i \in DOMAIN s : s[i] = f
    BY <2>4 DEF Range
  <2> QED BY <1>7, <2>5
<1>8. None \notin HashElem
  BY DataAssumption
<1>9. CASE equal = {}
  BY <1>4, <1>7, <1>9
<1>10. CASE equal # {}
  <2>1. PICK i \in DOMAIN s : Found(e) = s[i] /\ datum[s[i]].key = datum[e].key
    BY <1>4, <1>5, <1>10
  <2> QED BY <1>6, <1>8, <2>1
<1> QED BY <1>9, <1>10

(* The inductive invariant: a table of sound bucket lists with one element   *)
(* per key, counted exactly; the array allocated with it; and an iterator    *)
(* that is at a place of it, or none.                                        *)
Full(b, cnt, n, d) ==
  /\ Sound(b, cnt, d) /\ PowerCount(cnt)
  /\ KeysApart(Elems(b), d) /\ n = Cardinality(Elems(b))
Placed(it, b, cnt) ==
  \E k \in 0 .. cnt - 1 : \E i \in 0 .. Len(b[k]) : it = <<k, i>>
HashInv ==
  /\ datum \in Data
  /\ arrays = IF Open THEN 1 ELSE 0
  /\ Open => Full(buckets, bucket_cnt, elem_cnt, datum)
  /\ iter # <<>> => Open /\ Placed(iter, buckets, bucket_cnt)

LEMMA ElemsFinite ==
  ASSUME NEW d \in Data, NEW cnt, NEW b, Sound(b, cnt, d)
  PROVE  IsFiniteSet(Elems(b)) /\ Cardinality(Elems(b)) \in Nat
<1>1. Elems(b) \subseteq HashElem /\ IsFiniteSet(HashElem)
  BY Located, DataAssumption
<1>2. IsFiniteSet(Elems(b))
  BY ONLY <1>1, FS_Subset
<1> QED BY <1>2, FS_CardinalityType

LEMMA SoundOpen ==
  ASSUME NEW cnt, NEW b, NEW d, Sound(b, cnt, d)
  PROVE  DOMAIN b # {}
<1>1. cnt \in Nat \ {0} /\ DOMAIN b = 0 .. cnt - 1
  BY DEF Sound
<1>2. 0 \in 0 .. cnt - 1
  BY <1>1
<1> QED BY <1>1, <1>2

(* However rehash() ends, the table has the elements it had. *)
LEMMA RehashKeeps ==
  ASSUME datum \in Data, PowerCount(bucket_cnt), arrays = 1,
         NEW b, Sound(b, bucket_cnt, datum), NEW n \in Nat, NEW ok \in BOOLEAN,
         Rehash(b, n, ok)
  PROVE  /\ Sound(buckets', bucket_cnt', datum) /\ PowerCount(bucket_cnt')
         /\ Elems(buckets') = Elems(b) /\ arrays' = 1
<1>1. PICK cnt : cnt = NewBucketCnt(n) /\ PowerCount(cnt)
  BY NewCount
<1>2. CASE cnt = bucket_cnt \/ ~ok
  <2>1. buckets' = b /\ bucket_cnt' = bucket_cnt /\ arrays' = arrays
    BY <1>1, <1>2 DEF Rehash
  <2> QED BY <2>1
<1>3. CASE cnt # bucket_cnt /\ ok
  <2>1. buckets' = Moved(b, cnt) /\ bucket_cnt' = cnt /\ arrays' = (arrays + 1) - 1
    BY <1>1, <1>3 DEF Rehash
  <2>2. cnt \in Nat \ {0}
    BY <1>1 DEF PowerCount
  <2>3. Sound(Moved(b, cnt), cnt, datum) /\ Elems(Moved(b, cnt)) = Elems(b)
    BY <2>2, MovedSound
  <2>4. arrays' = 1
    BY <2>1
  <2> QED BY ONLY <1>1, <2>1, <2>3, <2>4
<1> QED BY <1>2, <1>3

-----------------------------------------------------------------------------
(* What the updates make of the elements. *)
LEMMA InsertEffect ==
  ASSUME HashInv, NEW e \in HashElem, NEW ok \in BOOLEAN, HashInsert(e, ok)
  PROVE  /\ Full(buckets', bucket_cnt', elem_cnt', datum) /\ arrays' = 1
         /\ Elems(buckets') = IF Found(e) = None THEN Elems(buckets) \cup {e} ELSE Elems(buckets)
<1>1. /\ datum \in Data /\ arrays = 1 /\ Sound(buckets, bucket_cnt, datum) /\ PowerCount(bucket_cnt)
      /\ KeysApart(Elems(buckets), datum) /\ elem_cnt = Cardinality(Elems(buckets))
  BY DEF HashInv, HashInsert, Full
<1>2. IsFiniteSet(Elems(buckets)) /\ elem_cnt \in Nat
  BY <1>1, ElemsFinite
<1>3. CASE Found(e) = None
  <2>1. elem_cnt' = elem_cnt + 1 /\ Rehash(Pushed(buckets, e, bucket_cnt), elem_cnt + 1, ok)
    BY <1>3 DEF HashInsert, InsertElem
  <2>2. \A f \in Elems(buckets) : datum[f].key # datum[e].key
    BY <1>1, <1>3, FoundElem
  <2>3. e \notin Elems(buckets)
    BY <2>2
  <2>4. PICK b : /\ b = Pushed(buckets, e, bucket_cnt) /\ Sound(b, bucket_cnt, datum)
                 /\ Elems(b) = Elems(buckets) \cup {e}
    BY <1>1, <2>3, PushedSound
  <2>5. PICK n \in Nat : n = elem_cnt + 1
    BY <1>2
  <2>6. Rehash(b, n, ok)
    BY <2>1, <2>4, <2>5
  <2>7. /\ Sound(buckets', bucket_cnt', datum) /\ PowerCount(bucket_cnt')
        /\ Elems(buckets') = Elems(b) /\ arrays' = 1
    BY ONLY <1>1, <2>4, <2>6, n \in Nat, ok \in BOOLEAN, RehashKeeps
  <2>8. KeysApart(Elems(buckets) \cup {e}, datum)
    BY <1>1, <2>2 DEF KeysApart
  <2>9. Cardinality(Elems(buckets) \cup {e}) = elem_cnt + 1
    BY <1>1, <1>2, <2>3, FS_AddElement
  <2> QED BY ONLY <1>3, <2>1, <2>4, <2>7, <2>8, <2>9 DEF Full
<1>4. CASE Found(e) # None
  <2>1. elem_cnt' = elem_cnt /\ Rehash(buckets, elem_cnt, ok)
    BY <1>4 DEF HashInsert
  <2>2. /\ Sound(buckets', bucket_cnt', datum) /\ PowerCount(bucket_cnt')
        /\ Elems(buckets') = Elems(buckets) /\ arrays' = 1
    BY <1>1, <1>2, <2>1, RehashKeeps
  <2> QED BY ONLY <1>1, <1>4, <2>1, <2>2 DEF Full
<1> QED BY <1>3, <1>4

LEMMA RemoveEffect ==
  ASSUME datum \in Data, Sound(buckets, bucket_cnt, datum),
         KeysApart(Elems(buckets), datum), NEW e \in HashElem, Found(e) # None
  PROVE  /\ Sound(RemoveElem(buckets, Found(e)), bucket_cnt, datum)
         /\ Elems(RemoveElem(buckets, Found(e))) = Elems(buckets) \ {Found(e)}
         /\ \A f \in Elems(buckets) \ {Found(e)} : datum[f].key # datum[e].key
         /\ Cardinality(Elems(buckets)) - 1 \in Nat
         /\ IsFiniteSet(Elems(buckets) \ {Found(e)})
         /\ Cardinality(Elems(buckets) \ {Found(e)}) = Cardinality(Elems(buckets)) - 1
<1>1. PICK old \in Elems(buckets) : old = Found(e) /\ datum[old].key = datum[e].key
  BY FoundElem
<1>2. /\ Sound(RemoveElem(buckets, old), bucket_cnt, datum)
      /\ Elems(RemoveElem(buckets, old)) = Elems(buckets) \ {old}
  BY RemovedSound
<1>3. \A f \in Elems(buckets) \ {old} : datum[f].key # datum[e].key
  BY <1>1 DEF KeysApart
<1>4. IsFiniteSet(Elems(buckets)) /\ Cardinality(Elems(buckets)) \in Nat
  BY ElemsFinite
<1>5. /\ IsFiniteSet(Elems(buckets) \ {old})
      /\ Cardinality(Elems(buckets) \ {old}) = Cardinality(Elems(buckets)) - 1
  BY <1>4, FS_RemoveElement
<1>6. Cardinality(Elems(buckets)) - 1 \in Nat
  BY <1>5, FS_CardinalityType
<1> QED BY ONLY <1>1, <1>2, <1>3, <1>5, <1>6

LEMMA ReplaceEffect ==
  ASSUME HashInv, NEW e \in HashElem, NEW ok \in BOOLEAN, HashReplace(e, ok)
  PROVE  /\ Full(buckets', bucket_cnt', elem_cnt', datum) /\ arrays' = 1
         /\ Elems(buckets') = (Elems(buckets) \ {Found(e)}) \cup {e}
<1>1. /\ datum \in Data /\ arrays = 1 /\ Sound(buckets, bucket_cnt, datum) /\ PowerCount(bucket_cnt)
      /\ KeysApart(Elems(buckets), datum) /\ elem_cnt = Cardinality(Elems(buckets))
  BY DEF HashInv, HashReplace, Full
<1>2. IsFiniteSet(Elems(buckets)) /\ elem_cnt \in Nat
  BY <1>1, ElemsFinite
<1> DEFINE Kept(kept, m) ==
        /\ elem_cnt' = m + 1 /\ Rehash(Pushed(kept, e, bucket_cnt), m + 1, ok)
        /\ Sound(kept, bucket_cnt, datum) /\ IsFiniteSet(Elems(kept)) /\ Cardinality(Elems(kept)) = m
        /\ Elems(kept) = Elems(buckets) \ {Found(e)}
        /\ \A f \in Elems(kept) : datum[f].key # datum[e].key
<1>2a. \E kept : \E m \in Nat : Kept(kept, m)
  <2>1. CASE Found(e) = None
    <3>1. /\ elem_cnt' = elem_cnt + 1
          /\ Rehash(Pushed(buckets, e, bucket_cnt), elem_cnt + 1, ok)
      BY <2>1 DEF HashReplace, InsertElem
    <3>2. \A f \in Elems(buckets) : datum[f].key # datum[e].key
      BY <1>1, <2>1, FoundElem
    <3>3. None \notin Elems(buckets)
      BY <1>1, Located, DataAssumption
    <3>4. Elems(buckets) = Elems(buckets) \ {Found(e)}
      BY ONLY <2>1, <3>3
    <3>5. Kept(buckets, elem_cnt)
      BY ONLY <1>1, <1>2, <3>1, <3>2, <3>4
    <3> HIDE DEF Kept
    <3> QED BY <1>2, <3>5
  <2>2. CASE Found(e) # None
    <3>1. PICK kept : kept = RemoveElem(buckets, Found(e))
      OBVIOUS
    <3>2. PICK m \in Nat : m = elem_cnt - 1
      BY <1>1, <2>2, RemoveEffect
    <3>3. elem_cnt' = m + 1 /\ Rehash(Pushed(kept, e, bucket_cnt), m + 1, ok)
      BY <2>2, <3>1, <3>2 DEF HashReplace, InsertElem
    <3>4. /\ Sound(kept, bucket_cnt, datum) /\ IsFiniteSet(Elems(kept)) /\ Cardinality(Elems(kept)) = m
          /\ Elems(kept) = Elems(buckets) \ {Found(e)}
          /\ \A f \in Elems(kept) : datum[f].key # datum[e].key
      BY <1>1, <2>2, <3>1, <3>2, RemoveEffect
    <3>5. Kept(kept, m)
      BY ONLY <3>3, <3>4
    <3> HIDE DEF Kept
    <3> QED BY <3>5
  <2> QED BY <2>1, <2>2
<1>2b. PICK kept : \E m \in Nat : Kept(kept, m)
  BY <1>2a
<1>3. PICK m \in Nat : Kept(kept, m)
  BY <1>2b
<1>4. e \notin Elems(kept)
  BY <1>3
<1>5. PICK b : /\ b = Pushed(kept, e, bucket_cnt) /\ Sound(b, bucket_cnt, datum)
               /\ Elems(b) = Elems(kept) \cup {e}
  BY <1>1, <1>3, <1>4, PushedSound
<1>6. PICK n \in Nat : n = m + 1
  OBVIOUS
<1>7. Rehash(b, n, ok)
  BY <1>3, <1>5, <1>6
<1>8. /\ Sound(buckets', bucket_cnt', datum) /\ PowerCount(bucket_cnt')
      /\ Elems(buckets') = Elems(b) /\ arrays' = 1
  BY ONLY <1>1, <1>5, <1>7, n \in Nat, ok \in BOOLEAN, RehashKeeps
<1>9. KeysApart(Elems(kept) \cup {e}, datum)
  BY <1>1, <1>3 DEF KeysApart
<1>10. Cardinality(Elems(kept) \cup {e}) = m + 1
  BY <1>3, <1>4, FS_AddElement
<1> QED BY ONLY <1>3, <1>5, <1>8, <1>9, <1>10 DEF Full

LEMMA DeleteEffect ==
  ASSUME HashInv, NEW e \in HashElem, NEW ok \in BOOLEAN, HashDelete(e, ok)
  PROVE  /\ Full(buckets', bucket_cnt', elem_cnt', datum) /\ arrays' = 1
         /\ Elems(buckets') = Elems(buckets) \ {Found(e)}
<1>1. /\ datum \in Data /\ arrays = 1 /\ Sound(buckets, bucket_cnt, datum) /\ PowerCount(bucket_cnt)
      /\ KeysApart(Elems(buckets), datum) /\ elem_cnt = Cardinality(Elems(buckets))
  BY DEF HashInv, HashDelete, Full
<1>2. CASE Found(e) = None
  <2>1. buckets' = buckets /\ bucket_cnt' = bucket_cnt /\ elem_cnt' = elem_cnt /\ arrays' = arrays
    BY <1>2 DEF HashDelete
  <2>2. None \notin Elems(buckets)
    BY <1>1, Located, DataAssumption
  <2> QED BY ONLY <1>1, <1>2, <2>1, <2>2 DEF Full
<1>3. CASE Found(e) # None
  <2>1. PICK kept : kept = RemoveElem(buckets, Found(e))
    OBVIOUS
  <2>2. PICK m \in Nat : m = elem_cnt - 1
    BY <1>1, <1>3, RemoveEffect
  <2>3. elem_cnt' = m /\ Rehash(kept, m, ok)
    BY <1>3, <2>1, <2>2 DEF HashDelete
  <2>4. /\ Sound(kept, bucket_cnt, datum) /\ Cardinality(Elems(kept)) = m
        /\ Elems(kept) = Elems(buckets) \ {Found(e)}
    BY <1>1, <1>3, <2>1, <2>2, RemoveEffect
  <2>5. /\ Sound(buckets', bucket_cnt', datum) /\ PowerCount(bucket_cnt')
        /\ Elems(buckets') = Elems(kept) /\ arrays' = 1
    BY ONLY <1>1, <2>3, <2>4, m \in Nat, ok \in BOOLEAN, RehashKeeps
  <2>6. KeysApart(Elems(kept), datum)
    BY <1>1, <2>4 DEF KeysApart
  <2> QED BY ONLY <2>3, <2>4, <2>5, <2>6 DEF Full
<1> QED BY <1>2, <1>3

-----------------------------------------------------------------------------
(* The invariant holds for every step. *)
LEMMA HashStart == HashInitial => HashInv
<1> SUFFICES ASSUME HashInitial PROVE HashInv
  OBVIOUS
<1>1. datum \in Data /\ arrays = 0 /\ iter = <<>> /\ buckets = <<>>
  BY DEF HashInitial, NoTable
<1>2. ~Open
  BY <1>1 DEF Open
<1> QED BY <1>1, <1>2 DEF HashInv

LEMMA UpdatedInv ==
  ASSUME datum \in Data, datum' = datum, arrays' = 1, iter' = <<>>,
         Full(buckets', bucket_cnt', elem_cnt', datum)
  PROVE  HashInv' /\ Open'
<1>1. DOMAIN buckets' # {}
  BY SoundOpen DEF Full
<1>2. Open'
  BY <1>1 DEF Open
<1> QED BY <1>2 DEF HashInv

LEMMA ClosedInv ==
  ASSUME datum \in Data, datum' = datum, arrays' = 0, iter' = <<>>, buckets' = NoTable
  PROVE  HashInv' /\ ~Open'
<1>1. ~Open'
  BY DEF Open, NoTable
<1> QED BY <1>1 DEF HashInv

LEMMA EmptyFull ==
  ASSUME NEW d \in Data, NEW cnt, PowerCount(cnt)
  PROVE  Full(EmptyBuckets(cnt), cnt, 0, d)
<1>1. cnt \in Nat \ {0}
  BY DEF PowerCount
<1>2. Sound(EmptyBuckets(cnt), cnt, d) /\ Elems(EmptyBuckets(cnt)) = {}
  BY <1>1, EmptySound
<1>3. Cardinality({}) = 0
  BY FS_EmptySet
<1> QED BY <1>2, <1>3 DEF Full, KeysApart

LEMMA InitInv ==
  ASSUME HashInv, NEW ok \in BOOLEAN, HashInit(ok)
  PROVE  HashInv'
<1>1. ~Open /\ arrays = 0 /\ iter = <<>> /\ datum \in Data
  BY DEF HashInv, HashInit
<1>2. datum' = datum /\ iter' = <<>> /\ elem_cnt' = 0 /\ bucket_cnt' = MIN_BUCKETS
  BY <1>1 DEF HashInit, Return
<1>3. CASE ok = TRUE
  <2>1. buckets' = EmptyBuckets(MIN_BUCKETS) /\ arrays' = 1
    BY <1>1, <1>3 DEF HashInit
  <2>2. Full(buckets', bucket_cnt', elem_cnt', datum)
    BY <1>1, <1>2, <2>1, EmptyFull, MinPower
  <2> QED BY <1>1, <1>2, <2>1, <2>2, UpdatedInv
<1>4. CASE ok = FALSE
  <2>1. buckets' = NoTable /\ arrays' = 0
    BY <1>1, <1>4 DEF HashInit
  <2> QED BY <1>1, <1>2, <2>1, ClosedInv
<1> QED BY <1>3, <1>4

LEMMA ClearInv ==
  ASSUME HashInv, NEW destructor \in BOOLEAN, HashClear(destructor)
  PROVE  HashInv' /\ Open' /\ Elems(buckets') = {}
<1>1. arrays = 1 /\ PowerCount(bucket_cnt) /\ datum \in Data
  BY DEF HashInv, HashClear, Full
<1>2. /\ datum' = datum /\ iter' = <<>> /\ elem_cnt' = 0 /\ bucket_cnt' = bucket_cnt
      /\ arrays' = arrays /\ buckets' = EmptyBuckets(bucket_cnt)
  BY DEF HashClear, Return
<1>3. Full(buckets', bucket_cnt', elem_cnt', datum)
  BY <1>1, <1>2, EmptyFull
<1>4. Elems(buckets') = {}
  BY <1>1, <1>2, EmptySound DEF PowerCount
<1> QED BY <1>1, <1>2, <1>3, <1>4, UpdatedInv

LEMMA DestroyInv ==
  ASSUME HashInv, NEW destructor \in BOOLEAN, HashDestroy(destructor)
  PROVE  HashInv' /\ ~Open'
<1>1. arrays = 1 /\ datum \in Data
  BY DEF HashInv, HashDestroy
<1>2. datum' = datum /\ iter' = <<>> /\ arrays' = 0 /\ buckets' = NoTable
  BY <1>1 DEF HashDestroy, Return
<1> QED BY <1>1, <1>2, ClosedInv

LEMMA UpdateInv ==
  ASSUME HashInv, NEW e \in HashElem, NEW ok \in BOOLEAN,
         HashInsert(e, ok) \/ HashReplace(e, ok) \/ HashDelete(e, ok)
  PROVE  HashInv' /\ Open'
<1>1. datum \in Data /\ datum' = datum /\ iter' = <<>>
  BY DEF HashInv, HashInsert, HashReplace, HashDelete, Return
<1>2. Full(buckets', bucket_cnt', elem_cnt', datum) /\ arrays' = 1
  BY InsertEffect, ReplaceEffect, DeleteEffect
<1> QED BY <1>1, <1>2, UpdatedInv

(* A step that changes the iterator at most. *)
LEMMA KeptInv ==
  ASSUME HashInv, UNCHANGED <<buckets, bucket_cnt, elem_cnt, arrays, datum>>,
         iter' # <<>> => Open /\ Placed(iter', buckets, bucket_cnt)
  PROVE  HashInv'
<1>1. Open' = Open
  BY DEF Open
<1> QED BY <1>1 DEF HashInv

LEMMA FirstPlaced ==
  ASSUME NEW cnt, NEW b, NEW d, Sound(b, cnt, d)
  PROVE  Placed(<<0, 0>>, b, cnt)
<1>1. cnt \in Nat \ {0} /\ b \in [0 .. cnt - 1 -> Seq(HashElem)]
  BY DEF Sound
<1>2. 0 \in 0 .. cnt - 1
  BY <1>1
<1>3. Len(b[0]) \in Nat
  BY <1>1, <1>2, LenProperties
<1>4. 0 \in 0 .. Len(b[0])
  BY <1>3
<1> QED BY <1>2, <1>4 DEF Placed

-----------------------------------------------------------------------------
(* The iterator: what is ahead of a place is what comes after it, bucket by  *)
(* bucket, and hash_next() goes to the first of it.                          *)
AheadOf(b, cnt, it, e) ==
  \E k \in it[1] .. cnt - 1 : \E i \in DOMAIN b[k] :
    b[k][i] = e /\ (k = it[1] => i > it[2])
LeftOf(b, cnt, it) == {e \in Elems(b) : AheadOf(b, cnt, it, e)}
Later(h, p, k, i) == h > k \/ (h = k /\ p > i)

LEMMA OnePlace ==
  ASSUME NEW cnt, NEW b, NEW d, Sound(b, cnt, d),
         NEW h \in 0 .. cnt - 1, NEW p \in DOMAIN b[h],
         NEW g \in 0 .. cnt - 1, NEW q \in DOMAIN b[g], b[h][p] = b[g][q]
  PROVE  h = g /\ p = q
<1>1. b[h][p] \in Range(b[h]) /\ b[g][q] \in Range(b[g])
  BY DEF Range
<1>2. h = g
  BY <1>1 DEF Sound
<1> QED BY <1>2 DEF Sound, IsInjective

LEMMA Places ==
  ASSUME NEW cnt, NEW b, NEW d, Sound(b, cnt, d)
  PROVE  /\ cnt \in Nat
         /\ \A e \in Elems(b) : \E h \in 0 .. cnt - 1 : \E p \in DOMAIN b[h] : b[h][p] = e
         /\ \A h \in 0 .. cnt - 1 : /\ Len(b[h]) \in Nat /\ DOMAIN b[h] = 1 .. Len(b[h])
                                    /\ b[h] \in Seq(HashElem)
                                    /\ \A p \in DOMAIN b[h] : b[h][p] \in Elems(b)
<1>1. cnt \in Nat /\ b \in [0 .. cnt - 1 -> Seq(HashElem)]
  BY DEF Sound
<1>2. DOMAIN b = 0 .. cnt - 1
  BY <1>1
<1>3. \A e \in Elems(b) : \E h \in 0 .. cnt - 1 : \E p \in DOMAIN b[h] : b[h][p] = e
  BY <1>2 DEF Elems, Range
<1>4. ASSUME NEW h \in 0 .. cnt - 1
      PROVE  /\ Len(b[h]) \in Nat /\ DOMAIN b[h] = 1 .. Len(b[h])
             /\ b[h] \in Seq(HashElem)
             /\ \A p \in DOMAIN b[h] : b[h][p] \in Elems(b)
  <2>1. \A p \in DOMAIN b[h] : b[h][p] \in Elems(b)
    BY <1>2 DEF Elems, Range
  <2>2. b[h] \in Seq(HashElem)
    BY <1>1
  <2> QED BY <2>1, <2>2, LenProperties
<1> QED BY <1>1, <1>3, <1>4

LEMMA AheadPlace ==
  ASSUME NEW cnt, NEW b, NEW d, Sound(b, cnt, d),
         NEW k \in 0 .. cnt - 1, NEW i \in Nat,
         NEW h \in 0 .. cnt - 1, NEW p \in DOMAIN b[h]
  PROVE  b[h][p] \in LeftOf(b, cnt, <<k, i>>) <=> Later(h, p, k, i)
<1>1. cnt \in Nat /\ b[h][p] \in Elems(b)
  BY Places
<1>2. p \in Nat
  BY Places
<1>3. ASSUME b[h][p] \in LeftOf(b, cnt, <<k, i>>) PROVE Later(h, p, k, i)
  <2>1. PICK g \in k .. cnt - 1 : \E q \in DOMAIN b[g] : b[g][q] = b[h][p] /\ (g = k => q > i)
    BY <1>3 DEF LeftOf, AheadOf
  <2>2. PICK q \in DOMAIN b[g] : b[g][q] = b[h][p] /\ (g = k => q > i)
    BY <2>1
  <2>3. g \in 0 .. cnt - 1
    BY <1>1
  <2>4. h = g /\ p = q
    BY <2>2, <2>3, OnePlace
  <2> QED BY <1>1, <2>2, <2>4 DEF Later
<1>4. ASSUME Later(h, p, k, i) PROVE b[h][p] \in LeftOf(b, cnt, <<k, i>>)
  <2>1. h \in k .. cnt - 1 /\ (h = k => p > i)
    BY <1>1, <1>2, <1>4 DEF Later
  <2>2. AheadOf(b, cnt, <<k, i>>, b[h][p])
    BY <2>1 DEF AheadOf
  <2> QED BY <1>1, <2>2 DEF LeftOf
<1> QED BY <1>3, <1>4

LEMMA NextInLine ==
  ASSUME NEW cnt, NEW b, NEW d, Sound(b, cnt, d),
         NEW k \in 0 .. cnt - 1, NEW i \in Nat,
         NEW m \in 0 .. cnt - 1, NEW j \in DOMAIN b[m],
         \A h \in 0 .. cnt - 1 : \A p \in DOMAIN b[h] :
           Later(h, p, k, i) <=> Later(h, p, m, j) \/ (h = m /\ p = j)
  PROVE  /\ b[m][j] \in LeftOf(b, cnt, <<k, i>>)
         /\ LeftOf(b, cnt, <<m, j>>) = LeftOf(b, cnt, <<k, i>>) \ {b[m][j]}
<1>1. j \in Nat /\ cnt \in Nat
  BY Places
<1>2. b[m][j] \in LeftOf(b, cnt, <<k, i>>)
  BY AheadPlace
<1>3. ASSUME NEW h \in 0 .. cnt - 1, NEW p \in DOMAIN b[h]
      PROVE  b[h][p] \in LeftOf(b, cnt, <<m, j>>)
               <=> b[h][p] \in LeftOf(b, cnt, <<k, i>>) /\ b[h][p] # b[m][j]
  <2>1. b[h][p] \in LeftOf(b, cnt, <<m, j>>) <=> Later(h, p, m, j)
    BY <1>1, AheadPlace
  <2>2. b[h][p] \in LeftOf(b, cnt, <<k, i>>) <=> Later(h, p, k, i)
    BY AheadPlace
  <2>3. b[h][p] = b[m][j] <=> h = m /\ p = j
    BY OnePlace
  <2>4. p \in Nat
    BY Places
  <2>5. Later(h, p, m, j) => ~ (h = m /\ p = j)
    BY <1>1, <2>4 DEF Later
  <2> QED BY ONLY <2>1, <2>2, <2>3, <2>5, Later(h, p, k, i) <=> Later(h, p, m, j) \/ (h = m /\ p = j)
<1>4. \A it : LeftOf(b, cnt, it) \subseteq Elems(b)
  BY DEF LeftOf
<1>5. \A e \in Elems(b) : \E h \in 0 .. cnt - 1 : \E p \in DOMAIN b[h] : b[h][p] = e
  BY Places
<1>6. ASSUME NEW e
      PROVE  e \in LeftOf(b, cnt, <<m, j>>)
               <=> e \in LeftOf(b, cnt, <<k, i>>) /\ e # b[m][j]
  BY ONLY <1>3, <1>4, <1>5
<1> QED BY <1>2, <1>6

LEMMA NextStep ==
  ASSUME NEW d, Sound(buckets, bucket_cnt, d), Placed(iter, buckets, bucket_cnt)
  PROVE  \/ NextPlace(iter) = <<>> /\ LeftOf(buckets, bucket_cnt, iter) = {}
         \/ \E m \in 0 .. bucket_cnt - 1 : \E j \in DOMAIN buckets[m] :
              /\ NextPlace(iter) = <<m, j>>
              /\ buckets[m][j] \in LeftOf(buckets, bucket_cnt, iter)
              /\ LeftOf(buckets, bucket_cnt, <<m, j>>)
                   = LeftOf(buckets, bucket_cnt, iter) \ {buckets[m][j]}
<1>1. PICK k \in 0 .. bucket_cnt - 1 : \E i \in 0 .. Len(buckets[k]) : iter = <<k, i>>
  BY DEF Placed
<1>2. PICK i \in 0 .. Len(buckets[k]) : iter = <<k, i>>
  BY <1>1
<1>3. PICK n \in Nat : n = Len(buckets[k]) /\ DOMAIN buckets[k] = 1 .. n
  BY Places
<1>4. bucket_cnt \in Nat /\ k \in Nat /\ i \in Nat /\ i <= n
  BY <1>3, Places
<1> DEFINE later == {b \in k + 1 .. bucket_cnt - 1 : buckets[b] # <<>>}
<1>5. NextPlace(iter) = IF i < n THEN <<k, i + 1>>
                        ELSE IF later = {} THEN <<>> ELSE <<Min(later), 1>>
  BY <1>2, <1>3 DEF NextPlace
<1>6. \A h \in 0 .. bucket_cnt - 1 : DOMAIN buckets[h] \subseteq Nat \ {0}
  BY Places
<1>7. \A h \in k + 1 .. bucket_cnt - 1 : \A p \in DOMAIN buckets[h] : h \in later
  <2>1. ASSUME NEW h \in k + 1 .. bucket_cnt - 1, NEW p \in DOMAIN buckets[h]
        PROVE  buckets[h] # <<>>
    <3>1. h \in 0 .. bucket_cnt - 1
      BY <1>4
    <3>2. buckets[h] \in Seq(HashElem) /\ DOMAIN buckets[h] = 1 .. Len(buckets[h])
      BY <3>1, Places
    <3>3. Len(<<>>) = 0 /\ 1 .. 0 = {}
      OBVIOUS
    <3> QED BY <3>2, <3>3
  <2> QED BY <2>1
<1>8. CASE i < n
  <2>1. PICK j \in DOMAIN buckets[k] : j = i + 1
    BY <1>3, <1>4, <1>8
  <2>2. \A h \in 0 .. bucket_cnt - 1 : \A p \in DOMAIN buckets[h] :
          Later(h, p, k, i) <=> Later(h, p, k, j) \/ (h = k /\ p = j)
    BY <1>4, <1>6, <2>1 DEF Later
  <2>3. /\ buckets[k][j] \in LeftOf(buckets, bucket_cnt, <<k, i>>)
        /\ LeftOf(buckets, bucket_cnt, <<k, j>>)
             = LeftOf(buckets, bucket_cnt, <<k, i>>) \ {buckets[k][j]}
    <3>1. i \in Nat
      BY <1>4
    <3> QED BY ONLY <2>2, <3>1, Sound(buckets, bucket_cnt, d), k \in 0 .. bucket_cnt - 1,
                    j \in DOMAIN buckets[k], NextInLine
  <2>4. NextPlace(iter) = <<k, j>>
    BY <1>5, <1>8, <2>1
  <2> QED BY ONLY <1>2, <2>3, <2>4, k \in 0 .. bucket_cnt - 1, j \in DOMAIN buckets[k]
<1>9. CASE ~ (i < n) /\ later = {}
  <2>1. NextPlace(iter) = <<>>
    BY <1>5, <1>9
  <2>2. ASSUME NEW e \in LeftOf(buckets, bucket_cnt, <<k, i>>) PROVE FALSE
    <3>1. e \in Elems(buckets)
      BY DEF LeftOf
    <3>2. PICK h \in 0 .. bucket_cnt - 1 : \E p \in DOMAIN buckets[h] : buckets[h][p] = e
      BY <3>1, Places
    <3>3. PICK p \in DOMAIN buckets[h] : buckets[h][p] = e
      BY <3>2
    <3>4. Later(h, p, k, i)
      BY <1>4, <2>2, <3>3, AheadPlace
    <3>5. p \in Nat /\ h \in Nat
      BY <1>6
    <3>6. h = k => p <= n
      BY <1>3
    <3>7. h \in k + 1 .. bucket_cnt - 1
      BY <1>4, <1>9, <3>4, <3>5, <3>6 DEF Later
    <3> QED BY <1>7, <1>9, <3>7
  <2> QED BY <1>2, <2>1, <2>2
<1>10. CASE ~ (i < n) /\ later # {}
  <2>1. later \in SUBSET Nat
    BY <1>4
  <2>2. Min(later) \in later /\ \A y \in later : Min(later) <= y
    <3> HIDE DEF later
    <3> QED BY <1>10, <2>1, LeastNatural
  <2>3. PICK m \in 0 .. bucket_cnt - 1 : m = Min(later) /\ m > k /\ buckets[m] # <<>>
    <3>1. PICK m : m = Min(later)
      OBVIOUS
    <3>2. m \in later
      BY <2>2, <3>1
    <3>3. m \in k + 1 .. bucket_cnt - 1 /\ buckets[m] # <<>>
      BY <3>2
    <3>4. m \in 0 .. bucket_cnt - 1 /\ m > k
      BY <1>4, <3>3
    <3> QED BY <3>1, <3>3, <3>4
  <2>4. PICK j \in DOMAIN buckets[m] : j = 1
    <3>1. buckets[m] \in Seq(HashElem) /\ DOMAIN buckets[m] = 1 .. Len(buckets[m])
          /\ Len(buckets[m]) \in Nat
      BY Places
    <3>2. Len(buckets[m]) # 0
      BY <2>3, <3>1, EmptySeq
    <3> QED BY <3>1, <3>2
  <2>5. ASSUME NEW h \in 0 .. bucket_cnt - 1, NEW p \in DOMAIN buckets[h]
        PROVE  Later(h, p, k, i) <=> Later(h, p, m, j) \/ (h = m /\ p = j)
    <3>1. p \in Nat \ {0} /\ h \in Nat /\ m \in Nat
      BY <1>6
    <3>2. h = k => p <= n
      BY <1>3
    <3>3. h > k => m <= h
      <4>1. h > k => h \in later
        <5>1. h > k => h \in k + 1 .. bucket_cnt - 1
          BY <1>4
        <5> HIDE DEF later
        <5> QED BY <1>7, <5>1
      <4> HIDE DEF later
      <4> QED BY <2>2, <2>3, <4>1
    <3> HIDE DEF later
    <3> QED BY ONLY <1>4, <1>10, <2>3, <2>4, <3>1, <3>2, <3>3, n \in Nat DEF Later
  <2>6. /\ buckets[m][j] \in LeftOf(buckets, bucket_cnt, <<k, i>>)
        /\ LeftOf(buckets, bucket_cnt, <<m, j>>)
             = LeftOf(buckets, bucket_cnt, <<k, i>>) \ {buckets[m][j]}
    BY <1>4, <2>5, NextInLine
  <2>7. NextPlace(iter) = <<m, j>>
    BY <1>5, <1>10, <2>3, <2>4
  <2> QED BY ONLY <1>2, <2>6, <2>7, m \in 0 .. bucket_cnt - 1, j \in DOMAIN buckets[m]
<1> QED BY <1>8, <1>9, <1>10

LEMMA NextInv ==
  ASSUME HashInv, HashNext
  PROVE  HashInv'
<1>1. /\ Open /\ Sound(buckets, bucket_cnt, datum) /\ Placed(iter, buckets, bucket_cnt)
      /\ UNCHANGED <<buckets, bucket_cnt, elem_cnt, arrays, datum>> /\ iter' = NextPlace(iter)
  BY DEF HashInv, Full, HashNext, Return
<1>2. ASSUME iter' # <<>> PROVE Placed(iter', buckets, bucket_cnt)
  <2>1. PICK m \in 0 .. bucket_cnt - 1 : \E j \in DOMAIN buckets[m] : NextPlace(iter) = <<m, j>>
    BY <1>1, <1>2, NextStep
  <2>2. PICK j \in DOMAIN buckets[m] : NextPlace(iter) = <<m, j>>
    BY <2>1
  <2>3. j \in 0 .. Len(buckets[m])
    BY <1>1, Places
  <2> QED BY <1>1, <2>2, <2>3 DEF Placed
<1> QED BY <1>1, <1>2, KeptInv

LEMMA HashInductive == HashInv /\ [HashStep]_hvars => HashInv'
<1> SUFFICES ASSUME HashInv, [HashStep]_hvars PROVE HashInv'
  OBVIOUS
<1>1. ASSUME NEW ok \in BOOLEAN, HashInit(ok) PROVE HashInv'
  BY <1>1, InitInv
<1>2. ASSUME NEW ok \in BOOLEAN, NEW e \in HashElem,
             HashInsert(e, ok) \/ HashReplace(e, ok) \/ HashDelete(e, ok)
      PROVE  HashInv'
  BY <1>2, UpdateInv
<1>3. ASSUME NEW destructor \in BOOLEAN, HashClear(destructor) PROVE HashInv'
  BY <1>3, ClearInv
<1>4. ASSUME NEW destructor \in BOOLEAN, HashDestroy(destructor) PROVE HashInv'
  BY <1>4, DestroyInv
<1>5. ASSUME NEW e \in HashElem, HashFind(e) PROVE HashInv'
  BY <1>5, KeptInv DEF HashFind, Return, HashInv
<1>6. CASE HashApply
  BY <1>6, KeptInv DEF HashApply, Return, HashInv
<1>7. CASE HashSize
  BY <1>7, KeptInv DEF HashSize, Return, HashInv
<1>8. CASE HashFirst
  <2>1. /\ Open /\ Sound(buckets, bucket_cnt, datum) /\ iter' = <<0, 0>>
        /\ UNCHANGED <<buckets, bucket_cnt, elem_cnt, arrays, datum>>
    BY <1>8 DEF HashFirst, Return, HashInv, Full
  <2> QED BY <2>1, FirstPlaced, KeptInv
<1>9. CASE HashNext
  BY <1>9, NextInv
<1>10. CASE UNCHANGED hvars
  <2>1. iter' = iter /\ UNCHANGED <<buckets, bucket_cnt, elem_cnt, arrays, datum>>
    BY <1>10 DEF hvars
  <2> QED BY <2>1, KeptInv DEF HashInv
<1> QED BY <1>1, <1>2, <1>3, <1>4, <1>5, <1>6, <1>7, <1>8, <1>9, <1>10 DEF HashStep

-----------------------------------------------------------------------------
LEMMA ExactState == HashInv => TableExact
<1> SUFFICES ASSUME HashInv PROVE TableExact
  OBVIOUS
<1>1. arrays = IF Open THEN 1 ELSE 0
  BY DEF HashInv
<1>2. ASSUME Open
      PROVE  /\ DOMAIN buckets = 0 .. bucket_cnt - 1
             /\ \E i \in 0 .. bucket_cnt : bucket_cnt = MIN_BUCKETS * 2^i
             /\ elem_cnt = Len(Traversal(buckets))
             /\ \A b \in DOMAIN buckets : \A e \in Range(buckets[b]) : BucketIdx(e, bucket_cnt) = b
  <2>1. /\ datum \in Data /\ Sound(buckets, bucket_cnt, datum) /\ PowerCount(bucket_cnt)
        /\ elem_cnt = Cardinality(Elems(buckets))
    BY <1>2 DEF HashInv, Full
  <2>2. DOMAIN buckets = 0 .. bucket_cnt - 1
    BY <2>1 DEF Sound
  <2>3. \E i \in 0 .. bucket_cnt : bucket_cnt = MIN_BUCKETS * 2^i
    BY <2>1 DEF PowerCount
  <2>4. PICK s \in Seq(HashElem) : /\ s = Traversal(buckets) /\ IsInjective(s)
                                   /\ Range(s) = Elems(buckets)
    BY <2>1, Traversed
  <2>5. Cardinality(Range(s)) = Len(s)
    BY <2>4, CountDistinct
  <2>6. \A b \in 0 .. bucket_cnt - 1 : \A e \in Range(buckets[b]) : Home(datum, e, bucket_cnt) = b
    BY <2>1 DEF Sound
  <2>7. \A b \in DOMAIN buckets : \A e \in Range(buckets[b]) : BucketIdx(e, bucket_cnt) = b
    BY <2>2, <2>6 DEF Home, BucketIdx
  <2> QED BY ONLY <2>1, <2>2, <2>3, <2>4, <2>5, <2>7
<1> QED BY <1>1, <1>2 DEF TableExact

LEMMA HashAlways == HashSpec => []HashInv
BY HashStart, HashInductive, PTL DEF HashSpec

(* The table of hash.c stays exact, however many elements, keys and hash      *)
(* values there are: hash_insert(), hash_replace() and hash_delete() keep     *)
(* every element where find_bucket() looks for it, the count rehash() decides *)
(* by and the one array, whichever malloc() of rehash() fails.                *)
THEOREM TableStaysExact == HashSpec => []TableExact
BY HashAlways, ExactState, PTL

-----------------------------------------------------------------------------
(* The refinement.  In a table with one element per key, the elements equal  *)
(* to E are the one that find_elem() finds, or none.                         *)
LEMMA MembersElems == Members = Elems(buckets) /\ Members' = Elems(buckets')
BY DEF Members, Elems

LEMMA LeftLeftOf ==
  /\ Left = IF iter = <<>> THEN None ELSE LeftOf(buckets, bucket_cnt, iter)
  /\ Left' = IF iter' = <<>> THEN None ELSE LeftOf(buckets', bucket_cnt', iter')
BY MembersElems DEF Left, LeftOf, Ahead, AheadOf

LEMMA MatchFound ==
  ASSUME HashInv, Open, NEW e \in HashElem
  PROVE  /\ D!Match(e) = Found(e)
         /\ Found(e) = None => D!Equal(e) = {}
         /\ Found(e) # None => D!Equal(e) = {Found(e)}
<1>1. datum \in Data /\ Sound(buckets, bucket_cnt, datum) /\ KeysApart(Elems(buckets), datum)
  BY DEF HashInv, Full
<1>2. D!Equal(e) = {f \in Elems(buckets) : datum[f].key = datum[e].key}
  BY MembersElems DEF D!Equal
<1>3. CASE Found(e) = None
  <2>1. D!Equal(e) = {}
    BY <1>1, <1>2, <1>3, FoundElem
  <2> QED BY <1>3, <2>1 DEF D!Match
<1>4. CASE Found(e) # None
  <2>1. Found(e) \in Elems(buckets) /\ datum[Found(e)].key = datum[e].key
    BY <1>1, <1>4, FoundElem
  <2>2. D!Equal(e) = {Found(e)}
    BY <1>1, <1>2, <2>1 DEF KeysApart
  <2>3. (CHOOSE f \in {Found(e)} : TRUE) = Found(e)
    OBVIOUS
  <2>4. D!Match(e) = Found(e)
    BY <2>2, <2>3 DEF D!Match
  <2> QED BY <1>4, <2>2, <2>4
<1> QED BY <1>3, <1>4

LEMMA SameCardinality == \A S : D!Cardinality(S) = Cardinality(S)
BY Zenon DEF Cardinality, D!Cardinality

LEMMA TraversalVisits ==
  ASSUME HashInv, Open
  PROVE  D!Visits(Traversal(buckets), Members)
<1>1. datum \in Data /\ Sound(buckets, bucket_cnt, datum)
  BY DEF HashInv, Full
<1>2. PICK s \in Seq(HashElem) : /\ s = Traversal(buckets) /\ IsInjective(s)
                                 /\ Range(s) = Elems(buckets)
  BY <1>1, Traversed
<1>3. Cardinality(Range(s)) = Len(s)
  BY <1>2, CountDistinct
<1>4. D!Cardinality(Elems(buckets)) = Cardinality(Elems(buckets))
  BY SameCardinality
<1> QED BY <1>2, <1>3, <1>4, MembersElems DEF D!Visits, Range, D!Range

LEMMA LeftSet ==
  ASSUME HashInv, Open, iter # <<>>
  PROVE  /\ Left = LeftOf(buckets, bucket_cnt, iter) /\ Left # None
         /\ Left \in SUBSET HashElem
<1>1. Left = LeftOf(buckets, bucket_cnt, iter)
  BY LeftLeftOf
<1>2. Elems(buckets) \subseteq HashElem
  BY Located DEF HashInv, Full
<1>3. Left \in SUBSET HashElem
  BY <1>1, <1>2 DEF LeftOf
<1> QED BY <1>1, <1>3, DataAssumption

LEMMA DictStart == HashInitial => D!DictInit
<1> SUFFICES ASSUME HashInitial PROVE D!DictInit
  OBVIOUS
<1>1. buckets = <<>> /\ iter = <<>> /\ hcall = [op |-> "none", result |-> None]
  BY DEF HashInitial, NoTable
<1>2. ~Open
  BY <1>1 DEF Open
<1>3. Members = {}
  BY <1>1 DEF Members
<1>4. Left = None
  BY <1>1 DEF Left
<1> QED BY <1>1, <1>2, <1>3, <1>4 DEF D!DictInit

LEMMA CreateStep ==
  ASSUME HashInv, HashInv', NEW ok \in BOOLEAN, HashInit(ok)
  PROVE  D!Create(ok)
<1>1. ~Open /\ iter = <<>> /\ datum \in Data
  BY DEF HashInv, HashInit
<1>2. iter' = <<>> /\ hcall' = [op |-> "init", result |-> ok]
  BY <1>1 DEF HashInit, Return
<1>3. Left = None /\ Left' = None
  BY <1>1, <1>2, LeftLeftOf
<1>4. Elems(buckets) = {}
  BY <1>1 DEF Open, Elems
<1>5. Elems(buckets') = {} /\ (DOMAIN buckets' # {}) = ok
  <2>1. CASE ok = TRUE
    <3>1. buckets' = EmptyBuckets(MIN_BUCKETS)
      BY <2>1 DEF HashInit
    <3>2. /\ Sound(EmptyBuckets(MIN_BUCKETS), MIN_BUCKETS, datum)
          /\ Elems(EmptyBuckets(MIN_BUCKETS)) = {}
      BY <1>1, EmptySound, MinPower
    <3>3. DOMAIN EmptyBuckets(MIN_BUCKETS) # {}
      BY <3>2, SoundOpen
    <3> QED BY <2>1, <3>1, <3>2, <3>3
  <2>2. CASE ok = FALSE
    <3>1. DOMAIN buckets' = {}
      BY <2>2 DEF HashInit, NoTable
    <3> QED BY <2>2, <3>1 DEF Elems
  <2> QED BY <2>1, <2>2
<1>6. Open' = ok
  BY <1>5 DEF Open
<1> QED BY <1>1, <1>2, <1>3, <1>4, <1>5, <1>6, MembersElems DEF D!Create, D!Reply

LEMMA InsertStep ==
  ASSUME HashInv, NEW e \in HashElem, NEW ok \in BOOLEAN, HashInsert(e, ok)
  PROVE  D!Insert(e)
<1>1. Open /\ Open' /\ iter' = <<>> /\ hcall' = [op |-> "insert", result |-> Found(e)]
  BY UpdateInv DEF HashInsert, Return
<1>2. Left' = None
  BY <1>1, LeftLeftOf
<1>3. Elems(buckets') = IF Found(e) = None THEN Elems(buckets) \cup {e} ELSE Elems(buckets)
  BY InsertEffect
<1>4. /\ D!Match(e) = Found(e)
      /\ Found(e) = None => D!Equal(e) = {}
      /\ Found(e) # None => D!Equal(e) = {Found(e)}
  BY <1>1, MatchFound
<1>5. Members' = IF D!Equal(e) = {} THEN Members \cup {e} ELSE Members
  BY <1>3, <1>4, MembersElems
<1> QED BY <1>1, <1>2, <1>4, <1>5 DEF D!Insert, D!Update, D!Reply

LEMMA ReplaceStep ==
  ASSUME HashInv, NEW e \in HashElem, NEW ok \in BOOLEAN, HashReplace(e, ok)
  PROVE  D!Replace(e)
<1>1. Open /\ Open' /\ iter' = <<>> /\ hcall' = [op |-> "replace", result |-> Found(e)]
  BY UpdateInv DEF HashReplace, Return
<1>2. Left' = None
  BY <1>1, LeftLeftOf
<1>3. Elems(buckets') = (Elems(buckets) \ {Found(e)}) \cup {e}
  BY ReplaceEffect
<1>4. /\ D!Match(e) = Found(e)
      /\ Found(e) = None => D!Equal(e) = {}
      /\ Found(e) # None => D!Equal(e) = {Found(e)}
  BY <1>1, MatchFound
<1>5. None \notin Elems(buckets)
  BY <1>1, Located, DataAssumption DEF HashInv, Full
<1>6. Members' = (Members \ D!Equal(e)) \cup {e}
  BY <1>3, <1>4, <1>5, MembersElems
<1> QED BY <1>1, <1>2, <1>4, <1>6 DEF D!Replace, D!Update, D!Reply

LEMMA DeleteStep ==
  ASSUME HashInv, NEW e \in HashElem, NEW ok \in BOOLEAN, HashDelete(e, ok)
  PROVE  D!Delete(e)
<1>1. Open /\ Open' /\ iter' = <<>> /\ hcall' = [op |-> "delete", result |-> Found(e)]
  BY UpdateInv DEF HashDelete, Return
<1>2. Left' = None
  BY <1>1, LeftLeftOf
<1>3. Elems(buckets') = Elems(buckets) \ {Found(e)}
  BY DeleteEffect
<1>4. /\ D!Match(e) = Found(e)
      /\ Found(e) = None => D!Equal(e) = {}
      /\ Found(e) # None => D!Equal(e) = {Found(e)}
  BY <1>1, MatchFound
<1>5. None \notin Elems(buckets)
  BY <1>1, Located, DataAssumption DEF HashInv, Full
<1>6. Members' = Members \ D!Equal(e)
  BY <1>3, <1>4, <1>5, MembersElems
<1> QED BY <1>1, <1>2, <1>4, <1>6 DEF D!Delete, D!Update, D!Reply

LEMMA ClearStep ==
  ASSUME HashInv, NEW destructor \in BOOLEAN, HashClear(destructor)
  PROVE  D!Clear(destructor)
<1>1. Open /\ Open' /\ iter' = <<>> /\ Elems(buckets') = {}
  BY ClearInv DEF HashClear
<1>2. hcall' = [op |-> IF destructor THEN "clear_all" ELSE "clear",
                result |-> Destroyed(destructor)]
  BY DEF HashClear, Return
<1>3. Left' = None /\ Members' = {}
  BY <1>1, LeftLeftOf, MembersElems
<1>4. D!Destroyed(<<"clear", "clear_all">>, destructor)
  BY <1>1, <1>2, TraversalVisits DEF D!Destroyed, Destroyed
<1> QED BY <1>1, <1>3, <1>4 DEF D!Clear, D!Update

LEMMA DestroyStep ==
  ASSUME HashInv, NEW destructor \in BOOLEAN, HashDestroy(destructor)
  PROVE  D!Destroy(destructor)
<1>1. Open /\ ~Open' /\ iter' = <<>>
  BY DestroyInv DEF HashDestroy
<1>2. hcall' = [op |-> IF destructor THEN "destroy_all" ELSE "destroy",
                result |-> Destroyed(destructor)]
  BY DEF HashDestroy, Return
<1>3. Left' = None /\ Members' = {}
  <2>1. DOMAIN buckets' = {}
    BY DEF HashDestroy, NoTable
  <2> QED BY <1>1, <2>1, LeftLeftOf, MembersElems DEF Elems
<1>4. D!Destroyed(<<"destroy", "destroy_all">>, destructor)
  BY <1>1, <1>2, TraversalVisits DEF D!Destroyed, Destroyed
<1> QED BY <1>1, <1>3, <1>4 DEF D!Destroy

LEMMA TableKept ==
  ASSUME UNCHANGED <<buckets, bucket_cnt>>
  PROVE  /\ Open' = Open /\ Members' = Members
         /\ iter' = iter => Left' = Left
<1>1. Open' = Open
  BY DEF Open
<1>2. Members' = Members
  BY MembersElems
<1>3. iter' = iter => Left' = Left
  BY LeftLeftOf
<1> QED BY <1>1, <1>2, <1>3

LEMMA QueryStep ==
  ASSUME HashInv, (\E e \in HashElem : HashFind(e)) \/ HashApply \/ HashSize
  PROVE  D!DictStep
<1>1. /\ Open /\ UNCHANGED <<buckets, bucket_cnt, iter>>
  BY DEF HashFind, HashApply, HashSize
<1>2. D!Keep /\ Left' = Left
  BY <1>1, TableKept DEF D!Keep
<1>3. ASSUME NEW e \in HashElem, HashFind(e) PROVE D!DictStep
  <2>1. D!Match(e) = Found(e)
    BY <1>1, MatchFound
  <2>2. D!Find(e)
    BY <1>2, <1>3, <2>1 DEF D!Find, D!Reply, HashFind, Return
  <2> QED BY <2>2 DEF D!DictStep
<1>4. CASE HashApply
  <2>1. hcall'.op = "apply" /\ hcall'.result = Traversal(buckets)
    BY <1>4 DEF HashApply, Return
  <2>2. D!Apply
    BY <1>1, <1>2, <2>1, TraversalVisits DEF D!Apply
  <2> QED BY <2>2 DEF D!DictStep
<1>5. CASE HashSize
  <2>1. elem_cnt = Cardinality(Elems(buckets))
    BY <1>1 DEF HashInv, Full
  <2>2. elem_cnt = D!Cardinality(Members)
    BY <2>1, SameCardinality, MembersElems
  <2>3. D!Size
    BY <1>2, <1>5, <2>2 DEF D!Size, D!Reply, HashSize, Return
  <2> QED BY <2>3 DEF D!DictStep
<1> QED BY <1>3, <1>4, <1>5

LEMMA FirstStep ==
  ASSUME HashInv, HashFirst
  PROVE  D!First
<1>1. /\ Open /\ iter' = <<0, 0>> /\ UNCHANGED <<buckets, bucket_cnt>>
      /\ hcall' = [op |-> "first", result |-> None]
  BY DEF HashFirst, Return
<1>2. Sound(buckets, bucket_cnt, datum)
  BY <1>1 DEF HashInv, Full
<1>3. bucket_cnt \in Nat /\ 0 \in 0 .. bucket_cnt - 1
  BY <1>2 DEF Sound
<1>4. ASSUME NEW e \in Elems(buckets) PROVE e \in LeftOf(buckets, bucket_cnt, <<0, 0>>)
  <2>1. PICK h \in 0 .. bucket_cnt - 1 : \E p \in DOMAIN buckets[h] : buckets[h][p] = e
    BY <1>2, Places
  <2>2. PICK p \in DOMAIN buckets[h] : buckets[h][p] = e
    BY <2>1
  <2>3. p \in Nat /\ p >= 1
    BY <1>2, Places
  <2>4. Later(h, p, 0, 0)
    BY <1>3, <2>3 DEF Later
  <2>5. PICK k \in 0 .. bucket_cnt - 1, i \in Nat : k = 0 /\ i = 0
    BY <1>3
  <2>6. buckets[h][p] \in LeftOf(buckets, bucket_cnt, <<k, i>>)
    BY <1>2, <2>4, <2>5, AheadPlace
  <2> QED BY <2>2, <2>5, <2>6
<1>5. LeftOf(buckets, bucket_cnt, <<0, 0>>) = Elems(buckets)
  BY <1>4 DEF LeftOf
<1>6. Left' = Members
  BY <1>1, <1>5, LeftLeftOf, MembersElems
<1>7. D!Keep
  BY <1>1, TableKept DEF D!Keep
<1> QED BY <1>1, <1>6, <1>7 DEF D!First, D!Reply

LEMMA AdvanceStep ==
  ASSUME HashInv, HashNext
  PROVE  D!Advance
<1>1. /\ Open /\ iter # <<>> /\ Sound(buckets, bucket_cnt, datum)
      /\ Placed(iter, buckets, bucket_cnt)
      /\ UNCHANGED <<buckets, bucket_cnt>> /\ iter' = NextPlace(iter)
      /\ hcall' = [op |-> "next",
                   result |-> IF NextPlace(iter) = <<>> THEN None
                              ELSE buckets[NextPlace(iter)[1]][NextPlace(iter)[2]]]
  BY DEF HashInv, Full, HashNext, Return
<1>2. D!Keep
  BY <1>1, TableKept DEF D!Keep
<1>3. Left = LeftOf(buckets, bucket_cnt, iter) /\ Left # None
  BY <1>1, LeftSet
<1>4. CASE NextPlace(iter) = <<>> /\ LeftOf(buckets, bucket_cnt, iter) = {}
  <2>1. Left' = None
    BY <1>1, <1>4, LeftLeftOf
  <2>2. hcall' = [op |-> "next", result |-> None]
    BY <1>1, <1>4
  <2> QED BY <1>2, <1>3, <1>4, <2>1, <2>2 DEF D!Advance, D!Reply
<1>5. ASSUME NEW m \in 0 .. bucket_cnt - 1, NEW j \in DOMAIN buckets[m],
             NextPlace(iter) = <<m, j>>,
             buckets[m][j] \in LeftOf(buckets, bucket_cnt, iter),
             LeftOf(buckets, bucket_cnt, <<m, j>>)
               = LeftOf(buckets, bucket_cnt, iter) \ {buckets[m][j]}
      PROVE  D!Advance
  <2>1. <<m, j>> # <<>>
    OBVIOUS
  <2>2. hcall' = [op |-> "next", result |-> buckets[m][j]]
    BY <1>1, <1>5, <2>1
  <2>3. Left' = LeftOf(buckets, bucket_cnt, <<m, j>>)
    BY <1>1, <1>5, <2>1, LeftLeftOf
  <2>4. PICK e \in Left : e = buckets[m][j] /\ Left' = Left \ {e}
    BY ONLY <1>3, <1>5, <2>3
  <2> QED BY <1>2, <1>3, <2>2, <2>4 DEF D!Advance, D!Reply
<1> QED BY <1>1, <1>4, <1>5, NextStep

LEMMA DictSimulation ==
  HashInv /\ HashInv' /\ [HashStep]_hvars
    => [D!DictStep /\ UNCHANGED datum]_<<Open, Members, Left, datum, hcall>>
<1> SUFFICES ASSUME HashInv, HashInv', [HashStep]_hvars
             PROVE  (D!DictStep /\ UNCHANGED datum) \/ UNCHANGED <<Open, Members, Left, datum, hcall>>
  OBVIOUS
<1>1. CASE HashStep
  <2>1. datum' = datum
    BY <1>1 DEF HashStep, HashInit, HashInsert, HashReplace, HashDelete, HashClear,
                HashDestroy, HashFind, HashApply, HashSize, HashFirst, HashNext, Return
  <2>2. ASSUME NEW ok \in BOOLEAN, HashInit(ok) PROVE D!DictStep
    BY <2>2, CreateStep DEF D!DictStep
  <2>3. ASSUME NEW ok \in BOOLEAN, NEW e \in HashElem, HashInsert(e, ok) PROVE D!DictStep
    BY <2>3, InsertStep DEF D!DictStep
  <2>4. ASSUME NEW ok \in BOOLEAN, NEW e \in HashElem, HashReplace(e, ok) PROVE D!DictStep
    BY <2>4, ReplaceStep DEF D!DictStep
  <2>5. ASSUME NEW ok \in BOOLEAN, NEW e \in HashElem, HashDelete(e, ok) PROVE D!DictStep
    BY <2>5, DeleteStep DEF D!DictStep
  <2>6. ASSUME NEW destructor \in BOOLEAN, HashClear(destructor) PROVE D!DictStep
    BY <2>6, ClearStep DEF D!DictStep
  <2>7. ASSUME NEW destructor \in BOOLEAN, HashDestroy(destructor) PROVE D!DictStep
    BY <2>7, DestroyStep DEF D!DictStep
  <2>8. ASSUME (\E e \in HashElem : HashFind(e)) \/ HashApply \/ HashSize PROVE D!DictStep
    BY <2>8, QueryStep
  <2>9. ASSUME HashFirst PROVE D!DictStep
    BY <2>9, FirstStep DEF D!DictStep
  <2>10. ASSUME HashNext PROVE D!DictStep
    BY <2>10, AdvanceStep DEF D!DictStep
  <2>11. D!DictStep
    BY <1>1, <2>2, <2>3, <2>4, <2>5, <2>6, <2>7, <2>8, <2>9, <2>10 DEF HashStep
  <2> QED BY <2>1, <2>11
<1>2. CASE UNCHANGED hvars
  <2>1. UNCHANGED <<buckets, bucket_cnt, iter, datum, hcall>>
    BY <1>2 DEF hvars
  <2> QED BY <2>1, TableKept
<1> QED BY <1>1, <1>2

(* hash.c implements a dictionary: whatever the order of the calls, the sizes *)
(* rehash() takes the table through and the allocations that fail on the way, *)
(* hash_insert(), hash_replace(), hash_find() and hash_delete() answer as for *)
(* a set with one element per key, hash_apply() and the destructors meet      *)
(* every element once, and so does an iteration with hash_next().             *)
THEOREM HashIsDictionary == HashSpec => ImplementsDictionary
<1>1. HashInitial => D!DictInit
  BY DictStart
<1>2. HashInv /\ HashInv' /\ [HashStep]_hvars
        => [D!DictStep /\ UNCHANGED datum]_<<Open, Members, Left, datum, hcall>>
  BY DictSimulation
<1> QED BY <1>1, <1>2, HashAlways, PTL DEF HashSpec, ImplementsDictionary, D!DictSpec

-----------------------------------------------------------------------------
(* Place I of list L when its elements are S, between the headers, and links *)
(* K that lead along these places and back.                                  *)
At(l, s, i) == IF i = 0 THEN HeadOf(l) ELSE IF i = Len(s) + 1 THEN TailOf(l) ELSE s[i]
Chained(k, l, s) ==
  /\ k.prev[HeadOf(l)] = NULL /\ k.next[TailOf(l)] = NULL
  /\ \A i \in 0 .. Len(s) : /\ k.next[At(l, s, i)] = At(l, s, i + 1)
                            /\ k.prev[At(l, s, i + 1)] = At(l, s, i)

(* Links K and owners O show the sequences Q. *)
Pointer == [Node -> Node \cup {NULL}]
Shows(k, o, q) ==
  /\ k \in [prev: Pointer, next: Pointer] /\ o \in [Elem -> List \cup {NULL}]
  /\ q \in [List -> Seq(Elem)]
  /\ \A l \in List : IsInjective(q[l]) /\ Chained(k, l, q[l])
  /\ \A l \in List : \A e \in Elem : e \in Range(q[l]) <=> o[e] = l

LEMMA Headers ==
  /\ \A l \in List : /\ HeadOf(l) \in Node \ Elem /\ TailOf(l) \in Node \ Elem
  /\ \A l, m \in List : /\ HeadOf(l) # TailOf(m)
                        /\ HeadOf(l) = HeadOf(m) => l = m
                        /\ TailOf(l) = TailOf(m) => l = m
  /\ NULL \notin Node /\ NULL \notin List /\ Elem \subseteq Node
<1>1. "head" # "tail"
  OBVIOUS
<1>2. \A l, m : /\ HeadOf(l) # TailOf(m)
                /\ HeadOf(l) = HeadOf(m) => l = m
                /\ TailOf(l) = TailOf(m) => l = m
  BY <1>1 DEF HeadOf, TailOf
<1>3. \A l \in List : HeadOf(l) \in Heads /\ TailOf(l) \in Tails
  BY DEF Heads, Tails
<1> QED BY <1>2, <1>3, ElemAssumption DEF Node

LEMMA Lengths ==
  ASSUME NEW s \in Seq(Elem)
  PROVE  /\ Len(s) \in Nat /\ DOMAIN s = 1 .. Len(s)
         /\ \A i \in 1 .. Len(s) : s[i] \in Elem /\ s[i] \in Range(s)
         /\ \A e \in Range(s) : \E i \in 1 .. Len(s) : s[i] = e
<1>1. Len(s) \in Nat /\ DOMAIN s = 1 .. Len(s) /\ \A i \in 1 .. Len(s) : s[i] \in Elem
  BY LenProperties
<1> QED BY <1>1 DEF Range

LEMMA AtNode ==
  ASSUME NEW l \in List, NEW s \in Seq(Elem), NEW i \in 0 .. Len(s) + 1
  PROVE  /\ At(l, s, i) \in Node /\ At(l, s, i) # NULL
         /\ i \in 1 .. Len(s) => At(l, s, i) = s[i] /\ At(l, s, i) \in Elem
         /\ At(l, s, 0) = HeadOf(l) /\ At(l, s, Len(s) + 1) = TailOf(l)
<1>1. Len(s) \in Nat /\ \A j \in 1 .. Len(s) : s[j] \in Elem
  BY Lengths
<1>2. i = 0 \/ i = Len(s) + 1 \/ i \in 1 .. Len(s)
  BY <1>1
<1>3. i \in 1 .. Len(s) => At(l, s, i) = s[i] /\ At(l, s, i) \in Elem
  BY <1>1 DEF At
<1>4. At(l, s, 0) = HeadOf(l) /\ At(l, s, Len(s) + 1) = TailOf(l)
  BY <1>1 DEF At
<1>5. At(l, s, i) \in Node
  BY <1>2, <1>3, <1>4, Headers
<1> QED BY <1>3, <1>4, <1>5, Headers

(* No struct list_elem is at two places. *)
LEMMA OneAt ==
  ASSUME NEW k, NEW o, NEW q, Shows(k, o, q), NEW l \in List, NEW m \in List,
         NEW i \in 0 .. Len(q[l]) + 1, NEW j \in 0 .. Len(q[m]) + 1,
         At(l, q[l], i) = At(m, q[m], j)
  PROVE  l = m /\ i = j
<1>1. q[l] \in Seq(Elem) /\ q[m] \in Seq(Elem)
  BY DEF Shows
<1>2. Len(q[l]) \in Nat /\ Len(q[m]) \in Nat
  BY <1>1, Lengths
<1>3. /\ i = 0 \/ i = Len(q[l]) + 1 \/ i \in 1 .. Len(q[l])
      /\ j = 0 \/ j = Len(q[m]) + 1 \/ j \in 1 .. Len(q[m])
  BY <1>2
<1>4. /\ i \in 1 .. Len(q[l]) => At(l, q[l], i) = q[l][i] /\ At(l, q[l], i) \in Elem
      /\ At(l, q[l], 0) = HeadOf(l) /\ At(l, q[l], Len(q[l]) + 1) = TailOf(l)
  BY <1>1, AtNode
<1>5. /\ j \in 1 .. Len(q[m]) => At(m, q[m], j) = q[m][j] /\ At(m, q[m], j) \in Elem
      /\ At(m, q[m], 0) = HeadOf(m) /\ At(m, q[m], Len(q[m]) + 1) = TailOf(m)
  BY <1>1, AtNode
<1>6. CASE i \in 1 .. Len(q[l])
  <2>1. j \in 1 .. Len(q[m]) /\ q[l][i] = q[m][j]
    BY <1>3, <1>4, <1>5, <1>6, Headers
  <2>2. q[l][i] \in Elem /\ q[l][i] \in Range(q[l]) /\ q[m][j] \in Range(q[m])
    BY <1>1, <1>6, <2>1, Lengths
  <2>3. o[q[l][i]] = l /\ o[q[l][i]] = m
    BY <2>1, <2>2 DEF Shows
  <2>4. i \in DOMAIN q[l] /\ j \in DOMAIN q[l]
    BY <1>1, <1>6, <2>1, <2>3, Lengths
  <2> QED BY <2>1, <2>3, <2>4 DEF Shows, IsInjective
<1>7. CASE i = 0
  BY <1>3, <1>4, <1>5, <1>7, Headers
<1>8. CASE i = Len(q[l]) + 1
  <2>1. j = Len(q[m]) + 1 /\ l = m
    BY <1>3, <1>4, <1>5, <1>8, Headers
  <2> QED BY <1>8, <2>1
<1> QED BY <1>3, <1>6, <1>7, <1>8

(* An element that is in no list is at no place. *)
LEMMA NoneAt ==
  ASSUME NEW k, NEW o, NEW q, Shows(k, o, q), NEW e \in Elem, o[e] = NULL,
         NEW m \in List, NEW j \in 0 .. Len(q[m]) + 1
  PROVE  At(m, q[m], j) # e
<1>1. q[m] \in Seq(Elem)
  BY DEF Shows
<1>2. Len(q[m]) \in Nat
  BY <1>1, Lengths
<1>3. j = 0 \/ j = Len(q[m]) + 1 \/ j \in 1 .. Len(q[m])
  BY <1>2
<1>4. /\ j \in 1 .. Len(q[m]) => At(m, q[m], j) = q[m][j]
      /\ At(m, q[m], 0) = HeadOf(m) /\ At(m, q[m], Len(q[m]) + 1) = TailOf(m)
  BY <1>1, AtNode
<1>5. CASE j \in 1 .. Len(q[m])
  <2>1. q[m][j] \in Elem /\ q[m][j] \in Range(q[m])
    BY <1>1, <1>5, Lengths
  <2>2. o[q[m][j]] = m
    BY <2>1 DEF Shows
  <2> QED BY <1>4, <1>5, <2>2, Headers
<1> QED BY <1>3, <1>4, <1>5, Headers

(* T is S with E put in at place I. *)
Inserted(s, i, e, t) ==
  /\ s \in Seq(Elem) /\ t \in Seq(Elem) /\ e \in Elem /\ i \in 1 .. Len(s) + 1
  /\ Len(t) = Len(s) + 1
  /\ \A j \in 1 .. Len(t) : t[j] = IF j < i THEN s[j] ELSE IF j = i THEN e ELSE s[j - 1]

LEMMA AtInserted ==
  ASSUME NEW l \in List, NEW s, NEW i, NEW e, NEW t, Inserted(s, i, e, t)
  PROVE  /\ \A j \in 0 .. i - 1 : At(l, t, j) = At(l, s, j)
         /\ At(l, t, i) = e
         /\ \A j \in i .. Len(s) + 1 : At(l, t, j + 1) = At(l, s, j)
<1>1. /\ Len(s) \in Nat /\ i \in 1 .. Len(s) + 1 /\ Len(t) = Len(s) + 1
      /\ \A j \in 1 .. Len(t) : t[j] = IF j < i THEN s[j] ELSE IF j = i THEN e ELSE s[j - 1]
  BY Lengths DEF Inserted
<1>2. ASSUME NEW j \in 0 .. i - 1 PROVE At(l, t, j) = At(l, s, j)
  BY <1>1 DEF At
<1>3. At(l, t, i) = e
  BY <1>1 DEF At
<1>4. ASSUME NEW j \in i .. Len(s) + 1 PROVE At(l, t, j + 1) = At(l, s, j)
  <2>1. j \in Nat /\ j # 0 /\ j + 1 # 0 /\ j + 1 # i /\ ~ (j + 1 < i) /\ (j + 1) - 1 = j
    BY <1>1
  <2>2. CASE j = Len(s) + 1
    BY <1>1, <2>1, <2>2 DEF At
  <2>3. CASE j # Len(s) + 1
    <3>1. j + 1 \in 1 .. Len(t) /\ j + 1 # Len(t) + 1
      BY <1>1, <2>1, <2>3
    <3>2. t[j + 1] = s[j]
      BY <1>1, <2>1, <3>1
    <3> QED BY <2>1, <2>3, <3>1, <3>2 DEF At
  <2> QED BY <2>2, <2>3
<1> QED BY <1>2, <1>3, <1>4

LEMMA RangeInserted ==
  ASSUME NEW s, NEW i, NEW e, NEW t, Inserted(s, i, e, t)
  PROVE  /\ Range(t) = Range(s) \cup {e}
         /\ IsInjective(s) /\ e \notin Range(s) => IsInjective(t)
         /\ IsInjective(t) => IsInjective(s) /\ e \notin Range(s)
<1>1. /\ Len(s) \in Nat /\ i \in 1 .. Len(s) + 1 /\ Len(t) = Len(s) + 1
      /\ \A j \in 1 .. Len(t) : t[j] = IF j < i THEN s[j] ELSE IF j = i THEN e ELSE s[j - 1]
      /\ DOMAIN s = 1 .. Len(s) /\ DOMAIN t = 1 .. Len(t)
  BY Lengths DEF Inserted
<1> DEFINE in(j) == IF j < i THEN j ELSE j + 1
<1>2. \A j \in 1 .. Len(s) : in(j) \in 1 .. Len(t) /\ in(j) # i /\ t[in(j)] = s[j]
  BY <1>1
<1>3. \A j \in 1 .. Len(t) : j = i \/ \E n \in 1 .. Len(s) : j = in(n)
  <2> SUFFICES ASSUME NEW j \in 1 .. Len(t), j # i PROVE \E n \in 1 .. Len(s) : j = in(n)
    OBVIOUS
  <2>1. CASE j < i
    BY <1>1, <2>1
  <2>2. CASE j > i
    <3>1. j - 1 \in 1 .. Len(s) /\ ~ (j - 1 < i) /\ j = (j - 1) + 1
      BY <1>1, <2>2
    <3> QED BY <3>1
  <2> QED BY <1>1, <2>1, <2>2
<1>4. \A j, n \in 1 .. Len(s) : in(j) = in(n) => j = n
  BY <1>1
<1>5. i \in 1 .. Len(t) /\ t[i] = e
  BY <1>1
<1> HIDE DEF in
<1>6. Range(t) = Range(s) \cup {e}
  <2>1. ASSUME NEW x \in Range(t) PROVE x \in Range(s) \cup {e}
    <3>1. PICK j \in 1 .. Len(t) : t[j] = x
      BY <1>1 DEF Range
    <3>2. CASE j = i
      BY <1>5, <3>1, <3>2
    <3>3. CASE j # i
      <4>1. PICK n \in 1 .. Len(s) : j = in(n)
        BY <1>3, <3>3
      <4>2. s[n] = x
        BY <1>2, <3>1, <4>1
      <4> QED BY <1>1, <4>2 DEF Range
    <3> QED BY <3>2, <3>3
  <2>2. e \in Range(t)
    BY <1>1, <1>5 DEF Range
  <2>3. ASSUME NEW x \in Range(s) PROVE x \in Range(t)
    <3>1. PICK j \in 1 .. Len(s) : s[j] = x
      BY <1>1 DEF Range
    <3>2. in(j) \in 1 .. Len(t) /\ t[in(j)] = x
      BY <1>2, <3>1
    <3> QED BY <1>1, <3>2 DEF Range
  <2> QED BY <2>1, <2>2, <2>3
<1>7. ASSUME IsInjective(s), e \notin Range(s) PROVE IsInjective(t)
  <2> SUFFICES ASSUME NEW j \in 1 .. Len(t), NEW n \in 1 .. Len(t), t[j] = t[n] PROVE j = n
    BY <1>1 DEF IsInjective
  <2>1. \A m \in 1 .. Len(s) : s[m] \in Range(s)
    BY <1>1 DEF Range
  <2>2. CASE j = i \/ n = i
    BY <1>2, <1>3, <1>5, <1>7, <2>1, <2>2
  <2>3. CASE j # i /\ n # i
    <3>1. PICK a \in 1 .. Len(s) : j = in(a)
      BY <1>3, <2>3
    <3>2. PICK b \in 1 .. Len(s) : n = in(b)
      BY <1>3, <2>3
    <3>3. s[a] = s[b]
      BY <1>2, <3>1, <3>2
    <3> QED BY <1>1, <1>7, <3>1, <3>2, <3>3 DEF IsInjective
  <2> QED BY <2>2, <2>3
<1>8. ASSUME IsInjective(t) PROVE IsInjective(s) /\ e \notin Range(s)
  <2>1. IsInjective(s)
    BY <1>1, <1>2, <1>4, <1>8 DEF IsInjective
  <2>2. ASSUME NEW j \in 1 .. Len(s) PROVE s[j] # e
    BY <1>1, <1>2, <1>5, <1>8 DEF IsInjective
  <2> QED BY <1>1, <2>1, <2>2 DEF Range
<1> QED BY <1>6, <1>7, <1>8

(* What list_insert() leaves in the links: E stands between P and B. *)
PutBetween(k, p, b, e, k2) ==
  /\ k2 \in [prev: Pointer, next: Pointer]
  /\ \A n \in Node : /\ k2.next[n] = IF n = p THEN e ELSE IF n = e THEN b ELSE k.next[n]
                     /\ k2.prev[n] = IF n = b THEN e ELSE IF n = e THEN p ELSE k.prev[n]
Owned(o, e, l, o2) ==
  /\ o2 \in [Elem -> List \cup {NULL}]
  /\ \A d \in Elem : o2[d] = IF d = e THEN l ELSE o[d]
WithList(q, l, t, q2) ==
  /\ q2 \in [List -> Seq(Elem)]
  /\ \A m \in List : q2[m] = IF m = l THEN t ELSE q[m]

LEMMA InsertBetween ==
  ASSUME NEW k \in [prev: Pointer, next: Pointer], NEW p \in Node, NEW b \in Node,
         NEW e \in Node, k.prev[b] = p, p # e, b # e
  PROVE  PutBetween(k, p, b, e, Insert(k, b, e))
<1>1. k.prev \in [Node -> Node \cup {NULL}] /\ k.next \in [Node -> Node \cup {NULL}]
  BY DEF Pointer
<1>2. Insert(k, b, e) = [prev |-> [k.prev EXCEPT ![e] = p, ![b] = e],
                         next |-> [k.next EXCEPT ![e] = b, ![p] = e]]
  BY DEF Insert
<1>3. /\ Insert(k, b, e).prev = [k.prev EXCEPT ![e] = p, ![b] = e]
      /\ Insert(k, b, e).next = [k.next EXCEPT ![e] = b, ![p] = e]
  BY <1>2
<1>4. Insert(k, b, e).prev \in Pointer /\ Insert(k, b, e).next \in Pointer
  BY <1>1, <1>3 DEF Pointer
<1>5. Insert(k, b, e) \in [prev: Pointer, next: Pointer]
  BY <1>2, <1>3, <1>4
<1>6. ASSUME NEW n \in Node
      PROVE  /\ Insert(k, b, e).next[n] = IF n = p THEN e ELSE IF n = e THEN b ELSE k.next[n]
             /\ Insert(k, b, e).prev[n] = IF n = b THEN e ELSE IF n = e THEN p ELSE k.prev[n]
  BY <1>1, <1>3
<1> QED BY <1>5, <1>6 DEF PutBetween

LEMMA InsertShows ==
  ASSUME NEW k, NEW o, NEW q, Shows(k, o, q), NEW l \in List, NEW i, NEW e \in Elem,
         o[e] = NULL, NEW t, Inserted(q[l], i, e, t),
         NEW k2, PutBetween(k, At(l, q[l], i - 1), At(l, q[l], i), e, k2),
         NEW o2, Owned(o, e, l, o2), NEW q2, WithList(q, l, t, q2)
  PROVE  Shows(k2, o2, q2)
<1>1. /\ k \in [prev: Pointer, next: Pointer] /\ o \in [Elem -> List \cup {NULL}]
      /\ q \in [List -> Seq(Elem)] /\ q[l] \in Seq(Elem)
  BY DEF Shows
<1>2. /\ Len(q[l]) \in Nat /\ i \in 1 .. Len(q[l]) + 1 /\ i - 1 \in 0 .. Len(q[l])
      /\ i \in 0 .. Len(q[l]) + 1 /\ i - 1 \in 0 .. Len(q[l]) + 1
      /\ t \in Seq(Elem) /\ Len(t) = Len(q[l]) + 1
  BY <1>1, Lengths DEF Inserted
<1>3. PICK p \in Node : p = At(l, q[l], i - 1)
  BY <1>1, <1>2, AtNode
<1>4. PICK b \in Node : b = At(l, q[l], i)
  BY <1>1, <1>2, AtNode
<1>5. /\ k2 \in [prev: Pointer, next: Pointer]
      /\ \A n \in Node : /\ k2.next[n] = IF n = p THEN e ELSE IF n = e THEN b ELSE k.next[n]
                         /\ k2.prev[n] = IF n = b THEN e ELSE IF n = e THEN p ELSE k.prev[n]
  BY <1>3, <1>4 DEF PutBetween
<1>6. \A m \in List : \A j \in 0 .. Len(q[m]) + 1 :
        /\ At(m, q[m], j) \in Node /\ At(m, q[m], j) # e
        /\ At(m, q[m], j) = p => m = l /\ j = i - 1
        /\ At(m, q[m], j) = b => m = l /\ j = i
  <2> SUFFICES ASSUME NEW m \in List, NEW j \in 0 .. Len(q[m]) + 1
               PROVE  /\ At(m, q[m], j) \in Node /\ At(m, q[m], j) # e
                      /\ At(m, q[m], j) = p => m = l /\ j = i - 1
                      /\ At(m, q[m], j) = b => m = l /\ j = i
    OBVIOUS
  <2>1. q[m] \in Seq(Elem)
    BY <1>1
  <2>2. At(m, q[m], j) \in Node
    BY <2>1, AtNode
  <2>3. At(m, q[m], j) # e
    BY NoneAt
  <2>4. At(m, q[m], j) = p => m = l /\ j = i - 1
    BY <1>2, <1>3, OneAt
  <2>5. At(m, q[m], j) = b => m = l /\ j = i
    BY <1>2, <1>4, OneAt
  <2> QED BY <2>2, <2>3, <2>4, <2>5
<1>7. \A m \in List : /\ k.prev[At(m, q[m], 0)] = NULL /\ k.next[At(m, q[m], Len(q[m]) + 1)] = NULL
                      /\ Len(q[m]) \in Nat
                      /\ \A j \in 0 .. Len(q[m]) : /\ k.next[At(m, q[m], j)] = At(m, q[m], j + 1)
                                                   /\ k.prev[At(m, q[m], j + 1)] = At(m, q[m], j)
  <2> SUFFICES ASSUME NEW m \in List
               PROVE  /\ k.prev[At(m, q[m], 0)] = NULL /\ k.next[At(m, q[m], Len(q[m]) + 1)] = NULL
                      /\ Len(q[m]) \in Nat
                      /\ \A j \in 0 .. Len(q[m]) : /\ k.next[At(m, q[m], j)] = At(m, q[m], j + 1)
                                                   /\ k.prev[At(m, q[m], j + 1)] = At(m, q[m], j)
    OBVIOUS
  <2>1. q[m] \in Seq(Elem) /\ Chained(k, m, q[m])
    BY <1>1 DEF Shows
  <2>2. Len(q[m]) \in Nat /\ 0 \in 0 .. Len(q[m]) + 1
    BY <2>1, Lengths
  <2>3. At(m, q[m], 0) = HeadOf(m) /\ At(m, q[m], Len(q[m]) + 1) = TailOf(m)
    BY <2>1, <2>2, AtNode
  <2> QED BY <2>1, <2>2, <2>3 DEF Chained
<1>8. /\ p # e /\ b # e /\ p # b /\ e \in Node
      /\ k2.next[p] = e /\ k2.next[e] = b /\ k2.prev[b] = e /\ k2.prev[e] = p
  <2>1. p # e /\ b # e
    BY <1>2, <1>3, <1>4, <1>6
  <2>2. p # b
    BY <1>2, <1>3, <1>6
  <2>3. e \in Node
    BY Headers
  <2> QED BY <1>5, <2>1, <2>2, <2>3
<1>9. /\ q2 \in [List -> Seq(Elem)] /\ q2[l] = t
      /\ \A m \in List : m # l => q2[m] = q[m]
  BY DEF WithList
<1>10. ASSUME NEW m \in List, m # l PROVE Chained(k2, m, q[m])
  <2>1. \A j \in 0 .. Len(q[m]) + 1 : /\ k2.next[At(m, q[m], j)] = k.next[At(m, q[m], j)]
                                      /\ k2.prev[At(m, q[m], j)] = k.prev[At(m, q[m], j)]
    BY <1>5, <1>6, <1>10
  <2>2. /\ Len(q[m]) \in Nat /\ 0 \in 0 .. Len(q[m]) + 1 /\ Len(q[m]) + 1 \in 0 .. Len(q[m]) + 1
        /\ \A j \in 0 .. Len(q[m]) : j \in 0 .. Len(q[m]) + 1 /\ j + 1 \in 0 .. Len(q[m]) + 1
    BY <1>7
  <2>3. At(m, q[m], 0) = HeadOf(m) /\ At(m, q[m], Len(q[m]) + 1) = TailOf(m)
    BY <1>1, <2>2, AtNode
  <2>4. k2.prev[HeadOf(m)] = NULL /\ k2.next[TailOf(m)] = NULL
    BY <1>7, <2>1, <2>2, <2>3
  <2>5. \A j \in 0 .. Len(q[m]) : /\ k2.next[At(m, q[m], j)] = At(m, q[m], j + 1)
                                  /\ k2.prev[At(m, q[m], j + 1)] = At(m, q[m], j)
    BY <1>7, <2>1, <2>2
  <2> QED BY <2>4, <2>5 DEF Chained
<1>11. Chained(k2, l, t)
  <2>1. /\ \A j \in 0 .. i - 1 : At(l, t, j) = At(l, q[l], j)
        /\ At(l, t, i) = e
        /\ \A j \in i .. Len(q[l]) + 1 : At(l, t, j + 1) = At(l, q[l], j)
    <3>1. PICK s : s = q[l]
      OBVIOUS
    <3>2. Inserted(s, i, e, t)
      BY <3>1
    <3>3. /\ \A j \in 0 .. i - 1 : At(l, t, j) = At(l, s, j)
          /\ At(l, t, i) = e
          /\ \A j \in i .. Len(s) + 1 : At(l, t, j + 1) = At(l, s, j)
      BY ONLY <3>2, l \in List, AtInserted
    <3> QED BY <3>1, <3>3
  <2>2. HeadOf(l) = At(l, q[l], 0) /\ TailOf(l) = At(l, q[l], Len(q[l]) + 1)
    BY <1>1, <1>2, AtNode
  <2>3. k2.prev[HeadOf(l)] = NULL
    <3>1. 0 \in 0 .. Len(q[l]) + 1 /\ i # 0
      BY <1>2
    <3>2. HeadOf(l) \in Node /\ HeadOf(l) # b /\ HeadOf(l) # e
      BY <1>6, <2>2, <3>1
    <3> QED BY <1>5, <1>7, <2>2, <3>2
  <2>4. k2.next[TailOf(l)] = NULL
    <3>1. Len(q[l]) + 1 \in 0 .. Len(q[l]) + 1 /\ Len(q[l]) + 1 # i - 1
      BY <1>2
    <3>2. TailOf(l) \in Node /\ TailOf(l) # p /\ TailOf(l) # e
      BY <1>6, <2>2, <3>1
    <3> QED BY <1>5, <1>7, <2>2, <3>2
  <2>5. ASSUME NEW j \in 0 .. Len(t)
        PROVE  /\ k2.next[At(l, t, j)] = At(l, t, j + 1)
               /\ k2.prev[At(l, t, j + 1)] = At(l, t, j)
    <3>1. CASE j < i - 1
      <4>1. /\ j \in 0 .. i - 1 /\ j + 1 \in 0 .. i - 1 /\ j \in 0 .. Len(q[l])
            /\ j \in 0 .. Len(q[l]) + 1 /\ j + 1 \in 0 .. Len(q[l]) + 1 /\ j # i - 1 /\ j + 1 # i
        BY <1>2, <3>1
      <4>2. At(l, t, j) = At(l, q[l], j) /\ At(l, t, j + 1) = At(l, q[l], j + 1)
        BY <2>1, <4>1
      <4>3. k2.next[At(l, q[l], j)] = k.next[At(l, q[l], j)]
        BY <1>5, <1>6, <4>1
      <4>4. k2.prev[At(l, q[l], j + 1)] = k.prev[At(l, q[l], j + 1)]
        BY <1>5, <1>6, <4>1
      <4> QED BY <1>7, <4>1, <4>2, <4>3, <4>4
    <3>2. CASE j = i - 1
      <4>1. j \in 0 .. i - 1 /\ j + 1 = i
        BY <1>2, <3>2
      <4>2. At(l, t, j) = p /\ At(l, t, j + 1) = e
        BY <1>3, <2>1, <3>2, <4>1
      <4> QED BY <1>8, <4>2
    <3>3. CASE j = i
      <4>1. i \in i .. Len(q[l]) + 1
        BY <1>2
      <4>2. At(l, t, j) = e /\ At(l, t, j + 1) = b
        BY <1>4, <2>1, <3>3, <4>1
      <4> QED BY <1>8, <4>2
    <3>4. CASE j > i
      <4>1. PICK n \in Nat : n = j - 1
        BY <1>2, <3>4
      <4>2. /\ n \in i .. Len(q[l]) + 1 /\ n + 1 \in i .. Len(q[l]) + 1 /\ n \in 0 .. Len(q[l])
            /\ n \in 0 .. Len(q[l]) + 1 /\ n + 1 \in 0 .. Len(q[l]) + 1
            /\ n # i - 1 /\ n + 1 # i /\ j = n + 1
        BY <1>2, <3>4, <4>1
      <4>3. At(l, t, n + 1) = At(l, q[l], n) /\ At(l, t, (n + 1) + 1) = At(l, q[l], n + 1)
        BY <2>1, <4>2
      <4>4. k2.next[At(l, q[l], n)] = k.next[At(l, q[l], n)]
        BY <1>5, <1>6, <4>2
      <4>5. k2.prev[At(l, q[l], n + 1)] = k.prev[At(l, q[l], n + 1)]
        BY <1>5, <1>6, <4>2
      <4> QED BY <1>7, <4>2, <4>3, <4>4, <4>5
    <3> QED BY <1>2, <3>1, <3>2, <3>3, <3>4
  <2> QED BY <2>3, <2>4, <2>5 DEF Chained
<1>12. \A m \in List : \A d \in Elem : d \in Range(q[m]) <=> o[d] = m
  BY DEF Shows
<1>13. e \notin Range(q[l]) /\ IsInjective(q[l])
  BY <1>12, Headers DEF Shows
<1>14. Range(t) = Range(q[l]) \cup {e} /\ IsInjective(t)
  BY <1>13, RangeInserted
<1>15. ASSUME NEW m \in List PROVE IsInjective(q2[m]) /\ Chained(k2, m, q2[m])
  <2>1. CASE m = l
    BY <1>9, <1>11, <1>14, <2>1
  <2>2. CASE m # l
    <3>1. IsInjective(q[m])
      BY DEF Shows
    <3> QED BY <1>9, <1>10, <2>2, <3>1
  <2> QED BY <2>1, <2>2
<1>16. /\ o2 \in [Elem -> List \cup {NULL}]
       /\ \A d \in Elem : o2[d] = IF d = e THEN l ELSE o[d]
  BY DEF Owned
<1>17. ASSUME NEW m \in List, NEW d \in Elem PROVE d \in Range(q2[m]) <=> o2[d] = m
  <2>1. CASE m = l
    BY <1>9, <1>12, <1>14, <1>16, <2>1
  <2>2. CASE m # l
    BY <1>9, <1>12, <1>16, <2>2, Headers
  <2> QED BY <2>1, <2>2
<1> QED BY <1>5, <1>9, <1>15, <1>16, <1>17 DEF Shows

(* What list_remove() leaves in them: P and B stand next to each other. *)
Bridged(k, p, b, k2) ==
  /\ k2 \in [prev: Pointer, next: Pointer]
  /\ \A n \in Node : /\ k2.next[n] = IF n = p THEN b ELSE k.next[n]
                     /\ k2.prev[n] = IF n = b THEN p ELSE k.prev[n]

LEMMA UnlinkBridged ==
  ASSUME NEW k \in [prev: Pointer, next: Pointer], NEW p \in Node, NEW b \in Node,
         NEW e, k.prev[e] = p, k.next[e] = b
  PROVE  Bridged(k, p, b, Unlink(k, e))
<1>1. k.prev \in [Node -> Node \cup {NULL}] /\ k.next \in [Node -> Node \cup {NULL}]
  BY DEF Pointer
<1>2. Unlink(k, e) = [prev |-> [k.prev EXCEPT ![b] = p], next |-> [k.next EXCEPT ![p] = b]]
  BY DEF Unlink
<1>3. /\ Unlink(k, e).prev = [k.prev EXCEPT ![b] = p]
      /\ Unlink(k, e).next = [k.next EXCEPT ![p] = b]
  BY <1>2
<1>4. Unlink(k, e).prev \in Pointer /\ Unlink(k, e).next \in Pointer
  BY <1>1, <1>3 DEF Pointer
<1>5. Unlink(k, e) \in [prev: Pointer, next: Pointer]
  BY <1>2, <1>3, <1>4
<1>6. ASSUME NEW n \in Node
      PROVE  /\ Unlink(k, e).next[n] = IF n = p THEN b ELSE k.next[n]
             /\ Unlink(k, e).prev[n] = IF n = b THEN p ELSE k.prev[n]
  BY <1>1, <1>3
<1> QED BY <1>5, <1>6 DEF Bridged

(* Links that show sequences lead along every place. *)
LEMMA ShownPlaces ==
  ASSUME NEW k, NEW o, NEW q, Shows(k, o, q), NEW m \in List
  PROVE  /\ q[m] \in Seq(Elem) /\ Len(q[m]) \in Nat
         /\ At(m, q[m], 0) = HeadOf(m) /\ At(m, q[m], Len(q[m]) + 1) = TailOf(m)
         /\ k.prev[At(m, q[m], 0)] = NULL /\ k.next[At(m, q[m], Len(q[m]) + 1)] = NULL
         /\ \A j \in 0 .. Len(q[m]) : /\ k.next[At(m, q[m], j)] = At(m, q[m], j + 1)
                                      /\ k.prev[At(m, q[m], j + 1)] = At(m, q[m], j)
<1>1. q[m] \in Seq(Elem) /\ Chained(k, m, q[m])
  BY DEF Shows
<1>2. Len(q[m]) \in Nat /\ 0 \in 0 .. Len(q[m]) + 1
  BY <1>1, Lengths
<1>3. At(m, q[m], 0) = HeadOf(m) /\ At(m, q[m], Len(q[m]) + 1) = TailOf(m)
  BY <1>1, <1>2, AtNode
<1> QED BY <1>1, <1>2, <1>3 DEF Chained

LEMMA RemoveShows ==
  ASSUME NEW k, NEW o, NEW q, Shows(k, o, q), NEW l \in List, NEW i, NEW e \in Elem,
         NEW t, Inserted(t, i, e, q[l]),
         NEW k2, Bridged(k, At(l, q[l], i - 1), At(l, q[l], i + 1), k2),
         NEW o2, Owned(o, e, NULL, o2), NEW q2, WithList(q, l, t, q2)
  PROVE  Shows(k2, o2, q2)
<1>1. /\ k \in [prev: Pointer, next: Pointer] /\ o \in [Elem -> List \cup {NULL}]
      /\ q \in [List -> Seq(Elem)] /\ q[l] \in Seq(Elem)
  BY DEF Shows
<1>2. /\ t \in Seq(Elem) /\ Len(t) \in Nat /\ Len(q[l]) = Len(t) + 1
      /\ i \in 1 .. Len(t) + 1 /\ i - 1 \in 0 .. Len(q[l]) + 1 /\ i \in 0 .. Len(q[l]) + 1
      /\ i + 1 \in 0 .. Len(q[l]) + 1
  BY <1>1, Lengths DEF Inserted
<1>3. PICK p \in Node : p = At(l, q[l], i - 1)
  BY <1>1, <1>2, AtNode
<1>4. PICK b \in Node : b = At(l, q[l], i + 1)
  BY <1>1, <1>2, AtNode
<1>5. /\ k2 \in [prev: Pointer, next: Pointer]
      /\ \A n \in Node : /\ k2.next[n] = IF n = p THEN b ELSE k.next[n]
                         /\ k2.prev[n] = IF n = b THEN p ELSE k.prev[n]
  BY <1>3, <1>4 DEF Bridged
<1>6. \A m \in List : \A j \in 0 .. Len(q[m]) + 1 :
        /\ At(m, q[m], j) \in Node
        /\ At(m, q[m], j) = p => m = l /\ j = i - 1
        /\ At(m, q[m], j) = b => m = l /\ j = i + 1
  <2> SUFFICES ASSUME NEW m \in List, NEW j \in 0 .. Len(q[m]) + 1
               PROVE  /\ At(m, q[m], j) \in Node
                      /\ At(m, q[m], j) = p => m = l /\ j = i - 1
                      /\ At(m, q[m], j) = b => m = l /\ j = i + 1
    OBVIOUS
  <2>1. q[m] \in Seq(Elem)
    BY <1>1
  <2>2. At(m, q[m], j) \in Node
    BY <2>1, AtNode
  <2>3. At(m, q[m], j) = p => m = l /\ j = i - 1
    BY <1>2, <1>3, OneAt
  <2>4. At(m, q[m], j) = b => m = l /\ j = i + 1
    BY <1>2, <1>4, OneAt
  <2> QED BY <2>2, <2>3, <2>4
<1>7. \A m \in List : /\ k.prev[At(m, q[m], 0)] = NULL /\ k.next[At(m, q[m], Len(q[m]) + 1)] = NULL
                      /\ Len(q[m]) \in Nat
                      /\ At(m, q[m], 0) = HeadOf(m) /\ At(m, q[m], Len(q[m]) + 1) = TailOf(m)
                      /\ \A j \in 0 .. Len(q[m]) : /\ k.next[At(m, q[m], j)] = At(m, q[m], j + 1)
                                                   /\ k.prev[At(m, q[m], j + 1)] = At(m, q[m], j)
  BY ONLY Shows(k, o, q), ShownPlaces
<1>8. k2.next[p] = b /\ k2.prev[b] = p
  BY <1>5
<1>9. /\ q2 \in [List -> Seq(Elem)] /\ q2[l] = t
      /\ \A m \in List : m # l => q2[m] = q[m]
  BY DEF WithList
<1>10. ASSUME NEW m \in List, m # l PROVE Chained(k2, m, q[m])
  <2>1. \A j \in 0 .. Len(q[m]) + 1 : /\ k2.next[At(m, q[m], j)] = k.next[At(m, q[m], j)]
                                      /\ k2.prev[At(m, q[m], j)] = k.prev[At(m, q[m], j)]
    BY <1>5, <1>6, <1>10
  <2>2. /\ Len(q[m]) \in Nat /\ 0 \in 0 .. Len(q[m]) + 1 /\ Len(q[m]) + 1 \in 0 .. Len(q[m]) + 1
        /\ \A j \in 0 .. Len(q[m]) : j \in 0 .. Len(q[m]) + 1 /\ j + 1 \in 0 .. Len(q[m]) + 1
    BY <1>7
  <2>3. k2.prev[HeadOf(m)] = NULL /\ k2.next[TailOf(m)] = NULL
    BY <1>7, <2>1, <2>2
  <2>4. \A j \in 0 .. Len(q[m]) : /\ k2.next[At(m, q[m], j)] = At(m, q[m], j + 1)
                                  /\ k2.prev[At(m, q[m], j + 1)] = At(m, q[m], j)
    BY <1>7, <2>1, <2>2
  <2> QED BY <2>3, <2>4 DEF Chained
<1>11. Chained(k2, l, t)
  <2>1. /\ \A j \in 0 .. i - 1 : At(l, q[l], j) = At(l, t, j)
        /\ \A j \in i .. Len(t) + 1 : At(l, q[l], j + 1) = At(l, t, j)
    <3>1. PICK s : s = q[l]
      OBVIOUS
    <3>2. Inserted(t, i, e, s)
      BY <3>1
    <3>3. /\ \A j \in 0 .. i - 1 : At(l, s, j) = At(l, t, j)
          /\ \A j \in i .. Len(t) + 1 : At(l, s, j + 1) = At(l, t, j)
      BY ONLY <3>2, l \in List, AtInserted
    <3> QED BY <3>1, <3>3
  <2>2. HeadOf(l) = At(l, q[l], 0) /\ TailOf(l) = At(l, q[l], Len(q[l]) + 1)
    BY <1>7
  <2>3. k2.prev[HeadOf(l)] = NULL
    <3>1. 0 \in 0 .. Len(q[l]) + 1 /\ i + 1 # 0
      BY <1>2
    <3>2. HeadOf(l) \in Node /\ HeadOf(l) # b
      BY <1>6, <2>2, <3>1
    <3> QED BY <1>5, <1>7, <2>2, <3>2
  <2>4. k2.next[TailOf(l)] = NULL
    <3>1. Len(q[l]) + 1 \in 0 .. Len(q[l]) + 1 /\ Len(q[l]) + 1 # i - 1
      BY <1>2
    <3>2. TailOf(l) \in Node /\ TailOf(l) # p
      BY <1>6, <2>2, <3>1
    <3> QED BY <1>5, <1>7, <2>2, <3>2
  <2>5. ASSUME NEW j \in 0 .. Len(t)
        PROVE  /\ k2.next[At(l, t, j)] = At(l, t, j + 1)
               /\ k2.prev[At(l, t, j + 1)] = At(l, t, j)
    <3>1. CASE j < i - 1
      <4>1. /\ j \in 0 .. i - 1 /\ j + 1 \in 0 .. i - 1 /\ j \in 0 .. Len(q[l])
            /\ j \in 0 .. Len(q[l]) + 1 /\ j + 1 \in 0 .. Len(q[l]) + 1
            /\ j # i - 1 /\ j + 1 # i + 1
        BY <1>2, <3>1
      <4>2. At(l, t, j) = At(l, q[l], j) /\ At(l, t, j + 1) = At(l, q[l], j + 1)
        BY <2>1, <4>1
      <4>3. k2.next[At(l, q[l], j)] = k.next[At(l, q[l], j)]
        BY <1>5, <1>6, <4>1
      <4>4. k2.prev[At(l, q[l], j + 1)] = k.prev[At(l, q[l], j + 1)]
        BY <1>5, <1>6, <4>1
      <4> QED BY <1>7, <4>1, <4>2, <4>3, <4>4
    <3>2. CASE j = i - 1
      <4>1. j \in 0 .. i - 1 /\ j + 1 = i /\ i \in i .. Len(t) + 1
        BY <1>2, <3>2
      <4>2. At(l, t, j) = p /\ At(l, t, j + 1) = b
        BY <1>3, <1>4, <2>1, <3>2, <4>1
      <4> QED BY <1>8, <4>2
    <3>3. CASE j >= i
      <4>1. /\ j \in i .. Len(t) + 1 /\ j + 1 \in i .. Len(t) + 1 /\ j + 1 \in 0 .. Len(q[l])
            /\ j + 1 \in 0 .. Len(q[l]) + 1 /\ (j + 1) + 1 \in 0 .. Len(q[l]) + 1
            /\ j + 1 # i - 1 /\ (j + 1) + 1 # i + 1
        BY <1>2, <3>3
      <4>2. At(l, t, j) = At(l, q[l], j + 1) /\ At(l, t, j + 1) = At(l, q[l], (j + 1) + 1)
        BY <2>1, <4>1
      <4>3. k2.next[At(l, q[l], j + 1)] = k.next[At(l, q[l], j + 1)]
        BY <1>5, <1>6, <4>1
      <4>4. k2.prev[At(l, q[l], (j + 1) + 1)] = k.prev[At(l, q[l], (j + 1) + 1)]
        BY <1>5, <1>6, <4>1
      <4> QED BY <1>7, <4>1, <4>2, <4>3, <4>4
    <3> QED BY <1>2, <3>1, <3>2, <3>3
  <2> QED BY <2>3, <2>4, <2>5 DEF Chained
<1>12. \A m \in List : \A d \in Elem : d \in Range(q[m]) <=> o[d] = m
  BY DEF Shows
<1>13. /\ Range(q[l]) = Range(t) \cup {e} /\ e \notin Range(t) /\ IsInjective(t)
  <2>1. IsInjective(q[l])
    BY DEF Shows
  <2> QED BY ONLY <2>1, Inserted(t, i, e, q[l]), RangeInserted
<1>14. ASSUME NEW m \in List PROVE IsInjective(q2[m]) /\ Chained(k2, m, q2[m])
  <2>1. CASE m = l
    BY <1>9, <1>11, <1>13, <2>1
  <2>2. CASE m # l
    <3>1. IsInjective(q[m])
      BY DEF Shows
    <3> QED BY <1>9, <1>10, <2>2, <3>1
  <2> QED BY <2>1, <2>2
<1>15. /\ o2 \in [Elem -> List \cup {NULL}]
       /\ \A d \in Elem : o2[d] = IF d = e THEN NULL ELSE o[d]
  BY DEF Owned
<1>16. ASSUME NEW m \in List, NEW d \in Elem PROVE d \in Range(q2[m]) <=> o2[d] = m
  <2>1. CASE m = l
    BY <1>9, <1>12, <1>13, <1>15, <2>1, Headers
  <2>2. CASE m # l
    BY <1>9, <1>12, <1>13, <1>15, <2>2, Headers
  <2> QED BY <2>1, <2>2
<1> QED BY <1>5, <1>9, <1>14, <1>15, <1>16 DEF Shows

(* What the promised operations do to a sequence, each as one insertion. *)
LEMMA Part ==
  ASSUME NEW s \in Seq(Elem), NEW m \in 1 .. Len(s) + 1, NEW n \in m - 1 .. Len(s)
  PROVE  /\ SubSeq(s, m, n) \in Seq(Elem) /\ Len(SubSeq(s, m, n)) = n - m + 1
         /\ \A i \in 1 .. n - m + 1 : SubSeq(s, m, n)[i] = s[m + i - 1]
<1>1. Len(s) \in Nat /\ \A i \in 1 .. Len(s) : s[i] \in Elem
  BY Lengths
<1>2. m \in Int /\ n \in Int /\ \A i \in m .. n : s[i] \in Elem
  BY <1>1
<1>3. /\ SubSeq(s, m, n) \in Seq(Elem)
      /\ Len(SubSeq(s, m, n)) = IF m <= n THEN n - m + 1 ELSE 0
      /\ \A i \in 1 .. n - m + 1 : SubSeq(s, m, n)[i] = s[m + i - 1]
  BY ONLY <1>2, SubSeqProperties
<1>4. (IF m <= n THEN n - m + 1 ELSE 0) = n - m + 1
  BY <1>1
<1> QED BY <1>3, <1>4

LEMMA PushedFront ==
  ASSUME NEW s \in Seq(Elem), NEW e \in Elem
  PROVE  Inserted(s, 1, e, <<e>> \o s)
<1>1. <<e>> \in Seq(Elem) /\ Len(<<e>>) = 1 /\ <<e>>[1] = e /\ Len(s) \in Nat
  BY Lengths
<1>2. /\ <<e>> \o s \in Seq(Elem) /\ Len(<<e>> \o s) = 1 + Len(s)
      /\ \A j \in 1 .. 1 + Len(s) : (<<e>> \o s)[j] = IF j <= 1 THEN <<e>>[j] ELSE s[j - 1]
  BY <1>1, ConcatProperties
<1>3. PICK t : t = <<e>> \o s
  OBVIOUS
<1>4. /\ t \in Seq(Elem) /\ Len(t) = Len(s) + 1
      /\ \A j \in 1 .. Len(s) + 1 : t[j] = IF j = 1 THEN e ELSE s[j - 1]
  BY <1>1, <1>2, <1>3
<1>5. Inserted(s, 1, e, t)
  BY <1>1, <1>4 DEF Inserted
<1> QED BY <1>3, <1>5

LEMMA PushedBack ==
  ASSUME NEW s \in Seq(Elem), NEW e \in Elem
  PROVE  Inserted(s, Len(s) + 1, e, Append(s, e))
<1>1. Len(s) \in Nat
  BY Lengths
<1>2. PICK t : t = Append(s, e)
  OBVIOUS
<1>3. /\ t \in Seq(Elem) /\ Len(t) = Len(s) + 1
      /\ \A j \in 1 .. Len(s) : t[j] = s[j]
      /\ t[Len(s) + 1] = e
  BY <1>2, AppendProperties
<1>4. Inserted(s, Len(s) + 1, e, t)
  BY <1>1, <1>3 DEF Inserted
<1> QED BY <1>2, <1>4

LEMMA PutAt ==
  ASSUME NEW s \in Seq(Elem), NEW e \in Elem, NEW i \in 1 .. Len(s)
  PROVE  Inserted(s, i, e, LS!InsertAt(s, i, e))
<1>1. Len(s) \in Nat /\ i \in Nat /\ i <= Len(s) /\ i >= 1
  BY Lengths
<1>2. PICK a : a = SubSeq(s, 1, i - 1)
  OBVIOUS
<1>3. PICK c : c = SubSeq(s, i, Len(s))
  OBVIOUS
<1>4. a \in Seq(Elem) /\ Len(a) = i - 1 /\ \A j \in 1 .. i - 1 : a[j] = s[j]
  <2>1. 1 \in 1 .. Len(s) + 1 /\ i - 1 \in 1 - 1 .. Len(s)
    BY <1>1
  <2>2. /\ SubSeq(s, 1, i - 1) \in Seq(Elem) /\ Len(SubSeq(s, 1, i - 1)) = (i - 1) - 1 + 1
        /\ \A j \in 1 .. (i - 1) - 1 + 1 : SubSeq(s, 1, i - 1)[j] = s[1 + j - 1]
    BY ONLY s \in Seq(Elem), <2>1, Part
  <2>3. (i - 1) - 1 + 1 = i - 1 /\ \A j \in 1 .. i - 1 : 1 + j - 1 = j
    BY <1>1
  <2> QED BY <1>2, <2>2, <2>3
<1>5. /\ c \in Seq(Elem) /\ Len(c) = Len(s) - i + 1
      /\ \A j \in 1 .. Len(s) - i + 1 : c[j] = s[i + j - 1]
  <2>1. i \in 1 .. Len(s) + 1 /\ Len(s) \in i - 1 .. Len(s)
    BY <1>1
  <2> QED BY ONLY s \in Seq(Elem), <1>3, <2>1, Part
<1>6. PICK b : b = a \o <<e>>
  OBVIOUS
<1>7. /\ b \in Seq(Elem) /\ Len(b) = i
      /\ \A j \in 1 .. i : b[j] = IF j = i THEN e ELSE s[j]
  <2>1. <<e>> \in Seq(Elem) /\ Len(<<e>>) = 1 /\ <<e>>[1] = e
    OBVIOUS
  <2>2. /\ b \in Seq(Elem) /\ Len(b) = Len(a) + Len(<<e>>)
        /\ \A j \in 1 .. Len(a) + Len(<<e>>) :
             b[j] = IF j <= Len(a) THEN a[j] ELSE <<e>>[j - Len(a)]
    BY ONLY <1>4, <1>6, <2>1, ConcatProperties
  <2>3. Len(a) + Len(<<e>>) = i
    BY <1>1, <1>4, <2>1
  <2>4. ASSUME NEW j \in 1 .. i PROVE b[j] = IF j = i THEN e ELSE s[j]
    <3>1. CASE j = i
      <4>1. ~ (j <= Len(a)) /\ j - Len(a) = 1
        BY <1>1, <1>4, <3>1
      <4> QED BY <2>1, <2>2, <2>3, <3>1, <4>1
    <3>2. CASE j # i
      <4>1. j <= Len(a) /\ j \in 1 .. i - 1
        BY <1>1, <1>4, <3>2
      <4> QED BY <1>4, <2>2, <2>3, <3>2, <4>1
    <3> QED BY <3>1, <3>2
  <2> QED BY <2>2, <2>3, <2>4
<1>8. PICK t : t = b \o c
  OBVIOUS
<1>9. /\ t \in Seq(Elem) /\ Len(t) = Len(b) + Len(c)
      /\ \A j \in 1 .. Len(b) + Len(c) : t[j] = IF j <= Len(b) THEN b[j] ELSE c[j - Len(b)]
  BY ONLY <1>5, <1>7, <1>8, ConcatProperties
<1>10. Len(b) + Len(c) = Len(s) + 1
  BY <1>1, <1>5, <1>7
<1>11. ASSUME NEW j \in 1 .. Len(t)
       PROVE  t[j] = IF j < i THEN s[j] ELSE IF j = i THEN e ELSE s[j - 1]
  <2>1. CASE j <= i
    BY <1>1, <1>7, <1>9, <1>10, <2>1
  <2>2. CASE j > i
    <3>0. j \in Nat /\ j <= Len(s) + 1 /\ Len(b) = i
      BY <1>1, <1>7, <1>9, <1>10
    <3>1. j - i \in 1 .. Len(s) - i + 1 /\ i + (j - i) - 1 = j - 1 /\ ~ (j <= Len(b))
      BY <1>1, <2>2, <3>0
    <3>2. c[j - i] = s[j - 1]
      BY <1>5, <3>1
    <3> QED BY <1>1, <1>7, <1>9, <2>2, <3>1, <3>2
  <2> QED BY <1>1, <2>1, <2>2
<1>12. Inserted(s, i, e, t)
  BY <1>1, <1>9, <1>10, <1>11 DEF Inserted
<1>13. LS!InsertAt(s, i, e) = t
  BY <1>2, <1>3, <1>6, <1>8 DEF LS!InsertAt
<1> QED BY <1>12, <1>13

LEMMA TakenAt ==
  ASSUME NEW s \in Seq(Elem), NEW i \in 1 .. Len(s)
  PROVE  Inserted(LS!RemoveAt(s, i), i, s[i], s)
<1>1. Len(s) \in Nat /\ i \in Nat /\ i <= Len(s) /\ i >= 1 /\ s[i] \in Elem
  BY Lengths
<1>2. PICK a : a = SubSeq(s, 1, i - 1)
  OBVIOUS
<1>3. PICK c : c = SubSeq(s, i + 1, Len(s))
  OBVIOUS
<1>4. a \in Seq(Elem) /\ Len(a) = i - 1 /\ \A j \in 1 .. i - 1 : a[j] = s[j]
  <2>1. 1 \in 1 .. Len(s) + 1 /\ i - 1 \in 1 - 1 .. Len(s)
    BY <1>1
  <2>2. /\ SubSeq(s, 1, i - 1) \in Seq(Elem) /\ Len(SubSeq(s, 1, i - 1)) = (i - 1) - 1 + 1
        /\ \A j \in 1 .. (i - 1) - 1 + 1 : SubSeq(s, 1, i - 1)[j] = s[1 + j - 1]
    BY ONLY s \in Seq(Elem), <2>1, Part
  <2>3. (i - 1) - 1 + 1 = i - 1 /\ \A j \in 1 .. i - 1 : 1 + j - 1 = j
    BY <1>1
  <2> QED BY <1>2, <2>2, <2>3
<1>5. /\ c \in Seq(Elem) /\ Len(c) = Len(s) - i
      /\ \A j \in 1 .. Len(s) - i : c[j] = s[i + j]
  <2>1. i + 1 \in 1 .. Len(s) + 1 /\ Len(s) \in (i + 1) - 1 .. Len(s)
    BY <1>1
  <2>2. /\ c \in Seq(Elem) /\ Len(c) = Len(s) - (i + 1) + 1
        /\ \A j \in 1 .. Len(s) - (i + 1) + 1 : c[j] = s[(i + 1) + j - 1]
    BY ONLY s \in Seq(Elem), <1>3, <2>1, Part
  <2>3. Len(s) - (i + 1) + 1 = Len(s) - i /\ \A j \in 1 .. Len(s) - i : (i + 1) + j - 1 = i + j
    BY <1>1
  <2> QED BY <2>2, <2>3
<1>6. PICK t : t = a \o c
  OBVIOUS
<1>7. /\ t \in Seq(Elem) /\ Len(t) = Len(a) + Len(c)
      /\ \A j \in 1 .. Len(a) + Len(c) : t[j] = IF j <= Len(a) THEN a[j] ELSE c[j - Len(a)]
  BY ONLY <1>4, <1>5, <1>6, ConcatProperties
<1>8. Len(t) = Len(s) - 1
  BY <1>1, <1>4, <1>5, <1>7
<1>9. ASSUME NEW j \in 1 .. Len(s)
      PROVE  s[j] = IF j < i THEN t[j] ELSE IF j = i THEN s[i] ELSE t[j - 1]
  <2>1. CASE j < i
    <3>1. j \in 1 .. i - 1 /\ j \in 1 .. Len(a) + Len(c) /\ j <= Len(a)
      BY <1>1, <1>4, <1>5, <2>1
    <3> QED BY <1>4, <1>7, <2>1, <3>1
  <2>2. CASE j > i
    <3>1. /\ j - i \in 1 .. Len(s) - i /\ i + (j - i) = j /\ (j - 1) - Len(a) = j - i
          /\ ~ (j - 1 <= Len(a)) /\ j - 1 \in 1 .. Len(a) + Len(c) /\ ~ (j < i)
      BY <1>1, <1>4, <1>5, <2>2
    <3>2. t[j - 1] = c[j - i]
      BY <1>7, <3>1
    <3>3. c[j - i] = s[j]
      BY <1>5, <3>1
    <3> QED BY <2>2, <3>1, <3>2, <3>3
  <2> QED BY <1>1, <2>1, <2>2
<1>10. Inserted(t, i, s[i], s)
  BY <1>1, <1>7, <1>8, <1>9 DEF Inserted
<1>11. LS!RemoveAt(s, i) = t
  BY <1>2, <1>3, <1>6 DEF LS!RemoveAt
<1> QED BY <1>10, <1>11

LEMMA TakenFront ==
  ASSUME NEW s \in Seq(Elem), s # <<>>
  PROVE  Len(s) \in Nat /\ Len(s) >= 1 /\ Inserted(Tail(s), 1, s[1], s)
<1>1. Len(s) \in Nat /\ Len(s) # 0
  BY Lengths, EmptySeq
<1>2. PICK t : t = Tail(s)
  OBVIOUS
<1>3. t \in Seq(Elem) /\ Len(t) = Len(s) - 1 /\ \A j \in 1 .. Len(t) : t[j] = s[j + 1]
  BY <1>2, HeadTailProperties
<1>4. s[1] \in Elem
  BY <1>1, Lengths
<1>5. ASSUME NEW j \in 1 .. Len(s)
      PROVE  s[j] = IF j < 1 THEN t[j] ELSE IF j = 1 THEN s[1] ELSE t[j - 1]
  <2>1. CASE j = 1
    BY <2>1
  <2>2. CASE j # 1
    <3>1. j - 1 \in 1 .. Len(t) /\ (j - 1) + 1 = j /\ ~ (j < 1)
      BY <1>1, <1>3, <2>2
    <3> QED BY <1>3, <2>2, <3>1
  <2> QED BY <2>1, <2>2
<1>6. Inserted(t, 1, s[1], s)
  BY <1>1, <1>3, <1>4, <1>5 DEF Inserted
<1> QED BY <1>1, <1>2, <1>6

LEMMA TakenBack ==
  ASSUME NEW s \in Seq(Elem), s # <<>>
  PROVE  Inserted(LS!Front(s), Len(s), s[Len(s)], s) /\ LS!Last(s) = s[Len(s)]
<1>1. Len(s) \in Nat /\ Len(s) # 0
  BY Lengths, EmptySeq
<1>2. PICK t : t = SubSeq(s, 1, Len(s) - 1)
  OBVIOUS
<1>3. t \in Seq(Elem) /\ Len(t) = Len(s) - 1 /\ \A j \in 1 .. Len(s) - 1 : t[j] = s[j]
  <2>1. 1 \in 1 .. Len(s) + 1 /\ Len(s) - 1 \in 1 - 1 .. Len(s)
    BY <1>1
  <2>2. /\ t \in Seq(Elem) /\ Len(t) = (Len(s) - 1) - 1 + 1
        /\ \A j \in 1 .. (Len(s) - 1) - 1 + 1 : t[j] = s[1 + j - 1]
    BY ONLY s \in Seq(Elem), <1>2, <2>1, Part
  <2>3. /\ (Len(s) - 1) - 1 + 1 = Len(s) - 1
        /\ \A j \in 1 .. Len(s) - 1 : 1 + j - 1 = j
    BY <1>1
  <2> QED BY <2>2, <2>3
<1>4. s[Len(s)] \in Elem
  BY <1>1, Lengths
<1>5. Inserted(t, Len(s), s[Len(s)], s)
  BY <1>1, <1>3, <1>4 DEF Inserted
<1>6. LS!Front(s) = t /\ LS!Last(s) = s[Len(s)]
  BY <1>2 DEF LS!Front, LS!Last
<1> QED BY <1>5, <1>6

-----------------------------------------------------------------------------
(* A walk along links that show sequences finds them. *)
Onward(k, l, fuel, f) ==
  [n \in Node |-> LET m == k.next[n]
                  IN  IF fuel = 0 \/ m = NULL THEN <<NULL>>
                      ELSE IF k.prev[m] # n THEN <<NULL>>
                      ELSE IF m = TailOf(l) THEN <<>>
                      ELSE <<m>> \o f[fuel - 1][m]]
LEMMA OnwardAt ==
  ASSUME NEW k, NEW l, NEW fuel, NEW f, fuel # 0, NEW n \in Node, NEW m, m # NULL,
         k.next[n] = m, k.prev[m] = n
  PROVE  Onward(k, l, fuel, f)[n] = IF m = TailOf(l) THEN <<>> ELSE <<m>> \o f[fuel - 1][m]
BY Zenon DEF Onward

IsWalk(k, l, n, f) == f = [fuel \in 0 .. n |-> Onward(k, l, fuel, f)]

LEMMA WalkExists ==
  ASSUME NEW k, NEW l, NEW n \in Nat
  PROVE  \E f : IsWalk(k, l, n, f)
<1> DEFINE Bad == {i \in Nat : ~ \E f : IsWalk(k, l, i, f)}
<1> SUFFICES ASSUME Bad # {} PROVE FALSE
  OBVIOUS
<1>1. PICK m : m \in Bad /\ \A i \in Bad : m <= i
  <2>1. Bad \in SUBSET Nat
    OBVIOUS
  <2> HIDE DEF Bad
  <2> QED BY <2>1, LeastNatural
<1>2. m \in Nat
  BY <1>1
<1>3. CASE m = 0
  <2> DEFINE f == [u \in 0 .. 0 |-> [x \in Node |-> <<NULL>>]]
  <2>1. \A u \in 0 .. 0 : Onward(k, l, u, f) = [x \in Node |-> <<NULL>>]
    BY DEF Onward
  <2>2. IsWalk(k, l, 0, f)
    BY <2>1 DEF IsWalk
  <2> QED BY <1>1, <1>3, <2>2
<1>4. CASE m # 0
  <2>1. m - 1 \in Nat /\ m - 1 \notin Bad
    BY <1>1, <1>2, <1>4
  <2>2. PICK g : IsWalk(k, l, m - 1, g)
    BY <2>1
  <2> DEFINE f == [u \in 0 .. m |-> IF u = m THEN Onward(k, l, m, g) ELSE g[u]]
  <2>3. /\ \A u \in 0 .. m - 1 : f[u] = g[u] /\ g[u] = Onward(k, l, u, g)
        /\ f[m] = Onward(k, l, m, g)
        /\ f = [u \in 0 .. m |-> f[u]]
    <3>1. \A u \in 0 .. m - 1 : u \in 0 .. m /\ u # m
      BY <1>2
    <3>2. \A u \in 0 .. m - 1 : g[u] = Onward(k, l, u, g)
      BY <2>2 DEF IsWalk
    <3>3. m \in 0 .. m
      BY <1>2
    <3> QED BY ONLY <3>1, <3>2, <3>3
  <2> HIDE DEF f
  <2>4. ASSUME NEW u \in 0 .. m PROVE f[u] = Onward(k, l, u, f)
    <3>1. f[u] = Onward(k, l, u, g)
      <4>1. CASE u = m
        BY <2>3, <4>1
      <4>2. CASE u # m
        <5>1. u \in 0 .. m - 1
          BY <1>2, <4>2
        <5> QED BY <2>3, <5>1
      <4> QED BY <4>1, <4>2
    <3>2. u # 0 => f[u - 1] = g[u - 1]
      <4>1. u # 0 => u - 1 \in 0 .. m - 1
        BY <1>2
      <4> QED BY <2>3, <4>1
    <3> QED BY <3>1, <3>2 DEF Onward
  <2>5. IsWalk(k, l, m, f)
    BY <2>3, <2>4 DEF IsWalk
  <2> QED BY <1>1, <2>5
<1> QED BY <1>3, <1>4

LEMMA WalkChosen ==
  ASSUME NEW k, NEW l
  PROVE  \E f : /\ IsWalk(k, l, Cardinality(Elem) + 1, f)
                /\ Walked(k, l) = f[Cardinality(Elem) + 1][HeadOf(l)]
<1>1. Cardinality(Elem) + 1 \in Nat
  BY ElemAssumption, FS_CardinalityType
<1>2. \E f : IsWalk(k, l, Cardinality(Elem) + 1, f)
  BY <1>1, WalkExists
<1>3. IsWalk(k, l, Cardinality(Elem) + 1, CHOOSE f : IsWalk(k, l, Cardinality(Elem) + 1, f))
  BY <1>2
<1>4. Walked(k, l) = (CHOOSE f : IsWalk(k, l, Cardinality(Elem) + 1, f))
                       [Cardinality(Elem) + 1][HeadOf(l)]
  BY Zenon DEF Walked, IsWalk, Onward
<1> QED BY <1>3, <1>4

LEMMA WalkValue ==
  ASSUME NEW k, NEW o, NEW q, Shows(k, o, q), NEW l \in List,
         NEW top \in Nat, NEW f, IsWalk(k, l, top, f), top > Len(q[l])
  PROVE  f[top][HeadOf(l)] = q[l]
<1>1. PICK s \in Seq(Elem) : s = q[l]
  BY DEF Shows
<1>2. /\ Len(s) \in Nat
      /\ At(l, s, 0) = HeadOf(l) /\ At(l, s, Len(s) + 1) = TailOf(l)
      /\ \A j \in 0 .. Len(s) : /\ k.next[At(l, s, j)] = At(l, s, j + 1)
                                 /\ k.prev[At(l, s, j + 1)] = At(l, s, j)
  BY <1>1, ShownPlaces
<1>3. \A fuel \in 0 .. top : f[fuel] = Onward(k, l, fuel, f)
  BY DEF IsWalk
<1> DEFINE Good(fuel) == \A j \in 0 .. Len(s) :
                           Len(s) - j < fuel => f[fuel][At(l, s, j)] = SubSeq(s, j + 1, Len(s))
           Bad == {fuel \in Nat : fuel <= top /\ ~ Good(fuel)}
<1>4. Bad = {}
  <2> SUFFICES ASSUME Bad # {} PROVE FALSE
    OBVIOUS
  <2>1. PICK fuel : fuel \in Bad /\ \A i \in Bad : fuel <= i
    <3>1. Bad \in SUBSET Nat
      OBVIOUS
    <3> HIDE DEF Bad
    <3> QED BY <3>1, LeastNatural
  <2>2. fuel \in Nat /\ fuel <= top /\ fuel \in 0 .. top
    BY <2>1
  <2>3. PICK j \in 0 .. Len(s) : /\ Len(s) - j < fuel
                                 /\ f[fuel][At(l, s, j)] # SubSeq(s, j + 1, Len(s))
    BY <2>1
  <2>4. fuel # 0 /\ fuel - 1 \in Nat /\ fuel - 1 <= top
    BY <1>2, <2>2, <2>3
  <2>5. Good(fuel - 1)
    <3>1. fuel - 1 \notin Bad
      BY <2>1, <2>2, <2>4
    <3> QED BY <2>4, <3>1
  <2> HIDE DEF Bad
  <2>6. PICK n : n = At(l, s, j)
    OBVIOUS
  <2>7. PICK m : m = At(l, s, j + 1)
    OBVIOUS
  <2>8. n \in Node /\ m # NULL /\ k.next[n] = m /\ k.prev[m] = n
    <3>1. j \in 0 .. Len(s) + 1 /\ j + 1 \in 0 .. Len(s) + 1
      BY <1>2
    <3>2. At(l, s, j) \in Node /\ At(l, s, j + 1) # NULL
      BY <3>1, AtNode
    <3> QED BY <1>2, <2>6, <2>7, <3>2
  <2>9. f[fuel][n] = IF m = TailOf(l) THEN <<>> ELSE <<m>> \o f[fuel - 1][m]
    <3>1. f[fuel] = Onward(k, l, fuel, f)
      BY <1>3, <2>2
    <3>2. Onward(k, l, fuel, f)[n] = IF m = TailOf(l) THEN <<>> ELSE <<m>> \o f[fuel - 1][m]
      BY ONLY <2>4, <2>8, OnwardAt
    <3> QED BY <3>1, <3>2
  <2>10. CASE j = Len(s)
    <3>1. m = TailOf(l)
      BY <1>2, <2>7, <2>10
    <3>2. SubSeq(s, j + 1, Len(s)) = <<>>
      <4>1. j + 1 \in Int /\ Len(s) \in Int /\ Len(s) < j + 1
        BY <1>2, <2>10
      <4> QED BY <4>1, SubSeqEmpty
    <3> QED BY <2>3, <2>6, <2>9, <3>1, <3>2
  <2>11. CASE j # Len(s)
    <3>1. /\ j + 1 \in 1 .. Len(s) /\ Len(s) \in j + 1 .. Len(s) /\ j + 1 \in 0 .. Len(s)
          /\ j + 1 \in 0 .. Len(s) + 1 /\ Len(s) - (j + 1) < fuel - 1
      BY <1>2, <2>2, <2>3, <2>11
    <3>2. m = s[j + 1] /\ m \in Elem
      BY <2>7, <3>1, AtNode
    <3>3. m # TailOf(l)
      BY <3>2, Headers
    <3>4. f[fuel - 1][m] = SubSeq(s, (j + 1) + 1, Len(s))
      BY <2>5, <2>7, <3>1
    <3> HIDE DEF Good
    <3>5. SubSeq(s, j + 1, Len(s)) = <<s[j + 1]>> \o SubSeq(s, (j + 1) + 1, Len(s))
      BY ONLY s \in Seq(Elem), <3>1, SubSeqRecursiveFirst
    <3> QED BY <2>3, <2>6, <2>9, <3>2, <3>3, <3>4, <3>5
  <2> QED BY <2>10, <2>11
<1>5. Good(top)
  BY <1>4
<1>6. 0 \in 0 .. Len(s) /\ Len(s) - 0 < top /\ 0 + 1 = 1
  BY <1>1, <1>2
<1>7. f[top][At(l, s, 0)] = SubSeq(s, 1, Len(s))
  BY <1>5, <1>6
<1>8. SubSeq(s, 1, Len(s)) = s
  BY SubSeqFull
<1> QED BY <1>1, <1>2, <1>7, <1>8

LEMMA WalkShows ==
  ASSUME NEW k, NEW o, NEW q, Shows(k, o, q), NEW l \in List
  PROVE  Walked(k, l) = q[l]
<1>1. q[l] \in Seq(Elem) /\ IsInjective(q[l])
  BY DEF Shows
<1>2. IsFiniteSet(Range(q[l])) /\ Cardinality(Range(q[l])) = Len(q[l])
  BY <1>1, CountDistinct
<1>3. Range(q[l]) \subseteq Elem
  BY <1>1, Lengths
<1>4. Cardinality(Range(q[l])) <= Cardinality(Elem) /\ Cardinality(Elem) \in Nat
  BY <1>3, ElemAssumption, FS_Subset, FS_CardinalityType
<1>5. PICK f : /\ IsWalk(k, l, Cardinality(Elem) + 1, f)
               /\ Walked(k, l) = f[Cardinality(Elem) + 1][HeadOf(l)]
  BY WalkChosen
<1>6. PICK top \in Nat : top = Cardinality(Elem) + 1
  BY <1>4
<1>7. top > Len(q[l])
  <2>1. Len(q[l]) \in Nat
    BY <1>1, Lengths
  <2> QED BY <1>2, <1>4, <1>6, <2>1
<1>8. IsWalk(k, l, top, f) /\ Walked(k, l) = f[top][HeadOf(l)]
  BY <1>5, <1>6
<1> QED BY ONLY Shows(k, o, q), l \in List, <1>7, <1>8, WalkValue

-----------------------------------------------------------------------------
LEMMA ContentsShown ==
  ASSUME NEW q, Shows(links, owner, q)
  PROVE  Contents = q /\ LS!Linked = {e \in Elem : owner[e] # NULL}
<1>1. q \in [List -> Seq(Elem)] /\ owner \in [Elem -> List \cup {NULL}]
  BY DEF Shows
<1>2. \A l \in List : Walked(links, l) = q[l]
  BY WalkShows
<1>3. Contents = q
  BY <1>1, <1>2 DEF Contents
<1>4. \A l \in List : LS!ToSet(q[l]) = Range(q[l])
  BY Zenon DEF LS!ToSet, Range
<1>5. LS!Linked = UNION {Range(q[l]) : l \in List}
  BY <1>3, <1>4 DEF LS!Linked
<1>6. \A l \in List : \A e \in Elem : e \in Range(q[l]) <=> owner[e] = l
  BY DEF Shows
<1>7. \A l \in List : Range(q[l]) \subseteq Elem
  BY <1>1, Lengths
<1>8. LS!Linked = {e \in Elem : owner[e] # NULL}
  BY <1>1, <1>5, <1>6, <1>7, Headers
<1> QED BY <1>3, <1>8

LEMMA ContentsShownNext ==
  ASSUME NEW q, Shows(links', owner', q)
  PROVE  Contents' = q
<1>1. q \in [List -> Seq(Elem)]
  BY DEF Shows
<1>2. \A l \in List : Walked(links', l) = q[l]
  BY WalkShows
<1> QED BY <1>1, <1>2 DEF Contents

LEMMA WithListIs ==
  ASSUME NEW q \in [List -> Seq(Elem)], NEW l \in List, NEW t \in Seq(Elem)
  PROVE  WithList(q, l, t, [q EXCEPT ![l] = t])
BY DEF WithList

LEMMA OwnedBy ==
  ASSUME NEW o \in [Elem -> List \cup {NULL}], NEW e \in Elem, NEW l \in List \cup {NULL}
  PROVE  Owned(o, e, l, [o EXCEPT ![e] = l])
BY DEF Owned

(* The ASSERTs of list_insert() and list_remove() hold, and their links show *)
(* the sequences with one element more, or less.                             *)
LEMMA PutStep ==
  ASSUME NEW q, Shows(links, owner, q), NEW l \in List, NEW e \in Elem, owner[e] = NULL,
         NEW i, NEW t, Inserted(q[l], i, e, t), NEW b, b = At(l, q[l], i), NEW c,
         Call(IsInterior(links, b) \/ IsTail(links, b),
              Insert(links, b, e), [owner EXCEPT ![e] = l], c)
  PROVE  Shows(links', owner', [q EXCEPT ![l] = t]) /\ call' = c /\ key' = key
<1>1. /\ links \in [prev: Pointer, next: Pointer] /\ owner \in [Elem -> List \cup {NULL}]
      /\ q \in [List -> Seq(Elem)] /\ q[l] \in Seq(Elem) /\ t \in Seq(Elem)
  BY DEF Shows, Inserted
<1>2. /\ Len(q[l]) \in Nat /\ i \in 1 .. Len(q[l]) + 1 /\ i - 1 \in 0 .. Len(q[l])
      /\ i \in 0 .. Len(q[l]) + 1 /\ i - 1 \in 0 .. Len(q[l]) + 1 /\ (i - 1) + 1 = i
  BY <1>1, Lengths DEF Inserted
<1>3. PICK p : p = At(l, q[l], i - 1)
  OBVIOUS
<1>4. p \in Node /\ p # NULL /\ b \in Node /\ b # NULL
  BY <1>1, <1>2, <1>3, AtNode
<1>5. links.prev[b] = p
  BY <1>2, <1>3, ShownPlaces
<1>6. p # e /\ b # e
  BY <1>2, <1>3, NoneAt
<1>7. IsInterior(links, b) \/ IsTail(links, b)
  BY <1>4, <1>5 DEF IsInterior, IsTail
<1>8. /\ links' = Insert(links, b, e) /\ owner' = [owner EXCEPT ![e] = l]
      /\ call' = c /\ key' = key
  BY <1>7 DEF Call
<1>9. PutBetween(links, p, b, e, links')
  <2>1. e \in Node
    BY Headers
  <2>2. PutBetween(links, p, b, e, Insert(links, b, e))
    BY <1>1, <1>4, <1>5, <1>6, <2>1, InsertBetween
  <2> QED BY <1>8, <2>2
<1>10. Owned(owner, e, l, owner')
  BY <1>1, <1>8, OwnedBy
<1>11. PICK q2 : q2 = [q EXCEPT ![l] = t]
  OBVIOUS
<1>12. WithList(q, l, t, q2)
  BY <1>1, <1>11, WithListIs
<1>13. PutBetween(links, At(l, q[l], i - 1), At(l, q[l], i), e, links')
  BY <1>3, <1>9
<1>14. Shows(links', owner', q2)
  BY ONLY Shows(links, owner, q), l \in List, e \in Elem, owner[e] = NULL,
          Inserted(q[l], i, e, t), <1>10, <1>12, <1>13, InsertShows
<1> QED BY <1>8, <1>11, <1>14

LEMMA TakeStep ==
  ASSUME NEW q, Shows(links, owner, q), NEW l \in List, NEW e \in Elem,
         NEW i, NEW t, Inserted(t, i, e, q[l]), NEW c,
         Call(IsInterior(links, e), Unlink(links, e), [owner EXCEPT ![e] = NULL], c)
  PROVE  Shows(links', owner', [q EXCEPT ![l] = t]) /\ call' = c /\ key' = key
<1>1. /\ links \in [prev: Pointer, next: Pointer] /\ owner \in [Elem -> List \cup {NULL}]
      /\ q \in [List -> Seq(Elem)] /\ q[l] \in Seq(Elem) /\ t \in Seq(Elem)
  BY DEF Shows, Inserted
<1>2. /\ Len(t) \in Nat /\ Len(q[l]) = Len(t) + 1 /\ i \in 1 .. Len(q[l])
      /\ i \in 0 .. Len(q[l]) /\ i - 1 \in 0 .. Len(q[l]) /\ i \in 0 .. Len(q[l]) + 1
      /\ i - 1 \in 0 .. Len(q[l]) + 1 /\ i + 1 \in 0 .. Len(q[l]) + 1 /\ (i - 1) + 1 = i
  BY <1>1, Lengths DEF Inserted
<1>3. PICK p : p = At(l, q[l], i - 1)
  OBVIOUS
<1>4. PICK b : b = At(l, q[l], i + 1)
  OBVIOUS
<1>5. p \in Node /\ p # NULL /\ b \in Node /\ b # NULL
  BY <1>1, <1>2, <1>3, <1>4, AtNode
<1>6. e = At(l, q[l], i)
  <2>1. q[l][i] = e
    BY <1>2 DEF Inserted
  <2> QED BY <1>1, <1>2, <2>1, AtNode
<1>7. links.prev[e] = p /\ links.next[e] = b
  BY <1>2, <1>3, <1>4, <1>6, ShownPlaces
<1>8. IsInterior(links, e)
  BY <1>5, <1>7, Headers DEF IsInterior
<1>9. /\ links' = Unlink(links, e) /\ owner' = [owner EXCEPT ![e] = NULL]
      /\ call' = c /\ key' = key
  BY <1>8 DEF Call
<1>10. Bridged(links, p, b, links')
  <2>1. Bridged(links, p, b, Unlink(links, e))
    BY <1>1, <1>5, <1>7, UnlinkBridged
  <2> QED BY <1>9, <2>1
<1>11. Owned(owner, e, NULL, owner')
  BY <1>1, <1>9, OwnedBy
<1>12. PICK q2 : q2 = [q EXCEPT ![l] = t]
  OBVIOUS
<1>13. WithList(q, l, t, q2)
  BY <1>1, <1>12, WithListIs
<1>14. Bridged(links, At(l, q[l], i - 1), At(l, q[l], i + 1), links')
  BY <1>3, <1>4, <1>10
<1>15. Shows(links', owner', q2)
  BY ONLY Shows(links, owner, q), l \in List, e \in Elem,
          Inserted(t, i, e, q[l]), <1>11, <1>13, <1>14, RemoveShows
<1> QED BY <1>9, <1>12, <1>15

-----------------------------------------------------------------------------
(* The inductive invariant: the links show some sequences. *)
LinkInv == \E q : Shows(links, owner, q)

LEMMA LinkInit == Init => LinkInv /\ LS!ListInit
<1> SUFFICES ASSUME Init PROVE LinkInv /\ LS!ListInit
  OBVIOUS
<1> DEFINE q == [l \in List |-> <<>>]
<1>1. /\ links = [prev |-> [n \in Node |-> IF n \in Tails THEN HeadOf(n[2]) ELSE NULL],
                  next |-> [n \in Node |-> IF n \in Heads THEN TailOf(n[2]) ELSE NULL]]
      /\ owner = [e \in Elem |-> NULL] /\ call = [op |-> "init"]
  BY DEF Init
<1>2. /\ \A l \in List : HeadOf(l) \in Heads /\ TailOf(l) \in Tails
      /\ \A n \in Heads : \E l \in List : n = HeadOf(l) /\ n[2] = l
      /\ \A n \in Tails : \E l \in List : n = TailOf(l) /\ n[2] = l
  BY DEF Heads, Tails, HeadOf, TailOf
<1>3. \A l \in List : HeadOf(l) \notin Tails /\ TailOf(l) \notin Heads
  BY <1>2, Headers
<1>4. links.prev \in Pointer /\ links.next \in Pointer
  <2>1. \A n \in Node : (IF n \in Tails THEN HeadOf(n[2]) ELSE NULL) \in Node \cup {NULL}
    BY <1>2, Headers
  <2>2. \A n \in Node : (IF n \in Heads THEN TailOf(n[2]) ELSE NULL) \in Node \cup {NULL}
    BY <1>2, Headers
  <2> QED BY <1>1, <2>1, <2>2 DEF Pointer
<1>5. links \in [prev: Pointer, next: Pointer]
  BY <1>1, <1>4
<1>6. ASSUME NEW l \in List
      PROVE  /\ links.prev[HeadOf(l)] = NULL /\ links.next[TailOf(l)] = NULL
             /\ links.next[HeadOf(l)] = TailOf(l) /\ links.prev[TailOf(l)] = HeadOf(l)
  <2>1. HeadOf(l) \in Node /\ TailOf(l) \in Node
    BY Headers
  <2>2. HeadOf(l)[2] = l /\ TailOf(l)[2] = l
    BY DEF HeadOf, TailOf
  <2> QED BY <1>1, <1>2, <1>3, <2>1, <2>2
<1>7. \A l \in List : q[l] = <<>>
  OBVIOUS
<1>8. q \in [List -> Seq(Elem)]
  OBVIOUS
<1> HIDE DEF q
<1>9. ASSUME NEW l \in List PROVE IsInjective(q[l]) /\ Chained(links, l, q[l])
  <2>1. IsInjective(<<>>)
    BY RangeEmpty
  <2>2. Len(<<>>) = 0 /\ 0 .. 0 = {0} /\ 0 + 1 = 1
    OBVIOUS
  <2>3. At(l, <<>>, 0) = HeadOf(l) /\ At(l, <<>>, 1) = TailOf(l)
    BY <2>2 DEF At
  <2>4. Chained(links, l, <<>>)
    BY <1>6, <2>2, <2>3 DEF Chained
  <2> QED BY <1>7, <2>1, <2>4
<1>10. \A l \in List : \A e \in Elem : e \in Range(q[l]) <=> owner[e] = l
  BY <1>1, <1>7, RangeEmpty, Headers
<1>11. Shows(links, owner, q)
  BY <1>1, <1>5, <1>8, <1>9, <1>10 DEF Shows
<1>12. Contents = q
  BY <1>11, ContentsShown
<1> QED BY <1>1, <1>11, <1>12 DEF LinkInv, LS!ListInit, q

(* Each call does to the sequences what its comment says. *)
Promised == LinkInv' /\ LS!ListStep /\ key' = key

LEMMA PushFrontLinks ==
  ASSUME LinkInv, NEW l \in List, NEW e \in Elem, PushFront(l, e)
  PROVE  Promised
<1>1. PICK q : Shows(links, owner, q)
  BY DEF LinkInv
<1>2. PICK t : t = <<e>> \o q[l]
  OBVIOUS
<1>3. q[l] \in Seq(Elem) /\ Len(q[l]) \in Nat /\ 0 \in 0 .. Len(q[l]) /\ 0 + 1 = 1
  BY <1>1, ShownPlaces
<1>4. Inserted(q[l], 1, e, t)
  BY <1>2, <1>3, PushedFront
<1>5. Begin(links, l) = At(l, q[l], 1)
  BY <1>1, <1>3, ShownPlaces DEF Begin
<1>6. PICK c : c = [op |-> "push_front", list |-> l, elem |-> e]
  OBVIOUS
<1>7. /\ owner[e] = NULL
      /\ Call(IsInterior(links, Begin(links, l)) \/ IsTail(links, Begin(links, l)),
              Insert(links, Begin(links, l), e), [owner EXCEPT ![e] = l], c)
  BY <1>6 DEF PushFront, Put
<1>8. Shows(links', owner', [q EXCEPT ![l] = t]) /\ call' = c /\ key' = key
  BY <1>1, <1>4, <1>5, <1>7, PutStep
<1>9. Contents = q /\ e \notin LS!Linked /\ Contents' = [q EXCEPT ![l] = t]
  BY <1>1, <1>7, <1>8, ContentsShown, ContentsShownNext
<1>10. LS!PushFront(l, e)
  BY <1>2, <1>6, <1>8, <1>9 DEF LS!PushFront
<1> QED BY <1>8, <1>10 DEF Promised, LinkInv, LS!ListStep

LEMMA PushBackLinks ==
  ASSUME LinkInv, NEW l \in List, NEW e \in Elem, PushBack(l, e)
  PROVE  Promised
<1>1. PICK q : Shows(links, owner, q)
  BY DEF LinkInv
<1>2. PICK t : t = Append(q[l], e)
  OBVIOUS
<1>3. q[l] \in Seq(Elem)
  BY <1>1, ShownPlaces
<1>4. Inserted(q[l], Len(q[l]) + 1, e, t)
  BY <1>2, <1>3, PushedBack
<1>5. TailOf(l) = At(l, q[l], Len(q[l]) + 1)
  BY <1>1, ShownPlaces
<1>6. PICK c : c = [op |-> "push_back", list |-> l, elem |-> e]
  OBVIOUS
<1>7. /\ owner[e] = NULL
      /\ Call(IsInterior(links, TailOf(l)) \/ IsTail(links, TailOf(l)),
              Insert(links, TailOf(l), e), [owner EXCEPT ![e] = l], c)
  BY <1>6 DEF PushBack, Put
<1>8. Shows(links', owner', [q EXCEPT ![l] = t]) /\ call' = c /\ key' = key
  BY <1>1, <1>4, <1>5, <1>7, PutStep
<1>9. Contents = q /\ e \notin LS!Linked /\ Contents' = [q EXCEPT ![l] = t]
  BY <1>1, <1>7, <1>8, ContentsShown, ContentsShownNext
<1>10. LS!PushBack(l, e)
  BY <1>2, <1>6, <1>8, <1>9 DEF LS!PushBack
<1> QED BY <1>8, <1>10 DEF Promised, LinkInv, LS!ListStep

LEMMA InsertLinks ==
  ASSUME LinkInv, NEW before \in Elem, NEW e \in Elem, ListInsert(before, e)
  PROVE  Promised
<1>1. PICK q : Shows(links, owner, q)
  BY DEF LinkInv
<1>2. PICK l \in List : l = owner[before]
  BY <1>1 DEF ListInsert, Shows
<1>3. q[l] \in Seq(Elem) /\ Len(q[l]) \in Nat
  BY <1>1, ShownPlaces
<1>4. PICK i \in 1 .. Len(q[l]) : q[l][i] = before
  <2>1. before \in Range(q[l])
    BY <1>1, <1>2 DEF Shows
  <2> QED BY <1>3, <2>1, Lengths
<1>5. PICK t : t = LS!InsertAt(q[l], i, e)
  OBVIOUS
<1>6. Inserted(q[l], i, e, t)
  BY <1>3, <1>5, PutAt
<1>7. before = At(l, q[l], i)
  <2>1. i \in 0 .. Len(q[l]) + 1
    BY <1>3
  <2> QED BY <1>3, <1>4, <2>1, AtNode
<1>8. PICK c : c = [op |-> "insert", before |-> before, elem |-> e]
  OBVIOUS
<1>9. /\ owner[e] = NULL
      /\ Call(IsInterior(links, before) \/ IsTail(links, before),
              Insert(links, before, e), [owner EXCEPT ![e] = l], c)
  BY <1>2, <1>8 DEF ListInsert
<1>10. Shows(links', owner', [q EXCEPT ![l] = t]) /\ call' = c /\ key' = key
  BY <1>1, <1>6, <1>7, <1>9, PutStep
<1>11. Contents = q /\ e \notin LS!Linked /\ Contents' = [q EXCEPT ![l] = t]
  BY <1>1, <1>9, <1>10, ContentsShown, ContentsShownNext
<1>12. LS!Insert(l, i, e)
  BY <1>4, <1>5, <1>8, <1>10, <1>11 DEF LS!Insert
<1>13. i \in DOMAIN Contents[l]
  BY <1>3, <1>11, Lengths
<1> QED BY <1>10, <1>12, <1>13 DEF Promised, LinkInv, LS!ListStep

(* A list whose first element is its tail shows the empty sequence. *)
LEMMA NotEmpty ==
  ASSUME NEW q, Shows(links, owner, q), NEW l \in List, ~ Empty(links, l)
  PROVE  /\ q[l] # <<>> /\ Len(q[l]) \in Nat /\ Len(q[l]) >= 1
         /\ Begin(links, l) = q[l][1] /\ links.prev[TailOf(l)] = q[l][Len(q[l])]
<1>1. /\ q[l] \in Seq(Elem) /\ Len(q[l]) \in Nat
      /\ At(l, q[l], 0) = HeadOf(l) /\ At(l, q[l], Len(q[l]) + 1) = TailOf(l)
      /\ \A j \in 0 .. Len(q[l]) : /\ links.next[At(l, q[l], j)] = At(l, q[l], j + 1)
                                   /\ links.prev[At(l, q[l], j + 1)] = At(l, q[l], j)
  BY ShownPlaces
<1>2. Begin(links, l) = At(l, q[l], 1)
  <2>1. 0 \in 0 .. Len(q[l]) /\ 0 + 1 = 1
    BY <1>1
  <2> QED BY <1>1, <2>1 DEF Begin
<1>3. Len(q[l]) # 0
  BY <1>1, <1>2 DEF Empty
<1>4. 1 \in 1 .. Len(q[l]) /\ 1 \in 0 .. Len(q[l]) + 1
  BY <1>1, <1>3
<1>5. Begin(links, l) = q[l][1]
  BY <1>1, <1>2, <1>4, AtNode
<1>6. Len(q[l]) \in 1 .. Len(q[l]) /\ Len(q[l]) \in 0 .. Len(q[l]) + 1 /\ Len(q[l]) \in 0 .. Len(q[l])
  BY <1>1, <1>3
<1>7. links.prev[TailOf(l)] = q[l][Len(q[l])]
  <2>1. links.prev[TailOf(l)] = At(l, q[l], Len(q[l]))
    BY <1>1, <1>6
  <2> QED BY <1>1, <1>6, <2>1, AtNode
<1>8. q[l] # <<>>
  BY <1>1, <1>3, EmptySeq
<1> QED BY <1>1, <1>3, <1>5, <1>7, <1>8

LEMMA PopFrontLinks ==
  ASSUME LinkInv, NEW l \in List, PopFront(l)
  PROVE  Promised
<1>1. PICK q : Shows(links, owner, q)
  BY DEF LinkInv
<1>2. ~ Empty(links, l)
  BY DEF PopFront, Pop
<1>3. q[l] \in Seq(Elem) /\ q[l] # <<>> /\ Begin(links, l) = q[l][1]
  BY <1>1, <1>2, ShownPlaces, NotEmpty
<1>4. PICK t : t = Tail(q[l])
  OBVIOUS
<1>5. PICK e : e = q[l][1]
  OBVIOUS
<1>6. Inserted(t, 1, e, q[l])
  BY <1>3, <1>4, <1>5, TakenFront
<1>7. e \in Elem
  BY <1>6 DEF Inserted
<1>8. PICK c : c = [op |-> "pop_front", list |-> l, elem |-> e]
  OBVIOUS
<1>9. Call(IsInterior(links, e), Unlink(links, e), [owner EXCEPT ![e] = NULL], c)
  BY <1>3, <1>5, <1>8 DEF PopFront, Pop
<1>10. Shows(links', owner', [q EXCEPT ![l] = t]) /\ call' = c /\ key' = key
  BY <1>1, <1>6, <1>7, <1>9, TakeStep
<1>11. Contents = q /\ Contents' = [q EXCEPT ![l] = t]
  BY <1>1, <1>10, ContentsShown, ContentsShownNext
<1>12. LS!PopFront(l)
  BY <1>3, <1>4, <1>5, <1>8, <1>10, <1>11 DEF LS!PopFront
<1> QED BY <1>10, <1>12 DEF Promised, LinkInv, LS!ListStep

LEMMA PopBackLinks ==
  ASSUME LinkInv, NEW l \in List, PopBack(l)
  PROVE  Promised
<1>1. PICK q : Shows(links, owner, q)
  BY DEF LinkInv
<1>2. ~ Empty(links, l)
  BY DEF PopBack, Pop
<1>3. q[l] \in Seq(Elem) /\ q[l] # <<>> /\ links.prev[TailOf(l)] = q[l][Len(q[l])]
  BY <1>1, <1>2, ShownPlaces, NotEmpty
<1>4. PICK t : t = LS!Front(q[l])
  OBVIOUS
<1>5. PICK e : e = q[l][Len(q[l])]
  OBVIOUS
<1>6. Inserted(t, Len(q[l]), e, q[l]) /\ LS!Last(q[l]) = e
  BY <1>3, <1>4, <1>5, TakenBack
<1>7. e \in Elem
  BY <1>6 DEF Inserted
<1>8. PICK c : c = [op |-> "pop_back", list |-> l, elem |-> e]
  OBVIOUS
<1>9. Call(IsInterior(links, e), Unlink(links, e), [owner EXCEPT ![e] = NULL], c)
  BY <1>3, <1>5, <1>8 DEF PopBack, Pop
<1>10. Shows(links', owner', [q EXCEPT ![l] = t]) /\ call' = c /\ key' = key
  BY <1>1, <1>6, <1>7, <1>9, TakeStep
<1>11. Contents = q /\ Contents' = [q EXCEPT ![l] = t]
  BY <1>1, <1>10, ContentsShown, ContentsShownNext
<1>12. LS!PopBack(l)
  BY <1>3, <1>4, <1>6, <1>8, <1>10, <1>11 DEF LS!PopBack
<1> QED BY <1>10, <1>12 DEF Promised, LinkInv, LS!ListStep

LEMMA RemoveLinks ==
  ASSUME LinkInv, NEW e \in Elem, ListRemove(e)
  PROVE  Promised
<1>1. PICK q : Shows(links, owner, q)
  BY DEF LinkInv
<1>2. PICK l \in List : l = owner[e]
  BY <1>1 DEF ListRemove, Shows
<1>3. q[l] \in Seq(Elem) /\ Len(q[l]) \in Nat
  BY <1>1, ShownPlaces
<1>4. PICK i \in 1 .. Len(q[l]) : q[l][i] = e
  <2>1. e \in Range(q[l])
    BY <1>1, <1>2 DEF Shows
  <2> QED BY <1>3, <2>1, Lengths
<1>5. PICK t : t = LS!RemoveAt(q[l], i)
  OBVIOUS
<1>6. Inserted(t, i, e, q[l])
  BY <1>3, <1>4, <1>5, TakenAt
<1>7. PICK after : after = IF i = Len(q[l]) THEN NULL ELSE q[l][i + 1]
  OBVIOUS
<1>8. (IF links.next[e] \in Elem THEN links.next[e] ELSE NULL) = after
  <2>1. i \in 0 .. Len(q[l]) /\ i \in 0 .. Len(q[l]) + 1 /\ i + 1 \in 0 .. Len(q[l]) + 1
    BY <1>3
  <2>2. At(l, q[l], i) = e
    BY <1>3, <1>4, <2>1, AtNode
  <2>3. links.next[e] = At(l, q[l], i + 1)
    BY <1>1, <2>1, <2>2, ShownPlaces
  <2>4. CASE i = Len(q[l])
    <3>1. At(l, q[l], i + 1) = TailOf(l)
      BY <1>1, <2>4, ShownPlaces
    <3> QED BY <1>7, <2>3, <2>4, <3>1, Headers
  <2>5. CASE i # Len(q[l])
    <3>1. i + 1 \in 1 .. Len(q[l])
      BY <1>3, <2>5
    <3>2. At(l, q[l], i + 1) = q[l][i + 1] /\ q[l][i + 1] \in Elem
      BY <1>3, <2>1, <3>1, AtNode
    <3> QED BY <1>7, <2>3, <2>5, <3>2
  <2> QED BY <2>4, <2>5
<1>9. PICK c : c = [op |-> "remove", list |-> l, elem |-> e, result |-> after]
  OBVIOUS
<1>10. Call(IsInterior(links, e), Unlink(links, e), [owner EXCEPT ![e] = NULL], c)
  BY <1>2, <1>8, <1>9 DEF ListRemove
<1>11. Shows(links', owner', [q EXCEPT ![l] = t]) /\ call' = c /\ key' = key
  BY <1>1, <1>6, <1>10, TakeStep
<1>12. Contents = q /\ Contents' = [q EXCEPT ![l] = t]
  BY <1>1, <1>11, ContentsShown, ContentsShownNext
<1>13. LS!ListRemove(l, i)
  BY <1>4, <1>5, <1>7, <1>9, <1>11, <1>12 DEF LS!ListRemove
<1>14. i \in DOMAIN Contents[l]
  BY <1>3, <1>12, Lengths
<1> QED BY <1>11, <1>13, <1>14 DEF Promised, LinkInv, LS!ListStep

LEMMA LinkNext ==
  ASSUME LinkInv, [LinkStep]_vars
  PROVE  LinkInv' /\ [LS!ListStep /\ key' = key]_<<Contents, key, call>>
<1>1. CASE LinkStep
  <2>1. Promised
    BY <1>1, PushFrontLinks, PushBackLinks, InsertLinks, PopFrontLinks, PopBackLinks,
       RemoveLinks DEF LinkStep
  <2> QED BY <2>1 DEF Promised
<1>2. CASE UNCHANGED vars
  BY <1>2 DEF vars, LinkInv, Contents
<1> QED BY <1>1, <1>2

(* Linking and unlinking implement sequences: for every number of lists and  *)
(* elements, whatever push, pop, insert and remove calls were made, each     *)
(* list can be walked forwards and backwards through exactly the elements    *)
(* that were put there, in the promised order; list_remove() and the pops    *)
(* return what the comments of list.c say; the ASSERTs of list_insert() and  *)
(* list_remove() hold; and the stale pointers of removed elements are never  *)
(* met.                                                                      *)
THEOREM ListsAreSequences == LinkSpec => ImplementsSequences
<1>1. Init => LinkInv /\ LS!ListInit
  BY LinkInit
<1>2. LinkInv /\ [LinkStep]_vars
        => LinkInv' /\ [LS!ListStep /\ UNCHANGED key]_<<Contents, key, call>>
  BY LinkNext
<1> QED BY <1>1, <1>2, PTL DEF LinkSpec, ImplementsSequences, LS!ListSpec
=============================================================================
