----------------------------- MODULE DataLemmas -----------------------------
(***************************************************************************)
(* Facts about the data of the models: the queues the kernel keeps as      *)
(* lists (list_push_back(), list_pop_front(), list_push_front()), which    *)
(* elements are on them, each once; and least numbers.                     *)
(***************************************************************************)
EXTENDS Integers, Sequences, Functions, FiniteSetsExt, SequenceTheorems,
        WellFoundedInduction, TLAPS

(* Appending adds one element, and keeps distinct elements distinct. *)
LEMMA RangeAppend ==
  ASSUME NEW S, NEW q \in Seq(S), NEW x \in S
  PROVE  /\ Range(Append(q, x)) = Range(q) \cup {x}
         /\ IsInjective(q) /\ x \notin Range(q) => IsInjective(Append(q, x))
<1>1. /\ Append(q, x) \in Seq(S)
      /\ Len(Append(q, x)) = Len(q) + 1
      /\ \A i \in 1 .. Len(q) : Append(q, x)[i] = q[i]
      /\ Append(q, x)[Len(q) + 1] = x
  BY AppendProperties
<1>2. DOMAIN q = 1 .. Len(q) /\ Len(q) \in Nat
      /\ DOMAIN Append(q, x) = 1 .. (Len(q) + 1)
  BY <1>1, LenProperties
<1>3. 1 .. (Len(q) + 1) = (1 .. Len(q)) \cup {Len(q) + 1}
  BY <1>2
<1>4. Range(Append(q, x)) = Range(q) \cup {x}
  BY <1>1, <1>2, <1>3 DEF Range
<1>5. ASSUME IsInjective(q), x \notin Range(q) PROVE IsInjective(Append(q, x))
  <2>1. \A i \in 1 .. Len(q) : q[i] # x
    BY <1>2, <1>5 DEF Range
  <2>2. \A i, j \in 1 .. Len(q) : q[i] = q[j] => i = j
    BY <1>2, <1>5 DEF IsInjective
  <2> QED BY <1>1, <1>2, <1>3, <2>1, <2>2 DEF IsInjective
<1> QED BY <1>4, <1>5

(* Popping takes the first element away. *)
LEMMA RangeTail ==
  ASSUME NEW S, NEW q \in Seq(S), q # <<>>
  PROVE  /\ Head(q) \in Range(q) /\ Head(q) \in S
         /\ IsInjective(q) => /\ Range(Tail(q)) = Range(q) \ {Head(q)}
                              /\ IsInjective(Tail(q))
<1>1. /\ Head(q) \in S /\ Tail(q) \in Seq(S)
      /\ Len(Tail(q)) = Len(q) - 1
      /\ \A i \in 1 .. Len(Tail(q)) : Tail(q)[i] = q[i + 1]
  BY HeadTailProperties
<1>2. Len(q) \in Nat /\ Len(q) # 0 /\ DOMAIN q = 1 .. Len(q)
      /\ DOMAIN Tail(q) = 1 .. (Len(q) - 1)
  BY <1>1, LenProperties, EmptySeq
<1>3. Head(q) = q[1] /\ 1 \in DOMAIN q
  BY <1>2, HeadTailProperties
<1>4. Head(q) \in Range(q)
  BY <1>3 DEF Range
<1>5. ASSUME IsInjective(q) PROVE Range(Tail(q)) = Range(q) \ {Head(q)}
  <2>1. ASSUME NEW y \in Range(Tail(q)) PROVE y \in Range(q) \ {Head(q)}
    <3>1. PICK i \in 1 .. (Len(q) - 1) : y = q[i + 1]
      BY <1>1, <1>2 DEF Range
    <3>2. i + 1 \in 1 .. Len(q) /\ i + 1 # 1
      BY <1>2
    <3> QED BY <1>2, <1>3, <1>5, <3>1, <3>2 DEF Range, IsInjective
  <2>2. ASSUME NEW y \in Range(q) \ {Head(q)} PROVE y \in Range(Tail(q))
    <3>1. PICK i \in 1 .. Len(q) : y = q[i]
      BY <1>2 DEF Range
    <3>2. i # 1
      BY <1>3, <3>1
    <3>3. i - 1 \in 1 .. (Len(q) - 1) /\ (i - 1) + 1 = i
      BY <1>2, <3>2
    <3>4. Tail(q)[i - 1] = y
      BY <1>1, <1>2, <3>1, <3>3
    <3> QED BY <1>2, <3>3, <3>4 DEF Range
  <2> QED BY <2>1, <2>2
<1>6. ASSUME IsInjective(q) PROVE IsInjective(Tail(q))
  BY <1>1, <1>2, <1>6 DEF IsInjective
<1> QED BY <1>1, <1>4, <1>5, <1>6

(* The empty queue. *)
LEMMA RangeEmpty == Range(<<>>) = {} /\ IsInjective(<<>>)
BY DEF Range, IsInjective

(* Every non-empty set of numbers has a least one: Min() is what it says.    *)
Less == {ss \in Nat \X Nat : ss[1] < ss[2]}

LEMMA LeastNatural ==
  ASSUME NEW S \in SUBSET Nat, S # {}
  PROVE  Min(S) \in S /\ \A y \in S : Min(S) <= y
<1>1. IsWellFoundedOn(Less, Nat)
  BY NatLessThanWellFounded DEF OpToRel, Less
<1>2. PICK x \in S : \A y \in S : ~ (<<y, x>> \in Less)
  BY <1>1, WFMin
<1>3. \A y, z \in Nat : y < z => <<y, z>> \in Less
  BY DEF Less
<1>4. \A y \in S : ~ (y < x)
  BY <1>2, <1>3
<1>5. \E z \in S : \A y \in S : z <= y
  BY <1>4
<1> QED BY <1>5 DEF Min

(* Division rounds down. *)
LEMMA Division ==
  ASSUME NEW n \in Nat, NEW k \in Nat \ {0}
  PROVE  /\ n \div k \in Nat
         /\ k * (n \div k) <= n /\ n < k * (n \div k) + k
OBVIOUS

(* Pushing at the front adds one element, too. *)
LEMMA RangePush ==
  ASSUME NEW S, NEW q \in Seq(S), NEW x \in S
  PROVE  /\ <<x>> \o q \in Seq(S)
         /\ Range(<<x>> \o q) = Range(q) \cup {x}
         /\ IsInjective(q) /\ x \notin Range(q) => IsInjective(<<x>> \o q)
<1> DEFINE p == <<x>> \o q
<1>0. <<x>> \in Seq(S) /\ Len(<<x>>) = 1 /\ <<x>>[1] = x
  OBVIOUS
<1>1. p \in Seq(S) /\ Len(p) = Len(q) + 1
  BY <1>0, ConcatProperties
<1>2. /\ Len(q) \in Nat /\ DOMAIN q = 1 .. Len(q)
      /\ DOMAIN p = 1 .. (Len(q) + 1)
  BY <1>1, LenProperties
<1>3. \A i \in 1 .. (Len(q) + 1) : p[i] = IF i <= 1 THEN <<x>>[i] ELSE q[i - 1]
  BY <1>0, ConcatProperties
<1>4. p[1] = x /\ \A i \in 1 .. Len(q) : p[i + 1] = q[i]
  BY <1>0, <1>2, <1>3
<1>5. \A i \in 1 .. (Len(q) + 1) : i = 1 \/ (i - 1 \in 1 .. Len(q) /\ p[i] = q[i - 1])
  BY <1>2, <1>3
<1>6. 1 \in DOMAIN p /\ \A i \in 1 .. Len(q) : i + 1 \in DOMAIN p
  BY <1>2
<1>7. Range(p) = Range(q) \cup {x}
  <2>1. ASSUME NEW y \in Range(p) PROVE y \in Range(q) \cup {x}
    BY <2>1, <1>2, <1>4, <1>5 DEF Range
  <2>2. ASSUME NEW y \in Range(q) \cup {x} PROVE y \in Range(p)
    <3> HIDE DEF p
    <3>1. CASE y = x
      BY <3>1, <1>4, <1>6 DEF Range
    <3>2. ASSUME NEW i \in 1 .. Len(q), y = q[i] PROVE y \in Range(p)
      <4>1. i + 1 \in DOMAIN p /\ p[i + 1] = y
        BY <3>2, <1>4, <1>6
      <4> QED BY <4>1 DEF Range
    <3> QED BY <2>2, <3>1, <3>2, <1>2 DEF Range
  <2> QED BY <2>1, <2>2
<1>8. ASSUME IsInjective(q), x \notin Range(q) PROVE IsInjective(p)
  <2>1. \A i \in 1 .. Len(q) : q[i] # x
    BY <1>2, <1>8 DEF Range
  <2>2. \A i, j \in 1 .. Len(q) : q[i] = q[j] => i = j
    BY <1>2, <1>8 DEF IsInjective
  <2>3. \A i, j \in 1 .. (Len(q) + 1) : p[i] = p[j] => i = j
    <3> SUFFICES ASSUME NEW i \in 1 .. (Len(q) + 1), NEW j \in 1 .. (Len(q) + 1),
                        p[i] = p[j]
                 PROVE  i = j
      OBVIOUS
    <3> HIDE DEF p
    <3>1. CASE i = 1
      BY <3>1, <1>4, <1>5, <2>1
    <3>2. CASE j = 1
      BY <3>2, <1>4, <1>5, <2>1
    <3>3. CASE i # 1 /\ j # 1
      BY <3>3, <1>2, <1>5, <2>2
    <3> QED BY <3>1, <3>2, <3>3
  <2> QED BY <1>2, <2>3 DEF IsInjective
<1> QED BY <1>1, <1>7, <1>8

(* The quotient and the remainder of N by K, and what adding a multiple of K *)
(* does to them.                                                             *)
LEMMA Order ==
  ASSUME NEW k \in Nat \ {0}, NEW m \in Nat, NEW n \in Nat, m < n
  PROVE  k * m \in Nat /\ k * n \in Nat /\ k * m + k <= k * n
<1>1. PICK d \in Nat : n = m + 1 + d
  <2>1. n - m - 1 \in Nat /\ n = m + 1 + (n - m - 1)
    OBVIOUS
  <2> QED BY <2>1
<1>2. k * n = k * m + k + k * d
  BY <1>1
<1>3. k * m \in Nat /\ k * n \in Nat /\ k * d \in Nat
  OBVIOUS
<1> QED BY <1>2, <1>3

LEMMA Quotient ==
  ASSUME NEW n \in Nat, NEW k \in Nat \ {0}, NEW m \in Nat
  PROVE  /\ n \div k = m <=> k * m <= n /\ n < k * m + k
         /\ n \div k >= m <=> n >= k * m
<1>1. PICK q \in Nat : q = n \div k /\ k * q <= n /\ n < k * q + k
  BY Division
<1>2. k * q \in Nat /\ k * m \in Nat
  OBVIOUS
<1>3. CASE q < m
  <2>1. k * q + k <= k * m
    BY <1>3, Order
  <2> QED BY <1>1, <1>2, <1>3, <2>1
<1>4. CASE m < q
  <2>1. k * m + k <= k * q
    BY <1>4, Order
  <2> QED BY <1>1, <1>2, <1>4, <2>1
<1>5. CASE m = q
  BY <1>1, <1>2, <1>5
<1> QED BY <1>3, <1>4, <1>5

LEMMA Remainder ==
  ASSUME NEW n \in Nat, NEW k \in Nat \ {0}
  PROVE  n % k \in 0 .. k - 1 /\ n % k = n - k * (n \div k)
OBVIOUS

LEMMA Shift ==
  ASSUME NEW n \in Nat, NEW k \in Nat \ {0}, NEW m \in Nat
  PROVE  (n + k * m) \div k = n \div k + m /\ (n + k * m) % k = n % k
<1>1. PICK q \in Nat : q = n \div k /\ k * q <= n /\ n < k * q + k
  BY Division
<1>2. PICK a \in Nat : a = n + k * m
  OBVIOUS
<1>3. k * (q + m) = k * q + k * m /\ k * q \in Nat /\ k * m \in Nat /\ q + m \in Nat
  OBVIOUS
<1>4. a \div k = q + m
  <2>1. k * (q + m) <= a /\ a < k * (q + m) + k
    BY <1>1, <1>2, <1>3
  <2>2. PICK s \in Nat : s = q + m
    OBVIOUS
  <2> QED BY <2>1, <2>2, Quotient
<1>5. a % k = a - k * (q + m) /\ n % k = n - k * q
  BY <1>1, <1>4, Remainder
<1>6. a % k = n % k
  BY <1>2, <1>3, <1>5
<1> QED BY ONLY <1>1, <1>2, <1>4, <1>6
=============================================================================
